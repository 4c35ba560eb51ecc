----------------------------- MODULE MemberPanel -----------------------------
(***************************************************************************)
(* A member's own panel (MemberAccount.tsx): her inbox, her preferences    *)
(* and her payout address, over api/me.  The first two are optimistic: the *)
(* panel changes when she taps and posts afterwards; a request that throws *)
(* reads the truth back, one that is answered with an error does not.  The *)
(* address is shown as it was read last.                                   *)
(*                                                                         *)
(* Her votes and proposals are in CircleVotes, her card in Cards.          *)
(***************************************************************************)
EXTENDS FiniteSets, Integers

CONSTANTS
    Keys,           \* the preferences
    DEFAULTS,       \* [Keys -> BOOLEAN]
    Addresses, None,
    Requests,       \* requests that may be under way at once
    LIMIT,          \* notices in a list
    MaxNotices, MaxTaps, MaxFailures      \* bounds

PanelConstants ==
    /\ DEFAULTS \in [Keys -> BOOLEAN]
    /\ None \notin Addresses
    /\ LIMIT \in Nat \ {0} /\ MaxNotices \in Nat

VARIABLES
    pref,           \* members.notify_pref, as normalize reads it
    notices, read,  \* her in_app notices, numbered as they come; those with read_at
    row,            \* members.payout_address, address_verified_at
    view,           \* what the panel shows
    req,            \* the requests
    doubtful,       \* history: the parts of the view shown after a failure that
                    \* nothing read back
    overlapped,     \* history: the parts with two requests at once
    taps, failures

panelVars == <<pref, notices, read, row, view, req, doubtful, overlapped, taps, failures>>

Parts == {"prefs", "notes", "row"}
All == 0            \* the argument of "mark all read"
Ids == 1..MaxNotices
Rows == [address : Addresses \cup {None}, verified : BOOLEAN]
Idle == [pc |-> "idle"]

PartOf(kind) ==
    CASE kind \in {"loadPrefs", "togglePref"} -> "prefs"
      [] kind \in {"loadNotes", "mark"} -> "notes"
      [] OTHER -> "row"

First(kind) ==
    CASE kind \in {"loadPrefs", "togglePref", "loadNotes", "refetch", "checkVerify"} -> "read"
      [] OTHER -> "write"

Request(kind, arg) == [pc |-> First(kind), kind |-> kind, arg |-> arg]

TypeOK ==
    /\ pref \in [Keys -> BOOLEAN]
    /\ notices \in 0..MaxNotices /\ read \subseteq 1..notices
    /\ row \in Rows
    /\ view.prefs \in [Keys -> BOOLEAN] /\ view.row \in Rows
    /\ view.marked \subseteq view.listed /\ view.listed \subseteq 1..notices
    /\ view.badge \in 0..MaxNotices
    /\ \A q \in Requests : req[q].pc \in {"idle", "read", "count", "ask", "write", "answer", "said no"}
    /\ doubtful \subseteq Parts /\ overlapped \subseteq Parts

\* The page is served with her row; the panel asks for the rest as it mounts,
\* and shows the defaults and an empty inbox until it comes.
Init ==
    /\ pref \in [Keys -> BOOLEAN]
    /\ notices \in 0..MaxNotices /\ read \in SUBSET (1..notices)
    /\ row \in {r \in Rows : r.verified => r.address # None}
    /\ view = [prefs |-> DEFAULTS, listed |-> {}, marked |-> {}, badge |-> 0, row |-> row]
    /\ \E p, n \in Requests :
        /\ p # n
        /\ req = [q \in Requests |-> IF q = p THEN Request("loadPrefs", None)
                                     ELSE IF q = n THEN Request("loadNotes", None) ELSE Idle]
    /\ doubtful = {} /\ overlapped = {}
    /\ taps = 0 /\ failures = 0

Busy(part) == \E q \in Requests : req[q].pc # "idle" /\ PartOf(req[q].kind) = part

\* Optimistic or not, a tap posts.
Tap(q, kind, arg, shown) ==
    /\ taps < MaxTaps /\ taps' = taps + 1
    /\ req[q].pc = "idle"
    /\ req' = [req EXCEPT ![q] = Request(kind, arg)]
    /\ view' = shown
    /\ overlapped' = IF Busy(PartOf(kind)) THEN overlapped \cup {PartOf(kind)} ELSE overlapped
    /\ UNCHANGED <<pref, notices, read, row, doubtful, failures>>

Under(kind) == \E q \in Requests : req[q].pc # "idle" /\ req[q].kind = kind

togglePref(q, k) ==
    Tap(q, "togglePref", [key |-> k, to |-> ~view.prefs[k]],
        [view EXCEPT !.prefs[k] = ~@])

\* The button is there while the badge counts something.
markAllRead(q) ==
    /\ view.badge > 0
    /\ Tap(q, "mark", All, [view EXCEPT !.marked = view.listed, !.badge = 0])

\* onClick: only one that is shown unread.
markOne(q, n) ==
    /\ n \in view.listed \ view.marked
    /\ Tap(q, "mark", n, [view EXCEPT !.marked = @ \cup {n},
                                      !.badge = IF @ > 0 THEN @ - 1 ELSE 0])

\* An address that passes the pattern, or none; another member's is refused by
\* the index (Refused).
saveAddress(q, a) ==
    /\ ~Under("saveAddress")
    /\ Tap(q, "saveAddress", a, view)

\* The button stands beside an address that is shown unverified.
checkVerify(q) ==
    /\ view.row.address # None /\ ~view.row.verified
    /\ ~Under("checkVerify")
    /\ Tap(q, "checkVerify", None, view)

-----------------------------------------------------------------------------
(* The endpoints                                                           *)

Step(q, to) == req' = [req EXCEPT ![q].pc = to]
Has(q, kind, pc) == req[q].pc = pc /\ req[q].kind = kind
Got(q, to, value) == req' = [req EXCEPT ![q] = [pc |-> to, kind |-> req[q].kind,
                                                arg |-> req[q].arg, got |-> value]]

serverVars == <<pref, notices, read, row>>
rest == <<view, doubtful, overlapped, taps, failures>>

ReadPrefs(q) ==
    /\ \/ Has(q, "loadPrefs", "read") /\ Got(q, "answer", pref)
       \/ Has(q, "togglePref", "read") /\ Got(q, "write", pref)
    /\ UNCHANGED <<serverVars, rest>>

\* Mutant: merged over the defaults.
OverDefaults(was, change) == [DEFAULTS EXCEPT ![change.key] = change.to]

\* "merged over what she already has"
Merged(was, change) == [was EXCEPT ![change.key] = change.to]

WritePrefs(q) ==
    /\ Has(q, "togglePref", "write")
    /\ pref' = Merged(req[q].got, req[q].arg)
    /\ Step(q, "answer")
    /\ UNCHANGED <<notices, read, row, rest>>

\* The newest LIMIT notices, then the number of all that are unread.
ListNotes(q) ==
    /\ Has(q, "loadNotes", "read")
    /\ LET listed == {n \in 1..notices : n > notices - LIMIT}
       IN  Got(q, "count", [listed |-> listed, marked |-> listed \cap read, badge |-> 0])
    /\ UNCHANGED <<serverVars, rest>>

CountNotes(q) ==
    /\ Has(q, "loadNotes", "count")
    /\ Got(q, "answer", [req[q].got EXCEPT !.badge = Cardinality((1..notices) \ read)])
    /\ UNCHANGED <<serverVars, rest>>

\* Without an id, all of hers, also those she was not shown.
Mark(q) ==
    /\ Has(q, "mark", "write")
    /\ read' = read \cup (IF req[q].arg = All THEN 1..notices ELSE {req[q].arg})
    /\ Step(q, "answer")
    /\ UNCHANGED <<pref, notices, row, rest>>

SaveAddress(q) ==
    /\ Has(q, "saveAddress", "write")
    /\ row' = [address |-> req[q].arg, verified |-> FALSE]
    /\ Step(q, "answer")
    /\ UNCHANGED <<pref, notices, read, rest>>

\* address_taken: an answer with a reason, nothing written.
Refused(q) ==
    /\ Has(q, "saveAddress", "write") /\ req[q].arg # None
    /\ req' = [req EXCEPT ![q] = Idle]
    /\ UNCHANGED <<serverVars, rest>>

\* The address is asked about; the stamp goes to the row, whatever its address
\* is by then (none, it may be).
ReadAddress(q) ==
    /\ Has(q, "checkVerify", "read")
    /\ Step(q, IF row.address = None THEN "said no" ELSE "ask")
    /\ UNCHANGED <<serverVars, rest>>

AskVerify(q) ==
    /\ Has(q, "checkVerify", "ask")
    /\ Step(q, "write") \/ Step(q, "said no")
    /\ UNCHANGED <<serverVars, rest>>

Stamp(q) ==
    /\ Has(q, "checkVerify", "write")
    /\ row' = [row EXCEPT !.verified = TRUE]
    /\ Step(q, "answer")
    /\ UNCHANGED <<pref, notices, read, rest>>

ReadAccount(q) ==
    /\ Has(q, "refetch", "read")
    /\ Got(q, "answer", row)
    /\ UNCHANGED <<serverVars, rest>>

-----------------------------------------------------------------------------
(* The answers                                                             *)

Loaded(q) ==
    LET got == req[q].got IN
    CASE req[q].kind = "loadPrefs" -> [view EXCEPT !.prefs = got]
      [] req[q].kind = "loadNotes" -> [prefs |-> view.prefs, row |-> view.row, listed |-> got.listed,
                                       marked |-> got.marked, badge |-> got.badge]
      [] OTHER -> [view EXCEPT !.row = got]

IsLoad(q) == req[q].kind \in {"loadPrefs", "loadNotes", "refetch"}

\* A load is shown; a toggle and a mark have been; an address is read again, and
\* a "no" from Verify is a message.
Answered(q) ==
    /\ req[q].pc \in {"answer", "said no"}
    /\ IF IsLoad(q)
       THEN /\ view' = Loaded(q)
            /\ doubtful' = doubtful \ {PartOf(req[q].kind)}
            /\ req' = [req EXCEPT ![q] = Idle]
       ELSE /\ req' = [req EXCEPT ![q] =
                IF PartOf(req[q].kind) = "row" /\ req[q].pc = "answer"
                THEN Request("refetch", None) ELSE Idle]
            /\ UNCHANGED <<view, doubtful>>
    /\ UNCHANGED <<serverVars, overlapped, taps, failures>>

Fails ==
    /\ failures < MaxFailures
    /\ failures' = failures + 1

\* Mutant: a request that throws is forgotten.
Forget(kind) == Idle

\* catch: the truth is read back.
ReadBack(kind) ==
    CASE kind = "togglePref" -> Request("loadPrefs", None)
      [] kind = "mark" -> Request("loadNotes", None)
      [] OTHER -> Idle

\* The connection is gone, before the request did what it does or after.
Throws(q) ==
    /\ req[q].pc # "idle"
    /\ Fails
    /\ req' = [req EXCEPT ![q] = ReadBack(req[q].kind)]
    /\ doubtful' = IF req[q].kind \in {"togglePref", "mark"} THEN doubtful
                   ELSE doubtful \cup {PartOf(req[q].kind)}
    /\ UNCHANGED <<serverVars, view, overlapped, taps>>

\* load_failed, update_failed: nobody looks at an answer that is not ok, and the
\* view stays.  (An answer is also an error when its last statement was lost.)
Error(q) ==
    /\ req[q].pc \in {"read", "count", "write"}
    /\ Fails
    /\ req' = [req EXCEPT ![q] = Idle]
    /\ doubtful' = doubtful \cup {PartOf(req[q].kind)}
    /\ UNCHANGED <<serverVars, view, overlapped, taps>>

\* The observation or a cron writes her a notice.
Arrive ==
    /\ notices < MaxNotices
    /\ notices' = notices + 1
    /\ UNCHANGED <<pref, read, row, req, rest>>

Next ==
    \/ Arrive
    \/ \E q \in Requests :
        \/ \E k \in Keys : togglePref(q, k)
        \/ markAllRead(q)
        \/ \E n \in view.listed : markOne(q, n)
        \/ \E a \in Addresses \cup {None} : saveAddress(q, a)
        \/ checkVerify(q)
        \/ ReadPrefs(q) \/ WritePrefs(q) \/ ListNotes(q) \/ CountNotes(q) \/ Mark(q)
        \/ SaveAddress(q) \/ Refused(q) \/ ReadAddress(q) \/ AskVerify(q) \/ Stamp(q)
        \/ ReadAccount(q) \/ Answered(q) \/ Throws(q) \/ Error(q)

Spec == Init /\ [][Next]_panelVars

-----------------------------------------------------------------------------
(* Properties *)

\* What she sees is what is stored, once the requests for a part of the panel
\* have ended, came one at a time, and no failure was left unread: her
\* preferences, the marks on the notices listed, her address and whether it is
\* verified; and the badge counts the unread notices listed and none that is read.
PanelAgrees ==
    \A part \in Parts \ (doubtful \cup overlapped) : ~Busy(part) =>
        CASE part = "prefs" -> view.prefs = pref
          [] part = "notes" ->
                /\ view.marked = view.listed \cap read
                /\ Cardinality(view.listed \ view.marked) <= view.badge
                /\ view.badge <= Cardinality((1..notices) \ read)
          [] OTHER -> view.row = row

=============================================================================
