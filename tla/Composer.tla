------------------------------ MODULE Composer ------------------------------
(***************************************************************************)
(* Writing a letter in the admin mail panel: the form, saving it as a      *)
(* draft (a row of ours and a copy in the mailbox's Drafts folder),        *)
(* sending it, discarding it.                                              *)
(* components/admin/mailboxWindows.client.ts, api/admin/mail/draft.ts,     *)
(* lib/mailSync.ts saveDraft and deleteDraft                               *)
(***************************************************************************)
EXTENDS Naturals, FiniteSets

CONSTANTS
    Letters,      \* what the operator writes
    Drafts,       \* ids of mail_drafts rows
    None,
    MaxFailures,  \* bound: requests that fail or die
    MaxCopies     \* bound: messages appended to the Drafts folder

\* What the constants are.
ComposerConstants ==
    /\ None \notin Letters \union Drafts
    /\ MaxFailures \in Nat /\ MaxCopies \in Nat

VARIABLES
    form,         \* the dialog: shown?, its letter, its hidden draft id
    shown,        \* the drafts the list was last rendered with
    rows,         \* mail_drafts: [draft, letter, uid]
    copies,       \* the server's Drafts folder: [letter, uid]
    uidNext,
    save,         \* the save under way (its button is disabled meanwhile)
    drop,         \* ["send", "discard" -> the request that ends in deleteDraft]
    told,         \* history: "kept" in Drafts, she was told; "over": sent or
                  \* discarded since; "no": neither
    hurried,      \* history: letters she worked on without waiting for a save
                  \* or a deletion under way, and the letters of those
    failures

vars == <<form, shown, rows, copies, uidNext, save, drop, told, hurried, failures>>

Row(d, l, u) == [draft |-> d, letter |-> l, uid |-> u]
NoSave == [pc |-> "idle", draft |-> None, letter |-> None, prev |-> 0, uid |-> 0]
NoDrop == [pc |-> "idle", draft |-> None, letter |-> None, uid |-> 0]
Ways == {"send", "discard"}

TypeOK ==
    /\ form \in [open : BOOLEAN, letter : Letters \union {None}, draft : Drafts \union {None}]
    /\ \A r \in rows : /\ r \in [draft : Drafts, letter : Letters, uid : 1..MaxCopies]
                       /\ \A q \in rows : q.draft = r.draft => q = r
    /\ \A c, e \in copies : c.uid = e.uid => c = e
    /\ uidNext \in 1..(MaxCopies + 1)
    /\ save.pc \in {"idle", "read", "append", "drop", "row", "reply"}
    /\ \A w \in Ways : drop[w].pc \in {"idle", "post", "read", "drop", "row", "reply"}
    /\ told \in [Letters -> {"no", "kept", "over"}]
    /\ hurried \subseteq Letters
    /\ failures \in 0..MaxFailures

Init ==
    /\ form = [open |-> FALSE, letter |-> None, draft |-> None]
    /\ shown = {} /\ rows = {} /\ copies = {} /\ uidNext = 1
    /\ save = NoSave
    /\ drop = [w \in Ways |-> NoDrop]
    /\ told = [l \in Letters |-> "no"]
    /\ hurried = {}
    /\ failures = 0

Saving == save.pc # "idle"
Dropping == {w \in Ways : drop[w].pc # "idle"}

\* Nothing in the panel makes her wait: what she takes up meanwhile is noted.
WhileSaving(l) == hurried' = IF Saving THEN hurried \union {save.letter, l} ELSE hurried

Fail == failures < MaxFailures /\ failures' = failures + 1
Written == {l \in Letters : told[l] # "no"} \union {r.letter : r \in rows} \union {c.letter : c \in copies}
             \union {form.letter, save.letter, drop["send"].letter}

-----------------------------------------------------------------------------
(* The form *)

\* openForm sets the hidden id whatever the form held before.
openForm(l, d) ==
    /\ form' = [open |-> TRUE, letter |-> l, draft |-> d]
    /\ WhileSaving(l)
    /\ UNCHANGED <<shown, rows, copies, uidNext, save, drop, told, failures>>

\* A new letter; which of Letters it is makes no difference.
Compose ==
    /\ Letters \ Written # {}
    /\ openForm(CHOOSE l \in Letters : l \notin Written, None)

Edit(r) == r \in shown /\ openForm(r.letter, r.draft)

Cancel ==
    /\ form.open
    /\ form' = [form EXCEPT !.open = FALSE]
    /\ UNCHANGED <<shown, rows, copies, uidNext, save, drop, told, hurried, failures>>

\* load() of the Drafts tab.
Show ==
    /\ shown' = rows
    /\ UNCHANGED <<form, rows, copies, uidNext, save, drop, told, hurried, failures>>

-----------------------------------------------------------------------------
(* Saving *)

SaveTo(from, to) ==
    /\ save.pc = from
    /\ save' = [save EXCEPT !.pc = to]

Save ==
    /\ form.open /\ ~Saving
    /\ save' = [NoSave EXCEPT !.pc = IF form.draft = None THEN "append" ELSE "read",
                              !.draft = form.draft, !.letter = form.letter]
    /\ hurried' = IF Dropping = {} THEN hurried
                  ELSE hurried \union {form.letter} \union {drop[w].letter : w \in Dropping}
    /\ UNCHANGED <<form, shown, rows, copies, uidNext, drop, told, failures>>

\* Mutant: the old copy goes first.
DropFirst ==
    /\ save.pc = "read"
    /\ \E u \in {0} \union {r.uid : r \in {q \in rows : q.draft = save.draft}} :
        /\ u = 0 => \A r \in rows : r.draft # save.draft
        /\ copies' = {c \in copies : c.uid # u}
    /\ save' = [save EXCEPT !.pc = "append"]
    /\ UNCHANGED <<form, shown, rows, uidNext, drop, told, hurried, failures>>

\* The server copy this save will replace.
SaveRead ==
    /\ save.pc = "read"
    /\ \/ /\ \A r \in rows : r.draft # save.draft
          /\ save' = [save EXCEPT !.pc = "append"]
       \/ \E r \in rows : /\ r.draft = save.draft
                          /\ save' = [save EXCEPT !.pc = "append", !.prev = r.uid]
    /\ UNCHANGED <<form, shown, rows, copies, uidNext, drop, told, hurried, failures>>

\* The ids that rows, the form or the list refer to.
Used == {r.draft : r \in rows \union shown} \union {form.draft, drop["send"].draft, drop["discard"].draft}

\* Append first. A new draft gets a fresh id.
SaveAppend ==
    /\ save.pc = "append"
    /\ uidNext <= MaxCopies
    /\ save.draft = None => Drafts \ Used # {}
    /\ save' = [save EXCEPT !.pc = "drop", !.uid = uidNext,
                            !.draft = IF @ # None THEN @ ELSE CHOOSE d \in Drafts : d \notin Used]
    /\ copies' = copies \union {[letter |-> save.letter, uid |-> uidNext]}
    /\ uidNext' = uidNext + 1
    /\ UNCHANGED <<form, shown, rows, drop, told, hurried, failures>>

\* Mutant: no delete, as if a changed draft could be edited in place.
KeepOld ==
    /\ SaveTo("drop", "row")
    /\ UNCHANGED <<form, shown, rows, copies, uidNext, drop, told, hurried, failures>>

\* Delete second; if that fails the old copy stays.
SaveDrop ==
    /\ SaveTo("drop", "row")
    /\ \/ copies' = {c \in copies : c.uid # save.prev} /\ failures' = failures
       \/ copies' = copies /\ Fail
    /\ UNCHANGED <<form, shown, rows, uidNext, drop, told, hurried>>

SaveRow ==
    /\ SaveTo("row", "reply")
    /\ rows' = {r \in rows : r.draft # save.draft} \union {Row(save.draft, save.letter, save.uid)}
    /\ UNCHANGED <<form, shown, copies, uidNext, drop, told, hurried, failures>>

\* The reply writes the id into whatever the form is showing by now.
SaveReply ==
    /\ save.pc = "reply"
    /\ save' = NoSave
    /\ form' = [form EXCEPT !.draft = save.draft]
    /\ told' = [told EXCEPT ![save.letter] = "kept"]
    /\ UNCHANGED <<shown, rows, copies, uidNext, drop, hurried, failures>>

\* The append is refused, a statement throws, the process or the reply is lost.
SaveFails ==
    /\ Fail
    /\ Saving
    /\ save' = NoSave
    /\ UNCHANGED <<form, shown, rows, copies, uidNext, drop, told, hurried>>

-----------------------------------------------------------------------------
(* Sending and discarding: both end in deleteDraft *)

DropTo(w, from, to) ==
    /\ drop[w].pc = from
    /\ drop' = [drop EXCEPT ![w].pc = to]

\* The submit handler reads the id before the request.
Send ==
    /\ form.open /\ drop["send"].pc = "idle"
    /\ drop' = [drop EXCEPT !["send"] = [NoDrop EXCEPT !.pc = "post", !.draft = form.draft,
                                                       !.letter = form.letter]]
    /\ WhileSaving(form.letter)
    /\ UNCHANGED <<form, shown, rows, copies, uidNext, save, told, failures>>

\* The letter went out; a draft it came from is one no longer.
SendPost ==
    /\ DropTo("send", "post", IF drop["send"].draft = None THEN "reply" ELSE "read")
    /\ told' = [told EXCEPT ![drop["send"].letter] = "over"]
    /\ UNCHANGED <<form, shown, rows, copies, uidNext, save, hurried, failures>>

Discard(r) ==
    /\ r \in shown
    /\ drop["discard"].pc = "idle"
    /\ drop' = [drop EXCEPT !["discard"] = [NoDrop EXCEPT !.pc = "read", !.draft = r.draft,
                                                          !.letter = r.letter]]
    /\ told' = [told EXCEPT ![r.letter] = "over"]
    /\ WhileSaving(r.letter)
    /\ UNCHANGED <<form, shown, rows, copies, uidNext, save, failures>>

DropRead(w) ==
    /\ drop[w].pc = "read"
    /\ \/ /\ \A r \in rows : r.draft # drop[w].draft
          /\ drop' = [drop EXCEPT ![w].pc = "row"]
       \/ \E r \in rows : /\ r.draft = drop[w].draft
                          /\ drop' = [drop EXCEPT ![w].pc = "drop", ![w].uid = r.uid]
    /\ UNCHANGED <<form, shown, rows, copies, uidNext, save, told, hurried, failures>>

\* An unreachable server does not keep the row.
DropCopy(w) ==
    /\ DropTo(w, "drop", "row")
    /\ \/ copies' = {c \in copies : c.uid # drop[w].uid} /\ failures' = failures
       \/ copies' = copies /\ Fail
    /\ UNCHANGED <<form, shown, rows, uidNext, save, told, hurried>>

DropRow(w) ==
    /\ DropTo(w, "row", "reply")
    /\ rows' = {r \in rows : r.draft # drop[w].draft}
    /\ UNCHANGED <<form, shown, copies, uidNext, save, told, hurried, failures>>

\* Sent: the dialog is closed, whatever it shows by now. Both reload the list.
DropReply(w) ==
    /\ drop[w].pc = "reply"
    /\ drop' = [drop EXCEPT ![w] = NoDrop]
    /\ form' = [form EXCEPT !.open = @ /\ w # "send"]
    /\ shown' = rows
    /\ UNCHANGED <<rows, copies, uidNext, save, told, hurried, failures>>

\* The letter was not sent, or the deletion did not run to its end.
DropFails(w) ==
    /\ Fail
    /\ drop[w].pc # "idle"
    /\ drop' = [drop EXCEPT ![w] = NoDrop]
    /\ UNCHANGED <<form, shown, rows, copies, uidNext, save, told, hurried>>

-----------------------------------------------------------------------------
Next ==
    \/ Compose
    \/ \E r \in shown : Edit(r) \/ Discard(r)
    \/ Cancel \/ Show
    \/ Save \/ SaveRead \/ SaveAppend \/ SaveDrop \/ SaveRow \/ SaveReply \/ SaveFails
    \/ Send \/ SendPost
    \/ \E w \in Ways : DropRead(w) \/ DropCopy(w) \/ DropRow(w) \/ DropReply(w) \/ DropFails(w)

Spec == Init /\ [][Next]_vars

-----------------------------------------------------------------------------
(* Properties *)

\* saveDraft's header: a lost draft is worse than a duplicated one. A letter she
\* was told is in Drafts stays there, in the mailbox itself, until she sends or
\* discards it: through edits, failed appends, requests that die, and haste
\* with other letters. Haste with this one can lose it.
Unhurried == Letters \ hurried
DraftKept == \A l \in Unhurried : told[l] = "kept" => \E c \in copies : c.letter = l

\* When nothing failed and nothing is under way, the panel's drafts and the
\* mailbox's of such letters are the same, one copy each, and none of a letter
\* that is sent or discarded.
DraftsAgree ==
    failures = 0 /\ ~Saving /\ Dropping = {} =>
        /\ {c \in copies : c.letter \in Unhurried}
               = {[letter |-> r.letter, uid |-> r.uid] : r \in {r \in rows : r.letter \in Unhurried}}
        /\ \A r, q \in rows : r.letter = q.letter /\ r.letter \in Unhurried => r = q
        /\ \A r \in rows : r.letter \in Unhurried => told[r.letter] # "over"

=============================================================================
