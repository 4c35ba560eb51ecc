------------------------------ MODULE MailDesk ------------------------------
(***************************************************************************)
(* Filing mail in the admin panel: the list of a folder, loaded without a  *)
(* lock; a selection deleted, destroyed or moved one message at a time; a  *)
(* standing rule offered afterwards.  Another panel works on the same      *)
(* mailbox.                                                                *)
(* components/admin/mailboxWindows.client.ts, api/admin/mail/index.ts GET, *)
(* api/admin/mail/organize.ts; MailSync takes the moves apart that are one *)
(* step here.                                                              *)
(***************************************************************************)
EXTENDS Naturals, FiniteSets

CONSTANTS
    Messages,
    Sender,       \* [Messages -> who wrote it]
    Start,        \* [Messages -> the folder it is in at first]
    Folders,      \* the folders with a tab, Trash among them
    INBOX, Trash,
    Gone,         \* the place of a destroyed message
    MaxLoads,     \* bound: loads of a list
    MaxActs,      \* bound: organize requests
    MaxPolls,     \* bound: moved messages found again by a poll
    MaxElsewhere, \* bound: moves by the other panel
    MaxFailures   \* bound: IMAP commands that fail, requests that die

Loads == 1..MaxLoads   \* each load is made once, and may be slow
Acts == 1..MaxActs

\* What the constants are.
DeskConstants == /\ {INBOX, Trash} \subseteq Folders /\ Gone \notin Folders
                 /\ IsFiniteSet(Messages) /\ Start \in [Messages -> Folders]
                 /\ MaxLoads \in Nat /\ MaxActs \in Nat /\ MaxPolls \in Nat

VARIABLES
    place,        \* mail_messages: folder, whether it has a uid yet, and which
                  \* row of the message it is (a poll replaces a moved row)
    tab,          \* the active tab
    bar,          \* the tab that the toolbar's buttons were last set for
    list,         \* the rendered rows: [id, was, on]
    load,         \* [Loads -> the folder asked for and the rows answered]
    act,          \* [Acts -> organize request]
    offer,        \* the rule offered: [from, folder] or none
    rules,        \* mail_rules
    filed,        \* history: [from, folder] of messages put there, or found
                  \* there, at her request
    taken,        \* history: messages that somebody else moved or destroyed
                  \* between the SELECT of a request and its turn for them
    loads, acts, polls, elsewhere, failures

vars == <<place, tab, bar, list, load, act, offer, rules, filed, taken, loads, acts, polls,
          elsewhere, failures>>
panel == <<tab, bar, list, load, loads>>
bounds == <<polls, elsewhere>>

NoLoad == [pc |-> "idle", tab |-> INBOX, rows |-> {}]
NoAct == [pc |-> "idle", deed |-> "delete", ids |-> {}, goal |-> Trash, alone |-> FALSE,
          todo |-> {}, done |-> {}]
Ids == [msg : Messages, row : 0..MaxPolls]
Id(m) == [msg |-> m, row |-> place[m].row]
Line(m) == [id |-> Id(m), was |-> place[m].folder, on |-> FALSE]

TypeOK ==
    /\ place \in [Messages -> [folder : Folders \union {Gone}, synced : BOOLEAN, row : 0..MaxPolls]]
    /\ tab \in Folders /\ bar \in Folders
    /\ list \subseteq [id : Ids, was : Folders, on : BOOLEAN]
    /\ \A l, k \in list : l.id = k.id => l = k
    /\ \A l \in Loads : load[l].pc \in {"idle", "asked", "answered"}
    /\ \A a \in Acts : /\ act[a].pc \in {"idle", "read", "next", "reply"}
                       /\ act[a].done \subseteq act[a].ids
    /\ offer \in SUBSET [from : {Sender[m] : m \in Messages}, folder : Folders]
    /\ Cardinality(offer) <= 1
    /\ taken \subseteq Messages

\* The panel has opened on the inbox.
Init ==
    /\ place = [m \in Messages |-> [folder |-> Start[m], synced |-> TRUE, row |-> 0]]
    /\ tab = INBOX /\ bar = INBOX
    /\ list = {Line(m) : m \in {m \in Messages : Start[m] = INBOX}}
    /\ load = [l \in Loads |-> NoLoad]
    /\ act = [a \in Acts |-> NoAct]
    /\ offer = {} /\ rules = {} /\ filed = {} /\ taken = {}
    /\ loads = 0 /\ acts = 0 /\ polls = 0 /\ elsewhere = 0 /\ failures = 0

Fail == failures < MaxFailures /\ failures' = failures + 1
Checked == {l \in list : l.on}

-----------------------------------------------------------------------------
(* The list *)

\* load() reads the tab once, before the request.
LoadAs(l, t) ==
    /\ l = loads + 1
    /\ loads' = l
    /\ load' = [load EXCEPT ![l] = [NoLoad EXCEPT !.pc = "asked", !.tab = t]]

Tab(l, t) ==
    /\ tab' = t
    /\ LoadAs(l, t)
    /\ UNCHANGED <<place, bar, list, act, offer, rules, filed, taken, acts, bounds, failures>>

\* Check now, and what else ends in load().
Reload(l) ==
    /\ LoadAs(l, tab)
    /\ UNCHANGED <<place, tab, bar, list, act, offer, rules, filed, taken, acts, bounds, failures>>

LoadRead(l) ==
    /\ load[l].pc = "asked"
    /\ load' = [load EXCEPT ![l].pc = "answered",
                            ![l].rows = {Line(m) : m \in {m \in Messages : place[m].folder = load[l].tab}}]
    /\ UNCHANGED <<place, tab, bar, list, loads, act, offer, rules, filed, taken, acts, bounds, failures>>

\* Whichever answer comes last is shown, whatever tab is active by then.
LoadShow(l) ==
    /\ load[l].pc = "answered"
    /\ load' = [load EXCEPT ![l] = NoLoad]
    /\ list' = load[l].rows
    /\ bar' = tab
    /\ UNCHANGED <<place, tab, loads, act, offer, rules, filed, taken, acts, bounds, failures>>

Check(k) ==
    /\ k \in list \ Checked
    /\ list' = (list \ {k}) \union {[k EXCEPT !.on = TRUE]}
    /\ bar' = tab
    /\ UNCHANGED <<place, tab, load, loads, act, offer, rules, filed, taken, acts, bounds, failures>>

-----------------------------------------------------------------------------
(* The other panel, and the poll *)

Moved(m, f) == place' = [place EXCEPT ![m].folder = f, ![m].synced = FALSE]

\* A request that has read the message works on from what it read.
Noted(m, requests) ==
    taken' = IF \E a \in requests : \E i \in act[a].todo : i.id.msg = m THEN taken \union {m} ELSE taken

Elsewhere(m, f) ==
    /\ elsewhere < MaxElsewhere
    /\ place[m].synced /\ f \in Folders \ {place[m].folder} /\ place[m].folder # Gone
    /\ Moved(m, f) /\ Noted(m, Acts)
    /\ elsewhere' = elsewhere + 1
    /\ UNCHANGED <<panel, act, offer, rules, filed, acts, polls, failures>>

\* A poll of the folder a message was moved to replaces its row.
Poll(m) ==
    /\ polls < MaxPolls
    /\ place[m].folder # Gone /\ ~place[m].synced
    /\ place' = [place EXCEPT ![m].synced = TRUE, ![m].row = @ + 1]
    /\ polls' = polls + 1
    /\ UNCHANGED <<panel, act, offer, rules, filed, taken, acts, elsewhere, failures>>

-----------------------------------------------------------------------------
(* organize *)

Ask(a, deed, ids, goal, alone) ==
    /\ a = acts + 1
    /\ acts' = a
    /\ ids # {}
    /\ act' = [act EXCEPT ![a] = [NoAct EXCEPT !.pc = "read", !.deed = deed, !.ids = ids,
                                               !.goal = goal, !.alone = alone]]
    /\ UNCHANGED <<place, panel, offer, rules, filed, taken, bounds, failures>>

\* Delete, Destroy and Move of one row: its button is from when it was rendered.
ActOnRow(a, k) ==
    \/ Ask(a, IF k.was = Trash THEN "destroy" ELSE "delete", {k.id}, Trash, TRUE)
    \/ \E f \in Folders \ {k.was} : Ask(a, "move", {k.id}, f, TRUE)

\* Ctrl+Shift+Delete goes by the active tab, a button by the tab it was shown
\* for.
ActOnSelection(a) ==
    \E t \in {tab, bar} :
        Ask(a, IF t = Trash THEN "destroy" ELSE "delete", {k.id : k \in Checked}, Trash, FALSE)

\* The menu moves the selection; a drag moves it or the one row outside it.
MoveSelection(a) ==
    \E ids \in {{k.id : k \in Checked}} \union {{k.id} : k \in list \ Checked} :
        \E f \in Folders \ {tab} : Ask(a, "move", ids, f, FALSE)

\* One SELECT for all of them; no row at all is an error.
ActRead(a) ==
    LET found == {i \in act[a].ids : place[i.msg].folder # Gone /\ place[i.msg].row = i.row} IN
    /\ act[a].pc = "read"
    /\ IF found = {} THEN act' = [act EXCEPT ![a] = NoAct]
       ELSE act' = [act EXCEPT ![a].pc = "next",
                ![a].todo = {[id |-> i, folder |-> place[i.msg].folder,
                              synced |-> place[i.msg].synced] : i \in found}]
    /\ UNCHANGED <<place, panel, offer, rules, filed, taken, acts, bounds, failures>>

In(m, f) == [from |-> Sender[m], folder |-> f]
Target(a, item) == IF act[a].deed = "move" THEN act[a].goal ELSE Trash

\* The uid is still of this message in this folder. If not, the server does
\* nothing, and says so to nobody.
StillThere(item) ==
    LET p == place[item.id.msg] IN p.folder = item.folder /\ p.synced /\ p.row = item.id.row

Over(a, item, ok) ==
    act' = [act EXCEPT ![a].todo = @ \ {item},
                       ![a].done = IF ok THEN @ \union {item.id} ELSE @,
                       ![a].pc = IF act[a].todo = {item} THEN "reply" ELSE "next"]

\* Mutant: Destroy trusts the panel.
RefusedUnsynced(a, item) == ~item.synced

\* No uid yet; or asked to destroy what is not in Trash.
Refused(a, item) == ~item.synced \/ (act[a].deed = "destroy" /\ item.folder # Trash)

\* Moving a message to where it is already: nothing to do, and done. A second
\* delete in Trash only flags it.
ActSkip(a, item) ==
    /\ item \in act[a].todo
    /\ \/ Refused(a, item) /\ Over(a, item, FALSE) /\ filed' = filed
       \/ /\ ~Refused(a, item)
          /\ act[a].deed # "destroy" /\ Target(a, item) = item.folder
          /\ Over(a, item, TRUE)
          /\ filed' = filed \union {In(item.id.msg, item.folder)}
    /\ UNCHANGED <<place, panel, offer, rules, taken, acts, bounds, failures>>

\* messageMove and the UPDATE answer alike whether they found the message.
ActMove(a, item) ==
    /\ item \in act[a].todo
    /\ ~Refused(a, item)
    /\ act[a].deed # "destroy" /\ Target(a, item) # item.folder
    /\ IF StillThere(item)
       THEN /\ Moved(item.id.msg, Target(a, item)) /\ Noted(item.id.msg, Acts \ {a})
            /\ filed' = filed \union {In(item.id.msg, Target(a, item))}
       ELSE UNCHANGED <<place, filed, taken>>
    /\ Over(a, item, TRUE)
    /\ UNCHANGED <<panel, offer, rules, acts, bounds, failures>>

\* The server expunges that uid in that folder, whatever it is by now.
ActDestroy(a, item) ==
    /\ item \in act[a].todo
    /\ ~Refused(a, item) /\ act[a].deed = "destroy"
    /\ IF StillThere(item)
       THEN place' = [place EXCEPT ![item.id.msg].folder = Gone] /\ Noted(item.id.msg, Acts \ {a})
       ELSE UNCHANGED <<place, taken>>
    /\ Over(a, item, TRUE)
    /\ UNCHANGED <<panel, offer, rules, filed, acts, bounds, failures>>

\* The server refuses this one; the loop goes on.
ActFails(a, item) ==
    /\ Fail
    /\ item \in act[a].todo /\ ~Refused(a, item)
    /\ Over(a, item, FALSE)
    /\ UNCHANGED <<place, panel, offer, rules, filed, taken, acts, bounds>>

ActDies(a) ==
    /\ Fail
    /\ act[a].pc # "idle"
    /\ act' = [act EXCEPT ![a] = NoAct]
    /\ UNCHANGED <<place, panel, offer, rules, filed, taken, acts, bounds>>

\* Mutant: the senders of all that was asked for.
AskedRows(a) == {k \in list : k.id \in act[a].ids}

DoneRows(a) == {k \in list : k.id \in act[a].done}

\* The answer: rows go; after a move of a selection, a rule is offered if the
\* rows that went had one sender between them. For a single row, ok covers
\* whatever became of it.
ActReply(a) ==
    LET rows == DoneRows(a)
        senders == {Sender[k.id.msg] : k \in rows} IN
    /\ act[a].pc = "reply"
    /\ act' = [act EXCEPT ![a] = NoAct]
    /\ list' = IF act[a].alone THEN {k \in list : k.id \notin act[a].ids} ELSE list \ rows
    /\ bar' = IF act[a].alone THEN bar ELSE tab
    /\ offer' = IF act[a].alone \/ act[a].deed # "move" THEN offer
                ELSE IF Cardinality(senders) # 1 THEN {}
                ELSE {In(k.id.msg, act[a].goal) : k \in rows}
    /\ UNCHANGED <<place, tab, load, loads, rules, filed, taken, acts, bounds, failures>>

\* "This sender": create-rule replaces the sender's earlier one. Or "No".
Answer ==
    /\ offer # {}
    /\ offer' = {}
    /\ \/ rules' = {r \in rules : \A o \in offer : r.from # o.from} \union offer
       \/ rules' = rules
    /\ UNCHANGED <<place, panel, act, filed, taken, acts, bounds, failures>>

-----------------------------------------------------------------------------
Next ==
    \/ \E l \in Loads : LoadRead(l) \/ LoadShow(l) \/ Reload(l) \/ \E t \in Folders \ {tab} : Tab(l, t)
    \/ \E k \in list : Check(k)
    \/ \E m \in Messages : Poll(m) \/ \E f \in Folders : Elsewhere(m, f)
    \/ \E a \in Acts :
        \/ ActOnSelection(a) \/ MoveSelection(a) \/ ActRead(a) \/ ActReply(a) \/ ActDies(a)
        \/ \E k \in list : ActOnRow(a, k)
        \/ \E i \in act[a].todo : ActSkip(a, i) \/ ActMove(a, i) \/ ActDestroy(a, i) \/ ActFails(a, i)
    \/ Answer

Spec == Init /\ [][Next]_vars

-----------------------------------------------------------------------------
(* Properties *)

\* organize.ts:126: the one action with no undo is for Trash only, for every id
\* of a batch: whatever a list rendered for another folder, a tab changed under
\* it or the other panel asks for, a message ends only where it was in Trash.
DestroyOnlyFromTrash ==
    [][\A m \in Messages : place'[m].folder = Gone => place[m].folder \in {Trash, Gone}]_vars

\* A standing rule names a sender and a folder that mail of hers was put in, or
\* found in when the request read it, and never what a failed move would have
\* done.  The exception is mail that somebody else took away under the request:
\* organize.ts:143-144 counts it as moved, since neither the server's MOVE nor
\* the UPDATE of mailSync.ts:860-880 says that it found nothing.
Backed(r) == r \in filed \/ \E m \in taken : Sender[m] = r.from
RuleFromAMove == \A r \in rules : Backed(r)

=============================================================================
