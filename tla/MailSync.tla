------------------------------ MODULE MailSync ------------------------------
(***************************************************************************)
(* One operator mailbox: the mail server's folders, the copy of them in    *)
(* mail_messages, the cursors in mail_folder_state, and the handlers that  *)
(* keep the copy: the poll (cron or the "Check now" button), organize      *)
(* (move, delete, destroy), filing rules, and sending.                     *)
(* lib/mailSync.ts, api/cron/sync-mail.ts, api/admin/mail/*.ts             *)
(***************************************************************************)
EXTENDS Integers, FiniteSets, Sequences, SequencesExt

CONSTANTS
    Arriving,     \* messages that others send to this mailbox
    Outgoing,     \* messages composed in the panel
    SelfCopied,   \* those of Outgoing that name this mailbox as a recipient
    FolderOrder,  \* the folders listFolders returns, in its order
    Filed,        \* the ordinary folders, that a thread may be followed into
    Ancestors,    \* [message -> the messages it answers, the nearest first]
    RuleTargets,  \* where a rule about the (one) sender may point
    None,
    Pollers, Operators,
    MaxPerPoll,   \* MAX_PER_POLL
    MaxRequests,  \* bound: organize requests
    MaxFailures,  \* bound: statements or connections that fail, requests that die
    MaxResets,    \* bound: times the server renumbers a folder
    Overlap       \* bound: may organize and send run while a poll does?

Messages == Arriving \union Outgoing
Folders == ToSet(FolderOrder)
INBOX == "INBOX"
SentBox == "INBOX.Sent"
Trash == "INBOX.Trash"
Fallback == "Sent"     \* where a sent row is filed until the real path is known
NULL == 0              \* a row without a uid; uids start at 1

SyncConstants ==
    /\ FolderOrder \in Seq(Folders)
    /\ {INBOX, Trash} \subseteq Folders
    /\ Outgoing # {} => SentBox \in Folders
    /\ Fallback \notin Folders
    /\ Filed \subseteq Folders \ {INBOX, SentBox, Trash}
    /\ RuleTargets \subseteq Folders
    /\ SelfCopied \subseteq Outgoing
    /\ Pollers \intersect Outgoing = {} /\ None \notin Pollers \union Outgoing \union Folders
    /\ MaxPerPoll \in Nat \ {0} /\ {MaxRequests, MaxFailures, MaxResets} \subseteq Nat

VARIABLES
    server,   \* [folder -> its messages, as [uid, msg]]
    uidNext,  \* [folder -> the uid of the next message]
    epoch,    \* [folder -> UIDVALIDITY]
    rows,     \* mail_messages
    cursor,   \* mail_folder_state
    rule,     \* mail_rules for the sender: a folder or None
    arrived,  \* messages that have been delivered
    poll, org, send,
    requests, failures, resets,
    overlapped  \* history: some poll, organize request or send began under another

serverVars == <<server, uidNext, epoch, arrived>>
bounds == <<requests, failures, resets, overlapped>>
vars == <<serverVars, rows, cursor, rule, poll, org, send, bounds>>

Mail(u, m) == [uid |-> u, msg |-> m]
NoCursor == [epoch |-> 0, last |-> 0]

\* owner is the request that still holds the row's id: two requests never
\* hold the same id, and an id nobody holds is of no further use here.
Row(f, u, ep, m, who) ==
    [folder |-> f, uid |-> u, epoch |-> ep, msg |-> m, files |-> 0,
     scanned |-> FALSE, owner |-> who]

IdlePoll == [pc |-> "idle", todo |-> <<>>, since |-> 0, batch |-> {}, target |-> None]
IdleOrg == [pc |-> "idle", todo |-> {}, item |-> [folder |-> INBOX, uid |-> NULL],
            target |-> None]

TypeOK ==
    /\ \A f \in Folders : \A e \in server[f] : e.uid \in 1..(uidNext[f] - 1) /\ e.msg \in Messages
    /\ \A f \in Folders : cursor[f].last \in Nat /\ cursor[f].epoch \in 0..epoch[f]
    /\ \A r \in rows : /\ r.folder \in Folders \union {Fallback}
                       /\ r.uid \in Nat
                       /\ r.msg \in Messages
                       /\ r.files \in Nat
                       /\ r.owner \in Pollers \union Outgoing \union {None}
    /\ rule \in Folders \union {None}
    /\ \A p \in Pollers :
        /\ poll[p].pc \in {"idle", "cursor", "fetch", "converge", "insert", "files",
                           "follow", "move", "moveRow", "moveCursor", "scan", "save"}
        /\ ToSet(poll[p].todo) \subseteq Folders
        /\ poll[p].pc = "idle" <=> poll[p].todo = <<>>
    /\ \A o \in Operators : org[o].pc \in {"idle", "next", "move", "moveRow", "moveCursor",
                                           "destroy", "destroyRow"}
    /\ \A m \in Outgoing : send[m] \in {"draft", "record", "append", "refile", "done",
                                        "failed", "gone"}
    /\ requests \in 0..MaxRequests /\ failures \in 0..MaxFailures /\ resets \in 0..MaxResets
    /\ overlapped \in BOOLEAN

Init ==
    /\ server = [f \in Folders |-> {}]
    /\ uidNext = [f \in Folders |-> 1]
    /\ epoch = [f \in Folders |-> 1]
    /\ rows = {}
    /\ cursor = [f \in Folders |-> NoCursor]
    /\ rule \in RuleTargets \union {None}   \* it may be an old one
    /\ arrived = {}
    /\ poll = [p \in Pollers |-> IdlePoll]
    /\ org = [o \in Operators |-> IdleOrg]
    /\ send = [m \in Outgoing |-> "draft"]
    /\ requests = 0 /\ failures = 0 /\ resets = 0
    /\ overlapped = FALSE

\* The folder a poll has selected.
Folder(p) == IF poll[p].todo = <<>> THEN None ELSE Head(poll[p].todo)

PollsRest == \A p \in Pollers : poll[p].pc = "idle"
RequestsRest == \A o \in Operators : org[o].pc = "idle"
PeopleRest == /\ RequestsRest
              /\ \A m \in Outgoing : send[m] \in {"draft", "done", "failed", "gone"}

\* What begins while the others are not at rest overlaps them.
Begins(alone) == overlapped' = (overlapped \/ ~alone)

-----------------------------------------------------------------------------
(* The mail server *)

\* By the \Trash or \Sent flag, or else by name; None where the server has none.
findFolderBySpecialUse(f) == IF f \in Folders THEN f ELSE None

findSentFolder == findFolderBySpecialUse(SentBox)

Append1(f, m) ==
    /\ server' = [server EXCEPT ![f] = @ \union {Mail(uidNext[f], m)}]
    /\ uidNext' = [uidNext EXCEPT ![f] = @ + 1]

Deliver(m) ==
    /\ m \in (Arriving \union {s \in SelfCopied : send[s] \notin {"draft", "failed"}}) \ arrived
    /\ Append1(INBOX, m)
    /\ arrived' = arrived \union {m}
    /\ UNCHANGED <<epoch, rows, cursor, rule, poll, org, send, bounds>>

\* UIDVALIDITY changes and the messages are numbered afresh, in their order.
\* Not under a connection that has the folder selected.
Renumber(f) ==
    LET place(e) == Cardinality({d \in server[f] : d.uid <= e.uid}) IN
    /\ resets < MaxResets
    /\ \A p \in Pollers : Folder(p) # f
    /\ \A o \in Operators : org[o].pc = "idle"
    /\ server' = [server EXCEPT ![f] = {Mail(place(e), e.msg) : e \in @}]
    /\ uidNext' = [uidNext EXCEPT ![f] = Cardinality(server[f]) + 1]
    /\ epoch' = [epoch EXCEPT ![f] = @ + 1]
    /\ resets' = resets + 1
    /\ UNCHANGED <<rows, cursor, rule, arrived, poll, org, send, requests, failures, overlapped>>

\* UID MOVE; of a uid that is not there, a no-op that succeeds.
ServerMove(f, u, g) ==
    IF \E e \in server[f] : e.uid = u
    THEN LET e == CHOOSE e \in server[f] : e.uid = u IN
         /\ server' = [server EXCEPT ![f] = @ \ {e}, ![g] = @ \union {Mail(uidNext[g], e.msg)}]
         /\ uidNext' = [uidNext EXCEPT ![g] = @ + 1]
    ELSE UNCHANGED <<server, uidNext>>

-----------------------------------------------------------------------------
(* moveMessage, the statements after the server's *)

MovedRow(f, u, g) ==
    rows' = {IF r.folder = f /\ r.uid = u THEN [r EXCEPT !.folder = g, !.uid = NULL] ELSE r :
             r \in rows}

ForgetCursor(g) == cursor' = [cursor EXCEPT ![g] = NoCursor]

-----------------------------------------------------------------------------
(* The poll: pollMailbox, and pollFolder for each folder in turn *)

\* Fetched messages are taken in the order of their uids.
First(batch) == CHOOSE e \in batch : \A d \in batch : e.uid <= d.uid
Msg(p) == First(poll[p].batch)
Release(p) == {IF r.owner = p THEN [r EXCEPT !.owner = None] ELSE r : r \in rows}

NextFolder(p) ==
    LET left == Tail(poll[p].todo) IN
    poll' = [poll EXCEPT ![p] = IF left = <<>> THEN IdlePoll
                                ELSE [IdlePoll EXCEPT !.pc = "cursor", !.todo = left]]

\* On to the next fetched message, or to the cursor.
NextMessage(p) ==
    poll' = [poll EXCEPT ![p].batch = @ \ {Msg(p)}, ![p].target = None,
                         ![p].pc = IF poll[p].batch = {Msg(p)} THEN "save" ELSE "converge",
                         ![p].since = IF Msg(p).uid > @ THEN Msg(p).uid ELSE @]

PollStart(p) ==
    /\ poll[p].pc = "idle"
    /\ Overlap \/ PeopleRest
    /\ poll' = [poll EXCEPT ![p].pc = "cursor", ![p].todo = FolderOrder]
    /\ Begins(PollsRest /\ PeopleRest)
    /\ UNCHANGED <<serverVars, rows, cursor, rule, org, send, requests, failures, resets>>

folderCursor(f) == IF cursor[f].epoch = epoch[f] THEN cursor[f].last ELSE 0

PollCursor(p) ==
    /\ poll[p].pc = "cursor"
    /\ poll' = [poll EXCEPT ![p].pc = "fetch", ![p].since = folderCursor(Folder(p))]
    /\ UNCHANGED <<serverVars, rows, cursor, rule, org, send, bounds>>

\* `n:*` names the newest message even when its uid is below n; of the answer,
\* the first MAX_PER_POLL.
Fetched(f, since) ==
    LET inRange == {e \in server[f] : e.uid > since}
        newest == {e \in server[f] : \A d \in server[f] : d.uid <= e.uid}
        answer == inRange \union newest
    IN {e \in answer : Cardinality({d \in answer : d.uid < e.uid}) < MaxPerPoll}

PollFetch(p) ==
    LET got == Fetched(Folder(p), poll[p].since) IN
    /\ poll[p].pc = "fetch"
    /\ poll' = [poll EXCEPT ![p].batch = got,
                            ![p].pc = IF got = {} THEN "save" ELSE "converge"]
    /\ UNCHANGED <<serverVars, rows, cursor, rule, org, send, bounds>>

\* DELETE ... WHERE message_id = ? AND uid IS NULL
PollConverge(p) ==
    /\ poll[p].pc = "converge"
    /\ rows' = {r \in rows : r.msg # Msg(p).msg \/ r.uid # NULL}
    /\ poll' = [poll EXCEPT ![p].pc = "insert"]
    /\ UNCHANGED <<serverVars, cursor, rule, org, send, bounds>>

Stored(f, u, ep) == \E r \in rows : r.folder = f /\ r.uid = u /\ r.epoch = ep

\* INSERT ... ON CONFLICT (mailbox, folder, uid_validity, uid) DO NOTHING
PollInsert(p) ==
    LET f == Folder(p) IN
    /\ poll[p].pc = "insert"
    /\ IF Stored(f, Msg(p).uid, epoch[f])
       THEN rows' = rows /\ NextMessage(p)
       ELSE /\ rows' = rows \union {Row(f, Msg(p).uid, epoch[f], Msg(p).msg, p)}
            /\ poll' = [poll EXCEPT ![p].pc = "files"]
    /\ UNCHANGED <<serverVars, cursor, rule, org, send, bounds>>

\* storeAttachments; without the row, the foreign key refuses and it is swallowed.
PollFiles(p) ==
    /\ poll[p].pc = "files"
    /\ rows' = {IF r.owner = p THEN [r EXCEPT !.files = @ + 1] ELSE r : r \in rows}
    /\ poll' = [poll EXCEPT ![p].pc = IF Folder(p) = INBOX THEN "follow" ELSE "scan"]
    /\ UNCHANGED <<serverVars, cursor, rule, org, send, bounds>>

\* threadFolder: the first ancestor on record decides, wherever it is; a tie
\* between rows of it is broken arbitrarily.
threadFolder(m) ==
    LET known == SelectSeq(Ancestors[m], LAMBDA a : \E r \in rows : r.msg = a) IN
    IF known = <<>> THEN {None}
    ELSE {IF r.folder \in Filed THEN r.folder ELSE None : r \in {q \in rows : q.msg = Head(known)}}

\* The folder bound to the sender, the rule about an address before one about
\* a domain: with one rule at a time, that one.
senderFolder == rule

\* Thread first, sender second.
PollFollow(p) ==
    /\ poll[p].pc = "follow"
    /\ \E t \in threadFolder(Msg(p).msg) :
        LET goal == IF t # None THEN t ELSE senderFolder IN
        poll' = [poll EXCEPT ![p].target = goal, ![p].pc = IF goal = None THEN "scan" ELSE "move"]
    /\ UNCHANGED <<serverVars, rows, cursor, rule, org, send, bounds>>

PollMove(p) ==
    /\ poll[p].pc = "move"
    /\ ServerMove(INBOX, Msg(p).uid, poll[p].target)
    /\ poll' = [poll EXCEPT ![p].pc = "moveRow"]
    /\ UNCHANGED <<epoch, arrived, rows, cursor, rule, org, send, bounds>>

PollMoveRow(p) ==
    /\ poll[p].pc = "moveRow"
    /\ MovedRow(INBOX, Msg(p).uid, poll[p].target)
    /\ poll' = [poll EXCEPT ![p].pc = "moveCursor"]
    /\ UNCHANGED <<serverVars, cursor, rule, org, send, bounds>>

\* Mutant: nothing more is done for a message that was moved.
PollMoveDone(p) ==
    /\ poll[p].pc = "moveCursor"
    /\ ForgetCursor(poll[p].target)
    /\ NextMessage(p)
    /\ rows' = Release(p)
    /\ UNCHANGED <<serverVars, rule, org, send, bounds>>

PollMoveCursor(p) ==
    /\ poll[p].pc = "moveCursor"
    /\ ForgetCursor(poll[p].target)
    /\ poll' = [poll EXCEPT ![p].pc = "scan"]
    /\ UNCHANGED <<serverVars, rows, rule, org, send, bounds>>

\* scanAndRecord stamps scanned_at (what it finds is MailScan's subject).
PollScan(p) ==
    /\ poll[p].pc = "scan"
    /\ rows' = {IF r.owner = p THEN [r EXCEPT !.scanned = TRUE, !.owner = None] ELSE r : r \in rows}
    /\ NextMessage(p)
    /\ UNCHANGED <<serverVars, cursor, rule, org, send, bounds>>

\* uid_validity is overwritten, last_uid only ever grows.
saveCursor(f, ep, last) ==
    cursor' = [cursor EXCEPT ![f] = [epoch |-> ep, last |-> IF @.last > last THEN @.last ELSE last]]

PollSave(p) ==
    /\ poll[p].pc = "save"
    /\ saveCursor(Folder(p), epoch[Folder(p)], poll[p].since)
    /\ NextFolder(p)
    /\ UNCHANGED <<serverVars, rows, rule, org, send, bounds>>

Fail == failures < MaxFailures /\ failures' = failures + 1 /\ UNCHANGED <<requests, resets, overlapped>>

\* Mutant: a message that cannot be stored is passed over.
PollSkips(p) ==
    /\ Fail
    /\ poll[p].pc \in {"converge", "insert"}
    /\ NextMessage(p)
    /\ UNCHANGED <<serverVars, rows, cursor, rule, org, send>>

\* A statement or the connection fails: on with the next folder. A failing
\* thread-follow is only logged, and a lookup that fails finds no folder.
PollFails(p) ==
    /\ Fail
    /\ \/ /\ poll[p].pc \notin {"idle", "files", "follow", "move", "moveRow", "moveCursor", "scan"}
          /\ NextFolder(p)
          /\ rows' = rows
       \/ /\ poll[p].pc \in {"follow", "move", "moveRow", "moveCursor"}
          /\ poll' = [poll EXCEPT ![p].pc = "scan"]
          /\ rows' = rows
    /\ UNCHANGED <<serverVars, cursor, rule, org, send>>

\* The process goes away.
PollDies(p) ==
    /\ Fail
    /\ poll[p].pc # "idle"
    /\ poll' = [poll EXCEPT ![p] = IdlePoll]
    /\ rows' = Release(p)
    /\ UNCHANGED <<serverVars, cursor, rule, org, send>>

PollStep(p) ==
    \/ PollCursor(p) \/ PollFetch(p) \/ PollConverge(p) \/ PollInsert(p) \/ PollFiles(p)
    \/ PollFollow(p) \/ PollMove(p) \/ PollMoveRow(p) \/ PollMoveCursor(p) \/ PollScan(p)
    \/ PollSave(p)

-----------------------------------------------------------------------------
(* organize.ts *)

\* deleteMessage: a move to Trash; what is there already, or has no Trash to go
\* to, is flagged \Deleted and stays.
deleteMessage(c) == IF findFolderBySpecialUse(Trash) \notin {None, c.folder} THEN "move" ELSE "next"

\* The SELECT: folder and uid of the chosen rows, acted on one by one later.
\* Rows without a uid are refused, as is a move to where the message is.
Organize(o) ==
    /\ org[o].pc = "idle"
    /\ requests < MaxRequests
    /\ Overlap \/ PollsRest
    /\ \E chosen \in SUBSET {[folder |-> r.folder, uid |-> r.uid] : r \in {q \in rows : q.uid # NULL}},
          goal \in Folders \union {None} :
        /\ chosen # {}
        /\ goal = None => \A c \in chosen : c.folder = Trash
        /\ goal # Trash => \A c \in chosen : c.folder # goal
        /\ org' = [org EXCEPT ![o] = [IdleOrg EXCEPT !.pc = "next", !.todo = chosen, !.target = goal]]
    /\ requests' = requests + 1
    /\ Begins(PollsRest /\ RequestsRest)
    /\ UNCHANGED <<serverVars, rows, cursor, rule, poll, send, failures, resets>>

OrgNext(o) ==
    /\ org[o].pc = "next"
    /\ \/ /\ org[o].todo = {}
          /\ org' = [org EXCEPT ![o] = IdleOrg]
       \/ \E c \in org[o].todo :
            org' = [org EXCEPT ![o].todo = @ \ {c}, ![o].item = c,
                               ![o].pc = CASE org[o].target = None -> "destroy"
                                           [] org[o].target = Trash -> deleteMessage(c)
                                           [] OTHER -> "move"]
    /\ UNCHANGED <<serverVars, rows, cursor, rule, poll, send, bounds>>

OrgTo(o, from, to) ==
    /\ org[o].pc = from
    /\ org' = [org EXCEPT ![o].pc = to]
    /\ UNCHANGED <<epoch, arrived, rule, poll, send, bounds>>

OrgMove(o) ==
    /\ OrgTo(o, "move", "moveRow")
    /\ ServerMove(org[o].item.folder, org[o].item.uid, org[o].target)
    /\ UNCHANGED <<rows, cursor>>

OrgMoveRow(o) ==
    /\ OrgTo(o, "moveRow", "moveCursor")
    /\ MovedRow(org[o].item.folder, org[o].item.uid, org[o].target)
    /\ UNCHANGED <<server, uidNext, cursor>>

OrgMoveCursor(o) ==
    /\ OrgTo(o, "moveCursor", "next")
    /\ ForgetCursor(org[o].target)
    /\ UNCHANGED <<server, uidNext, rows>>

\* destroyMessage: expunge that uid, then delete the row.
OrgDestroy(o) ==
    /\ OrgTo(o, "destroy", "destroyRow")
    /\ server' = [server EXCEPT ![Trash] = {e \in @ : e.uid # org[o].item.uid}]
    /\ UNCHANGED <<uidNext, rows, cursor>>

OrgDestroyRow(o) ==
    /\ OrgTo(o, "destroyRow", "next")
    /\ rows' = {r \in rows : r.folder # Trash \/ r.uid # org[o].item.uid}
    /\ UNCHANGED <<server, uidNext, cursor>>

\* One message fails and the next is tried.
OrgFails(o) ==
    /\ Fail
    /\ org[o].pc \notin {"idle", "next"}
    /\ org' = [org EXCEPT ![o].pc = "next"]
    /\ UNCHANGED <<serverVars, rows, cursor, rule, poll, send>>

\* create-rule replaces the sender's rule, delete-rule removes it.
SetRule(f) ==
    /\ f \in (RuleTargets \union {None}) \ {rule}
    /\ requests < MaxRequests
    /\ rule' = f
    /\ requests' = requests + 1
    /\ UNCHANGED <<serverVars, rows, cursor, poll, org, send, failures, resets, overlapped>>

-----------------------------------------------------------------------------
(* sendFromMailbox *)

SendTo(m, from, to) ==
    /\ send[m] = from
    /\ send' = [send EXCEPT ![m] = to]
    /\ UNCHANGED <<epoch, arrived, cursor, rule, poll, org, requests, resets>>

SendSmtp(m) ==
    /\ Overlap \/ PollsRest
    /\ SendTo(m, "draft", "record")
    /\ Begins(PollsRest)
    /\ UNCHANGED <<server, uidNext, rows, failures>>

SendRecord(m) ==
    /\ SendTo(m, "record", "append")
    /\ rows' = rows \union {[Row(Fallback, NULL, 0, m, m) EXCEPT !.files = 1, !.scanned = TRUE]}
    /\ UNCHANGED <<server, uidNext, failures, overlapped>>

SendAppend(m) ==
    /\ SendTo(m, "append", "refile")
    /\ Append1(findSentFolder, m)
    /\ UNCHANGED <<rows, failures, overlapped>>

SendRefile(m) ==
    /\ SendTo(m, "refile", "done")
    /\ rows' = {IF r.owner = m THEN [r EXCEPT !.folder = SentBox, !.owner = None] ELSE r : r \in rows}
    /\ UNCHANGED <<server, uidNext, failures, overlapped>>

\* Refused by SMTP (recorded all the same, without a Message-ID), a Sent copy
\* that cannot be filed, or the process going away.
SendFails(m) ==
    /\ failures < MaxFailures
    /\ failures' = failures + 1
    /\ \/ /\ SendTo(m, "draft", "failed")
          /\ rows' = rows \union {[Row(Fallback, NULL, 0, m, None) EXCEPT !.files = 1, !.scanned = TRUE]}
       \/ SendTo(m, "record", "gone") /\ rows' = rows
       \/ /\ SendTo(m, "append", "done") \/ SendTo(m, "refile", "done")
          /\ rows' = {IF r.owner = m THEN [r EXCEPT !.owner = None] ELSE r : r \in rows}
    /\ UNCHANGED <<server, uidNext, overlapped>>

-----------------------------------------------------------------------------
Next ==
    \/ \E m \in Messages : Deliver(m)
    \/ \E f \in Folders : Renumber(f)
    \/ \E p \in Pollers : PollStart(p) \/ PollStep(p) \/ PollFails(p) \/ PollDies(p)
    \/ \E o \in Operators :
        \/ Organize(o) \/ OrgNext(o) \/ OrgMove(o) \/ OrgMoveRow(o) \/ OrgMoveCursor(o)
        \/ OrgDestroy(o) \/ OrgDestroyRow(o) \/ OrgFails(o)
    \/ \E f \in Folders \union {None} : SetRule(f)
    \/ \E m \in Outgoing :
        SendSmtp(m) \/ SendRecord(m) \/ SendAppend(m) \/ SendRefile(m) \/ SendFails(m)

Spec == Init /\ [][Next]_vars

\* The cron starts a poll every quarter of an hour, and the event loop resumes
\* every request; nothing makes people act.
Fairness ==
    /\ \A p \in Pollers : WF_vars(PollStart(p)) /\ WF_vars(PollStep(p))
    /\ \A o \in Operators : WF_vars(OrgNext(o) \/ OrgMove(o) \/ OrgMoveRow(o) \/ OrgMoveCursor(o)
                                    \/ OrgDestroy(o) \/ OrgDestroyRow(o))
    /\ \A m \in Outgoing : WF_vars(SendRecord(m) \/ SendAppend(m) \/ SendRefile(m))

FairSpec == Spec /\ Fairness

-----------------------------------------------------------------------------
(* Properties *)

Passed(f, u) == cursor[f].epoch = epoch[f] /\ u <= cursor[f].last

\* "Everything above the cursor is exact": whatever the cursor of f has passed
\* and the server still holds is filed under the uid it has there. A cursor
\* that runs ahead of the rows hides mail for good.
Exact(f) == \A e \in server[f] : Passed(f, e.uid) => Stored(f, e.uid, epoch[f])

\* No poll, failed, repeated or overtaken by another, a move or a rule, moves
\* the cursor past a message it has not filed.
NothingSkipped == \A f \in Folders : epoch[f] = 1 => Exact(f)

\* A row is complete when the poll lets go of it: its attachments are there,
\* once, and its scan is stamped, even if it was moved or replaced on the way.
\* They are never there twice; without them it can only be after a failure.
WholeMessages ==
    \A r \in rows : /\ r.files <= 1
                    /\ r.owner = None /\ failures = 0 => r.files = 1 /\ r.scanned

AtRest == PollsRest /\ PeopleRest /\ \A f \in Folders : \A e \in server[f] : Passed(f, e.uid)

\* At rest with nothing left to fetch, the panel is the mailbox: every row is a
\* message the server has in that folder and every such message is one row.
\* Moves and sends leave no second copy behind, unless one was at work under a
\* poll, something failed or a folder was renumbered.
PanelIsMailbox ==
    AtRest /\ failures = 0 /\ resets = 0 /\ ~overlapped =>
              /\ {<<r.folder, r.uid, r.msg>> : r \in rows}
                   = UNION {{<<f, e.uid, e.msg>> : e \in server[f]} : f \in Folders}
              /\ \A r, q \in rows : r.folder = q.folder /\ r.uid = q.uid => r = q

Held(m) == \E f \in Folders : \E e \in server[f] : e.msg = m

\* A message the server holds comes to the panel under its uid, whatever polls
\* fail, as long as nothing is renumbered.
MailIsFiled ==
    \A m \in Messages :
        Held(m) ~> ((\E r \in rows : r.msg = m /\ r.uid # NULL) \/ ~Held(m) \/ resets > 0)

=============================================================================
