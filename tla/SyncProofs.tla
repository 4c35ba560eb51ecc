------------------------------ MODULE SyncProofs ------------------------------
(* Theorems about MailSync, for any messages, folders, polls, requests,       *)
(* failures and renumberings: as the part "sync" of MCMail, whose instance of *)
(* it is as general as the module.                                            *)
EXTENDS MCMail, FiniteSetTheorems, SequenceTheorems, WellFoundedInduction, TLAPS

\* A message in a folder, and where a row says one is.
Numbered == [uid : Nat \ {0}, msg : Sync!Messages]
Spots == [folder : Sync!Folders, uid : Nat]

\* A poll that has inserted the message it is at; one that is at a message.
Holding == {"files", "follow", "move", "moveRow", "moveCursor", "scan"}
Working == {"converge", "insert"} \union Holding
Following == {"follow", "move", "moveRow", "moveCursor"}

FoldersTyped ==
    /\ server \in [Sync!Folders -> SUBSET Numbered]
    /\ uidNext \in [Sync!Folders -> Nat \ {0}] /\ epoch \in [Sync!Folders -> Nat \ {0}]
    /\ cursor \in [Sync!Folders -> [epoch : Nat, last : Nat]]
    /\ \A f \in Sync!Folders : /\ IsFiniteSet(server[f]) /\ cursor[f].epoch <= epoch[f]
                               /\ \A e \in server[f] : e.uid < uidNext[f]

RowType ==
    [folder : Sync!Folders \union {Sync!Fallback}, uid : Nat, epoch : Nat, msg : Sync!Messages,
        files : 0..1,
     scanned : BOOLEAN, owner : Pollers \union Outgoing \union {None}]

RowsTyped == /\ rows \subseteq RowType
             /\ \A r \in rows : r.uid # Sync!NULL => r.folder \in Sync!Folders
             /\ \A r \in rows : r.owner \in Outgoing => r.uid = Sync!NULL

PollType ==
    [pc : {"idle", "cursor", "fetch", "save"} \union Working, todo : Seq(Sync!Folders), since : Nat,
     batch : SUBSET Numbered, target : Sync!Folders \union {None}]

PollTyped(p) ==
    /\ poll[p].pc = "idle" <=> poll[p].todo = <<>>
    /\ poll[p].pc \in Working => poll[p].batch # {}
    /\ poll[p].pc \in Following => Sync!Folder(p) = Sync!INBOX
    /\ poll[p].pc \in Following \ {"follow"} => poll[p].target # None

PollsTyped ==
    /\ poll \in [Pollers -> PollType]
    /\ \A p \in Pollers : PollTyped(p)

OrgType ==
    [pc : {"idle", "next", "move", "moveRow", "moveCursor", "destroy", "destroyRow"},
     todo : SUBSET Spots, item : Spots, target : Sync!Folders \union {None}]

OrgTyped(o) ==
    /\ org[o].pc \in {"move", "moveRow", "moveCursor"} => org[o].target # None
    /\ org[o].pc \in {"destroy", "destroyRow"} => org[o].item.folder = Sync!Trash
    /\ org[o].target = None => \A c \in org[o].todo : c.folder = Sync!Trash

PeopleTyped ==
    /\ org \in [Operators -> OrgType]
    /\ \A o \in Operators : OrgTyped(o)
    /\ send \in [Outgoing -> {"draft", "record", "append", "refile", "done", "failed", "gone"}]
    /\ rule \in Sync!Folders \union {None}
    /\ requests \in 0..MaxRequests /\ failures \in 0..MaxFailures /\ resets \in 0..MaxResets

SyncTyped == FoldersTyped /\ RowsTyped /\ PollsTyped /\ PeopleTyped

-----------------------------------------------------------------------------
\* As long as f has its first numbers: no two messages have one of them, rows and
\* cursor are below the next, and what the cursor has passed is filed.
NumbersHold(f) ==
    epoch[f] = 1 =>
        /\ \A e, d \in server[f] : e.uid = d.uid => e = d
        /\ cursor[f].last < uidNext[f] /\ (cursor[f].epoch = 0 => cursor[f].last = 0)
        /\ \A r \in rows : r.folder = f /\ r.uid # Sync!NULL => r.uid < uidNext[f]
        /\ Sync!Exact(f)

\* A poll has filed what it has gone past; what it has not gone past is in its
\* batch or above it; and what it has moved is no longer in the folder.
PollExact(p) ==
    LET f == Sync!Folder(p) IN
    poll[p].pc # "idle" /\ epoch[f] = 1 =>
        /\ poll[p].pc # "cursor" =>
             /\ poll[p].since < uidNext[f]
             /\ \A e \in server[f] : e.uid <= poll[p].since => Sync!Stored(f, e.uid, 1)
        /\ poll[p].pc \notin {"cursor", "fetch"} =>
             /\ \A b \in poll[p].batch : b.uid < uidNext[f]
             /\ \A e \in server[f] : e.uid > poll[p].since /\ e \notin poll[p].batch =>
                    \A b \in poll[p].batch : b.uid < e.uid
        /\ poll[p].pc \in Holding =>
             \A e \in server[f] : e.uid = Sync!Msg(p).uid => Sync!Stored(f, e.uid, 1)
        /\ poll[p].pc = "moveRow" => \A e \in server[f] : e.uid # Sync!Msg(p).uid

\* The rows an organize request takes away have no message on the server.
OrgExact(o) ==
    LET c == org[o].item IN
    /\ \A d \in org[o].todo \union {c} : epoch[d.folder] = 1 => d.uid < uidNext[d.folder]
    /\ org[o].pc \in {"moveRow", "destroyRow"} /\ epoch[c.folder] = 1 =>
         \A e \in server[c.folder] : e.uid # c.uid

SyncExact ==
    /\ \A f \in Sync!Folders : NumbersHold(f)
    /\ \A p \in Pollers : PollExact(p)
    /\ \A o \in Operators : OrgExact(o)

\* The poll that inserted a row holds it until it has stored its attachments and
\* stamped its scan.
RowWhole(r) ==
    /\ r.owner \in Pollers => /\ poll[r.owner].pc \in Holding
                              /\ r.files = IF poll[r.owner].pc = "files" THEN 0 ELSE 1
    /\ r.owner \in Outgoing => r.files = 1 /\ r.scanned
    /\ r.owner = None /\ failures = 0 => r.files = 1 /\ r.scanned

SyncWhole == \A r \in rows : RowWhole(r)

-----------------------------------------------------------------------------
\* No two polls are at work, and no two organize requests.
OneAtATime ==
    /\ \A p, q \in Pollers : poll[p].pc # "idle" /\ poll[q].pc # "idle" => p = q
    /\ \A o, q \in Operators : org[o].pc # "idle" /\ org[q].pc # "idle" => o = q

\* The others do nothing before this step or after it.
PollAlone(p) == \A q \in Pollers \ {p} : poll[q].pc = "idle" /\ poll'[q].pc = "idle"
OrgAlone(o) == \A q \in Operators \ {o} : org[q].pc = "idle" /\ org'[q].pc = "idle"

\* A message of f that neither the cursor nor a poll has come to.
Unreached(f, u) ==
    /\ ~Sync!Passed(f, u)
    /\ \A p \in Pollers : Sync!Folder(p) = f /\ poll[p].pc \notin {"idle", "cursor"} =>
        /\ u > poll[p].since
        /\ poll[p].pc \in {"insert"} \union Holding => u # Sync!Msg(p).uid

At(r, f, u) == r.folder = f /\ r.uid = u

\* A message that is yet to be fetched; a row without a uid goes when one is.
Waits(f, e) == Unreached(f, e.uid) /\ \A r \in rows : ~At(r, f, e.uid)

Awaited(m) == \E f \in Sync!Folders : \E e \in server[f] : e.msg = m /\ Waits(f, e)

\* The rows that a move or an expunge is about to follow.
PollLeaves(p, r) == poll[p].pc = "moveRow" /\ At(r, Sync!INBOX, Sync!Msg(p).uid)
OrgLeaves(o, r) == org[o].pc = "moveRow" /\ At(r, org[o].item.folder, org[o].item.uid)
OrgDestroys(o, r) == org[o].pc = "destroyRow" /\ At(r, Sync!Trash, org[o].item.uid)

Leaving(r) == \/ \E p \in Pollers : PollLeaves(p, r)
              \/ \E o \in Operators : OrgLeaves(o, r) \/ OrgDestroys(o, r)

Turns == Sync!PollsRest \/ Sync!PeopleRest

RowPlaced(r) ==
    /\ r.uid # Sync!NULL => r.epoch = 1
           /\ (Sync!Mail(r.uid, r.msg) \in server[r.folder] \/ Leaving(r))
    /\ r.uid = Sync!NULL => Awaited(r.msg) \/ (r.msg \in Outgoing /\ send[r.msg] = "append")
    /\ (\E p \in Pollers : PollLeaves(p, r)) \/ (\E o \in Operators : OrgLeaves(o, r)) =>
         Awaited(r.msg)

\* What a poll is still to store is in its folder.
PollPlaced(p) ==
    poll[p].pc \in Working =>
        \A e \in poll[p].batch : \/ e \in server[Sync!Folder(p)]
                                 \/ poll[p].pc \in {"moveRow", "moveCursor", "scan"}
                                        /\ e = Sync!Msg(p)

\* What a request is still to take away has its row.
OrgPlaced(o) ==
    org[o].pc # "idle" =>
        /\ \A c \in org[o].todo : c.uid # Sync!NULL /\ \E r \in rows : At(r, c.folder, c.uid)
        /\ org[o].pc \in {"move", "destroy"} =>
             \E r \in rows : At(r, org[o].item.folder, org[o].item.uid)
        /\ org[o].pc # "next" => org[o].item \notin org[o].todo /\ org[o].item.uid # Sync!NULL

SyncPlaced ==
    /\ \A f \in Sync!Folders : epoch[f] = 1
    /\ Turns
    /\ \A r \in rows : RowPlaced(r)
    /\ \A r, q \in rows : r.uid # Sync!NULL /\ At(r, q.folder, q.uid) => r = q
    /\ \A p \in Pollers : PollPlaced(p)
    /\ \A o \in Operators : OrgPlaced(o)

-----------------------------------------------------------------------------
LEMMA SyncCardinality ==
    \A S : Sync!Cardinality(S) = Cardinality(S) /\ Sync!IsFiniteSet(S) = IsFiniteSet(S)
    BY DEF Sync!Cardinality, Cardinality, Sync!IsFiniteSet, IsFiniteSet

LEMMA LeastUid ==
    ASSUME NEW b \in SUBSET Numbered, b # {}
    PROVE  Sync!First(b) \in b /\ \A d \in b : Sync!First(b).uid <= d.uid
<1> DEFINE T == {e.uid : e \in b}
<1>1. T \in SUBSET Nat /\ T # {}
    BY DEF Numbered
<1>2. PICK n \in T : \A k \in T : ~(<<k, n>> \in OpToRel(<, Nat))
    BY <1>1, NatLessThanWellFounded, WFMin, Zenon
<1>3. \A k \in T : ~(k < n)
    <2> HIDE DEF T
    <2> QED
        BY <1>1, <1>2 DEF OpToRel
<1>5. \A k \in T : n <= k
    <2> HIDE DEF T
    <2> QED
        BY <1>1, <1>3
<1>4. \E e \in b : \A d \in b : e.uid <= d.uid
    BY <1>5
<1> QED
    BY <1>4 DEF Sync!First

\* The message a poll is at.
LEMMA AtMessage ==
    ASSUME PollsTyped, NEW p \in Pollers, poll[p].pc \in Working
    PROVE  /\ Sync!Msg(p) \in poll[p].batch /\ Sync!Msg(p) \in Numbered
           /\ \A d \in poll[p].batch : Sync!Msg(p).uid <= d.uid
<1>1. poll[p].batch \in SUBSET Numbered /\ poll[p].batch # {}
    BY DEF PollsTyped, PollType, PollTyped
<1> QED
    BY <1>1, LeastUid DEF Sync!Msg

LEMMA FolderOf ==
    ASSUME PollsTyped, NEW p \in Pollers
    PROVE  /\ poll[p].pc # "idle" => Sync!Folder(p) \in Sync!Folders
           /\ poll[p].todo # <<>> => Tail(poll[p].todo) \in Seq(Sync!Folders)
<1>1. poll[p].todo \in Seq(Sync!Folders)
    BY DEF PollsTyped, PollType
<1> QED
    BY <1>1, HeadTailProperties DEF PollsTyped, PollTyped, Sync!Folder

LEMMA SyncIsTyped ==
    ASSUME Sync!SyncConstants, SyncTyped, overlapped \in BOOLEAN
    PROVE  Sync!TypeOK
<1>1. \A f \in Sync!Folders : \A e \in server[f] : e.uid \in 1..(uidNext[f] - 1)
          /\ e.msg \in Sync!Messages
    BY DEF SyncTyped, FoldersTyped, Numbered
<1>2. \A f \in Sync!Folders : cursor[f].last \in Nat /\ cursor[f].epoch \in 0..epoch[f]
    BY DEF SyncTyped, FoldersTyped
<1>3. \A r \in rows : /\ r.folder \in Sync!Folders \union {Sync!Fallback} /\ r.uid \in Nat
                      /\ r.msg \in Sync!Messages /\ r.files \in Nat
                      /\ r.owner \in Pollers \union Outgoing \union {None}
    BY DEF SyncTyped, RowsTyped, RowType
<1>4. ASSUME NEW p \in Pollers
      PROVE  /\ poll[p].pc \in {"idle", "cursor", "fetch", "converge", "insert", "files",
                                "follow", "move", "moveRow", "moveCursor", "scan", "save"}
             /\ Sync!ToSet(poll[p].todo) \subseteq Sync!Folders
             /\ poll[p].pc = "idle" <=> poll[p].todo = <<>>
    <2>1. poll[p].todo \in Seq(Sync!Folders) /\ PollTyped(p)
        BY DEF SyncTyped, PollsTyped, PollType
    <2>2. Sync!ToSet(poll[p].todo) \subseteq Sync!Folders
        BY <2>1, LenProperties, ElementOfSeq DEF Sync!ToSet
    <2>3. poll[p].pc \in {"idle", "cursor", "fetch", "save"} \union Working
        BY DEF SyncTyped, PollsTyped, PollType
    <2> QED
        BY <2>1, <2>2, <2>3 DEF PollTyped, Working, Holding
<1>5. \A o \in Operators : org[o].pc \in {"idle", "next", "move", "moveRow", "moveCursor",
                                          "destroy", "destroyRow"}
    BY DEF SyncTyped, PeopleTyped, OrgType
<1>6. \A m \in Outgoing : send[m] \in {"draft", "record", "append", "refile", "done", "failed",
          "gone"}
    BY DEF SyncTyped, PeopleTyped, OrgType
<1>7. /\ rule \in Sync!Folders \union {None}
      /\ requests \in 0..MaxRequests /\ failures \in 0..MaxFailures /\ resets \in 0..MaxResets
    BY DEF SyncTyped, PeopleTyped, OrgType
<1> QED
    BY <1>1, <1>2, <1>3, <1>4, <1>5, <1>6, <1>7 DEF Sync!TypeOK

LEMMA SyncStarts == ASSUME Sync!SyncConstants, Sync!Init PROVE SyncTyped /\ SyncExact /\ SyncWhole
<1>1. FoldersTyped
    BY FS_EmptySet DEF Sync!Init, FoldersTyped, Sync!NoCursor
<1>2. RowsTyped /\ SyncWhole
    BY DEF Sync!Init, RowsTyped, SyncWhole
<1>3. PollsTyped
    <2>1. <<>> \in Seq(Sync!Folders)
        BY EmptySeq
    <2> QED
        BY <2>1 DEF Sync!Init, PollsTyped, PollType, PollTyped, Sync!IdlePoll, Working, Holding,
                    Following
<1>4. PeopleTyped
    BY DEF Sync!Init, PeopleTyped, OrgType, OrgTyped, Sync!IdleOrg, Spots, Sync!SyncConstants,
           Sync!NULL
<1>5. SyncExact
    <2>1. \A f \in Sync!Folders : NumbersHold(f)
        BY DEF Sync!Init, NumbersHold, Sync!Exact, Sync!NoCursor
    <2>2. \A p \in Pollers : PollExact(p)
        BY DEF Sync!Init, PollExact, Sync!IdlePoll
    <2>3. \A o \in Operators : OrgExact(o)
        BY DEF Sync!Init, OrgExact, Sync!IdleOrg, Sync!NULL, Sync!INBOX, Sync!SyncConstants
    <2> QED
        BY <2>1, <2>2, <2>3 DEF SyncExact
<1> QED
    BY <1>1, <1>2, <1>3, <1>4, <1>5 DEF SyncTyped

LEMMA FolderListed ==
    ASSUME Sync!SyncConstants
    PROVE  FolderOrder \in Seq(Sync!Folders) /\ FolderOrder # <<>>
<1>1. FolderOrder = <<>> => Sync!Folders = {}
    BY DEF Sync!Folders, Sync!ToSet
<1> QED
    BY <1>1 DEF Sync!SyncConstants

-----------------------------------------------------------------------------
\* A step after which f has the numbers it had and perhaps more, and the rows of
\* the messages in it.
Grown(f) ==
    /\ uidNext[f] <= uidNext'[f]
    /\ \A e \in server'[f] : e \in server[f] \/ uidNext[f] <= e.uid
    /\ (\A e, d \in server[f] : e.uid = d.uid => e = d)
            => \A e, d \in server'[f] : e.uid = d.uid => e = d

StoredStays(f) == \A e \in server'[f] : Sync!Stored(f, e.uid, 1) => Sync!Stored(f, e.uid, 1)'

Later(f) == epoch'[f] = epoch[f] /\ Grown(f) /\ StoredStays(f)

\* A row is where one was, or its uid has been given.
OfARow(r) ==
    \/ \E q \in rows : q.folder = r.folder /\ q.uid = r.uid
    \/ epoch'[r.folder] = 1 => r.uid < uidNext'[r.folder]

LEMMA NumbersStay ==
    ASSUME FoldersTyped, FoldersTyped', RowsTyped, NEW f \in Sync!Folders, NumbersHold(f),
           epoch'[f] = 1 => Later(f),
           cursor'[f] = cursor[f] \/ cursor'[f] = Sync!NoCursor,
           \A r \in rows' : r.uid # Sync!NULL => OfARow(r)
    PROVE  NumbersHold(f)'
<1> SUFFICES ASSUME epoch'[f] = 1
             PROVE  /\ \A e, d \in server'[f] : e.uid = d.uid => e = d
                    /\ cursor'[f].last < uidNext'[f]
                           /\ (cursor'[f].epoch = 0 => cursor'[f].last = 0)
                    /\ \A r \in rows' : r.folder = f /\ r.uid # Sync!NULL => r.uid < uidNext'[f]
                    /\ Sync!Exact(f)'
    BY DEF NumbersHold
<1>1. Later(f) /\ epoch[f] = 1
    BY DEF Later
<1>2. /\ \A e, d \in server[f] : e.uid = d.uid => e = d
      /\ cursor[f].last < uidNext[f] /\ (cursor[f].epoch = 0 => cursor[f].last = 0)
      /\ \A r \in rows : r.folder = f /\ r.uid # Sync!NULL => r.uid < uidNext[f]
      /\ Sync!Exact(f)
    BY <1>1 DEF NumbersHold
<1>3. /\ uidNext[f] \in Nat \ {0} /\ uidNext'[f] \in Nat \ {0} /\ uidNext[f] <= uidNext'[f]
      /\ cursor[f].last \in Nat /\ cursor'[f].last \in Nat
    BY <1>1 DEF FoldersTyped, Later, Grown
<1>4. cursor'[f].last < uidNext'[f] /\ (cursor'[f].epoch = 0 => cursor'[f].last = 0)
    BY <1>2, <1>3 DEF Sync!NoCursor
<1>5. ASSUME NEW r \in rows', r.folder = f, r.uid # Sync!NULL PROVE r.uid < uidNext'[f]
    <2>1. CASE \E q \in rows : q.folder = r.folder /\ q.uid = r.uid
        <3>1. r.uid < uidNext[f] /\ r.uid \in Nat
            BY <1>2, <1>5, <2>1 DEF RowsTyped, RowType
        <3> QED
            BY <3>1, <1>3
    <2> QED
        BY <1>5, <2>1 DEF OfARow
<1>6. ASSUME NEW e \in server'[f], Sync!Passed(f, e.uid)' PROVE Sync!Stored(f, e.uid, epoch[f])'
    <2>1. cursor'[f] = cursor[f]
        BY <1>1, <1>6 DEF Sync!Passed, Sync!NoCursor
    <2>2. e \in server[f]
        <3>1. e.uid <= cursor[f].last
            BY <1>6, <2>1 DEF Sync!Passed
        <3>2. e.uid \in Nat
            BY DEF FoldersTyped, Numbered
        <3> QED
            BY <1>1, <1>2, <1>3, <3>1, <3>2 DEF Later, Grown
    <2>3. Sync!Stored(f, e.uid, 1)
        BY <1>1, <1>2, <1>6, <2>1, <2>2 DEF Sync!Passed, Sync!Exact
    <2> QED
        BY <1>1, <2>3 DEF Later, StoredStays
<1> QED
    BY <1>1, <1>2, <1>4, <1>5, <1>6 DEF Sync!Exact, Later, Grown

LEMMA PollStays ==
    ASSUME SyncTyped, FoldersTyped', NEW p \in Pollers, PollExact(p),
           \A f \in Sync!Folders : epoch'[f] = 1 => Later(f),
           poll'[p].todo = poll[p].todo, poll'[p].since = poll[p].since,
               poll'[p].batch = poll[p].batch,
           poll[p].pc = "idle" => poll'[p].pc = "idle",
           poll[p].pc = "cursor" => poll'[p].pc \in {"idle", "cursor"},
           poll[p].pc = "fetch" => poll'[p].pc \in {"idle", "cursor", "fetch"},
           poll'[p].pc \in Holding =>
                /\ poll[p].pc \in Working
                /\ \/ poll[p].pc \in Holding
                   \/ epoch'[Sync!Folder(p)] = 1 =>
                        \A e \in server'[Sync!Folder(p)] : e.uid = Sync!Msg(p).uid
                            => Sync!Stored(Sync!Folder(p), e.uid, 1)',
           poll'[p].pc = "moveRow" =>
                \/ poll[p].pc = "moveRow"
                \/ epoch'[Sync!Folder(p)] = 1
                       => \A e \in server'[Sync!Folder(p)] : e.uid # Sync!Msg(p).uid
    PROVE  PollExact(p)'
<1> DEFINE f == Sync!Folder(p)
<1>1. Sync!Folder(p)' = f /\ Sync!Msg(p)' = Sync!Msg(p)
    BY DEF Sync!Folder, Sync!Msg
<1> SUFFICES ASSUME poll'[p].pc # "idle", epoch'[f] = 1
             PROVE  PollExact(p)'
    BY <1>1 DEF PollExact
<1>2. f \in Sync!Folders /\ Later(f) /\ epoch[f] = 1 /\ poll[p].pc # "idle"
    BY FolderOf DEF SyncTyped, Later
<1>3. /\ uidNext[f] \in Nat /\ uidNext'[f] \in Nat /\ uidNext[f] <= uidNext'[f]
      /\ poll[p].since \in Nat /\ poll[p].batch \in SUBSET Numbered
      /\ \A e \in server'[f] : e.uid \in Nat
      /\ \A e \in server'[f] : e \in server[f] \/ uidNext[f] <= e.uid
    BY <1>2 DEF SyncTyped, FoldersTyped, PollsTyped, PollType, Later, Grown, Numbered
<1>4. ASSUME poll'[p].pc # "cursor"
      PROVE  /\ poll[p].since < uidNext'[f]
             /\ \A e \in server'[f] : e.uid <= poll[p].since => Sync!Stored(f, e.uid, 1)'
    <2>1. /\ poll[p].since < uidNext[f]
          /\ \A e \in server[f] : e.uid <= poll[p].since => Sync!Stored(f, e.uid, 1)
        BY <1>2, <1>4 DEF PollExact
    <2>2. poll[p].since < uidNext'[f]
        BY <1>3, <2>1
    <2>3. ASSUME NEW e \in server'[f], e.uid <= poll[p].since PROVE Sync!Stored(f, e.uid, 1)'
        <3>1. e \in server[f]
            BY <1>3, <2>1, <2>3
        <3> QED
            BY <1>2, <2>1, <2>3, <3>1 DEF Later, StoredStays
    <2> QED
        BY <2>2, <2>3
<1>5. ASSUME poll'[p].pc \notin {"cursor", "fetch"}
      PROVE  /\ \A b \in poll[p].batch : b.uid < uidNext'[f]
             /\ \A e \in server'[f] : e.uid > poll[p].since /\ e \notin poll[p].batch =>
                    \A b \in poll[p].batch : b.uid < e.uid
    <2>1. /\ \A b \in poll[p].batch : b.uid < uidNext[f]
          /\ \A e \in server[f] : e.uid > poll[p].since /\ e \notin poll[p].batch =>
                 \A b \in poll[p].batch : b.uid < e.uid
        BY <1>2, <1>5 DEF PollExact
    <2>2. \A b \in poll[p].batch : b.uid \in Nat
        BY <1>3 DEF Numbered
    <2>3. \A b \in poll[p].batch : b.uid < uidNext'[f]
        BY <1>3, <2>1, <2>2
    <2>4. ASSUME NEW e \in server'[f], e.uid > poll[p].since, e \notin poll[p].batch,
                 NEW b \in poll[p].batch
          PROVE  b.uid < e.uid
        BY <1>3, <2>1, <2>2, <2>4
    <2> QED
        BY <2>3, <2>4
<1>6. ASSUME poll'[p].pc \in Holding
      PROVE  \A e \in server'[f] : e.uid = Sync!Msg(p).uid => Sync!Stored(f, e.uid, 1)'
    <2>1. Sync!Msg(p).uid < uidNext[f] /\ Sync!Msg(p).uid \in Nat
        BY <1>2, <1>6, AtMessage DEF PollExact, SyncTyped, Working, Holding, Numbered
    <2>2. CASE poll[p].pc \in Holding
        <3>1. \A e \in server[f] : e.uid = Sync!Msg(p).uid => Sync!Stored(f, e.uid, 1)
            BY <1>2, <2>2 DEF PollExact
        <3>2. ASSUME NEW e \in server'[f], e.uid = Sync!Msg(p).uid PROVE Sync!Stored(f, e.uid, 1)'
            <4>1. e \in server[f]
                BY <1>3, <2>1, <3>2
            <4> QED
                BY <1>2, <3>1, <3>2, <4>1 DEF Later, StoredStays
        <3> QED
            BY <3>2
    <2> QED
        BY <1>6, <2>2
<1>7. ASSUME poll'[p].pc = "moveRow"
      PROVE  \A e \in server'[f] : e.uid # Sync!Msg(p).uid
    <2>1. CASE poll[p].pc = "moveRow"
        <3>1. /\ Sync!Msg(p).uid < uidNext[f] /\ Sync!Msg(p).uid \in Nat
              /\ \A e \in server[f] : e.uid # Sync!Msg(p).uid
            BY <1>2, <2>1, AtMessage DEF PollExact, SyncTyped, Working, Holding, Numbered
        <3> QED
            BY <1>3, <3>1
    <2> QED
        BY <1>7, <2>1
<1> QED
    BY <1>1, <1>4, <1>5, <1>6, <1>7 DEF PollExact

LEMMA OrgStays ==
    ASSUME SyncTyped, FoldersTyped', NEW o \in Operators, OrgExact(o), org'[o] = org[o],
           \A f \in Sync!Folders : epoch'[f] = 1 => Later(f)
    PROVE  OrgExact(o)'
<1>1. /\ \A d \in org[o].todo \union {org[o].item} : d.folder \in Sync!Folders /\ d.uid \in Nat
    BY DEF SyncTyped, PeopleTyped, OrgType, Spots
<1>2. ASSUME NEW d \in org[o].todo \union {org[o].item}, epoch'[d.folder] = 1
      PROVE  d.uid < uidNext'[d.folder] /\ d.uid < uidNext[d.folder] /\ epoch[d.folder] = 1
    <2>1. Later(d.folder) /\ epoch[d.folder] = 1
        BY <1>1, <1>2 DEF Later
    <2>2. d.uid < uidNext[d.folder]
        BY <2>1 DEF OrgExact
    <2>3. uidNext[d.folder] <= uidNext'[d.folder]
        BY <2>1 DEF Later, Grown
    <2> QED
        BY <1>1, <2>1, <2>2, <2>3 DEF SyncTyped, FoldersTyped
<1>3. ASSUME org[o].pc \in {"moveRow", "destroyRow"}, epoch'[org[o].item.folder] = 1,
             NEW e \in server'[org[o].item.folder]
      PROVE  e.uid # org[o].item.uid
    <2> DEFINE c == org[o].item
    <2>1. Later(c.folder) /\ c.uid < uidNext[c.folder] /\ epoch[c.folder] = 1
        BY <1>1, <1>2, <1>3 DEF Later
    <2>2. e \in server[c.folder] => e.uid # c.uid
        BY <1>3, <2>1 DEF OrgExact
    <2>3. e \notin server[c.folder] => uidNext[c.folder] <= e.uid
        BY <2>1 DEF Later, Grown
    <2>4. uidNext[c.folder] \in Nat /\ c.uid \in Nat /\ e.uid \in Nat
        BY <1>1 DEF SyncTyped, FoldersTyped, Numbered
    <2> QED
        BY <2>1, <2>2, <2>3, <2>4
<1> QED
    BY <1>2, <1>3 DEF OrgExact

-----------------------------------------------------------------------------
\* What a step leaves alone.
LEMMA FoldersSame ==
    ASSUME FoldersTyped, UNCHANGED <<server, uidNext, epoch, cursor>>
    PROVE  FoldersTyped' /\ \A f \in Sync!Folders : Grown(f)
    BY DEF FoldersTyped, Grown

LEMMA RowsSame == ASSUME RowsTyped, rows' = rows PROVE RowsTyped'
    BY DEF RowsTyped

LEMMA PollsSame == ASSUME PollsTyped, poll' = poll PROVE PollsTyped'
    BY DEF PollsTyped, PollTyped, Sync!Folder

LEMMA PeopleSame ==
    ASSUME PeopleTyped, UNCHANGED <<org, send, rule, Sync!bounds>>
    PROVE  PeopleTyped'
    BY DEF PeopleTyped, OrgTyped, Sync!bounds

LEMMA WholeSame ==
    ASSUME SyncWhole, rows' = rows, failures' = 0 => failures = 0,
           \A r \in rows : r.owner \in Pollers => poll'[r.owner].pc = poll[r.owner].pc
    PROVE  SyncWhole'
    BY DEF SyncWhole, RowWhole

LEMMA LaterSame ==
    ASSUME rows' = rows, NEW f \in Sync!Folders, Grown(f), epoch'[f] = epoch[f]
    PROVE  Later(f)
    BY DEF Later, StoredStays, Sync!Stored

\* Whatever a step does on the server and to the rows, those that it does not
\* belong to keep what they know.
LEMMA ExactKept ==
    ASSUME SyncTyped, SyncExact, FoldersTyped',
           \A f \in Sync!Folders : epoch'[f] = 1 => Later(f),
           \A f \in Sync!Folders : cursor'[f] = cursor[f] \/ cursor'[f] = Sync!NoCursor,
           \A r \in rows' : r.uid # Sync!NULL => OfARow(r)
    PROVE  /\ \A f \in Sync!Folders : NumbersHold(f)'
           /\ \A p \in Pollers : poll'[p] = poll[p] => PollExact(p)'
           /\ \A o \in Operators : org'[o] = org[o] => OrgExact(o)'
<1>1. ASSUME NEW f \in Sync!Folders PROVE NumbersHold(f)'
    BY NumbersStay DEF SyncTyped, SyncExact
<1>2. ASSUME NEW p \in Pollers, poll'[p] = poll[p] PROVE PollExact(p)'
    BY <1>2, PollStays DEF SyncExact, Working
<1>3. ASSUME NEW o \in Operators, org'[o] = org[o] PROVE OrgExact(o)'
    BY <1>3, OrgStays DEF SyncExact
<1> QED
    BY <1>1, <1>2, <1>3

-----------------------------------------------------------------------------
(* The server *)

LEMMA AppendGrows ==
    ASSUME FoldersTyped, NEW f \in Sync!Folders, NEW m \in Sync!Messages, Sync!Append1(f, m),
           UNCHANGED <<epoch, cursor>>
    PROVE  FoldersTyped' /\ \A g \in Sync!Folders : Grown(g)
<1> DEFINE new == Sync!Mail(uidNext[f], m)
<1>1. /\ server' = [server EXCEPT ![f] = @ \union {new}]
      /\ uidNext' = [uidNext EXCEPT ![f] = @ + 1]
    BY DEF Sync!Append1
<1>2. new \in Numbered /\ new.uid = uidNext[f]
    BY DEF FoldersTyped, Sync!Mail, Numbered
<1>3. IsFiniteSet(server[f] \union {new})
    BY FS_AddElement DEF FoldersTyped
<1> HIDE DEF new
<1>4. /\ server' \in [Sync!Folders -> SUBSET Numbered]
      /\ uidNext' \in [Sync!Folders -> Nat \ {0}]
    BY <1>1, <1>2 DEF FoldersTyped
<1>5. ASSUME NEW g \in Sync!Folders
      PROVE  /\ IsFiniteSet(server'[g])
             /\ \A e \in server'[g] : e.uid < uidNext'[g]
             /\ Grown(g)
    <2>1. CASE g = f
        <3>1. server'[g] = server[f] \union {new} /\ uidNext'[g] = uidNext[f] + 1
            BY <1>1, <2>1 DEF FoldersTyped
        <3>2. uidNext[f] \in Nat /\ \A e \in server[f] : e.uid \in Nat /\ e.uid < uidNext[f]
            BY DEF FoldersTyped, Numbered
        <3> QED
            BY <1>2, <1>3, <2>1, <3>1, <3>2 DEF Grown
    <2>2. CASE g # f
        BY <1>1, <2>2 DEF FoldersTyped, Grown
    <2> QED
        BY <2>1, <2>2
<1> QED
    BY <1>4, <1>5 DEF FoldersTyped

LEMMA MoveGrows ==
    ASSUME FoldersTyped, NEW f \in Sync!Folders, NEW u \in Nat, NEW g \in Sync!Folders,
           Sync!ServerMove(f, u, g), UNCHANGED <<epoch, cursor>>
    PROVE  /\ FoldersTyped' /\ \A h \in Sync!Folders : Grown(h)
           /\ (\A e, d \in server[f] : e.uid = d.uid => e = d) /\ u < uidNext[f] =>
                \A e \in server'[f] : e.uid # u
<1>1. CASE ~\E e \in server[f] : e.uid = u
    <2>1. UNCHANGED <<server, uidNext>>
        BY <1>1 DEF Sync!ServerMove
    <2> QED
        BY <1>1, <2>1, FoldersSame
<1>2. CASE \E e \in server[f] : e.uid = u
    <2> DEFINE e == CHOOSE e \in server[f] : e.uid = u
               new == Sync!Mail(uidNext[g], e.msg)
    <2>1. e \in server[f] /\ e.uid = u
        BY <1>2
    <2>2. /\ server' = [server EXCEPT ![f] = @ \ {e}, ![g] = @ \union {new}]
          /\ uidNext' = [uidNext EXCEPT ![g] = @ + 1]
        BY <1>2 DEF Sync!ServerMove
    <2>3. new \in Numbered /\ new.uid = uidNext[g]
        BY <2>1 DEF FoldersTyped, Sync!Mail, Numbered
    <2> HIDE DEF e, new
    <2>4. /\ server' \in [Sync!Folders -> SUBSET Numbered]
          /\ uidNext' \in [Sync!Folders -> Nat \ {0}]
        BY <2>2, <2>3 DEF FoldersTyped
    <2>5. \A h \in Sync!Folders : uidNext[h] \in Nat /\ \A d \in server[h] : d.uid \in Nat
              /\ d.uid < uidNext[h]
        BY DEF FoldersTyped, Numbered
    <2>6. IsFiniteSet(server[f] \ {e})
        BY FS_RemoveElement DEF FoldersTyped
    <2>7. ASSUME NEW h \in Sync!Folders
          PROVE  /\ IsFiniteSet(server'[h])
                 /\ \A d \in server'[h] : d.uid < uidNext'[h]
                 /\ Grown(h)
        <3>1. CASE h = g
            <4>1. /\ uidNext'[h] = uidNext[h] + 1 /\ new.uid = uidNext[h]
                  /\ server'[h] = (IF h = f THEN server[h] \ {e} ELSE server[h]) \union {new}
                BY <2>2, <2>3, <3>1 DEF FoldersTyped
            <4>2. IsFiniteSet(server'[h])
                <5>1. IsFiniteSet(IF h = f THEN server[h] \ {e} ELSE server[h])
                    BY <2>6 DEF FoldersTyped
                <5> QED
                    BY <4>1, <5>1, FS_AddElement
            <4> QED
                BY <2>5, <4>1, <4>2 DEF Grown
        <3>2. CASE h # g
            <4>1. /\ uidNext'[h] = uidNext[h]
                  /\ server'[h] = IF h = f THEN server[h] \ {e} ELSE server[h]
                BY <2>2, <3>2 DEF FoldersTyped
            <4>2. IsFiniteSet(server'[h])
                BY <2>6, <4>1 DEF FoldersTyped
            <4> QED
                BY <2>5, <4>1, <4>2 DEF Grown
        <3> QED
            BY <3>1, <3>2
    <2>8. ASSUME \A d, c \in server[f] : d.uid = c.uid => d = c, u < uidNext[f],
                 NEW d \in server'[f]
          PROVE  d.uid # u
        <3>1. d \in server[f] \ {e} \/ (f = g /\ d = new)
            BY <2>2 DEF FoldersTyped
        <3>2. ASSUME d \in server[f] \ {e} PROVE d.uid # u
            BY <2>1, <2>8, <3>2
        <3> QED
            BY <2>3, <2>5, <2>8, <3>1, <3>2
    <2> QED
        BY <2>4, <2>7, <2>8 DEF FoldersTyped
<1> QED
    BY <1>1, <1>2

-----------------------------------------------------------------------------
SyncInv == SyncTyped /\ SyncExact /\ SyncWhole

LEMMA DeliverKeeps ==
    ASSUME Sync!SyncConstants, SyncInv, NEW m \in Sync!Messages, Sync!Deliver(m)
    PROVE  SyncInv'
<1>1. /\ Sync!Append1(Sync!INBOX, m)
      /\ UNCHANGED <<epoch, rows, cursor, rule, poll, org, send, Sync!bounds>>
    BY DEF Sync!Deliver
<1>2. Sync!INBOX \in Sync!Folders
    BY DEF Sync!SyncConstants
<1>3. FoldersTyped' /\ \A g \in Sync!Folders : Grown(g)
    BY <1>1, <1>2, AppendGrows DEF SyncInv, SyncTyped
<1>4. SyncTyped'
    BY <1>1, <1>3, RowsSame, PollsSame, PeopleSame DEF SyncInv, SyncTyped
<1>5. SyncExact'
    BY <1>1, <1>3, LaterSame, ExactKept DEF SyncInv, SyncExact, OfARow
<1>6. SyncWhole'
    BY <1>1, WholeSame DEF SyncInv, Sync!bounds
<1> QED
    BY <1>4, <1>5, <1>6 DEF SyncInv

LEMMA RenumberKeeps ==
    ASSUME Sync!SyncConstants, SyncInv, NEW f \in Sync!Folders, Sync!Renumber(f)
    PROVE  SyncInv'
<1> DEFINE rank(e) == Cardinality({d \in server[f] : d.uid <= e.uid})
           moved == {Sync!Mail(rank(e), e.msg) : e \in server[f]}
           n == Cardinality(server[f])
<1>1. /\ server' = [server EXCEPT ![f] = moved]
      /\ uidNext' = [uidNext EXCEPT ![f] = n + 1]
      /\ epoch' = [epoch EXCEPT ![f] = @ + 1]
      /\ resets < MaxResets /\ resets' = resets + 1
      /\ UNCHANGED <<rows, cursor, rule, arrived, poll, org, send, requests, failures, overlapped>>
    BY SyncCardinality DEF Sync!Renumber
<1>2. FoldersTyped /\ IsFiniteSet(server[f]) /\ server[f] \subseteq Numbered
    BY DEF SyncInv, SyncTyped, FoldersTyped
<1>3. n \in Nat
    BY <1>2, FS_CardinalityType
<1>4. ASSUME NEW e \in server[f] PROVE rank(e) \in 1..n
    <2> DEFINE below == {d \in server[f] : d.uid <= e.uid}
    <2>1. below \subseteq server[f]
        OBVIOUS
    <2>2. IsFiniteSet(below) /\ Cardinality(below) <= n
        BY <1>2, <2>1, FS_Subset
    <2>3. e \in below
        BY <1>2 DEF Numbered
    <2>4. Cardinality(below) \in Nat /\ Cardinality(below) # 0
        BY <2>2, <2>3, FS_CardinalityType, FS_EmptySet
    <2> QED
        BY <1>3, <2>2, <2>4
<1>5. moved \subseteq Numbered /\ \A e \in moved : e.uid < n + 1
    <2> HIDE DEF rank, n
    <2>1. ASSUME NEW e \in server[f]
          PROVE  Sync!Mail(rank(e), e.msg) \in Numbered /\ Sync!Mail(rank(e), e.msg).uid < n + 1
        <3>1. rank(e) \in 1..n /\ e.msg \in Sync!Messages
            BY <1>2, <1>4 DEF Numbered
        <3> QED
            BY <1>3, <3>1 DEF Sync!Mail, Numbered
    <2> QED
        BY <2>1
<1>6. IsFiniteSet(moved)
    <2> DEFINE as == [e \in server[f] |-> Sync!Mail(rank(e), e.msg)]
    <2>1. as \in Surjection(server[f], moved)
        BY DEF Surjection
    <2> QED
        BY <1>2, <2>1, FS_Surjection, Zenon
<1> HIDE DEF moved, n
<1>7. FoldersTyped'
    BY <1>1, <1>2, <1>3, <1>5, <1>6 DEF FoldersTyped
<1>8. PeopleTyped'
    BY <1>1 DEF SyncInv, SyncTyped, PeopleTyped, OrgTyped, Sync!SyncConstants
<1>9. SyncTyped'
    BY <1>1, <1>7, <1>8, RowsSame, PollsSame DEF SyncInv, SyncTyped
<1>10. \A g \in Sync!Folders : epoch'[g] = 1 => Later(g)
    <2> SUFFICES ASSUME NEW g \in Sync!Folders, epoch'[g] = 1 PROVE Later(g)
        OBVIOUS
    <2>1. g # f
        <3>1. epoch[f] \in Nat \ {0} /\ epoch'[f] = epoch[f] + 1
            BY <1>1, <1>2 DEF FoldersTyped
        <3> QED
            BY <3>1
    <2>2. server'[g] = server[g] /\ uidNext'[g] = uidNext[g] /\ epoch'[g] = epoch[g]
        BY <1>1, <1>2, <2>1 DEF FoldersTyped
    <2>3. Grown(g)
        BY <1>2, <2>2 DEF Grown, FoldersTyped
    <2> QED
        BY <1>1, <2>2, <2>3, LaterSame
<1>11. SyncExact'
    BY <1>1, <1>7, <1>10, ExactKept DEF SyncInv, SyncExact, OfARow
<1>12. SyncWhole'
    BY <1>1, WholeSame DEF SyncInv
<1> QED
    BY <1>9, <1>11, <1>12 DEF SyncInv

-----------------------------------------------------------------------------
(* What a step does to the rows *)

LEMMA WholeLike ==
    ASSUME SyncWhole, failures' = 0 => failures = 0,
           \A r \in rows' : \E q \in rows :
                r.owner = q.owner /\ r.files = q.files /\ r.scanned = q.scanned,
           \A p \in Pollers : poll[p].pc \in Holding =>
                poll'[p].pc \in Holding /\ (poll'[p].pc = "files" <=> poll[p].pc = "files")
    PROVE  SyncWhole'
<1> SUFFICES ASSUME NEW r \in rows' PROVE RowWhole(r)'
    BY DEF SyncWhole
<1>1. PICK q \in rows : r.owner = q.owner /\ r.files = q.files /\ r.scanned = q.scanned
    OBVIOUS
<1>2. RowWhole(q)
    BY DEF SyncWhole
<1> QED
    BY <1>1, <1>2 DEF RowWhole

\* Where the server is as it was, a row with a uid is kept, or taken away when
\* its message is gone.
LEMMA LaterRows ==
    ASSUME FoldersTyped, UNCHANGED <<server, uidNext, epoch>>, NEW f \in Sync!Folders,
           epoch[f] = 1 => \A r \in rows : r.folder = f /\ r.uid # Sync!NULL =>
                \/ \E q \in rows' : q.folder = f /\ q.uid = r.uid /\ q.epoch = r.epoch
                \/ \A e \in server[f] : e.uid # r.uid
    PROVE  epoch'[f] = 1 => Later(f)
<1> SUFFICES ASSUME epoch[f] = 1 PROVE Later(f)
    OBVIOUS
<1>1. Grown(f) /\ epoch'[f] = epoch[f]
    BY DEF Grown, FoldersTyped
<1>2. ASSUME NEW e \in server'[f], Sync!Stored(f, e.uid, 1) PROVE Sync!Stored(f, e.uid, 1)'
    <2>1. PICK r \in rows : r.folder = f /\ r.uid = e.uid /\ r.epoch = 1
        BY <1>2 DEF Sync!Stored
    <2>2. e \in server[f] /\ r.uid # Sync!NULL
        BY <2>1 DEF FoldersTyped, Numbered, Sync!NULL
    <2>3. PICK q \in rows' : q.folder = f /\ q.uid = r.uid /\ q.epoch = r.epoch
        BY <2>1, <2>2
    <2> QED
        BY <2>1, <2>3 DEF Sync!Stored
<1> QED
    BY <1>1, <1>2 DEF Later, StoredStays

LEMMA MovedRowKeeps ==
    ASSUME FoldersTyped, RowsTyped, UNCHANGED <<server, uidNext, epoch>>,
           NEW f \in Sync!Folders, NEW u \in Nat, NEW g \in Sync!Folders, Sync!MovedRow(f, u, g),
           epoch[f] = 1 => \A e \in server[f] : e.uid # u
    PROVE  /\ RowsTyped'
           /\ \A h \in Sync!Folders : epoch'[h] = 1 => Later(h)
           /\ \A r \in rows' : r.uid # Sync!NULL => OfARow(r)
           /\ \A r \in rows' : \E q \in rows :
                r.owner = q.owner /\ r.files = q.files /\ r.scanned = q.scanned
<1> DEFINE to(r) == IF r.folder = f /\ r.uid = u THEN [r EXCEPT !.folder = g, !.uid = Sync!NULL]
               ELSE r
<1>1. rows' = {to(r) : r \in rows}
    BY DEF Sync!MovedRow
<1>2. ASSUME NEW r \in rows
      PROVE  /\ to(r) \in RowType /\ to(r).owner = r.owner /\ to(r).files = r.files
             /\ to(r).scanned = r.scanned
             /\ to(r).uid # Sync!NULL => to(r) = r /\ r.folder \in Sync!Folders
             /\ r.owner \in Outgoing => to(r).uid = Sync!NULL
             /\ r.folder # f \/ r.uid # u => to(r) = r
    <2>1. r \in RowType /\ (r.uid # Sync!NULL => r.folder \in Sync!Folders)
              /\ (r.owner \in Outgoing => r.uid = Sync!NULL)
        BY DEF RowsTyped
    <2> QED
        BY <2>1 DEF RowType, Sync!NULL
<1> HIDE DEF to
<1>3. RowsTyped'
    BY <1>1, <1>2 DEF RowsTyped
<1>4. \A h \in Sync!Folders : epoch'[h] = 1 => Later(h)
    <2> SUFFICES ASSUME NEW h \in Sync!Folders PROVE epoch'[h] = 1 => Later(h)
        OBVIOUS
    <2>1. ASSUME epoch[h] = 1, NEW r \in rows, r.folder = h, r.uid # Sync!NULL
          PROVE  \/ \E q \in rows' : q.folder = h /\ q.uid = r.uid /\ q.epoch = r.epoch
                 \/ \A e \in server[h] : e.uid # r.uid
        BY <1>1, <1>2, <2>1
    <2> QED
        BY <2>1, LaterRows
<1>5. \A r \in rows' : r.uid # Sync!NULL => OfARow(r)
    BY <1>1, <1>2 DEF OfARow
<1> QED
    BY <1>1, <1>2, <1>3, <1>4, <1>5

\* Rows of which only files, scanned and owner change.
LEMMA RowsKept ==
    ASSUME FoldersTyped, UNCHANGED <<server, uidNext, epoch>>,
           \A r \in rows : \E q \in rows' : q.folder = r.folder /\ q.uid = r.uid
               /\ q.epoch = r.epoch,
           \A q \in rows' : \E r \in rows : q.folder = r.folder /\ q.uid = r.uid
    PROVE  /\ \A h \in Sync!Folders : epoch'[h] = 1 => Later(h)
           /\ \A r \in rows' : r.uid # Sync!NULL => OfARow(r)
<1>1. \A h \in Sync!Folders : epoch'[h] = 1 => Later(h)
    BY LaterRows
<1> QED
    BY <1>1 DEF OfARow

\* Rows taken away, none of which has a message.
LEMMA RowsFewer ==
    ASSUME FoldersTyped, RowsTyped, UNCHANGED <<server, uidNext, epoch>>, rows' \subseteq rows,
           \A r \in rows \ rows' : r.uid # Sync!NULL /\ epoch[r.folder] = 1 =>
                \A e \in server[r.folder] : e.uid # r.uid
    PROVE  /\ RowsTyped'
           /\ \A h \in Sync!Folders : epoch'[h] = 1 => Later(h)
           /\ \A r \in rows' : r.uid # Sync!NULL => OfARow(r)
<1>1. \A h \in Sync!Folders : epoch'[h] = 1 => Later(h)
    BY LaterRows
<1> QED
    BY <1>1 DEF OfARow, RowsTyped

-----------------------------------------------------------------------------
(* What a step does to a poll *)

LEMMA PollsMoved ==
    ASSUME PollsTyped, NEW p \in Pollers, NEW new \in PollType,
           poll' = [poll EXCEPT ![p] = new], PollTyped(p)'
    PROVE  /\ PollsTyped' /\ poll'[p] = new
           /\ \A q \in Pollers \ {p} : poll'[q] = poll[q]
<1>1. /\ poll' \in [Pollers -> PollType] /\ poll'[p] = new
      /\ \A q \in Pollers \ {p} : poll'[q] = poll[q]
    BY DEF PollsTyped
<1>2. \A q \in Pollers \ {p} : PollTyped(q)'
    BY <1>1 DEF PollsTyped, PollTyped, Sync!Folder
<1> QED
    BY <1>1, <1>2 DEF PollsTyped

\* A poll goes from one statement to the next.
LEMMA PcMoves ==
    ASSUME PollsTyped, NEW p \in Pollers, poll[p].pc # "idle",
           NEW to \in {"fetch", "save"} \union Working, poll' = [poll EXCEPT ![p].pc = to],
           to \in Working => poll[p].batch # {},
           to \in Following => Sync!Folder(p) = Sync!INBOX,
           to \in Following \ {"follow"} => poll[p].target # None
    PROVE  /\ PollsTyped'
           /\ \A q \in Pollers \ {p} : poll'[q] = poll[q]
           /\ poll'[p].pc = to /\ poll'[p].todo = poll[p].todo /\ poll'[p].since = poll[p].since
           /\ poll'[p].batch = poll[p].batch /\ poll'[p].target = poll[p].target
<1> DEFINE new == [poll[p] EXCEPT !.pc = to]
<1>1. poll[p] \in PollType /\ PollTyped(p)
    BY DEF PollsTyped
<1>2. /\ poll' = [poll EXCEPT ![p] = new] /\ new \in PollType
      /\ new.pc = to /\ new.todo = poll[p].todo /\ new.since = poll[p].since
      /\ new.batch = poll[p].batch /\ new.target = poll[p].target
    BY <1>1 DEF PollType
<1> HIDE DEF new
<1>3. poll'[p] = new
    BY <1>2 DEF PollsTyped
<1>4. PollTyped(p)'
    BY <1>1, <1>2, <1>3 DEF PollTyped, Sync!Folder, Working, Holding
<1> QED
    BY <1>2, <1>3, <1>4, PollsMoved

\* On to the next folder, or to the end.
LEMMA FolderNext ==
    ASSUME PollsTyped, NEW p \in Pollers, poll[p].pc # "idle", Sync!NextFolder(p)
    PROVE  /\ PollsTyped' /\ PollExact(p)' /\ poll'[p].pc \in {"idle", "cursor"}
           /\ \A q \in Pollers \ {p} : poll'[q] = poll[q]
<1> DEFINE others == Tail(poll[p].todo)
           new == IF others = <<>> THEN Sync!IdlePoll
               ELSE [Sync!IdlePoll EXCEPT !.pc = "cursor", !.todo = others]
<1>1. others \in Seq(Sync!Folders)
    BY FolderOf DEF PollsTyped, PollTyped
<1>2. poll' = [poll EXCEPT ![p] = new]
    BY DEF Sync!NextFolder
<1>3. new \in PollType /\ new.pc \in {"idle", "cursor"} /\ (new.pc = "idle" <=> new.todo = <<>>)
    BY <1>1, EmptySeq DEF Sync!IdlePoll, PollType
<1> HIDE DEF new
<1>4. poll'[p] = new
    BY <1>2 DEF PollsTyped
<1>5. PollTyped(p)' /\ PollExact(p)'
    BY <1>3, <1>4 DEF PollTyped, PollExact, Working, Holding, Following
<1> QED
    BY <1>2, <1>3, <1>4, <1>5, PollsMoved

\* On to the next message, or to the cursor: what is gone past is filed.
LEMMA MessageNext ==
    ASSUME SyncTyped, NEW p \in Pollers, poll[p].pc \in Working, PollExact(p), Sync!NextMessage(p),
           UNCHANGED <<server, uidNext, epoch>>,
           \A f \in Sync!Folders : epoch'[f] = 1 => Later(f),
           NEW f, f = Sync!Folder(p),
           epoch[f] = 1 => \A e \in server[f] : e.uid = Sync!Msg(p).uid => Sync!Stored(f, e.uid, 1)'
    PROVE  /\ PollsTyped' /\ PollExact(p)' /\ poll'[p].pc \in {"save", "converge"}
           /\ \A q \in Pollers \ {p} : poll'[q] = poll[q]
<1> DEFINE b == poll[p].batch
           u == Sync!Msg(p).uid
           since == IF u > poll[p].since THEN u ELSE poll[p].since
           new == [poll[p] EXCEPT !.batch = b \ {Sync!Msg(p)}, !.target = None,
                                  !.pc = IF b = {Sync!Msg(p)} THEN "save" ELSE "converge",
                                  !.since = since]
<1>1. /\ poll[p] \in PollType /\ PollTyped(p) /\ b \subseteq Numbered
      /\ Sync!Msg(p) \in b /\ u \in Nat /\ \A d \in b : u <= d.uid
    BY AtMessage DEF SyncTyped, PollsTyped, PollType, Numbered
<1>2. poll' = [poll EXCEPT ![p] = new]
    BY <1>1 DEF Sync!NextMessage, SyncTyped, PollsTyped
<1>3. /\ new \in PollType
      /\ new.pc = IF b = {Sync!Msg(p)} THEN "save" ELSE "converge"
      /\ new.todo = poll[p].todo /\ new.batch = b \ {Sync!Msg(p)} /\ new.since = since
    BY <1>1 DEF PollType, Working
<1> HIDE DEF new
<1>4. poll'[p] = new
    BY <1>2 DEF SyncTyped, PollsTyped
<1>5. poll'[p].pc \in {"save", "converge"} /\ (poll'[p].pc = "converge" => poll'[p].batch # {})
    BY <1>1, <1>3, <1>4
<1>6. PollTyped(p)'
    BY <1>1, <1>3, <1>4, <1>5 DEF PollTyped, Working, Holding, Following
<1>7. PollExact(p)'
    <2>1. Sync!Folder(p)' = f
        BY <1>3, <1>4 DEF Sync!Folder
    <2> SUFFICES ASSUME epoch[f] = 1
                 PROVE  /\ since < uidNext[f]
                        /\ \A e \in server[f] : e.uid <= since => Sync!Stored(f, e.uid, 1)'
                        /\ \A d \in b \ {Sync!Msg(p)} : d.uid < uidNext[f]
                        /\ \A e \in server[f] : e.uid > since /\ e \notin b \ {Sync!Msg(p)} =>
                             \A d \in b \ {Sync!Msg(p)} : d.uid < e.uid
        BY <1>3, <1>4, <1>5, <2>1 DEF PollExact, Holding
    <2>2. f \in Sync!Folders /\ poll[p].pc \notin {"idle", "cursor", "fetch"}
        BY FolderOf DEF SyncTyped, Working, Holding
    <2>3. /\ poll[p].since < uidNext[f]
          /\ \A e \in server[f] : e.uid <= poll[p].since => Sync!Stored(f, e.uid, 1)
          /\ \A d \in b : d.uid < uidNext[f]
          /\ \A e \in server[f] : e.uid > poll[p].since /\ e \notin b => \A d \in b : d.uid < e.uid
        BY <2>2 DEF PollExact
    <2>4. poll[p].since \in Nat /\ uidNext[f] \in Nat /\ \A e \in server[f] : e.uid \in Nat
        BY <1>1, <2>2 DEF PollType, SyncTyped, FoldersTyped, Numbered
    <2>5. since < uidNext[f] /\ since \in Nat
        BY <1>1, <2>3, <2>4
    <2>6. ASSUME NEW e \in server[f], e.uid <= since PROVE Sync!Stored(f, e.uid, 1)'
        <3>1. CASE e.uid <= poll[p].since
            <4>1. StoredStays(f) /\ server'[f] = server[f]
                BY <2>2 DEF Later
            <4>2. Sync!Stored(f, e.uid, 1)
                BY <2>3, <3>1
            <4> QED
                BY <4>1, <4>2 DEF StoredStays
        <3>2. CASE ~(e.uid <= poll[p].since)
            <4>1. e.uid > poll[p].since /\ e.uid <= u
                BY <1>1, <2>4, <2>6, <3>2
            <4>2. e.uid = u
                BY <1>1, <2>3, <2>4, <4>1
            <4> QED
                BY <4>2
        <3> QED
            BY <3>1, <3>2
    <2>7. ASSUME NEW e \in server[f], e.uid > since, e \notin b \ {Sync!Msg(p)},
                 NEW d \in b \ {Sync!Msg(p)}
          PROVE  d.uid < e.uid
        <3>1. e.uid > poll[p].since /\ e.uid > u
            BY <1>1, <2>4, <2>5, <2>7
        <3>2. e \notin b
            BY <1>1, <2>4, <2>7, <3>1
        <3> QED
            BY <2>3, <2>7, <3>1, <3>2
    <2> QED
        BY <2>3, <2>5, <2>6, <2>7
<1> QED
    BY <1>2, <1>3, <1>4, <1>5, <1>6, <1>7, PollsMoved DEF SyncTyped

-----------------------------------------------------------------------------
(* The poll *)

\* What the steps of poll p have in common.
LEMMA PollActs ==
    ASSUME SyncInv, NEW p \in Pollers, FoldersTyped', RowsTyped', PollsTyped',
           UNCHANGED <<rule, org, send, requests, resets>>,
           failures' = failures \/ (failures < MaxFailures /\ failures' = failures + 1),
           MaxFailures \in Nat,
           \A q \in Pollers \ {p} : poll'[q] = poll[q], PollExact(p)',
           \A f \in Sync!Folders : epoch'[f] = 1 => Later(f),
           \A f \in Sync!Folders : cursor'[f] = cursor[f] \/ cursor'[f] = Sync!NoCursor,
           \A r \in rows' : r.uid # Sync!NULL => OfARow(r)
    PROVE  SyncTyped' /\ SyncExact' /\ (failures' = 0 => failures = 0)
<1>1. PeopleTyped' /\ (failures' = 0 => failures = 0)
    BY DEF SyncInv, SyncTyped, PeopleTyped, OrgTyped
<1>2. SyncTyped'
    BY <1>1 DEF SyncTyped
<1>3. SyncExact'
    BY ExactKept DEF SyncInv, SyncExact
<1> QED
    BY <1>1, <1>2, <1>3

\* A step that touches neither the server, nor the rows, nor a cursor.
LEMMA PollThinks ==
    ASSUME SyncInv, NEW p \in Pollers, PollsTyped', PollExact(p)',
           UNCHANGED <<Sync!serverVars, rows, cursor, rule, org, send, requests, resets>>,
           failures' = failures \/ (failures < MaxFailures /\ failures' = failures + 1),
           MaxFailures \in Nat,
           \A q \in Pollers \ {p} : poll'[q] = poll[q],
           poll[p].pc \in Holding =>
                poll'[p].pc \in Holding /\ (poll'[p].pc = "files" <=> poll[p].pc = "files")
    PROVE  SyncInv'
<1>1. FoldersTyped' /\ \A f \in Sync!Folders : Grown(f)
    BY FoldersSame DEF SyncInv, SyncTyped, Sync!serverVars
<1>2. RowsTyped'
    BY RowsSame DEF SyncInv, SyncTyped
<1>3. \A f \in Sync!Folders : epoch'[f] = 1 => Later(f)
    BY <1>1, LaterSame DEF Sync!serverVars
<1>4. SyncTyped' /\ SyncExact' /\ (failures' = 0 => failures = 0)
    BY <1>1, <1>2, <1>3, PollActs DEF OfARow
<1>5. SyncWhole'
    BY <1>4, WholeLike DEF SyncInv
<1> QED
    BY <1>4, <1>5 DEF SyncInv

LEMMA StartKeeps ==
    ASSUME Sync!SyncConstants, SyncInv, NEW p \in Pollers, Sync!PollStart(p)
    PROVE  SyncInv'
<1> DEFINE new == [poll[p] EXCEPT !.pc = "cursor", !.todo = FolderOrder]
<1>1. /\ poll[p].pc = "idle" /\ poll[p] \in PollType /\ PollTyped(p) /\ PollsTyped
      /\ UNCHANGED <<Sync!serverVars, rows, cursor, rule, org, send, requests, failures, resets>>
    BY DEF Sync!PollStart, SyncInv, SyncTyped, PollsTyped
<1>2. FolderOrder \in Seq(Sync!Folders) /\ FolderOrder # <<>>
    BY FolderListed
<1>3. poll' = [poll EXCEPT ![p] = new] /\ new \in PollType /\ new.pc = "cursor"
          /\ new.todo = FolderOrder
    BY <1>1, <1>2 DEF Sync!PollStart, PollsTyped, PollType
<1> HIDE DEF new
<1>4. poll'[p] = new
    BY <1>1, <1>3 DEF PollsTyped
<1>5. PollTyped(p)' /\ PollExact(p)'
    BY <1>2, <1>3, <1>4 DEF PollTyped, PollExact, Working, Holding, Following
<1>6. PollsTyped' /\ \A q \in Pollers \ {p} : poll'[q] = poll[q]
    BY <1>1, <1>3, <1>5, PollsMoved
<1> QED
    BY <1>1, <1>5, <1>6, PollThinks DEF Sync!bounds, Holding, Sync!SyncConstants

LEMMA CursorKeeps ==
    ASSUME Sync!SyncConstants, SyncInv, NEW p \in Pollers, Sync!PollCursor(p)
    PROVE  SyncInv'
<1> DEFINE f == Sync!Folder(p)
           new == [poll[p] EXCEPT !.pc = "fetch", !.since = Sync!folderCursor(f)]
<1>1. /\ poll[p].pc = "cursor" /\ poll[p] \in PollType /\ PollTyped(p) /\ PollsTyped
      /\ UNCHANGED <<Sync!serverVars, rows, cursor, rule, org, send, Sync!bounds>>
    BY DEF Sync!PollCursor, SyncInv, SyncTyped, PollsTyped
<1>2. f \in Sync!Folders
    BY <1>1, FolderOf
<1>3. Sync!folderCursor(f) \in Nat
    BY <1>2 DEF Sync!folderCursor, SyncInv, SyncTyped, FoldersTyped
<1>4. /\ poll' = [poll EXCEPT ![p] = new] /\ new \in PollType /\ new.pc = "fetch"
      /\ new.todo = poll[p].todo /\ new.since = Sync!folderCursor(f)
    BY <1>1, <1>3 DEF Sync!PollCursor, PollsTyped, PollType
<1> HIDE DEF new
<1>5. poll'[p] = new
    BY <1>1, <1>4 DEF PollsTyped
<1>6. PollTyped(p)'
    BY <1>1, <1>4, <1>5 DEF PollTyped, Working, Holding, Following
<1>7. PollExact(p)'
    <2>1. Sync!Folder(p)' = f
        BY <1>4, <1>5 DEF Sync!Folder
    <2> SUFFICES ASSUME epoch[f] = 1
                 PROVE  /\ Sync!folderCursor(f) < uidNext[f]
                        /\ \A e \in server[f] : e.uid <= Sync!folderCursor(f)
                               => Sync!Stored(f, e.uid, 1)
        BY <1>1, <1>4, <1>5, <2>1 DEF PollExact, Holding, Sync!serverVars, Sync!Stored
    <2>2. cursor[f].last < uidNext[f] /\ Sync!Exact(f) /\ uidNext[f] \in Nat \ {0}
        BY <1>2 DEF SyncInv, SyncExact, NumbersHold, SyncTyped, FoldersTyped
    <2>3. \A e \in server[f] : e.uid \in Nat \ {0}
        BY <1>2 DEF SyncInv, SyncTyped, FoldersTyped, Numbered
    <2>4. CASE cursor[f].epoch = 1
        BY <2>2, <2>4 DEF Sync!folderCursor, Sync!Exact, Sync!Passed
    <2>5. CASE cursor[f].epoch # 1
        BY <2>2, <2>3, <2>5 DEF Sync!folderCursor
    <2> QED
        BY <2>4, <2>5
<1>8. PollsTyped' /\ \A q \in Pollers \ {p} : poll'[q] = poll[q]
    BY <1>1, <1>4, <1>6, PollsMoved
<1> QED
    BY <1>1, <1>7, <1>8, PollThinks DEF Sync!bounds, Holding, Sync!SyncConstants

LEMMA FetchKeeps ==
    ASSUME Sync!SyncConstants, SyncInv, NEW p \in Pollers, Sync!PollFetch(p)
    PROVE  SyncInv'
<1> DEFINE f == Sync!Folder(p)
           got == Sync!Fetched(f, poll[p].since)
           new == [poll[p] EXCEPT !.batch = got, !.pc = IF got = {} THEN "save" ELSE "converge"]
<1>1. /\ poll[p].pc = "fetch" /\ poll[p] \in PollType /\ PollTyped(p) /\ PollsTyped
      /\ UNCHANGED <<Sync!serverVars, rows, cursor, rule, org, send, Sync!bounds>>
    BY DEF Sync!PollFetch, SyncInv, SyncTyped, PollsTyped
<1>2. f \in Sync!Folders /\ FoldersTyped /\ server[f] \subseteq Numbered /\ IsFiniteSet(server[f])
    BY <1>1, FolderOf DEF SyncInv, SyncTyped, FoldersTyped
<1>3. got \subseteq server[f]
    BY DEF Sync!Fetched
<1>4. /\ poll' = [poll EXCEPT ![p] = new] /\ new \in PollType
      /\ new.pc = IF got = {} THEN "save" ELSE "converge"
      /\ new.todo = poll[p].todo /\ new.since = poll[p].since /\ new.batch = got
    BY <1>1, <1>2, <1>3 DEF Sync!PollFetch, PollsTyped, PollType, Working
<1> HIDE DEF new
<1>5. poll'[p] = new
    BY <1>1, <1>4 DEF PollsTyped
<1>6. PollTyped(p)'
    BY <1>1, <1>4, <1>5 DEF PollTyped, Working, Holding, Following
<1>7. \A e \in server[f] : e.uid > poll[p].since /\ e \notin got => \A b \in got : b.uid < e.uid
    <2> DEFINE answer == {e \in server[f] : e.uid > poll[p].since}
                            \union {e \in server[f] : \A d \in server[f] : d.uid <= e.uid}
               below(n) == {d \in answer : d.uid < n}
    <2> SUFFICES ASSUME NEW e \in server[f], e.uid > poll[p].since, e \notin got, NEW b \in got
                 PROVE  b.uid < e.uid
        OBVIOUS
    <2>1. got = {d \in answer : Cardinality(below(d.uid)) < MaxPerPoll}
        BY SyncCardinality DEF Sync!Fetched
    <2>2. e \in answer /\ answer \subseteq server[f] /\ b \in answer
        BY <2>1
    <2>3. e.uid \in Nat /\ b.uid \in Nat /\ \A d \in answer : d.uid \in Nat
        BY <1>2, <2>2 DEF Numbered
    <2>4. \A n \in Nat : IsFiniteSet(below(n)) /\ Cardinality(below(n)) \in Nat
        BY <1>2, <2>2, FS_Subset, FS_CardinalityType
    <2>5. Cardinality(below(b.uid)) < MaxPerPoll /\ ~(Cardinality(below(e.uid)) < MaxPerPoll)
        BY <2>1, <2>2
    <2>6. SUFFICES ASSUME e.uid <= b.uid PROVE FALSE
        BY <2>3
    <2>7. below(e.uid) \subseteq below(b.uid)
        BY <2>3, <2>6
    <2>8. Cardinality(below(e.uid)) <= Cardinality(below(b.uid))
        <3>1. IsFiniteSet(below(b.uid))
            BY <2>3, <2>4
        <3> HIDE DEF below
        <3> QED
            BY <2>7, <3>1, FS_Subset
    <2>9. /\ Cardinality(below(e.uid)) \in Nat /\ Cardinality(below(b.uid)) \in Nat
          /\ MaxPerPoll \in Nat
        BY <2>3, <2>4 DEF Sync!SyncConstants
    <2> QED
        BY <2>5, <2>8, <2>9
<1>8. PollExact(p)'
    <2>1. Sync!Folder(p)' = f
        BY <1>4, <1>5 DEF Sync!Folder
    <2> SUFFICES ASSUME epoch[f] = 1
                 PROVE  /\ poll[p].since < uidNext[f]
                        /\ \A e \in server[f] : e.uid <= poll[p].since => Sync!Stored(f, e.uid, 1)
                        /\ \A b \in got : b.uid < uidNext[f]
        BY <1>1, <1>4, <1>5, <1>7, <2>1 DEF PollExact, Holding, Sync!serverVars, Sync!Stored
    <2>2. PollExact(p)
        BY DEF SyncInv, SyncExact
    <2> QED
        BY <1>1, <1>2, <1>3, <2>2 DEF PollExact, FoldersTyped
<1>9. PollsTyped' /\ \A q \in Pollers \ {p} : poll'[q] = poll[q]
    BY <1>1, <1>4, <1>6, PollsMoved
<1> QED
    BY <1>1, <1>8, <1>9, PollThinks DEF Sync!bounds, Holding, Sync!SyncConstants

LEMMA ConvergeKeeps ==
    ASSUME Sync!SyncConstants, SyncInv, NEW p \in Pollers, Sync!PollConverge(p)
    PROVE  SyncInv'
<1>1. /\ poll[p].pc = "converge" /\ poll' = [poll EXCEPT ![p].pc = "insert"]
      /\ rows' = {r \in rows : r.msg # Sync!Msg(p).msg \/ r.uid # Sync!NULL}
      /\ UNCHANGED <<Sync!serverVars, cursor, rule, org, send, Sync!bounds>>
    BY DEF Sync!PollConverge
<1>2. poll[p].batch # {} /\ PollsTyped /\ RowsTyped
    BY <1>1 DEF SyncInv, SyncTyped, PollsTyped, PollTyped, Working
<1>3. /\ PollsTyped' /\ \A q \in Pollers \ {p} : poll'[q] = poll[q]
      /\ poll'[p].pc = "insert" /\ poll'[p].todo = poll[p].todo
      /\ poll'[p].since = poll[p].since /\ poll'[p].batch = poll[p].batch
    BY <1>1, <1>2, PcMoves DEF Working, Holding, Following
<1>4. FoldersTyped'
    BY <1>1, FoldersSame DEF SyncInv, SyncTyped, Sync!serverVars
<1>5. /\ RowsTyped' /\ \A f \in Sync!Folders : epoch'[f] = 1 => Later(f)
      /\ \A r \in rows' : r.uid # Sync!NULL => OfARow(r)
    BY <1>1, <1>2, RowsFewer DEF SyncInv, SyncTyped, Sync!serverVars
<1>6. PollExact(p)'
    BY <1>1, <1>3, <1>4, <1>5, PollStays DEF SyncInv, SyncExact, Holding
<1>7. SyncTyped' /\ SyncExact'
    BY <1>1, <1>3, <1>4, <1>5, <1>6, PollActs DEF Sync!bounds, Sync!SyncConstants
<1>8. SyncWhole'
    BY <1>1, <1>3, WholeLike DEF SyncInv, Sync!bounds, Holding
<1> QED
    BY <1>7, <1>8 DEF SyncInv

\* What poll p is at, and the folder it is at it in.
LEMMA AtWork ==
    ASSUME SyncInv, NEW p \in Pollers, poll[p].pc \in Working
    PROVE  /\ Sync!Folder(p) \in Sync!Folders /\ poll[p].batch # {} /\ poll[p].pc # "idle"
           /\ Sync!Msg(p) \in poll[p].batch /\ Sync!Msg(p).uid \in Nat \ {0}
                  /\ Sync!Msg(p).msg \in Sync!Messages
           /\ poll[p].target \in Sync!Folders \union {None} /\ PollTyped(p)
           /\ epoch[Sync!Folder(p)] = 1 => Sync!Msg(p).uid < uidNext[Sync!Folder(p)]
<1>1. PollsTyped /\ PollTyped(p) /\ poll[p] \in PollType /\ PollExact(p)
    BY DEF SyncInv, SyncTyped, PollsTyped, SyncExact
<1>2. Sync!Msg(p) \in poll[p].batch /\ Sync!Msg(p) \in Numbered
    BY <1>1, AtMessage
<1>3. poll[p].pc \notin {"idle", "cursor", "fetch"}
    BY DEF Working, Holding
<1> QED
    BY <1>1, <1>2, <1>3, FolderOf DEF PollExact, PollType, Numbered

LEMMA InsertKeeps ==
    ASSUME Sync!SyncConstants, SyncInv, NEW p \in Pollers, Sync!PollInsert(p)
    PROVE  SyncInv'
<1> PICK f : f = Sync!Folder(p)
    OBVIOUS
<1> PICK u : u = Sync!Msg(p).uid
    OBVIOUS
<1> DEFINE row == Sync!Row(f, u, epoch[f], Sync!Msg(p).msg, p)
<1>1. poll[p].pc = "insert" /\ UNCHANGED <<Sync!serverVars, cursor, rule, org, send, Sync!bounds>>
    BY DEF Sync!PollInsert
<1>2. /\ f \in Sync!Folders /\ u \in Nat \ {0} /\ Sync!Msg(p).msg \in Sync!Messages
             /\ poll[p].batch # {}
      /\ epoch[f] = 1 => u < uidNext[f]
    BY <1>1, AtWork DEF Working
<1>3. CASE Sync!Stored(f, u, epoch[f])
    <2>1. rows' = rows /\ Sync!NextMessage(p)
        BY <1>3 DEF Sync!PollInsert
    <2>2. \A g \in Sync!Folders : epoch'[g] = 1 => Later(g)
        BY <1>1, <2>1, FoldersSame, LaterSame DEF SyncInv, SyncTyped, Sync!serverVars
    <2>3. epoch[f] = 1 => \A e \in server[f] : e.uid = u => Sync!Stored(f, e.uid, 1)'
        <3>1. epoch[f] = 1 => \E r \in rows' : r.folder = f /\ r.uid = u /\ r.epoch = 1
            BY <1>3, <2>1 DEF Sync!Stored
        <3> QED
            BY <3>1 DEF Sync!Stored
    <2>4. /\ PollsTyped' /\ PollExact(p)' /\ poll'[p].pc \in {"save", "converge"}
          /\ \A q \in Pollers \ {p} : poll'[q] = poll[q]
        BY <1>1, <2>1, <2>2, <2>3, MessageNext DEF SyncInv, SyncExact, Sync!serverVars, Working
    <2> QED
        BY <1>1, <2>1, <2>4, PollThinks DEF Sync!bounds, Holding, Sync!SyncConstants
<1>4. CASE ~Sync!Stored(f, u, epoch[f])
    <2>1. rows' = rows \union {row} /\ poll' = [poll EXCEPT ![p].pc = "files"]
        BY <1>4 DEF Sync!PollInsert
    <2>2. /\ row \in RowType /\ row.folder = f /\ row.uid = u /\ row.epoch = epoch[f]
          /\ row.owner = p /\ row.files = 0
        BY <1>2 DEF Sync!Row, RowType, SyncInv, SyncTyped, FoldersTyped
    <2> HIDE DEF row
    <2>3. RowsTyped'
        BY <1>2, <2>1, <2>2 DEF SyncInv, SyncTyped, RowsTyped, Sync!SyncConstants
    <2>4. /\ PollsTyped' /\ \A q \in Pollers \ {p} : poll'[q] = poll[q]
          /\ poll'[p].pc = "files" /\ poll'[p].todo = poll[p].todo
          /\ poll'[p].since = poll[p].since /\ poll'[p].batch = poll[p].batch
        BY <1>1, <1>2, <2>1, PcMoves DEF SyncInv, SyncTyped, Working, Holding, Following
    <2>5. FoldersTyped'
        BY <1>1, FoldersSame DEF SyncInv, SyncTyped, Sync!serverVars
    <2>6. \A g \in Sync!Folders : epoch'[g] = 1 => Later(g)
        BY <1>1, <2>1, LaterRows DEF SyncInv, SyncTyped, Sync!serverVars
    <2>7. \A r \in rows' : r.uid # Sync!NULL => OfARow(r)
        BY <1>1, <1>2, <2>1, <2>2 DEF OfARow, Sync!serverVars
    <2>8. epoch'[f] = 1 => \A e \in server'[f] : e.uid = u => Sync!Stored(f, e.uid, 1)'
        <3>1. epoch'[f] = 1 => \E r \in rows' : r.folder = f /\ r.uid = u /\ r.epoch = 1
            BY <1>1, <2>1, <2>2 DEF Sync!serverVars
        <3> QED
            BY <3>1 DEF Sync!Stored
    <2>9. PollExact(p)'
        <3>1. Sync!Folder(p)' = f
            BY <2>4 DEF Sync!Folder
        <3> QED
            BY <1>1, <2>4, <2>5, <2>6, <2>8, <3>1, PollStays DEF SyncInv, SyncExact, Holding,
                   Working
    <2>10. SyncTyped' /\ SyncExact'
        BY <1>1, <2>3, <2>4, <2>5, <2>6, <2>7, <2>9, PollActs DEF Sync!bounds, Sync!SyncConstants
    <2>11. SyncWhole'
        <3> SUFFICES ASSUME NEW r \in rows' PROVE RowWhole(r)'
            BY DEF SyncWhole
        <3>1. CASE r = row
            BY <2>2, <2>4, <3>1 DEF RowWhole, Holding, Sync!SyncConstants
        <3>2. CASE r \in rows
            <4>1. RowWhole(r) /\ r.owner # p
                BY <1>1, <3>2 DEF SyncInv, SyncWhole, RowWhole, Holding
            <4> QED
                BY <1>1, <2>4, <4>1 DEF RowWhole, Sync!bounds
        <3> QED
            BY <2>1, <3>1, <3>2
    <2> QED
        BY <2>10, <2>11 DEF SyncInv
<1> QED
    BY <1>3, <1>4

LEMMA FilesKeeps ==
    ASSUME Sync!SyncConstants, SyncInv, NEW p \in Pollers, Sync!PollFiles(p)
    PROVE  SyncInv'
<1> DEFINE to(r) == IF r.owner = p THEN [r EXCEPT !.files = @ + 1] ELSE r
<1> PICK pc : pc = IF Sync!Folder(p) = Sync!INBOX THEN "follow" ELSE "scan"
    OBVIOUS
<1>1. /\ poll[p].pc = "files" /\ rows' = {to(r) : r \in rows}
      /\ poll' = [poll EXCEPT ![p].pc = pc] /\ pc \in {"follow", "scan"}
      /\ UNCHANGED <<Sync!serverVars, cursor, rule, org, send, Sync!bounds>>
    BY DEF Sync!PollFiles
<1>2. poll[p].batch # {} /\ poll[p].pc # "idle"
    BY <1>1, AtWork DEF Working, Holding
<1>3. /\ PollsTyped' /\ \A q \in Pollers \ {p} : poll'[q] = poll[q]
      /\ poll'[p].pc = pc /\ poll'[p].todo = poll[p].todo
      /\ poll'[p].since = poll[p].since /\ poll'[p].batch = poll[p].batch
    <2>1. /\ pc \in {"fetch", "save"} \union Working
          /\ pc \in Following => Sync!Folder(p) = Sync!INBOX
          /\ pc \notin Following \ {"follow"}
        BY <1>1 DEF Working, Holding, Following
    <2> QED
        BY <1>1, <1>2, <2>1, PcMoves DEF SyncInv, SyncTyped
<1>4. ASSUME NEW r \in rows
      PROVE  /\ to(r) \in RowType /\ to(r).owner = r.owner /\ to(r).folder = r.folder
             /\ to(r).uid = r.uid /\ to(r).epoch = r.epoch /\ to(r).scanned = r.scanned
             /\ r.owner = p => r.files = 0 /\ to(r).files = 1
             /\ r.owner # p => to(r).files = r.files
    <2>1. r \in RowType /\ RowWhole(r)
        BY DEF SyncInv, SyncTyped, RowsTyped, SyncWhole
    <2>2. r.owner = p => r.files = 0
        BY <1>1, <2>1 DEF RowWhole
    <2> QED
        BY <2>1, <2>2 DEF RowType
<1> HIDE DEF to
<1>5. RowsTyped'
    BY <1>1, <1>4 DEF SyncInv, SyncTyped, RowsTyped
<1>6. FoldersTyped'
    BY <1>1, FoldersSame DEF SyncInv, SyncTyped, Sync!serverVars
<1>7. /\ \A f \in Sync!Folders : epoch'[f] = 1 => Later(f)
      /\ \A r \in rows' : r.uid # Sync!NULL => OfARow(r)
    BY <1>1, <1>4, RowsKept DEF SyncInv, SyncTyped, Sync!serverVars
<1>8. PollExact(p)'
    BY <1>1, <1>3, <1>6, <1>7, PollStays DEF SyncInv, SyncExact, Holding, Working
<1>9. SyncTyped' /\ SyncExact'
    BY <1>1, <1>3, <1>5, <1>6, <1>7, <1>8, PollActs DEF Sync!bounds, Sync!SyncConstants
<1>10. SyncWhole'
    <2> SUFFICES ASSUME NEW r \in rows PROVE RowWhole(to(r))'
        BY <1>1 DEF SyncWhole
    <2>1. RowWhole(r)
        BY DEF SyncInv, SyncWhole
    <2>2. CASE r.owner = p
        BY <1>1, <1>3, <1>4, <2>2 DEF RowWhole, Holding, Sync!SyncConstants
    <2>3. CASE r.owner # p
        BY <1>1, <1>3, <1>4, <2>1, <2>3 DEF RowWhole, Sync!bounds
    <2> QED
        BY <2>2, <2>3
<1> QED
    BY <1>9, <1>10 DEF SyncInv

LEMMA FollowKeeps ==
    ASSUME Sync!SyncConstants, SyncInv, NEW p \in Pollers, Sync!PollFollow(p)
    PROVE  SyncInv'
<1>1. /\ poll[p].pc = "follow"
             /\ UNCHANGED <<Sync!serverVars, rows, cursor, rule, org, send, Sync!bounds>>
      /\ poll[p] \in PollType /\ PollTyped(p) /\ PollsTyped
    BY DEF Sync!PollFollow, SyncInv, SyncTyped, PollsTyped
<1>2. PICK t \in Sync!threadFolder(Sync!Msg(p).msg) :
        LET goal == IF t # None THEN t ELSE Sync!senderFolder IN
        poll' = [poll EXCEPT ![p].target = goal, ![p].pc = IF goal = None THEN "scan" ELSE "move"]
    BY DEF Sync!PollFollow
<1> DEFINE goal == IF t # None THEN t ELSE Sync!senderFolder
           new == [poll[p] EXCEPT !.target = goal, !.pc = IF goal = None THEN "scan" ELSE "move"]
<1>3. t \in Sync!Folders \union {None}
    BY DEF Sync!threadFolder, Sync!SyncConstants
<1>4. goal \in Sync!Folders \union {None}
    BY <1>3 DEF Sync!senderFolder, SyncInv, SyncTyped, PeopleTyped
<1>5. /\ poll' = [poll EXCEPT ![p] = new] /\ new \in PollType
      /\ new.pc = IF goal = None THEN "scan" ELSE "move"
      /\ new.todo = poll[p].todo /\ new.since = poll[p].since /\ new.batch = poll[p].batch
      /\ new.target = goal
    BY <1>1, <1>2, <1>4 DEF PollsTyped, PollType, Working, Holding
<1> HIDE DEF goal, new
<1>6. poll'[p] = new
    BY <1>1, <1>5 DEF PollsTyped
<1>7. PollTyped(p)'
    BY <1>1, <1>5, <1>6 DEF PollTyped, Sync!Folder, Working, Holding, Following
<1>8. PollsTyped' /\ \A q \in Pollers \ {p} : poll'[q] = poll[q]
    BY <1>1, <1>5, <1>7, PollsMoved
<1>9. \A f \in Sync!Folders : epoch'[f] = 1 => Later(f)
    BY <1>1, FoldersSame, LaterSame DEF SyncInv, SyncTyped, Sync!serverVars
<1>10. FoldersTyped'
    BY <1>1, FoldersSame DEF SyncInv, SyncTyped, Sync!serverVars
<1>11. PollExact(p)'
    BY <1>1, <1>5, <1>6, <1>9, <1>10, PollStays DEF SyncInv, SyncExact, Holding, Working
<1> QED
    BY <1>1, <1>5, <1>6, <1>8, <1>11, PollThinks DEF Sync!bounds, Holding, Sync!SyncConstants

LEMMA MoveKeeps ==
    ASSUME Sync!SyncConstants, SyncInv, NEW p \in Pollers, Sync!PollMove(p)
    PROVE  SyncInv'
<1> DEFINE u == Sync!Msg(p).uid
           g == poll[p].target
<1>1. /\ poll[p].pc = "move" /\ Sync!ServerMove(Sync!INBOX, u, g)
             /\ poll' = [poll EXCEPT ![p].pc = "moveRow"]
      /\ UNCHANGED <<epoch, arrived, rows, cursor, rule, org, send, Sync!bounds>>
    BY DEF Sync!PollMove
<1>2. /\ Sync!Folder(p) = Sync!INBOX /\ Sync!INBOX \in Sync!Folders /\ u \in Nat
             /\ g \in Sync!Folders
      /\ poll[p].batch # {} /\ poll[p].pc # "idle" /\ g # None
      /\ epoch[Sync!INBOX] = 1 => u < uidNext[Sync!INBOX]
    BY <1>1, AtWork DEF Working, Holding, Following, PollTyped, Sync!SyncConstants
<1>3. /\ FoldersTyped' /\ \A h \in Sync!Folders : Grown(h)
      /\ (\A e, d \in server[Sync!INBOX] : e.uid = d.uid => e = d) /\ u < uidNext[Sync!INBOX] =>
            \A e \in server'[Sync!INBOX] : e.uid # u
    BY <1>1, <1>2, MoveGrows DEF SyncInv, SyncTyped
<1>4. epoch'[Sync!INBOX] = 1 => \A e \in server'[Sync!INBOX] : e.uid # u
    BY <1>1, <1>2, <1>3 DEF SyncInv, SyncExact, NumbersHold
<1>5. /\ PollsTyped' /\ \A q \in Pollers \ {p} : poll'[q] = poll[q]
      /\ poll'[p].pc = "moveRow" /\ poll'[p].todo = poll[p].todo
      /\ poll'[p].since = poll[p].since /\ poll'[p].batch = poll[p].batch
    BY <1>1, <1>2, PcMoves DEF SyncInv, SyncTyped, Working, Holding, Following
<1>6. \A h \in Sync!Folders : epoch'[h] = 1 => Later(h)
    BY <1>1, <1>3, LaterSame
<1>7. PollExact(p)'
    BY <1>1, <1>2, <1>3, <1>4, <1>5, <1>6, PollStays DEF SyncInv, SyncExact, Holding, Working
<1>8. RowsTyped'
    BY <1>1, RowsSame DEF SyncInv, SyncTyped
<1>9. SyncTyped' /\ SyncExact'
    BY <1>1, <1>3, <1>5, <1>6, <1>7, <1>8, PollActs DEF Sync!bounds, Sync!SyncConstants, OfARow
<1>10. SyncWhole'
    BY <1>1, <1>5, WholeLike DEF SyncInv, Sync!bounds, Holding
<1> QED
    BY <1>9, <1>10 DEF SyncInv

LEMMA MoveRowKeeps ==
    ASSUME Sync!SyncConstants, SyncInv, NEW p \in Pollers, Sync!PollMoveRow(p)
    PROVE  SyncInv'
<1> DEFINE u == Sync!Msg(p).uid
           g == poll[p].target
<1>1. /\ poll[p].pc = "moveRow" /\ Sync!MovedRow(Sync!INBOX, u, g)
      /\ poll' = [poll EXCEPT ![p].pc = "moveCursor"]
      /\ UNCHANGED <<Sync!serverVars, cursor, rule, org, send, Sync!bounds>>
    BY DEF Sync!PollMoveRow
<1>2. /\ Sync!Folder(p) = Sync!INBOX /\ Sync!INBOX \in Sync!Folders /\ u \in Nat
             /\ g \in Sync!Folders
      /\ poll[p].batch # {} /\ poll[p].pc # "idle" /\ g # None
    BY <1>1, AtWork DEF Working, Holding, Following, PollTyped, Sync!SyncConstants
<1>3. epoch[Sync!INBOX] = 1 => \A e \in server[Sync!INBOX] : e.uid # u
    BY <1>1, <1>2 DEF SyncInv, SyncExact, PollExact
<1>4. /\ RowsTyped' /\ \A h \in Sync!Folders : epoch'[h] = 1 => Later(h)
      /\ \A r \in rows' : r.uid # Sync!NULL => OfARow(r)
      /\ \A r \in rows' : \E q \in rows :
            r.owner = q.owner /\ r.files = q.files /\ r.scanned = q.scanned
    BY <1>1, <1>2, <1>3, MovedRowKeeps DEF SyncInv, SyncTyped, Sync!serverVars
<1>5. /\ PollsTyped' /\ \A q \in Pollers \ {p} : poll'[q] = poll[q]
      /\ poll'[p].pc = "moveCursor" /\ poll'[p].todo = poll[p].todo
      /\ poll'[p].since = poll[p].since /\ poll'[p].batch = poll[p].batch
    BY <1>1, <1>2, PcMoves DEF SyncInv, SyncTyped, Working, Holding, Following
<1>6. FoldersTyped'
    BY <1>1, FoldersSame DEF SyncInv, SyncTyped, Sync!serverVars
<1>7. PollExact(p)'
    BY <1>1, <1>4, <1>5, <1>6, PollStays DEF SyncInv, SyncExact, Holding, Working
<1>8. SyncTyped' /\ SyncExact'
    BY <1>1, <1>4, <1>5, <1>6, <1>7, PollActs DEF Sync!bounds, Sync!SyncConstants
<1>9. SyncWhole'
    BY <1>1, <1>4, <1>5, WholeLike DEF SyncInv, Sync!bounds, Holding
<1> QED
    BY <1>8, <1>9 DEF SyncInv

\* The cursor of a folder forgotten, or saved.
LEMMA CursorTyped ==
    ASSUME FoldersTyped, UNCHANGED <<server, uidNext, epoch>>, NEW f \in Sync!Folders,
           NEW n \in Nat,
           NEW ep \in {0, epoch[f]}, cursor' = [cursor EXCEPT ![f] = [epoch |-> ep, last |-> n]]
    PROVE  FoldersTyped' /\ \A g \in Sync!Folders : Grown(g)
<1>1. /\ cursor' \in [Sync!Folders -> [epoch : Nat, last : Nat]]
      /\ \A g \in Sync!Folders : cursor'[g].epoch <= epoch[g]
    BY DEF FoldersTyped
<1> QED
    BY <1>1 DEF FoldersTyped, Grown

LEMMA Forgotten ==
    ASSUME FoldersTyped, UNCHANGED <<server, uidNext, epoch>>, NEW f \in Sync!Folders,
           Sync!ForgetCursor(f)
    PROVE  /\ FoldersTyped' /\ \A g \in Sync!Folders : Grown(g)
           /\ \A g \in Sync!Folders : cursor'[g] = cursor[g] \/ cursor'[g] = Sync!NoCursor
<1>1. cursor' = [cursor EXCEPT ![f] = [epoch |-> 0, last |-> 0]]
    BY DEF Sync!ForgetCursor, Sync!NoCursor
<1> QED
    BY <1>1, CursorTyped DEF FoldersTyped, Sync!NoCursor

LEMMA MoveCursorKeeps ==
    ASSUME Sync!SyncConstants, SyncInv, NEW p \in Pollers, Sync!PollMoveCursor(p)
    PROVE  SyncInv'
<1>1. /\ poll[p].pc = "moveCursor" /\ Sync!ForgetCursor(poll[p].target)
      /\ poll' = [poll EXCEPT ![p].pc = "scan"]
      /\ UNCHANGED <<Sync!serverVars, rows, rule, org, send, Sync!bounds>>
    BY DEF Sync!PollMoveCursor
<1>2. poll[p].batch # {} /\ poll[p].pc # "idle" /\ poll[p].target \in Sync!Folders
    BY <1>1, AtWork DEF Working, Holding, Following, PollTyped
<1>3. /\ FoldersTyped' /\ \A g \in Sync!Folders : Grown(g)
      /\ \A g \in Sync!Folders : cursor'[g] = cursor[g] \/ cursor'[g] = Sync!NoCursor
    BY <1>1, <1>2, Forgotten DEF SyncInv, SyncTyped, Sync!serverVars
<1>4. /\ PollsTyped' /\ \A q \in Pollers \ {p} : poll'[q] = poll[q]
      /\ poll'[p].pc = "scan" /\ poll'[p].todo = poll[p].todo
      /\ poll'[p].since = poll[p].since /\ poll'[p].batch = poll[p].batch
    BY <1>1, <1>2, PcMoves DEF SyncInv, SyncTyped, Working, Holding, Following
<1>5. \A h \in Sync!Folders : epoch'[h] = 1 => Later(h)
    BY <1>1, <1>3, LaterSame DEF Sync!serverVars
<1>6. PollExact(p)'
    BY <1>1, <1>3, <1>4, <1>5, PollStays DEF SyncInv, SyncExact, Holding, Working
<1>7. RowsTyped'
    BY <1>1, RowsSame DEF SyncInv, SyncTyped
<1>8. SyncTyped' /\ SyncExact'
    BY <1>1, <1>3, <1>4, <1>5, <1>6, <1>7, PollActs DEF Sync!bounds, Sync!SyncConstants, OfARow
<1>9. SyncWhole'
    BY <1>1, <1>4, WholeLike DEF SyncInv, Sync!bounds, Holding
<1> QED
    BY <1>8, <1>9 DEF SyncInv

LEMMA ScanKeeps ==
    ASSUME Sync!SyncConstants, SyncInv, NEW p \in Pollers, Sync!PollScan(p)
    PROVE  SyncInv'
<1> DEFINE to(r) == IF r.owner = p THEN [r EXCEPT !.scanned = TRUE, !.owner = None] ELSE r
<1> PICK f : f = Sync!Folder(p)
    OBVIOUS
<1>1. /\ poll[p].pc = "scan" /\ rows' = {to(r) : r \in rows} /\ Sync!NextMessage(p)
      /\ UNCHANGED <<Sync!serverVars, cursor, rule, org, send, Sync!bounds>>
    BY DEF Sync!PollScan
<1>2. f \in Sync!Folders
    BY <1>1, AtWork DEF Working, Holding
<1>3. ASSUME NEW r \in rows
      PROVE  /\ to(r) \in RowType /\ to(r).folder = r.folder /\ to(r).files = r.files
             /\ to(r).uid = r.uid /\ to(r).epoch = r.epoch
             /\ r.owner = p => to(r).owner = None /\ r.files = 1
             /\ r.owner # p => to(r) = r
    <2>1. r \in RowType /\ RowWhole(r)
        BY DEF SyncInv, SyncTyped, RowsTyped, SyncWhole
    <2>2. r.owner = p => r.files = 1
        BY <1>1, <2>1 DEF RowWhole
    <2> QED
        BY <2>1, <2>2 DEF RowType
<1>4. \A r \in rows : r.owner = p => to(r).scanned
    BY DEF SyncInv, SyncTyped, RowsTyped, RowType
<1> HIDE DEF to
<1>5. RowsTyped'
    BY <1>1, <1>3 DEF SyncInv, SyncTyped, RowsTyped, Sync!SyncConstants
<1>6. FoldersTyped'
    BY <1>1, FoldersSame DEF SyncInv, SyncTyped, Sync!serverVars
<1>7. /\ \A g \in Sync!Folders : epoch'[g] = 1 => Later(g)
      /\ \A r \in rows' : r.uid # Sync!NULL => OfARow(r)
    BY <1>1, <1>3, RowsKept DEF SyncInv, SyncTyped, Sync!serverVars
<1>8. epoch[f] = 1 => \A e \in server[f] : e.uid = Sync!Msg(p).uid => Sync!Stored(f, e.uid, 1)'
    <2> SUFFICES ASSUME epoch[f] = 1, NEW e \in server[f], e.uid = Sync!Msg(p).uid
                 PROVE  Sync!Stored(f, e.uid, 1)'
        OBVIOUS
    <2>1. Sync!Stored(f, e.uid, 1)
        BY <1>1 DEF SyncInv, SyncExact, PollExact, Holding
    <2>2. StoredStays(f) /\ e \in server'[f]
        BY <1>1, <1>2, <1>7 DEF Later, Sync!serverVars
    <2> QED
        BY <2>1, <2>2 DEF StoredStays
<1>9. /\ PollsTyped' /\ PollExact(p)' /\ \A q \in Pollers \ {p} : poll'[q] = poll[q]
    BY <1>1, <1>7, <1>8, MessageNext DEF SyncInv, SyncExact, Sync!serverVars, Working, Holding
<1>10. SyncTyped' /\ SyncExact'
    BY <1>1, <1>5, <1>6, <1>7, <1>9, PollActs DEF Sync!bounds, Sync!SyncConstants
<1>11. SyncWhole'
    <2> SUFFICES ASSUME NEW r \in rows PROVE RowWhole(to(r))'
        BY <1>1 DEF SyncWhole
    <2>1. RowWhole(r)
        BY DEF SyncInv, SyncWhole
    <2>2. CASE r.owner = p
        BY <1>1, <1>3, <1>4, <2>2 DEF RowWhole, Sync!SyncConstants
    <2>3. CASE r.owner # p
        BY <1>1, <1>3, <1>9, <2>1, <2>3 DEF RowWhole, Sync!bounds
    <2> QED
        BY <2>2, <2>3
<1> QED
    BY <1>10, <1>11 DEF SyncInv

LEMMA SaveKeeps ==
    ASSUME Sync!SyncConstants, SyncInv, NEW p \in Pollers, Sync!PollSave(p)
    PROVE  SyncInv'
<1> PICK f : f = Sync!Folder(p)
    OBVIOUS
<1> DEFINE n == IF cursor[f].last > poll[p].since THEN cursor[f].last ELSE poll[p].since
<1>1. /\ poll[p].pc = "save" /\ Sync!NextFolder(p)
      /\ cursor' = [cursor EXCEPT ![f] = [epoch |-> epoch[f], last |-> n]]
      /\ UNCHANGED <<Sync!serverVars, rows, rule, org, send, Sync!bounds>>
    BY DEF Sync!PollSave, Sync!saveCursor
<1>2. f \in Sync!Folders /\ FoldersTyped /\ PollsTyped /\ PollExact(p) /\ NumbersHold(f)
    BY <1>1, FolderOf DEF SyncInv, SyncTyped, SyncExact
<1>3. cursor[f].last \in Nat /\ poll[p].since \in Nat /\ uidNext[f] \in Nat /\ n \in Nat
    BY <1>2 DEF FoldersTyped, PollsTyped, PollType
<1>4. FoldersTyped' /\ \A g \in Sync!Folders : Grown(g)
    BY <1>1, <1>2, <1>3, CursorTyped DEF Sync!serverVars
<1>5. /\ PollsTyped' /\ PollExact(p)' /\ poll'[p].pc \in {"idle", "cursor"}
      /\ \A q \in Pollers \ {p} : poll'[q] = poll[q]
    BY <1>1, <1>2, FolderNext
<1>6. \A g \in Sync!Folders : epoch'[g] = 1 => Later(g)
    BY <1>1, <1>4, LaterSame DEF Sync!serverVars
<1>7. RowsTyped' /\ PeopleTyped'
    BY <1>1, RowsSame, PeopleSame DEF SyncInv, SyncTyped
<1>8. ASSUME NEW g \in Sync!Folders PROVE NumbersHold(g)'
    <2>1. CASE g # f
        <3>1. cursor'[g] = cursor[g]
            BY <1>1, <2>1 DEF FoldersTyped
        <3> QED
            BY <1>1, <1>2, <1>4, <1>6, <3>1, NumbersStay DEF SyncInv, SyncTyped, SyncExact, OfARow
    <2>2. CASE g = f
        <3> SUFFICES ASSUME epoch[f] = 1 PROVE NumbersHold(f)'
            BY <1>1, <2>2 DEF NumbersHold, Sync!serverVars
        <3>1. cursor'[f].epoch = 1 /\ cursor'[f].last = n
            BY <1>1, <1>2 DEF FoldersTyped
        <3>2. /\ \A e, d \in server[f] : e.uid = d.uid => e = d
              /\ cursor[f].last < uidNext[f] /\ (cursor[f].epoch = 0 => cursor[f].last = 0)
              /\ \A r \in rows : r.folder = f /\ r.uid # Sync!NULL => r.uid < uidNext[f]
              /\ Sync!Exact(f)
            BY <1>2 DEF NumbersHold
        <3>3. /\ poll[p].since < uidNext[f]
              /\ \A e \in server[f] : e.uid <= poll[p].since => Sync!Stored(f, e.uid, 1)
            BY <1>1, <1>2 DEF PollExact
        <3>4. ASSUME NEW e \in server[f], e.uid <= n PROVE Sync!Stored(f, e.uid, 1)
            <4>1. CASE e.uid <= poll[p].since
                BY <3>3, <4>1
            <4>2. CASE ~(e.uid <= poll[p].since)
                <5>1. e.uid \in Nat \ {0} /\ e.uid <= cursor[f].last
                    BY <1>2, <1>3, <3>4, <4>2 DEF FoldersTyped, Numbered
                <5>2. cursor[f].epoch \in Nat /\ cursor[f].epoch <= 1
                    BY <1>2 DEF FoldersTyped
                <5>3. cursor[f].epoch = 1
                    BY <1>3, <3>2, <5>1, <5>2
                <5> QED
                    BY <3>2, <5>1, <5>3 DEF Sync!Exact, Sync!Passed
            <4> QED
                BY <4>1, <4>2
        <3>5. n < uidNext[f]
            BY <1>3, <3>2, <3>3
        <3>6. Sync!Exact(f)'
            <4> SUFFICES ASSUME NEW e \in server[f], e.uid <= n PROVE Sync!Stored(f, e.uid, 1)'
                BY <1>1, <3>1 DEF Sync!Exact, Sync!Passed, Sync!serverVars
            <4>1. Sync!Stored(f, e.uid, 1)
                BY <3>4
            <4> QED
                BY <1>1, <4>1 DEF Sync!Stored
        <3> QED
            BY <1>1, <3>1, <3>2, <3>5, <3>6 DEF NumbersHold, Sync!serverVars
    <2> QED
        BY <2>1, <2>2
<1>9. ASSUME NEW q \in Pollers \ {p} PROVE PollExact(q)'
    BY <1>4, <1>5, <1>6, PollStays DEF SyncInv, SyncExact, Working
<1>10. ASSUME NEW o \in Operators PROVE OrgExact(o)'
    BY <1>1, <1>4, <1>6, OrgStays DEF SyncInv, SyncExact
<1>11. SyncExact'
    BY <1>5, <1>8, <1>9, <1>10 DEF SyncExact
<1>12. SyncWhole'
    BY <1>1, <1>5, WholeLike DEF SyncInv, Sync!bounds, Holding
<1> QED
    BY <1>4, <1>5, <1>7, <1>11, <1>12 DEF SyncInv, SyncTyped

LEMMA FailsKeeps ==
    ASSUME Sync!SyncConstants, SyncInv, NEW p \in Pollers, Sync!PollFails(p)
    PROVE  SyncInv'
<1>1. /\ failures < MaxFailures /\ failures' = failures + 1 /\ MaxFailures \in Nat
      /\ UNCHANGED <<requests, resets, Sync!serverVars, cursor, rule, org, send, rows>>
    BY DEF Sync!PollFails, Sync!Fail, Sync!SyncConstants
<1>2. CASE /\ poll[p].pc \notin {"idle", "files", "follow", "move", "moveRow", "moveCursor", "scan"}
           /\ Sync!NextFolder(p)
    <2>1. /\ PollsTyped' /\ PollExact(p)' /\ poll'[p].pc \in {"idle", "cursor"}
          /\ \A q \in Pollers \ {p} : poll'[q] = poll[q]
        BY <1>2, FolderNext DEF SyncInv, SyncTyped
    <2> QED
        BY <1>1, <1>2, <2>1, PollThinks DEF Holding
<1>3. CASE /\ poll[p].pc \in {"follow", "move", "moveRow", "moveCursor"}
           /\ poll' = [poll EXCEPT ![p].pc = "scan"]
    <2>1. poll[p].batch # {} /\ poll[p].pc # "idle"
        BY <1>3, AtWork DEF Working, Holding
    <2>2. /\ PollsTyped' /\ \A q \in Pollers \ {p} : poll'[q] = poll[q]
          /\ poll'[p].pc = "scan" /\ poll'[p].todo = poll[p].todo
          /\ poll'[p].since = poll[p].since /\ poll'[p].batch = poll[p].batch
        BY <1>3, <2>1, PcMoves DEF SyncInv, SyncTyped, Working, Holding, Following
    <2>3. FoldersTyped' /\ \A f \in Sync!Folders : Grown(f)
        BY <1>1, FoldersSame DEF SyncInv, SyncTyped, Sync!serverVars
    <2>4. \A f \in Sync!Folders : epoch'[f] = 1 => Later(f)
        BY <1>1, <2>3, LaterSame DEF Sync!serverVars
    <2>5. PollExact(p)'
        BY <1>3, <2>2, <2>3, <2>4, PollStays DEF SyncInv, SyncExact, Holding, Working
    <2> QED
        BY <1>1, <1>3, <2>2, <2>5, PollThinks DEF Holding
<1> QED
    BY <1>2, <1>3 DEF Sync!PollFails

LEMMA DiesKeeps ==
    ASSUME Sync!SyncConstants, SyncInv, NEW p \in Pollers, Sync!PollDies(p)
    PROVE  SyncInv'
<1> DEFINE to(r) == IF r.owner = p THEN [r EXCEPT !.owner = None] ELSE r
<1>1. /\ failures < MaxFailures /\ failures' = failures + 1 /\ MaxFailures \in Nat
      /\ UNCHANGED <<requests, resets, Sync!serverVars, cursor, rule, org, send>>
      /\ poll' = [poll EXCEPT ![p] = Sync!IdlePoll] /\ rows' = {to(r) : r \in rows}
    BY DEF Sync!PollDies, Sync!Fail, Sync!Release, Sync!SyncConstants
<1>2. ASSUME NEW r \in rows
      PROVE  /\ to(r) \in RowType /\ to(r).folder = r.folder /\ to(r).files = r.files
             /\ to(r).uid = r.uid /\ to(r).epoch = r.epoch
             /\ r.owner = p => to(r).owner = None
             /\ r.owner # p => to(r) = r
    BY DEF SyncInv, SyncTyped, RowsTyped, RowType
<1> HIDE DEF to
<1>3. RowsTyped'
    BY <1>1, <1>2 DEF SyncInv, SyncTyped, RowsTyped, Sync!SyncConstants
<1>4. FoldersTyped'
    BY <1>1, FoldersSame DEF SyncInv, SyncTyped, Sync!serverVars
<1>5. /\ \A f \in Sync!Folders : epoch'[f] = 1 => Later(f)
      /\ \A r \in rows' : r.uid # Sync!NULL => OfARow(r)
    BY <1>1, <1>2, RowsKept DEF SyncInv, SyncTyped, Sync!serverVars
<1>6. poll'[p] = Sync!IdlePoll /\ Sync!IdlePoll \in PollType
    BY <1>1, EmptySeq DEF SyncInv, SyncTyped, PollsTyped, Sync!IdlePoll, PollType
<1>7. PollTyped(p)' /\ PollExact(p)'
    BY <1>6 DEF Sync!IdlePoll, PollTyped, PollExact, Working, Holding, Following
<1>8. PollsTyped' /\ \A q \in Pollers \ {p} : poll'[q] = poll[q]
    BY <1>1, <1>6, <1>7, PollsMoved DEF SyncInv, SyncTyped
<1>9. SyncTyped' /\ SyncExact'
    BY <1>1, <1>3, <1>4, <1>5, <1>7, <1>8, PollActs
<1>10. SyncWhole'
    <2> SUFFICES ASSUME NEW r \in rows PROVE RowWhole(to(r))'
        BY <1>1 DEF SyncWhole
    <2>1. RowWhole(r) /\ failures' # 0
        BY <1>1 DEF SyncInv, SyncWhole, SyncTyped, PeopleTyped
    <2>2. CASE r.owner = p
        BY <1>1, <1>2, <2>1, <2>2 DEF RowWhole, Sync!SyncConstants
    <2>3. CASE r.owner # p
        BY <1>1, <1>2, <1>8, <2>1, <2>3 DEF RowWhole
    <2> QED
        BY <2>2, <2>3
<1> QED
    BY <1>9, <1>10 DEF SyncInv

LEMMA PollKeeps ==
    ASSUME Sync!SyncConstants, SyncInv, NEW p \in Pollers,
           Sync!PollStart(p) \/ Sync!PollStep(p) \/ Sync!PollFails(p) \/ Sync!PollDies(p)
    PROVE  SyncInv'
BY StartKeeps, CursorKeeps, FetchKeeps, ConvergeKeeps, InsertKeeps, FilesKeeps, FollowKeeps,
   MoveKeeps, MoveRowKeeps, MoveCursorKeeps, ScanKeeps, SaveKeeps, FailsKeeps, DiesKeeps
   DEF Sync!PollStep

-----------------------------------------------------------------------------
(* Organize *)

LEMMA OrgMoved ==
    ASSUME PeopleTyped, NEW o \in Operators, NEW new \in OrgType, org' = [org EXCEPT ![o] = new],
           OrgTyped(o)', send' = send, rule' = rule,
           requests' \in 0..MaxRequests, failures' \in 0..MaxFailures, resets' = resets
    PROVE  /\ PeopleTyped' /\ org'[o] = new
           /\ \A q \in Operators \ {o} : org'[q] = org[q]
<1>1. /\ org' \in [Operators -> OrgType] /\ org'[o] = new
      /\ \A q \in Operators \ {o} : org'[q] = org[q]
    BY DEF PeopleTyped
<1>2. \A q \in Operators \ {o} : OrgTyped(q)'
    BY <1>1 DEF PeopleTyped, OrgTyped
<1> QED
    BY <1>1, <1>2 DEF PeopleTyped

\* A request goes from one statement to the next.
LEMMA OrgPcMoves ==
    ASSUME SyncInv, NEW o \in Operators, NEW from, NEW to, Sync!OrgTo(o, from, to),
           from # "idle",
           to \in {"next", "moveRow", "moveCursor", "destroyRow"},
           to \in {"moveRow", "moveCursor"} => from \in {"move", "moveRow", "moveCursor"},
           to = "destroyRow" => from = "destroy"
    PROVE  /\ PeopleTyped' /\ \A q \in Operators \ {o} : org'[q] = org[q]
           /\ org'[o].pc = to /\ org'[o].todo = org[o].todo /\ org'[o].item = org[o].item
           /\ org'[o].target = org[o].target
           /\ org[o].pc = from /\ org[o].item \in Spots
                  /\ org[o].target \in Sync!Folders \union {None}
           /\ OrgTyped(o) /\ OrgExact(o)
<1> DEFINE new == [org[o] EXCEPT !.pc = to]
<1>1. /\ org[o] \in OrgType /\ OrgTyped(o) /\ OrgExact(o) /\ org[o].pc = from /\ PeopleTyped
      /\ UNCHANGED <<epoch, arrived, rule, poll, send, Sync!bounds>>
    BY DEF Sync!OrgTo, SyncInv, SyncTyped, PeopleTyped, SyncExact
<1>2. /\ org' = [org EXCEPT ![o] = new] /\ new \in OrgType
      /\ new.pc = to /\ new.todo = org[o].todo /\ new.item = org[o].item
             /\ new.target = org[o].target
    BY <1>1 DEF Sync!OrgTo, PeopleTyped, OrgType
<1> HIDE DEF new
<1>3. org'[o] = new
    BY <1>1, <1>2 DEF PeopleTyped
<1>4. OrgTyped(o)'
    BY <1>1, <1>2, <1>3 DEF OrgTyped
<1>5. requests' \in 0..MaxRequests /\ failures' \in 0..MaxFailures /\ resets' = resets
          /\ send' = send /\ rule' = rule
    BY <1>1 DEF PeopleTyped, Sync!bounds
<1>6. PeopleTyped' /\ \A q \in Operators \ {o} : org'[q] = org[q]
    BY <1>1, <1>2, <1>4, <1>5, OrgMoved
<1> QED
    BY <1>1, <1>2, <1>3, <1>6 DEF OrgType

\* What the steps of a request have in common.
LEMMA OrgActs ==
    ASSUME SyncInv, NEW o \in Operators, FoldersTyped', RowsTyped', PeopleTyped', poll' = poll,
           failures' = 0 => failures = 0,
           \A q \in Operators \ {o} : org'[q] = org[q], OrgExact(o)',
           \A f \in Sync!Folders : epoch'[f] = 1 => Later(f),
           \A f \in Sync!Folders : cursor'[f] = cursor[f] \/ cursor'[f] = Sync!NoCursor,
           \A r \in rows' : r.uid # Sync!NULL => OfARow(r),
           \A r \in rows' : \E q \in rows :
                r.owner = q.owner /\ r.files = q.files /\ r.scanned = q.scanned
    PROVE  SyncInv'
<1>1. SyncTyped'
    BY PollsSame DEF SyncInv, SyncTyped
<1>2. SyncExact'
    BY ExactKept DEF SyncInv, SyncExact
<1>3. SyncWhole'
    BY WholeLike DEF SyncInv
<1> QED
    BY <1>1, <1>2, <1>3 DEF SyncInv

LEMMA OrgThinks ==
    ASSUME SyncInv, NEW o \in Operators, PeopleTyped',
           UNCHANGED <<Sync!serverVars, rows, cursor, poll>>, failures' = 0 => failures = 0,
           \A q \in Operators \ {o} : org'[q] = org[q], OrgExact(o)'
    PROVE  SyncInv'
<1>1. FoldersTyped' /\ RowsTyped' /\ \A f \in Sync!Folders : Grown(f)
    BY FoldersSame, RowsSame DEF SyncInv, SyncTyped, Sync!serverVars
<1>2. \A f \in Sync!Folders : epoch'[f] = 1 => Later(f)
    BY <1>1, LaterSame DEF Sync!serverVars
<1> QED
    BY <1>1, <1>2, OrgActs DEF OfARow

LEMMA OrganizeKeeps ==
    ASSUME Sync!SyncConstants, SyncInv, NEW o \in Operators, Sync!Organize(o)
    PROVE  SyncInv'
<1>1. /\ org[o].pc = "idle" /\ requests < MaxRequests /\ requests' = requests + 1
      /\ UNCHANGED <<Sync!serverVars, rows, cursor, rule, poll, send, failures, resets>>
    BY DEF Sync!Organize
<1>2. PICK chosen \in SUBSET {[folder |-> r.folder, uid |-> r.uid] :
               r \in {q \in rows : q.uid # Sync!NULL}},
           goal \in Sync!Folders \union {None} :
        /\ goal = None => \A c \in chosen : c.folder = Sync!Trash
        /\ org' = [org EXCEPT ![o] = [Sync!IdleOrg EXCEPT !.pc = "next", !.todo = chosen,
               !.target = goal]]
    BY DEF Sync!Organize
<1> DEFINE new == [Sync!IdleOrg EXCEPT !.pc = "next", !.todo = chosen, !.target = goal]
<1>3. \A c \in chosen : \E r \in rows : r.uid # Sync!NULL
          /\ c = [folder |-> r.folder, uid |-> r.uid]
    OBVIOUS
<1>4. \A c \in chosen : /\ c \in Spots /\ c.uid # Sync!NULL
                        /\ epoch[c.folder] = 1 => c.uid < uidNext[c.folder]
    <2> SUFFICES ASSUME NEW c \in chosen
                 PROVE  /\ c \in Spots /\ c.uid # Sync!NULL
                        /\ epoch[c.folder] = 1 => c.uid < uidNext[c.folder]
        OBVIOUS
    <2>1. PICK r \in rows : r.uid # Sync!NULL /\ c = [folder |-> r.folder, uid |-> r.uid]
        BY <1>3
    <2>2. r.folder \in Sync!Folders /\ r.uid \in Nat
        BY <2>1 DEF SyncInv, SyncTyped, RowsTyped, RowType
    <2>3. epoch[r.folder] = 1 => r.uid < uidNext[r.folder]
        BY <2>1, <2>2 DEF SyncInv, SyncExact, NumbersHold
    <2> QED
        BY <2>1, <2>2, <2>3 DEF Spots
<1>5. Sync!INBOX \in Sync!Folders
    BY DEF Sync!SyncConstants
<1>6. /\ org' = [org EXCEPT ![o] = new] /\ new \in OrgType
      /\ new.pc = "next" /\ new.todo = chosen /\ new.target = goal
      /\ new.item = [folder |-> Sync!INBOX, uid |-> Sync!NULL]
    BY <1>2, <1>4, <1>5 DEF Sync!IdleOrg, OrgType, Spots, Sync!NULL
<1> HIDE DEF new
<1>7. org'[o] = new
    BY <1>6 DEF SyncInv, SyncTyped, PeopleTyped
<1>8. OrgTyped(o)'
    BY <1>2, <1>6, <1>7 DEF OrgTyped
<1>9. PeopleTyped' /\ \A q \in Operators \ {o} : org'[q] = org[q]
    <2>1. requests' \in 0..MaxRequests /\ failures' \in 0..MaxFailures
        BY <1>1 DEF SyncInv, SyncTyped, PeopleTyped, Sync!SyncConstants
    <2> QED
        BY <1>1, <1>6, <1>8, <2>1, OrgMoved DEF SyncInv, SyncTyped
<1>10. OrgExact(o)'
    <2>1. uidNext[Sync!INBOX] \in Nat \ {0}
        BY <1>5 DEF SyncInv, SyncTyped, FoldersTyped
    <2> QED
        BY <1>1, <1>4, <1>6, <1>7, <2>1 DEF OrgExact, Sync!serverVars, Sync!NULL
<1> QED
    BY <1>1, <1>9, <1>10, OrgThinks

LEMMA NextKeeps ==
    ASSUME Sync!SyncConstants, SyncInv, NEW o \in Operators, Sync!OrgNext(o)
    PROVE  SyncInv'
<1>1. /\ org[o].pc = "next" /\ org[o] \in OrgType /\ OrgTyped(o) /\ OrgExact(o) /\ PeopleTyped
      /\ UNCHANGED <<Sync!serverVars, rows, cursor, rule, poll, send, Sync!bounds>>
    BY DEF Sync!OrgNext, SyncInv, SyncTyped, PeopleTyped, SyncExact
<1>2. /\ requests' \in 0..MaxRequests /\ failures' \in 0..MaxFailures
      /\ resets' = resets /\ failures' = failures
    BY <1>1 DEF Sync!bounds, PeopleTyped
<1>3. CASE org' = [org EXCEPT ![o] = Sync!IdleOrg]
    <2>1. Sync!IdleOrg \in OrgType /\ Sync!INBOX \in Sync!Folders
        BY DEF Sync!IdleOrg, OrgType, Spots, Sync!SyncConstants, Sync!NULL
    <2>2. org'[o] = Sync!IdleOrg
        BY <1>1, <1>3 DEF PeopleTyped
    <2>3. OrgTyped(o)'
        BY <2>2 DEF OrgTyped, Sync!IdleOrg
    <2>4. PeopleTyped' /\ \A q \in Operators \ {o} : org'[q] = org[q]
        BY <1>1, <1>2, <1>3, <2>1, <2>3, OrgMoved
    <2>5. OrgExact(o)'
        <3>1. uidNext'[Sync!INBOX] \in Nat \ {0}
            BY <1>1, <2>1 DEF SyncInv, SyncTyped, FoldersTyped, Sync!serverVars
        <3> QED
            BY <2>2, <3>1 DEF OrgExact, Sync!IdleOrg, Sync!NULL
    <2> QED
        BY <1>1, <1>2, <2>4, <2>5, OrgThinks
<1>4. ASSUME NEW c \in org[o].todo,
             org' = [org EXCEPT ![o].todo = @ \ {c}, ![o].item = c,
                                ![o].pc = CASE org[o].target = None -> "destroy"
                                            [] org[o].target = Sync!Trash -> Sync!deleteMessage(c)
                                            [] OTHER -> "move"]
      PROVE  SyncInv'
    <2> DEFINE pc == CASE org[o].target = None -> "destroy"
                       [] org[o].target = Sync!Trash -> Sync!deleteMessage(c)
                       [] OTHER -> "move"
               new == [org[o] EXCEPT !.todo = @ \ {c}, !.item = c, !.pc = pc]
    <2>1. /\ pc \in {"next", "move", "destroy"}
          /\ pc = "move" => org[o].target # None
          /\ pc = "destroy" => org[o].target = None
        <3>1. Sync!deleteMessage(c) \in {"move", "next"}
            BY DEF Sync!deleteMessage
        <3>2. None # Sync!Trash
            BY DEF Sync!SyncConstants
        <3>3. CASE org[o].target = None
            BY <3>2, <3>3
        <3>4. CASE org[o].target = Sync!Trash
            BY <3>1, <3>2, <3>4
        <3>5. CASE org[o].target \notin {None, Sync!Trash}
            BY <3>5
        <3> QED
            BY <3>3, <3>4, <3>5
    <2>2. /\ org' = [org EXCEPT ![o] = new] /\ new \in OrgType /\ new.pc = pc
          /\ new.todo = org[o].todo \ {c} /\ new.item = c /\ new.target = org[o].target
        <3>1. org' = [org EXCEPT ![o].todo = @ \ {c}, ![o].item = c, ![o].pc = pc]
            BY <1>4
        <3> HIDE DEF pc
        <3>2. org' = [org EXCEPT ![o] = new]
            BY <1>1, <3>1 DEF PeopleTyped
        <3> QED
            BY <1>1, <2>1, <3>2 DEF OrgType
    <2> HIDE DEF pc
    <2> HIDE DEF new
    <2>3. org'[o] = new
        BY <1>1, <2>2 DEF PeopleTyped
    <2>4. OrgTyped(o)'
        BY <1>1, <2>1, <2>2, <2>3 DEF OrgTyped
    <2>5. PeopleTyped' /\ \A q \in Operators \ {o} : org'[q] = org[q]
        BY <1>1, <1>2, <2>2, <2>4, OrgMoved
    <2>6. OrgExact(o)'
        BY <1>1, <2>1, <2>2, <2>3 DEF OrgExact, Sync!serverVars
    <2> QED
        BY <1>1, <1>2, <2>5, <2>6, OrgThinks
<1> QED
    BY <1>3, <1>4 DEF Sync!OrgNext

LEMMA OrgMoveKeeps ==
    ASSUME Sync!SyncConstants, SyncInv, NEW o \in Operators, Sync!OrgMove(o)
    PROVE  SyncInv'
<1> PICK c : c = org[o].item
    OBVIOUS
<1>1. /\ Sync!OrgTo(o, "move", "moveRow") /\ Sync!ServerMove(c.folder, c.uid, org[o].target)
      /\ UNCHANGED <<epoch, arrived, rows, cursor, rule, poll, send, Sync!bounds>>
    BY DEF Sync!OrgMove, Sync!OrgTo
<1>2. /\ PeopleTyped' /\ \A q \in Operators \ {o} : org'[q] = org[q]
      /\ org'[o].pc = "moveRow" /\ org'[o].todo = org[o].todo /\ org'[o].item = c
      /\ org[o].pc = "move" /\ c \in Spots /\ org[o].target \in Sync!Folders /\ OrgExact(o)
    BY <1>1, OrgPcMoves DEF OrgTyped
<1>3. /\ FoldersTyped' /\ \A h \in Sync!Folders : Grown(h)
      /\ (\A e, d \in server[c.folder] : e.uid = d.uid => e = d) /\ c.uid < uidNext[c.folder] =>
            \A e \in server'[c.folder] : e.uid # c.uid
    BY <1>1, <1>2, MoveGrows DEF SyncInv, SyncTyped, Spots
<1>4. \A h \in Sync!Folders : epoch'[h] = 1 => Later(h)
    BY <1>1, <1>3, LaterSame
<1>5. OrgExact(o)'
    <2>1. ASSUME NEW d \in org[o].todo \union {c}, epoch'[d.folder] = 1
          PROVE  d.uid < uidNext'[d.folder]
        <3>1. d \in Spots
            BY <1>2 DEF SyncInv, SyncTyped, PeopleTyped, OrgType
        <3>2. d.uid < uidNext[d.folder]
            BY <1>1, <1>2, <2>1 DEF OrgExact
        <3>3. /\ uidNext[d.folder] <= uidNext'[d.folder] /\ uidNext[d.folder] \in Nat
              /\ uidNext'[d.folder] \in Nat /\ d.uid \in Nat
            BY <1>3, <3>1 DEF Spots, Grown, SyncInv, SyncTyped, FoldersTyped
        <3> QED
            BY <3>2, <3>3
    <2>2. epoch'[c.folder] = 1 => \A e \in server'[c.folder] : e.uid # c.uid
        BY <1>1, <1>2, <1>3 DEF SyncInv, SyncExact, NumbersHold, OrgExact, Spots
    <2> QED
        BY <1>2, <2>1, <2>2 DEF OrgExact
<1>6. RowsTyped' /\ failures' = failures
    BY <1>1, RowsSame DEF SyncInv, SyncTyped, Sync!bounds
<1> QED
    BY <1>1, <1>2, <1>3, <1>4, <1>5, <1>6, OrgActs DEF OfARow

LEMMA OrgMoveRowKeeps ==
    ASSUME Sync!SyncConstants, SyncInv, NEW o \in Operators, Sync!OrgMoveRow(o)
    PROVE  SyncInv'
<1> PICK c : c = org[o].item
    OBVIOUS
<1>1. /\ Sync!OrgTo(o, "moveRow", "moveCursor") /\ Sync!MovedRow(c.folder, c.uid, org[o].target)
      /\ UNCHANGED <<server, uidNext, epoch, arrived, cursor, rule, poll, send, Sync!bounds>>
    BY DEF Sync!OrgMoveRow, Sync!OrgTo
<1>2. /\ PeopleTyped' /\ \A q \in Operators \ {o} : org'[q] = org[q]
      /\ org'[o].pc = "moveCursor" /\ org'[o].todo = org[o].todo /\ org'[o].item = c
      /\ org[o].pc = "moveRow" /\ c \in Spots /\ org[o].target \in Sync!Folders /\ OrgExact(o)
    BY <1>1, OrgPcMoves DEF OrgTyped
<1>3. epoch[c.folder] = 1 => \A e \in server[c.folder] : e.uid # c.uid
    BY <1>2 DEF OrgExact
<1>4. /\ RowsTyped' /\ \A h \in Sync!Folders : epoch'[h] = 1 => Later(h)
      /\ \A r \in rows' : r.uid # Sync!NULL => OfARow(r)
      /\ \A r \in rows' : \E q \in rows :
            r.owner = q.owner /\ r.files = q.files /\ r.scanned = q.scanned
    BY <1>1, <1>2, <1>3, MovedRowKeeps DEF SyncInv, SyncTyped, Spots
<1>5. FoldersTyped'
    BY <1>1, FoldersSame DEF SyncInv, SyncTyped
<1>6. OrgExact(o)'
    BY <1>1, <1>2 DEF OrgExact
<1> QED
    BY <1>1, <1>2, <1>4, <1>5, <1>6, OrgActs DEF Sync!bounds

LEMMA OrgMoveCursorKeeps ==
    ASSUME Sync!SyncConstants, SyncInv, NEW o \in Operators, Sync!OrgMoveCursor(o)
    PROVE  SyncInv'
<1>1. /\ Sync!OrgTo(o, "moveCursor", "next") /\ Sync!ForgetCursor(org[o].target)
      /\ UNCHANGED <<server, uidNext, epoch, arrived, rows, rule, poll, send, Sync!bounds>>
    BY DEF Sync!OrgMoveCursor, Sync!OrgTo
<1>2. /\ PeopleTyped' /\ \A q \in Operators \ {o} : org'[q] = org[q]
      /\ org'[o].pc = "next" /\ org'[o].todo = org[o].todo /\ org'[o].item = org[o].item
      /\ org[o].pc = "moveCursor" /\ org[o].target \in Sync!Folders /\ OrgExact(o)
    BY <1>1, OrgPcMoves DEF OrgTyped
<1>3. /\ FoldersTyped' /\ \A g \in Sync!Folders : Grown(g)
      /\ \A g \in Sync!Folders : cursor'[g] = cursor[g] \/ cursor'[g] = Sync!NoCursor
    BY <1>1, <1>2, Forgotten DEF SyncInv, SyncTyped
<1>4. \A h \in Sync!Folders : epoch'[h] = 1 => Later(h)
    BY <1>1, <1>3, LaterSame
<1>5. OrgExact(o)'
    BY <1>1, <1>2 DEF OrgExact
<1>6. RowsTyped'
    BY <1>1, RowsSame DEF SyncInv, SyncTyped
<1> QED
    BY <1>1, <1>2, <1>3, <1>4, <1>5, <1>6, OrgActs DEF OfARow, Sync!bounds

LEMMA OrgDestroyKeeps ==
    ASSUME Sync!SyncConstants, SyncInv, NEW o \in Operators, Sync!OrgDestroy(o)
    PROVE  SyncInv'
<1> PICK c : c = org[o].item
    OBVIOUS
<1> DEFINE kept == {e \in server[Sync!Trash] : e.uid # c.uid}
<1>1. /\ Sync!OrgTo(o, "destroy", "destroyRow") /\ server' = [server EXCEPT ![Sync!Trash] = kept]
      /\ UNCHANGED <<uidNext, epoch, arrived, rows, cursor, rule, poll, send, Sync!bounds>>
    BY DEF Sync!OrgDestroy, Sync!OrgTo
<1>2. /\ PeopleTyped' /\ \A q \in Operators \ {o} : org'[q] = org[q]
      /\ org'[o].pc = "destroyRow" /\ org'[o].todo = org[o].todo /\ org'[o].item = c
      /\ org[o].pc = "destroy" /\ c.folder = Sync!Trash /\ OrgExact(o)
    BY <1>1, OrgPcMoves DEF OrgTyped
<1>3. Sync!Trash \in Sync!Folders /\ FoldersTyped
    BY DEF Sync!SyncConstants, SyncInv, SyncTyped
<1>4. IsFiniteSet(kept)
    BY <1>3, FS_Subset DEF FoldersTyped
<1>5. /\ server' \in [Sync!Folders -> SUBSET Numbered]
      /\ server'[Sync!Trash] = kept /\ \A h \in Sync!Folders \ {Sync!Trash} : server'[h] = server[h]
    BY <1>1, <1>3 DEF FoldersTyped
<1>6. \A h \in Sync!Folders : server'[h] \subseteq server[h] /\ IsFiniteSet(server'[h])
    BY <1>3, <1>4, <1>5 DEF FoldersTyped
<1>7. FoldersTyped' /\ \A h \in Sync!Folders : Grown(h)
    <2>1. UNCHANGED <<uidNext, epoch, cursor>>
        BY <1>1
    <2> HIDE DEF kept
    <2>2. FoldersTyped'
        BY <1>3, <1>5, <1>6, <2>1 DEF FoldersTyped
    <2> QED
        BY <1>3, <1>6, <2>1, <2>2 DEF FoldersTyped, Grown
<1>8. \A h \in Sync!Folders : epoch'[h] = 1 => Later(h)
    BY <1>1, <1>7, LaterSame
<1>9. OrgExact(o)'
    BY <1>1, <1>2, <1>5 DEF OrgExact
<1>10. RowsTyped' /\ failures' = failures
    BY <1>1, RowsSame DEF SyncInv, SyncTyped, Sync!bounds
<1> QED
    BY <1>1, <1>2, <1>7, <1>8, <1>9, <1>10, OrgActs DEF OfARow

LEMMA OrgDestroyRowKeeps ==
    ASSUME Sync!SyncConstants, SyncInv, NEW o \in Operators, Sync!OrgDestroyRow(o)
    PROVE  SyncInv'
<1> PICK c : c = org[o].item
    OBVIOUS
<1>1. /\ Sync!OrgTo(o, "destroyRow", "next")
             /\ rows' = {r \in rows : r.folder # Sync!Trash \/ r.uid # c.uid}
      /\ UNCHANGED <<server, uidNext, epoch, arrived, cursor, rule, poll, send, Sync!bounds>>
    BY DEF Sync!OrgDestroyRow, Sync!OrgTo
<1>2. /\ PeopleTyped' /\ \A q \in Operators \ {o} : org'[q] = org[q]
      /\ org'[o].pc = "next" /\ org'[o].todo = org[o].todo /\ org'[o].item = c
      /\ org[o].pc = "destroyRow" /\ c.folder = Sync!Trash /\ OrgExact(o)
    BY <1>1, OrgPcMoves DEF OrgTyped
<1>3. epoch[Sync!Trash] = 1 => \A e \in server[Sync!Trash] : e.uid # c.uid
    BY <1>2 DEF OrgExact
<1>4. /\ RowsTyped' /\ \A h \in Sync!Folders : epoch'[h] = 1 => Later(h)
      /\ \A r \in rows' : r.uid # Sync!NULL => OfARow(r)
    BY <1>1, <1>3, RowsFewer DEF SyncInv, SyncTyped
<1>5. FoldersTyped'
    BY <1>1, FoldersSame DEF SyncInv, SyncTyped
<1>6. OrgExact(o)'
    BY <1>1, <1>2 DEF OrgExact
<1> QED
    BY <1>1, <1>2, <1>4, <1>5, <1>6, OrgActs DEF Sync!bounds

LEMMA OrgFailsKeeps ==
    ASSUME Sync!SyncConstants, SyncInv, NEW o \in Operators, Sync!OrgFails(o)
    PROVE  SyncInv'
<1> DEFINE new == [org[o] EXCEPT !.pc = "next"]
<1>1. /\ failures < MaxFailures /\ failures' = failures + 1 /\ MaxFailures \in Nat
      /\ org[o] \in OrgType /\ OrgTyped(o) /\ OrgExact(o) /\ PeopleTyped
      /\ org' = [org EXCEPT ![o].pc = "next"]
      /\ UNCHANGED <<requests, resets, Sync!serverVars, rows, cursor, rule, poll, send>>
    BY DEF Sync!OrgFails, Sync!Fail, SyncInv, SyncTyped, PeopleTyped, SyncExact, Sync!SyncConstants
<1>2. /\ org' = [org EXCEPT ![o] = new] /\ new \in OrgType
      /\ new.pc = "next" /\ new.todo = org[o].todo /\ new.item = org[o].item
             /\ new.target = org[o].target
    BY <1>1 DEF PeopleTyped, OrgType
<1> HIDE DEF new
<1>3. org'[o] = new
    BY <1>1, <1>2 DEF PeopleTyped
<1>4. OrgTyped(o)' /\ OrgExact(o)'
    BY <1>1, <1>2, <1>3 DEF OrgTyped, OrgExact, Sync!serverVars
<1>5. requests' \in 0..MaxRequests /\ failures' \in 0..MaxFailures /\ failures' # 0
    BY <1>1 DEF PeopleTyped
<1>6. PeopleTyped' /\ \A q \in Operators \ {o} : org'[q] = org[q]
    BY <1>1, <1>2, <1>4, <1>5, OrgMoved
<1> QED
    BY <1>1, <1>4, <1>5, <1>6, OrgThinks

-----------------------------------------------------------------------------
(* Rules and sends *)

LEMMA RuleKeeps ==
    ASSUME Sync!SyncConstants, SyncInv, NEW f \in Sync!Folders \union {None}, Sync!SetRule(f)
    PROVE  SyncInv'
<1>1. /\ rule' = f /\ requests < MaxRequests /\ requests' = requests + 1 /\ MaxRequests \in Nat
      /\ UNCHANGED <<Sync!serverVars, rows, cursor, poll, org, send, failures, resets>>
    BY DEF Sync!SetRule, Sync!SyncConstants
<1>2. PeopleTyped'
    BY <1>1 DEF SyncInv, SyncTyped, PeopleTyped, OrgTyped
<1>3. FoldersTyped' /\ RowsTyped' /\ PollsTyped' /\ \A g \in Sync!Folders : Grown(g)
    BY <1>1, FoldersSame, RowsSame, PollsSame DEF SyncInv, SyncTyped, Sync!serverVars
<1>4. SyncExact'
    BY <1>1, <1>3, LaterSame, ExactKept DEF SyncInv, SyncExact, OfARow, Sync!serverVars
<1>5. SyncWhole'
    BY <1>1, WholeSame DEF SyncInv
<1> QED
    BY <1>2, <1>3, <1>4, <1>5 DEF SyncInv, SyncTyped

\* What the steps of a send have in common.
LEMMA SendActs ==
    ASSUME SyncInv, NEW m \in Outgoing, NEW from,
           NEW to \in {"record", "append", "refile", "done", "failed", "gone"},
               Sync!SendTo(m, from, to),
           failures' = failures \/ (failures < MaxFailures /\ failures' = failures + 1),
           MaxFailures \in Nat, FoldersTyped', RowsTyped',
           \A f \in Sync!Folders : epoch'[f] = 1 => Later(f),
           \A r \in rows' : r.uid # Sync!NULL => OfARow(r),
           \A r \in rows' : r \in rows \/ RowWhole(r)'
    PROVE  SyncInv'
<1>1. /\ UNCHANGED <<epoch, arrived, cursor, rule, poll, org, requests, resets>>
      /\ send' = [send EXCEPT ![m] = to]
    BY DEF Sync!SendTo
<1>2. PeopleTyped' /\ (failures' = 0 => failures = 0)
    BY <1>1 DEF SyncInv, SyncTyped, PeopleTyped, OrgTyped
<1>3. PollsTyped'
    BY <1>1, PollsSame DEF SyncInv, SyncTyped
<1>4. SyncExact'
    BY <1>1, ExactKept DEF SyncInv, SyncExact
<1>5. SyncWhole'
    BY <1>1, <1>2 DEF SyncInv, SyncWhole, RowWhole
<1> QED
    BY <1>2, <1>3, <1>4, <1>5 DEF SyncInv, SyncTyped

\* The row of a message that is being sent.
LEMMA SentRow ==
    ASSUME Sync!SyncConstants, NEW m \in Outgoing, NEW who \in {m, None}
    PROVE  LET row == [Sync!Row(Sync!Fallback, Sync!NULL, 0, m, who) EXCEPT !.files = 1,
                   !.scanned = TRUE] IN
           /\ row \in RowType /\ row.uid = Sync!NULL /\ RowWhole(row)'
<1> DEFINE sent == Sync!Row(Sync!Fallback, Sync!NULL, 0, m, who)
           row == [sent EXCEPT !.files = 1, !.scanned = TRUE]
<1>1. who \notin Pollers /\ who \in Outgoing \union {None}
    BY DEF Sync!SyncConstants
<1>2. sent \in RowType /\ sent.uid = Sync!NULL /\ sent.owner = who
    BY <1>1 DEF Sync!Row, RowType, Sync!NULL, Sync!Messages
<1> HIDE DEF sent
<1> PICK half : half = [sent EXCEPT !.files = 1]
    OBVIOUS
<1>6. half \in RowType /\ half.uid = Sync!NULL /\ half.owner = who /\ half.files = 1
    BY <1>2 DEF RowType
<1>7. row = [half EXCEPT !.scanned = TRUE]
    BY <1>2, <1>6 DEF RowType
<1>3. row \in RowType /\ row.uid = Sync!NULL /\ row.owner = who /\ row.files = 1
    BY <1>6, <1>7 DEF RowType
<1>4. row.scanned
    BY <1>6, <1>7 DEF RowType
<1>5. RowWhole(row)'
    BY <1>1, <1>3, <1>4 DEF RowWhole
<1> QED
    BY <1>3, <1>5 DEF sent

LEMMA SendSmtpKeeps ==
    ASSUME Sync!SyncConstants, SyncInv, NEW m \in Outgoing,
           Sync!SendSmtp(m) \/ (Sync!SendTo(m, "record", "gone") /\ rows' = rows
               /\ UNCHANGED <<server, uidNext>>
                           /\ failures < MaxFailures /\ failures' = failures + 1)
    PROVE  SyncInv'
<1>1. /\ \E from, to \in {"draft", "record", "gone"} : to # "draft" /\ Sync!SendTo(m, from, to)
      /\ UNCHANGED <<server, uidNext, rows, epoch, cursor>> /\ MaxFailures \in Nat
      /\ failures' = failures \/ (failures < MaxFailures /\ failures' = failures + 1)
    BY DEF Sync!SendSmtp, Sync!SendTo, Sync!SyncConstants
<1>2. FoldersTyped' /\ RowsTyped' /\ \A f \in Sync!Folders : Grown(f)
    BY <1>1, FoldersSame, RowsSame DEF SyncInv, SyncTyped
<1>3. \A f \in Sync!Folders : epoch'[f] = 1 => Later(f)
    BY <1>1, <1>2, LaterSame
<1> QED
    BY <1>1, <1>2, <1>3, SendActs DEF OfARow

\* The message is recorded, with or without someone to follow it up.
LEMMA RecordKeeps ==
    ASSUME Sync!SyncConstants, SyncInv, NEW m \in Outgoing, NEW who \in {m, None}, NEW from,
           NEW to \in {"append", "failed"}, Sync!SendTo(m, from, to),
           rows' = rows \union {[Sync!Row(Sync!Fallback, Sync!NULL, 0, m, who) EXCEPT !.files = 1,
               !.scanned = TRUE]},
           UNCHANGED <<server, uidNext>>,
           failures' = failures \/ (failures < MaxFailures /\ failures' = failures + 1)
    PROVE  SyncInv'
<1> PICK row : row = [Sync!Row(Sync!Fallback, Sync!NULL, 0, m, who) EXCEPT !.files = 1,
             !.scanned = TRUE]
    OBVIOUS
<1>1. row \in RowType /\ row.uid = Sync!NULL /\ RowWhole(row)' /\ rows' = rows \union {row}
    BY SentRow
<1>2. UNCHANGED <<server, uidNext, epoch, cursor>> /\ MaxFailures \in Nat
    BY DEF Sync!SendTo, Sync!SyncConstants
<1>3. FoldersTyped'
    BY <1>2, FoldersSame DEF SyncInv, SyncTyped
<1>4. RowsTyped'
    BY <1>1 DEF SyncInv, SyncTyped, RowsTyped
<1>5. \A f \in Sync!Folders : epoch'[f] = 1 => Later(f)
    BY <1>1, <1>2, LaterRows DEF SyncInv, SyncTyped
<1>6. \A r \in rows' : r.uid # Sync!NULL => OfARow(r)
    BY <1>1 DEF OfARow
<1> QED
    BY <1>1, <1>2, <1>3, <1>4, <1>5, <1>6, SendActs

LEMMA AppendKeeps ==
    ASSUME Sync!SyncConstants, SyncInv, NEW m \in Outgoing, Sync!SendAppend(m)
    PROVE  SyncInv'
<1>1. /\ Sync!SendTo(m, "append", "refile") /\ Sync!Append1(Sync!SentBox, m)
             /\ Sync!SentBox \in Sync!Folders
      /\ UNCHANGED <<rows, failures, epoch, cursor>> /\ MaxFailures \in Nat
    BY DEF Sync!SendAppend, Sync!SendTo, Sync!findSentFolder, Sync!findFolderBySpecialUse,
           Sync!SyncConstants
<1>2. FoldersTyped' /\ \A g \in Sync!Folders : Grown(g)
    BY <1>1, AppendGrows DEF SyncInv, SyncTyped, Sync!Messages
<1>3. RowsTyped'
    BY <1>1, RowsSame DEF SyncInv, SyncTyped
<1>4. \A f \in Sync!Folders : epoch'[f] = 1 => Later(f)
    BY <1>1, <1>2, LaterSame
<1> QED
    BY <1>1, <1>2, <1>3, <1>4, SendActs DEF OfARow

\* Its row is let go of, filed or not.
LEMMA RefileKeeps ==
    ASSUME Sync!SyncConstants, SyncInv, NEW m \in Outgoing, NEW from, Sync!SendTo(m, from, "done"),
           \/ rows' = {IF r.owner = m THEN [r EXCEPT !.folder = Sync!SentBox, !.owner = None]
                  ELSE r : r \in rows}
           \/ rows' = {IF r.owner = m THEN [r EXCEPT !.owner = None] ELSE r : r \in rows},
           UNCHANGED <<server, uidNext>>,
           failures' = failures \/ (failures < MaxFailures /\ failures' = failures + 1)
    PROVE  SyncInv'
<1>1. /\ UNCHANGED <<server, uidNext, epoch, cursor, poll>> /\ MaxFailures \in Nat
      /\ Sync!SentBox \in Sync!Folders
    BY DEF Sync!SendTo, Sync!SyncConstants
<1>2. \A r \in rows : r \in RowType /\ (r.owner \in Outgoing => r.uid = Sync!NULL) /\ RowWhole(r)
    BY DEF SyncInv, SyncTyped, RowsTyped, SyncWhole
<1>3. ASSUME NEW q \in rows'
      PROVE  \/ q \in rows /\ q.owner # m
             \/ q \in RowType /\ q.uid = Sync!NULL /\ q.owner = None /\ q.files = 1
    <2>1. PICK r \in rows : \/ r.owner # m /\ q = r
                            \/ r.owner = m /\ q = [r EXCEPT !.folder = Sync!SentBox, !.owner = None]
                            \/ r.owner = m /\ q = [r EXCEPT !.owner = None]
        OBVIOUS
    <2>2. r.owner = m => r.uid = Sync!NULL /\ r.files = 1
        BY <1>2 DEF RowWhole
    <2> QED
        BY <1>1, <1>2, <2>1, <2>2 DEF RowType
<1>4. \A q \in rows' : q \in rows \/ q.scanned
    <2> SUFFICES ASSUME NEW q \in rows' PROVE q \in rows \/ q.scanned
        OBVIOUS
    <2>1. PICK r \in rows : \/ r.owner # m /\ q = r
                            \/ r.owner = m /\ q = [r EXCEPT !.folder = Sync!SentBox, !.owner = None]
                            \/ r.owner = m /\ q = [r EXCEPT !.owner = None]
        OBVIOUS
    <2>2. r.owner = m => r.scanned
        BY <1>2 DEF RowWhole
    <2>3. r \in RowType
        BY <1>2
    <2> QED
        BY <2>1, <2>2, <2>3 DEF RowType
<1>5. FoldersTyped'
    BY <1>1, FoldersSame DEF SyncInv, SyncTyped
<1>6. RowsTyped'
    BY <1>3 DEF SyncInv, SyncTyped, RowsTyped, Sync!SyncConstants
<1>7. \A f \in Sync!Folders : epoch'[f] = 1 => Later(f)
    <2>1. ASSUME NEW r \in rows, r.uid # Sync!NULL PROVE r \in rows'
        <3>1. r.owner # m
            BY <1>2, <2>1
        <3> QED
            BY <3>1
    <2> QED
        BY <1>1, <2>1, LaterRows DEF SyncInv, SyncTyped
<1>8. \A r \in rows' : r.uid # Sync!NULL => OfARow(r)
    BY <1>3 DEF OfARow
<1>9. \A r \in rows' : r \in rows \/ RowWhole(r)'
    BY <1>3, <1>4 DEF RowWhole, Sync!SyncConstants
<1> QED
    BY <1>1, <1>5, <1>6, <1>7, <1>8, <1>9, SendActs

LEMMA SendKeeps ==
    ASSUME Sync!SyncConstants, SyncInv, NEW m \in Outgoing,
           Sync!SendSmtp(m) \/ Sync!SendRecord(m) \/ Sync!SendAppend(m) \/ Sync!SendRefile(m)
               \/ Sync!SendFails(m)
    PROVE  SyncInv'
<1>1. CASE Sync!SendRecord(m)
    BY <1>1, RecordKeeps DEF Sync!SendRecord
<1>2. CASE Sync!SendRefile(m)
    BY <1>2, RefileKeeps DEF Sync!SendRefile
<1>3. CASE Sync!SendFails(m)
    <2>1. CASE /\ Sync!SendTo(m, "draft", "failed")
               /\ rows' = rows \union {[Sync!Row(Sync!Fallback, Sync!NULL, 0, m,
                      None) EXCEPT !.files = 1, !.scanned = TRUE]}
        BY <1>3, <2>1, RecordKeeps DEF Sync!SendFails
    <2>2. CASE Sync!SendTo(m, "record", "gone") /\ rows' = rows
        BY <1>3, <2>2, SendSmtpKeeps DEF Sync!SendFails
    <2>3. CASE /\ Sync!SendTo(m, "append", "done") \/ Sync!SendTo(m, "refile", "done")
               /\ rows' = {IF r.owner = m THEN [r EXCEPT !.owner = None] ELSE r : r \in rows}
        BY <1>3, <2>3, RefileKeeps DEF Sync!SendFails
    <2> QED
        BY <1>3, <2>1, <2>2, <2>3 DEF Sync!SendFails
<1> QED
    BY <1>1, <1>2, <1>3, SendSmtpKeeps, AppendKeeps

-----------------------------------------------------------------------------
LEMMA SyncSteps == Sync!SyncConstants /\ SyncInv /\ [Sync!Next]_Sync!vars => SyncInv'
<1> SUFFICES ASSUME Sync!SyncConstants, SyncInv, [Sync!Next]_Sync!vars PROVE SyncInv'
    OBVIOUS
<1>1. CASE Sync!Next
    BY <1>1, DeliverKeeps, RenumberKeeps, PollKeeps, OrganizeKeeps, NextKeeps, OrgMoveKeeps,
       OrgMoveRowKeeps, OrgMoveCursorKeeps, OrgDestroyKeeps, OrgDestroyRowKeeps, OrgFailsKeeps,
       RuleKeeps, SendKeeps
    DEF Sync!Next
<1>2. CASE UNCHANGED Sync!vars
    <2>1. UNCHANGED <<server, uidNext, epoch, cursor, rows, rule, poll, org, send, Sync!bounds>>
        BY <1>2 DEF Sync!vars, Sync!serverVars
    <2>2. SyncTyped' /\ \A f \in Sync!Folders : Grown(f)
        BY <2>1, FoldersSame, RowsSame, PollsSame, PeopleSame DEF SyncInv, SyncTyped
    <2>3. SyncExact'
        BY <2>1, <2>2, LaterSame, ExactKept DEF SyncInv, SyncTyped, SyncExact, OfARow
    <2>4. SyncWhole'
        BY <2>1, WholeSame DEF SyncInv, Sync!bounds
    <2> QED
        BY <2>2, <2>3, <2>4 DEF SyncInv
<1> QED
    BY <1>1, <1>2

\* What remembers whether requests overlapped is only ever set, and only by a
\* poll, an organize request or a send that begins.
LEMMA OverlapKept ==
    ASSUME SyncInv, overlapped \in BOOLEAN, [Sync!Next]_Sync!vars
    PROVE  /\ overlapped' \in BOOLEAN /\ (overlapped => overlapped')
           /\ failures \in Nat /\ failures' \in {failures, failures + 1}
           /\ resets \in Nat /\ resets' \in {resets, resets + 1}
<1>1. failures \in Nat /\ resets \in Nat
    BY DEF SyncInv, SyncTyped, PeopleTyped
<1>2. ASSUME NEW p \in Pollers,
             Sync!PollStart(p) \/ Sync!PollStep(p) \/ Sync!PollFails(p) \/ Sync!PollDies(p)
      PROVE  /\ overlapped' = overlapped \/ Sync!PollStart(p)
             /\ failures' \in {failures, failures + 1} /\ resets' = resets
    BY <1>2 DEF Sync!PollStart, Sync!PollStep, Sync!PollFails, Sync!PollDies, Sync!Fail,
                Sync!bounds, Sync!PollCursor, Sync!PollFetch, Sync!PollConverge, Sync!PollInsert,
                Sync!PollFiles, Sync!PollFollow, Sync!PollMove, Sync!PollMoveRow,
                Sync!PollMoveCursor, Sync!PollScan, Sync!PollSave
<1>3. ASSUME NEW o \in Operators,
             \/ Sync!Organize(o) \/ Sync!OrgNext(o) \/ Sync!OrgMove(o) \/ Sync!OrgMoveRow(o)
             \/ Sync!OrgMoveCursor(o) \/ Sync!OrgDestroy(o) \/ Sync!OrgDestroyRow(o)
             \/ Sync!OrgFails(o)
      PROVE  /\ overlapped' = overlapped \/ Sync!Organize(o)
             /\ failures' \in {failures, failures + 1} /\ resets' = resets
    BY <1>3 DEF Sync!Organize, Sync!OrgNext, Sync!OrgMove, Sync!OrgMoveRow, Sync!OrgMoveCursor,
                Sync!OrgDestroy, Sync!OrgDestroyRow, Sync!OrgFails, Sync!OrgTo, Sync!Fail,
                Sync!bounds
<1>4. ASSUME NEW m \in Outgoing,
             \/ Sync!SendSmtp(m) \/ Sync!SendRecord(m) \/ Sync!SendAppend(m) \/ Sync!SendRefile(m)
             \/ Sync!SendFails(m)
      PROVE  /\ overlapped' = overlapped \/ Sync!SendSmtp(m)
             /\ failures' \in {failures, failures + 1} /\ resets' = resets
    BY <1>4 DEF Sync!SendSmtp, Sync!SendRecord, Sync!SendAppend, Sync!SendRefile, Sync!SendFails,
                Sync!SendTo
<1>5. ASSUME \/ \E m \in Sync!Messages : Sync!Deliver(m)
             \/ \E f \in Sync!Folders : Sync!Renumber(f)
             \/ \E f \in Sync!Folders \union {None} : Sync!SetRule(f)
             \/ UNCHANGED Sync!vars
      PROVE  overlapped' = overlapped /\ failures' = failures /\ resets' \in {resets, resets + 1}
    BY <1>5 DEF Sync!Deliver, Sync!Renumber, Sync!SetRule, Sync!vars, Sync!bounds
<1>6. ASSUME \/ \E p \in Pollers : Sync!PollStart(p)
             \/ \E o \in Operators : Sync!Organize(o)
             \/ \E m \in Outgoing : Sync!SendSmtp(m)
      PROVE  overlapped' \in BOOLEAN /\ (overlapped => overlapped')
    BY <1>6 DEF Sync!PollStart, Sync!Organize, Sync!SendSmtp, Sync!Begins
<1> QED
    BY <1>1, <1>2, <1>3, <1>4, <1>5, <1>6 DEF Sync!Next

LEMMA SyncSafe ==
    ASSUME Sync!SyncConstants, SyncInv, overlapped \in BOOLEAN
    PROVE  Sync!TypeOK /\ Sync!NothingSkipped /\ Sync!WholeMessages
<1>1. Sync!TypeOK
    BY SyncIsTyped DEF SyncInv
<1>2. Sync!NothingSkipped
    BY DEF SyncInv, SyncExact, NumbersHold, Sync!NothingSkipped
<1>3. Sync!WholeMessages
    BY DEF SyncInv, SyncTyped, RowsTyped, RowType, SyncWhole, RowWhole, Sync!WholeMessages
<1> QED
    BY <1>1, <1>2, <1>3

\* A poll moves no cursor past a message it has not filed, as long as the folder keeps
\* its numbers, and lets go of no row before it is whole unless something failed,
\* however many polls, organize requests and sends overlap.
THEOREM NothingIsSkipped ==
    ASSUME Sync!SyncConstants
    PROVE  Sync!Spec => [](Sync!TypeOK /\ Sync!NothingSkipped /\ Sync!WholeMessages)
<1> DEFINE Inv == SyncInv /\ overlapped \in BOOLEAN
<1>1. Sync!Init => Inv
    BY SyncStarts DEF SyncInv, Sync!Init
<1>2. Inv /\ [Sync!Next]_Sync!vars => Inv'
    BY SyncSteps, OverlapKept
<1>3. Inv => Sync!TypeOK /\ Sync!NothingSkipped /\ Sync!WholeMessages
    BY SyncSafe
<1> QED
    BY <1>1, <1>2, <1>3, PTL DEF Sync!Spec

-----------------------------------------------------------------------------
(* Where the rows are *)

\* What waits to be fetched goes on waiting.
WaitsOn == \A f \in Sync!Folders : \A e \in server[f] : Waits(f, e)
    => e \in server'[f] /\ Waits(f, e)'

LEMMA AwaitedOn == ASSUME WaitsOn, NEW m, Awaited(m) PROVE Awaited(m)'
    BY DEF WaitsOn, Awaited

\* A poll at work has the mailbox to itself, and so has a request.
LEMMA PollTurn ==
    ASSUME SyncPlaced, NEW p \in Pollers, PollAlone(p), poll[p].pc # "idle"
    PROVE  /\ Sync!PeopleRest
           /\ \A q \in Pollers : q = p \/ (poll[q].pc = "idle" /\ poll'[q].pc = "idle")
           /\ \A r : Leaving(r) <=> PollLeaves(p, r)
           /\ \A r \in rows : r.uid = Sync!NULL => Awaited(r.msg)
<1>1. Sync!PeopleRest
    BY DEF SyncPlaced, Turns, Sync!PollsRest
<1>2. \A q \in Pollers : q = p \/ (poll[q].pc = "idle" /\ poll'[q].pc = "idle")
    BY DEF PollAlone
<1>3. \A m \in Outgoing : send[m] # "append"
    BY <1>1 DEF Sync!PeopleRest, Sync!RequestsRest
<1>4. \A o \in Operators : org[o].pc = "idle"
    BY <1>1 DEF Sync!PeopleRest, Sync!RequestsRest
<1>5. \A r : Leaving(r) <=> PollLeaves(p, r)
    BY <1>2, <1>4 DEF Leaving, PollLeaves, OrgLeaves, OrgDestroys
<1> QED
    BY <1>1, <1>2, <1>3, <1>5 DEF SyncPlaced, RowPlaced

LEMMA OrgTurn ==
    ASSUME SyncPlaced, NEW o \in Operators, OrgAlone(o), org[o].pc # "idle"
    PROVE  /\ Sync!PollsRest
           /\ \A q \in Operators : q = o \/ (org[q].pc = "idle" /\ org'[q].pc = "idle")
           /\ \A r : Leaving(r) <=> OrgLeaves(o, r) \/ OrgDestroys(o, r)
<1>1. Sync!PollsRest
    BY DEF SyncPlaced, Turns, Sync!PeopleRest, Sync!RequestsRest
<1>2. \A q \in Operators : q = o \/ (org[q].pc = "idle" /\ org'[q].pc = "idle")
    BY DEF OrgAlone
<1>3. \A p \in Pollers : poll[p].pc = "idle"
    BY <1>1 DEF Sync!PollsRest
<1> QED
    BY <1>1, <1>2, <1>3 DEF Leaving, PollLeaves, OrgLeaves, OrgDestroys

\* Nothing is leaving when neither is at work on the server.
LEMMA NoneLeaves ==
    ASSUME NEW r, \A p \in Pollers : poll[p].pc # "moveRow",
           \A o \in Operators : org[o].pc \notin {"moveRow", "destroyRow"}
    PROVE  ~Leaving(r)
    BY DEF Leaving, PollLeaves, OrgLeaves, OrgDestroys

\* What a step of a poll has to show, and one of a request.
LEMMA PollPlaces ==
    ASSUME SyncPlaced, NEW p \in Pollers, PollAlone(p), Sync!PeopleRest, UNCHANGED <<epoch, org,
           send>>,
           \A r \in rows' : r.uid = Sync!NULL \/ PollLeaves(p, r)' => Awaited(r.msg)',
           \A r \in rows' : r.uid # Sync!NULL =>
                r.epoch = 1 /\ (Sync!Mail(r.uid, r.msg) \in server'[r.folder] \/ PollLeaves(p, r)'),
           \A r, q \in rows' : r.uid # Sync!NULL /\ At(r, q.folder, q.uid) => r = q,
           PollPlaced(p)'
    PROVE  SyncPlaced'
<1>1. \A q \in Pollers : q = p \/ (poll[q].pc = "idle" /\ poll'[q].pc = "idle")
    BY DEF PollAlone
<1>2. Sync!PeopleRest'
    BY DEF Sync!PeopleRest, Sync!RequestsRest
<1>3. \A o \in Operators : org'[o].pc = "idle"
    BY DEF Sync!PeopleRest, Sync!RequestsRest
<1>4. \A o \in Operators : OrgPlaced(o)'
    BY <1>3 DEF OrgPlaced
<1>5. \A r \in rows' : RowPlaced(r)'
    <2>1. \A r \in rows' : \A o \in Operators : ~OrgLeaves(o, r)'
        BY <1>3 DEF OrgLeaves
    <2>2. \A r \in rows' : PollLeaves(p, r)' => Leaving(r)'
        BY DEF Leaving
    <2> QED
        BY <1>1, <2>1, <2>2 DEF RowPlaced, PollLeaves
<1>6. \A r, q \in rows' : r.uid # Sync!NULL /\ At(r, q.folder, q.uid)' => r = q
    BY DEF At
<1>7. \A q \in Pollers : PollPlaced(q)'
    BY <1>1 DEF PollPlaced, Working, Holding
<1> QED
    BY <1>2, <1>4, <1>5, <1>6, <1>7 DEF SyncPlaced, Turns

LEMMA OrgPlaces ==
    ASSUME SyncPlaced, NEW o \in Operators, OrgAlone(o), Sync!PollsRest, UNCHANGED <<epoch, poll,
           send>>,
           \A r \in rows' : r.uid = Sync!NULL
               => Awaited(r.msg)' \/ (r.msg \in Outgoing /\ send[r.msg] = "append"),
           \A r \in rows' : OrgLeaves(o, r)' => Awaited(r.msg)',
           \A r \in rows' : r.uid # Sync!NULL =>
                /\ r.epoch = 1
                /\ Sync!Mail(r.uid, r.msg) \in server'[r.folder] \/ OrgLeaves(o, r)'
                       \/ OrgDestroys(o, r)',
           \A r, q \in rows' : r.uid # Sync!NULL /\ At(r, q.folder, q.uid) => r = q,
           OrgPlaced(o)'
    PROVE  SyncPlaced'
<1>1. \A q \in Operators : q = o \/ (org[q].pc = "idle" /\ org'[q].pc = "idle")
    BY DEF OrgAlone
<1>2. Sync!PollsRest'
    BY DEF Sync!PollsRest
<1>3. \A p \in Pollers : poll'[p].pc = "idle"
    BY DEF Sync!PollsRest
<1>4. \A p \in Pollers : PollPlaced(p)'
    BY <1>3 DEF PollPlaced, Working, Holding
<1>5. \A r \in rows' : RowPlaced(r)'
    <2>1. \A r \in rows' : \A p \in Pollers : ~PollLeaves(p, r)'
        BY <1>3 DEF PollLeaves
    <2>2. \A r \in rows' : OrgLeaves(o, r)' \/ OrgDestroys(o, r)' => Leaving(r)'
        BY DEF Leaving
    <2> QED
        BY <1>1, <2>1, <2>2 DEF RowPlaced, OrgLeaves, OrgDestroys
<1>6. \A r, q \in rows' : r.uid # Sync!NULL /\ At(r, q.folder, q.uid)' => r = q
    BY DEF At
<1>7. \A q \in Operators : OrgPlaced(q)'
    BY <1>1 DEF OrgPlaced
<1> QED
    BY <1>2, <1>4, <1>5, <1>6, <1>7 DEF SyncPlaced, Turns

\* Rows that change keep their place, or lose their uid: no two have one place.
LEMMA RowsApart ==
    ASSUME SyncPlaced, NEW F, rows' = {F[r] : r \in rows},
           \A r \in rows : F[r].uid # Sync!NULL => F[r].folder = r.folder /\ F[r].uid = r.uid
    PROVE  \A r, q \in rows' : r.uid # Sync!NULL /\ At(r, q.folder, q.uid) => r = q
<1> SUFFICES ASSUME NEW r \in rows, NEW q \in rows, F[r].uid # Sync!NULL,
                    F[r].folder = F[q].folder, F[r].uid = F[q].uid
             PROVE  F[r] = F[q]
    BY DEF At
<1>1. r.uid # Sync!NULL /\ r.folder = q.folder /\ r.uid = q.uid
    OBVIOUS
<1> QED
    BY <1>1 DEF SyncPlaced, At

\* A message that is moved leaves one behind that waits, whatever else did.
LEMMA MovesIt ==
    ASSUME FoldersTyped, NEW f \in Sync!Folders, NEW e \in server[f], NEW g \in Sync!Folders,
           \A d \in server[f] : d.uid = e.uid => d = e, Sync!ServerMove(f, e.uid, g)
    PROVE  /\ Sync!Mail(uidNext[g], e.msg) \in server'[g]
           /\ \A h \in Sync!Folders : \A d \in server[h] : d \in server'[h] \/ (h = f /\ d = e)
<1>1. (CHOOSE d \in server[f] : d.uid = e.uid) = e
    OBVIOUS
<1>2. server' = [server EXCEPT ![f] = @ \ {e}, ![g] = @ \union {Sync!Mail(uidNext[g], e.msg)}]
    BY <1>1 DEF Sync!ServerMove
<1> QED
    BY <1>2 DEF FoldersTyped

LEMMA MoveWaits ==
    ASSUME SyncInv, NEW f \in Sync!Folders, NEW e \in server[f], NEW g \in Sync!Folders,
           \A h \in Sync!Folders : epoch[h] = 1,
           \A d \in server[f] : d.uid = e.uid => d = e, Sync!ServerMove(f, e.uid, g), rows' = rows,
           NEW r \in rows, At(r, f, e.uid),
           \A h \in Sync!Folders : \A u \in Nat : Unreached(h, u) => Unreached(h, u)',
           Unreached(g, uidNext[g])
    PROVE  WaitsOn /\ Awaited(e.msg)'
<1> PICK n : n = Sync!Mail(uidNext[g], e.msg)
    OBVIOUS
<1>1. /\ n \in server'[g] /\ n.uid = uidNext[g] /\ n.msg = e.msg
      /\ \A h \in Sync!Folders : \A d \in server[h] : d \in server'[h] \/ (h = f /\ d = e)
    BY MovesIt DEF Sync!Mail, SyncInv, SyncTyped
<1>2. \A h \in Sync!Folders : \A d \in server[h] : d.uid \in Nat
    BY DEF SyncInv, SyncTyped, FoldersTyped, Numbered
<1>3. WaitsOn
    BY <1>1, <1>2 DEF WaitsOn, Waits, At
<1>4. uidNext[g] \in Nat \ {0} /\ \A q \in rows : q.uid \in Nat
          /\ (q.folder = g /\ q.uid # Sync!NULL => q.uid < uidNext[g])
    BY DEF SyncInv, SyncTyped, SyncExact, FoldersTyped, RowsTyped, RowType, NumbersHold
<1>5. \A q \in rows : ~At(q, g, uidNext[g])
    BY <1>4 DEF At, Sync!NULL
<1>6. Waits(g, n)'
    BY <1>1, <1>4, <1>5 DEF Waits, At
<1> QED
    BY <1>1, <1>3, <1>6 DEF Awaited

\* The row whose message was moved follows it.
LEMMA MovedRowApart ==
    ASSUME SyncPlaced, NEW f, NEW u, NEW g, Sync!MovedRow(f, u, g), RowsTyped, u # Sync!NULL
    PROVE  /\ \A r, q \in rows' : r.uid # Sync!NULL /\ At(r, q.folder, q.uid) => r = q
           /\ \A r \in rows' : \/ r \in rows /\ ~At(r, f, u)
                               \/ r.uid = Sync!NULL /\ \E q \in rows : At(q, f, u) /\ r.msg = q.msg
           /\ \A r \in rows : ~At(r, f, u) => r \in rows'
<1> DEFINE F == [r \in rows |-> IF r.folder = f
               /\ r.uid = u THEN [r EXCEPT !.folder = g, !.uid = Sync!NULL] ELSE r]
<1>1. rows' = {F[r] : r \in rows}
    BY DEF Sync!MovedRow
<1>2. \A r \in rows : IF At(r, f, u) THEN F[r].uid = Sync!NULL /\ F[r].msg = r.msg ELSE F[r] = r
    BY DEF At, RowsTyped, RowType
<1> HIDE DEF F
<1> QED
    BY <1>1, <1>2, RowsApart

-----------------------------------------------------------------------------
(* The poll, where the rows are *)

\* The message a poll is at, until it has been moved.
LEMMA AtItsMessage ==
    ASSUME SyncInv, SyncPlaced, NEW p \in Pollers, poll[p].pc \in Working,
           poll[p].pc \notin {"moveRow", "moveCursor", "scan"}
    PROVE  /\ Sync!Folder(p) \in Sync!Folders /\ Sync!Msg(p) \in server[Sync!Folder(p)]
                  /\ Sync!Msg(p).uid \in Nat \ {0}
           /\ \A d \in server[Sync!Folder(p)] : d.uid = Sync!Msg(p).uid => d = Sync!Msg(p)
<1>1. Sync!Folder(p) \in Sync!Folders /\ Sync!Msg(p) \in poll[p].batch
          /\ Sync!Msg(p).uid \in Nat \ {0}
    BY AtWork
<1>2. Sync!Msg(p) \in server[Sync!Folder(p)] /\ epoch[Sync!Folder(p)] = 1
    BY <1>1 DEF SyncPlaced, PollPlaced
<1> QED
    BY <1>1, <1>2 DEF SyncInv, SyncExact, NumbersHold

\* What a poll has not come to it has not come to with its next statement.
LEMMA StillUnreached ==
    ASSUME NEW p \in Pollers, PollAlone(p), poll[p].pc \notin {"idle", "cursor"},
           poll'[p].todo = poll[p].todo, poll'[p].since = poll[p].since,
               poll'[p].batch = poll[p].batch,
           poll'[p].pc \in {"insert"} \union Holding => poll[p].pc \in {"insert"} \union Holding,
           UNCHANGED epoch, \A f \in Sync!Folders : epoch[f] = 1,
           \A f \in Sync!Folders : cursor'[f] = cursor[f] \/ cursor'[f] = Sync!NoCursor
    PROVE  \A f \in Sync!Folders : \A u : Unreached(f, u) => Unreached(f, u)'
<1>1. Sync!Folder(p)' = Sync!Folder(p) /\ Sync!Msg(p)' = Sync!Msg(p)
    BY DEF Sync!Folder, Sync!Msg
<1>2. \A f \in Sync!Folders : \A u : Sync!Passed(f, u)' => Sync!Passed(f, u)
    BY DEF Sync!Passed, Sync!NoCursor
<1>3. \A q \in Pollers : q = p \/ (poll[q].pc = "idle" /\ poll'[q].pc = "idle")
    BY DEF PollAlone
<1> QED
    BY <1>1, <1>2, <1>3 DEF Unreached

LEMMA MessageBehind ==
    ASSUME SyncInv, SyncPlaced, NEW p \in Pollers, PollAlone(p),
           poll[p].pc \in {"insert"} \union Holding,
           Sync!NextMessage(p), UNCHANGED <<cursor, epoch>>
    PROVE  /\ \A f \in Sync!Folders : \A e \in server[f] : Unreached(f, e.uid)
                  => Unreached(f, e.uid)'
           /\ poll'[p].batch = poll[p].batch \ {Sync!Msg(p)} /\ Sync!Folder(p)' = Sync!Folder(p)
           /\ poll'[p].pc \in {"save", "converge"}
<1>1. /\ poll[p].pc \in Working /\ poll[p].pc \notin {"idle", "cursor", "fetch"}
      /\ poll[p] \in PollType /\ PollsTyped /\ PollExact(p)
    BY DEF SyncInv, SyncTyped, SyncExact, PollsTyped, Working, Holding
<1>2. /\ poll'[p].pc \in {"save", "converge"} /\ poll'[p].todo = poll[p].todo
      /\ poll'[p].batch = poll[p].batch \ {Sync!Msg(p)}
      /\ poll'[p].since = IF Sync!Msg(p).uid > poll[p].since THEN Sync!Msg(p).uid ELSE poll[p].since
    BY <1>1 DEF Sync!NextMessage, PollsTyped, PollType
<1>3. Sync!Folder(p)' = Sync!Folder(p)
    BY <1>2 DEF Sync!Folder
<1>4. /\ Sync!Folder(p) \in Sync!Folders /\ Sync!Msg(p) \in poll[p].batch /\ Sync!Msg(p).uid \in Nat
      /\ \A d \in poll[p].batch : Sync!Msg(p).uid <= d.uid
    BY <1>1, AtWork, AtMessage
<1>5. SUFFICES ASSUME NEW f \in Sync!Folders, NEW e \in server[f], Unreached(f, e.uid)
               PROVE  Unreached(f, e.uid)'
    BY <1>2, <1>3
<1>6. ~Sync!Passed(f, e.uid)'
    BY <1>5 DEF Unreached, Sync!Passed
<1>7. ASSUME Sync!Folder(p) = f PROVE e.uid > poll'[p].since
    <2>1. e.uid > poll[p].since /\ e.uid # Sync!Msg(p).uid
        BY <1>1, <1>5, <1>7 DEF Unreached
    <2>2. e.uid \in Nat /\ epoch[f] = 1
        BY DEF SyncInv, SyncTyped, FoldersTyped, Numbered, SyncPlaced
    <2>3. Sync!Msg(p).uid < e.uid
        <3>1. CASE e \in poll[p].batch
            BY <1>4, <2>1, <2>2, <3>1
        <3>2. CASE e \notin poll[p].batch
            BY <1>1, <1>4, <1>7, <2>1, <2>2, <3>2 DEF PollExact
        <3> QED
            BY <3>1, <3>2
    <2> QED
        BY <1>2, <2>1, <2>3
<1>8. \A q \in Pollers : q = p \/ (poll[q].pc = "idle" /\ poll'[q].pc = "idle")
    BY DEF PollAlone
<1> QED
    BY <1>2, <1>3, <1>6, <1>7, <1>8 DEF Unreached, Holding

\* A poll that leaves the server and the rows as they are.
LEMMA PollOnlyThinks ==
    ASSUME SyncPlaced, NEW p \in Pollers, PollAlone(p), Sync!PeopleRest,
           poll[p].pc # "moveRow", poll'[p].pc # "moveRow",
           UNCHANGED <<server, rows, epoch, org, send>>,
           \A f \in Sync!Folders : \A e \in server[f] : Unreached(f, e.uid) => Unreached(f, e.uid)',
           PollPlaced(p)'
    PROVE  SyncPlaced'
<1>1. WaitsOn
    BY DEF WaitsOn, Waits, At
<1>2. \A r : ~Leaving(r)
    BY NoneLeaves DEF PollAlone, Sync!PeopleRest, Sync!RequestsRest
<1>3. \A r \in rows : r.uid = Sync!NULL => Awaited(r.msg)
    BY DEF SyncPlaced, RowPlaced, Sync!PeopleRest, Sync!RequestsRest
<1>4. \A r \in rows : ~PollLeaves(p, r)'
    BY DEF PollLeaves
<1>5. \A r \in rows' : r.uid = Sync!NULL \/ PollLeaves(p, r)' => Awaited(r.msg)'
    BY <1>1, <1>3, <1>4, AwaitedOn
<1>6. \A r \in rows' : r.uid # Sync!NULL
          => r.epoch = 1 /\ Sync!Mail(r.uid, r.msg) \in server'[r.folder]
    BY <1>2 DEF SyncPlaced, RowPlaced
<1>7. \A r, q \in rows' : r.uid # Sync!NULL /\ At(r, q.folder, q.uid) => r = q
    BY DEF SyncPlaced
<1> QED
    BY <1>5, <1>6, <1>7, PollPlaces

LEMMA StartPlaces ==
    ASSUME Sync!SyncConstants, SyncInv, SyncPlaced, NEW p \in Pollers, PollAlone(p),
           Sync!PollStart(p), ~overlapped'
    PROVE  SyncPlaced'
<1>1. /\ poll[p].pc = "idle" /\ Sync!PeopleRest
             /\ poll' = [poll EXCEPT ![p].pc = "cursor", ![p].todo = FolderOrder]
      /\ UNCHANGED <<Sync!serverVars, rows, cursor, org, send>>
    BY DEF Sync!PollStart, Sync!Begins
<1>2. /\ poll'[p].pc = "cursor"
      /\ \A q \in Pollers : q = p \/ (poll[q].pc = "idle" /\ poll'[q].pc = "idle")
    BY <1>1 DEF SyncInv, SyncTyped, PollsTyped, PollType, PollAlone
<1>3. \A f \in Sync!Folders : \A e \in server[f] : Unreached(f, e.uid) => Unreached(f, e.uid)'
    BY <1>1, <1>2 DEF Unreached, Sync!Passed, Sync!serverVars
<1>4. PollPlaced(p)'
    BY <1>2 DEF PollPlaced, Working, Holding
<1> QED
    BY <1>1, <1>2, <1>3, <1>4, PollOnlyThinks DEF Sync!serverVars

LEMMA CursorPlaces ==
    ASSUME SyncInv, SyncPlaced, NEW p \in Pollers, PollAlone(p), Sync!PollCursor(p)
    PROVE  SyncPlaced'
<1>1. /\ poll[p].pc = "cursor" /\ UNCHANGED <<Sync!serverVars, rows, cursor, org, send>>
      /\ poll' = [poll EXCEPT ![p].pc = "fetch", ![p].since = Sync!folderCursor(Sync!Folder(p))]
    BY DEF Sync!PollCursor
<1>2. /\ poll'[p].pc = "fetch" /\ poll'[p].since = Sync!folderCursor(Sync!Folder(p))
      /\ poll'[p].todo = poll[p].todo
    BY <1>1 DEF SyncInv, SyncTyped, PollsTyped, PollType
<1>3. \A q \in Pollers : q = p \/ (poll[q].pc = "idle" /\ poll'[q].pc = "idle")
    BY DEF PollAlone
<1>4. ASSUME NEW f \in Sync!Folders, NEW e \in server[f], Unreached(f, e.uid)
      PROVE  Unreached(f, e.uid)'
    <2>1. e.uid \in Nat \ {0} /\ epoch[f] = 1 /\ cursor[f].last \in Nat
        BY DEF SyncInv, SyncTyped, FoldersTyped, Numbered, SyncPlaced
    <2>2. Sync!Folder(p)' = Sync!Folder(p) /\ (Sync!Passed(f, e.uid)' <=> Sync!Passed(f, e.uid))
        BY <1>1, <1>2 DEF Sync!Folder, Sync!Passed, Sync!serverVars
    <2>3. e.uid > Sync!folderCursor(f)
        BY <1>4, <2>1 DEF Unreached, Sync!Passed, Sync!folderCursor
    <2> QED
        BY <1>2, <1>3, <1>4, <2>2, <2>3 DEF Unreached, Holding
<1>5. PollPlaced(p)'
    BY <1>2 DEF PollPlaced, Working, Holding
<1> QED
    BY <1>1, <1>2, <1>4, <1>5, PollTurn, PollOnlyThinks DEF Sync!serverVars

LEMMA FetchPlaces ==
    ASSUME SyncInv, SyncPlaced, NEW p \in Pollers, PollAlone(p), Sync!PollFetch(p)
    PROVE  SyncPlaced'
<1> PICK got : got = Sync!Fetched(Sync!Folder(p), poll[p].since)
    OBVIOUS
<1>1. /\ poll[p].pc = "fetch" /\ UNCHANGED <<Sync!serverVars, rows, cursor, org, send>>
      /\ poll' = [poll EXCEPT ![p].batch = got, ![p].pc = IF got = {} THEN "save" ELSE "converge"]
    BY DEF Sync!PollFetch
<1>2. /\ poll'[p].pc \in {"save", "converge"} /\ poll'[p].since = poll[p].since
      /\ poll'[p].todo = poll[p].todo /\ poll'[p].batch = got
    BY <1>1 DEF SyncInv, SyncTyped, PollsTyped, PollType
<1>3. \A q \in Pollers : q = p \/ (poll[q].pc = "idle" /\ poll'[q].pc = "idle")
    BY DEF PollAlone
<1>4. Sync!Folder(p)' = Sync!Folder(p) /\ got \subseteq server[Sync!Folder(p)]
    BY <1>2 DEF Sync!Folder, Sync!Fetched
<1>5. \A f \in Sync!Folders : \A e \in server[f] : Unreached(f, e.uid) => Unreached(f, e.uid)'
    BY <1>1, <1>2, <1>3, <1>4 DEF Unreached, Sync!Passed, Sync!serverVars, Holding
<1>6. PollPlaced(p)'
    BY <1>1, <1>2, <1>4 DEF PollPlaced, Sync!serverVars
<1> QED
    BY <1>1, <1>2, <1>5, <1>6, PollTurn, PollOnlyThinks DEF Sync!serverVars

LEMMA ConvergePlaces ==
    ASSUME SyncInv, SyncPlaced, NEW p \in Pollers, PollAlone(p), Sync!PollConverge(p)
    PROVE  SyncPlaced'
<1>1. /\ poll[p].pc = "converge" /\ poll' = [poll EXCEPT ![p].pc = "insert"]
      /\ rows' = {r \in rows : r.msg # Sync!Msg(p).msg \/ r.uid # Sync!NULL}
      /\ UNCHANGED <<Sync!serverVars, cursor, org, send>>
    BY DEF Sync!PollConverge
<1>2. /\ poll'[p].pc = "insert" /\ poll'[p].since = poll[p].since
      /\ poll'[p].todo = poll[p].todo /\ poll'[p].batch = poll[p].batch
    BY <1>1 DEF SyncInv, SyncTyped, PollsTyped, PollType
<1>3. \A q \in Pollers : q = p \/ (poll[q].pc = "idle" /\ poll'[q].pc = "idle")
    BY DEF PollAlone
<1>4. Sync!Folder(p)' = Sync!Folder(p) /\ Sync!Msg(p)' = Sync!Msg(p)
    BY <1>2 DEF Sync!Folder, Sync!Msg
<1>5. /\ Sync!PeopleRest /\ (\A r : Leaving(r) <=> PollLeaves(p, r))
      /\ \A r \in rows : r.uid = Sync!NULL => Awaited(r.msg)
    BY <1>1, PollTurn
<1>6. /\ Sync!Folder(p) \in Sync!Folders
      /\ \A d \in server[Sync!Folder(p)] : d.uid = Sync!Msg(p).uid => d = Sync!Msg(p)
    BY <1>1, AtItsMessage DEF Working
<1>7. ASSUME NEW r \in rows', r.uid = Sync!NULL PROVE Awaited(r.msg)'
    <2>1. r \in rows /\ r.msg # Sync!Msg(p).msg
        BY <1>1, <1>7
    <2>2. PICK f \in Sync!Folders : \E e \in server[f] : e.msg = r.msg /\ Waits(f, e)
        BY <1>5, <1>7, <2>1 DEF Awaited
    <2>3. PICK e \in server[f] : e.msg = r.msg /\ Waits(f, e)
        BY <2>2
    <2>4. Sync!Folder(p) = f => e.uid # Sync!Msg(p).uid
        BY <1>6, <2>1, <2>3
    <2>5. Unreached(f, e.uid)'
        BY <1>1, <1>2, <1>3, <1>4, <2>3, <2>4 DEF Waits, Unreached, Sync!Passed, Sync!serverVars
    <2>6. Waits(f, e)'
        BY <1>1, <2>3, <2>5 DEF Waits, At
    <2> QED
        BY <1>1, <2>3, <2>6 DEF Awaited, Sync!serverVars
<1>8. \A r \in rows' : ~PollLeaves(p, r)'
    BY <1>2 DEF PollLeaves
<1>9. \A r \in rows' : r.uid # Sync!NULL
          => r.epoch = 1 /\ Sync!Mail(r.uid, r.msg) \in server'[r.folder]
    BY <1>1, <1>5 DEF SyncPlaced, RowPlaced, PollLeaves, Sync!serverVars
<1>10. \A r, q \in rows' : r.uid # Sync!NULL /\ At(r, q.folder, q.uid) => r = q
    BY <1>1 DEF SyncPlaced
<1>11. PollPlaced(p)'
    BY <1>1, <1>2, <1>4 DEF SyncPlaced, PollPlaced, Sync!serverVars, Working
<1> QED
    BY <1>1, <1>5, <1>7, <1>8, <1>9, <1>10, <1>11, PollPlaces DEF Sync!serverVars

LEMMA InsertPlaces ==
    ASSUME SyncInv, SyncPlaced, NEW p \in Pollers, PollAlone(p), Sync!PollInsert(p)
    PROVE  SyncPlaced'
<1> PICK f : f = Sync!Folder(p)
    OBVIOUS
<1> PICK e : e = Sync!Msg(p)
    OBVIOUS
<1> DEFINE row == Sync!Row(f, e.uid, epoch[f], e.msg, p)
<1>1. poll[p].pc = "insert" /\ UNCHANGED <<Sync!serverVars, cursor, rule, org, send, Sync!bounds>>
    BY DEF Sync!PollInsert
<1>2. /\ f \in Sync!Folders /\ e \in server[f] /\ e.uid \in Nat \ {0} /\ epoch[f] = 1
      /\ \A d \in server[f] : d.uid = e.uid => d = e
    BY <1>1, AtItsMessage DEF Working, SyncPlaced
<1>3. /\ Sync!PeopleRest /\ (\A r : Leaving(r) <=> PollLeaves(p, r))
      /\ (\A q \in Pollers : q = p \/ (poll[q].pc = "idle" /\ poll'[q].pc = "idle"))
      /\ \A r \in rows : r.uid = Sync!NULL => Awaited(r.msg)
    BY <1>1, PollTurn
<1>4. \A b \in poll[p].batch : b \in server[f]
    BY <1>1 DEF SyncPlaced, PollPlaced, Working
<1>5. CASE rows' = rows /\ Sync!NextMessage(p)
    <2>1. /\ \A h \in Sync!Folders : \A d \in server[h] : Unreached(h, d.uid)
                 => Unreached(h, d.uid)'
          /\ poll'[p].batch = poll[p].batch \ {Sync!Msg(p)} /\ Sync!Folder(p)' = Sync!Folder(p)
          /\ poll'[p].pc \in {"save", "converge"}
        BY <1>1, <1>5, MessageBehind DEF Sync!serverVars
    <2>2. PollPlaced(p)'
        BY <1>1, <1>4, <2>1 DEF PollPlaced, Sync!serverVars
    <2> QED
        BY <1>1, <1>3, <1>5, <2>1, <2>2, PollOnlyThinks DEF Sync!serverVars
<1>6. CASE ~Sync!Stored(f, e.uid, epoch[f]) /\ rows' = rows \union {row}
               /\ poll' = [poll EXCEPT ![p].pc = "files"]
    <2>1. /\ row.folder = f /\ row.uid = e.uid /\ row.epoch = 1 /\ row.msg = e.msg
          /\ Sync!Mail(row.uid, row.msg) = e
        BY <1>2 DEF Sync!Row, Sync!Mail, SyncInv, SyncTyped, FoldersTyped, Numbered
    <2> HIDE DEF row
    <2>2. /\ poll'[p].pc = "files" /\ poll'[p].since = poll[p].since
          /\ poll'[p].todo = poll[p].todo /\ poll'[p].batch = poll[p].batch
        BY <1>6 DEF SyncInv, SyncTyped, PollsTyped, PollType
    <2>3. \A h \in Sync!Folders : \A u : Unreached(h, u) => Unreached(h, u)'
        BY <1>1, <2>2, StillUnreached DEF SyncPlaced, Sync!serverVars
    <2>4. \A h \in Sync!Folders : \A d \in server[h] : Unreached(h, d.uid) => ~At(row, h, d.uid)
        BY <1>1, <2>1 DEF Unreached, At
    <2>5. WaitsOn
        BY <1>1, <1>6, <2>3, <2>4 DEF WaitsOn, Waits, At, Sync!serverVars
    <2>6. \A r \in rows' : ~PollLeaves(p, r)'
        BY <2>2 DEF PollLeaves
    <2>7. \A r \in rows' : r.uid = Sync!NULL => Awaited(r.msg)'
        BY <1>2, <1>3, <1>6, <2>1, <2>5, AwaitedOn DEF Sync!NULL
    <2>8. \A r \in rows : r.uid # Sync!NULL
              => r.epoch = 1 /\ Sync!Mail(r.uid, r.msg) \in server[r.folder]
        BY <1>1, <1>3 DEF SyncPlaced, RowPlaced, PollLeaves
    <2>9. \A r \in rows' : r.uid # Sync!NULL
              => r.epoch = 1 /\ Sync!Mail(r.uid, r.msg) \in server'[r.folder]
        BY <1>1, <1>2, <1>6, <2>1, <2>8 DEF Sync!serverVars
    <2>10. \A r \in rows : ~At(r, f, e.uid)
        BY <1>2, <1>6, <2>8 DEF Sync!Stored, At, Sync!NULL
    <2>11. \A r, q \in rows' : r.uid # Sync!NULL /\ At(r, q.folder, q.uid) => r = q
        BY <1>6, <2>1, <2>10 DEF SyncPlaced, At
    <2>12. Sync!Folder(p)' = f
        BY <2>2 DEF Sync!Folder
    <2>13. PollPlaced(p)'
        BY <1>1, <1>4, <2>2, <2>12 DEF PollPlaced, Sync!serverVars
    <2> QED
        BY <1>1, <1>3, <2>6, <2>7, <2>9, <2>11, <2>13, PollPlaces DEF Sync!serverVars
<1> QED
    BY <1>5, <1>6 DEF Sync!PollInsert

\* Rows that are changed where they are.
LEMMA RowsInPlace ==
    ASSUME SyncInv, SyncPlaced, NEW p \in Pollers, PollAlone(p), Sync!PeopleRest,
           poll[p].pc # "moveRow", poll'[p].pc # "moveRow",
           UNCHANGED <<server, epoch, org, send>>,
           NEW F, rows' = {F[r] : r \in rows},
           \A r \in rows : /\ F[r].folder = r.folder /\ F[r].uid = r.uid
                           /\ F[r].epoch = r.epoch /\ F[r].msg = r.msg,
           \A f \in Sync!Folders : \A e \in server[f] : Unreached(f, e.uid) => Unreached(f, e.uid)',
           PollPlaced(p)'
    PROVE  SyncPlaced'
<1>1. WaitsOn
    BY DEF WaitsOn, Waits, At
<1>2. \A r : ~Leaving(r)
    BY NoneLeaves DEF PollAlone, Sync!PeopleRest, Sync!RequestsRest
<1>3. \A r \in rows : r.uid = Sync!NULL => Awaited(r.msg)
    BY DEF SyncPlaced, RowPlaced, Sync!PeopleRest, Sync!RequestsRest
<1>4. \A r : ~PollLeaves(p, r)'
    BY DEF PollLeaves
<1>5. \A r \in rows' : r.uid = Sync!NULL => Awaited(r.msg)'
    BY <1>1, <1>3, AwaitedOn
<1>6. \A r \in rows' : r.uid # Sync!NULL
          => r.epoch = 1 /\ Sync!Mail(r.uid, r.msg) \in server'[r.folder]
    BY <1>2 DEF SyncPlaced, RowPlaced
<1>7. \A r, q \in rows' : r.uid # Sync!NULL /\ At(r, q.folder, q.uid) => r = q
    BY RowsApart
<1> QED
    BY <1>4, <1>5, <1>6, <1>7, PollPlaces

LEMMA FilesPlaces ==
    ASSUME SyncInv, SyncPlaced, NEW p \in Pollers, PollAlone(p), Sync!PollFiles(p)
    PROVE  SyncPlaced'
<1> DEFINE F == [r \in rows |-> IF r.owner = p THEN [r EXCEPT !.files = @ + 1] ELSE r]
<1>1. /\ poll[p].pc = "files" /\ UNCHANGED <<Sync!serverVars, cursor, rule, org, send, Sync!bounds>>
      /\ rows' = {F[r] : r \in rows}
      /\ poll' = [poll EXCEPT ![p].pc = IF Sync!Folder(p) = Sync!INBOX THEN "follow" ELSE "scan"]
    BY DEF Sync!PollFiles
<1>2. \A r \in rows : /\ F[r].folder = r.folder /\ F[r].uid = r.uid
                      /\ F[r].epoch = r.epoch /\ F[r].msg = r.msg
    BY DEF SyncInv, SyncTyped, RowsTyped, RowType
<1> HIDE DEF F
<1>3. /\ poll'[p].pc \in {"follow", "scan"} /\ poll'[p].since = poll[p].since
      /\ poll'[p].todo = poll[p].todo /\ poll'[p].batch = poll[p].batch
    BY <1>1 DEF SyncInv, SyncTyped, PollsTyped, PollType
<1>4. \A h \in Sync!Folders : \A u : Unreached(h, u) => Unreached(h, u)'
    BY <1>1, <1>3, StillUnreached DEF SyncPlaced, Sync!serverVars, Holding
<1>5. Sync!Folder(p)' = Sync!Folder(p) /\ Sync!PeopleRest
    BY <1>1, <1>3, PollTurn DEF Sync!Folder
<1>6. PollPlaced(p)'
    BY <1>1, <1>3, <1>5 DEF SyncPlaced, PollPlaced, Sync!serverVars, Working, Holding
<1> QED
    BY <1>1, <1>2, <1>3, <1>4, <1>5, <1>6, RowsInPlace DEF Sync!serverVars

LEMMA ScanPlaces ==
    ASSUME SyncInv, SyncPlaced, NEW p \in Pollers, PollAlone(p), Sync!PollScan(p)
    PROVE  SyncPlaced'
<1> DEFINE F == [r \in rows |-> IF r.owner = p THEN [r EXCEPT !.scanned = TRUE, !.owner = None]
               ELSE r]
<1>1. /\ poll[p].pc = "scan" /\ UNCHANGED <<Sync!serverVars, cursor, rule, org, send, Sync!bounds>>
      /\ rows' = {F[r] : r \in rows} /\ Sync!NextMessage(p)
    BY DEF Sync!PollScan
<1>2. \A r \in rows : /\ F[r].folder = r.folder /\ F[r].uid = r.uid
                      /\ F[r].epoch = r.epoch /\ F[r].msg = r.msg
    BY DEF SyncInv, SyncTyped, RowsTyped, RowType
<1> HIDE DEF F
<1>3. /\ \A h \in Sync!Folders : \A d \in server[h] : Unreached(h, d.uid) => Unreached(h, d.uid)'
      /\ poll'[p].batch = poll[p].batch \ {Sync!Msg(p)} /\ Sync!Folder(p)' = Sync!Folder(p)
      /\ poll'[p].pc \in {"save", "converge"}
    BY <1>1, MessageBehind DEF Sync!serverVars, Holding
<1>4. PollPlaced(p)'
    BY <1>1, <1>3 DEF SyncPlaced, PollPlaced, Sync!serverVars, Working, Holding
<1>5. Sync!PeopleRest
    BY <1>1, PollTurn
<1> QED
    BY <1>1, <1>2, <1>3, <1>4, <1>5, RowsInPlace DEF Sync!serverVars

LEMMA FollowPlaces ==
    ASSUME SyncInv, SyncPlaced, NEW p \in Pollers, PollAlone(p), Sync!PollFollow(p)
    PROVE  SyncPlaced'
<1>1. poll[p].pc = "follow"
          /\ UNCHANGED <<Sync!serverVars, rows, cursor, rule, org, send, Sync!bounds>>
    BY DEF Sync!PollFollow
<1>2. PICK goal : poll' = [poll EXCEPT ![p].target = goal, ![p].pc = IF goal = None THEN "scan"
               ELSE "move"]
    BY DEF Sync!PollFollow
<1>3. /\ poll'[p].pc \in {"scan", "move"} /\ poll'[p].since = poll[p].since
      /\ poll'[p].todo = poll[p].todo /\ poll'[p].batch = poll[p].batch
    BY <1>2 DEF SyncInv, SyncTyped, PollsTyped, PollType
<1>4. \A h \in Sync!Folders : \A u : Unreached(h, u) => Unreached(h, u)'
    BY <1>1, <1>3, StillUnreached DEF SyncPlaced, Sync!serverVars, Holding
<1>5. Sync!Folder(p)' = Sync!Folder(p) /\ Sync!PeopleRest
    BY <1>1, <1>3, PollTurn DEF Sync!Folder
<1>6. PollPlaced(p)'
    BY <1>1, <1>3, <1>5 DEF SyncPlaced, PollPlaced, Sync!serverVars, Working, Holding
<1>7. \A h \in Sync!Folders : \A d \in server[h] : Unreached(h, d.uid) => Unreached(h, d.uid)'
    BY <1>4
<1> QED
    BY <1>1, <1>3, <1>5, <1>6, <1>7, PollOnlyThinks DEF Sync!serverVars

\* A poll at a message of the inbox has its row.
LEMMA RowOfMessage ==
    ASSUME SyncInv, SyncPlaced, NEW p \in Pollers, poll[p].pc \in {"follow", "move"}
    PROVE  \E r \in rows : At(r, Sync!Folder(p), Sync!Msg(p).uid)
<1>1. Sync!Msg(p) \in server[Sync!Folder(p)] /\ Sync!Folder(p) \in Sync!Folders
          /\ epoch[Sync!Folder(p)] = 1
    BY AtItsMessage DEF Working, Holding, SyncPlaced
<1>2. Sync!Stored(Sync!Folder(p), Sync!Msg(p).uid, 1)
    BY <1>1 DEF SyncInv, SyncExact, PollExact, Holding
<1> QED
    BY <1>2 DEF Sync!Stored, At

LEMMA MovePlaces ==
    ASSUME SyncInv, SyncPlaced, NEW p \in Pollers, PollAlone(p), Sync!PollMove(p)
    PROVE  SyncPlaced'
<1> PICK e : e = Sync!Msg(p)
    OBVIOUS
<1> PICK g : g = poll[p].target
    OBVIOUS
<1>1. /\ poll[p].pc = "move" /\ Sync!ServerMove(Sync!INBOX, e.uid, g)
      /\ poll' = [poll EXCEPT ![p].pc = "moveRow"]
      /\ UNCHANGED <<epoch, arrived, rows, cursor, rule, org, send, Sync!bounds>>
    BY DEF Sync!PollMove
<1>2. /\ poll'[p].pc = "moveRow" /\ poll'[p].since = poll[p].since
      /\ poll'[p].todo = poll[p].todo /\ poll'[p].batch = poll[p].batch
    BY <1>1 DEF SyncInv, SyncTyped, PollsTyped, PollType
<1>3. /\ Sync!Folder(p)' = Sync!Folder(p) /\ Sync!Msg(p)' = e
    BY <1>2 DEF Sync!Folder, Sync!Msg
<1>4. /\ Sync!PeopleRest /\ (\A r : Leaving(r) <=> PollLeaves(p, r))
      /\ (\A q \in Pollers : q = p \/ (poll[q].pc = "idle" /\ poll'[q].pc = "idle"))
      /\ \A r \in rows : r.uid = Sync!NULL => Awaited(r.msg)
    BY <1>1, PollTurn
<1>5. Sync!Folder(p) = Sync!INBOX /\ g \in Sync!Folders /\ e.uid < uidNext[Sync!INBOX]
    BY <1>1, AtWork DEF PollTyped, Following, Working, Holding, SyncPlaced
<1>6. /\ Sync!INBOX \in Sync!Folders /\ e \in server[Sync!INBOX] /\ e.uid \in Nat \ {0}
      /\ \A d \in server[Sync!INBOX] : d.uid = e.uid => d = e
    BY <1>1, <1>5, AtItsMessage DEF Working, Holding
<1>7. PICK r0 \in rows : At(r0, Sync!INBOX, e.uid)
    BY <1>1, <1>5, RowOfMessage
<1>8. \A h \in Sync!Folders : \A u : Unreached(h, u) => Unreached(h, u)'
    BY <1>1, <1>2, StillUnreached DEF SyncPlaced, Holding
<1>9. Unreached(g, uidNext[g])
    <2>1. uidNext[g] \in Nat \ {0} /\ cursor[g].last < uidNext[g] /\ cursor[g].last \in Nat
              /\ epoch[g] = 1
        BY <1>5 DEF SyncInv, SyncTyped, SyncExact, FoldersTyped, NumbersHold, SyncPlaced
    <2>2. poll[p].since < uidNext[Sync!INBOX] /\ poll[p].since \in Nat
        BY <1>1, <1>5, <1>6 DEF SyncInv, SyncTyped, SyncExact, PollsTyped, PollType, PollExact,
                                SyncPlaced
    <2> QED
        BY <1>4, <1>5, <1>6, <2>1, <2>2 DEF Unreached, Sync!Passed
<1>10. WaitsOn /\ Awaited(e.msg)'
    BY <1>1, <1>5, <1>6, <1>7, <1>8, <1>9, MoveWaits DEF SyncPlaced
<1>11. \A h \in Sync!Folders : \A d \in server[h] : d \in server'[h] \/ (h = Sync!INBOX /\ d = e)
    BY <1>1, <1>5, <1>6, MovesIt DEF SyncInv, SyncTyped
<1>12. \A r \in rows : r.uid # Sync!NULL
           => r.epoch = 1 /\ Sync!Mail(r.uid, r.msg) \in server[r.folder]
               /\ r.folder \in Sync!Folders
    BY <1>1, <1>4 DEF SyncPlaced, RowPlaced, PollLeaves, SyncInv, SyncTyped, RowsTyped
<1>13. ASSUME NEW r \in rows, At(r, Sync!INBOX, e.uid) PROVE r.msg = e.msg
    <2>1. r.uid = e.uid /\ Sync!Mail(r.uid, r.msg) \in server[Sync!INBOX]
        BY <1>6, <1>12, <1>13 DEF At, Sync!NULL
    <2>2. Sync!Mail(r.uid, r.msg).uid = r.uid /\ Sync!Mail(r.uid, r.msg).msg = r.msg
        BY DEF Sync!Mail
    <2> QED
        BY <1>6, <2>1, <2>2
<1>14. \A r \in rows' : PollLeaves(p, r)' <=> At(r, Sync!INBOX, e.uid)
    BY <1>2, <1>3 DEF PollLeaves, At
<1>15. \A r \in rows' : r.uid = Sync!NULL \/ PollLeaves(p, r)' => Awaited(r.msg)'
    BY <1>1, <1>4, <1>10, <1>13, <1>14, AwaitedOn
<1>16. \A r \in rows' : r.uid # Sync!NULL =>
            r.epoch = 1 /\ (Sync!Mail(r.uid, r.msg) \in server'[r.folder] \/ PollLeaves(p, r)')
    BY <1>1, <1>11, <1>12, <1>14 DEF At, Sync!Mail
<1>17. \A r, q \in rows' : r.uid # Sync!NULL /\ At(r, q.folder, q.uid) => r = q
    BY <1>1 DEF SyncPlaced
<1>18. PollPlaced(p)'
    BY <1>1, <1>2, <1>3, <1>5, <1>6, <1>11 DEF SyncPlaced, PollPlaced, Working, Holding
<1> QED
    BY <1>1, <1>4, <1>15, <1>16, <1>17, <1>18, PollPlaces

LEMMA MoveRowPlaces ==
    ASSUME SyncInv, SyncPlaced, NEW p \in Pollers, PollAlone(p), Sync!PollMoveRow(p)
    PROVE  SyncPlaced'
<1> PICK e : e = Sync!Msg(p)
    OBVIOUS
<1>1. /\ poll[p].pc = "moveRow" /\ Sync!MovedRow(Sync!INBOX, e.uid, poll[p].target)
      /\ poll' = [poll EXCEPT ![p].pc = "moveCursor"]
      /\ UNCHANGED <<Sync!serverVars, cursor, rule, org, send, Sync!bounds>>
    BY DEF Sync!PollMoveRow
<1>2. /\ poll'[p].pc = "moveCursor" /\ poll'[p].since = poll[p].since
      /\ poll'[p].todo = poll[p].todo /\ poll'[p].batch = poll[p].batch
    BY <1>1 DEF SyncInv, SyncTyped, PollsTyped, PollType
<1>3. Sync!Folder(p)' = Sync!Folder(p) /\ Sync!Msg(p)' = e
    BY <1>2 DEF Sync!Folder, Sync!Msg
<1>4. /\ Sync!PeopleRest /\ (\A r : Leaving(r) <=> PollLeaves(p, r))
      /\ (\A q \in Pollers : q = p \/ (poll[q].pc = "idle" /\ poll'[q].pc = "idle"))
      /\ \A r \in rows : r.uid = Sync!NULL => Awaited(r.msg)
    BY <1>1, PollTurn
<1>5. e.uid \in Nat \ {0}
    BY <1>1, AtWork DEF Working, Holding
<1>6. /\ \A r, q \in rows' : r.uid # Sync!NULL /\ At(r, q.folder, q.uid) => r = q
      /\ \A r \in rows' : \/ r \in rows /\ ~At(r, Sync!INBOX, e.uid)
                          \/ r.uid = Sync!NULL /\ \E q \in rows : At(q, Sync!INBOX, e.uid)
                                 /\ r.msg = q.msg
    BY <1>1, <1>5, MovedRowApart DEF SyncInv, SyncTyped, Sync!NULL
<1>7. \A h \in Sync!Folders : \A u : Unreached(h, u) => Unreached(h, u)'
    BY <1>1, <1>2, StillUnreached DEF SyncPlaced, Holding, Sync!serverVars
<1>8. \A h \in Sync!Folders : \A d \in server[h] : d.uid \in Nat \ {0}
    BY DEF SyncInv, SyncTyped, FoldersTyped, Numbered
<1>9. WaitsOn
    BY <1>1, <1>6, <1>7, <1>8 DEF WaitsOn, Waits, At, Sync!serverVars, Sync!NULL
<1>10. \A r \in rows : At(r, Sync!INBOX, e.uid) <=> PollLeaves(p, r)
    BY <1>1 DEF PollLeaves
<1>11. \A r \in rows : PollLeaves(p, r) => Awaited(r.msg)
    BY DEF SyncPlaced, RowPlaced
<1>12. \A r : ~PollLeaves(p, r)'
    BY <1>2 DEF PollLeaves
<1>13. \A r \in rows' : r.uid = Sync!NULL => Awaited(r.msg)'
    BY <1>4, <1>6, <1>9, <1>10, <1>11, AwaitedOn
<1>14. \A r \in rows' : r.uid # Sync!NULL
           => r.epoch = 1 /\ Sync!Mail(r.uid, r.msg) \in server'[r.folder]
    BY <1>1, <1>4, <1>6, <1>10 DEF SyncPlaced, RowPlaced, Sync!serverVars
<1>15. PollPlaced(p)'
    BY <1>1, <1>2, <1>3 DEF SyncPlaced, PollPlaced, Working, Holding, Sync!serverVars
<1> QED
    BY <1>1, <1>4, <1>6, <1>12, <1>13, <1>14, <1>15, PollPlaces DEF Sync!serverVars

LEMMA MoveCursorPlaces ==
    ASSUME SyncInv, SyncPlaced, NEW p \in Pollers, PollAlone(p), Sync!PollMoveCursor(p)
    PROVE  SyncPlaced'
<1>1. /\ poll[p].pc = "moveCursor" /\ Sync!ForgetCursor(poll[p].target)
      /\ poll' = [poll EXCEPT ![p].pc = "scan"]
      /\ UNCHANGED <<Sync!serverVars, rows, rule, org, send, Sync!bounds>>
    BY DEF Sync!PollMoveCursor
<1>2. /\ poll'[p].pc = "scan" /\ poll'[p].since = poll[p].since
      /\ poll'[p].todo = poll[p].todo /\ poll'[p].batch = poll[p].batch
    BY <1>1 DEF SyncInv, SyncTyped, PollsTyped, PollType
<1>3. Sync!Folder(p)' = Sync!Folder(p) /\ Sync!Msg(p)' = Sync!Msg(p) /\ Sync!PeopleRest
    BY <1>1, <1>2, PollTurn DEF Sync!Folder, Sync!Msg
<1>4. \A g \in Sync!Folders : cursor'[g] = cursor[g] \/ cursor'[g] = Sync!NoCursor
    BY <1>1 DEF Sync!ForgetCursor, SyncInv, SyncTyped, FoldersTyped
<1>5. \A h \in Sync!Folders : \A u : Unreached(h, u) => Unreached(h, u)'
    BY <1>1, <1>2, <1>4, StillUnreached DEF SyncPlaced, Holding, Sync!serverVars
<1>6. PollPlaced(p)'
    BY <1>1, <1>2, <1>3 DEF SyncPlaced, PollPlaced, Working, Holding, Sync!serverVars
<1>7. \A h \in Sync!Folders : \A d \in server[h] : Unreached(h, d.uid) => Unreached(h, d.uid)'
    BY <1>5
<1> QED
    BY <1>1, <1>2, <1>3, <1>6, <1>7, PollOnlyThinks DEF Sync!serverVars

LEMMA SavePlaces ==
    ASSUME SyncInv, SyncPlaced, NEW p \in Pollers, PollAlone(p), Sync!PollSave(p)
    PROVE  SyncPlaced'
<1> PICK f : f = Sync!Folder(p)
    OBVIOUS
<1>1. /\ poll[p].pc = "save" /\ Sync!saveCursor(f, epoch[f], poll[p].since) /\ Sync!NextFolder(p)
      /\ UNCHANGED <<Sync!serverVars, rows, rule, org, send, Sync!bounds>>
    BY DEF Sync!PollSave
<1>2. poll'[p].pc \in {"idle", "cursor"}
    BY <1>1, FolderNext DEF SyncInv, SyncTyped
<1>3. /\ f \in Sync!Folders /\ poll[p].since \in Nat /\ Sync!PeopleRest
      /\ \A q \in Pollers : q = p \/ (poll[q].pc = "idle" /\ poll'[q].pc = "idle")
    BY <1>1, FolderOf, PollTurn DEF SyncInv, SyncTyped, PollsTyped, PollType
<1>4. ASSUME NEW h \in Sync!Folders, NEW e \in server[h], Unreached(h, e.uid)
      PROVE  Unreached(h, e.uid)'
    <2>1. /\ cursor[h].last \in Nat /\ cursor[h].epoch \in Nat /\ cursor[h].epoch <= 1
                 /\ epoch[h] = 1
          /\ (cursor[h].epoch = 0 => cursor[h].last = 0) /\ e.uid \in Nat \ {0}
        BY DEF SyncInv, SyncTyped, SyncExact, FoldersTyped, NumbersHold, SyncPlaced, Numbered
    <2>2. CASE h # f
        <3>1. cursor'[h] = cursor[h]
            BY <1>1, <1>3, <2>2 DEF Sync!saveCursor, SyncInv, SyncTyped, FoldersTyped
        <3> QED
            BY <1>1, <1>2, <1>3, <1>4, <3>1 DEF Unreached, Sync!Passed, Sync!serverVars, Holding
    <2>3. CASE h = f
        <3>1. cursor'[f].last = IF cursor[f].last > poll[p].since THEN cursor[f].last
                  ELSE poll[p].since
            BY <1>1, <1>3 DEF Sync!saveCursor, SyncInv, SyncTyped, FoldersTyped
        <3>2. e.uid > poll[p].since /\ e.uid > cursor[f].last
            BY <1>1, <1>4, <2>1, <2>3 DEF Unreached, Sync!Passed
        <3>3. ~Sync!Passed(h, e.uid)'
            BY <1>3, <2>1, <2>3, <3>1, <3>2 DEF Sync!Passed
        <3> QED
            BY <1>2, <1>3, <3>3 DEF Unreached
    <2> QED
        BY <2>2, <2>3
<1>5. PollPlaced(p)'
    BY <1>2 DEF PollPlaced, Working, Holding
<1> QED
    BY <1>1, <1>2, <1>3, <1>4, <1>5, PollOnlyThinks DEF Sync!serverVars

-----------------------------------------------------------------------------
(* Requests, where the rows are *)

\* What has a row has not come to be awaited there; requests stop nothing else.
LEMMA UnreachedStill ==
    ASSUME UNCHANGED <<poll, epoch>>, \A f \in Sync!Folders : epoch[f] = 1,
           \A f \in Sync!Folders : cursor'[f] = cursor[f] \/ cursor'[f] = Sync!NoCursor
    PROVE  \A f \in Sync!Folders : \A u : Unreached(f, u) => Unreached(f, u)'
<1>1. \A f \in Sync!Folders : \A u : Sync!Passed(f, u)' => Sync!Passed(f, u)
    BY DEF Sync!Passed, Sync!NoCursor
<1>2. \A q \in Pollers : Sync!Folder(q)' = Sync!Folder(q) /\ Sync!Msg(q)' = Sync!Msg(q)
    BY DEF Sync!Folder, Sync!Msg
<1> QED
    BY <1>1, <1>2 DEF Unreached

\* A request that leaves the server and the rows as they are.
LEMMA OrgOnlyThinks ==
    ASSUME SyncPlaced, NEW o \in Operators, OrgAlone(o), Sync!PollsRest, UNCHANGED <<server, rows,
           epoch, poll, send>>,
           org[o].pc \notin {"moveRow", "destroyRow"}, org'[o].pc \notin {"moveRow", "destroyRow"},
           \A f \in Sync!Folders : cursor'[f] = cursor[f] \/ cursor'[f] = Sync!NoCursor,
           OrgPlaced(o)'
    PROVE  SyncPlaced'
<1>1. WaitsOn
    BY UnreachedStill DEF WaitsOn, Waits, At, SyncPlaced
<1>2. \A r : ~Leaving(r)
    BY NoneLeaves DEF OrgAlone, Sync!PollsRest
<1>3. \A r : ~OrgLeaves(o, r)'
    BY DEF OrgLeaves
<1>4. \A r \in rows' : r.uid = Sync!NULL
          => Awaited(r.msg)' \/ (r.msg \in Outgoing /\ send[r.msg] = "append")
    BY <1>1, AwaitedOn DEF SyncPlaced, RowPlaced
<1>5. \A r \in rows' : r.uid # Sync!NULL
          => r.epoch = 1 /\ Sync!Mail(r.uid, r.msg) \in server'[r.folder]
    BY <1>2 DEF SyncPlaced, RowPlaced
<1>6. \A r, q \in rows' : r.uid # Sync!NULL /\ At(r, q.folder, q.uid) => r = q
    BY DEF SyncPlaced
<1> QED
    BY <1>3, <1>4, <1>5, <1>6, OrgPlaces

LEMMA OrganizePlaces ==
    ASSUME Sync!SyncConstants, SyncInv, SyncPlaced, NEW o \in Operators, OrgAlone(o),
           Sync!Organize(o), ~overlapped'
    PROVE  SyncPlaced'
<1>1. org[o].pc = "idle" /\ Sync!PollsRest
          /\ UNCHANGED <<Sync!serverVars, rows, cursor, rule, poll, send>>
    BY DEF Sync!Organize, Sync!Begins
<1>2. PICK chosen \in SUBSET {[folder |-> r.folder, uid |-> r.uid] :
               r \in {q \in rows : q.uid # Sync!NULL}},
           goal \in Sync!Folders \union {None} :
        org' = [org EXCEPT ![o] = [Sync!IdleOrg EXCEPT !.pc = "next", !.todo = chosen,
            !.target = goal]]
    BY DEF Sync!Organize
<1>3. org'[o].pc = "next" /\ org'[o].todo = chosen
    BY <1>2 DEF SyncInv, SyncTyped, PeopleTyped, Sync!IdleOrg
<1>4. \A c \in chosen : \E r \in rows : r.uid # Sync!NULL
          /\ c = [folder |-> r.folder, uid |-> r.uid]
    OBVIOUS
<1>5. \A c \in chosen : c.uid # Sync!NULL /\ \E r \in rows : At(r, c.folder, c.uid)
    BY <1>4 DEF At
<1>6. OrgPlaced(o)'
    BY <1>1, <1>3, <1>5 DEF OrgPlaced, At
<1> QED
    BY <1>1, <1>3, <1>6, OrgOnlyThinks DEF Sync!serverVars

LEMMA NextPlaces ==
    ASSUME Sync!SyncConstants, SyncInv, SyncPlaced, NEW o \in Operators, OrgAlone(o),
           Sync!OrgNext(o)
    PROVE  SyncPlaced'
<1>1. org[o].pc = "next" /\ UNCHANGED <<Sync!serverVars, rows, cursor, rule, poll, send>>
    BY DEF Sync!OrgNext
<1>2. Sync!PollsRest /\ org \in [Operators -> OrgType] /\ OrgPlaced(o)
    BY <1>1, OrgTurn DEF SyncInv, SyncTyped, PeopleTyped, SyncPlaced
<1>3. CASE org' = [org EXCEPT ![o] = Sync!IdleOrg]
    <2>1. org'[o].pc = "idle"
        BY <1>2, <1>3 DEF Sync!IdleOrg
    <2>2. OrgPlaced(o)'
        BY <2>1 DEF OrgPlaced
    <2> QED
        BY <1>1, <1>2, <2>1, <2>2, OrgOnlyThinks DEF Sync!serverVars
<1>4. ASSUME NEW c \in org[o].todo, NEW pc \in {"next", "move", "destroy"},
             org' = [org EXCEPT ![o].todo = @ \ {c}, ![o].item = c, ![o].pc = pc]
      PROVE  SyncPlaced'
    <2>1. org'[o].pc = pc /\ org'[o].item = c /\ org'[o].todo = org[o].todo \ {c}
        BY <1>2, <1>4 DEF OrgType
    <2>2. /\ \A d \in org[o].todo : d.uid # Sync!NULL /\ \E r \in rows : At(r, d.folder, d.uid)
        BY <1>1, <1>2 DEF OrgPlaced
    <2>3. OrgPlaced(o)'
        BY <1>1, <1>4, <2>1, <2>2 DEF OrgPlaced, At
    <2> QED
        BY <1>1, <1>2, <2>1, <2>3, OrgOnlyThinks DEF Sync!serverVars
<1>5. \A c : Sync!deleteMessage(c) \in {"next", "move"}
    BY DEF Sync!deleteMessage
<1>6. SUFFICES ASSUME NEW c \in org[o].todo,
                      org' = [org EXCEPT ![o].todo = @ \ {c}, ![o].item = c,
                                         ![o].pc = CASE org[o].target = None -> "destroy"
                                                     [] org[o].target = Sync!Trash -> Sync!deleteMessage(c)
                                                     [] OTHER -> "move"]
               PROVE  SyncPlaced'
    BY <1>3 DEF Sync!OrgNext
<1>7. None # Sync!Trash
    BY DEF Sync!SyncConstants
<1>8. (CASE org[o].target = None -> "destroy"
         [] org[o].target = Sync!Trash -> Sync!deleteMessage(c)
         [] OTHER -> "move") \in {"next", "move", "destroy"}
    <2>1. CASE org[o].target = None
        BY <1>7, <2>1
    <2>2. CASE org[o].target = Sync!Trash
        BY <1>5, <1>7, <2>2
    <2>3. CASE org[o].target \notin {None, Sync!Trash}
        BY <2>3
    <2> QED
        BY <2>1, <2>2, <2>3
<1> QED
    BY <1>4, <1>6, <1>8

LEMMA OrgPc ==
    ASSUME SyncInv, SyncPlaced, NEW o \in Operators, OrgAlone(o), NEW from, NEW to,
           Sync!OrgTo(o, from, to), from # "idle"
    PROVE  /\ org[o].pc = from /\ org'[o].pc = to /\ org'[o].item = org[o].item
                  /\ org'[o].todo = org[o].todo
           /\ org[o].item \in Spots /\ org[o].todo \subseteq Spots
           /\ Sync!PollsRest /\ OrgTyped(o) /\ OrgPlaced(o)
                  /\ org[o].target \in Sync!Folders \union {None}
           /\ \A r : Leaving(r) <=> OrgLeaves(o, r) \/ OrgDestroys(o, r)
<1>1. org[o].pc = from /\ org \in [Operators -> OrgType] /\ org' = [org EXCEPT ![o].pc = to]
    BY DEF Sync!OrgTo, SyncInv, SyncTyped, PeopleTyped
<1>2. org[o] \in OrgType /\ OrgTyped(o) /\ OrgPlaced(o)
    BY <1>1 DEF SyncInv, SyncTyped, PeopleTyped, SyncPlaced
<1>3. org'[o].pc = to /\ org'[o].item = org[o].item /\ org'[o].todo = org[o].todo
    BY <1>1, <1>2 DEF OrgType
<1>4. /\ org[o].item \in Spots /\ org[o].todo \subseteq Spots
             /\ org[o].target \in Sync!Folders \union {None}
    BY <1>2 DEF OrgType
<1> QED
    BY <1>1, <1>2, <1>3, <1>4, OrgTurn

LEMMA OrgMovePlaces ==
    ASSUME SyncInv, SyncPlaced, NEW o \in Operators, OrgAlone(o), Sync!OrgMove(o)
    PROVE  SyncPlaced'
<1> PICK c : c = org[o].item
    OBVIOUS
<1> PICK g : g = org[o].target
    OBVIOUS
<1>1. /\ Sync!OrgTo(o, "move", "moveRow") /\ Sync!ServerMove(c.folder, c.uid, g)
      /\ UNCHANGED <<epoch, rows, cursor, poll, send>>
    BY DEF Sync!OrgMove, Sync!OrgTo
<1>2. /\ org[o].pc = "move" /\ org'[o].pc = "moveRow" /\ org'[o].item = c
             /\ org'[o].todo = org[o].todo
      /\ c \in Spots /\ Sync!PollsRest /\ g \in Sync!Folders
      /\ c.uid # Sync!NULL /\ c \notin org[o].todo
      /\ \A r : Leaving(r) <=> OrgLeaves(o, r) \/ OrgDestroys(o, r)
      /\ \A d \in org[o].todo : d.uid # Sync!NULL /\ \E r \in rows : At(r, d.folder, d.uid)
    BY <1>1, OrgPc DEF OrgTyped, OrgPlaced
<1>3. PICK r0 \in rows : At(r0, c.folder, c.uid)
    BY <1>1, OrgPc DEF OrgPlaced
<1>4. \A r \in rows : r.uid # Sync!NULL
          => r.epoch = 1 /\ Sync!Mail(r.uid, r.msg) \in server[r.folder]
              /\ r.folder \in Sync!Folders
    BY <1>2 DEF SyncPlaced, RowPlaced, OrgLeaves, OrgDestroys, SyncInv, SyncTyped, RowsTyped
<1> PICK e : e = Sync!Mail(r0.uid, r0.msg)
    OBVIOUS
<1>5. e \in server[c.folder] /\ c.folder \in Sync!Folders /\ e.uid = c.uid /\ e.msg = r0.msg
    BY <1>2, <1>3, <1>4 DEF At, Sync!Mail
<1>6. \A d \in server[c.folder] : d.uid = e.uid => d = e
    BY <1>5 DEF SyncInv, SyncExact, NumbersHold, SyncPlaced
<1>7. \A h \in Sync!Folders : \A u : Unreached(h, u) => Unreached(h, u)'
    BY <1>1, UnreachedStill DEF SyncPlaced
<1>8. Unreached(g, uidNext[g])
    <2>1. uidNext[g] \in Nat \ {0} /\ cursor[g].last < uidNext[g] /\ cursor[g].last \in Nat
              /\ epoch[g] = 1
        BY <1>2 DEF SyncInv, SyncTyped, SyncExact, FoldersTyped, NumbersHold, SyncPlaced
    <2> QED
        BY <1>2, <2>1 DEF Unreached, Sync!Passed, Sync!PollsRest
<1>9. WaitsOn /\ Awaited(e.msg)'
    BY <1>1, <1>2, <1>3, <1>5, <1>6, <1>7, <1>8, MoveWaits DEF SyncPlaced
<1>10. \A h \in Sync!Folders : \A d \in server[h] : d \in server'[h] \/ (h = c.folder /\ d = e)
    BY <1>1, <1>2, <1>5, <1>6, MovesIt DEF SyncInv, SyncTyped
<1>11. ASSUME NEW r \in rows, At(r, c.folder, c.uid) PROVE r = r0
    BY <1>2, <1>3, <1>11 DEF SyncPlaced, At
<1>12. \A r \in rows' : OrgLeaves(o, r)' <=> At(r, c.folder, c.uid)
    BY <1>2 DEF OrgLeaves, At
<1>13. \A r \in rows' : r.uid = Sync!NULL
           => Awaited(r.msg)' \/ (r.msg \in Outgoing /\ send[r.msg] = "append")
    BY <1>1, <1>9, AwaitedOn DEF SyncPlaced, RowPlaced
<1>14. \A r \in rows' : OrgLeaves(o, r)' => Awaited(r.msg)'
    BY <1>1, <1>5, <1>9, <1>11, <1>12
<1>15. ASSUME NEW r \in rows', r.uid # Sync!NULL
       PROVE  r.epoch = 1 /\ (Sync!Mail(r.uid, r.msg) \in server'[r.folder] \/ OrgLeaves(o, r)')
    <2>1. r \in rows /\ r.epoch = 1 /\ Sync!Mail(r.uid, r.msg) \in server[r.folder]
              /\ r.folder \in Sync!Folders
        BY <1>1, <1>4, <1>15
    <2>2. Sync!Mail(r.uid, r.msg) = e => r.uid = e.uid
        BY DEF Sync!Mail
    <2> QED
        BY <1>5, <1>10, <1>12, <2>1, <2>2 DEF At
<1>16. \A r, q \in rows' : r.uid # Sync!NULL /\ At(r, q.folder, q.uid) => r = q
    BY <1>1 DEF SyncPlaced
<1>17. OrgPlaced(o)'
    BY <1>1, <1>2 DEF OrgPlaced, At
<1> QED
    BY <1>1, <1>2, <1>13, <1>14, <1>15, <1>16, <1>17, OrgPlaces

LEMMA OrgMoveRowPlaces ==
    ASSUME SyncInv, SyncPlaced, NEW o \in Operators, OrgAlone(o), Sync!OrgMoveRow(o)
    PROVE  SyncPlaced'
<1> PICK c : c = org[o].item
    OBVIOUS
<1>1. /\ Sync!OrgTo(o, "moveRow", "moveCursor") /\ Sync!MovedRow(c.folder, c.uid, org[o].target)
      /\ UNCHANGED <<server, epoch, cursor, poll, send>>
    BY DEF Sync!OrgMoveRow, Sync!OrgTo
<1>2. /\ org[o].pc = "moveRow" /\ org'[o].pc = "moveCursor" /\ org'[o].item = c
             /\ org'[o].todo = org[o].todo
      /\ c \in Spots /\ org[o].todo \subseteq Spots /\ Sync!PollsRest
      /\ c.uid # Sync!NULL /\ c \notin org[o].todo
      /\ \A r : Leaving(r) <=> OrgLeaves(o, r) \/ OrgDestroys(o, r)
      /\ \A d \in org[o].todo : d.uid # Sync!NULL /\ \E r \in rows : At(r, d.folder, d.uid)
    BY <1>1, OrgPc DEF OrgPlaced
<1>3. /\ \A r, q \in rows' : r.uid # Sync!NULL /\ At(r, q.folder, q.uid) => r = q
      /\ \A r \in rows' : \/ r \in rows /\ ~At(r, c.folder, c.uid)
                          \/ r.uid = Sync!NULL /\ \E q \in rows : At(q, c.folder, c.uid)
                                 /\ r.msg = q.msg
      /\ \A r \in rows : ~At(r, c.folder, c.uid) => r \in rows'
    BY <1>1, <1>2, MovedRowApart DEF SyncInv, SyncTyped
<1>4. \A h \in Sync!Folders : \A u : Unreached(h, u) => Unreached(h, u)'
    BY <1>1, UnreachedStill DEF SyncPlaced
<1>5. \A h \in Sync!Folders : \A d \in server[h] : d.uid \in Nat \ {0}
    BY DEF SyncInv, SyncTyped, FoldersTyped, Numbered
<1>6. WaitsOn
    BY <1>1, <1>3, <1>4, <1>5 DEF WaitsOn, Waits, At, Sync!NULL
<1>7. \A r \in rows : At(r, c.folder, c.uid) <=> OrgLeaves(o, r)
    BY <1>2 DEF OrgLeaves
<1>8. \A r \in rows : OrgLeaves(o, r) => Awaited(r.msg)
    BY DEF SyncPlaced, RowPlaced
<1>9. \A r : ~OrgLeaves(o, r)' /\ ~OrgDestroys(o, r)
    BY <1>2 DEF OrgLeaves, OrgDestroys
<1>10. \A r \in rows' : r.uid = Sync!NULL
           => Awaited(r.msg)' \/ (r.msg \in Outgoing /\ send[r.msg] = "append")
    <2>1. \A r \in rows : r.uid = Sync!NULL
              => Awaited(r.msg)' \/ (r.msg \in Outgoing /\ send[r.msg] = "append")
        BY <1>6, AwaitedOn DEF SyncPlaced, RowPlaced
    <2>2. \A q \in rows : At(q, c.folder, c.uid) => Awaited(q.msg)'
        BY <1>6, <1>7, <1>8, AwaitedOn
    <2> QED
        BY <1>3, <2>1, <2>2
<1>11. \A r \in rows' : r.uid # Sync!NULL
           => r.epoch = 1 /\ Sync!Mail(r.uid, r.msg) \in server'[r.folder]
    BY <1>1, <1>2, <1>3, <1>7, <1>9 DEF SyncPlaced, RowPlaced
<1>12. OrgPlaced(o)'
    <2>1. ASSUME NEW d \in org[o].todo PROVE \E r \in rows' : At(r, d.folder, d.uid)
        <3>1. PICK r \in rows : At(r, d.folder, d.uid)
            BY <1>2
        <3>2. ~At(r, c.folder, c.uid)
            BY <1>2, <3>1 DEF At, Spots
        <3> QED
            BY <1>3, <3>1, <3>2
    <2>2. \A d \in org[o].todo : \E r \in rows' : At(r, d.folder, d.uid)'
        BY <2>1 DEF At
    <2> QED
        BY <1>2, <2>2 DEF OrgPlaced
<1> QED
    BY <1>1, <1>2, <1>3, <1>9, <1>10, <1>11, <1>12, OrgPlaces

LEMMA OrgMoveCursorPlaces ==
    ASSUME SyncInv, SyncPlaced, NEW o \in Operators, OrgAlone(o), Sync!OrgMoveCursor(o)
    PROVE  SyncPlaced'
<1>1. /\ Sync!OrgTo(o, "moveCursor", "next") /\ Sync!ForgetCursor(org[o].target)
      /\ UNCHANGED <<server, epoch, rows, poll, send>>
    BY DEF Sync!OrgMoveCursor, Sync!OrgTo
<1>2. /\ org[o].pc = "moveCursor" /\ org'[o].pc = "next" /\ org'[o].item = org[o].item
      /\ org'[o].todo = org[o].todo /\ Sync!PollsRest /\ OrgPlaced(o)
    BY <1>1, OrgPc
<1>3. \A g \in Sync!Folders : cursor'[g] = cursor[g] \/ cursor'[g] = Sync!NoCursor
    BY <1>1 DEF Sync!ForgetCursor, SyncInv, SyncTyped, FoldersTyped
<1>4. OrgPlaced(o)'
    BY <1>1, <1>2 DEF OrgPlaced, At
<1> QED
    BY <1>1, <1>2, <1>3, <1>4, OrgOnlyThinks

LEMMA OrgDestroyPlaces ==
    ASSUME Sync!SyncConstants, SyncInv, SyncPlaced, NEW o \in Operators, OrgAlone(o),
           Sync!OrgDestroy(o)
    PROVE  SyncPlaced'
<1> PICK c : c = org[o].item
    OBVIOUS
<1>1. /\ Sync!OrgTo(o, "destroy", "destroyRow")
      /\ server' = [server EXCEPT ![Sync!Trash] = {e \in @ : e.uid # c.uid}]
      /\ UNCHANGED <<epoch, rows, cursor, poll, send>>
    BY DEF Sync!OrgDestroy, Sync!OrgTo
<1>2. /\ org[o].pc = "destroy" /\ org'[o].pc = "destroyRow" /\ org'[o].item = c
             /\ org'[o].todo = org[o].todo
      /\ c.folder = Sync!Trash /\ Sync!PollsRest /\ c.uid # Sync!NULL /\ c \notin org[o].todo
      /\ \A r : Leaving(r) <=> OrgLeaves(o, r) \/ OrgDestroys(o, r)
      /\ \A d \in org[o].todo : d.uid # Sync!NULL /\ \E r \in rows : At(r, d.folder, d.uid)
    BY <1>1, OrgPc DEF OrgTyped, OrgPlaced
<1>3. PICK r0 \in rows : At(r0, Sync!Trash, c.uid)
    BY <1>1, <1>2, OrgPc DEF OrgPlaced
<1>4. \A h \in Sync!Folders : \A d \in server[h] : d \in server'[h]
          \/ (h = Sync!Trash /\ d.uid = c.uid)
    BY <1>1 DEF SyncInv, SyncTyped, FoldersTyped
<1>5. \A h \in Sync!Folders : \A u : Unreached(h, u) => Unreached(h, u)'
    BY <1>1, UnreachedStill DEF SyncPlaced
<1>6. WaitsOn
    BY <1>1, <1>3, <1>4, <1>5 DEF WaitsOn, Waits, At
<1>7. \A r \in rows : r.uid # Sync!NULL
          => r.epoch = 1 /\ Sync!Mail(r.uid, r.msg) \in server[r.folder]
              /\ r.folder \in Sync!Folders
    BY <1>2 DEF SyncPlaced, RowPlaced, OrgLeaves, OrgDestroys, SyncInv, SyncTyped, RowsTyped
<1>8. \A r : ~OrgLeaves(o, r)' /\ (OrgDestroys(o, r)' <=> At(r, Sync!Trash, c.uid))
    BY <1>2 DEF OrgLeaves, OrgDestroys, At
<1>9. \A r \in rows' : r.uid = Sync!NULL
          => Awaited(r.msg)' \/ (r.msg \in Outgoing /\ send[r.msg] = "append")
    BY <1>1, <1>6, AwaitedOn DEF SyncPlaced, RowPlaced
<1>10. ASSUME NEW r \in rows', r.uid # Sync!NULL
       PROVE  r.epoch = 1 /\ (Sync!Mail(r.uid, r.msg) \in server'[r.folder] \/ OrgDestroys(o, r)')
    <2>1. r \in rows /\ r.epoch = 1 /\ Sync!Mail(r.uid, r.msg) \in server[r.folder]
              /\ r.folder \in Sync!Folders
        BY <1>1, <1>7, <1>10
    <2>2. Sync!Mail(r.uid, r.msg).uid = r.uid
        BY DEF Sync!Mail
    <2> QED
        BY <1>4, <1>8, <2>1, <2>2 DEF At
<1>11. \A r, q \in rows' : r.uid # Sync!NULL /\ At(r, q.folder, q.uid) => r = q
    BY <1>1 DEF SyncPlaced
<1>12. OrgPlaced(o)'
    BY <1>1, <1>2 DEF OrgPlaced, At
<1> QED
    BY <1>1, <1>2, <1>8, <1>9, <1>10, <1>11, <1>12, OrgPlaces

LEMMA OrgDestroyRowPlaces ==
    ASSUME SyncInv, SyncPlaced, NEW o \in Operators, OrgAlone(o), Sync!OrgDestroyRow(o)
    PROVE  SyncPlaced'
<1> PICK c : c = org[o].item
    OBVIOUS
<1>1. /\ Sync!OrgTo(o, "destroyRow", "next")
             /\ rows' = {r \in rows : r.folder # Sync!Trash \/ r.uid # c.uid}
      /\ UNCHANGED <<server, epoch, cursor, poll, send>>
    BY DEF Sync!OrgDestroyRow, Sync!OrgTo
<1>2. /\ org[o].pc = "destroyRow" /\ org'[o].pc = "next" /\ org'[o].item = c
             /\ org'[o].todo = org[o].todo
      /\ c.folder = Sync!Trash /\ c \in Spots /\ org[o].todo \subseteq Spots
      /\ Sync!PollsRest /\ c \notin org[o].todo
      /\ \A r : Leaving(r) <=> OrgLeaves(o, r) \/ OrgDestroys(o, r)
      /\ \A d \in org[o].todo : d.uid # Sync!NULL /\ \E r \in rows : At(r, d.folder, d.uid)
    BY <1>1, OrgPc DEF OrgTyped, OrgPlaced
<1>3. \A h \in Sync!Folders : \A u : Unreached(h, u) => Unreached(h, u)'
    BY <1>1, UnreachedStill DEF SyncPlaced
<1>4. WaitsOn
    BY <1>1, <1>3 DEF WaitsOn, Waits, At
<1>5. \A r : ~OrgLeaves(o, r) /\ ~OrgLeaves(o, r)'
          /\ (OrgDestroys(o, r) <=> At(r, Sync!Trash, c.uid))
    BY <1>2 DEF OrgLeaves, OrgDestroys
<1>6. \A r \in rows' : r.uid = Sync!NULL
          => Awaited(r.msg)' \/ (r.msg \in Outgoing /\ send[r.msg] = "append")
    BY <1>1, <1>4, AwaitedOn DEF SyncPlaced, RowPlaced
<1>7. \A r \in rows' : r.uid # Sync!NULL
          => r.epoch = 1 /\ Sync!Mail(r.uid, r.msg) \in server'[r.folder]
    BY <1>1, <1>2, <1>5 DEF SyncPlaced, RowPlaced, At
<1>8. \A r, q \in rows' : r.uid # Sync!NULL /\ At(r, q.folder, q.uid) => r = q
    BY <1>1 DEF SyncPlaced
<1>9. OrgPlaced(o)'
    <2>1. ASSUME NEW d \in org[o].todo PROVE \E r \in rows' : At(r, d.folder, d.uid)
        <3>1. PICK r \in rows : At(r, d.folder, d.uid)
            BY <1>2
        <3>2. r.folder # Sync!Trash \/ r.uid # c.uid
            BY <1>2, <3>1 DEF At, Spots
        <3> QED
            BY <1>1, <3>1, <3>2
    <2>2. \A d \in org[o].todo : \E r \in rows' : At(r, d.folder, d.uid)'
        BY <2>1 DEF At
    <2> QED
        BY <1>2, <2>2 DEF OrgPlaced
<1> QED
    BY <1>1, <1>2, <1>5, <1>6, <1>7, <1>8, <1>9, OrgPlaces

-----------------------------------------------------------------------------
(* Arrivals, rules and sending, where the rows are *)

LEMMA OthersPlace ==
    ASSUME SyncInv, SyncPlaced, UNCHANGED <<poll, org, epoch, cursor>>, Turns',
           \A f \in Sync!Folders : server[f] \subseteq server'[f],
           \A r \in rows' : r.uid # Sync!NULL => r \in rows,
           \A r \in rows : r.uid # Sync!NULL => r \in rows',
           \A r \in rows' : r.uid = Sync!NULL =>
                \/ \E q \in rows : q.uid = Sync!NULL /\ q.msg = r.msg
                \/ r.msg \in Outgoing /\ send'[r.msg] = "append",
           \A m \in Outgoing : send[m] = "append" => send'[m] = "append" \/ Awaited(m)'
    PROVE  SyncPlaced'
<1>1. \A f \in Sync!Folders : \A u : Unreached(f, u) => Unreached(f, u)'
    BY UnreachedStill DEF SyncPlaced
<1>2. \A f \in Sync!Folders : \A e \in server[f] : e.uid \in Nat \ {0}
    BY DEF SyncInv, SyncTyped, FoldersTyped, Numbered
<1>3. WaitsOn
    BY <1>1, <1>2 DEF WaitsOn, Waits, At, Sync!NULL
<1>4. \A r : (Leaving(r)' <=> Leaving(r))
             /\ (\A p \in Pollers : PollLeaves(p, r)' <=> PollLeaves(p, r))
             /\ (\A o \in Operators : OrgLeaves(o, r)' <=> OrgLeaves(o, r))
    BY DEF Leaving, PollLeaves, OrgLeaves, OrgDestroys, Sync!Msg, At
<1>5. \A r \in rows : r.folder \in Sync!Folders \union {Sync!Fallback}
          /\ (r.uid # Sync!NULL => r.folder \in Sync!Folders)
    BY DEF SyncInv, SyncTyped, RowsTyped, RowType
<1>6. ASSUME NEW r \in rows', r.uid # Sync!NULL PROVE RowPlaced(r)'
    <2>1. r \in rows /\ RowPlaced(r) /\ r.folder \in Sync!Folders
        BY <1>5, <1>6 DEF SyncPlaced
    <2>2. r.epoch = 1 /\ (Sync!Mail(r.uid, r.msg) \in server'[r.folder] \/ Leaving(r)')
        BY <1>4, <1>6, <2>1 DEF RowPlaced
    <2>3. (\E p \in Pollers : PollLeaves(p, r)') \/ (\E o \in Operators : OrgLeaves(o, r)')
              => Awaited(r.msg)'
        BY <1>3, <1>4, <2>1, AwaitedOn DEF RowPlaced
    <2> QED
        BY <1>6, <2>2, <2>3 DEF RowPlaced
<1>7. ASSUME NEW r \in rows', r.uid = Sync!NULL PROVE RowPlaced(r)'
    <2>1. Awaited(r.msg)' \/ (r.msg \in Outgoing /\ send'[r.msg] = "append")
        BY <1>3, <1>7, AwaitedOn DEF SyncPlaced, RowPlaced
    <2>2. \A p \in Pollers : ~PollLeaves(p, r)'
        <3>1. \A p \in Pollers : poll[p].pc = "moveRow" => Sync!Msg(p).uid # Sync!NULL
            BY AtWork DEF Working, Holding, Sync!NULL
        <3> QED
            BY <1>4, <1>7, <3>1 DEF PollLeaves, At
    <2>3. \A o \in Operators : ~OrgLeaves(o, r)'
        <3>1. \A o \in Operators : org[o].pc = "moveRow" => org[o].item.uid # Sync!NULL
            BY DEF SyncPlaced, OrgPlaced
        <3> QED
            BY <1>4, <1>7, <3>1 DEF OrgLeaves, At
    <2> QED
        BY <1>7, <2>1, <2>2, <2>3 DEF RowPlaced
<1>8. \A r, q \in rows' : r.uid # Sync!NULL /\ At(r, q.folder, q.uid)' => r = q
    BY DEF SyncPlaced, At
<1>9. ASSUME NEW p \in Pollers PROVE PollPlaced(p)'
    <2>1. Sync!Folder(p)' = Sync!Folder(p) /\ Sync!Msg(p)' = Sync!Msg(p) /\ PollPlaced(p)
        BY DEF Sync!Folder, Sync!Msg, SyncPlaced
    <2>2. poll[p].pc \in Working => Sync!Folder(p) \in Sync!Folders
        BY AtWork
    <2> QED
        BY <2>1, <2>2 DEF PollPlaced
<1>10. ASSUME NEW o \in Operators PROVE OrgPlaced(o)'
    <2>1. \A f, u : u # Sync!NULL /\ (\E r \in rows : At(r, f, u)) => \E r \in rows' : At(r, f, u)'
        BY DEF At
    <2>2. OrgPlaced(o)
        BY DEF SyncPlaced
    <2> QED
        BY <2>1, <2>2 DEF OrgPlaced
<1> QED
    BY <1>6, <1>7, <1>8, <1>9, <1>10 DEF SyncPlaced

\* A copy appended to a folder waits to be fetched.
LEMMA AppendWaits ==
    ASSUME SyncInv, SyncPlaced, NEW f \in Sync!Folders, NEW m \in Sync!Messages, Sync!Append1(f, m),
           UNCHANGED <<poll, epoch, cursor, rows>>
    PROVE  Awaited(m)' /\ \A g \in Sync!Folders : server[g] \subseteq server'[g]
<1> PICK n : n = Sync!Mail(uidNext[f], m)
    OBVIOUS
<1>1. n \in server'[f] /\ n.uid = uidNext[f] /\ n.msg = m
          /\ \A g \in Sync!Folders : server[g] \subseteq server'[g]
    BY DEF Sync!Append1, Sync!Mail, SyncInv, SyncTyped, FoldersTyped
<1>2. /\ uidNext[f] \in Nat \ {0} /\ cursor[f].last < uidNext[f] /\ cursor[f].last \in Nat
             /\ epoch[f] = 1
      /\ \A q \in rows : q.uid \in Nat /\ (q.folder = f /\ q.uid # Sync!NULL => q.uid < uidNext[f])
    BY DEF SyncInv, SyncTyped, SyncExact, FoldersTyped, RowsTyped, RowType, NumbersHold, SyncPlaced
<1>3. ASSUME NEW p \in Pollers, Sync!Folder(p) = f, poll[p].pc \notin {"idle", "cursor"}
      PROVE  /\ uidNext[f] > poll[p].since
             /\ poll[p].pc \in {"insert"} \union Holding => uidNext[f] # Sync!Msg(p).uid
    <2>1. poll[p].since < uidNext[f] /\ poll[p].since \in Nat
        BY <1>2, <1>3 DEF SyncInv, SyncTyped, SyncExact, PollsTyped, PollType, PollExact
    <2>2. poll[p].pc \in {"insert"} \union Holding
              => Sync!Msg(p).uid < uidNext[f] /\ Sync!Msg(p).uid \in Nat
        BY <1>2, <1>3, AtWork DEF Working
    <2> QED
        BY <1>2, <2>1, <2>2
<1>4. Unreached(f, n.uid)
    BY <1>1, <1>2, <1>3 DEF Unreached, Sync!Passed
<1>5. Unreached(f, n.uid)'
    BY <1>4, UnreachedStill DEF SyncPlaced
<1>6. \A q \in rows' : ~At(q, f, n.uid)'
    BY <1>1, <1>2 DEF At, Sync!NULL
<1> QED
    BY <1>1, <1>5, <1>6 DEF Awaited, Waits

LEMMA DeliverPlaces ==
    ASSUME Sync!SyncConstants, SyncInv, SyncPlaced, NEW m \in Sync!Messages,
           Sync!Deliver(m)
    PROVE  SyncPlaced'
<1>1. Sync!Append1(Sync!INBOX, m) /\ UNCHANGED <<epoch, rows, cursor, rule, poll, org, send>>
          /\ Sync!INBOX \in Sync!Folders
    BY DEF Sync!Deliver, Sync!SyncConstants
<1>2. \A f \in Sync!Folders : server[f] \subseteq server'[f]
    BY <1>1, AppendWaits
<1>3. Turns'
    BY <1>1 DEF SyncPlaced, Turns, Sync!PollsRest, Sync!PeopleRest, Sync!RequestsRest
<1> QED
    BY <1>1, <1>2, <1>3, OthersPlace

LEMMA RulePlaces ==
    ASSUME SyncInv, SyncPlaced, NEW f \in Sync!Folders \union {None}, Sync!SetRule(f)
    PROVE  SyncPlaced'
<1>1. UNCHANGED <<server, epoch, rows, cursor, poll, org, send>>
    BY DEF Sync!SetRule, Sync!serverVars
<1>2. Turns'
    BY <1>1 DEF SyncPlaced, Turns, Sync!PollsRest, Sync!PeopleRest, Sync!RequestsRest
<1> QED
    BY <1>1, <1>2, OthersPlace

LEMMA SendTurn ==
    ASSUME SyncInv, SyncPlaced, NEW m \in Outgoing, NEW from, NEW to, Sync!SendTo(m, from, to),
           from \notin {"draft", "done", "failed", "gone"} \/ Sync!PollsRest
    PROVE  /\ UNCHANGED <<poll, org, epoch, cursor>> /\ Turns' /\ send[m] = from /\ send'[m] = to
           /\ \A s \in Outgoing \ {m} : send'[s] = send[s]
<1>1. UNCHANGED <<poll, org, epoch, cursor>> /\ send[m] = from /\ send' = [send EXCEPT ![m] = to]
    BY DEF Sync!SendTo
<1>2. Sync!PollsRest
    BY <1>1 DEF SyncPlaced, Turns, Sync!PeopleRest, Sync!RequestsRest
<1> QED
    BY <1>1, <1>2 DEF Turns, Sync!PollsRest, SyncInv, SyncTyped, PeopleTyped

LEMMA SendPlaces ==
    ASSUME Sync!SyncConstants, SyncInv, SyncPlaced, NEW m \in Outgoing, ~overlapped',
           Sync!SendSmtp(m) \/ Sync!SendRecord(m) \/ Sync!SendAppend(m) \/ Sync!SendRefile(m)
    PROVE  SyncPlaced'
<1>1. CASE Sync!SendSmtp(m)
    <2>1. Sync!PollsRest /\ Sync!SendTo(m, "draft", "record") /\ UNCHANGED <<server, rows>>
        BY <1>1 DEF Sync!SendSmtp, Sync!Begins
    <2>2. /\ UNCHANGED <<poll, org, epoch, cursor>> /\ Turns' /\ send[m] = "draft"
                 /\ send'[m] = "record"
          /\ \A s \in Outgoing \ {m} : send'[s] = send[s]
        BY <2>1, SendTurn
    <2> QED
        BY <2>1, <2>2, OthersPlace
<1>2. CASE Sync!SendRecord(m)
    <2> PICK row : row = [Sync!Row(Sync!Fallback, Sync!NULL, 0, m, m) EXCEPT !.files = 1,
                 !.scanned = TRUE]
        OBVIOUS
    <2>1. Sync!SendTo(m, "record", "append") /\ rows' = rows \union {row} /\ UNCHANGED server
        BY <1>2 DEF Sync!SendRecord
    <2>2. /\ UNCHANGED <<poll, org, epoch, cursor>> /\ Turns' /\ send[m] = "record"
                 /\ send'[m] = "append"
          /\ \A s \in Outgoing \ {m} : send'[s] = send[s]
        BY <2>1, SendTurn
    <2>3. row.uid = Sync!NULL /\ row.msg = m
        BY DEF Sync!Row
    <2> QED
        BY <2>1, <2>2, <2>3, OthersPlace
<1>3. CASE Sync!SendAppend(m)
    <2>1. Sync!SendTo(m, "append", "refile") /\ Sync!Append1(Sync!SentBox, m) /\ UNCHANGED rows
              /\ Sync!SentBox \in Sync!Folders
        BY <1>3 DEF Sync!SendAppend, Sync!findSentFolder, Sync!findFolderBySpecialUse,
                    Sync!SyncConstants
    <2>2. /\ UNCHANGED <<poll, org, epoch, cursor>> /\ Turns' /\ send[m] = "append"
                 /\ send'[m] = "refile"
          /\ \A s \in Outgoing \ {m} : send'[s] = send[s]
        BY <2>1, SendTurn
    <2>3. Awaited(m)' /\ \A g \in Sync!Folders : server[g] \subseteq server'[g]
        BY <2>1, <2>2, AppendWaits DEF Sync!Messages
    <2> QED
        BY <2>1, <2>2, <2>3, OthersPlace
<1>4. CASE Sync!SendRefile(m)
    <2> DEFINE F == [r \in rows |-> IF r.owner = m THEN [r EXCEPT !.folder = Sync!SentBox,
                   !.owner = None] ELSE r]
    <2>1. /\ Sync!SendTo(m, "refile", "done") /\ UNCHANGED server
          /\ rows' = {F[r] : r \in rows}
        BY <1>4 DEF Sync!SendRefile
    <2>2. /\ UNCHANGED <<poll, org, epoch, cursor>> /\ Turns' /\ send[m] = "refile"
                 /\ send'[m] = "done"
          /\ \A s \in Outgoing \ {m} : send'[s] = send[s]
        BY <2>1, SendTurn
    <2>3. \A r \in rows : IF r.owner = m THEN r.uid = Sync!NULL /\ F[r].uid = Sync!NULL
              /\ F[r].msg = r.msg ELSE F[r] = r
        BY DEF SyncInv, SyncTyped, RowsTyped, RowType
    <2> HIDE DEF F
    <2>4. /\ \A r \in rows' : r.uid # Sync!NULL => r \in rows
          /\ \A r \in rows : r.uid # Sync!NULL => r \in rows'
          /\ \A r \in rows' : r.uid = Sync!NULL
                 => \E q \in rows : q.uid = Sync!NULL /\ q.msg = r.msg
        BY <2>1, <2>3
    <2> QED
        BY <2>1, <2>2, <2>4, OthersPlace
<1> QED
    BY <1>1, <1>2, <1>3, <1>4

-----------------------------------------------------------------------------
\* Nothing is out of its place before something fails, is renumbered or begins
\* under another.
InTurn == failures = 0 /\ resets = 0 /\ ~overlapped
SyncInPlace ==
    SyncInv /\ overlapped \in BOOLEAN /\ (InTurn => OneAtATime /\ SyncPlaced)

LEMMA PlacedFirst ==
    ASSUME Sync!SyncConstants, Sync!Init
    PROVE  OneAtATime /\ SyncPlaced
<1>1. /\ server = [f \in Sync!Folders |-> {}] /\ epoch = [f \in Sync!Folders |-> 1] /\ rows = {}
      /\ poll = [p \in Pollers |-> Sync!IdlePoll] /\ org = [o \in Operators |-> Sync!IdleOrg]
    BY DEF Sync!Init
<1>2. \A p \in Pollers : poll[p].pc = "idle"
    BY <1>1 DEF Sync!IdlePoll
<1>3. \A o \in Operators : org[o].pc = "idle"
    BY <1>1 DEF Sync!IdleOrg
<1>4. Turns
    BY <1>2 DEF Turns, Sync!PollsRest
<1>5. \A p \in Pollers : PollPlaced(p)
    BY <1>2 DEF PollPlaced, Working, Holding
<1>6. \A o \in Operators : OrgPlaced(o)
    BY <1>3 DEF OrgPlaced
<1> QED
    BY <1>1, <1>2, <1>3, <1>4, <1>5, <1>6 DEF SyncPlaced, OneAtATime

\* A poll that takes a step is at work, and moves no other.
LEMMA PollTouches ==
    ASSUME NEW p \in Pollers, Sync!PollStep(p)
    PROVE  /\ poll[p].pc # "idle" /\ org' = org
           /\ \A q \in DOMAIN poll \ {p} : poll'[q] = poll[q]
<1>1. CASE Sync!PollCursor(p) \/ Sync!PollFetch(p) \/ Sync!PollConverge(p) \/ Sync!PollInsert(p)
    BY <1>1 DEF Sync!PollCursor, Sync!PollFetch, Sync!PollConverge, Sync!PollInsert,
                Sync!NextMessage
<1>2. CASE Sync!PollFiles(p) \/ Sync!PollFollow(p) \/ Sync!PollMove(p) \/ Sync!PollMoveRow(p)
    BY <1>2 DEF Sync!PollFiles, Sync!PollFollow, Sync!PollMove, Sync!PollMoveRow
<1>3. CASE Sync!PollMoveCursor(p) \/ Sync!PollScan(p) \/ Sync!PollSave(p)
    BY <1>3 DEF Sync!PollMoveCursor, Sync!PollScan, Sync!PollSave, Sync!NextMessage, Sync!NextFolder
<1> QED
    BY <1>1, <1>2, <1>3 DEF Sync!PollStep

\* The others stay as they are, and are idle where one at a time is at work.
LEMMA PollsApart ==
    ASSUME SyncInv, OneAtATime, NEW p \in Pollers,
           Sync!PollStep(p) \/ (Sync!PollStart(p) /\ Sync!PollsRest)
    PROVE  PollAlone(p) /\ OneAtATime' /\ org' = org
<1>1. /\ \/ poll[p].pc # "idle"
         \/ \A q \in Pollers : poll[q].pc = "idle"
      /\ \A q \in DOMAIN poll \ {p} : poll'[q] = poll[q]
      /\ org' = org
    <2>1. CASE Sync!PollStep(p)
        BY <2>1, PollTouches
    <2>2. CASE Sync!PollStart(p) /\ Sync!PollsRest
        BY <2>2 DEF Sync!PollStart, Sync!PollsRest
    <2> QED
        BY <2>1, <2>2
<1>2. \A q \in Pollers \ {p} : poll'[q] = poll[q] /\ poll[q].pc = "idle"
    BY <1>1 DEF OneAtATime, SyncInv, SyncTyped, PollsTyped
<1> QED
    BY <1>1, <1>2 DEF OneAtATime, PollAlone

LEMMA OrgsApart ==
    ASSUME SyncInv, OneAtATime, NEW o \in Operators,
           \/ Sync!Organize(o) /\ Sync!RequestsRest
           \/ Sync!OrgNext(o) \/ Sync!OrgMove(o) \/ Sync!OrgMoveRow(o) \/ Sync!OrgMoveCursor(o)
           \/ Sync!OrgDestroy(o) \/ Sync!OrgDestroyRow(o)
    PROVE  OrgAlone(o) /\ OneAtATime' /\ poll' = poll
<1>1. /\ \/ org[o].pc # "idle"
         \/ \A q \in Operators : org[q].pc = "idle"
      /\ \A q \in DOMAIN org \ {o} : org'[q] = org[q]
      /\ poll' = poll
    BY DEF Sync!Organize, Sync!RequestsRest, Sync!OrgNext, Sync!OrgMove, Sync!OrgMoveRow,
           Sync!OrgMoveCursor, Sync!OrgDestroy, Sync!OrgDestroyRow, Sync!OrgTo
<1>2. \A q \in Operators \ {o} : org'[q] = org[q] /\ org[q].pc = "idle"
    BY <1>1 DEF OneAtATime, SyncInv, SyncTyped, PeopleTyped
<1> QED
    BY <1>1, <1>2 DEF OneAtATime, OrgAlone

LEMMA PlacedSteps ==
    Sync!SyncConstants /\ SyncInPlace /\ [Sync!Next]_Sync!vars => SyncInPlace'
<1> SUFFICES ASSUME Sync!SyncConstants, SyncInPlace, [Sync!Next]_Sync!vars
             PROVE  SyncInPlace'
    OBVIOUS
<1>1. SyncInv /\ SyncInv' /\ overlapped' \in BOOLEAN
    BY SyncSteps, OverlapKept DEF SyncInPlace
<1> SUFFICES ASSUME InTurn' PROVE OneAtATime' /\ SyncPlaced'
    BY <1>1 DEF SyncInPlace
<1>2. /\ failures \in Nat /\ failures' = failures /\ resets \in Nat /\ resets' = resets
      /\ ~overlapped' /\ OneAtATime /\ SyncPlaced
    BY <1>1, OverlapKept DEF SyncInPlace, InTurn
<1>3. ASSUME UNCHANGED <<server, epoch, rows, cursor, poll, org, send>>
      PROVE  OneAtATime' /\ SyncPlaced'
    <2>1. Turns'
        BY <1>2, <1>3 DEF SyncPlaced, Turns, Sync!PollsRest, Sync!PeopleRest, Sync!RequestsRest
    <2> QED
        BY <1>1, <1>2, <1>3, <2>1, OthersPlace DEF OneAtATime
<1>4. CASE UNCHANGED Sync!vars
    BY <1>3, <1>4 DEF Sync!vars, Sync!serverVars
<1>5. ASSUME NEW m \in Sync!Messages, Sync!Deliver(m) PROVE OneAtATime' /\ SyncPlaced'
    BY <1>1, <1>2, <1>5, DeliverPlaces DEF Sync!Deliver, OneAtATime
<1>6. ASSUME NEW f \in Sync!Folders, Sync!Renumber(f) PROVE FALSE
    BY <1>2, <1>6 DEF Sync!Renumber
<1>7. ASSUME NEW p \in Pollers,
             Sync!PollStart(p) \/ Sync!PollStep(p) \/ Sync!PollFails(p) \/ Sync!PollDies(p)
      PROVE  OneAtATime' /\ SyncPlaced'
    <2>1. Sync!PollStart(p) \/ Sync!PollStep(p)
        BY <1>2, <1>7 DEF Sync!PollFails, Sync!PollDies, Sync!Fail
    <2>2. Sync!PollStart(p) => Sync!PollsRest
        <3>1. Sync!PollStart(p) => Sync!Begins(Sync!PollsRest /\ Sync!PeopleRest)
            BY DEF Sync!PollStart
        <3>2. Sync!Begins(Sync!PollsRest /\ Sync!PeopleRest) => Sync!PollsRest
            BY <1>2 DEF Sync!Begins
        <3> QED
            BY <3>1, <3>2
    <2>3. PollAlone(p) /\ OneAtATime'
        BY <1>1, <1>2, <2>1, <2>2, PollsApart
    <2>4. SyncPlaced'
        BY <1>1, <1>2, <2>1, <2>3, StartPlaces, CursorPlaces, FetchPlaces, ConvergePlaces,
           InsertPlaces, FilesPlaces, FollowPlaces, MovePlaces, MoveRowPlaces, MoveCursorPlaces,
           ScanPlaces, SavePlaces DEF Sync!PollStep
    <2> QED
        BY <2>3, <2>4
<1>8. ASSUME NEW o \in Operators,
             \/ Sync!Organize(o) \/ Sync!OrgNext(o) \/ Sync!OrgMove(o) \/ Sync!OrgMoveRow(o)
             \/ Sync!OrgMoveCursor(o) \/ Sync!OrgDestroy(o) \/ Sync!OrgDestroyRow(o)
             \/ Sync!OrgFails(o)
      PROVE  OneAtATime' /\ SyncPlaced'
    <2>1. ~Sync!OrgFails(o) /\ (Sync!Organize(o) => Sync!RequestsRest)
        <3>1. Sync!Organize(o) => Sync!Begins(Sync!PollsRest /\ Sync!RequestsRest)
            BY DEF Sync!Organize
        <3>2. ~Sync!OrgFails(o)
            BY <1>2 DEF Sync!OrgFails, Sync!Fail
        <3> QED
            BY <1>2, <3>1, <3>2 DEF Sync!Begins
    <2>2. OrgAlone(o) /\ OneAtATime'
        BY <1>1, <1>2, <1>8, <2>1, OrgsApart
    <2>3. SyncPlaced'
        BY <1>1, <1>2, <1>8, <2>1, <2>2, OrganizePlaces, NextPlaces, OrgMovePlaces,
           OrgMoveRowPlaces, OrgMoveCursorPlaces, OrgDestroyPlaces, OrgDestroyRowPlaces
    <2> QED
        BY <2>2, <2>3
<1>9. ASSUME NEW f \in Sync!Folders \union {None}, Sync!SetRule(f) PROVE OneAtATime' /\ SyncPlaced'
    BY <1>3, <1>9 DEF Sync!SetRule, Sync!serverVars
<1>10. ASSUME NEW m \in Outgoing,
              \/ Sync!SendSmtp(m) \/ Sync!SendRecord(m) \/ Sync!SendAppend(m) \/ Sync!SendRefile(m)
              \/ Sync!SendFails(m)
       PROVE  OneAtATime' /\ SyncPlaced'
    <2>1. Sync!SendSmtp(m) \/ Sync!SendRecord(m) \/ Sync!SendAppend(m) \/ Sync!SendRefile(m)
        BY <1>2, <1>10 DEF Sync!SendFails
    <2>2. UNCHANGED <<poll, org>>
        BY <2>1 DEF Sync!SendSmtp, Sync!SendRecord, Sync!SendAppend, Sync!SendRefile, Sync!SendTo
    <2> QED
        BY <1>1, <1>2, <2>1, <2>2, SendPlaces DEF OneAtATime
<1> QED
    BY <1>4, <1>5, <1>6, <1>7, <1>8, <1>9, <1>10 DEF Sync!Next

\* At rest nothing is leaving and nothing waits: every row has its message, and
\* every message, passed, has its row.
LEMMA PlacedIsPanel == ASSUME SyncInPlace PROVE Sync!PanelIsMailbox
<1> SUFFICES ASSUME Sync!AtRest, InTurn
             PROVE  /\ {<<r.folder, r.uid, r.msg>> : r \in rows}
                         = UNION {{<<f, e.uid, e.msg>> : e \in server[f]} : f \in Sync!Folders}
                    /\ \A r, q \in rows : r.folder = q.folder /\ r.uid = q.uid => r = q
    BY DEF Sync!PanelIsMailbox, InTurn
<1>1. SyncInv /\ SyncPlaced /\ Sync!PollsRest /\ Sync!PeopleRest
    BY DEF SyncInPlace, Sync!AtRest
<1>2. \A r : ~Leaving(r)
    BY <1>1, NoneLeaves DEF Sync!PollsRest, Sync!PeopleRest, Sync!RequestsRest
<1>3. \A m : ~Awaited(m)
    BY DEF Sync!AtRest, Awaited, Waits, Unreached
<1>4. \A m \in Outgoing : send[m] # "append"
    BY <1>1 DEF Sync!PeopleRest, Sync!RequestsRest
<1>5. \A r \in rows : r.uid # Sync!NULL /\ Sync!Mail(r.uid, r.msg) \in server[r.folder]
          /\ r.folder \in Sync!Folders
    BY <1>1, <1>2, <1>3, <1>4 DEF SyncPlaced, RowPlaced, SyncInv, SyncTyped, RowsTyped
<1>6. ASSUME NEW r \in rows
      PROVE  \E f \in Sync!Folders : \E e \in server[f] :
                 <<r.folder, r.uid, r.msg>> = <<f, e.uid, e.msg>>
    <2>1. Sync!Mail(r.uid, r.msg).uid = r.uid /\ Sync!Mail(r.uid, r.msg).msg = r.msg
        BY DEF Sync!Mail
    <2> QED
        BY <1>5, <1>6, <2>1
<1>7. ASSUME NEW f \in Sync!Folders, NEW e \in server[f]
      PROVE  \E r \in rows : r.folder = f /\ r.uid = e.uid /\ r.msg = e.msg
    <2>1. epoch[f] = 1 /\ Sync!Exact(f) /\ \A d \in server[f] : d.uid = e.uid => d = e
        BY <1>1 DEF SyncPlaced, SyncInv, SyncExact, NumbersHold
    <2>2. PICK r \in rows : r.folder = f /\ r.uid = e.uid
        BY <2>1 DEF Sync!AtRest, Sync!Exact, Sync!Stored
    <2>3. Sync!Mail(r.uid, r.msg).uid = r.uid /\ Sync!Mail(r.uid, r.msg).msg = r.msg
        BY DEF Sync!Mail
    <2>4. Sync!Mail(r.uid, r.msg) \in server[f]
        BY <1>5, <2>2
    <2> QED
        BY <2>1, <2>2, <2>3, <2>4
<1>8. \A r, q \in rows : r.folder = q.folder /\ r.uid = q.uid => r = q
    BY <1>1, <1>5 DEF SyncPlaced, At
<1>9. \A t \in {<<r.folder, r.uid, r.msg>> : r \in rows} :
            t \in UNION {{<<f, e.uid, e.msg>> : e \in server[f]} : f \in Sync!Folders}
    BY <1>6
<1>10. ASSUME NEW f \in Sync!Folders, NEW e \in server[f]
       PROVE  <<f, e.uid, e.msg>> \in {<<r.folder, r.uid, r.msg>> : r \in rows}
    <2>1. PICK r \in rows : r.folder = f /\ r.uid = e.uid /\ r.msg = e.msg
        BY <1>7
    <2>2. <<r.folder, r.uid, r.msg>> = <<f, e.uid, e.msg>>
        BY <2>1
    <2>3. <<r.folder, r.uid, r.msg>> \in {<<q.folder, q.uid, q.msg>> : q \in rows}
        OBVIOUS
    <2> QED
        BY <2>2, <2>3
<1>11. \A t \in UNION {{<<f, e.uid, e.msg>> : e \in server[f]} : f \in Sync!Folders} :
            t \in {<<r.folder, r.uid, r.msg>> : r \in rows}
    BY <1>10
<1> QED
    BY <1>8, <1>9, <1>11

\* Until something fails, is renumbered or begins under another, the panel at rest
\* is the mailbox: no second copy, nothing missing.  How many polls and requests
\* there are, and whether they may overlap, does not matter to this.
THEOREM PanelIsTheMailbox ==
    ASSUME Sync!SyncConstants
    PROVE  Sync!Spec => []Sync!PanelIsMailbox
<1>1. Sync!Init => SyncInPlace
    BY SyncStarts, PlacedFirst DEF SyncInPlace, SyncInv, Sync!Init
<1>2. SyncInPlace /\ [Sync!Next]_Sync!vars => SyncInPlace'
    BY PlacedSteps
<1>3. SyncInPlace => Sync!PanelIsMailbox
    BY PlacedIsPanel
<1> QED
    BY <1>1, <1>2, <1>3, PTL DEF Sync!Spec

-----------------------------------------------------------------------------
\* In MCMail, where the part "sync" moves: the copy is the mailbox's.
THEOREM MailboxCopiedThere == Spec => []MailboxCopied
<1> DEFINE Inv == part = "sync" => SyncInPlace
<1>1. Init => Inv
    BY MailConstants, SyncStarts, PlacedFirst
       DEF Init, MailConstants, SyncInPlace, SyncInv, Sync!Init
<1>2. Inv /\ [Next]_vars => Inv'
    <2> SUFFICES ASSUME Inv, [Next]_vars, part' = "sync"
                 PROVE  SyncInPlace'
        OBVIOUS
    <2>1. CASE Next
        <3>1. part = "sync" /\ Sync!Next
            BY <2>1 DEF Next, Moves
        <3> QED
            BY <3>1, MailConstants, PlacedSteps DEF MailConstants
    <2>2. CASE UNCHANGED vars
        <3>1. part = "sync" /\ UNCHANGED Sync!vars
            BY <2>2 DEF vars, syncVars, Sync!vars, Sync!serverVars, Sync!bounds
        <3> QED
            BY <3>1, MailConstants, PlacedSteps DEF MailConstants
    <2> QED
        BY <2>1, <2>2
<1>3. Inv => MailboxCopied
    BY MailConstants, SyncSafe, PlacedIsPanel DEF MailConstants, MailboxCopied, SyncInPlace
<1> QED
    BY <1>1, <1>2, <1>3, PTL DEF Spec

\* And however many polls and requests overlap, no cursor has passed a message
\* that is not filed, as long as its folder keeps its numbers, and no row is let go
\* of half stored unless something failed.
THEOREM NothingIsSkippedThere ==
    Spec => [](part = "sync" => Sync!TypeOK /\ Sync!NothingSkipped /\ Sync!WholeMessages)
<1> DEFINE Inv == part = "sync" => SyncInv /\ overlapped \in BOOLEAN
<1>1. Init => Inv
    BY MailConstants, SyncStarts DEF Init, MailConstants, SyncInv, Sync!Init
<1>2. Inv /\ [Next]_vars => Inv'
    <2> SUFFICES ASSUME Inv, [Next]_vars, part' = "sync"
                 PROVE  SyncInv' /\ overlapped' \in BOOLEAN
        OBVIOUS
    <2>1. CASE Next
        <3>1. part = "sync" /\ Sync!Next
            BY <2>1 DEF Next, Moves
        <3> QED
            BY <3>1, MailConstants, SyncSteps, OverlapKept DEF MailConstants
    <2>2. CASE UNCHANGED vars
        <3>1. part = "sync" /\ UNCHANGED Sync!vars
            BY <2>2 DEF vars, syncVars, Sync!vars, Sync!serverVars, Sync!bounds
        <3> QED
            BY <3>1, MailConstants, SyncSteps, OverlapKept DEF MailConstants
    <2> QED
        BY <2>1, <2>2
<1>3. Inv => (part = "sync" => Sync!TypeOK /\ Sync!NothingSkipped /\ Sync!WholeMessages)
    BY MailConstants, SyncSafe DEF MailConstants
<1> QED
    BY <1>1, <1>2, <1>3, PTL DEF Spec

=============================================================================
