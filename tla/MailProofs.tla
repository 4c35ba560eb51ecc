------------------------------ MODULE MailProofs ------------------------------
(* Theorems about MailDesk, Composer, Mailboxes, MailThreats and WalletCheck, *)
(* for any messages, folders, tabs, letters, drafts, mailboxes, addresses,    *)
(* requests and failures: as the parts "desk", "composer", "boxes", "threats" *)
(* and "wallet" of MCMail, whose instances are as general as the modules.     *)
EXTENDS MCMail, FiniteSetTheorems, FunctionTheorems, SequenceTheorems, TLAPS

-----------------------------------------------------------------------------
(* MailDesk                                                                  *)

LEMMA SameCardinality ==
    \A S : Desk!Cardinality(S) = Cardinality(S) /\ Desk!IsFiniteSet(S) = IsFiniteSet(S)
    BY DEF Desk!Cardinality, Cardinality, Desk!IsFiniteSet, IsFiniteSet

RenderedRow == [id : Desk!Ids, was : Tabs, on : BOOLEAN]
FoundRow == [id : Desk!Ids, folder : Tabs, synced : BOOLEAN]
LoadRecord == [pc : {"idle", "asked", "answered"}, tab : Tabs, rows : SUBSET RenderedRow]
ActRecord == [pc : {"idle", "read", "next", "reply"}, deed : {"delete", "destroy", "move"},
              ids : SUBSET Desk!Ids, goal : Tabs, alone : BOOLEAN, todo : SUBSET FoundRow,
              done : SUBSET Desk!Ids]
Senders == {Sender[m] : m \in Filable}
Filings == [from : Senders, folder : Tabs]

\* A list renders a row once, and so will each answer on its way.
OncePerRow(listed) == \A l, k \in listed : l.id = k.id => l = k

\* A row where the request read it, if messages are as in p.
StillAt(i, p) == p[i.id.msg].folder = i.folder /\ p[i.id.msg].synced /\ p[i.id.msg].row = i.id.row

\* What a request was asked, found and did, where mail is as in p: what it has
\* still to do is where it was read, or somebody else took it; what it counts
\* as moved is filed, or was taken.
ActKnows(r, done, gone, p) ==
    /\ r.done \subseteq r.ids
    /\ \A i \in r.todo : /\ i.id \in r.ids
                         /\ i.synced => StillAt(i, p) \/ i.id.msg \in gone
    /\ \A i, j \in r.todo : i.id.msg = j.id.msg => i = j
    /\ r.deed = "move" => \A i \in r.done : Desk!In(i.msg, r.goal) \in done \/ i.msg \in gone

DeskTyped ==
    /\ place \in [Filable -> [folder : Tabs \union {Gone}, synced : BOOLEAN, row : 0..MaxPolls]]
    /\ polls \in Nat /\ \A m \in Filable : place[m].row <= polls
    /\ tab \in Tabs /\ bar \in Tabs
    /\ list \subseteq RenderedRow
    /\ load \in [Desk!Loads -> LoadRecord]
    /\ act \in [Desk!Acts -> ActRecord]
    /\ offer \subseteq Filings
    /\ taken \subseteq Filable

\* No two rows of one list are of one row, none rules are offered at once.
DeskLists ==
    /\ OncePerRow(list)
    /\ \A l \in Desk!Loads : OncePerRow(load[l].rows)
    /\ \A o, p \in offer : o = p

\* What was put somewhere at her request is in the books of the model.
ActsKnow == \A a \in Desk!Acts : ActKnows(act[a], filed, taken, place)
OffersFiled == \A o \in offer : Desk!Backed(o)

DeskInv == DeskTyped /\ DeskLists /\ ActsKnow /\ OffersFiled /\ Desk!RuleFromAMove

-----------------------------------------------------------------------------
(* Requests *)

\* A request that is asked anew, or given up, knows nothing yet.
LEMMA NoActTyped == ASSUME Desk!DeskConstants PROVE Desk!NoAct \in ActRecord
BY DEF Desk!DeskConstants, Desk!NoAct, ActRecord

\* Asking starts a record of the ids asked for.
LEMMA Asked ==
    ASSUME Desk!DeskConstants, NEW a \in Desk!Acts,
           \E deed \in {"delete", "destroy", "move"}, ids \in SUBSET Desk!Ids, goal \in Tabs,
              alone \in BOOLEAN : Desk!Ask(a, deed, ids, goal, alone)
    PROVE  \E r \in ActRecord :
               /\ act' = [act EXCEPT ![a] = r]
               /\ r.todo = {} /\ r.done = {}
<1> PICK deed \in {"delete", "destroy", "move"}, ids \in SUBSET Desk!Ids, goal \in Tabs,
         alone \in BOOLEAN : Desk!Ask(a, deed, ids, goal, alone)
    OBVIOUS
<1> DEFINE r == [Desk!NoAct EXCEPT !.pc = "read", !.deed = deed, !.ids = ids, !.goal = goal,
                           !.alone = alone]
<1>1. r \in ActRecord
    BY NoActTyped DEF ActRecord
<1>2. r.todo = {} /\ r.done = {}
    BY DEF Desk!NoAct
<1>3. act' = [act EXCEPT ![a] = r]
    BY DEF Desk!Ask
<1> HIDE DEF r
<1> QED
    BY <1>1, <1>2, <1>3

\* One item more is over: nothing else of the request changes.
LEMMA OneOver ==
    ASSUME DeskTyped, NEW a \in Desk!Acts, NEW item \in act[a].todo, NEW ok \in BOOLEAN,
           Desk!Over(a, item, ok)
    PROVE  \E r \in ActRecord :
               /\ act' = [act EXCEPT ![a] = r]
               /\ r.ids = act[a].ids /\ r.deed = act[a].deed /\ r.goal = act[a].goal
               /\ r.todo = act[a].todo \ {item}
               /\ r.done = act[a].done \union (IF ok THEN {item.id} ELSE {})
<1> DEFINE r == [pc |-> IF act[a].todo = {item} THEN "reply" ELSE "next",
                 deed |-> act[a].deed, ids |-> act[a].ids, goal |-> act[a].goal,
                 alone |-> act[a].alone, todo |-> act[a].todo \ {item},
                 done |-> act[a].done \union (IF ok THEN {item.id} ELSE {})]
<1>1. act[a] \in ActRecord /\ act \in [Desk!Acts -> ActRecord]
    BY DEF DeskTyped
<1>2. item.id \in Desk!Ids
    BY <1>1 DEF ActRecord, FoundRow
<1>3. r \in ActRecord
    BY <1>1, <1>2 DEF ActRecord
<1>4. act' = [act EXCEPT ![a] = r]
    <2>1. \A b \in Desk!Acts : b # a => act'[b] = act[b]
        BY <1>1 DEF Desk!Over
    <2>2. act'[a] = r
        BY <1>1 DEF Desk!Over, ActRecord
    <2>3. DOMAIN act' = Desk!Acts /\ act' = [b \in Desk!Acts |-> act'[b]]
        BY <1>1 DEF Desk!Over
    <2> HIDE DEF r
    <2> QED
        BY <1>1, <2>1, <2>2, <2>3
<1>5. /\ r.ids = act[a].ids /\ r.deed = act[a].deed /\ r.goal = act[a].goal
      /\ r.todo = act[a].todo \ {item}
      /\ r.done = act[a].done \union (IF ok THEN {item.id} ELSE {})
    OBVIOUS
<1> HIDE DEF r
<1> QED
    BY <1>3, <1>4, <1>5

\* A request that a step leaves alone: what it read is there still, or noted.
Undisturbed(b) ==
    \A i \in act[b].todo : StillAt(i, place) => StillAt(i, place') \/ i.id.msg \in taken'

\* A request that a step leaves alone knows what it knew.
LEMMA KnowsStill ==
    ASSUME NEW b \in Desk!Acts, ActKnows(act[b], filed, taken, place),
           filed \subseteq filed', taken \subseteq taken', Undisturbed(b)
    PROVE  ActKnows(act[b], filed', taken', place')
BY DEF ActKnows, Undisturbed

\* A request that becomes r leaves the others alone, and knows what r knows.
LEMMA OneActs ==
    ASSUME DeskTyped, ActsKnow, NEW a \in Desk!Acts, NEW r \in ActRecord,
           act' = [act EXCEPT ![a] = r], filed \subseteq filed', taken \subseteq taken',
           ActKnows(r, filed', taken', place'), \A b \in Desk!Acts \ {a} : Undisturbed(b)
    PROVE  act' \in [Desk!Acts -> ActRecord] /\ ActsKnow'
<1>1. act \in [Desk!Acts -> ActRecord]
    BY DEF DeskTyped
<1>2. act' \in [Desk!Acts -> ActRecord]
    BY <1>1
<1>3. ASSUME NEW b \in Desk!Acts PROVE ActKnows(act'[b], filed', taken', place')
    <2>1. CASE b = a
        BY <2>1, <1>1
    <2>2. CASE b # a
        <3>1. act'[b] = act[b]
            BY <2>2, <1>1
        <3>2. ActKnows(act[b], filed', taken', place')
            BY <2>2, KnowsStill DEF ActsKnow
        <3> QED
            BY <3>1, <3>2
    <2> QED
        BY <2>1, <2>2
<1> QED
    BY <1>2, <1>3 DEF ActsKnow

\* A request that knows of nothing found or done knows enough.
LEMMA NothingKnown ==
    ASSUME NEW r, NEW done, NEW gone, NEW p, r.todo = {}, r.done = {}
    PROVE  ActKnows(r, done, gone, p)
BY DEF ActKnows

\* Where mail stays where it is, nobody is disturbed.
LEMMA NobodyDisturbed ==
    ASSUME UNCHANGED <<place, taken>>
    PROVE  \A b \in Desk!Acts : Undisturbed(b)
BY DEF Undisturbed

\* What backed a rule backs it for good.
LEMMA BackedStill ==
    ASSUME NEW o, Desk!Backed(o), filed \subseteq filed', taken \subseteq taken'
    PROVE  Desk!Backed(o)'
BY DEF Desk!Backed

\* The rows of the messages, as the model keeps them.
Places(p, n) == /\ p \in [Filable -> [folder : Tabs \union {Gone}, synced : BOOLEAN,
                                       row : 0..MaxPolls]]
                /\ \A m \in Filable : p[m].row <= n

\* A step of one request, whatever it does to the rest.
LEMMA RequestStep ==
    ASSUME Desk!DeskConstants, DeskInv, NEW a \in Desk!Acts, NEW r \in ActRecord,
           act' = [act EXCEPT ![a] = r], filed \subseteq filed', taken \subseteq taken',
           taken' \subseteq Filable, ActKnows(r, filed', taken', place'),
           \A b \in Desk!Acts \ {a} : Undisturbed(b),
           Places(place', polls), polls' = polls, tab' = tab, bar' \in Tabs,
           load' = load, list' \subseteq list, rules' = rules,
           offer' \subseteq Filings, \A o \in offer' : Desk!Backed(o)', \A o, p \in offer' : o = p
    PROVE  DeskInv'
<1>1. act' \in [Desk!Acts -> ActRecord] /\ ActsKnow'
    BY OneActs DEF DeskInv
<1>2. DeskTyped'
    BY <1>1 DEF DeskInv, DeskTyped, Places
<1>3. DeskLists'
    BY DEF DeskInv, DeskLists, OncePerRow
<1>4. OffersFiled' /\ Desk!RuleFromAMove'
    BY BackedStill DEF DeskInv, OffersFiled, Desk!RuleFromAMove
<1> QED
    BY <1>1, <1>2, <1>3, <1>4 DEF DeskInv

\* An offer that stays is backed as it was.
LEMMA OfferStays ==
    ASSUME DeskInv, offer' = offer, filed \subseteq filed', taken \subseteq taken'
    PROVE  offer' \subseteq Filings /\ (\A o \in offer' : Desk!Backed(o)') /\ \A o, p \in offer' : o = p
BY BackedStill DEF DeskInv, DeskTyped, DeskLists, OffersFiled

\* What a step that leaves the messages alone keeps of them.
LEMMA PlacesKept == ASSUME DeskInv PROVE Places(place, polls)
BY DEF DeskInv, DeskTyped, Places

\* A message moved to a folder is still one row of a known folder.
LEMMA PlacesMoved ==
    ASSUME Places(place, polls), NEW m \in Filable, NEW f \in Tabs, Desk!Moved(m, f)
    PROVE  Places(place', polls)
<1> DEFINE Row == [folder : Tabs \union {Gone}, synced : BOOLEAN, row : 0..MaxPolls]
<1>1. place \in [Filable -> Row] /\ place[m] \in Row
    BY DEF Places
<1>2. place' = [place EXCEPT ![m] = [place[m] EXCEPT !.folder = f, !.synced = FALSE]]
    <2>1. \A n \in Filable : n # m => place'[n] = place[n]
        BY <1>1 DEF Desk!Moved
    <2>2. place'[m] = [place[m] EXCEPT !.folder = f, !.synced = FALSE]
        BY <1>1 DEF Desk!Moved
    <2>3. DOMAIN place' = Filable /\ place' = [n \in Filable |-> place'[n]]
        BY <1>1 DEF Desk!Moved
    <2> QED
        BY <1>1, <2>1, <2>2, <2>3
<1>3. /\ [place[m] EXCEPT !.folder = f, !.synced = FALSE] \in Row
      /\ [place[m] EXCEPT !.folder = f, !.synced = FALSE].row = place[m].row
    BY <1>1
<1> QED
    BY <1>1, <1>2, <1>3 DEF Places

\* A message taken from under the requests is noted for them.
LEMMA NotedFor ==
    ASSUME DeskInv, NEW m \in Filable, NEW who \in SUBSET Desk!Acts, Desk!Noted(m, who),
           \A n \in Filable : n # m => place'[n] = place[n]
    PROVE  /\ taken \subseteq taken' /\ taken' \subseteq Filable
           /\ \A b \in who : Undisturbed(b)
<1>1. taken \subseteq taken' /\ taken' \subseteq Filable
    BY DEF Desk!Noted, DeskInv, DeskTyped
<1>2. ASSUME NEW b \in who, NEW i \in act[b].todo, StillAt(i, place)
      PROVE  StillAt(i, place') \/ i.id.msg \in taken'
    <2>1. i.id.msg \in Filable
        BY DEF DeskInv, DeskTyped, ActRecord, FoundRow, Desk!Ids
    <2>2. CASE i.id.msg = m
        BY <2>2 DEF Desk!Noted
    <2>3. CASE i.id.msg # m
        BY <1>2, <2>1, <2>3 DEF StillAt
    <2> QED
        BY <2>2, <2>3
<1> QED
    BY <1>1, <1>2 DEF Undisturbed

\* The sender and the folder a message is filed under.
LEMMA FiledUnder ==
    ASSUME NEW m \in Filable, NEW f \in Tabs PROVE Desk!In(m, f) \in Filings
BY DEF Desk!In, Filings, Senders

-----------------------------------------------------------------------------
(* The actions *)

\* The buttons, the menu and a drag start a request of listed rows.
LEMMA KeptByAsking ==
    ASSUME Desk!DeskConstants, DeskInv, NEW a \in Desk!Acts,
           Desk!ActOnSelection(a) \/ Desk!MoveSelection(a) \/ \E k \in list : Desk!ActOnRow(a, k)
    PROVE  DeskInv'
<1>1. list \subseteq RenderedRow /\ Desk!Checked \subseteq list /\ TrashTab \in Tabs
    BY DEF DeskInv, DeskTyped, Desk!Checked, Desk!DeskConstants
<1>2. \E deed \in {"delete", "destroy", "move"}, ids \in SUBSET Desk!Ids, goal \in Tabs,
         alone \in BOOLEAN : Desk!Ask(a, deed, ids, goal, alone)
    <2>1. CASE Desk!ActOnSelection(a)
        <3>1. {k.id : k \in Desk!Checked} \in SUBSET Desk!Ids
            BY <1>1 DEF RenderedRow
        <3> QED
            BY <1>1, <2>1, <3>1 DEF Desk!ActOnSelection
    <2>2. CASE Desk!MoveSelection(a)
        <3>1. {{k.id : k \in Desk!Checked}} \union {{k.id} : k \in list \ Desk!Checked} \subseteq SUBSET Desk!Ids
            BY <1>1 DEF RenderedRow
        <3> QED
            BY <1>1, <2>2, <3>1 DEF Desk!MoveSelection
    <2>3. ASSUME NEW k \in list, Desk!ActOnRow(a, k)
          PROVE  \E deed \in {"delete", "destroy", "move"}, ids \in SUBSET Desk!Ids, goal \in Tabs,
                    alone \in BOOLEAN : Desk!Ask(a, deed, ids, goal, alone)
        <3>1. {k.id} \in SUBSET Desk!Ids
            BY <1>1 DEF RenderedRow
        <3>2. (IF k.was = TrashTab THEN "destroy" ELSE "delete") \in {"delete", "destroy", "move"}
            OBVIOUS
        <3>3. CASE Desk!Ask(a, IF k.was = TrashTab THEN "destroy" ELSE "delete", {k.id}, TrashTab, TRUE)
            BY <1>1, <3>1, <3>2, <3>3
        <3>4. CASE \E f \in Tabs \ {k.was} : Desk!Ask(a, "move", {k.id}, f, TRUE)
            BY <3>1, <3>4
        <3> QED
            BY <2>3, <3>3, <3>4 DEF Desk!ActOnRow
    <2> QED
        BY <2>1, <2>2, <2>3
<1>3. PICK r \in ActRecord : /\ act' = [act EXCEPT ![a] = r]
                             /\ r.todo = {} /\ r.done = {}
    BY <1>2, Asked
<1>4. UNCHANGED <<place, tab, bar, list, load, offer, rules, filed, taken, polls>>
    BY <1>2 DEF Desk!Ask, Desk!panel, Desk!bounds
<1>5. ActKnows(r, filed', taken', place')
    BY <1>3, NothingKnown
<1>6. Places(place', polls) /\ \A b \in Desk!Acts : Undisturbed(b)
    BY <1>4, PlacesKept, NobodyDisturbed
<1>7. bar' \in Tabs /\ taken' \subseteq Filable
    BY <1>4 DEF DeskInv, DeskTyped
<1> QED
    BY <1>3, <1>4, <1>5, <1>6, <1>7, OfferStays, RequestStep

\* The SELECT finds rows of what was asked for, and of nothing else.
LEMMA KeptByReading ==
    ASSUME Desk!DeskConstants, DeskInv, NEW a \in Desk!Acts, Desk!ActRead(a)
    PROVE  DeskInv'
<1> DEFINE found == {i \in act[a].ids : place[i.msg].folder # Gone /\ place[i.msg].row = i.row}
           items == {[id |-> i, folder |-> place[i.msg].folder,
                      synced |-> place[i.msg].synced] : i \in found}
           r == IF found = {} THEN Desk!NoAct
                ELSE [act[a] EXCEPT !.pc = "next", !.todo = items]
<1>1. /\ act[a] \in ActRecord /\ act \in [Desk!Acts -> ActRecord]
      /\ ActKnows(act[a], filed, taken, place)
    BY DEF DeskInv, DeskTyped, ActsKnow
<1>2. /\ items \in SUBSET FoundRow
      /\ \A i \in items : i.id \in act[a].ids /\ (i.synced => StillAt(i, place))
      /\ \A i, j \in items : i.id.msg = j.id.msg => i = j
    <2>1. \A i \in found : i \in Desk!Ids /\ i.msg \in Filable
        BY <1>1 DEF ActRecord, Desk!Ids
    <2>2. \A i \in found : /\ place[i.msg].folder \in Tabs
                           /\ place[i.msg].synced \in BOOLEAN
        BY <2>1 DEF DeskInv, DeskTyped
    <2>3. items \in SUBSET FoundRow
        BY <2>1, <2>2 DEF FoundRow
    <2>4. \A i \in items : i.id \in act[a].ids /\ (i.synced => StillAt(i, place))
        BY DEF StillAt
    <2>5. \A i, j \in found : i.msg = j.msg => i = j
        <3>1. \A i, j \in found : i.msg = j.msg => i.row = j.row
            OBVIOUS
        <3>2. \A i \in found : i = [msg |-> i.msg, row |-> i.row]
            BY <2>1 DEF Desk!Ids
        <3> HIDE DEF found
        <3> QED
            BY <3>1, <3>2
    <2>6. \A i, j \in items : i.id.msg = j.id.msg => i = j
        <3> HIDE DEF found
        <3> QED
            BY <2>5
    <2> QED
        BY <2>3, <2>4, <2>6
<1>3. act' = [act EXCEPT ![a] = r]
    <2>1. CASE found = {}
        BY <2>1 DEF Desk!ActRead
    <2>2. CASE found # {}
        <3>1. act' = [act EXCEPT ![a].pc = "next", ![a].todo = items]
            BY <2>2 DEF Desk!ActRead
        <3> HIDE DEF items, found
        <3>2. \A b \in Desk!Acts : b # a => act'[b] = act[b]
            BY <3>1, <1>1
        <3>3. act'[a] = [act[a] EXCEPT !.pc = "next", !.todo = items]
            BY <3>1, <1>1 DEF ActRecord
        <3>4. act' = [b \in Desk!Acts |-> act'[b]]
            BY <3>1, <1>1
        <3> QED
            BY <1>1, <2>2, <3>2, <3>3, <3>4
    <2> QED
        BY <2>1, <2>2
<1>4. r \in ActRecord /\ ActKnows(r, filed, taken, place)
    <2> HIDE DEF items, found
    <2>1. CASE found = {}
        <3>1. r = Desk!NoAct
            BY <2>1
        <3>2. Desk!NoAct.todo = {} /\ Desk!NoAct.done = {}
            BY DEF Desk!NoAct
        <3> QED
            BY <3>1, <3>2, NoActTyped, NothingKnown
    <2>2. CASE found # {}
        <3>1. r = [act[a] EXCEPT !.pc = "next", !.todo = items]
            BY <2>2
        <3> HIDE DEF r
        <3>2. /\ r \in ActRecord /\ r.todo = items
              /\ r.ids = act[a].ids /\ r.done = act[a].done /\ r.deed = act[a].deed
              /\ r.goal = act[a].goal
            BY <1>1, <1>2, <3>1 DEF ActRecord
        <3> QED
            BY <1>1, <1>2, <3>2 DEF ActKnows
    <2> QED
        BY <2>1, <2>2
<1>5. UNCHANGED <<place, tab, bar, list, load, offer, rules, filed, taken, polls>>
    BY DEF Desk!ActRead, Desk!panel, Desk!bounds
<1>6. Places(place', polls) /\ \A b \in Desk!Acts : Undisturbed(b)
    BY <1>5, PlacesKept, NobodyDisturbed
<1>7. bar' \in Tabs /\ taken' \subseteq Filable
    BY <1>5 DEF DeskInv, DeskTyped
<1> HIDE DEF r, items, found
<1>8. ActKnows(r, filed', taken', place')
    BY <1>4, <1>5
<1> QED
    BY <1>3, <1>4, <1>5, <1>6, <1>7, <1>8, OfferStays, RequestStep

\* The item of a request is a row of a message, in a folder.
LEMMA ItemFields ==
    ASSUME Desk!DeskConstants, DeskInv, NEW a \in Desk!Acts, NEW item \in act[a].todo
    PROVE  /\ item.id \in Desk!Ids /\ item.id.msg \in Filable /\ item.folder \in Tabs
           /\ item.id \in act[a].ids
           /\ Desk!Target(a, item) \in Tabs
           /\ act[a].goal \in Tabs
<1>1. act[a] \in ActRecord /\ ActKnows(act[a], filed, taken, place)
    BY DEF DeskInv, DeskTyped, ActsKnow
<1>2. item.id \in Desk!Ids /\ item.folder \in Tabs /\ item.id \in act[a].ids
    BY <1>1 DEF ActRecord, FoundRow, ActKnows
<1>3. act[a].goal \in Tabs /\ TrashTab \in Tabs
    BY <1>1 DEF ActRecord, Desk!DeskConstants
<1>4. item.id.msg \in Filable
    BY <1>2 DEF Desk!Ids
<1> QED
    BY <1>2, <1>3, <1>4 DEF Desk!Target

\* One item over keeps the invariant, if what a move did is in the books and
\* no other item was touched without a note.
LEMMA KeptByOneOver ==
    ASSUME Desk!DeskConstants, DeskInv, NEW a \in Desk!Acts, NEW item \in act[a].todo, NEW ok \in BOOLEAN,
           Desk!Over(a, item, ok), filed \subseteq filed', taken \subseteq taken', taken' \subseteq Filable,
           ok /\ act[a].deed = "move" =>
               Desk!In(item.id.msg, act[a].goal) \in filed' \/ item.id.msg \in taken',
           \A b \in Desk!Acts \ {a} : Undisturbed(b),
           \A n \in Filable : n # item.id.msg => place'[n] = place[n],
           Places(place', polls), polls' = polls, tab' = tab, bar' = bar,
           load' = load, list' = list, rules' = rules, offer' = offer
    PROVE  DeskInv'
<1>1. DeskTyped /\ ActKnows(act[a], filed, taken, place) /\ act[a] \in ActRecord
    BY DEF DeskInv, DeskTyped, ActsKnow
<1>2. PICK r \in ActRecord :
          /\ act' = [act EXCEPT ![a] = r]
          /\ r.ids = act[a].ids /\ r.deed = act[a].deed /\ r.goal = act[a].goal
          /\ r.todo = act[a].todo \ {item}
          /\ r.done = act[a].done \union (IF ok THEN {item.id} ELSE {})
    BY <1>1, OneOver
<1>3. ActKnows(r, filed', taken', place')
    <2>1. r.done \subseteq r.ids /\ \A i \in r.todo : i.id \in r.ids
        BY <1>1, <1>2, ItemFields DEF ActKnows
    <2>2. ASSUME r.deed = "move", NEW i \in r.done
          PROVE  Desk!In(i.msg, r.goal) \in filed' \/ i.msg \in taken'
        <3>1. CASE i \in act[a].done
            BY <1>1, <1>2, <2>2, <3>1 DEF ActKnows
        <3>2. CASE i \notin act[a].done
            <4>1. ok /\ i = item.id
                BY <1>2, <2>2, <3>2
            <4> QED
                BY <1>2, <2>2, <4>1
        <3> QED
            BY <3>1, <3>2
    <2>3. \A i, j \in r.todo : i.id.msg = j.id.msg => i = j
        BY <1>1, <1>2 DEF ActKnows
    <2>4. ASSUME NEW i \in r.todo, i.synced PROVE StillAt(i, place') \/ i.id.msg \in taken'
        <3>1. i \in act[a].todo /\ i.id.msg # item.id.msg
            BY <1>1, <1>2 DEF ActKnows
        <3>2. i.id.msg \in Filable
            BY <1>1, <3>1 DEF ActRecord, FoundRow, Desk!Ids
        <3>3. place'[i.id.msg] = place[i.id.msg]
            BY <3>1, <3>2
        <3> QED
            BY <1>1, <2>4, <3>1, <3>3 DEF ActKnows, StillAt
    <2> QED
        BY <2>1, <2>2, <2>3, <2>4 DEF ActKnows
<1>4. bar' \in Tabs /\ list' \subseteq list
    BY DEF DeskInv, DeskTyped
<1> QED
    BY <1>2, <1>3, <1>4, OfferStays, RequestStep

\* An item refused, or already where it should go.
LEMMA KeptBySkipping ==
    ASSUME Desk!DeskConstants, DeskInv, NEW a \in Desk!Acts, NEW item \in act[a].todo, Desk!ActSkip(a, item)
    PROVE  DeskInv'
<1>1. UNCHANGED <<place, tab, bar, list, load, offer, rules, taken, polls>>
    BY DEF Desk!ActSkip, Desk!panel, Desk!bounds
<1>2. /\ Places(place', polls) /\ taken' \subseteq Filable
      /\ \A b \in Desk!Acts : Undisturbed(b)
    BY <1>1, PlacesKept, NobodyDisturbed DEF DeskInv, DeskTyped
<1>3. CASE Desk!Over(a, item, FALSE) /\ filed' = filed
    BY <1>1, <1>2, <1>3, KeptByOneOver
<1>4. CASE /\ act[a].deed # "destroy" /\ Desk!Target(a, item) = item.folder
           /\ Desk!Over(a, item, TRUE)
           /\ filed' = filed \union {Desk!In(item.id.msg, item.folder)}
    <2>1. act[a].deed = "move" => Desk!In(item.id.msg, act[a].goal) \in filed'
        BY <1>4 DEF Desk!Target
    <2> QED
        BY <1>1, <1>2, <1>4, <2>1, KeptByOneOver
<1> QED
    BY <1>3, <1>4 DEF Desk!ActSkip

\* An item that is not where it was read was taken by somebody else.
LEMMA GoneMeansTaken ==
    ASSUME DeskInv, NEW a \in Desk!Acts, NEW item \in act[a].todo, ~Desk!Refused(a, item)
    PROVE  Desk!StillThere(item) \/ item.id.msg \in taken
BY DEF DeskInv, ActsKnow, ActKnows, StillAt, Desk!StillThere, Desk!Refused

\* An item moved; or not found, and believed to be moved.
LEMMA KeptByMoving ==
    ASSUME Desk!DeskConstants, DeskInv, NEW a \in Desk!Acts, NEW item \in act[a].todo, Desk!ActMove(a, item)
    PROVE  DeskInv'
<1>1. UNCHANGED <<tab, bar, list, load, offer, rules, polls>> /\ Desk!Over(a, item, TRUE)
    BY DEF Desk!ActMove, Desk!panel, Desk!bounds
<1>2. item.id.msg \in Filable /\ Desk!Target(a, item) \in Tabs
    BY ItemFields
<1>3. CASE /\ Desk!StillThere(item) /\ Desk!Moved(item.id.msg, Desk!Target(a, item))
           /\ Desk!Noted(item.id.msg, Desk!Acts \ {a})
           /\ filed' = filed \union {Desk!In(item.id.msg, Desk!Target(a, item))}
    <2>1. Places(place', polls)
        BY <1>2, <1>3, PlacesKept, PlacesMoved
    <2>2. \A n \in Filable : n # item.id.msg => place'[n] = place[n]
        BY <1>3 DEF Desk!Moved, DeskInv, DeskTyped
    <2>3. /\ taken \subseteq taken' /\ taken' \subseteq Filable
          /\ \A b \in Desk!Acts \ {a} : Undisturbed(b)
        BY <1>2, <1>3, <2>2, NotedFor
    <2>4. act[a].deed = "move" => Desk!In(item.id.msg, act[a].goal) \in filed'
        BY <1>3 DEF Desk!Target
    <2> QED
        BY <1>1, <1>3, <2>1, <2>2, <2>3, <2>4, KeptByOneOver
<1>4. CASE ~Desk!StillThere(item) /\ UNCHANGED <<place, filed, taken>>
    <2>1. /\ Places(place', polls) /\ taken' \subseteq Filable
          /\ \A b \in Desk!Acts : Undisturbed(b)
        BY <1>4, PlacesKept, NobodyDisturbed DEF DeskInv, DeskTyped
    <2>2. item.id.msg \in taken'
        BY <1>4, GoneMeansTaken DEF Desk!ActMove
    <2> QED
        BY <1>1, <1>4, <2>1, <2>2, KeptByOneOver
<1> QED
    BY <1>3, <1>4 DEF Desk!ActMove

\* A message destroyed is still a row of the model.
LEMMA PlacesDestroyed ==
    ASSUME Places(place, polls), NEW m \in Filable, place' = [place EXCEPT ![m].folder = Gone]
    PROVE  Places(place', polls) /\ \A n \in Filable : n # m => place'[n] = place[n]
<1> DEFINE Row == [folder : Tabs \union {Gone}, synced : BOOLEAN, row : 0..MaxPolls]
<1>1. place \in [Filable -> Row] /\ place[m] \in Row
    BY DEF Places
<1>2. place' = [place EXCEPT ![m] = [place[m] EXCEPT !.folder = Gone]]
    BY <1>1
<1>3. /\ [place[m] EXCEPT !.folder = Gone] \in Row
      /\ [place[m] EXCEPT !.folder = Gone].row = place[m].row
    BY <1>1
<1> QED
    BY <1>1, <1>2, <1>3 DEF Places

\* An item destroyed, or believed to be.
LEMMA KeptByDestroying ==
    ASSUME Desk!DeskConstants, DeskInv, NEW a \in Desk!Acts, NEW item \in act[a].todo, Desk!ActDestroy(a, item)
    PROVE  DeskInv'
<1>1. UNCHANGED <<tab, bar, list, load, offer, rules, filed, polls>>
    BY DEF Desk!ActDestroy, Desk!panel, Desk!bounds
<1>2. Desk!Over(a, item, TRUE) /\ act[a].deed # "move"
    BY DEF Desk!ActDestroy
<1>3. CASE place' = [place EXCEPT ![item.id.msg].folder = Gone] /\ Desk!Noted(item.id.msg, Desk!Acts \ {a})
    <2>1. /\ Places(place', polls) /\ item.id.msg \in Filable
          /\ \A n \in Filable : n # item.id.msg => place'[n] = place[n]
        BY <1>3, PlacesKept, ItemFields, PlacesDestroyed
    <2>2. /\ taken \subseteq taken' /\ taken' \subseteq Filable
          /\ \A b \in Desk!Acts \ {a} : Undisturbed(b)
        BY <1>3, <2>1, NotedFor
    <2> QED
        BY <1>1, <1>2, <2>1, <2>2, KeptByOneOver
<1>4. CASE UNCHANGED <<place, taken>>
    <2>1. /\ Places(place', polls) /\ taken' \subseteq Filable
          /\ \A b \in Desk!Acts : Undisturbed(b)
        BY <1>4, PlacesKept, NobodyDisturbed DEF DeskInv, DeskTyped
    <2> QED
        BY <1>1, <1>2, <1>4, <2>1, KeptByOneOver
<1> QED
    BY <1>3, <1>4 DEF Desk!ActDestroy

\* An item that fails.
LEMMA KeptByFailing ==
    ASSUME Desk!DeskConstants, DeskInv, NEW a \in Desk!Acts, NEW item \in act[a].todo, Desk!ActFails(a, item)
    PROVE  DeskInv'
<1>1. UNCHANGED <<place, tab, bar, list, load, offer, rules, filed, taken, polls>>
    BY DEF Desk!ActFails, Desk!panel, Desk!bounds
<1>2. /\ Places(place', polls) /\ taken' \subseteq Filable
      /\ \A b \in Desk!Acts : Undisturbed(b)
    BY <1>1, PlacesKept, NobodyDisturbed DEF DeskInv, DeskTyped
<1>3. Desk!Over(a, item, FALSE)
    BY DEF Desk!ActFails
<1> QED
    BY <1>1, <1>2, <1>3, KeptByOneOver

\* A request that dies.
LEMMA KeptByDying ==
    ASSUME Desk!DeskConstants, DeskInv, NEW a \in Desk!Acts, Desk!ActDies(a)
    PROVE  DeskInv'
<1>1. UNCHANGED <<place, tab, bar, list, load, offer, rules, filed, taken, polls>>
    BY DEF Desk!ActDies, Desk!panel, Desk!bounds
<1>2. Places(place', polls) /\ \A b \in Desk!Acts : Undisturbed(b)
    BY <1>1, PlacesKept, NobodyDisturbed
<1>3. Desk!NoAct.todo = {} /\ Desk!NoAct.done = {} /\ Desk!NoAct \in ActRecord
    BY NoActTyped DEF Desk!NoAct
<1>4. ActKnows(Desk!NoAct, filed', taken', place')
    BY <1>3, NothingKnown
<1>5. act' = [act EXCEPT ![a] = Desk!NoAct]
    BY DEF Desk!ActDies
<1>6. bar' \in Tabs /\ list' \subseteq list /\ taken' \subseteq Filable
    BY <1>1 DEF DeskInv, DeskTyped
<1> QED
    BY <1>1, <1>2, <1>3, <1>4, <1>5, <1>6, OfferStays, RequestStep

\* A set of one element has one.
LEMMA OneSender ==
    ASSUME Desk!DeskConstants, NEW S \in SUBSET Senders, Cardinality(S) = 1
    PROVE  \A x, y \in S : x = y
<1>1. IsFiniteSet(Senders)
    <2>1. \E f : f \in Surjection(Filable, Senders)
        <3> DEFINE f == [m \in Filable |-> Sender[m]]
        <3>1. f \in [Filable -> Senders] /\ \A x \in Senders : \E m \in Filable : f[m] = x
            BY DEF Senders
        <3>2. f \in Surjection(Filable, Senders)
            BY <3>1, Fun_IsSurj
        <3> QED
            BY <3>2
    <2> QED
        BY <2>1, FS_Surjection, SameCardinality DEF Desk!DeskConstants
<1>2. IsFiniteSet(S)
    BY <1>1, FS_Subset
<1>3. \E x : S = {x}
    BY <1>2, FS_Singleton
<1> QED
    BY <1>3

\* The offered rule is what the moves of one sender did.
LEMMA KeptByReplying ==
    ASSUME Desk!DeskConstants, DeskInv, NEW a \in Desk!Acts, Desk!ActReply(a)
    PROVE  DeskInv'
<1> DEFINE listed == Desk!DoneRows(a)
           senders == {Sender[k.id.msg] : k \in listed}
           offered == {Desk!In(k.id.msg, act[a].goal) : k \in listed}
<1>1. UNCHANGED <<place, tab, load, rules, filed, taken, polls>>
    BY DEF Desk!ActReply, Desk!bounds
<1>2. /\ Places(place', polls) /\ taken' \subseteq Filable
      /\ \A b \in Desk!Acts : Undisturbed(b)
    BY <1>1, PlacesKept, NobodyDisturbed DEF DeskInv, DeskTyped
<1>3. Desk!NoAct.todo = {} /\ Desk!NoAct.done = {} /\ Desk!NoAct \in ActRecord
    BY NoActTyped DEF Desk!NoAct
<1>4. ActKnows(Desk!NoAct, filed', taken', place')
    BY <1>3, NothingKnown
<1>5. act' = [act EXCEPT ![a] = Desk!NoAct]
    BY DEF Desk!ActReply
<1>6. list' \subseteq list /\ bar' \in Tabs
    <2>1. list' = {k \in list : k.id \notin act[a].ids} \/ list' = list \ listed
        BY DEF Desk!ActReply
    <2>2. bar' = bar \/ bar' = tab
        BY DEF Desk!ActReply
    <2> QED
        BY <2>1, <2>2 DEF DeskInv, DeskTyped
<1>7. offer' \subseteq Filings /\ (\A o \in offer' : Desk!Backed(o)') /\ \A o, p \in offer' : o = p
    <2>1. CASE offer' = offer
        BY <1>1, <2>1, OfferStays
    <2>2. CASE offer' = {}
        BY <2>2
    <2>3. CASE act[a].deed = "move" /\ Cardinality(senders) = 1 /\ offer' = offered
        <3>1. \A k \in listed : k.id \in act[a].done /\ k.id.msg \in Filable
            BY DEF Desk!DoneRows, DeskInv, DeskTyped, RenderedRow, Desk!Ids
        <3>2. act[a].goal \in Tabs /\ ActKnows(act[a], filed, taken, place)
            BY DEF DeskInv, DeskTyped, ActsKnow, ActRecord
        <3>3. \A k \in listed : Desk!In(k.id.msg, act[a].goal) \in Filings
            BY <3>1, <3>2, FiledUnder
        <3>4. ASSUME NEW o \in offered PROVE Desk!Backed(o)'
            <4>1. PICK k \in listed : o = Desk!In(k.id.msg, act[a].goal)
                OBVIOUS
            <4>2. o \in filed \/ k.id.msg \in taken
                BY <2>3, <3>1, <3>2, <4>1 DEF ActKnows
            <4>3. o.from = Sender[k.id.msg]
                BY <4>1 DEF Desk!In
            <4> QED
                BY <1>1, <4>2, <4>3 DEF Desk!Backed
        <3>5. senders \in SUBSET Senders
            BY <3>1 DEF Senders
        <3>6. \A k, l \in listed : Sender[k.id.msg] = Sender[l.id.msg]
            <4>1. \A x, y \in senders : x = y
                BY <2>3, <3>5, OneSender
            <4> QED
                BY <4>1
        <3>7. \A k, l \in listed : Desk!In(k.id.msg, act[a].goal) = Desk!In(l.id.msg, act[a].goal)
            BY <3>6 DEF Desk!In
        <3>8. offered \subseteq Filings /\ \A o, p \in offered : o = p
            BY <3>3, <3>7
        <3> HIDE DEF offered
        <3> QED
            BY <2>3, <3>4, <3>8
    <2> QED
        BY <2>1, <2>2, <2>3, SameCardinality DEF Desk!ActReply
<1>8. filed \subseteq filed' /\ taken \subseteq taken' /\ load' = load /\ rules' = rules /\ tab' = tab /\ polls' = polls
    BY <1>1
<1> QED
    BY <1>2, <1>3, <1>4, <1>5, <1>6, <1>7, <1>8, RequestStep

\* The offer is taken, or not.
LEMMA KeptByAnswering ==
    ASSUME Desk!DeskConstants, DeskInv, Desk!Answer
    PROVE  DeskInv'
<1>1. UNCHANGED <<place, tab, bar, list, load, act, filed, taken, polls>> /\ offer' = {}
    BY DEF Desk!Answer, Desk!panel, Desk!bounds
<1>2. rules' \subseteq rules \union offer
    BY DEF Desk!Answer
<1>3. DeskTyped'
    BY <1>1 DEF DeskInv, DeskTyped
<1>4. DeskLists'
    BY <1>1 DEF DeskInv, DeskLists, OncePerRow
<1>5. ActsKnow'
    BY <1>1 DEF DeskInv, ActsKnow, ActKnows
<1>6. OffersFiled' /\ Desk!RuleFromAMove'
    BY <1>1, <1>2 DEF DeskInv, OffersFiled, Desk!RuleFromAMove, Desk!Backed
<1> QED
    BY <1>3, <1>4, <1>5, <1>6 DEF DeskInv

\* What concerns the list only.
LEMMA ListStep ==
    ASSUME DeskInv, UNCHANGED <<place, act, offer, rules, filed, taken, polls>>,
           tab' \in Tabs, bar' \in Tabs, list' \subseteq RenderedRow, OncePerRow(list'),
           load' \in [Desk!Loads -> LoadRecord], \A l \in Desk!Loads : OncePerRow(load'[l].rows)
    PROVE  DeskInv'
<1>1. DeskTyped'
    BY DEF DeskInv, DeskTyped
<1>2. DeskLists'
    BY DEF DeskInv, DeskLists, OncePerRow
<1>3. ActsKnow'
    BY DEF DeskInv, ActsKnow, ActKnows
<1>4. OffersFiled' /\ Desk!RuleFromAMove'
    BY DEF DeskInv, OffersFiled, Desk!RuleFromAMove, Desk!Backed
<1> QED
    BY <1>1, <1>2, <1>3, <1>4 DEF DeskInv

\* One load becomes q.
LEMMA OneLoad ==
    ASSUME DeskInv, NEW l \in Desk!Loads, NEW q \in LoadRecord, load' = [load EXCEPT ![l] = q],
           OncePerRow(q.rows)
    PROVE  load' \in [Desk!Loads -> LoadRecord] /\ \A k \in Desk!Loads : OncePerRow(load'[k].rows)
<1>1. load \in [Desk!Loads -> LoadRecord] /\ \A k \in Desk!Loads : OncePerRow(load[k].rows)
    BY DEF DeskInv, DeskTyped, DeskLists
<1>2. \A k \in Desk!Loads : load'[k] = IF k = l THEN q ELSE load[k]
    BY <1>1
<1> QED
    BY <1>1, <1>2

\* Messages give one row each.
LEMMA LinesOfMessages ==
    ASSUME DeskInv, NEW S \in SUBSET Filable, \A m \in S : place[m].folder \in Tabs
    PROVE  {Desk!Line(m) : m \in S} \subseteq RenderedRow /\ OncePerRow({Desk!Line(m) : m \in S})
<1>1. \A m \in S : place[m].row \in 0..MaxPolls
    BY DEF DeskInv, DeskTyped
<1>2. \A m \in S : Desk!Line(m) \in RenderedRow
    BY <1>1 DEF Desk!Line, RenderedRow, Desk!Id, Desk!Ids
<1>3. \A m, n \in S : Desk!Line(m).id = Desk!Line(n).id => m = n
    BY DEF Desk!Line, Desk!Id
<1> QED
    BY <1>2, <1>3 DEF OncePerRow

\* A load begins with the tab it read.
LEMMA LoadStarts ==
    ASSUME Desk!DeskConstants, DeskInv, NEW l \in Desk!Loads, NEW t \in Tabs, Desk!LoadAs(l, t)
    PROVE  load' \in [Desk!Loads -> LoadRecord] /\ \A k \in Desk!Loads : OncePerRow(load'[k].rows)
<1> DEFINE q == [Desk!NoLoad EXCEPT !.pc = "asked", !.tab = t]
<1>1. q \in LoadRecord /\ q.rows = {}
    BY DEF Desk!NoLoad, LoadRecord
<1>2. load' = [load EXCEPT ![l] = q]
    BY DEF Desk!LoadAs
<1> HIDE DEF q
<1>3. OncePerRow(q.rows)
    BY <1>1 DEF OncePerRow
<1> QED
    BY <1>1, <1>2, <1>3, OneLoad

\* Loads, their answers, and a row ticked.
LEMMA KeptByListing ==
    ASSUME Desk!DeskConstants, DeskInv,
           \/ \E l \in Desk!Loads : Desk!LoadRead(l) \/ Desk!LoadShow(l) \/ Desk!Reload(l)
                               \/ \E t \in Tabs \ {tab} : Desk!Tab(l, t)
           \/ \E k \in list : Desk!Check(k)
    PROVE  DeskInv'
<1>1. /\ tab \in Tabs /\ bar \in Tabs /\ list \subseteq RenderedRow /\ OncePerRow(list)
      /\ load \in [Desk!Loads -> LoadRecord] /\ \A l \in Desk!Loads : OncePerRow(load[l].rows)
    BY DEF DeskInv, DeskTyped, DeskLists
<1>2. ASSUME NEW l \in Desk!Loads, NEW t \in Tabs, Desk!Tab(l, t) PROVE DeskInv'
    <2>1. UNCHANGED <<place, act, offer, rules, filed, taken, polls, bar, list>> /\ tab' = t /\ Desk!LoadAs(l, t)
        BY <1>2 DEF Desk!Tab, Desk!bounds
    <2>2. load' \in [Desk!Loads -> LoadRecord] /\ \A k \in Desk!Loads : OncePerRow(load'[k].rows)
        BY <2>1, LoadStarts
    <2> QED
        BY <1>1, <2>1, <2>2, ListStep
<1>3. ASSUME NEW l \in Desk!Loads, Desk!Reload(l) PROVE DeskInv'
    <2>1. UNCHANGED <<place, act, offer, rules, filed, taken, polls, bar, list, tab>> /\ Desk!LoadAs(l, tab)
        BY <1>3 DEF Desk!Reload, Desk!bounds
    <2>2. load' \in [Desk!Loads -> LoadRecord] /\ \A k \in Desk!Loads : OncePerRow(load'[k].rows)
        BY <1>1, <2>1, LoadStarts
    <2> QED
        BY <1>1, <2>1, <2>2, ListStep
<1>4. ASSUME NEW l \in Desk!Loads, Desk!LoadRead(l) PROVE DeskInv'
    <2> DEFINE S == {m \in Filable : place[m].folder = load[l].tab}
               answer == {Desk!Line(m) : m \in S}
               q == [load[l] EXCEPT !.pc = "answered", !.rows = answer]
    <2>1. load[l] \in LoadRecord /\ \A m \in S : place[m].folder \in Tabs
        BY <1>1 DEF LoadRecord
    <2>2. answer \subseteq RenderedRow /\ OncePerRow(answer)
        BY <2>1, LinesOfMessages
    <2>3. load' = [load EXCEPT ![l].pc = "answered", ![l].rows = answer]
        BY <1>4 DEF Desk!LoadRead
    <2> HIDE DEF S, answer
    <2>4. load' = [load EXCEPT ![l] = q]
        <3>1. \A k \in Desk!Loads : k # l => load'[k] = load[k]
            BY <1>1, <2>3
        <3>2. load'[l] = q
            BY <1>1, <2>3 DEF LoadRecord
        <3>3. load' = [k \in Desk!Loads |-> load'[k]]
            BY <1>1, <2>3
        <3> HIDE DEF q
        <3> QED
            BY <1>1, <3>1, <3>2, <3>3
    <2>5. q \in LoadRecord /\ q.rows = answer
        BY <2>1, <2>2 DEF LoadRecord
    <2>6. UNCHANGED <<place, act, offer, rules, filed, taken, polls, tab, bar, list>>
        BY <1>4 DEF Desk!LoadRead, Desk!bounds
    <2> HIDE DEF q
    <2>7. OncePerRow(q.rows)
        BY <2>2, <2>5
    <2>8. load' \in [Desk!Loads -> LoadRecord] /\ \A k \in Desk!Loads : OncePerRow(load'[k].rows)
        BY <2>4, <2>5, <2>7, OneLoad
    <2> QED
        BY <1>1, <2>6, <2>8, ListStep
<1>5. ASSUME NEW l \in Desk!Loads, Desk!LoadShow(l) PROVE DeskInv'
    <2>1. Desk!NoLoad \in LoadRecord /\ OncePerRow(Desk!NoLoad.rows)
        BY DEF Desk!NoLoad, LoadRecord, Desk!DeskConstants, OncePerRow
    <2>2. load' \in [Desk!Loads -> LoadRecord] /\ \A k \in Desk!Loads : OncePerRow(load'[k].rows)
        BY <1>5, <2>1, OneLoad DEF Desk!LoadShow
    <2>3. list' \subseteq RenderedRow /\ OncePerRow(list')
        BY <1>1, <1>5 DEF Desk!LoadShow, LoadRecord
    <2>4. UNCHANGED <<place, act, offer, rules, filed, taken, polls, tab>> /\ bar' = tab
        BY <1>5 DEF Desk!LoadShow, Desk!bounds
    <2> QED
        BY <1>1, <2>2, <2>3, <2>4, ListStep
<1>6. ASSUME NEW k \in list, Desk!Check(k) PROVE DeskInv'
    <2> DEFINE t == [k EXCEPT !.on = TRUE]
    <2>1. t \in RenderedRow /\ t.id = k.id
        BY <1>1 DEF RenderedRow
    <2>2. list' = (list \ {k}) \union {t}
        BY <1>6 DEF Desk!Check
    <2> HIDE DEF t
    <2>3. list' \subseteq RenderedRow /\ OncePerRow(list')
        BY <1>1, <2>1, <2>2 DEF OncePerRow
    <2>4. UNCHANGED <<place, act, offer, rules, filed, taken, polls, tab, load>> /\ bar' = tab
        BY <1>6 DEF Desk!Check, Desk!bounds
    <2> QED
        BY <1>1, <2>3, <2>4, ListStep
<1> QED
    BY <1>2, <1>3, <1>4, <1>5, <1>6

\* The other panel and the poll change where messages are: a request that has
\* read one of them is noted, unless the row was on its way already.
LEMMA KeptElsewhere ==
    ASSUME Desk!DeskConstants, DeskInv, NEW m \in Filable,
           Desk!Poll(m) \/ \E f \in Tabs : Desk!Elsewhere(m, f)
    PROVE  DeskInv'
<1> DEFINE Row == [folder : Tabs \union {Gone}, synced : BOOLEAN, row : 0..MaxPolls]
<1>1. Places(place, polls) /\ polls \in Nat /\ MaxPolls \in Nat
    BY PlacesKept DEF DeskInv, DeskTyped, Desk!DeskConstants
<1>2. UNCHANGED <<tab, bar, list, load, act, offer, rules, filed>>
    BY DEF Desk!Poll, Desk!Elsewhere, Desk!panel
<1>7. /\ taken \subseteq taken' /\ taken' \subseteq Filable
      /\ \A b \in Desk!Acts : Undisturbed(b)
    <2>1. CASE Desk!Poll(m)
        <3>1. /\ taken' = taken /\ ~place[m].synced
              /\ \A n \in Filable : n # m => place'[n] = place[n]
            BY <1>1, <2>1 DEF Desk!Poll, Places
        <3>2. ASSUME NEW b \in Desk!Acts, NEW i \in act[b].todo, StillAt(i, place)
              PROVE  StillAt(i, place')
            <4>1. i.id.msg \in Filable
                BY DEF DeskInv, DeskTyped, ActRecord, FoundRow, Desk!Ids
            <4> QED
                BY <3>1, <3>2, <4>1 DEF StillAt
        <3> QED
            BY <3>1, <3>2 DEF Undisturbed, DeskInv, DeskTyped
    <2>2. ASSUME NEW f \in Tabs, Desk!Elsewhere(m, f)
          PROVE  /\ taken \subseteq taken' /\ taken' \subseteq Filable
                 /\ \A b \in Desk!Acts : Undisturbed(b)
        <3>1. Desk!Noted(m, Desk!Acts) /\ \A n \in Filable : n # m => place'[n] = place[n]
            BY <1>1, <2>2 DEF Desk!Elsewhere, Desk!Moved, Places
        <3> QED
            BY <3>1, NotedFor
    <2> QED
        BY <2>1, <2>2
<1>3. Places(place', polls') /\ polls' \in Nat
    <2>1. CASE Desk!Poll(m)
        <3>1. place \in [Filable -> Row] /\ place[m] \in Row /\ place[m].row <= polls
            BY <1>1 DEF Places
        <3>2. polls < MaxPolls /\ polls' = polls + 1
            BY <2>1 DEF Desk!Poll
        <3>3. place' = [place EXCEPT ![m] = [place[m] EXCEPT !.synced = TRUE,
                                                             !.row = place[m].row + 1]]
            <4>1. \A n \in Filable : n # m => place'[n] = place[n]
                BY <2>1, <3>1 DEF Desk!Poll
            <4>2. place'[m] = [place[m] EXCEPT !.synced = TRUE, !.row = place[m].row + 1]
                BY <2>1, <3>1 DEF Desk!Poll
            <4>3. place' = [n \in Filable |-> place'[n]]
                BY <2>1, <3>1 DEF Desk!Poll
            <4> QED
                BY <3>1, <4>1, <4>2, <4>3
        <3>4. /\ [place[m] EXCEPT !.synced = TRUE, !.row = place[m].row + 1] \in Row
              /\ [place[m] EXCEPT !.synced = TRUE, !.row = place[m].row + 1].row = place[m].row + 1
            <4>1. place[m].row + 1 \in 0..MaxPolls
                <5>1. place[m].row \in Nat
                    BY <3>1
                <5> QED
                    BY <1>1, <3>1, <3>2, <5>1
            <4> QED
                BY <3>1, <4>1
        <3> HIDE DEF Row
        <3>5. place' \in [Filable -> Row]
            BY <3>1, <3>3, <3>4
        <3>6. \A n \in Filable : place'[n].row <= polls'
            <4> SUFFICES ASSUME NEW n \in Filable PROVE place'[n].row <= polls'
                OBVIOUS
            <4>1. CASE n = m
                <5>1. place[m].row \in Nat
                    BY <1>1, <3>1 DEF Row
                <5> QED
                    BY <1>1, <3>1, <3>2, <3>3, <3>4, <4>1, <5>1
            <4>2. CASE n # m
                <5>1. place'[n] = place[n] /\ place[n].row \in Nat /\ place[n].row <= polls
                    BY <1>1, <3>1, <3>3, <4>2 DEF Places, Row
                <5> QED
                    BY <1>1, <3>2, <5>1
            <4> QED
                BY <4>1, <4>2
        <3> QED
            BY <1>1, <3>2, <3>5, <3>6 DEF Places, Row
    <2>2. ASSUME NEW f \in Tabs, Desk!Elsewhere(m, f) PROVE Places(place', polls') /\ polls' \in Nat
        BY <1>1, <2>2, PlacesMoved DEF Desk!Elsewhere
    <2> QED
        BY <2>1, <2>2
<1>4. DeskTyped'
    BY <1>2, <1>3, <1>7 DEF DeskInv, DeskTyped, Places
<1>5. DeskLists'
    BY <1>2 DEF DeskInv, DeskLists, OncePerRow
<1>6. ActsKnow'
    BY <1>2, <1>7, KnowsStill DEF DeskInv, ActsKnow
<1>8. OffersFiled' /\ Desk!RuleFromAMove'
    BY <1>2, <1>7, BackedStill DEF DeskInv, OffersFiled, Desk!RuleFromAMove
<1> QED
    BY <1>4, <1>5, <1>6, <1>8 DEF DeskInv

-----------------------------------------------------------------------------
(* The theorems *)

\* The panel opens with nothing done.
LEMMA DeskStarts == ASSUME Desk!DeskConstants, Desk!Init PROVE DeskInv
<1>1. DeskTyped
    <2>1. load \in [Desk!Loads -> LoadRecord]
        BY DEF Desk!Init, Desk!NoLoad, LoadRecord, Desk!DeskConstants
    <2>2. act \in [Desk!Acts -> ActRecord]
        BY NoActTyped DEF Desk!Init
    <2>3. place \in [Filable -> [folder : Tabs \union {Gone}, synced : BOOLEAN, row : 0..MaxPolls]]
        BY DEF Desk!Init, Desk!DeskConstants
    <2>4. list \subseteq RenderedRow
        <3>1. \A m \in Filable : place[m].row \in 0..MaxPolls /\ place[m].folder \in Tabs
            BY DEF Desk!Init, Desk!DeskConstants
        <3>2. \A m \in Filable : Desk!Line(m) \in RenderedRow
            BY <3>1 DEF Desk!Line, Desk!Id, Desk!Ids, RenderedRow
        <3> QED
            BY <3>2 DEF Desk!Init
    <2>5. polls \in Nat /\ \A m \in Filable : place[m].row <= polls
        BY DEF Desk!Init
    <2> QED
        BY <2>1, <2>2, <2>3, <2>4, <2>5 DEF Desk!Init, DeskTyped, Desk!DeskConstants
<1>2. DeskLists
    <2>1. OncePerRow(list)
        <3>1. \A m, n \in Filable : Desk!Line(m).id = Desk!Line(n).id => m = n
            BY DEF Desk!Line, Desk!Id
        <3> QED
            BY <3>1 DEF Desk!Init, OncePerRow
    <2>2. \A l \in Desk!Loads : OncePerRow(load[l].rows)
        BY DEF Desk!Init, Desk!NoLoad, OncePerRow
    <2> QED
        BY <2>1, <2>2 DEF Desk!Init, DeskLists
<1>3. ActsKnow
    BY DEF Desk!Init, ActsKnow, ActKnows, Desk!NoAct
<1> QED
    BY <1>1, <1>2, <1>3 DEF Desk!Init, DeskInv, OffersFiled, Desk!RuleFromAMove

\* Every step keeps the invariant.
LEMMA DeskSteps == ASSUME Desk!DeskConstants, DeskInv, [Desk!Next]_Desk!vars PROVE DeskInv'
<1>1. CASE \/ \E l \in Desk!Loads : Desk!LoadRead(l) \/ Desk!LoadShow(l) \/ Desk!Reload(l)
                               \/ \E t \in Tabs \ {tab} : Desk!Tab(l, t)
           \/ \E k \in list : Desk!Check(k)
    BY <1>1, KeptByListing
<1>2. CASE \E m \in Filable : Desk!Poll(m) \/ \E f \in Tabs : Desk!Elsewhere(m, f)
    BY <1>2, KeptElsewhere
<1>3. ASSUME NEW a \in Desk!Acts,
             \/ Desk!ActOnSelection(a) \/ Desk!MoveSelection(a) \/ Desk!ActRead(a) \/ Desk!ActReply(a) \/ Desk!ActDies(a)
             \/ \E k \in list : Desk!ActOnRow(a, k)
      PROVE  DeskInv'
    BY <1>3, KeptByAsking, KeptByReading, KeptByReplying, KeptByDying
<1>4. ASSUME NEW a \in Desk!Acts, NEW i \in act[a].todo,
             Desk!ActSkip(a, i) \/ Desk!ActMove(a, i) \/ Desk!ActDestroy(a, i) \/ Desk!ActFails(a, i)
      PROVE  DeskInv'
    BY <1>4, KeptBySkipping, KeptByMoving, KeptByDestroying, KeptByFailing
<1>5. CASE Desk!Answer
    BY <1>5, KeptByAnswering
<1>6. CASE UNCHANGED Desk!vars
    <2>1. DeskTyped' /\ DeskLists'
        BY <1>6 DEF Desk!vars, DeskInv, DeskTyped, DeskLists, OncePerRow
    <2>2. ActsKnow' /\ OffersFiled' /\ Desk!RuleFromAMove'
        BY <1>6 DEF Desk!vars, DeskInv, ActsKnow, ActKnows, OffersFiled, Desk!RuleFromAMove, Desk!Backed
    <2> QED
        BY <2>1, <2>2 DEF DeskInv
<1> QED
    BY <1>1, <1>2, <1>3, <1>4, <1>5, <1>6 DEF Desk!Next

\* The invariant holds for good.
LEMMA DeskAlways == ASSUME Desk!DeskConstants PROVE Desk!Spec => []DeskInv
<1>1. Desk!Init => DeskInv
    BY DeskStarts
<1>2. DeskInv /\ [Desk!Next]_Desk!vars => DeskInv'
    BY DeskSteps
<1> QED
    BY <1>1, <1>2, PTL DEF Desk!Spec

LEMMA DeskIsTyped == ASSUME Desk!DeskConstants PROVE DeskInv => Desk!TypeOK
<1> SUFFICES ASSUME DeskInv PROVE Desk!TypeOK
    OBVIOUS
<1>1. Cardinality(offer) <= 1
    <2>1. CASE offer = {}
        BY <2>1, FS_EmptySet
    <2>2. CASE \E o : offer = {o}
        BY <2>2, FS_Singleton
    <2> QED
        BY <2>1, <2>2 DEF DeskInv, DeskLists
<1>2. \A l \in Desk!Loads : load[l].pc \in {"idle", "asked", "answered"}
    BY DEF DeskInv, DeskTyped, LoadRecord
<1>3. \A a \in Desk!Acts : /\ act[a].pc \in {"idle", "read", "next", "reply"}
                           /\ act[a].done \subseteq act[a].ids
    BY DEF DeskInv, DeskTyped, ActRecord, ActsKnow, ActKnows
<1> QED
    BY <1>1, <1>2, <1>3, SameCardinality DEF DeskInv, DeskTyped, DeskLists, OncePerRow, RenderedRow,
       Filings, Senders, Desk!TypeOK

\* The state keeps its types, no row is listed twice, and one rule at most is
\* offered at a time.
THEOREM DeskTypes == ASSUME Desk!DeskConstants PROVE Desk!Spec => []Desk!TypeOK
<1>1. DeskInv => Desk!TypeOK
    BY DeskIsTyped
<1> QED
    BY <1>1, DeskAlways, PTL

\* A standing rule only says what mail of that sender was moved, or found,
\* where the rule says, never what a failed or a forgotten move would have; or
\* somebody else took that sender's mail from under a request, which counts it
\* as moved all the same (organize.ts:143-144).
THEOREM RulesFollowMoves == ASSUME Desk!DeskConstants PROVE Desk!Spec => []Desk!RuleFromAMove
<1>1. DeskInv => Desk!RuleFromAMove
    BY DEF DeskInv
<1> QED
    BY <1>1, DeskAlways, PTL

LEMMA DestroyedInTrash ==
    ASSUME Desk!DeskConstants, DeskInv, [Desk!Next]_Desk!vars
    PROVE  \A m \in Filable : place'[m].folder = Gone => place[m].folder \in {TrashTab, Gone}
<1> SUFFICES ASSUME NEW m \in Filable, place'[m].folder = Gone
             PROVE  place[m].folder \in {TrashTab, Gone}
    OBVIOUS
<1> DEFINE Row == [folder : Tabs \union {Gone}, synced : BOOLEAN, row : 0..MaxPolls]
<1>1. place \in [Filable -> Row] /\ Gone \notin Tabs
    BY DEF DeskInv, DeskTyped, Desk!DeskConstants
<1>2. CASE place' = place
    BY <1>2
<1>3. ASSUME NEW n \in Filable, NEW f \in Tabs, Desk!Moved(n, f)
      PROVE  place[m].folder \in {TrashTab, Gone}
    BY <1>1, <1>3 DEF Desk!Moved
<1>4. ASSUME NEW n \in Filable, Desk!Poll(n) PROVE place[m].folder \in {TrashTab, Gone}
    BY <1>1, <1>4 DEF Desk!Poll
<1>5. ASSUME NEW a \in Desk!Acts, NEW i \in act[a].todo, Desk!ActDestroy(a, i)
      PROVE  place[m].folder \in {TrashTab, Gone}
    <2>1. i.id.msg \in Filable
        BY <1>5, ItemFields
    <2>2. i.folder = TrashTab
        BY <1>5 DEF Desk!ActDestroy, Desk!Refused
    <2>3. CASE place' = place
        BY <2>3
    <2>4. CASE Desk!StillThere(i) /\ place' = [place EXCEPT ![i.id.msg].folder = Gone]
        BY <1>1, <2>1, <2>2, <2>4 DEF Desk!StillThere
    <2> QED
        BY <1>5, <2>3, <2>4 DEF Desk!ActDestroy
<1>6. ASSUME NEW a \in Desk!Acts, NEW i \in act[a].todo, Desk!ActMove(a, i)
      PROVE  place[m].folder \in {TrashTab, Gone}
    BY <1>2, <1>3, <1>6, ItemFields DEF Desk!ActMove
<1>7. ASSUME NEW n \in Filable, NEW f \in Tabs, Desk!Elsewhere(n, f)
      PROVE  place[m].folder \in {TrashTab, Gone}
    BY <1>3, <1>7 DEF Desk!Elsewhere
<1>8. CASE \/ \E l \in Desk!Loads : Desk!LoadRead(l) \/ Desk!LoadShow(l) \/ Desk!Reload(l)
                               \/ \E t \in Tabs \ {tab} : Desk!Tab(l, t)
           \/ \E k \in list : Desk!Check(k)
    BY <1>2, <1>8 DEF Desk!LoadRead, Desk!LoadShow, Desk!Reload, Desk!Tab, Desk!Check
<1>9. ASSUME NEW a \in Desk!Acts,
             \/ Desk!ActOnSelection(a) \/ Desk!MoveSelection(a) \/ \E k \in list : Desk!ActOnRow(a, k)
             \/ Desk!ActRead(a) \/ Desk!ActReply(a) \/ Desk!ActDies(a)
      PROVE  place[m].folder \in {TrashTab, Gone}
    BY <1>2, <1>9 DEF Desk!ActOnSelection, Desk!MoveSelection, Desk!ActOnRow, Desk!Ask, Desk!ActRead, Desk!ActReply, Desk!ActDies
<1>10. ASSUME NEW a \in Desk!Acts, NEW i \in act[a].todo, Desk!ActSkip(a, i) \/ Desk!ActFails(a, i)
       PROVE  place[m].folder \in {TrashTab, Gone}
    BY <1>2, <1>10 DEF Desk!ActSkip, Desk!ActFails
<1>11. CASE Desk!Answer \/ UNCHANGED Desk!vars
    BY <1>2, <1>11 DEF Desk!Answer, Desk!vars
<1> QED
    BY <1>4, <1>5, <1>6, <1>7, <1>8, <1>9, <1>10, <1>11 DEF Desk!Next

\* The one step without an undo is taken in Trash only (organize.ts:126),
\* whatever the panel showed when the button was pressed, and however many
\* panels, tabs, polls and failures are in between.
THEOREM NothingElseDestroyed == ASSUME Desk!DeskConstants PROVE Desk!Spec => Desk!DestroyOnlyFromTrash
<1>1. ASSUME DeskInv, [Desk!Next]_Desk!vars
      PROVE  \A m \in Filable : place'[m].folder = Gone => place[m].folder \in {TrashTab, Gone}
    BY <1>1, DestroyedInTrash
<1>2. DeskInv /\ [Desk!Next]_Desk!vars => [\A m \in Filable :
          place'[m].folder = Gone => place[m].folder \in {TrashTab, Gone}]_Desk!vars
    BY <1>1
<1> QED
    BY <1>2, DeskAlways, PTL DEF Desk!Spec, Desk!DestroyOnlyFromTrash

-----------------------------------------------------------------------------
(* Composer                                                                  *)

Uids == 1..MaxCopies
RowRecord == [draft : Drafts, letter : Letters, uid : Uids]
CopyRecord == [letter : Letters, uid : Uids]
FormRecord == [open : BOOLEAN, letter : Letters \union {None}, draft : Drafts \union {None}]
SaveRecord == [pc : {"idle", "read", "append", "drop", "row", "reply"}, draft : Drafts \union {None},
               letter : Letters \union {None}, prev : 0..MaxCopies, uid : 0..MaxCopies]
DropRecord == [pc : {"idle", "post", "read", "drop", "row", "reply"}, draft : Drafts \union {None},
               letter : Letters \union {None}, uid : 0..MaxCopies]

Appended == save.pc \in {"drop", "row", "reply"}
Deleting(w) == drop[w].pc \in {"read", "drop", "row"}

ComposerTyped ==
    /\ form \in FormRecord
    /\ form.open \/ form.draft # None => form.letter # None
    /\ drafts \subseteq RowRecord /\ shown \subseteq RowRecord /\ copies \subseteq CopyRecord
    /\ draftUid \in 1..(MaxCopies + 1)
    /\ save \in SaveRecord
    /\ Pen!Saving => save.letter # None
    /\ Pen!Saving /\ save.pc # "append" => save.draft # None
    /\ drop \in [Pen!Ways -> DropRecord]
    /\ \A w \in Pen!Ways : /\ drop[w].pc # "idle" => drop[w].letter # None
                           /\ drop[w].pc = "idle" => drop[w].draft = None
                           /\ Deleting(w) => drop[w].draft # None
                           /\ drop[w].pc = "post" => w = "send"
    /\ told \in [Letters -> {"no", "kept", "over"}]
    /\ Appended => save.uid \in Uids
    /\ hurried \subseteq Letters
    /\ failures \in 0..MaxFailures

\* Of a letter that she waited for: while it is saved nothing is sent or
\* discarded, and the form shows it.
OneAtATime ==
    Pen!Saving => /\ \/ form.letter = save.letter /\ form.draft \in {None, save.draft}
                     \/ form.letter \in hurried /\ save.letter \in hurried
                  /\ \A w \in Pen!Ways : drop[w].pc # "idle" =>
                        drop[w].letter \in hurried /\ save.letter \in hurried

\* Wherever an id occurs with a letter.
Linked(d, l) ==
    \/ \E r \in drafts \union shown : r.draft = d /\ r.letter = l
    \/ form.draft = d /\ form.letter = l
    \/ Pen!Saving /\ save.draft = d /\ save.letter = l
    \/ \E w \in Pen!Ways : drop[w].draft = d /\ drop[w].letter = l

\* An id is of one letter, if of one that she waited for; and of one row.
OneLetter == \A d \in Drafts, k \in Letters, l \in Letters :
                Linked(d, k) /\ Linked(d, l) /\ l \notin hurried => k = l
OneRow == \A q, r \in drafts : q.draft = r.draft => q = r

\* Uids are given once, in order.
Numbered ==
    /\ \A c \in copies : c.uid < draftUid
    /\ \A c, e \in copies : c.uid = e.uid => c = e
    /\ \A r \in drafts : r.uid < draftUid
    /\ save.prev < draftUid /\ save.uid < draftUid
    /\ \A w \in Pen!Ways : drop[w].uid < draftUid
    /\ Appended => save.prev < save.uid

\* A uid is of the letter it was appended for.  Whatever is to be deleted by its
\* uid is of the letter it is deleted for, if that copy is of one she waited for.
Matches ==
    \A c \in copies :
        /\ \A r \in drafts : r.uid = c.uid => r.letter = c.letter
        /\ Appended /\ save.uid = c.uid => save.letter = c.letter
        /\ c.letter \notin hurried =>
            /\ Pen!Saving /\ save.prev = c.uid => save.letter = c.letter
            /\ \A w \in Pen!Ways : drop[w].uid = c.uid => drop[w].letter = c.letter

\* From the append on, the letter is in the folder under its new uid.
Copy(r) == [letter |-> r.letter, uid |-> r.uid]
InFolder == Appended /\ save.letter \notin hurried =>
                \E c \in copies : c.letter = save.letter /\ c.uid = save.uid

\* A draft is deleted only after its letter was sent or discarded.
OverFirst ==
    \A w \in Pen!Ways : drop[w].pc \in {"read", "drop", "row", "reply"} /\ drop[w].letter \notin hurried =>
        told[drop[w].letter] = "over"

KeptInv ==
    /\ ComposerTyped /\ OneAtATime /\ OneLetter /\ OneRow /\ Numbered /\ Matches
    /\ InFolder /\ OverFirst /\ Pen!DraftKept

-----------------------------------------------------------------------------
(* As long as nothing failed, of letters that she waited for *)

Named(l) == \E d \in Drafts : Linked(d, l)

\* A letter has one id.
OneDraft == \A d \in Drafts, e \in Drafts, l \in Letters :
                Linked(d, l) /\ Linked(e, l) /\ l \notin hurried => d = e

\* A letter without an id has none anywhere.
Unnamed ==
    /\ form.open /\ form.draft = None /\ (Pen!Saving => save.draft = None) /\ form.letter \notin hurried
        => ~Named(form.letter)
    /\ Pen!Saving /\ save.draft = None /\ save.letter \notin hurried => ~Named(save.letter)
    /\ drop["send"].pc = "post" /\ drop["send"].draft = None /\ drop["send"].letter \notin hurried
        => ~Named(drop["send"].letter)

\* What the list shows was a row, so the letter was written.
ShownWasWritten ==
    \A r \in shown : r.letter \notin hurried =>
        told[r.letter] # "no" \/ \E q \in drafts : q.letter = r.letter

\* The uid that was read is still the row's, until its copy is gone.
UidRead ==
    /\ save.pc \in {"append", "drop"} => \A r \in drafts : r.draft = save.draft => r.uid = save.prev
    /\ save.pc = "row" => \A r \in drafts : r.draft = save.draft => Copy(r) \notin copies
    /\ \A w \in Pen!Ways, r \in drafts : r.draft = drop[w].draft /\ r.letter \notin hurried =>
          /\ drop[w].pc = "drop" => r.uid = drop[w].uid
          /\ drop[w].pc = "row" => Copy(r) \notin copies

\* Every copy is a row's, but for one whose row is about to be written; every
\* row has its copy, but for one that is about to be replaced or deleted.
Copied ==
    /\ \A c \in copies : c.letter \notin hurried =>
          \/ \E r \in drafts : c = Copy(r)
          \/ (save.pc \in {"drop", "row"} /\ c = Copy(save))
    /\ \A r \in drafts : r.letter \notin hurried =>
          \/ Copy(r) \in copies
          \/ (save.pc = "row" /\ save.draft = r.draft)
          \/ \E w \in Pen!Ways : drop[w].pc = "row" /\ drop[w].draft = r.draft

\* The row of a letter that is over is about to go, or she is about to be told
\* that it is kept after all.
OverGoes ==
    \A r \in drafts : told[r.letter] = "over" /\ r.letter \notin hurried =>
        \/ \E w \in Pen!Ways : Deleting(w) /\ drop[w].draft = r.draft
        \/ (save.pc = "reply" /\ save.draft = r.draft)

AgreeInv ==
    failures = 0 => OneDraft /\ Unnamed /\ ShownWasWritten /\ UidRead /\ Copied /\ OverGoes

-----------------------------------------------------------------------------
(* What a step does to a request *)

SaveOn(to) ==
    /\ save' \in SaveRecord
    /\ save'.pc = to /\ save'.draft = save.draft /\ save'.letter = save.letter
    /\ save'.prev = save.prev /\ save'.uid = save.uid

DropOn(w, to) ==
    /\ drop' \in [Pen!Ways -> DropRecord]
    /\ \A v \in Pen!Ways : v # w => drop'[v] = drop[v]
    /\ drop'[w].pc = to /\ drop'[w].draft = drop[w].draft
    /\ drop'[w].letter = drop[w].letter /\ drop'[w].uid = drop[w].uid

\* A save that goes on to its next statement keeps the rest of what it knows.
LEMMA SaveMoves ==
    ASSUME ComposerTyped, NEW to \in {"append", "drop", "row", "reply"},
           save' = [save EXCEPT !.pc = to]
    PROVE  SaveOn(to)
    BY DEF ComposerTyped, SaveRecord, SaveOn

\* So does a deletion.
LEMMA DropMoves ==
    ASSUME ComposerTyped, NEW w \in Pen!Ways, NEW to \in {"read", "drop", "row", "reply"},
           drop' = [drop EXCEPT ![w].pc = to]
    PROVE  DropOn(w, to)
<1> DEFINE r == [drop[w] EXCEPT !.pc = to]
<1>1. drop' = [drop EXCEPT ![w] = r]
    OBVIOUS
<1>2. drop[w] \in DropRecord
    BY DEF ComposerTyped
<1>3. /\ r \in DropRecord /\ r.pc = to /\ r.draft = drop[w].draft
      /\ r.letter = drop[w].letter /\ r.uid = drop[w].uid
    BY <1>2 DEF DropRecord
<1> HIDE DEF r
<1> QED
    BY <1>1, <1>3 DEF ComposerTyped, DropOn

\* No request, no draft.
LEMMA Nothing ==
    ASSUME Pen!ComposerConstants
    PROVE  /\ Pen!NoSave \in SaveRecord /\ Pen!NoSave.pc = "idle" /\ Pen!NoSave.prev = 0 /\ Pen!NoSave.uid = 0
           /\ Pen!NoDrop \in DropRecord /\ Pen!NoDrop.pc = "idle" /\ Pen!NoDrop.draft = None /\ Pen!NoDrop.uid = 0
    BY DEF Pen!ComposerConstants, Pen!NoSave, Pen!NoDrop, SaveRecord, DropRecord

\* An id that occurs nowhere new is still of one letter.
LEMMA FewerLinks ==
    ASSUME OneLetter, hurried \subseteq hurried',
           \A d \in Drafts, l \in Letters : Linked(d, l)' => Linked(d, l)
    PROVE  OneLetter'
    BY DEF OneLetter

\* The row that a save replaces is of the letter it saves; and, as long as a
\* letter has one id, it is the only row of that letter.
LEMMA SavesRow ==
    ASSUME KeptInv, Pen!Saving, save.draft # None, NEW r \in drafts
    PROVE  /\ r.draft = save.draft /\ (r.letter \notin hurried \/ save.letter \notin hurried)
                => r.letter = save.letter
           /\ OneDraft /\ r.letter = save.letter /\ r.letter \notin hurried => r.draft = save.draft
<1>1. /\ save.draft \in Drafts /\ save.letter \in Letters /\ r.letter \in Letters /\ r.draft \in Drafts
    BY DEF KeptInv, ComposerTyped, SaveRecord, RowRecord
<1>2. Linked(r.draft, r.letter) /\ Linked(save.draft, save.letter)
    BY DEF Linked
<1> QED
    BY <1>1, <1>2 DEF KeptInv, OneLetter, OneDraft

\* The same of the row that a deletion takes.
LEMMA DropsRow ==
    ASSUME KeptInv, NEW w \in Pen!Ways, drop[w].pc # "idle", drop[w].draft # None, NEW r \in drafts
    PROVE  /\ r.draft = drop[w].draft /\ (r.letter \notin hurried \/ drop[w].letter \notin hurried)
                => r.letter = drop[w].letter
           /\ OneDraft /\ r.letter = drop[w].letter /\ r.letter \notin hurried => r.draft = drop[w].draft
<1>1. /\ drop[w].draft \in Drafts /\ drop[w].letter \in Letters /\ r.letter \in Letters
      /\ r.draft \in Drafts
    BY DEF KeptInv, ComposerTyped, DropRecord, RowRecord
<1>2. Linked(r.draft, r.letter) /\ Linked(drop[w].draft, drop[w].letter)
    BY DEF Linked
<1> QED
    BY <1>1, <1>2 DEF KeptInv, OneLetter, OneDraft

-----------------------------------------------------------------------------
(* One lemma for each action *)

\* The form is opened, for a new letter or from the list.
LEMMA OpenKeeps ==
    ASSUME Pen!ComposerConstants, KeptInv, AgreeInv, NEW l \in Letters, NEW d, Pen!openForm(l, d),
           \/ d = None /\ (failures = 0 /\ l \notin hurried => ~Named(l))
           \/ \E r \in shown : r.draft = d /\ r.letter = l
    PROVE  KeptInv' /\ AgreeInv'
<1>e. /\ form' \in FormRecord /\ form'.open = TRUE /\ form'.letter = l /\ form'.draft = d
      /\ hurried \subseteq hurried' /\ hurried' \subseteq Letters
      /\ Pen!Saving => l \in hurried' /\ save.letter \in hurried'
      /\ UNCHANGED <<shown, drafts, copies, draftUid, save, drop, told, failures>>
    BY DEF Pen!openForm, Pen!WhileSaving, Pen!Saving, KeptInv, ComposerTyped, FormRecord, RowRecord,
        SaveRecord
<1>1. ComposerTyped'
    BY <1>e DEF KeptInv, ComposerTyped, Pen!ComposerConstants, Pen!Saving, Deleting, Appended
<1>2. OneAtATime'
    BY <1>e DEF KeptInv, OneAtATime, Pen!Saving
<1>l. ASSUME NEW i \in Drafts, NEW k \in Letters, Linked(i, k)' PROVE Linked(i, k)
    BY <1>e, <1>l DEF Pen!ComposerConstants, Linked, Pen!Saving
<1>3. OneLetter'
    BY <1>e, <1>l, FewerLinks DEF KeptInv
<1>4. OneRow'
    BY <1>e DEF KeptInv, OneRow
<1>5. Numbered'
    BY <1>e DEF KeptInv, Numbered, Appended
<1>6. Matches'
    BY <1>e DEF KeptInv, Matches, Pen!Saving, Appended
<1>7. InFolder'
    BY <1>e DEF KeptInv, InFolder, Appended
<1>8. OverFirst'
    BY <1>e DEF KeptInv, OverFirst
<1>9. Pen!DraftKept'
    BY <1>e DEF KeptInv, Pen!DraftKept, Pen!Unhurried
<1>10. failures' = 0 => OneDraft'
    BY <1>e, <1>l DEF AgreeInv, OneDraft
<1>11. failures' = 0 => Unnamed'
    <2> SUFFICES ASSUME failures' = 0 PROVE Unnamed'
        OBVIOUS
    <2>0. failures = 0 /\ Unnamed
        BY <1>e DEF AgreeInv
    <2>1. \A k \in Letters : Named(k)' => Named(k)
        BY <1>l DEF Named
    <2>2. d = None /\ l \notin hurried' => ~Named(l)'
        <3>1. CASE d = None /\ (l \notin hurried => ~Named(l))
            BY <1>e, <2>1, <3>1
        <3>2. CASE \E r \in shown : r.draft = d /\ r.letter = l
            BY <3>2 DEF KeptInv, ComposerTyped, Pen!ComposerConstants, RowRecord
        <3> QED
            BY <2>0, <3>1, <3>2
    <2>3. drop["send"].pc = "post" => drop["send"].letter \in Letters
        BY DEF KeptInv, ComposerTyped, DropRecord, Pen!Ways
    <2>4. Named(form.letter)' => Named(l)'
        BY <1>e
    <2>6. Pen!Saving /\ save.draft = None /\ save.letter \notin hurried' => FALSE
        BY <1>e
    <2>5. drop["send"].pc = "post" /\ drop["send"].draft = None /\ drop["send"].letter \notin hurried'
            => ~Named(drop["send"].letter)'
        <3>1. ASSUME drop["send"].pc = "post", Named(drop["send"].letter)' PROVE Named(drop["send"].letter)
            <4>1. drop'["send"].letter = drop["send"].letter
                BY <1>e
            <4>2. PICK i \in Drafts : Linked(i, drop["send"].letter)'
                BY <3>1 DEF Named
            <4>3. Linked(i, drop["send"].letter)
                BY <1>l, <2>3, <3>1, <4>1, <4>2
            <4> QED
                BY <4>3 DEF Named
        <3> QED
            BY <1>e, <2>0, <3>1 DEF Unnamed
    <2> QED
        BY <1>e, <2>2, <2>4, <2>5, <2>6 DEF Unnamed, Pen!Saving
<1>12. failures' = 0 => ShownWasWritten'
    BY <1>e DEF AgreeInv, ShownWasWritten
<1>13. failures' = 0 => UidRead'
    BY <1>e DEF AgreeInv, UidRead
<1>14. failures' = 0 => Copied'
    BY <1>e DEF AgreeInv, Copied
<1>15. failures' = 0 => OverGoes'
    BY <1>e DEF AgreeInv, OverGoes, Deleting
<1> QED
    BY <1>1, <1>2, <1>3, <1>4, <1>5, <1>6, <1>7, <1>8, <1>9, <1>10, <1>11, <1>12, <1>13, <1>14,
        <1>15 DEF KeptInv, AgreeInv

\* The form is closed.
LEMMA CancelKeeps ==
    ASSUME Pen!ComposerConstants, KeptInv, AgreeInv, Pen!Cancel
    PROVE  KeptInv' /\ AgreeInv'
<1>e. /\ form' \in FormRecord /\ form'.letter = form.letter /\ form'.draft = form.draft /\ form'.open = FALSE
      /\ UNCHANGED <<shown, drafts, copies, draftUid, save, drop, told, hurried, failures>>
    BY DEF Pen!Cancel, KeptInv, ComposerTyped, FormRecord
<1>1. ComposerTyped'
    BY <1>e DEF KeptInv, ComposerTyped, Pen!Saving, Deleting, Appended
<1>2. OneAtATime'
    BY <1>e DEF KeptInv, OneAtATime, Pen!Saving
<1>l. ASSUME NEW d \in Drafts, NEW l \in Letters, Linked(d, l)' PROVE Linked(d, l)
    BY <1>e, <1>l DEF Linked, Pen!Saving
<1>3. OneLetter'
    BY <1>e, <1>l, FewerLinks DEF KeptInv
<1>4. OneRow'
    BY <1>e DEF KeptInv, OneRow
<1>5. Numbered'
    BY <1>e DEF KeptInv, Numbered, Appended
<1>6. Matches'
    BY <1>e DEF KeptInv, Matches, Pen!Saving, Appended
<1>7. InFolder'
    BY <1>e DEF KeptInv, InFolder, Appended
<1>8. OverFirst'
    BY <1>e DEF KeptInv, OverFirst
<1>9. Pen!DraftKept'
    BY <1>e DEF KeptInv, Pen!DraftKept, Pen!Unhurried
<1>10. failures' = 0 => OneDraft'
    BY <1>e, <1>l DEF AgreeInv, OneDraft
<1>11. failures' = 0 => Unnamed'
    BY <1>e, <1>l DEF KeptInv, ComposerTyped, AgreeInv, Unnamed, Named, Pen!Saving, Pen!Ways, SaveRecord,
        DropRecord
<1>12. failures' = 0 => ShownWasWritten'
    BY <1>e DEF AgreeInv, ShownWasWritten
<1>13. failures' = 0 => UidRead'
    BY <1>e DEF AgreeInv, UidRead
<1>14. failures' = 0 => Copied'
    BY <1>e DEF AgreeInv, Copied
<1>15. failures' = 0 => OverGoes'
    BY <1>e DEF AgreeInv, OverGoes, Deleting
<1> QED
    BY <1>1, <1>2, <1>3, <1>4, <1>5, <1>6, <1>7, <1>8, <1>9, <1>10, <1>11, <1>12, <1>13, <1>14,
        <1>15 DEF KeptInv, AgreeInv

\* The list is read again.
LEMMA ShowKeeps ==
    ASSUME Pen!ComposerConstants, KeptInv, AgreeInv, Pen!Show
    PROVE  KeptInv' /\ AgreeInv'
<1>e. /\ shown' = drafts
      /\ UNCHANGED <<form, drafts, copies, draftUid, save, drop, told, hurried, failures>>
    BY DEF Pen!Show
<1>1. ComposerTyped'
    BY <1>e DEF KeptInv, ComposerTyped, Pen!Saving, Deleting, Appended
<1>2. OneAtATime'
    BY <1>e DEF KeptInv, OneAtATime, Pen!Saving
<1>l. ASSUME NEW d \in Drafts, NEW l \in Letters, Linked(d, l)' PROVE Linked(d, l)
    BY <1>e, <1>l DEF Linked, Pen!Saving
<1>3. OneLetter'
    BY <1>e, <1>l, FewerLinks DEF KeptInv
<1>4. OneRow'
    BY <1>e DEF KeptInv, OneRow
<1>5. Numbered'
    BY <1>e DEF KeptInv, Numbered, Appended
<1>6. Matches'
    BY <1>e DEF KeptInv, Matches, Pen!Saving, Appended
<1>7. InFolder'
    BY <1>e DEF KeptInv, InFolder, Appended
<1>8. OverFirst'
    BY <1>e DEF KeptInv, OverFirst
<1>9. Pen!DraftKept'
    BY <1>e DEF KeptInv, Pen!DraftKept, Pen!Unhurried
<1>10. failures' = 0 => OneDraft'
    BY <1>e, <1>l DEF AgreeInv, OneDraft
<1>11. failures' = 0 => Unnamed'
    BY <1>e, <1>l DEF KeptInv, ComposerTyped, AgreeInv, Unnamed, Named, Pen!Saving, Pen!Ways, FormRecord,
        SaveRecord, DropRecord
<1>12. failures' = 0 => ShownWasWritten'
    BY <1>e DEF ShownWasWritten
<1>13. failures' = 0 => UidRead'
    BY <1>e DEF AgreeInv, UidRead
<1>14. failures' = 0 => Copied'
    BY <1>e DEF AgreeInv, Copied
<1>15. failures' = 0 => OverGoes'
    BY <1>e DEF AgreeInv, OverGoes, Deleting
<1> QED
    BY <1>1, <1>2, <1>3, <1>4, <1>5, <1>6, <1>7, <1>8, <1>9, <1>10, <1>11, <1>12, <1>13, <1>14,
        <1>15 DEF KeptInv, AgreeInv

\* A save begins, of what the form shows; what is being deleted meanwhile is noted.
LEMMA SaveKeeps ==
    ASSUME Pen!ComposerConstants, KeptInv, AgreeInv, Pen!Save
    PROVE  KeptInv' /\ AgreeInv'
<1>e. /\ save' \in SaveRecord /\ save'.draft = form.draft /\ save'.letter = form.letter
      /\ save'.pc = IF form.draft = None THEN "append" ELSE "read"
      /\ save'.prev = 0 /\ save'.uid = 0 /\ form.open /\ ~Pen!Saving
      /\ hurried \subseteq hurried' /\ hurried' \subseteq Letters
      /\ \A w \in Pen!Ways : drop[w].pc # "idle" => drop[w].letter \in hurried' /\ form.letter \in hurried'
      /\ UNCHANGED <<form, shown, drafts, copies, draftUid, drop, told, failures>>
    <2> DEFINE r == [Pen!NoSave EXCEPT !.pc = IF form.draft = None THEN "append" ELSE "read",
                                   !.draft = form.draft, !.letter = form.letter]
    <2>1. save' = r /\ form.open /\ ~Pen!Saving
        BY DEF Pen!Save
    <2>4. /\ hurried \subseteq hurried' /\ hurried' \subseteq Letters
          /\ \A w \in Pen!Ways : drop[w].pc # "idle" => drop[w].letter \in hurried' /\ form.letter \in hurried'
        BY DEF Pen!Save, Pen!Dropping, KeptInv, ComposerTyped, FormRecord, DropRecord
    <2>2. form \in FormRecord
        BY DEF KeptInv, ComposerTyped
    <2>3. /\ r \in SaveRecord /\ r.draft = form.draft /\ r.letter = form.letter
          /\ r.pc = IF form.draft = None THEN "append" ELSE "read"
          /\ r.prev = 0 /\ r.uid = 0
        BY <2>2, Nothing DEF SaveRecord, FormRecord
    <2> HIDE DEF r
    <2> QED
        BY <2>1, <2>3, <2>4 DEF Pen!Save
<1>1. ComposerTyped'
    BY <1>e DEF KeptInv, ComposerTyped, Deleting, Appended
<1>2. OneAtATime'
    BY <1>e DEF OneAtATime
<1>l. ASSUME NEW d \in Drafts, NEW l \in Letters, Linked(d, l)' PROVE Linked(d, l)
    BY <1>e, <1>l DEF Linked
<1>3. OneLetter'
    BY <1>e, <1>l, FewerLinks DEF KeptInv
<1>4. OneRow'
    BY <1>e DEF KeptInv, OneRow
<1>5. Numbered'
    BY <1>e DEF KeptInv, ComposerTyped, Numbered, Appended
<1>6. Matches'
    BY <1>e DEF KeptInv, ComposerTyped, Matches, CopyRecord, Uids, Appended
<1>7. InFolder'
    BY <1>e DEF InFolder, Appended
<1>8. OverFirst'
    BY <1>e DEF KeptInv, OverFirst
<1>9. Pen!DraftKept'
    BY <1>e DEF KeptInv, Pen!DraftKept, Pen!Unhurried
<1>10. failures' = 0 => OneDraft'
    BY <1>e, <1>l DEF AgreeInv, OneDraft
<1>11. failures' = 0 => Unnamed'
    BY <1>e, <1>l DEF KeptInv, ComposerTyped, AgreeInv, Unnamed, Named, Pen!Ways, FormRecord
<1>12. failures' = 0 => ShownWasWritten'
    BY <1>e DEF AgreeInv, ShownWasWritten
<1>13. failures' = 0 => UidRead'
    BY <1>e DEF KeptInv, AgreeInv, ComposerTyped, Pen!ComposerConstants, UidRead, RowRecord
<1>14. failures' = 0 => Copied'
    BY <1>e DEF AgreeInv, Copied, Pen!Saving
<1>15. failures' = 0 => OverGoes'
    BY <1>e DEF AgreeInv, OverGoes, Deleting, Pen!Saving
<1> QED
    BY <1>1, <1>2, <1>3, <1>4, <1>5, <1>6, <1>7, <1>8, <1>9, <1>10, <1>11, <1>12, <1>13, <1>14,
        <1>15 DEF KeptInv, AgreeInv

\* The copy that will be replaced is the one the row names.
LEMMA SaveReadKeeps ==
    ASSUME Pen!ComposerConstants, KeptInv, AgreeInv, Pen!SaveRead
    PROVE  KeptInv' /\ AgreeInv'
<1>e. /\ save.pc = "read" /\ save' \in SaveRecord /\ save'.pc = "append"
      /\ save'.draft = save.draft /\ save'.letter = save.letter /\ save'.uid = save.uid
      /\ \/ save'.prev = save.prev /\ \A r \in drafts : r.draft # save.draft
         \/ \E r \in drafts : r.draft = save.draft /\ save'.prev = r.uid
      /\ UNCHANGED <<form, shown, drafts, copies, draftUid, drop, told, hurried, failures>>
    <2>1. save \in SaveRecord /\ drafts \subseteq RowRecord
        BY DEF KeptInv, ComposerTyped
    <2>2. ASSUME save' = [save EXCEPT !.pc = "append"]
          PROVE  /\ save' \in SaveRecord /\ save'.pc = "append" /\ save'.draft = save.draft
                 /\ save'.letter = save.letter /\ save'.uid = save.uid /\ save'.prev = save.prev
        BY <2>1, <2>2 DEF SaveRecord
    <2>3. ASSUME NEW r \in drafts, save' = [save EXCEPT !.pc = "append", !.prev = r.uid]
          PROVE  /\ save' \in SaveRecord /\ save'.pc = "append" /\ save'.draft = save.draft
                 /\ save'.letter = save.letter /\ save'.uid = save.uid /\ save'.prev = r.uid
        <3>1. r.uid \in 0..MaxCopies
            BY <2>1 DEF RowRecord, Uids
        <3> QED
            BY <2>1, <2>3, <3>1 DEF SaveRecord
    <2> QED
        BY <2>2, <2>3 DEF Pen!SaveRead
<1>1. ComposerTyped'
    BY <1>e DEF KeptInv, ComposerTyped, Pen!Saving, Deleting, Appended
<1>2. OneAtATime'
    BY <1>e DEF KeptInv, OneAtATime, Pen!Saving
<1>l. ASSUME NEW d \in Drafts, NEW l \in Letters, Linked(d, l)' PROVE Linked(d, l)
    BY <1>e, <1>l DEF Linked, Pen!Saving
<1>3. OneLetter'
    BY <1>e, <1>l, FewerLinks DEF KeptInv
<1>4. OneRow'
    BY <1>e DEF KeptInv, OneRow
<1>5. Numbered'
    BY <1>e DEF KeptInv, Numbered, Appended
<1>6. Matches'
    <2>1. Pen!Saving /\ save.draft # None
        BY <1>e DEF KeptInv, ComposerTyped, Pen!Saving
    <2>2. ASSUME NEW c \in copies, c.letter \notin hurried, save'.prev = c.uid
          PROVE  save.letter = c.letter
        <3>1. CASE save'.prev = save.prev
            BY <2>1, <2>2, <3>1 DEF KeptInv, Matches
        <3>2. ASSUME NEW r \in drafts, r.draft = save.draft, save'.prev = r.uid
              PROVE  save.letter = c.letter
            <4>1. r.letter = c.letter
                BY <2>2, <3>2 DEF KeptInv, Matches
            <4> QED
                BY <2>1, <2>2, <3>2, <4>1, SavesRow
        <3> QED
            BY <1>e, <3>1, <3>2
    <2> QED
        BY <1>e, <2>2 DEF KeptInv, Matches, Appended
<1>7. InFolder'
    BY <1>e DEF InFolder, Appended
<1>8. OverFirst'
    BY <1>e DEF KeptInv, OverFirst
<1>9. Pen!DraftKept'
    BY <1>e DEF KeptInv, Pen!DraftKept, Pen!Unhurried
<1>10. failures' = 0 => OneDraft'
    BY <1>e, <1>l DEF AgreeInv, OneDraft
<1>11. failures' = 0 => Unnamed'
    BY <1>e, <1>l DEF KeptInv, ComposerTyped, AgreeInv, Unnamed, Named, Pen!Saving, Pen!Ways, DropRecord
<1>12. failures' = 0 => ShownWasWritten'
    BY <1>e DEF AgreeInv, ShownWasWritten
<1>13. failures' = 0 => UidRead'
    BY <1>e DEF KeptInv, OneRow, AgreeInv, UidRead
<1>14. failures' = 0 => Copied'
    BY <1>e DEF AgreeInv, Copied
<1>15. failures' = 0 => OverGoes'
    BY <1>e DEF AgreeInv, OverGoes, Deleting
<1> QED
    BY <1>1, <1>2, <1>3, <1>4, <1>5, <1>6, <1>7, <1>8, <1>9, <1>10, <1>11, <1>12, <1>13, <1>14,
        <1>15 DEF KeptInv, AgreeInv

\* The letter is appended under a new uid, a new draft gets an id that occurs nowhere.
LEMMA SaveAppendKeeps ==
    ASSUME Pen!ComposerConstants, KeptInv, AgreeInv, Pen!SaveAppend
    PROVE  KeptInv' /\ AgreeInv'
<1>e. /\ save.pc = "append" /\ save' \in SaveRecord /\ save'.pc = "drop"
      /\ save'.letter = save.letter /\ save'.prev = save.prev /\ save'.uid = draftUid /\ draftUid <= MaxCopies
      /\ \/ save.draft # None /\ save'.draft = save.draft
         \/ save.draft = None /\ save'.draft \in Drafts \ Pen!Used
      /\ \A c : c \in copies' <=> c \in copies \/ c = [letter |-> save.letter, uid |-> draftUid]
      /\ draftUid' = draftUid + 1
      /\ UNCHANGED <<form, shown, drafts, drop, told, hurried, failures>>
    <2> DEFINE d == IF save.draft # None THEN save.draft ELSE CHOOSE e \in Drafts : e \notin Pen!Used
    <2> DEFINE r == [save EXCEPT !.pc = "drop", !.uid = draftUid, !.draft = d]
    <2>1. save \in SaveRecord /\ draftUid \in 1..(MaxCopies + 1) /\ draftUid <= MaxCopies
        BY DEF Pen!SaveAppend, KeptInv, ComposerTyped
    <2>2. save.draft = None => d \in Drafts \ Pen!Used
        BY DEF Pen!SaveAppend
    <2>3. save.draft # None => d = save.draft
        OBVIOUS
    <2>4. d \in Drafts \union {None} /\ draftUid \in 0..MaxCopies
        BY <2>1, <2>2, <2>3 DEF SaveRecord
    <2>5. save' = r
        BY <2>1 DEF Pen!SaveAppend
    <2> HIDE DEF d
    <2>6. /\ r \in SaveRecord /\ r.pc = "drop" /\ r.uid = draftUid /\ r.draft = d
          /\ r.letter = save.letter /\ r.prev = save.prev
        BY <2>1, <2>4 DEF SaveRecord
    <2> HIDE DEF r
    <2> QED
        BY <2>1, <2>2, <2>3, <2>5, <2>6 DEF Pen!SaveAppend
<1>1. ComposerTyped'
    BY <1>e DEF KeptInv, ComposerTyped, Pen!ComposerConstants, CopyRecord, SaveRecord, Pen!Saving,
        Deleting, Uids, Appended
<1>2. OneAtATime'
    BY <1>e DEF KeptInv, OneAtATime, Pen!Saving
<1>3. OneLetter'
    <2>1. CASE save.draft # None
        <3>1. ASSUME NEW d \in Drafts, NEW l \in Letters, Linked(d, l)' PROVE Linked(d, l)
            BY <1>e, <2>1, <3>1 DEF Linked, Pen!Saving
        <3> QED
            BY <1>e, <3>1, FewerLinks DEF KeptInv
    <2>2. CASE save.draft = None
        <3>1. save'.draft \in Drafts \ Pen!Used /\ None \notin Drafts
            BY <1>e, <2>2 DEF Pen!ComposerConstants
        <3>2. ASSUME NEW d \in Drafts, NEW l \in Letters, Linked(d, l)'
              PROVE  \/ d # save'.draft /\ Linked(d, l)
                     \/ d = save'.draft /\ l = save.letter
            BY <1>e, <2>2, <3>1, <3>2 DEF Linked, Pen!Used, Pen!Ways
        <3> QED
            BY <1>e, <3>2 DEF KeptInv, OneLetter
    <2> QED
        BY <2>1, <2>2
<1>4. OneRow'
    BY <1>e DEF KeptInv, OneRow
<1>5. Numbered'
    BY <1>e DEF KeptInv, ComposerTyped, Numbered, RowRecord, CopyRecord, SaveRecord, DropRecord,
        Uids, Appended
<1>6. Matches'
    <2> SUFFICES ASSUME NEW c \in copies'
                 PROVE  /\ \A r \in drafts : r.uid = c.uid => r.letter = c.letter
                        /\ save'.uid = c.uid => save'.letter = c.letter
                        /\ c.letter \notin hurried =>
                            /\ save'.prev = c.uid => save'.letter = c.letter
                            /\ \A w \in Pen!Ways : drop[w].uid = c.uid => drop[w].letter = c.letter
        BY <1>e DEF Matches
    <2>1. CASE c \in copies
        <3>1. save'.uid # c.uid
            BY <1>e, <2>1 DEF KeptInv, Numbered, ComposerTyped, CopyRecord, Uids
        <3> QED
            BY <1>e, <2>1, <3>1 DEF KeptInv, Matches, Pen!Saving
    <2>2. CASE c = [letter |-> save.letter, uid |-> draftUid]
        <3>1. c.uid = draftUid /\ draftUid \in Nat
            BY <2>2 DEF KeptInv, ComposerTyped
        <3>2. /\ \A r \in drafts : r.uid # c.uid
              /\ save.prev # c.uid /\ \A w \in Pen!Ways : drop[w].uid # c.uid
            BY <3>1 DEF KeptInv, Numbered
        <3> QED
            BY <1>e, <2>2, <3>2
    <2> QED
        BY <1>e, <2>1, <2>2
<1>7. InFolder'
    <2>1. [letter |-> save.letter, uid |-> draftUid] \in copies'
        BY <1>e
    <2> QED
        BY <1>e, <2>1 DEF KeptInv, InFolder, Numbered
<1>8. OverFirst'
    BY <1>e DEF KeptInv, OverFirst
<1>9. Pen!DraftKept'
    BY <1>e DEF KeptInv, Pen!DraftKept, Pen!Unhurried
<1>10. failures' = 0 => OneDraft'
    <2> SUFFICES ASSUME failures' = 0, NEW d \in Drafts, NEW e \in Drafts, NEW l \in Letters,
                        Linked(d, l)', Linked(e, l)', l \notin hurried
                 PROVE  d = e
        BY <1>e DEF OneDraft
    <2>0. failures = 0 /\ OneDraft /\ Unnamed
        BY <1>e DEF AgreeInv
    <2>1. ASSUME NEW i \in Drafts, Linked(i, l)', save.draft # None PROVE Linked(i, l)
        BY <1>e, <2>1 DEF Linked, Pen!Saving
    <2>2. ASSUME NEW i \in Drafts, Linked(i, l)', save.draft = None
          PROVE  (i # save'.draft /\ Linked(i, l)) \/ (i = save'.draft /\ l = save.letter)
        <3>1. save'.draft \in Drafts \ Pen!Used /\ None \notin Drafts
            BY <1>e, <2>2 DEF Pen!ComposerConstants
        <3> QED
            BY <1>e, <2>2, <3>1 DEF Linked, Pen!Used, Pen!Ways
    <2>3. save.draft = None /\ save.letter \notin hurried => ~Named(save.letter)
        BY <1>e, <2>0 DEF Unnamed, Pen!Saving
    <2> QED
        BY <2>0, <2>1, <2>2, <2>3 DEF OneDraft, Named
<1>11. failures' = 0 => Unnamed'
    BY <1>e DEF KeptInv, Pen!ComposerConstants, OneAtATime, Unnamed, Pen!Saving, Pen!Ways
<1>12. failures' = 0 => ShownWasWritten'
    BY <1>e DEF AgreeInv, ShownWasWritten
<1>13. failures' = 0 => UidRead'
    <2> SUFFICES ASSUME failures' = 0 PROVE UidRead'
        OBVIOUS
    <2>0. failures = 0 /\ UidRead /\ Pen!Saving
        BY <1>e DEF AgreeInv, Pen!Saving
    <2>1. ASSUME NEW r \in drafts, r.draft = save'.draft PROVE r.uid = save'.prev
        BY <1>e, <2>0, <2>1 DEF UidRead, Pen!Used
    <2>2. ASSUME NEW w \in Pen!Ways, NEW r \in drafts, r.draft = drop[w].draft, r.letter \notin hurried
          PROVE  /\ drop[w].pc = "drop" => r.uid = drop[w].uid
                 /\ drop[w].pc = "row" => Copy(r) \notin copies'
        <3>1. Copy(r).uid = r.uid /\ r.uid # draftUid
            BY DEF Copy, KeptInv, Numbered, ComposerTyped, RowRecord, Uids
        <3> QED
            BY <1>e, <2>0, <2>2, <3>1 DEF UidRead
    <2> QED
        BY <1>e, <2>1, <2>2 DEF UidRead
<1>14. failures' = 0 => Copied'
    BY <1>e DEF AgreeInv, Copied, Copy
<1>15. failures' = 0 => OverGoes'
    BY <1>e DEF AgreeInv, OverGoes, Deleting
<1> QED
    BY <1>1, <1>2, <1>3, <1>4, <1>5, <1>6, <1>7, <1>8, <1>9, <1>10, <1>11, <1>12, <1>13, <1>14,
        <1>15 DEF KeptInv, AgreeInv

\* The copy that is replaced is deleted, if the server can be reached.
LEMMA SaveDropKeeps ==
    ASSUME Pen!ComposerConstants, KeptInv, AgreeInv, Pen!SaveDrop
    PROVE  KeptInv' /\ AgreeInv'
<1>e. /\ save.pc = "drop" /\ SaveOn("row")
      /\ copies' \subseteq copies /\ \A c \in copies : c.uid # save.prev => c \in copies'
      /\ \/ failures' = failures /\ \A c \in copies' : c.uid # save.prev
         \/ failures < MaxFailures /\ failures' = failures + 1
      /\ UNCHANGED <<form, shown, drafts, draftUid, drop, told, hurried>>
    <2>1. SaveOn("row")
        BY SaveMoves DEF Pen!SaveDrop, Pen!SaveTo, KeptInv
    <2>2. copies' \subseteq copies /\ \A c \in copies : c.uid # save.prev => c \in copies'
        BY DEF Pen!SaveDrop
    <2>3. \/ failures' = failures /\ \A c \in copies' : c.uid # save.prev
          \/ failures < MaxFailures /\ failures' = failures + 1
        BY DEF Pen!SaveDrop, Pen!Fail
    <2>4. save.pc = "drop" /\ UNCHANGED <<form, shown, drafts, draftUid, drop, told, hurried>>
        BY DEF Pen!SaveDrop, Pen!SaveTo
    <2> QED
        BY <2>1, <2>2, <2>3, <2>4
<1>1. ComposerTyped'
    BY <1>e DEF KeptInv, ComposerTyped, Pen!ComposerConstants, SaveOn, Pen!Saving, Deleting, Appended
<1>2. OneAtATime'
    BY <1>e DEF KeptInv, OneAtATime, Pen!Saving, SaveOn
<1>l. ASSUME NEW d \in Drafts, NEW l \in Letters, Linked(d, l)' PROVE Linked(d, l)
    BY <1>e, <1>l DEF Linked, Pen!Saving, SaveOn
<1>3. OneLetter'
    BY <1>e, <1>l, FewerLinks DEF KeptInv
<1>4. OneRow'
    BY <1>e DEF KeptInv, OneRow
<1>5. Numbered'
    BY <1>e DEF KeptInv, Numbered, SaveOn, Appended
<1>6. Matches'
    BY <1>e DEF KeptInv, Matches, Pen!Saving, SaveOn, Appended
<1>7. InFolder'
    <2> SUFFICES ASSUME save.letter \notin hurried
                 PROVE  \E c \in copies' : c.letter = save.letter /\ c.uid = save.uid
        BY <1>e DEF InFolder, SaveOn
    <2>1. PICK c \in copies : c.letter = save.letter /\ c.uid = save.uid
        BY <1>e DEF KeptInv, InFolder, Appended
    <2>2. save.prev < save.uid /\ save.prev \in Nat /\ save.uid \in Nat
        BY <1>e DEF KeptInv, Numbered, Appended, ComposerTyped, SaveRecord
    <2>3. c \in copies'
        BY <1>e, <2>1, <2>2
    <2> QED
        BY <2>1, <2>3
<1>8. OverFirst'
    BY <1>e DEF KeptInv, OverFirst
<1>9. Pen!DraftKept'
    <2> SUFFICES ASSUME NEW l \in Letters, l \notin hurried, told[l] = "kept"
                 PROVE  \E c \in copies' : c.letter = l
        BY <1>e DEF Pen!DraftKept, Pen!Unhurried
    <2>1. PICK c \in copies : c.letter = l
        BY DEF KeptInv, Pen!DraftKept, Pen!Unhurried
    <2>2. CASE c.uid # save.prev
        BY <1>e, <2>1, <2>2
    <2>3. CASE c.uid = save.prev
        <3>1. save.letter = l /\ save'.letter = l
            BY <1>e, <2>1, <2>3 DEF KeptInv, Matches, Pen!Saving, SaveOn
        <3> QED
            BY <1>e, <1>7, <3>1 DEF InFolder, Appended, SaveOn
    <2> QED
        BY <2>2, <2>3
<1>10. failures' = 0 => OneDraft'
    BY <1>e, <1>l DEF KeptInv, ComposerTyped, AgreeInv, OneDraft
<1>11. failures' = 0 => Unnamed'
    BY <1>e, <1>l DEF KeptInv, ComposerTyped, AgreeInv, Unnamed, Named, Pen!Saving, SaveOn, Pen!Ways,
        DropRecord
<1>12. failures' = 0 => ShownWasWritten'
    BY <1>e DEF KeptInv, ComposerTyped, AgreeInv, ShownWasWritten
<1>13. failures' = 0 => UidRead'
    <2> SUFFICES ASSUME failures' = 0 PROVE UidRead'
        OBVIOUS
    <2>0. failures = 0 /\ UidRead /\ Pen!Saving /\ \A c \in copies' : c.uid # save.prev
        BY <1>e DEF AgreeInv, Pen!Saving, KeptInv, ComposerTyped
    <2>1. ASSUME NEW r \in drafts, r.draft = save.draft PROVE Copy(r) \notin copies'
        <3>1. r.uid = save.prev /\ Copy(r).uid = r.uid
            BY <1>e, <2>0, <2>1 DEF UidRead, Copy
        <3> QED
            BY <2>0, <3>1
    <2>2. \A w \in Pen!Ways, r \in drafts : r.draft = drop[w].draft /\ r.letter \notin hurried =>
              /\ drop[w].pc = "drop" => r.uid = drop[w].uid
              /\ drop[w].pc = "row" => Copy(r) \notin copies'
        BY <1>e, <2>0 DEF UidRead
    <2> QED
        BY <1>e, <2>1, <2>2 DEF UidRead, SaveOn
<1>14. failures' = 0 => Copied'
    <2> SUFFICES ASSUME failures' = 0 PROVE Copied'
        OBVIOUS
    <2>0. failures = 0 /\ Copied /\ OneDraft /\ Pen!Saving /\ save.draft # None
        BY <1>e DEF AgreeInv, Pen!Saving, KeptInv, ComposerTyped
    <2>1. Copy(save)' = Copy(save) /\ save'.pc = "row" /\ save'.draft = save.draft
        BY <1>e DEF Copy, SaveOn
    <2>2. ASSUME NEW c \in copies', c.letter \notin hurried
          PROVE  (\E r \in drafts : c = Copy(r)) \/ c = Copy(save)
        BY <1>e, <2>0, <2>2 DEF Copied
    <2>3. ASSUME NEW r \in drafts, r.letter \notin hurried, Copy(r) \in copies
          PROVE  Copy(r) \in copies' \/ r.draft = save.draft
        <3>2. Copy(r).uid = r.uid /\ Copy(r).letter = r.letter
            BY DEF Copy
        <3>3. CASE r.uid = save.prev
            <4>1. r.letter = save.letter
                BY <2>0, <2>3, <3>2, <3>3 DEF KeptInv, Matches
            <4> QED
                BY <2>0, <2>3, <4>1, SavesRow
        <3>4. CASE r.uid # save.prev
            BY <1>e, <2>3, <3>2, <3>4
        <3> QED
            BY <3>3, <3>4
    <2>4. ASSUME NEW r \in drafts, r.letter \notin hurried
          PROVE  \/ Copy(r) \in copies' \/ r.draft = save.draft
                 \/ \E w \in Pen!Ways : drop[w].pc = "row" /\ drop[w].draft = r.draft
        BY <1>e, <2>0, <2>3, <2>4 DEF Copied
    <2> QED
        BY <1>e, <2>1, <2>2, <2>4 DEF Copied
<1>15. failures' = 0 => OverGoes'
    BY <1>e DEF KeptInv, ComposerTyped, AgreeInv, OverGoes, Deleting
<1> QED
    BY <1>1, <1>2, <1>3, <1>4, <1>5, <1>6, <1>7, <1>8, <1>9, <1>10, <1>11, <1>12, <1>13, <1>14,
        <1>15 DEF KeptInv, AgreeInv

\* The row is written, under the new uid.
LEMMA SaveRowKeeps ==
    ASSUME Pen!ComposerConstants, KeptInv, AgreeInv, Pen!SaveRow
    PROVE  KeptInv' /\ AgreeInv'
<1>e. /\ save.pc = "row" /\ SaveOn("reply")
      /\ \A r : r \in drafts' <=> \/ r \in drafts /\ r.draft # save.draft
                              \/ r = [draft |-> save.draft, letter |-> save.letter, uid |-> save.uid]
      /\ UNCHANGED <<form, shown, copies, draftUid, drop, told, hurried, failures>>
    BY SaveMoves DEF Pen!SaveRow, Pen!SaveTo, Pen!Row, KeptInv
<1>1. ComposerTyped'
    <2>2. save.draft \in Drafts /\ save.letter \in Letters /\ save.uid \in Uids
        BY <1>e DEF KeptInv, ComposerTyped, Pen!Saving, SaveRecord, Appended
    <2>3. drafts' \subseteq RowRecord
        BY <1>e, <2>2 DEF KeptInv, ComposerTyped, RowRecord
    <2> QED
        BY <1>e, <2>3 DEF KeptInv, ComposerTyped, SaveOn, Pen!Saving, Deleting, Appended
<1>2. OneAtATime'
    BY <1>e DEF KeptInv, OneAtATime, Pen!Saving, SaveOn
<1>l. ASSUME NEW d \in Drafts, NEW l \in Letters, Linked(d, l)' PROVE Linked(d, l)
    BY <1>e, <1>l DEF Linked, Pen!Saving, SaveOn
<1>3. OneLetter'
    BY <1>e, <1>l, FewerLinks DEF KeptInv
<1>4. OneRow'
    BY <1>e DEF KeptInv, OneRow
<1>5. Numbered'
    BY <1>e DEF KeptInv, Numbered, SaveOn, Appended
<1>6. Matches'
    <2>2. ASSUME NEW c \in copies, NEW r \in drafts', r.uid = c.uid PROVE r.letter = c.letter
        <3>1. CASE r \in drafts
            BY <2>2, <3>1 DEF KeptInv, Matches
        <3>2. CASE r = [draft |-> save.draft, letter |-> save.letter, uid |-> save.uid]
            <4>1. r.letter = save.letter /\ c.uid = save.uid
                BY <2>2, <3>2
            <4> QED
                BY <1>e, <4>1 DEF KeptInv, Matches, Appended
        <3> QED
            BY <1>e, <2>2, <3>1, <3>2
    <2> QED
        BY <1>e, <2>2 DEF KeptInv, Matches, Pen!Saving, SaveOn, Appended
<1>7. InFolder'
    BY <1>e DEF KeptInv, InFolder, Appended, SaveOn
<1>8. OverFirst'
    BY <1>e DEF KeptInv, OverFirst
<1>9. Pen!DraftKept'
    BY <1>e DEF KeptInv, Pen!DraftKept, Pen!Unhurried
<1>10. failures' = 0 => OneDraft'
    BY <1>e, <1>l DEF AgreeInv, OneDraft
<1>11. failures' = 0 => Unnamed'
    BY <1>e, <1>l DEF KeptInv, ComposerTyped, AgreeInv, Unnamed, Named, Pen!Saving, SaveOn, Pen!Ways,
        DropRecord
<1>12. failures' = 0 => ShownWasWritten'
    <2> SUFFICES ASSUME failures' = 0, NEW r \in shown, r.letter \notin hurried
                 PROVE  told[r.letter] # "no" \/ \E q \in drafts' : q.letter = r.letter
        BY <1>e DEF ShownWasWritten
    <2>0. ShownWasWritten /\ Pen!Saving /\ save.draft # None
        BY <1>e DEF AgreeInv, Pen!Saving, KeptInv, ComposerTyped
    <2>1. ASSUME NEW q \in drafts, q.letter = r.letter PROVE \E p \in drafts' : p.letter = r.letter
        <3>1. CASE q.draft # save.draft
            BY <1>e, <2>1, <3>1
        <3>2. CASE q.draft = save.draft
            <4> DEFINE p == [draft |-> save.draft, letter |-> save.letter, uid |-> save.uid]
            <4>1. q.letter = save.letter
                BY <2>0, <2>1, <3>2, SavesRow
            <4>2. p \in drafts' /\ p.letter = save.letter
                BY <1>e
            <4> QED
                BY <2>1, <4>1, <4>2
        <3> QED
            BY <3>1, <3>2
    <2> QED
        BY <2>0, <2>1 DEF ShownWasWritten
<1>13. failures' = 0 => UidRead'
    <2> SUFFICES ASSUME failures' = 0, NEW w \in Pen!Ways, NEW r \in drafts',
                        r.draft = drop[w].draft, r.letter \notin hurried
                 PROVE  /\ drop[w].pc = "drop" => r.uid = drop[w].uid
                        /\ drop[w].pc = "row" => Copy(r) \notin copies
        BY <1>e DEF UidRead, SaveOn
    <2>1. CASE r \in drafts
        BY <1>e, <2>1 DEF AgreeInv, UidRead
    <2>2. CASE r = [draft |-> save.draft, letter |-> save.letter, uid |-> save.uid]
        BY <1>e, <2>2 DEF KeptInv, OneAtATime, Pen!Saving
    <2> QED
        BY <1>e, <2>1, <2>2
<1>14. failures' = 0 => Copied'
    <2> SUFFICES ASSUME failures' = 0 PROVE Copied'
        OBVIOUS
    <2> DEFINE p == [draft |-> save.draft, letter |-> save.letter, uid |-> save.uid]
    <2>0. Copied /\ UidRead /\ Pen!Saving
        BY <1>e DEF AgreeInv, Pen!Saving
    <2>1. p \in drafts' /\ Copy(p) = Copy(save)
        BY <1>e DEF Copy
    <2>2. ASSUME save.letter \notin hurried PROVE Copy(save) \in copies
        <3>1. PICK c \in copies : c.letter = save.letter /\ c.uid = save.uid
            BY <1>e, <2>2 DEF KeptInv, InFolder, Appended
        <3>2. c = Copy(save)
            BY <3>1 DEF Copy, KeptInv, ComposerTyped, CopyRecord
        <3> QED
            BY <3>2
    <2> HIDE DEF p
    <2>3. ASSUME NEW c \in copies, c.letter \notin hurried PROVE \E r \in drafts' : c = Copy(r)
        <3>1. CASE c = Copy(save)
            BY <2>1, <3>1
        <3>2. ASSUME NEW r \in drafts, c = Copy(r) PROVE r \in drafts'
            BY <1>e, <2>0, <3>2 DEF UidRead
        <3> QED
            BY <2>0, <2>3, <3>1, <3>2 DEF Copied
    <2>4. ASSUME NEW r \in drafts', r.letter \notin hurried
          PROVE  Copy(r) \in copies \/ \E w \in Pen!Ways : drop[w].pc = "row" /\ drop[w].draft = r.draft
        <3>1. CASE r \in drafts /\ r.draft # save.draft
            BY <2>0, <2>4, <3>1 DEF Copied
        <3>2. CASE r = p
            <4>1. save.letter \notin hurried
                BY <2>4, <3>2 DEF p
            <4> QED
                BY <2>1, <2>2, <3>2, <4>1
        <3> QED
            BY <1>e, <3>1, <3>2 DEF p
    <2> QED
        BY <1>e, <2>3, <2>4 DEF Copied
<1>15. failures' = 0 => OverGoes'
    BY <1>e DEF AgreeInv, OverGoes, Deleting, SaveOn
<1> QED
    BY <1>1, <1>2, <1>3, <1>4, <1>5, <1>6, <1>7, <1>8, <1>9, <1>10, <1>11, <1>12, <1>13, <1>14,
        <1>15 DEF KeptInv, AgreeInv

\* She is told, and the form remembers the id.
LEMMA SaveReplyKeeps ==
    ASSUME Pen!ComposerConstants, KeptInv, AgreeInv, Pen!SaveReply
    PROVE  KeptInv' /\ AgreeInv'
<1>e. /\ save.pc = "reply" /\ save' = Pen!NoSave
      /\ form' \in FormRecord /\ form'.draft = save.draft /\ form'.letter = form.letter
      /\ form'.open = form.open
      /\ save.letter \in Letters /\ told' = [told EXCEPT ![save.letter] = "kept"]
      /\ UNCHANGED <<shown, drafts, copies, draftUid, drop, hurried, failures>>
    BY DEF Pen!SaveReply, KeptInv, ComposerTyped, Pen!Saving, FormRecord, SaveRecord
<1>1. ComposerTyped'
    <2>1. told' \in [Letters -> {"no", "kept", "over"}]
        BY <1>e DEF KeptInv, ComposerTyped
    <2>2. form'.letter # None
        BY <1>e DEF KeptInv, ComposerTyped, OneAtATime, Pen!Saving, Pen!ComposerConstants
    <2> QED
        BY <1>e, <2>1, <2>2, Nothing DEF KeptInv, ComposerTyped, Pen!Saving, Deleting, Appended
<1>2. OneAtATime'
    BY <1>e, Nothing DEF OneAtATime, Pen!Saving
<1>l. ASSUME NEW d \in Drafts, NEW l \in Letters, Linked(d, l)'
      PROVE  Linked(d, l) \/ (l \in hurried /\ Linked(d, save.letter) /\ save.letter \in hurried)
    BY <1>e, <1>l, Nothing DEF KeptInv, OneAtATime, Linked, Pen!Saving
<1>3. OneLetter'
    <2> SUFFICES ASSUME NEW d \in Drafts, NEW k \in Letters, NEW l \in Letters,
                        Linked(d, k)', Linked(d, l)', l \notin hurried
                 PROVE  k = l
        BY <1>e DEF OneLetter
    <2>1. Linked(d, l)
        BY <1>l
    <2>2. CASE Linked(d, k)
        BY <2>1, <2>2 DEF KeptInv, OneLetter
    <2>3. CASE Linked(d, save.letter) /\ save.letter \in hurried
        BY <1>e, <2>1, <2>3 DEF KeptInv, OneLetter
    <2> QED
        BY <1>l, <2>2, <2>3
<1>4. OneRow'
    BY <1>e DEF KeptInv, OneRow
<1>5. Numbered'
    BY <1>e, Nothing DEF KeptInv, ComposerTyped, Numbered, Appended
<1>6. Matches'
    BY <1>e, Nothing DEF KeptInv, Matches, Pen!Saving, Appended
<1>7. InFolder'
    BY <1>e, Nothing DEF InFolder, Appended
<1>8. OverFirst'
    BY <1>e DEF KeptInv, OverFirst, OneAtATime, Pen!Saving
<1>9. Pen!DraftKept'
    <2> SUFFICES ASSUME NEW l \in Letters, l \notin hurried, told'[l] = "kept"
                 PROVE  \E c \in copies : c.letter = l
        BY <1>e DEF Pen!DraftKept, Pen!Unhurried
    <2>1. CASE l = save.letter
        BY <1>e, <2>1 DEF KeptInv, InFolder, Appended
    <2>2. CASE l # save.letter
        BY <1>e, <2>2 DEF KeptInv, Pen!DraftKept, Pen!Unhurried
    <2> QED
        BY <2>1, <2>2
<1>10. failures' = 0 => OneDraft'
    BY <1>e, <1>l DEF AgreeInv, OneDraft
<1>11. failures' = 0 => Unnamed'
    BY <1>e, <1>l, Nothing DEF KeptInv, ComposerTyped, AgreeInv, Unnamed, Named, Pen!Saving, Pen!Ways,
        DropRecord
<1>12. failures' = 0 => ShownWasWritten'
    BY <1>e DEF AgreeInv, ShownWasWritten
<1>13. failures' = 0 => UidRead'
    BY <1>e, Nothing DEF AgreeInv, UidRead
<1>14. failures' = 0 => Copied'
    BY <1>e DEF AgreeInv, Copied
<1>15. failures' = 0 => OverGoes'
    <2> SUFFICES ASSUME failures' = 0, NEW r \in drafts, told'[r.letter] = "over", r.letter \notin hurried
                 PROVE  \E w \in Pen!Ways : Deleting(w) /\ drop[w].draft = r.draft
        BY <1>e DEF OverGoes, Deleting
    <2>0. OverGoes /\ Pen!Saving /\ save.draft # None
        BY <1>e DEF AgreeInv, Pen!Saving, KeptInv, ComposerTyped
    <2>1. r.letter \in Letters /\ told \in [Letters -> {"no", "kept", "over"}]
        BY DEF KeptInv, ComposerTyped, RowRecord
    <2>2. r.letter # save.letter /\ told[r.letter] = "over"
        BY <1>e, <2>1
    <2>3. r.draft # save.draft
        BY <2>0, <2>2, SavesRow
    <2> QED
        BY <2>0, <2>2, <2>3 DEF OverGoes
<1> QED
    BY <1>1, <1>2, <1>3, <1>4, <1>5, <1>6, <1>7, <1>8, <1>9, <1>10, <1>11, <1>12, <1>13, <1>14,
        <1>15 DEF KeptInv, AgreeInv

\* A save dies.
LEMMA SaveFailsKeeps ==
    ASSUME Pen!ComposerConstants, KeptInv, AgreeInv, Pen!SaveFails
    PROVE  KeptInv' /\ AgreeInv'
<1>e. /\ save' = Pen!NoSave /\ failures < MaxFailures /\ failures' = failures + 1
      /\ UNCHANGED <<form, shown, drafts, copies, draftUid, drop, told, hurried>>
    BY DEF Pen!SaveFails, Pen!Fail
<1>1. ComposerTyped'
    BY <1>e, Nothing DEF KeptInv, ComposerTyped, Pen!ComposerConstants, Pen!Saving, Deleting, Appended
<1>2. OneAtATime'
    BY <1>e, Nothing DEF OneAtATime, Pen!Saving
<1>l. ASSUME NEW d \in Drafts, NEW l \in Letters, Linked(d, l)' PROVE Linked(d, l)
    BY <1>e, <1>l, Nothing DEF Linked, Pen!Saving
<1>3. OneLetter'
    BY <1>e, <1>l, FewerLinks DEF KeptInv
<1>4. OneRow'
    BY <1>e DEF KeptInv, OneRow
<1>5. Numbered'
    BY <1>e, Nothing DEF KeptInv, ComposerTyped, Numbered, Appended
<1>6. Matches'
    BY <1>e, Nothing DEF KeptInv, Matches, Pen!Saving, Appended
<1>7. InFolder'
    BY <1>e, Nothing DEF InFolder, Appended
<1>8. OverFirst'
    BY <1>e DEF KeptInv, OverFirst
<1>9. Pen!DraftKept'
    BY <1>e DEF KeptInv, Pen!DraftKept, Pen!Unhurried
<1>10. AgreeInv'
    BY <1>e DEF AgreeInv, KeptInv, ComposerTyped
<1> QED
    BY <1>1, <1>2, <1>3, <1>4, <1>5, <1>6, <1>7, <1>8, <1>9, <1>10 DEF KeptInv

\* A letter is sent from the form.
LEMMA SendKeeps ==
    ASSUME Pen!ComposerConstants, KeptInv, AgreeInv, Pen!Send
    PROVE  KeptInv' /\ AgreeInv'
<1>e. /\ "send" \in Pen!Ways /\ form.open
      /\ hurried \subseteq hurried' /\ hurried' \subseteq Letters
      /\ Pen!Saving => form.letter \in hurried' /\ save.letter \in hurried'
      /\ drop' \in [Pen!Ways -> DropRecord] /\ \A v \in Pen!Ways : v # "send" => drop'[v] = drop[v]
      /\ drop'["send"].pc = "post" /\ drop'["send"].draft = form.draft
      /\ drop'["send"].letter = form.letter /\ drop'["send"].uid = 0
      /\ UNCHANGED <<form, shown, drafts, copies, draftUid, save, told, failures>>
    <2> DEFINE q == [Pen!NoDrop EXCEPT !.pc = "post", !.draft = form.draft, !.letter = form.letter]
    <2>1. drop' = [drop EXCEPT !["send"] = q]
        BY DEF Pen!Send
    <2>2. "send" \in Pen!Ways /\ form \in FormRecord /\ drop \in [Pen!Ways -> DropRecord]
        BY DEF Pen!Ways, KeptInv, ComposerTyped
    <2>5. /\ hurried \subseteq hurried' /\ hurried' \subseteq Letters
          /\ Pen!Saving => form.letter \in hurried' /\ save.letter \in hurried'
        BY DEF Pen!Send, Pen!WhileSaving, KeptInv, ComposerTyped, FormRecord, SaveRecord
    <2>3. /\ q \in DropRecord /\ q.pc = "post" /\ q.draft = form.draft
          /\ q.letter = form.letter /\ q.uid = 0
        BY <2>2, Nothing DEF DropRecord, FormRecord
    <2>4. form.open /\ UNCHANGED <<form, shown, drafts, copies, draftUid, save, told, failures>>
        BY DEF Pen!Send
    <2> HIDE DEF q
    <2> QED
        BY <2>1, <2>2, <2>3, <2>4, <2>5
<1>1. ComposerTyped'
    BY <1>e DEF KeptInv, ComposerTyped, Pen!Saving, Deleting, Appended
<1>2. OneAtATime'
    BY <1>e DEF KeptInv, OneAtATime, Pen!Saving
<1>l. ASSUME NEW d \in Drafts, NEW l \in Letters, Linked(d, l)' PROVE Linked(d, l)
    BY <1>e, <1>l DEF Linked, Pen!Saving
<1>3. OneLetter'
    BY <1>e, <1>l, FewerLinks DEF KeptInv
<1>4. OneRow'
    BY <1>e DEF KeptInv, OneRow
<1>5. Numbered'
    BY <1>e DEF KeptInv, ComposerTyped, Numbered, Appended
<1>6. Matches'
    BY <1>e DEF KeptInv, ComposerTyped, Matches, Pen!Saving, CopyRecord, Uids, Appended
<1>7. InFolder'
    BY <1>e DEF KeptInv, InFolder, Appended
<1>8. OverFirst'
    BY <1>e DEF KeptInv, OverFirst
<1>9. Pen!DraftKept'
    BY <1>e DEF KeptInv, Pen!DraftKept, Pen!Unhurried
<1>10. failures' = 0 => OneDraft'
    BY <1>e, <1>l DEF AgreeInv, OneDraft
<1>11. failures' = 0 => Unnamed'
    BY <1>e, <1>l DEF KeptInv, ComposerTyped, AgreeInv, Unnamed, Named, Pen!Saving, FormRecord
<1>12. failures' = 0 => ShownWasWritten'
    BY <1>e DEF AgreeInv, ShownWasWritten
<1>13. failures' = 0 => UidRead'
    BY <1>e DEF AgreeInv, UidRead
<1>14. failures' = 0 => Copied'
    <2>1. \A w \in Pen!Ways : drop'[w].pc = "row" <=> (drop[w].pc = "row" /\ w # "send")
        BY <1>e
    <2>2. drop["send"].pc = "idle"
        BY DEF Pen!Send
    <2>3. \A w \in Pen!Ways : drop[w].pc = "row" => drop'[w] = drop[w]
        BY <1>e, <2>2
    <2> QED
        BY <1>e, <2>1, <2>2, <2>3 DEF AgreeInv, Copied
<1>15. failures' = 0 => OverGoes'
    <2>1. \A w \in Pen!Ways : Deleting(w) => drop'[w] = drop[w] /\ Deleting(w)'
        BY <1>e DEF Pen!Send, Deleting
    <2> QED
        BY <1>e, <2>1 DEF AgreeInv, OverGoes
<1> QED
    BY <1>1, <1>2, <1>3, <1>4, <1>5, <1>6, <1>7, <1>8, <1>9, <1>10, <1>11, <1>12, <1>13, <1>14,
        <1>15 DEF KeptInv, AgreeInv

\* The letter went out.
LEMMA SendPostKeeps ==
    ASSUME Pen!ComposerConstants, KeptInv, AgreeInv, Pen!SendPost
    PROVE  KeptInv' /\ AgreeInv'
<1>e. /\ "send" \in Pen!Ways /\ drop["send"].pc = "post"
      /\ DropOn("send", IF drop["send"].draft = None THEN "reply" ELSE "read")
      /\ drop["send"].letter \in Letters /\ told' = [told EXCEPT ![drop["send"].letter] = "over"]
      /\ UNCHANGED <<form, shown, drafts, copies, draftUid, save, hurried, failures>>
    BY DropMoves DEF Pen!SendPost, Pen!DropTo, KeptInv, ComposerTyped, DropRecord, Pen!Ways
<1>1. ComposerTyped'
    BY <1>e DEF KeptInv, ComposerTyped, DropOn, Pen!Saving, Deleting, Appended
<1>2. OneAtATime'
    BY <1>e DEF KeptInv, OneAtATime, Pen!Saving, DropOn
<1>l. ASSUME NEW d \in Drafts, NEW l \in Letters, Linked(d, l)' PROVE Linked(d, l)
    BY <1>e, <1>l DEF Linked, Pen!Saving, DropOn
<1>3. OneLetter'
    BY <1>e, <1>l, FewerLinks DEF KeptInv
<1>4. OneRow'
    BY <1>e DEF KeptInv, OneRow
<1>5. Numbered'
    BY <1>e DEF KeptInv, Numbered, DropOn, Appended
<1>6. Matches'
    BY <1>e DEF KeptInv, Matches, Pen!Saving, DropOn, Appended
<1>7. InFolder'
    BY <1>e DEF KeptInv, InFolder, Appended
<1>8. OverFirst'
    BY <1>e DEF KeptInv, OverFirst, ComposerTyped, DropOn
<1>9. Pen!DraftKept'
    BY <1>e DEF KeptInv, Pen!DraftKept, Pen!Unhurried
<1>10. failures' = 0 => OneDraft'
    BY <1>e, <1>l DEF AgreeInv, OneDraft
<1>11. failures' = 0 => Unnamed'
    BY <1>e, <1>l DEF KeptInv, ComposerTyped, AgreeInv, Unnamed, Named, Pen!Saving, DropOn,
        FormRecord, SaveRecord
<1>12. failures' = 0 => ShownWasWritten'
    BY <1>e DEF AgreeInv, ShownWasWritten
<1>13. failures' = 0 => UidRead'
    BY <1>e DEF AgreeInv, UidRead, DropOn
<1>14. failures' = 0 => Copied'
    BY <1>e DEF AgreeInv, Copied, DropOn
<1>15. failures' = 0 => OverGoes'
    <2> SUFFICES ASSUME failures' = 0, NEW r \in drafts, told'[r.letter] = "over",
                        r.letter \notin hurried
                 PROVE  \/ \E w \in Pen!Ways : Deleting(w)' /\ drop'[w].draft = r.draft
                        \/ (save.pc = "reply" /\ save.draft = r.draft)
        BY <1>e DEF OverGoes
    <2>0. OneDraft /\ Unnamed /\ OverGoes
        BY <1>e DEF AgreeInv
    <2>1. r.letter \in Letters /\ r.draft \in Drafts /\ told \in [Letters -> {"no", "kept", "over"}]
        BY DEF KeptInv, ComposerTyped, RowRecord
    <2>2. CASE r.letter = drop["send"].letter
        <3>1. Linked(r.draft, r.letter)
            BY DEF Linked
        <3>2. drop["send"].draft # None
            BY <1>e, <2>0, <2>1, <2>2, <3>1 DEF Unnamed, Named
        <3>3. r.draft = drop["send"].draft
            BY <1>e, <2>0, <2>2, <3>2, DropsRow
        <3> QED
            BY <1>e, <3>2, <3>3 DEF DropOn, Deleting
    <2>3. CASE r.letter # drop["send"].letter
        <3>1. told[r.letter] = "over"
            BY <1>e, <2>1, <2>3
        <3>2. \A w \in Pen!Ways : Deleting(w) => Deleting(w)' /\ drop'[w] = drop[w]
            BY <1>e DEF DropOn, Deleting
        <3> QED
            BY <2>0, <3>1, <3>2 DEF OverGoes
    <2> QED
        BY <2>2, <2>3
<1> QED
    BY <1>1, <1>2, <1>3, <1>4, <1>5, <1>6, <1>7, <1>8, <1>9, <1>10, <1>11, <1>12, <1>13, <1>14,
        <1>15 DEF KeptInv, AgreeInv

\* A draft is discarded from the list.
LEMMA DiscardKeeps ==
    ASSUME Pen!ComposerConstants, KeptInv, AgreeInv, NEW r \in shown, Pen!Discard(r)
    PROVE  KeptInv' /\ AgreeInv'
<1>e. /\ "discard" \in Pen!Ways /\ r \in RowRecord
      /\ hurried \subseteq hurried' /\ hurried' \subseteq Letters
      /\ Pen!Saving => r.letter \in hurried' /\ save.letter \in hurried'
      /\ drop' \in [Pen!Ways -> DropRecord] /\ \A v \in Pen!Ways : v # "discard" => drop'[v] = drop[v]
      /\ drop'["discard"].pc = "read" /\ drop'["discard"].draft = r.draft
      /\ drop'["discard"].letter = r.letter /\ drop'["discard"].uid = 0
      /\ told' = [told EXCEPT ![r.letter] = "over"]
      /\ UNCHANGED <<form, shown, drafts, copies, draftUid, save, failures>>
    <2> DEFINE q == [Pen!NoDrop EXCEPT !.pc = "read", !.draft = r.draft, !.letter = r.letter]
    <2>1. drop' = [drop EXCEPT !["discard"] = q] /\ told' = [told EXCEPT ![r.letter] = "over"]
        BY DEF Pen!Discard
    <2>2. "discard" \in Pen!Ways /\ r \in RowRecord /\ drop \in [Pen!Ways -> DropRecord]
        BY DEF Pen!Ways, KeptInv, ComposerTyped
    <2>5. /\ hurried \subseteq hurried' /\ hurried' \subseteq Letters
          /\ Pen!Saving => r.letter \in hurried' /\ save.letter \in hurried'
        BY <2>2 DEF Pen!Discard, Pen!WhileSaving, KeptInv, ComposerTyped, RowRecord, SaveRecord
    <2>3. /\ q \in DropRecord /\ q.pc = "read" /\ q.draft = r.draft
          /\ q.letter = r.letter /\ q.uid = 0
        BY <2>2, Nothing DEF DropRecord, RowRecord
    <2>4. UNCHANGED <<form, shown, drafts, copies, draftUid, save, failures>>
        BY DEF Pen!Discard
    <2> HIDE DEF q
    <2> QED
        BY <2>1, <2>2, <2>3, <2>4, <2>5
<1>1. ComposerTyped'
    BY <1>e DEF KeptInv, ComposerTyped, Pen!ComposerConstants, RowRecord, Pen!Saving, Deleting, Appended
<1>2. OneAtATime'
    <2>1. CASE ~Pen!Saving
        BY <1>e, <2>1 DEF OneAtATime, Pen!Saving
    <2>2. CASE Pen!Saving
        <3>1. form.letter = save.letter \/ form.letter \in hurried
            BY <2>2 DEF KeptInv, OneAtATime
        <3> QED
            BY <1>e, <2>2, <3>1 DEF KeptInv, OneAtATime, Pen!Saving
    <2> QED
        BY <2>1, <2>2
<1>l. ASSUME NEW d \in Drafts, NEW l \in Letters, Linked(d, l)' PROVE Linked(d, l)
    BY <1>e, <1>l DEF Linked, Pen!Saving
<1>3. OneLetter'
    BY <1>e, <1>l, FewerLinks DEF KeptInv
<1>4. OneRow'
    BY <1>e DEF KeptInv, OneRow
<1>5. Numbered'
    BY <1>e DEF KeptInv, ComposerTyped, Numbered, Appended
<1>6. Matches'
    BY <1>e DEF KeptInv, ComposerTyped, Matches, Pen!Saving, CopyRecord, Uids, Appended
<1>7. InFolder'
    BY <1>e DEF KeptInv, InFolder, Appended
<1>8. OverFirst'
    <2>1. told \in [Letters -> {"no", "kept", "over"}] /\ r.letter \in Letters
        BY <1>e DEF KeptInv, ComposerTyped, RowRecord
    <2>2. \A l \in Letters : told[l] = "over" => told'[l] = "over"
        BY <1>e, <2>1
    <2>3. told'[r.letter] = "over"
        BY <1>e, <2>1
    <2> QED
        BY <1>e, <2>2, <2>3 DEF KeptInv, OverFirst
<1>9. Pen!DraftKept'
    BY <1>e DEF KeptInv, Pen!DraftKept, Pen!Unhurried
<1>10. failures' = 0 => OneDraft'
    BY <1>e, <1>l DEF AgreeInv, OneDraft
<1>11. failures' = 0 => Unnamed'
    BY <1>e, <1>l DEF KeptInv, ComposerTyped, AgreeInv, Unnamed, Named, Pen!Saving, Pen!Ways, FormRecord,
        DropRecord
<1>12. failures' = 0 => ShownWasWritten'
    BY <1>e DEF AgreeInv, ShownWasWritten
<1>13. failures' = 0 => UidRead'
    BY <1>e DEF AgreeInv, UidRead
<1>14. failures' = 0 => Copied'
    <2>1. drop["discard"].pc = "idle"
        BY DEF Pen!Discard
    <2>2. \A w \in Pen!Ways : drop[w].pc = "row" => drop'[w] = drop[w]
        BY <1>e, <2>1
    <2> QED
        BY <1>e, <2>2 DEF AgreeInv, Copied
<1>15. failures' = 0 => OverGoes'
    <2> SUFFICES ASSUME failures' = 0, NEW q \in drafts, told'[q.letter] = "over",
                        q.letter \notin hurried'
                 PROVE  \/ \E w \in Pen!Ways : Deleting(w)' /\ drop'[w].draft = q.draft
                        \/ (save.pc = "reply" /\ save.draft = q.draft)
        BY <1>e DEF OverGoes
    <2>0. OneDraft /\ OverGoes
        BY <1>e DEF AgreeInv
    <2>1. /\ q.letter \in Letters /\ q.draft \in Drafts /\ r.draft \in Drafts /\ r.letter \in Letters
          /\ told \in [Letters -> {"no", "kept", "over"}]
        BY <1>e DEF KeptInv, ComposerTyped, RowRecord
    <2>2. CASE q.letter = r.letter
        <3>1. Linked(q.draft, q.letter) /\ Linked(r.draft, r.letter)
            BY DEF Linked
        <3>2. q.draft = r.draft
            BY <1>e, <2>0, <2>1, <2>2, <3>1 DEF OneDraft
        <3> QED
            BY <1>e, <3>2 DEF Deleting
    <2>3. CASE q.letter # r.letter
        <3>1. told[q.letter] = "over"
            BY <1>e, <2>1, <2>3
        <3>2. \A w \in Pen!Ways : Deleting(w) => Deleting(w)' /\ drop'[w] = drop[w]
            BY <1>e DEF Pen!Discard, Deleting
        <3> QED
            BY <1>e, <2>0, <3>1, <3>2 DEF OverGoes
    <2> QED
        BY <2>2, <2>3
<1> QED
    BY <1>1, <1>2, <1>3, <1>4, <1>5, <1>6, <1>7, <1>8, <1>9, <1>10, <1>11, <1>12, <1>13, <1>14,
        <1>15 DEF KeptInv, AgreeInv

\* A deletion reads which copy the row names.
LEMMA DropReadKeeps ==
    ASSUME Pen!ComposerConstants, KeptInv, AgreeInv, NEW w \in Pen!Ways, Pen!DropRead(w)
    PROVE  KeptInv' /\ AgreeInv'
<1>e. /\ drop[w].pc = "read" /\ drop' \in [Pen!Ways -> DropRecord]
      /\ \A v \in Pen!Ways : v # w => drop'[v] = drop[v]
      /\ drop'[w].draft = drop[w].draft /\ drop'[w].letter = drop[w].letter
      /\ \/ drop'[w].pc = "row" /\ drop'[w].uid = drop[w].uid /\ \A r \in drafts : r.draft # drop[w].draft
         \/ \E r \in drafts : r.draft = drop[w].draft /\ drop'[w].pc = "drop" /\ drop'[w].uid = r.uid
      /\ UNCHANGED <<form, shown, drafts, copies, draftUid, save, told, hurried, failures>>
    BY DEF Pen!DropRead, KeptInv, ComposerTyped, RowRecord, DropRecord
<1>1. ComposerTyped'
    BY <1>e DEF KeptInv, ComposerTyped, Pen!Saving, Deleting, Appended
<1>2. OneAtATime'
    BY <1>e DEF KeptInv, OneAtATime, Pen!Saving
<1>l. ASSUME NEW d \in Drafts, NEW l \in Letters, Linked(d, l)' PROVE Linked(d, l)
    BY <1>e, <1>l DEF Linked, Pen!Saving
<1>3. OneLetter'
    BY <1>e, <1>l, FewerLinks DEF KeptInv
<1>4. OneRow'
    BY <1>e DEF KeptInv, OneRow
<1>5. Numbered'
    BY <1>e DEF KeptInv, Numbered, Appended
<1>6. Matches'
    <2>1. ASSUME NEW r \in drafts, r.draft = drop[w].draft, r.letter \notin hurried
          PROVE  r.letter = drop[w].letter
        <3>1. drop[w].pc # "idle" /\ drop[w].draft # None
            BY <1>e DEF KeptInv, ComposerTyped, Deleting
        <3> QED
            BY <2>1, <3>1, DropsRow
    <2>2. ASSUME NEW c \in copies, c.letter \notin hurried, NEW v \in Pen!Ways, drop'[v].uid = c.uid
          PROVE  drop'[v].letter = c.letter
        <3>0. drop'[v].letter = drop[v].letter
            BY <1>e
        <3>1. CASE drop'[v].uid = drop[v].uid
            BY <2>2, <3>0, <3>1 DEF KeptInv, Matches
        <3>2. CASE v = w /\ \E r \in drafts : r.draft = drop[w].draft /\ drop'[w].uid = r.uid
            BY <1>e, <2>1, <2>2, <3>2 DEF KeptInv, Matches
        <3> QED
            BY <1>e, <3>1, <3>2
    <2> QED
        BY <1>e, <2>2 DEF KeptInv, Matches, Pen!Saving, Appended
<1>7. InFolder'
    BY <1>e DEF KeptInv, InFolder, Appended
<1>8. OverFirst'
    BY <1>e DEF KeptInv, OverFirst
<1>9. Pen!DraftKept'
    BY <1>e DEF KeptInv, Pen!DraftKept, Pen!Unhurried
<1>10. failures' = 0 => OneDraft'
    BY <1>e, <1>l DEF AgreeInv, OneDraft
<1>11. failures' = 0 => Unnamed'
    BY <1>e, <1>l DEF KeptInv, ComposerTyped, AgreeInv, Unnamed, Named, Pen!Saving, Pen!Ways, FormRecord,
        SaveRecord, DropRecord
<1>12. failures' = 0 => ShownWasWritten'
    BY <1>e DEF AgreeInv, ShownWasWritten
<1>13. failures' = 0 => UidRead'
    BY <1>e DEF KeptInv, OneRow, AgreeInv, UidRead
<1>14. failures' = 0 => Copied'
    BY <1>e DEF AgreeInv, Copied
<1>15. failures' = 0 => OverGoes'
    BY <1>e DEF AgreeInv, OverGoes, Deleting
<1> QED
    BY <1>1, <1>2, <1>3, <1>4, <1>5, <1>6, <1>7, <1>8, <1>9, <1>10, <1>11, <1>12, <1>13, <1>14,
        <1>15 DEF KeptInv, AgreeInv

\* It deletes that copy, if the server can be reached.
LEMMA DropCopyKeeps ==
    ASSUME Pen!ComposerConstants, KeptInv, AgreeInv, NEW w \in Pen!Ways, Pen!DropCopy(w)
    PROVE  KeptInv' /\ AgreeInv'
<1>e. /\ drop[w].pc = "drop" /\ DropOn(w, "row")
      /\ copies' \subseteq copies /\ \A c \in copies : c.uid # drop[w].uid => c \in copies'
      /\ \/ failures' = failures /\ \A c \in copies' : c.uid # drop[w].uid
         \/ failures < MaxFailures /\ failures' = failures + 1
      /\ UNCHANGED <<form, shown, drafts, draftUid, save, told, hurried>>
    <2>1. DropOn(w, "row")
        BY DropMoves DEF Pen!DropCopy, Pen!DropTo, KeptInv
    <2>2. copies' \subseteq copies /\ \A c \in copies : c.uid # drop[w].uid => c \in copies'
        BY DEF Pen!DropCopy
    <2>3. \/ failures' = failures /\ \A c \in copies' : c.uid # drop[w].uid
          \/ failures < MaxFailures /\ failures' = failures + 1
        BY DEF Pen!DropCopy, Pen!Fail
    <2>4. drop[w].pc = "drop" /\ UNCHANGED <<form, shown, drafts, draftUid, save, told, hurried>>
        BY DEF Pen!DropCopy, Pen!DropTo
    <2> QED
        BY <2>1, <2>2, <2>3, <2>4
<1>1. ComposerTyped'
    BY <1>e DEF KeptInv, ComposerTyped, Pen!ComposerConstants, DropOn, Pen!Saving, Deleting, Appended
<1>2. OneAtATime'
    BY <1>e DEF KeptInv, OneAtATime, Pen!Saving, DropOn
<1>l. ASSUME NEW d \in Drafts, NEW l \in Letters, Linked(d, l)' PROVE Linked(d, l)
    BY <1>e, <1>l DEF Linked, Pen!Saving, DropOn
<1>3. OneLetter'
    BY <1>e, <1>l, FewerLinks DEF KeptInv
<1>4. OneRow'
    BY <1>e DEF KeptInv, OneRow
<1>5. Numbered'
    BY <1>e DEF KeptInv, Numbered, DropOn, Appended
<1>6. Matches'
    BY <1>e DEF KeptInv, Matches, Pen!Saving, DropOn, Appended
<1>7. InFolder'
    BY <1>e DEF KeptInv, OneAtATime, InFolder, Appended, Pen!Saving
<1>8. OverFirst'
    BY <1>e DEF KeptInv, OverFirst, DropOn
<1>9. Pen!DraftKept'
    <2> SUFFICES ASSUME NEW l \in Letters, l \notin hurried, told[l] = "kept"
                 PROVE  \E c \in copies' : c.letter = l
        BY <1>e DEF Pen!DraftKept, Pen!Unhurried
    <2>1. PICK c \in copies : c.letter = l
        BY DEF KeptInv, Pen!DraftKept, Pen!Unhurried
    <2>2. c.uid # drop[w].uid
        BY <1>e, <2>1 DEF KeptInv, Matches, OverFirst
    <2> QED
        BY <1>e, <2>1, <2>2
<1>10. failures' = 0 => OneDraft'
    BY <1>e, <1>l DEF KeptInv, ComposerTyped, AgreeInv, OneDraft
<1>11. failures' = 0 => Unnamed'
    BY <1>e, <1>l DEF KeptInv, ComposerTyped, AgreeInv, Unnamed, Named, Pen!Saving, DropOn, Pen!Ways,
        FormRecord, SaveRecord, DropRecord
<1>12. failures' = 0 => ShownWasWritten'
    BY <1>e DEF KeptInv, ComposerTyped, AgreeInv, ShownWasWritten
<1>13. failures' = 0 => UidRead'
    <2> SUFFICES ASSUME failures' = 0 PROVE UidRead'
        OBVIOUS
    <2>0. failures = 0 /\ UidRead /\ \A c \in copies' : c.uid # drop[w].uid
        BY <1>e DEF AgreeInv, KeptInv, ComposerTyped
    <2>1. ASSUME NEW r \in drafts, r.draft = drop[w].draft, r.letter \notin hurried PROVE Copy(r) \notin copies'
        <3>1. r.uid = drop[w].uid /\ Copy(r).uid = r.uid
            BY <1>e, <2>0, <2>1 DEF UidRead, Copy
        <3> QED
            BY <2>0, <3>1
    <2>2. ASSUME NEW v \in Pen!Ways, v # w PROVE drop'[v] = drop[v]
        BY <1>e, <2>2 DEF DropOn
    <2>3. drop'[w].pc = "row" /\ drop'[w].draft = drop[w].draft
        BY <1>e DEF DropOn
    <2> QED
        BY <1>e, <2>0, <2>1, <2>2, <2>3 DEF UidRead
<1>14. failures' = 0 => Copied'
    <2> SUFFICES ASSUME failures' = 0 PROVE Copied'
        OBVIOUS
    <2>0. failures = 0 /\ Copied /\ OneDraft /\ drop[w].draft # None
        BY <1>e DEF AgreeInv, KeptInv, ComposerTyped, Deleting
    <2>1. ASSUME NEW c \in copies', c.letter \notin hurried
          PROVE  (\E r \in drafts : c = Copy(r)) \/ (save.pc \in {"drop", "row"} /\ c = Copy(save))
        BY <1>e, <2>0, <2>1 DEF Copied
    <2>2. ASSUME NEW r \in drafts, r.letter \notin hurried
          PROVE  \/ Copy(r) \in copies'
                 \/ (save.pc = "row" /\ save.draft = r.draft)
                 \/ \E v \in Pen!Ways : drop'[v].pc = "row" /\ drop'[v].draft = r.draft
        <3>1. CASE Copy(r) \in copies
            <4>1. Copy(r).uid = r.uid /\ Copy(r).letter = r.letter
                BY DEF Copy
            <4>2. CASE r.uid = drop[w].uid
                <5>1. r.letter = drop[w].letter
                    BY <2>2, <3>1, <4>1, <4>2 DEF KeptInv, Matches
                <5>2. r.draft = drop[w].draft
                    BY <1>e, <2>0, <2>2, <5>1, DropsRow
                <5> QED
                    BY <1>e, <5>2 DEF DropOn
            <4>3. CASE r.uid # drop[w].uid
                BY <1>e, <3>1, <4>1, <4>3
            <4> QED
                BY <4>2, <4>3
        <3>2. ASSUME NEW v \in Pen!Ways, drop[v].pc = "row", drop[v].draft = r.draft
              PROVE  drop'[v].pc = "row" /\ drop'[v].draft = r.draft
            BY <1>e, <3>2 DEF DropOn
        <3> QED
            BY <2>0, <2>2, <3>1, <3>2 DEF Copied
    <2> QED
        BY <1>e, <2>1, <2>2 DEF Copied, Copy
<1>15. failures' = 0 => OverGoes'
    BY <1>e DEF KeptInv, ComposerTyped, AgreeInv, OverGoes, Deleting, DropOn
<1> QED
    BY <1>1, <1>2, <1>3, <1>4, <1>5, <1>6, <1>7, <1>8, <1>9, <1>10, <1>11, <1>12, <1>13, <1>14,
        <1>15 DEF KeptInv, AgreeInv

\* It deletes the row.
LEMMA DropRowKeeps ==
    ASSUME Pen!ComposerConstants, KeptInv, AgreeInv, NEW w \in Pen!Ways, Pen!DropRow(w)
    PROVE  KeptInv' /\ AgreeInv'
<1>e. /\ drop[w].pc = "row" /\ DropOn(w, "reply") /\ drafts' = {r \in drafts : r.draft # drop[w].draft}
      /\ UNCHANGED <<form, shown, copies, draftUid, save, told, hurried, failures>>
    BY DropMoves DEF Pen!DropRow, Pen!DropTo, KeptInv
<1>1. ComposerTyped'
    BY <1>e DEF KeptInv, ComposerTyped, DropOn, Pen!Saving, Deleting, Appended
<1>2. OneAtATime'
    BY <1>e DEF KeptInv, OneAtATime, Pen!Saving, DropOn
<1>l. ASSUME NEW d \in Drafts, NEW l \in Letters, Linked(d, l)' PROVE Linked(d, l)
    BY <1>e, <1>l DEF Linked, Pen!Saving, DropOn
<1>3. OneLetter'
    BY <1>e, <1>l, FewerLinks DEF KeptInv
<1>4. OneRow'
    BY <1>e DEF KeptInv, OneRow
<1>5. Numbered'
    BY <1>e DEF KeptInv, Numbered, DropOn, Appended
<1>6. Matches'
    BY <1>e DEF KeptInv, Matches, Pen!Saving, DropOn, Appended
<1>7. InFolder'
    BY <1>e DEF KeptInv, InFolder, Appended
<1>8. OverFirst'
    BY <1>e DEF KeptInv, OverFirst, DropOn
<1>9. Pen!DraftKept'
    BY <1>e DEF KeptInv, Pen!DraftKept, Pen!Unhurried
<1>10. failures' = 0 => OneDraft'
    BY <1>e, <1>l DEF AgreeInv, OneDraft
<1>11. failures' = 0 => Unnamed'
    BY <1>e, <1>l DEF KeptInv, ComposerTyped, AgreeInv, Unnamed, Named, Pen!Saving, DropOn, Pen!Ways,
        FormRecord, SaveRecord, DropRecord
<1>12. failures' = 0 => ShownWasWritten'
    <2> SUFFICES ASSUME failures' = 0, NEW r \in shown, r.letter \notin hurried
                 PROVE  told[r.letter] # "no" \/ \E q \in drafts' : q.letter = r.letter
        BY <1>e DEF ShownWasWritten
    <2>0. /\ ShownWasWritten /\ drop[w].draft # None
          /\ drop[w].letter \notin hurried => told[drop[w].letter] = "over"
        BY <1>e DEF AgreeInv, KeptInv, ComposerTyped, Deleting, OverFirst
    <2>1. ASSUME NEW q \in drafts, q.letter = r.letter, q.draft = drop[w].draft PROVE told[q.letter] # "no"
        <3>1. q.letter = drop[w].letter
            BY <1>e, <2>0, <2>1, DropsRow
        <3> QED
            BY <2>0, <2>1, <3>1
    <2> QED
        BY <1>e, <2>0, <2>1 DEF ShownWasWritten
<1>13. failures' = 0 => UidRead'
    BY <1>e DEF AgreeInv, UidRead, DropOn
<1>14. failures' = 0 => Copied'
    <2> SUFFICES ASSUME failures' = 0 PROVE Copied'
        OBVIOUS
    <2>0. Copied /\ UidRead
        BY <1>e DEF AgreeInv
    <2>1. ASSUME NEW c \in copies, c.letter \notin hurried, NEW r \in drafts, c = Copy(r)
          PROVE  r \in drafts'
        <3>1. r.letter \notin hurried
            BY <2>1 DEF Copy
        <3>2. r.draft # drop[w].draft
            BY <1>e, <2>0, <2>1, <3>1 DEF UidRead
        <3> QED
            BY <1>e, <3>2
    <2>2. ASSUME NEW r \in drafts, r.draft # drop[w].draft, NEW v \in Pen!Ways,
                 drop[v].pc = "row", drop[v].draft = r.draft
          PROVE  drop'[v].pc = "row" /\ drop'[v].draft = r.draft
        BY <1>e, <2>2 DEF DropOn
    <2>3. ASSUME NEW c \in copies, c.letter \notin hurried
          PROVE  (\E r \in drafts' : c = Copy(r)) \/ (save.pc \in {"drop", "row"} /\ c = Copy(save))
        BY <2>0, <2>1, <2>3 DEF Copied
    <2>4. ASSUME NEW r \in drafts', r.letter \notin hurried
          PROVE  \/ Copy(r) \in copies
                 \/ (save.pc = "row" /\ save.draft = r.draft)
                 \/ \E v \in Pen!Ways : drop'[v].pc = "row" /\ drop'[v].draft = r.draft
        BY <1>e, <2>0, <2>2, <2>4 DEF Copied
    <2> QED
        BY <1>e, <2>3, <2>4 DEF Copied, Copy
<1>15. failures' = 0 => OverGoes'
    BY <1>e DEF AgreeInv, OverGoes, Deleting, DropOn
<1> QED
    BY <1>1, <1>2, <1>3, <1>4, <1>5, <1>6, <1>7, <1>8, <1>9, <1>10, <1>11, <1>12, <1>13, <1>14,
        <1>15 DEF KeptInv, AgreeInv

\* It has ended; after a send the form is closed.
LEMMA DropReplyKeeps ==
    ASSUME Pen!ComposerConstants, KeptInv, AgreeInv, NEW w \in Pen!Ways, Pen!DropReply(w)
    PROVE  KeptInv' /\ AgreeInv'
<1>e. /\ drop[w].pc = "reply" /\ drop' \in [Pen!Ways -> DropRecord] /\ drop'[w] = Pen!NoDrop
      /\ \A v \in Pen!Ways : v # w => drop'[v] = drop[v]
      /\ form' \in FormRecord /\ form'.letter = form.letter /\ form'.draft = form.draft
      /\ form'.open = (form.open /\ w # "send") /\ shown' = drafts
      /\ UNCHANGED <<drafts, copies, draftUid, save, told, hurried, failures>>
    BY Nothing DEF Pen!DropReply, KeptInv, ComposerTyped, FormRecord
<1>1. ComposerTyped'
    BY <1>e, Nothing DEF KeptInv, ComposerTyped, Pen!Saving, Deleting, Appended
<1>2. OneAtATime'
    BY <1>e DEF KeptInv, OneAtATime, Pen!Saving, Pen!NoDrop
<1>l. ASSUME NEW d \in Drafts, NEW l \in Letters, Linked(d, l)' PROVE Linked(d, l)
    BY <1>e, <1>l, Nothing DEF Pen!ComposerConstants, Linked, Pen!Saving
<1>3. OneLetter'
    BY <1>e, <1>l, FewerLinks DEF KeptInv
<1>4. OneRow'
    BY <1>e DEF KeptInv, OneRow
<1>5. Numbered'
    BY <1>e, Nothing DEF KeptInv, ComposerTyped, Numbered, Appended
<1>6. Matches'
    BY <1>e, Nothing DEF KeptInv, ComposerTyped, Matches, Pen!Saving, CopyRecord, Uids, Appended
<1>7. InFolder'
    BY <1>e DEF KeptInv, InFolder, Appended
<1>8. OverFirst'
    BY <1>e, Nothing DEF KeptInv, OverFirst
<1>9. Pen!DraftKept'
    BY <1>e DEF KeptInv, Pen!DraftKept, Pen!Unhurried
<1>10. failures' = 0 => OneDraft'
    BY <1>e, <1>l DEF AgreeInv, OneDraft
<1>11. failures' = 0 => Unnamed'
    BY <1>e, <1>l, Nothing DEF KeptInv, ComposerTyped, AgreeInv, Unnamed, Named, Pen!Saving, Pen!Ways,
        FormRecord, SaveRecord, DropRecord
<1>12. failures' = 0 => ShownWasWritten'
    BY <1>e DEF ShownWasWritten
<1>13. failures' = 0 => UidRead'
    BY <1>e, Nothing DEF AgreeInv, UidRead
<1>14. failures' = 0 => Copied'
    BY <1>e DEF AgreeInv, Copied
<1>15. failures' = 0 => OverGoes'
    BY <1>e DEF AgreeInv, OverGoes, Deleting
<1> QED
    BY <1>1, <1>2, <1>3, <1>4, <1>5, <1>6, <1>7, <1>8, <1>9, <1>10, <1>11, <1>12, <1>13, <1>14,
        <1>15 DEF KeptInv, AgreeInv

\* It dies.
LEMMA DropFailsKeeps ==
    ASSUME Pen!ComposerConstants, KeptInv, AgreeInv, NEW w \in Pen!Ways, Pen!DropFails(w)
    PROVE  KeptInv' /\ AgreeInv'
<1>e. /\ drop[w].pc # "idle" /\ drop' \in [Pen!Ways -> DropRecord] /\ drop'[w] = Pen!NoDrop
      /\ \A v \in Pen!Ways : v # w => drop'[v] = drop[v]
      /\ failures < MaxFailures /\ failures' = failures + 1
      /\ UNCHANGED <<form, shown, drafts, copies, draftUid, save, told, hurried>>
    BY Nothing DEF Pen!DropFails, Pen!Fail, KeptInv, ComposerTyped
<1>1. ComposerTyped'
    BY <1>e, Nothing DEF KeptInv, ComposerTyped, Pen!ComposerConstants, Pen!Saving, Deleting, Appended
<1>2. OneAtATime'
    BY <1>e DEF KeptInv, OneAtATime, Pen!Saving, Pen!NoDrop
<1>l. ASSUME NEW d \in Drafts, NEW l \in Letters, Linked(d, l)' PROVE Linked(d, l)
    BY <1>e, <1>l, Nothing DEF Pen!ComposerConstants, Linked, Pen!Saving
<1>3. OneLetter'
    BY <1>e, <1>l, FewerLinks DEF KeptInv
<1>4. OneRow'
    BY <1>e DEF KeptInv, OneRow
<1>5. Numbered'
    BY <1>e, Nothing DEF KeptInv, ComposerTyped, Numbered, Appended
<1>6. Matches'
    BY <1>e, Nothing DEF KeptInv, ComposerTyped, Matches, Pen!Saving, CopyRecord, Uids, Appended
<1>7. InFolder'
    BY <1>e DEF KeptInv, InFolder, Appended
<1>8. OverFirst'
    BY <1>e, Nothing DEF KeptInv, OverFirst
<1>9. Pen!DraftKept'
    BY <1>e DEF KeptInv, Pen!DraftKept, Pen!Unhurried
<1>10. AgreeInv'
    BY <1>e DEF AgreeInv, KeptInv, ComposerTyped
<1> QED
    BY <1>1, <1>2, <1>3, <1>4, <1>5, <1>6, <1>7, <1>8, <1>9, <1>10 DEF KeptInv

\* A new letter is one that was not written yet, so it has no id anywhere.
LEMMA ComposeKeeps ==
    ASSUME Pen!ComposerConstants, KeptInv, AgreeInv, Pen!Compose
    PROVE  KeptInv' /\ AgreeInv'
<1> DEFINE l == CHOOSE k \in Letters : k \notin Pen!Written
<1>1. l \in Letters /\ l \notin Pen!Written /\ Pen!openForm(l, None)
    BY DEF Pen!Compose
<1> HIDE DEF l
<1>2. ASSUME failures = 0, l \notin hurried PROVE ~Named(l)
    <2> SUFFICES ASSUME NEW d \in Drafts, Linked(d, l) PROVE FALSE
        BY DEF Named
    <2>1. ASSUME NEW r \in shown, r.letter = l PROVE FALSE
        <3>1. l \in Letters /\ (told[l] # "no" \/ \E q \in drafts : q.letter = l)
            BY <1>1, <1>2, <2>1 DEF AgreeInv, ShownWasWritten
        <3> QED
            BY <1>1, <3>1 DEF Pen!Written
    <2>2. ASSUME NEW r \in drafts, r.letter = l PROVE FALSE
        BY <1>1, <2>2 DEF Pen!Written
    <2>3. form.letter # l /\ save.letter # l /\ drop["send"].letter # l
        BY <1>1 DEF Pen!Written
    <2>4. ASSUME drop["discard"].draft = d, drop["discard"].letter = l PROVE FALSE
        <3>1. drop["discard"].pc \in {"read", "drop", "row", "reply"}
            BY <2>4 DEF KeptInv, ComposerTyped, Pen!ComposerConstants, DropRecord, Pen!Ways
        <3>2. told[l] = "over"
            BY <1>2, <2>4, <3>1 DEF KeptInv, OverFirst, Pen!Ways
        <3> QED
            BY <1>1, <3>2 DEF Pen!Written
    <2> QED
        BY <2>1, <2>2, <2>3, <2>4 DEF Linked, Pen!Ways
<1> QED
    BY <1>1, <1>2, OpenKeeps

\* A draft is opened from the list.
LEMMA EditKeeps ==
    ASSUME Pen!ComposerConstants, KeptInv, AgreeInv, NEW r \in shown, Pen!Edit(r)
    PROVE  KeptInv' /\ AgreeInv'
<1>1. r.letter \in Letters /\ Pen!openForm(r.letter, r.draft)
    BY DEF Pen!Edit, KeptInv, ComposerTyped, RowRecord
<1> QED
    BY <1>1, OpenKeeps

-----------------------------------------------------------------------------
(* Theorems *)

\* Nothing is written, nothing under way.
LEMMA ComposerInit == ASSUME Pen!ComposerConstants, Pen!Init PROVE KeptInv /\ AgreeInv
<1>1. /\ form \in FormRecord /\ ~form.open /\ form.draft = None
      /\ save = Pen!NoSave /\ \A w \in Pen!Ways : drop[w] = Pen!NoDrop
      /\ drop \in [Pen!Ways -> DropRecord]
    BY Nothing DEF Pen!Init, FormRecord
<1>2. ComposerTyped
    BY <1>1, Nothing DEF Pen!Init, ComposerTyped, Pen!ComposerConstants, Pen!Saving, Deleting, Appended
<1>3. OneAtATime /\ InFolder /\ OverFirst /\ OneRow /\ Pen!DraftKept
    BY <1>1, Nothing DEF Pen!Init, OneAtATime, InFolder, OverFirst, OneRow, Pen!DraftKept, Pen!Unhurried,
        Pen!Saving, Appended
<1>4. Numbered /\ Matches
    BY <1>1, Nothing DEF Pen!Init, Numbered, Matches, Appended
<1>5. \A d \in Drafts, l \in Letters : ~Linked(d, l)
    BY <1>1, Nothing DEF Pen!Init, Linked, Pen!Saving, Pen!ComposerConstants
<1>6. OneLetter /\ OneDraft
    BY <1>5 DEF OneLetter, OneDraft
<1>7. Unnamed /\ ShownWasWritten /\ UidRead /\ Copied /\ OverGoes
    BY <1>1, Nothing DEF Pen!Init, Unnamed, ShownWasWritten, UidRead, Copied, OverGoes, Pen!Saving, Pen!Ways
<1> QED
    BY <1>2, <1>3, <1>4, <1>6, <1>7 DEF KeptInv, AgreeInv

\* Every step keeps it.
LEMMA ComposerStep ==
    ASSUME Pen!ComposerConstants, KeptInv, AgreeInv, [Pen!Next]_Pen!vars
    PROVE  KeptInv' /\ AgreeInv'
<1>1. CASE Pen!Next
    <2>1. CASE Pen!Compose
        BY <2>1, ComposeKeeps
    <2>2. ASSUME NEW r \in shown, Pen!Edit(r) PROVE KeptInv' /\ AgreeInv'
        BY <2>2, EditKeeps
    <2>3. ASSUME NEW r \in shown, Pen!Discard(r) PROVE KeptInv' /\ AgreeInv'
        BY <2>3, DiscardKeeps
    <2>4. CASE Pen!Cancel \/ Pen!Show
        BY <2>4, CancelKeeps, ShowKeeps
    <2>5. CASE Pen!Save \/ Pen!SaveRead \/ Pen!SaveAppend \/ Pen!SaveDrop \/ Pen!SaveRow \/ Pen!SaveReply \/ Pen!SaveFails
        BY <2>5, SaveKeeps, SaveReadKeeps, SaveAppendKeeps, SaveDropKeeps, SaveRowKeeps,
           SaveReplyKeeps, SaveFailsKeeps
    <2>6. CASE Pen!Send \/ Pen!SendPost
        BY <2>6, SendKeeps, SendPostKeeps
    <2>7. ASSUME NEW w \in Pen!Ways,
                 Pen!DropRead(w) \/ Pen!DropCopy(w) \/ Pen!DropRow(w) \/ Pen!DropReply(w) \/ Pen!DropFails(w)
          PROVE  KeptInv' /\ AgreeInv'
        BY <2>7, DropReadKeeps, DropCopyKeeps, DropRowKeeps, DropReplyKeeps, DropFailsKeeps
    <2> QED
        BY <1>1, <2>1, <2>2, <2>3, <2>4, <2>5, <2>6, <2>7 DEF Pen!Next
<1>2. CASE UNCHANGED Pen!vars
    BY <1>2 DEF Pen!vars, KeptInv, AgreeInv, ComposerTyped, OneAtATime, OneLetter, OneRow, Numbered,
        Matches, InFolder, OverFirst, Pen!DraftKept, Pen!Unhurried, OneDraft, Unnamed, ShownWasWritten, UidRead,
        Copied, OverGoes, Linked, Named, Pen!Saving, Appended, Deleting, Copy
<1> QED
    BY <1>1, <1>2

LEMMA ComposerIsTyped == ASSUME Pen!ComposerConstants PROVE KeptInv => Pen!TypeOK
    BY DEF KeptInv, ComposerTyped, OneRow, Numbered, Pen!TypeOK, FormRecord, RowRecord, SaveRecord,
       DropRecord, Uids

LEMMA ComposerAgrees == KeptInv /\ AgreeInv => Pen!DraftsAgree
<1> SUFFICES ASSUME KeptInv, AgreeInv, failures = 0, ~Pen!Saving, Pen!Dropping = {} PROVE Pen!DraftsAgree
    BY DEF Pen!DraftsAgree
<1>0. \A w \in Pen!Ways : drop[w].pc = "idle"
    BY DEF Pen!Dropping
<1>1. {c \in copies : c.letter \in Pen!Unhurried}
          = {[letter |-> r.letter, uid |-> r.uid] : r \in {r \in drafts : r.letter \in Pen!Unhurried}}
    <2>1. ASSUME NEW c \in copies, c.letter \in Pen!Unhurried
          PROVE  \E r \in drafts : r.letter \in Pen!Unhurried /\ c = [letter |-> r.letter, uid |-> r.uid]
        <3>1. PICK r \in drafts : c = Copy(r)
            BY <2>1 DEF AgreeInv, Copied, Pen!Saving, Pen!Unhurried
        <3> QED
            BY <2>1, <3>1 DEF Copy
    <2>2. ASSUME NEW r \in drafts, r.letter \in Pen!Unhurried
          PROVE  [letter |-> r.letter, uid |-> r.uid] \in {c \in copies : c.letter \in Pen!Unhurried}
        BY <1>0, <2>2 DEF AgreeInv, Copied, Copy, Pen!Saving, Pen!Unhurried
    <2> QED
        BY <2>1, <2>2
<1>2. ASSUME NEW r \in drafts, NEW q \in drafts, r.letter = q.letter, r.letter \in Pen!Unhurried PROVE r = q
    <2>1. /\ r.draft \in Drafts /\ q.draft \in Drafts /\ r.letter \in Letters
          /\ Linked(r.draft, r.letter) /\ Linked(q.draft, r.letter)
        BY <1>2 DEF KeptInv, ComposerTyped, RowRecord, Linked
    <2> QED
        BY <1>2, <2>1 DEF AgreeInv, OneDraft, KeptInv, OneRow, Pen!Unhurried
<1>3. \A r \in drafts : r.letter \in Pen!Unhurried => told[r.letter] # "over"
    BY <1>0 DEF AgreeInv, OverGoes, Deleting, Pen!Saving, Pen!Unhurried
<1> QED
    BY <1>1, <1>2, <1>3 DEF Pen!DraftsAgree

\* The fields are of their kinds, a row of each draft, a uid of each copy.
THEOREM ComposerTypes == ASSUME Pen!ComposerConstants PROVE Pen!Spec => []Pen!TypeOK
<1>1. KeptInv => Pen!TypeOK
    BY ComposerIsTyped
<1> QED
    BY <1>1, ComposerInit, ComposerStep, PTL DEF Pen!Spec

\* A lost draft is worse than a duplicated one: a letter she was told is in
\* Drafts is in the mailbox, whichever requests fail, until she sends or
\* discards it (saveDraft, which appends first and deletes second).  Whatever
\* she does with other letters meanwhile; only one that she worked on while it
\* was being saved or deleted herself may be lost.
THEOREM KeptIfSheWaits == ASSUME Pen!ComposerConstants PROVE Pen!Spec => []Pen!DraftKept
<1>1. KeptInv => Pen!DraftKept
    BY DEF KeptInv
<1> QED
    BY <1>1, ComposerInit, ComposerStep, PTL DEF Pen!Spec

\* And when nothing failed and nothing is under way, her list's rows and the
\* mailbox's copies of such letters are the same, one of each letter, and none of
\* one that she sent or discarded (saveDraft, deleteDraft).
THEOREM PanelAndFolderAgree == ASSUME Pen!ComposerConstants PROVE Pen!Spec => []Pen!DraftsAgree
<1>1. KeptInv /\ AgreeInv => Pen!DraftsAgree
    BY ComposerAgrees
<1> QED
    BY <1>1, ComposerInit, ComposerStep, PTL DEF Pen!Spec

-----------------------------------------------------------------------------
(* The parts of MCMail: the properties that the run mail checks              *)

LEMMA DeskThere == Spec => [](part = "desk" => DeskInv)
<1>1. Init => (part = "desk" => DeskInv)
    BY MailConstants, DeskStarts DEF Init, MailConstants
<1>2. (part = "desk" => DeskInv) /\ [Next]_vars => (part = "desk" => DeskInv)'
    <2> SUFFICES ASSUME part = "desk" => DeskInv, [Next]_vars, part' = "desk"
                 PROVE  DeskInv'
        OBVIOUS
    <2>1. CASE Next
        <3>1. part = "desk" /\ Desk!Next
            BY <2>1 DEF Next, Moves
        <3> QED
            BY <3>1, MailConstants, DeskSteps DEF MailConstants
    <2>2. CASE UNCHANGED vars
        BY <2>2, MailConstants, DeskSteps DEF MailConstants, vars, deskVars, Desk!vars
    <2> QED
        BY <2>1, <2>2
<1> QED
    BY <1>1, <1>2, PTL DEF Spec

\* A rule says what mail of its sender was moved, where the desk moves.
THEOREM RulesFollowMovesThere == Spec => []RuleFromAMove
<1>1. (part = "desk" => DeskInv) => RuleFromAMove
    BY MailConstants, DeskIsTyped DEF MailConstants, DeskInv, RuleFromAMove
<1> QED
    BY <1>1, DeskThere, PTL

\* And what is destroyed was in Trash, whichever part moves.
THEOREM NothingElseDestroyedThere == Spec => DestroyOnlyFromTrash
<1>1. ASSUME part = "desk" => DeskInv, [Next]_vars
      PROVE  \A m \in Filable : place'[m].folder = Gone => place[m].folder \in {TrashTab, Gone}
    <2>1. CASE place' = place
        BY <2>1
    <2>2. CASE Next /\ place' # place
        <3>1. part = "desk" /\ Desk!Next
            BY <2>2 DEF Next, Moves, deskVars
        <3> QED
            BY <1>1, <3>1, MailConstants, DestroyedInTrash DEF MailConstants
    <2>3. CASE UNCHANGED vars
        BY <2>1, <2>3 DEF vars, deskVars
    <2> QED
        BY <1>1, <2>1, <2>2, <2>3
<1>2. (part = "desk" => DeskInv) /\ [Next]_vars => [\A m \in Filable :
          place'[m].folder = Gone => place[m].folder \in {TrashTab, Gone}]_Desk!vars
    BY <1>1
<1> QED
    BY <1>2, DeskThere, PTL DEF Spec, DestroyOnlyFromTrash, Desk!DestroyOnlyFromTrash

\* A letter she was told is in Drafts is there, and list and folder agree,
\* where the composer moves.
THEOREM DraftKeptThere == Spec => []DraftKept
<1> DEFINE Inv == part = "composer" => KeptInv /\ AgreeInv
<1>1. Init => Inv
    BY MailConstants, ComposerInit DEF Init, MailConstants
<1>2. Inv /\ [Next]_vars => Inv'
    <2> SUFFICES ASSUME Inv, [Next]_vars, part' = "composer"
                 PROVE  KeptInv' /\ AgreeInv'
        OBVIOUS
    <2>1. CASE Next
        <3>1. part = "composer" /\ Pen!Next
            BY <2>1 DEF Next, Moves
        <3> QED
            BY <3>1, MailConstants, ComposerStep DEF MailConstants
    <2>2. CASE UNCHANGED vars
        BY <2>2, MailConstants, ComposerStep DEF MailConstants, vars, penVars, Pen!vars
    <2> QED
        BY <2>1, <2>2
<1>3. Inv => DraftKept
    <2> SUFFICES ASSUME KeptInv, AgreeInv, part = "composer" PROVE DraftKept
        BY DEF DraftKept
    <2>1. Pen!TypeOK /\ Pen!DraftsAgree
        BY MailConstants, ComposerIsTyped, ComposerAgrees DEF MailConstants
    <2> QED
        BY <2>1 DEF KeptInv, DraftKept
<1> QED
    BY <1>1, <1>2, <1>3, PTL DEF Spec

-----------------------------------------------------------------------------
(* Mailboxes                                                                 *)

BoxCall == [pc : {"idle", "next", "poll", "done"}, now : Nat, todo : SUBSET Boxes!getMailboxes]
BoxLetter ==
    [kind : Boxes!Kinds \union {"none"}, who : Boxes!Admins \union {NoName},
     box : Boxes!AllBoxes \union {NoName}]

BoxTyped ==
    /\ clock \in COOLDOWN..MaxTime /\ restarts \in 0..MaxRestarts
    /\ lastPoll \in [Boxes!AllBoxes -> Nat]
    /\ call \in [Boxes!Callers -> BoxCall]
    /\ letter \in [Asks -> BoxLetter]

\* A request was there when it came, and a stamp is of such a moment.
Stamped ==
    /\ \A b \in Boxes!AllBoxes : lastPoll[b] \in {0} \union COOLDOWN..clock
    /\ \A r \in Boxes!Callers : /\ call[r].now <= clock
                                /\ call[r].pc \in {"next", "poll"} => COOLDOWN <= call[r].now

\* What was begun is stamped: the stamp of a mailbox is never before it.
BeforeTheStamp ==
    \A a \in begun : a.box \in Boxes!AllBoxes /\ a.now \in Nat /\ a.now <= lastPoll[a.box]

BoxInv == BoxTyped /\ Stamped /\ BeforeTheStamp /\ Boxes!HeldButton /\ Boxes!InTheirName

LEMMA BoxStarts ==
    ASSUME Boxes!MailboxConstants, Boxes!Init
    PROVE  BoxInv
<1>1. Boxes!Unborn \in BoxCall /\ Boxes!Unborn.now = 0 /\ Boxes!Unborn.pc = "idle"
    BY DEF Boxes!Unborn, BoxCall
<1>2. Boxes!Unsent \in BoxLetter
    BY DEF Boxes!Unsent, BoxLetter
<1>3. BoxTyped
    BY <1>1, <1>2 DEF BoxTyped, Boxes!Init, Boxes!MailboxConstants
<1>4. Stamped
    BY <1>1 DEF Stamped, Boxes!Init, Boxes!MailboxConstants
<1>5. Boxes!InTheirName
    BY DEF Boxes!InTheirName, Boxes!Init, Boxes!Unsent
<1> QED
    BY <1>3, <1>4, <1>5 DEF BoxInv, BeforeTheStamp, Boxes!HeldButton, Boxes!Init

-----------------------------------------------------------------------------

\* A request that begins, is through or goes on without a stamp.
LEMMA CallGoesOn ==
    ASSUME Boxes!MailboxConstants, BoxInv, NEW r \in Boxes!Callers, NEW x \in BoxCall,
           call' = [call EXCEPT ![r] = x], x.now <= clock,
           x.pc \in {"next", "poll"} => COOLDOWN <= x.now,
           UNCHANGED <<clock, lastPoll, begun, letter, restarts>>
    PROVE  BoxInv'
<1>1. BoxTyped /\ call \in [Boxes!Callers -> BoxCall]
    BY DEF BoxInv, BoxTyped
<1>2. call' \in [Boxes!Callers -> BoxCall] /\ call'[r] = x /\ \A q \in Boxes!Callers \ {r} : call'[q] = call[q]
    BY <1>1
<1>3. BoxTyped'
    BY <1>1, <1>2 DEF BoxTyped
<1>4. Stamped'
    BY <1>2 DEF BoxInv, Stamped
<1> QED
    BY <1>3, <1>4 DEF BoxInv, BeforeTheStamp, Boxes!HeldButton, Boxes!InTheirName

LEMMA BeginsKeeps ==
    ASSUME Boxes!MailboxConstants, BoxInv, NEW r \in Boxes!Callers,
           NEW S \in SUBSET Boxes!getMailboxes, Boxes!Begins(r, S)
    PROVE  BoxInv'
<1> DEFINE x == [pc |-> "next", now |-> clock, todo |-> S]
<1>1. clock \in Nat /\ COOLDOWN <= clock
    BY DEF BoxInv, BoxTyped, Boxes!MailboxConstants
<1>2. x \in BoxCall /\ x.now = clock /\ clock <= clock
    BY <1>1 DEF BoxCall
<1>3. call' = [call EXCEPT ![r] = x] /\ UNCHANGED <<clock, lastPoll, begun, letter, restarts>>
    BY DEF Boxes!Begins
<1> HIDE DEF x
<1> QED
    BY <1>1, <1>2, <1>3, CallGoesOn

LEMMA StartKeeps ==
    ASSUME Boxes!MailboxConstants, BoxInv, NEW r \in Boxes!Callers,
           Boxes!CronStart(r) \/ Boxes!PressStart(r)
    PROVE  BoxInv'
<1>1. \A who : Boxes!getMailboxesForAdmin(who) \subseteq Boxes!getMailboxes
    BY DEF Boxes!getMailboxesForAdmin
<1>2. \A who, address : Boxes!findMailboxForAdmin(address, who) \subseteq Boxes!getMailboxes
    BY <1>1 DEF Boxes!findMailboxForAdmin
<1>3. PICK S \in SUBSET Boxes!getMailboxes : Boxes!Begins(r, S)
    BY <1>1, <1>2 DEF Boxes!CronStart, Boxes!PressStart
<1> QED
    BY <1>3, BeginsKeeps

\* A request that goes on: the same moment, another place.
GoesTo(r, pc, S) == [pc |-> pc, now |-> call[r].now, todo |-> S]

LEMMA GoesOnKeeps ==
    ASSUME Boxes!MailboxConstants, BoxInv, NEW r \in Boxes!Callers,
           Boxes!CronNext(r) \/ Boxes!PollEnds(r) \/ Boxes!Ended(r)
    PROVE  BoxInv'
<1>1. call \in [Boxes!Callers -> BoxCall] /\ call[r] \in BoxCall /\ call[r].now <= clock
    BY DEF BoxInv, BoxTyped, Stamped
<1>2. ASSUME NEW pc
      PROVE  [call EXCEPT ![r].pc = pc] = [call EXCEPT ![r] = GoesTo(r, pc, call[r].todo)]
    <2>1. [call[r] EXCEPT !.pc = pc] = GoesTo(r, pc, call[r].todo)
        BY <1>1 DEF GoesTo, BoxCall
    <2> QED
        BY <1>1, <2>1
<1>3. PICK pc \in {"next", "poll", "done"}, S \in SUBSET Boxes!getMailboxes :
          call' = [call EXCEPT ![r] = GoesTo(r, pc, S)]
    <2>0. call[r].todo \in SUBSET Boxes!getMailboxes
        BY <1>1 DEF BoxCall
    <2>1. CASE Boxes!CronNext(r)
        <3>1. call' = [call EXCEPT ![r] = GoesTo(r, "poll", call[r].todo)]
            BY <1>2, <2>1 DEF Boxes!CronNext
        <3> QED
            BY <2>0, <3>1
    <2>2. CASE Boxes!PollEnds(r)
        <3>1. PICK i : call' = [call EXCEPT ![r] = GoesTo(r, "next", call[r].todo \ {i})]
            BY <2>2 DEF Boxes!PollEnds, GoesTo
        <3>2. call[r].todo \ {i} \in SUBSET Boxes!getMailboxes
            BY <2>0
        <3> QED
            BY <3>1, <3>2
    <2>3. CASE Boxes!Ended(r)
        <3>1. call' = [call EXCEPT ![r] = GoesTo(r, "done", call[r].todo)]
            BY <1>2, <2>3 DEF Boxes!Ended
        <3> QED
            BY <2>0, <3>1
    <2> QED
        BY <2>1, <2>2, <2>3
<1> DEFINE x == GoesTo(r, pc, S)
<1>4. x \in BoxCall /\ x.now = call[r].now /\ x.pc = pc
    BY <1>1 DEF BoxCall, GoesTo
<1>5. pc = "done" \/ call[r].pc \in {"next", "poll"}
    BY DEF Boxes!CronNext, Boxes!PollEnds, Boxes!Ended
<1>6. call' = [call EXCEPT ![r] = x]
    BY <1>3
<1> HIDE DEF x
<1>7. x.pc \in {"next", "poll"} => COOLDOWN <= x.now
    BY <1>4, <1>5 DEF BoxInv, Stamped
<1>8. UNCHANGED <<clock, lastPoll, begun, letter, restarts>>
    BY DEF Boxes!CronNext, Boxes!PollEnds, Boxes!Ended
<1> QED
    BY <1>1, <1>4, <1>6, <1>7, <1>8, CallGoesOn

\* The step that stamps: its moment lies a cooldown after the last stamp, and with
\* it after every poll of the mailbox that was begun.
LEMMA PressNextKeeps ==
    ASSUME Boxes!MailboxConstants, BoxInv, NEW r \in Boxes!Callers, Boxes!PressNext(r)
    PROVE  BoxInv'
<1>1. call[r] \in BoxCall /\ call[r].now <= clock /\ COOLDOWN <= call[r].now
    BY DEF BoxInv, BoxTyped, Stamped, Boxes!PressNext
<1>2. PICK i \in call[r].todo :
        IF Boxes!Cooling(r, Slots[i].address)
        THEN /\ call' = [call EXCEPT ![r].todo = @ \ {i}]
             /\ UNCHANGED <<lastPoll, begun>>
        ELSE /\ lastPoll' = [lastPoll EXCEPT ![Slots[i].address] = call[r].now]
             /\ begun' = begun \union {[by |-> r, box |-> Slots[i].address, now |-> call[r].now]}
             /\ call' = [call EXCEPT ![r].pc = "poll"]
    BY DEF Boxes!PressNext
<1>3. PICK b \in Boxes!AllBoxes, now \in Nat : b = Slots[i].address /\ now = call[r].now
    BY <1>1 DEF BoxCall, Boxes!AllBoxes
<1>4. UNCHANGED <<clock, letter, restarts>>
    BY DEF Boxes!PressNext
<1>5. CASE Boxes!Cooling(r, b)
    <2> DEFINE x == [call[r] EXCEPT !.todo = call[r].todo \ {i}]
    <2>1. x \in BoxCall /\ x.now = call[r].now
        BY <1>1 DEF BoxCall
    <2>2. call' = [call EXCEPT ![r] = x] /\ UNCHANGED <<lastPoll, begun>>
        BY <1>2, <1>3, <1>5
    <2> HIDE DEF x
    <2> QED
        BY <1>1, <1>4, <2>1, <2>2, CallGoesOn
<1>6. CASE ~Boxes!Cooling(r, b)
    <2> DEFINE x == [call[r] EXCEPT !.pc = "poll"]
               a == [by |-> r, box |-> b, now |-> now]
    <2>1. x \in BoxCall /\ x.now = now /\ x.pc = "poll"
        BY <1>1, <1>3 DEF BoxCall
    <2>2. /\ call' = [call EXCEPT ![r] = x]
          /\ lastPoll' = [lastPoll EXCEPT ![b] = now]
          /\ begun' = begun \union {a}
        BY <1>2, <1>3, <1>6
    <2>3. a.box = b /\ a.now = now
        OBVIOUS
    <2> HIDE DEF x, a
    <2>4. /\ call \in [Boxes!Callers -> BoxCall] /\ lastPoll \in [Boxes!AllBoxes -> Nat]
          /\ clock \in Nat /\ COOLDOWN \in Nat \ {0}
        BY DEF BoxInv, BoxTyped, Boxes!MailboxConstants
    <2>5. lastPoll[b] \in Nat /\ lastPoll[b] + COOLDOWN <= now
        BY <1>3, <1>6, <2>4 DEF Boxes!Cooling
    <2>6. /\ lastPoll' \in [Boxes!AllBoxes -> Nat] /\ lastPoll'[b] = now
          /\ \A c \in Boxes!AllBoxes \ {b} : lastPoll'[c] = lastPoll[c]
        BY <2>2, <2>4
    <2>7. /\ call' \in [Boxes!Callers -> BoxCall] /\ call'[r] = x
          /\ \A q \in Boxes!Callers \ {r} : call'[q] = call[q]
        BY <2>1, <2>2, <2>4
    <2>8. BoxTyped'
        BY <1>4, <2>6, <2>7 DEF BoxInv, BoxTyped
    <2>9. Stamped'
        <3>1. now \in COOLDOWN..clock
            BY <1>1, <1>3, <2>4
        <3> QED
            BY <1>4, <2>1, <2>6, <2>7, <3>1 DEF BoxInv, Stamped
    <2>10. \A e \in begun : /\ e.box \in Boxes!AllBoxes /\ e.now \in Nat
                            /\ e.now <= lastPoll[e.box]
                            /\ e.box = b => e.now + COOLDOWN <= now
        BY <2>4, <2>5 DEF BoxInv, BeforeTheStamp
    <2>11. BeforeTheStamp'
        <3>1. ASSUME NEW e \in begun
              PROVE  e.box \in Boxes!AllBoxes /\ e.now \in Nat /\ e.now <= lastPoll'[e.box]
            <4>1. CASE e.box = b
                BY <2>4, <2>6, <2>10, <4>1
            <4>2. CASE e.box # b
                BY <2>6, <2>10, <4>2
            <4> QED
                BY <4>1, <4>2
        <3>2. a.box \in Boxes!AllBoxes /\ a.now \in Nat /\ a.now <= lastPoll'[a.box]
            BY <2>3, <2>6
        <3> QED
            BY <2>2, <3>1, <3>2 DEF BeforeTheStamp
    <2>12. Boxes!HeldButton'
        <3> SUFFICES ASSUME NEW e \in begun \union {a}, NEW f \in begun \union {a}, e # f,
                            e.box = f.box
                     PROVE  e.now - f.now >= COOLDOWN \/ f.now - e.now >= COOLDOWN
            BY <2>2 DEF Boxes!HeldButton
        <3>1. CASE e \in begun /\ f \in begun
            BY <3>1 DEF BoxInv, Boxes!HeldButton
        <3>2. CASE e = a /\ f \in begun
            <4>1. f.now \in Nat /\ f.now + COOLDOWN <= now
                BY <2>3, <2>10, <3>2
            <4> QED
                BY <2>3, <2>4, <3>2, <4>1
        <3>3. CASE f = a /\ e \in begun
            <4>1. e.now \in Nat /\ e.now + COOLDOWN <= now
                BY <2>3, <2>10, <3>3
            <4> QED
                BY <2>3, <2>4, <3>3, <4>1
        <3> QED
            BY <3>1, <3>2, <3>3
    <2>13. Boxes!InTheirName'
        BY <1>4 DEF BoxInv, Boxes!InTheirName
    <2> QED
        BY <2>8, <2>9, <2>11, <2>12, <2>13 DEF BoxInv
<1> QED
    BY <1>5, <1>6

-----------------------------------------------------------------------------

\* Whoever finds a mailbox to send from may write in its name.
LEMMA FoundIsHis ==
    ASSUME Boxes!MailboxConstants, NEW who, NEW address,
           \E i \in Boxes!findMailboxForAdmin(address, who) : Slots[i].canSend
    PROVE  \E i \in 1..Len(Slots) :
               /\ Slots[i].address = address /\ Slots[i].set /\ Slots[i].canSend
               /\ Slots[i].owners # {} =>
                    \E n \in Slots[i].owners \ {NoName} :
                        n \in {Identity[who].email, Identity[who].userId}
<1>1. PICK i \in Boxes!findMailboxForAdmin(address, who) : Slots[i].canSend
    OBVIOUS
<1>2. /\ i \in 1..Len(Slots) /\ Slots[i].set /\ Slots[i].address = address
      /\ \/ Slots[i].owners = {}
         \/ {Identity[who].email, Identity[who].userId} \intersect Slots[i].owners # {}
    BY <1>1 DEF Boxes!findMailboxForAdmin, Boxes!getMailboxesForAdmin, Boxes!getMailboxes
<1>3. NoName \notin Slots[i].owners
    BY <1>2 DEF Boxes!MailboxConstants
<1> QED
    BY <1>1, <1>2, <1>3

LEMMA LettersKeep ==
    ASSUME Boxes!MailboxConstants, BoxInv, NEW l \in Asks, NEW who \in Boxes!Admins,
           NEW address \in Boxes!AllBoxes,
           \/ Boxes!SendReq(l, who, address) \/ Boxes!MarkReq(l, who, address)
           \/ Boxes!DraftReq(l, who, address) \/ Boxes!DiscardReq(l, who, address)
    PROVE  BoxInv'
<1>1. PICK kind \in Boxes!Kinds :
          /\ letter' = [letter EXCEPT ![l] = [kind |-> kind, who |-> who, box |-> address]]
          /\ kind \in {"send", "draft"} =>
                \E i \in Boxes!findMailboxForAdmin(address, who) : Slots[i].canSend
    <2>1. CASE Boxes!SendReq(l, who, address)
        BY <2>1 DEF Boxes!SendReq, Boxes!Answered, Boxes!Kinds
    <2>2. CASE Boxes!MarkReq(l, who, address)
        BY <2>2 DEF Boxes!MarkReq, Boxes!Answered, Boxes!Kinds
    <2>3. CASE Boxes!DraftReq(l, who, address)
        BY <2>3 DEF Boxes!DraftReq, Boxes!Answered, Boxes!Kinds
    <2>4. CASE Boxes!DiscardReq(l, who, address)
        BY <2>4 DEF Boxes!DiscardReq, Boxes!Answered, Boxes!Kinds
    <2> QED
        BY <2>1, <2>2, <2>3, <2>4
<1>2. UNCHANGED <<clock, lastPoll, call, begun, restarts>>
    BY DEF Boxes!SendReq, Boxes!MarkReq, Boxes!DraftReq, Boxes!DiscardReq, Boxes!Answered
<1> DEFINE new == [kind |-> kind, who |-> who, box |-> address]
<1>3. new \in BoxLetter /\ new.kind = kind /\ new.who = who /\ new.box = address
    BY DEF BoxLetter
<1>4. letter' = [letter EXCEPT ![l] = new] /\ letter \in [Asks -> BoxLetter]
    BY <1>1 DEF BoxInv, BoxTyped
<1> HIDE DEF new
<1>5. /\ letter' \in [Asks -> BoxLetter] /\ letter'[l] = new
      /\ \A k \in Asks \ {l} : letter'[k] = letter[k]
    BY <1>3, <1>4
<1>6. BoxTyped'
    BY <1>2, <1>5 DEF BoxInv, BoxTyped
<1>7. Boxes!InTheirName'
    <2> DEFINE May(w, a) == \E i \in 1..Len(Slots) :
                               /\ Slots[i].address = a /\ Slots[i].set /\ Slots[i].canSend
                               /\ Slots[i].owners # {} =>
                                    \E n \in Slots[i].owners \ {NoName} :
                                       n \in {Identity[w].email, Identity[w].userId}
    <2>1. kind \in {"send", "draft"} => May(who, address)
        BY <1>1, FoundIsHis
    <2>2. \A k \in Asks : letter[k].kind \in {"send", "draft"} => May(letter[k].who, letter[k].box)
        BY DEF BoxInv, Boxes!InTheirName
    <2> SUFFICES ASSUME NEW k \in Asks, letter'[k].kind \in {"send", "draft"}
                 PROVE  May(letter'[k].who, letter'[k].box)
        BY DEF Boxes!InTheirName
    <2> HIDE DEF May
    <2>3. CASE k = l
        BY <1>3, <1>5, <2>1, <2>3
    <2>4. CASE k # l
        <3>1. letter'[k] = letter[k]
            BY <1>5, <2>4
        <3> QED
            BY <2>2, <3>1
    <2> QED
        BY <2>3, <2>4
<1> QED
    BY <1>2, <1>6, <1>7 DEF BoxInv, Stamped, BeforeTheStamp, Boxes!HeldButton

-----------------------------------------------------------------------------

LEMMA TickKeeps ==
    ASSUME Boxes!MailboxConstants, BoxInv, Boxes!Tick
    PROVE  BoxInv'
<1>1. clock \in Nat /\ COOLDOWN \in Nat /\ clock' = clock + 1 /\ clock' \in COOLDOWN..MaxTime
    BY DEF BoxInv, BoxTyped, Boxes!MailboxConstants, Boxes!Tick
<1>2. BoxTyped'
    BY <1>1 DEF BoxInv, BoxTyped, Boxes!Tick
<1>3. Stamped'
    <2>1. ASSUME NEW b \in Boxes!AllBoxes
          PROVE  lastPoll'[b] \in {0} \union COOLDOWN..clock'
        BY <1>1, <2>1 DEF BoxInv, Stamped, Boxes!Tick
    <2>2. ASSUME NEW r \in Boxes!Callers
          PROVE  /\ call'[r].now <= clock'
                 /\ call'[r].pc \in {"next", "poll"} => COOLDOWN <= call'[r].now
        <3>1. call[r].now \in Nat
            BY DEF BoxInv, BoxTyped, BoxCall
        <3> QED
            BY <1>1, <2>2, <3>1 DEF BoxInv, Stamped, Boxes!Tick
    <2> QED
        BY <2>1, <2>2 DEF Stamped
<1> QED
    BY <1>2, <1>3 DEF BoxInv, BeforeTheStamp, Boxes!HeldButton, Boxes!InTheirName, Boxes!Tick

LEMMA RestartKeeps ==
    ASSUME Boxes!MailboxConstants, BoxInv, Boxes!Restart
    PROVE  BoxInv'
<1> DEFINE Over == [Boxes!Unborn EXCEPT !.pc = "done"]
<1>1. /\ Boxes!Unborn \in BoxCall /\ Boxes!Unborn.now = 0 /\ Boxes!Unborn.pc = "idle"
      /\ Over \in BoxCall /\ Over.now = 0 /\ Over.pc = "done"
    BY DEF Boxes!Unborn, BoxCall
<1>2. call' = [r \in Boxes!Callers |-> IF call[r].pc = "idle" THEN Boxes!Unborn ELSE Over]
    BY DEF Boxes!Restart
<1> HIDE DEF Over
<1>3. /\ call' \in [Boxes!Callers -> BoxCall]
      /\ \A r \in Boxes!Callers : call'[r].now = 0 /\ call'[r].pc \in {"idle", "done"}
    BY <1>1, <1>2
<1>4. restarts' \in 0..MaxRestarts
    BY DEF BoxInv, BoxTyped, Boxes!MailboxConstants, Boxes!Restart
<1>5. lastPoll' \in [Boxes!AllBoxes -> Nat] /\ \A b \in Boxes!AllBoxes : lastPoll'[b] = 0
    BY DEF Boxes!Restart
<1>6. BoxTyped'
    BY <1>3, <1>4, <1>5 DEF BoxInv, BoxTyped, Boxes!Restart
<1>7. Stamped'
    <2>1. clock' \in Nat /\ 0 <= clock'
        BY DEF BoxInv, BoxTyped, Boxes!MailboxConstants, Boxes!Restart
    <2> QED
        BY <1>3, <1>5, <2>1 DEF Stamped
<1> QED
    BY <1>6, <1>7 DEF BoxInv, BeforeTheStamp, Boxes!HeldButton, Boxes!InTheirName, Boxes!Restart

LEMMA BoxSteps ==
    ASSUME Boxes!MailboxConstants, BoxInv, [Boxes!Next]_Boxes!boxVars
    PROVE  BoxInv'
<1>1. CASE UNCHANGED Boxes!boxVars
    BY <1>1 DEF Boxes!boxVars, BoxInv, BoxTyped, Stamped, BeforeTheStamp, Boxes!HeldButton,
                Boxes!InTheirName
<1>2. CASE Boxes!Next
    <2>1. Presses \subseteq Boxes!Callers /\ CronRuns \subseteq Boxes!Callers
        BY DEF Boxes!Callers
    <2> QED
        BY <1>2, <2>1, TickKeeps, RestartKeeps, StartKeeps, GoesOnKeeps, PressNextKeeps, LettersKeep
        DEF Boxes!Next
<1> QED
    BY <1>1, <1>2

LEMMA BoxSafe ==
    ASSUME BoxInv
    PROVE  Boxes!TypeOK /\ Boxes!HeldButton /\ Boxes!InTheirName
    BY DEF BoxInv, BoxTyped, BoxCall, BoxLetter, Stamped, Boxes!TypeOK

\* The button (refresh.ts): for any mailboxes, admins, requests of the button and of
\* the cron, cooldown and restarts, of two presses within the cooldown one polls.
THEOREM HeldButtonHolds ==
    ASSUME Boxes!MailboxConstants
    PROVE  Boxes!Spec => [](Boxes!TypeOK /\ Boxes!HeldButton /\ Boxes!InTheirName)
<1>1. Boxes!Init => BoxInv
    BY BoxStarts
<1>2. BoxInv /\ [Boxes!Next]_Boxes!boxVars => BoxInv'
    BY BoxSteps
<1>3. BoxInv => Boxes!TypeOK /\ Boxes!HeldButton /\ Boxes!InTheirName
    BY BoxSafe
<1> QED
    BY <1>1, <1>2, <1>3, PTL DEF Boxes!Spec

\* The mailbox, the button and the letters, where the requests move.
THEOREM HeldButtonHoldsThere == Spec => []HeldButton
<1> DEFINE Inv == part = "boxes" => BoxInv
<1>1. Init => Inv
    BY MailConstants, BoxStarts DEF Init, MailConstants
<1>2. Inv /\ [Next]_vars => Inv'
    <2> SUFFICES ASSUME Inv, [Next]_vars, part' = "boxes"
                 PROVE  BoxInv'
        OBVIOUS
    <2>1. CASE Next
        <3>1. part = "boxes" /\ Boxes!Next
            BY <2>1 DEF Next, Moves
        <3> QED
            BY <3>1, MailConstants, BoxSteps DEF MailConstants
    <2>2. CASE UNCHANGED vars
        BY <2>2, MailConstants, BoxSteps
        DEF MailConstants, vars, boxVars, Boxes!boxVars
    <2> QED
        BY <2>1, <2>2
<1>3. Inv => HeldButton
    BY MailConstants, BoxSafe DEF HeldButton, MailConstants
<1> QED
    BY <1>1, <1>2, <1>3, PTL DEF Spec

-----------------------------------------------------------------------------
(* MailThreats                                                               *)

Severe == {"known", "warning", "danger"}
Found == [item : Addresses \union {"link"}, severity : Severe]

\* A verdict as it was made: its caveat says whether its source answered.
Sound(v) ==
    /\ v.level \in Threats!Levels /\ v.flagged \in BOOLEAN
    /\ v.at \in 0..day
    /\ v.level = "clean" /\ ~v.partial => v.ran

\* A kept one: a clean one lasts as long as a clean one may.
KeptVerdict(v) ==
    /\ Sound(v)
    /\ v.till \in Int
    /\ v.level = "clean" => v.till = v.at + TTL["clean"]

\* The scan under way: its message has no other, and a flag that it went by is
\* among its findings.
ScanOpen ==
    /\ scan.msg \in Scannable /\ scanned[scan.msg] = "open"
    /\ scan.todo \in Seq(Addresses) /\ scan.found \in Seq(Found)
    /\ scan.pc \in {"known", "verdict", "live"} => scan.todo # <<>>
    /\ \A s \in seen : s.msg = scan.msg /\ s.flagged =>
        \E i \in 1..Len(scan.found) : scan.found[i].severity = "danger"

ThreatsTyped ==
    /\ day \in 0..MaxDay /\ left \in -1..Budget
    /\ reported \in [Primary -> 0..2]
    /\ level \in [Scannable -> {"none", "warning", "danger"}]
    /\ scanned \in [Scannable -> {"new", "open", "done"}]
    /\ \A m \in Scannable : level[m] # "none" => scanned[m] = "done"
    /\ scan.pc \in {"idle", "known", "verdict", "live", "insert", "stamp"}
    /\ DOMAIN scan = {"pc", "msg", "todo", "found"}

RowsTyped ==
    /\ threats \subseteq [msg : Scannable, item : Addresses \union {"link"}, severity : Severe]
    /\ \A r, q \in threats : r.msg = q.msg /\ r.item = q.item => r = q

CacheHeld ==
    /\ DOMAIN cache = Addresses
    /\ \A a \in Addresses : cache[a] = Threats!NoVerdict \/ KeptVerdict(cache[a])

\* What the scans went by, of messages whose scan has begun.
SeenHeld ==
    \A s \in seen :
        /\ s.msg \in Scannable /\ scanned[s.msg] # "new"
        /\ s.level = "clean" => s.age < TTL["clean"]
        /\ s.level = "clean" /\ ~s.partial => s.ran
        /\ scanned[s.msg] = "done" /\ s.flagged => level[s.msg] = "danger"

ThreatInv ==
    /\ ThreatsTyped /\ RowsTyped /\ CacheHeld /\ SeenHeld
    /\ scan.pc # "idle" => ScanOpen

LEMMA ThreatSafe ==
    ThreatInv => /\ Threats!TypeOK /\ Threats!CleanIsRecent
                 /\ Threats!CaveatSurvives /\ Threats!ColouredByTheWorst
<1> SUFFICES ASSUME ThreatInv
             PROVE  /\ Threats!TypeOK /\ Threats!CleanIsRecent
                    /\ Threats!CaveatSurvives /\ Threats!ColouredByTheWorst
    OBVIOUS
<1>1. Threats!TypeOK
    BY DEF ThreatInv, ThreatsTyped, RowsTyped, CacheHeld, KeptVerdict, Sound, Threats!TypeOK
<1> QED
    BY <1>1 DEF ThreatInv, SeenHeld, Threats!CleanIsRecent, Threats!CaveatSurvives,
                Threats!ColouredByTheWorst

LEMMA ThreatStarts == ASSUME Threats!ThreatConstants, Threats!Init PROVE ThreatInv
<1>1. RowsTyped /\ SeenHeld /\ CacheHeld
    BY DEF Threats!Init, RowsTyped, SeenHeld, CacheHeld
<1>2. ThreatsTyped /\ scan.pc = "idle"
    BY DEF Threats!Init, ThreatsTyped, Threats!ThreatConstants, Threats!NoRun, Threats!Idle
<1> QED
    BY <1>1, <1>2 DEF ThreatInv

-----------------------------------------------------------------------------
\* A later day: every verdict is as it was.
LEMMA SoundLater ==
    ASSUME day \in Nat, day' \in Nat, day <= day', NEW v
    PROVE  /\ Sound(v) => Sound(v)'
           /\ KeptVerdict(v) => KeptVerdict(v)'
    BY DEF Sound, KeptVerdict

LEMMA WorldKeeps ==
    ASSUME Threats!ThreatConstants, ThreatInv,
           Threats!Tomorrow \/ (\E a \in Primary : Threats!Report(a))
    PROVE  ThreatInv'
<1>1. UNCHANGED <<cache, left, scan, threats, level, scanned, seen>>
    BY DEF Threats!Tomorrow, Threats!Report
<1>2. day \in Nat /\ day' \in Nat /\ day <= day' /\ day' \in 0..MaxDay
    BY DEF ThreatInv, ThreatsTyped, Threats!Tomorrow, Threats!Report, Threats!ThreatConstants
<1>3. reported' \in [Primary -> 0..2]
    BY DEF ThreatInv, ThreatsTyped, Threats!Tomorrow, Threats!Report
<1>4. CacheHeld'
    BY <1>1, <1>2, SoundLater DEF ThreatInv, CacheHeld
<1> QED
    BY <1>1, <1>2, <1>3, <1>4 DEF ThreatInv, ThreatsTyped, RowsTyped, SeenHeld, ScanOpen

LEMMA RunsKeep ==
    ASSUME Threats!ThreatConstants, ThreatInv, Threats!RunStarts \/ Threats!RunEnds
    PROVE  ThreatInv'
<1>1. UNCHANGED <<day, reported, scan, threats, level, scanned, seen>>
    BY DEF Threats!RunStarts, Threats!RunEnds
<1>2. left' \in -1..Budget
    BY DEF Threats!RunStarts, Threats!RunEnds, Threats!NoRun, Threats!ThreatConstants
<1>3. CacheHeld'
    <2>1. CASE Threats!RunStarts
        BY <1>1, <2>1 DEF Threats!RunStarts, ThreatInv, CacheHeld, KeptVerdict, Sound
    <2>2. CASE Threats!RunEnds
        BY <1>1, <2>2 DEF Threats!RunEnds, ThreatInv, CacheHeld, KeptVerdict, Sound
    <2> QED
        BY <2>1, <2>2
<1> QED
    BY <1>1, <1>2, <1>3 DEF ThreatInv, ThreatsTyped, RowsTyped, SeenHeld, ScanOpen

\* One finding.
LEMMA OneFound ==
    ASSUME NEW i \in Addresses \union {"link"}, NEW s \in Severe
    PROVE  /\ <<Threats!Item(i, s)>> \in Seq(Found) /\ Len(<<Threats!Item(i, s)>>) = 1
           /\ <<Threats!Item(i, s)>>[1].severity = s
<1>1. Threats!Item(i, s) \in Found /\ Threats!Item(i, s).severity = s
    BY DEF Threats!Item, Found
<1>2. \A x : Len(<<x>>) = 1 /\ <<x>>[1] = x /\ (x \in Found => <<x>> \in Seq(Found))
    OBVIOUS
<1> QED
    BY <1>1, <1>2

LEMMA ScanStartsKeeps ==
    ASSUME Threats!ThreatConstants, ThreatInv, NEW m \in Scannable, Threats!ScanStarts(m)
    PROVE  ThreatInv'
<1> DEFINE n == IF Len(Text[m]) < PerMessage THEN Len(Text[m]) ELSE PerMessage
           todo == SubSeq(Text[m], 1, n)
<1>1. /\ Text[m] \in Seq(Addresses) /\ n \in Nat /\ n <= Len(Text[m])
      /\ \A i \in 1..n : Text[m][i] \in Addresses
    BY LenProperties, ElementOfSeq DEF Threats!ThreatConstants
<1>2. todo \in Seq(Addresses) /\ (n # 0 => todo # <<>>)
    BY <1>1, SubSeqProperties, EmptySeq
<1>3. Threats!LinkFindings(m) \in Seq(Found)
    BY OneFound, EmptySeq DEF Threats!LinkFindings, Severe
<1>4. /\ scan.pc = "idle" /\ scanned[m] = "new"
      /\ scanned' = [scanned EXCEPT ![m] = "open"]
      /\ scan' = [pc |-> IF n = 0 THEN "insert" ELSE "known", msg |-> m, todo |-> todo,
                  found |-> Threats!LinkFindings(m)]
      /\ UNCHANGED <<day, reported, cache, left, threats, level, seen>>
    BY DEF Threats!ScanStarts
<1> HIDE DEF n, todo
<1>5. \A s \in seen : s.msg # m
    BY <1>4 DEF ThreatInv, SeenHeld
<1>6. ThreatsTyped'
    BY <1>4 DEF ThreatInv, ThreatsTyped
<1>7. SeenHeld'
    BY <1>4, <1>5 DEF ThreatInv, ThreatsTyped, SeenHeld
<1>8. ScanOpen'
    BY <1>2, <1>3, <1>4, <1>5 DEF ThreatInv, ThreatsTyped, ScanOpen
<1> QED
    BY <1>4, <1>6, <1>7, <1>8 DEF ThreatInv, RowsTyped, CacheHeld, KeptVerdict, Sound

-----------------------------------------------------------------------------
\* Findings are added behind those there are.
LEMMA MoreFound ==
    ASSUME ScanOpen, NEW more \in Seq(Found)
    PROVE  /\ scan.found \o more \in Seq(Found)
           /\ \A i \in 1..Len(scan.found) :
                 i \in 1..Len(scan.found \o more) /\ (scan.found \o more)[i] = scan.found[i]
           /\ \A j \in 1..Len(more) : \E i \in 1..Len(scan.found \o more) :
                 (scan.found \o more)[i] = more[j]
<1>1. scan.found \in Seq(Found) /\ Len(scan.found) \in Nat /\ Len(more) \in Nat
    BY LenProperties DEF ScanOpen
<1>2. /\ scan.found \o more \in Seq(Found)
      /\ Len(scan.found \o more) = Len(scan.found) + Len(more)
      /\ \A i \in 1..(Len(scan.found) + Len(more)) :
            (scan.found \o more)[i] =
                IF i <= Len(scan.found) THEN scan.found[i] ELSE more[i - Len(scan.found)]
    BY <1>1, ConcatProperties
<1>3. ASSUME NEW j \in 1..Len(more)
      PROVE  \E i \in 1..Len(scan.found \o more) : (scan.found \o more)[i] = more[j]
    <2>1. Len(scan.found) + j \in 1..Len(scan.found \o more)
        BY <1>1, <1>2
    <2>2. (scan.found \o more)[Len(scan.found) + j] = more[j]
        <3>1. ~(Len(scan.found) + j <= Len(scan.found)) /\ (Len(scan.found) + j) - Len(scan.found) = j
            BY <1>1
        <3> QED
            BY <1>1, <1>2, <2>1, <3>1
    <2> QED
        BY <2>1, <2>2
<1> QED
    BY <1>1, <1>2, <1>3

\* The address a scan is at, and the ones after it.
LEMMA ThisAddress ==
    ASSUME ScanOpen, scan.todo # <<>>
    PROVE  /\ Head(scan.todo) \in Addresses /\ Tail(scan.todo) \in Seq(Addresses)
           /\ Len(scan.todo) # 1 => Tail(scan.todo) # <<>>
<1>1. /\ scan.todo \in Seq(Addresses) /\ Len(scan.todo) \in Nat
      /\ Head(scan.todo) \in Addresses /\ Tail(scan.todo) \in Seq(Addresses)
      /\ Len(Tail(scan.todo)) = Len(scan.todo) - 1
    BY HeadTailProperties, LenProperties DEF ScanOpen
<1>2. Len(<<>>) = 0
    OBVIOUS
<1>3. ASSUME Tail(scan.todo) = <<>> PROVE Len(scan.todo) = 1
    <2>1. Len(Tail(scan.todo)) = 0
        BY <1>2, <1>3
    <2> QED
        BY <1>1, <2>1
<1> QED
    BY <1>1, <1>3

LEMMA NextAddressFields ==
    ASSUME ThreatInv, scan.pc \in {"verdict", "live"}, NEW more \in Seq(Found),
           Threats!NextAddress(more)
    PROVE  /\ ScanOpen
           /\ scan'.pc \in {"known", "insert"} /\ DOMAIN scan' = {"pc", "msg", "todo", "found"}
           /\ scan'.msg = scan.msg /\ scan'.todo \in Seq(Addresses)
           /\ scan'.found = scan.found \o more
           /\ scan'.pc = "known" => scan'.todo # <<>>
<1>1. ScanOpen /\ scan.todo # <<>> /\ DOMAIN scan = {"pc", "msg", "todo", "found"}
    BY DEF ThreatInv, ScanOpen, ThreatsTyped
<1>2. /\ DOMAIN scan' = DOMAIN scan /\ scan'.msg = scan.msg /\ scan'.todo = Tail(scan.todo)
      /\ scan'.found = scan.found \o more
      /\ scan'.pc = IF Len(scan.todo) = 1 THEN "insert" ELSE "known"
    BY <1>1 DEF Threats!NextAddress
<1> QED
    BY <1>1, <1>2, ThisAddress

LEMMA KnownKeeps ==
    ASSUME Threats!ThreatConstants, ThreatInv, Threats!Known
    PROVE  ThreatInv'
<1>1. ScanOpen /\ scan.pc = "known" /\ scan.todo # <<>> /\ DOMAIN scan = {"pc", "msg", "todo", "found"}
      /\ Head(scan.todo) \in Addresses
    <2>1. scan.pc = "known" /\ ScanOpen /\ scan.todo # <<>> /\ DOMAIN scan = {"pc", "msg", "todo", "found"}
        BY DEF ThreatInv, ThreatsTyped, Threats!Known, ScanOpen
    <2> QED
        BY <2>1, ThisAddress
<1>2. UNCHANGED <<day, reported, cache, left, threats, level, scanned, seen>>
    BY DEF Threats!Known
<1>3. \E more \in Seq(Found) :
        scan' = [scan EXCEPT !.pc = "verdict", !.found = @ \o more]
    <2> DEFINE a == Head(scan.todo)
    <2>1. OnFile[a] \in {"no", "unverified", "verified"}
        BY <1>1 DEF Threats!ThreatConstants
    <2>2. /\ <<Threats!Item(a, "known")>> \in Seq(Found)
          /\ <<Threats!Item(a, "warning")>> \in Seq(Found) /\ <<>> \in Seq(Found)
        BY <1>1, OneFound, EmptySeq DEF Severe
    <2>3. scan.found \o <<>> = scan.found
        BY <1>1, ConcatEmptySeq DEF ScanOpen
    <2>4. [scan EXCEPT !.pc = "verdict"] = [scan EXCEPT !.pc = "verdict", !.found = @ \o <<>>]
        BY <1>1, <2>3
    <2> DEFINE tell == CASE OnFile[a] = "verified" -> <<Threats!Item(a, "known")>>
                         [] OnFile[a] = "unverified" -> <<Threats!Item(a, "warning")>>
                         [] OnFile[a] = "no" -> <<>>
    <2>5. tell \in Seq(Found)
        BY <2>1, <2>2
    <2>6. \/ scan' = [scan EXCEPT !.pc = "verdict", !.found = @ \o tell]
          \/ scan' = [scan EXCEPT !.pc = "verdict"]
        BY DEF Threats!Known
    <2> HIDE DEF tell
    <2> QED
        BY <2>2, <2>4, <2>5, <2>6
<1>4. PICK more \in Seq(Found) : scan' = [scan EXCEPT !.pc = "verdict", !.found = @ \o more]
    BY <1>3
<1>5. /\ DOMAIN scan' = DOMAIN scan /\ scan'.pc = "verdict" /\ scan'.msg = scan.msg
      /\ scan'.todo = scan.todo /\ scan'.found = scan.found \o more
    BY <1>1, <1>4
<1>6. ThreatsTyped'
    BY <1>1, <1>2, <1>5 DEF ThreatInv, ThreatsTyped
<1>7. ScanOpen'
    BY <1>1, <1>2, <1>5, MoreFound DEF ScanOpen
<1> QED
    BY <1>2, <1>6, <1>7 DEF ThreatInv, RowsTyped, SeenHeld, CacheHeld, KeptVerdict, Sound

\* A scan that goes by a verdict, not too old if it is clean.
LEMMA GoneBy ==
    ASSUME ThreatInv, scan.pc \in {"verdict", "live"}, NEW a \in Addresses, NEW v, Sound(v),
           v.level = "clean" => day - v.at < TTL["clean"],
           Threats!GoBy(a, v), UNCHANGED <<day, reported, left, threats, level, scanned>>,
           CacheHeld'
    PROVE  ThreatInv'
<1> DEFINE more == Threats!Says(a, v)
           s == [msg |-> scan.msg, level |-> v.level, flagged |-> v.flagged,
                 partial |-> v.partial, ran |-> v.ran, age |-> day - v.at]
<1>1. more \in Seq(Found) /\ (v.flagged => Len(more) = 1 /\ more[1].severity = "danger")
    BY OneFound, EmptySeq DEF Threats!Says, Severe, Sound
<1>2. Threats!NextAddress(more) /\ seen' = seen \union {s}
    BY DEF Threats!GoBy
<1>3. /\ s.msg = scan.msg /\ s.level = v.level /\ s.flagged = v.flagged /\ s.partial = v.partial
      /\ s.ran = v.ran /\ s.age = day - v.at
    OBVIOUS
<1> HIDE DEF more, s
<1>4. /\ ScanOpen
      /\ scan'.pc \in {"known", "insert"} /\ DOMAIN scan' = {"pc", "msg", "todo", "found"}
      /\ scan'.msg = scan.msg /\ scan'.todo \in Seq(Addresses)
      /\ scan'.found = scan.found \o more
      /\ scan'.pc = "known" => scan'.todo # <<>>
    BY <1>1, <1>2, NextAddressFields
<1>5. ThreatsTyped'
    BY <1>4 DEF ThreatInv, ThreatsTyped
<1>6. SeenHeld'
    BY <1>2, <1>3, <1>4 DEF ThreatInv, SeenHeld, ScanOpen, Sound
<1>7. ASSUME NEW t \in seen', t.msg = scan'.msg, t.flagged
      PROVE  \E i \in 1..Len(scan'.found) : scan'.found[i].severity = "danger"
    <2>1. CASE t \in seen
        BY <1>1, <1>4, <1>7, <2>1, MoreFound DEF ScanOpen
    <2>2. CASE t = s
        <3>1. Len(more) = 1 /\ more[1].severity = "danger"
            BY <1>1, <1>3, <1>7, <2>2
        <3>2. \E i \in 1..Len(scan.found \o more) : (scan.found \o more)[i] = more[1]
            <4>1. 1 \in 1..Len(more)
                BY <3>1
            <4> QED
                BY <1>1, <1>4, <4>1, MoreFound
        <3> QED
            BY <1>4, <3>1, <3>2
    <2> QED
        BY <1>2, <2>1, <2>2
<1>8. ScanOpen'
    BY <1>1, <1>4, <1>7, MoreFound DEF ScanOpen
<1> QED
    BY <1>5, <1>6, <1>8 DEF ThreatInv, RowsTyped

LEMMA CachedKeeps == ASSUME Threats!ThreatConstants, ThreatInv, Threats!Cached PROVE ThreatInv'
<1> DEFINE a == Head(scan.todo)
<1>1. /\ scan.pc = "verdict" /\ cache[a].till > day /\ Threats!GoBy(a, cache[a])
      /\ UNCHANGED <<day, reported, cache, left, threats, level, scanned>>
    BY DEF Threats!Cached
<1>2. a \in Addresses
    BY <1>1, ThisAddress DEF ThreatInv, ScanOpen
<1>3. day \in Nat
    BY DEF ThreatInv, ThreatsTyped
<1>4. KeptVerdict(cache[a])
    <2>1. cache[a] # Threats!NoVerdict
        BY <1>1, <1>3 DEF Threats!NoVerdict
    <2> QED
        BY <1>2, <2>1 DEF ThreatInv, CacheHeld
<1>5. Sound(cache[a]) /\ (cache[a].level = "clean" => day - cache[a].at < TTL["clean"])
    <2>1. cache[a].level = "clean" => cache[a].at + TTL["clean"] > day
        BY <1>1, <1>4 DEF KeptVerdict
    <2>2. cache[a].at \in Int /\ TTL["clean"] \in Int
        BY <1>4 DEF KeptVerdict, Sound, Threats!ThreatConstants
    <2> QED
        BY <1>3, <1>4, <2>1, <2>2 DEF KeptVerdict
<1>6. CacheHeld'
    BY <1>1 DEF ThreatInv, CacheHeld, KeptVerdict, Sound
<1> QED
    BY <1>1, <1>2, <1>5, <1>6, GoneBy

LEMMA NotCachedKeeps == ASSUME Threats!ThreatConstants, ThreatInv, Threats!NotCached PROVE ThreatInv'
<1>1. scan.pc = "verdict" /\ UNCHANGED <<day, reported, cache, threats, level, scanned, seen>>
    BY DEF Threats!NotCached
<1>2. ScanOpen /\ scan.todo # <<>> /\ DOMAIN scan = {"pc", "msg", "todo", "found"}
    BY <1>1 DEF ThreatInv, ThreatsTyped, ScanOpen
<1>3. CASE left > 0 /\ left' = left - 1 /\ scan' = [scan EXCEPT !.pc = "live"]
    <2>1. /\ scan'.pc = "live" /\ scan'.msg = scan.msg /\ scan'.todo = scan.todo
          /\ scan'.found = scan.found /\ DOMAIN scan' = DOMAIN scan
        BY <1>2, <1>3
    <2>2. ThreatsTyped'
        <3>1. left' \in -1..Budget
            BY <1>3 DEF ThreatInv, ThreatsTyped, Threats!ThreatConstants
        <3> QED
            BY <1>1, <1>2, <2>1, <3>1 DEF ThreatInv, ThreatsTyped
    <2>3. ScanOpen'
        BY <1>1, <1>2, <2>1 DEF ScanOpen
    <2> QED
        BY <1>1, <2>2, <2>3 DEF ThreatInv, RowsTyped, SeenHeld, CacheHeld, KeptVerdict, Sound
<1>4. CASE left' = left /\ Threats!NextAddress(<<>>)
    <2>1. <<>> \in Seq(Found)
        BY EmptySeq
    <2>2. /\ scan'.pc \in {"known", "insert"} /\ DOMAIN scan' = {"pc", "msg", "todo", "found"}
          /\ scan'.msg = scan.msg /\ scan'.todo \in Seq(Addresses)
          /\ scan'.found = scan.found \o <<>>
          /\ scan'.pc = "known" => scan'.todo # <<>>
        BY <1>1, <1>4, <2>1, NextAddressFields
    <2>3. ThreatsTyped'
        BY <1>1, <1>4, <2>2 DEF ThreatInv, ThreatsTyped
    <2>4. ScanOpen'
        BY <1>1, <1>2, <2>1, <2>2, MoreFound DEF ScanOpen
    <2> QED
        BY <1>1, <2>3, <2>4 DEF ThreatInv, RowsTyped, SeenHeld, CacheHeld, KeptVerdict, Sound
<1> QED
    BY <1>3, <1>4 DEF Threats!NotCached

-----------------------------------------------------------------------------
\* A live check of today, kept or not.
LEMMA CheckedKeeps ==
    ASSUME Threats!ThreatConstants, ThreatInv, scan.pc = "live", NEW a \in Addresses, NEW ans,
           ans.level \in Threats!Levels, ans.flagged \in BOOLEAN,
           ans.level = "clean" /\ ~ans.partial => ans.ran,
           Threats!Checked(a, ans),
           UNCHANGED <<day, reported, left, threats, level, scanned>>
    PROVE  ThreatInv'
<1> DEFINE v == [level |-> ans.level, flagged |-> ans.flagged, partial |-> ans.partial,
                 ran |-> ans.ran, at |-> day, till |-> day]
<1>1. Threats!GoBy(a, v) /\ (cache' = [cache EXCEPT ![a] = Threats!Kept(v)] \/ cache' = cache)
    BY DEF Threats!Checked
<1>2. day \in Nat /\ TTL \in [{"danger", "caution", "clean"} -> Nat \ {0}]
    BY DEF ThreatInv, ThreatsTyped, Threats!ThreatConstants
<1>3. Sound(v) /\ day - v.at < TTL["clean"]
    BY <1>2 DEF Sound
<1>4. KeptVerdict(Threats!Kept(v))
    <2>1. /\ Threats!Kept(v).level = v.level /\ Threats!Kept(v).flagged = v.flagged
          /\ Threats!Kept(v).partial = v.partial /\ Threats!Kept(v).ran = v.ran
          /\ Threats!Kept(v).at = day /\ Threats!Kept(v).till = day + TTL[v.level]
        BY DEF Threats!Kept
    <2>2. v.level \in {"danger", "caution", "clean"}
        BY DEF Threats!Levels
    <2> HIDE DEF v
    <2> QED
        BY <1>2, <1>3, <2>1, <2>2 DEF KeptVerdict, Sound
<1> HIDE DEF v
<1>5. CacheHeld'
    BY <1>1, <1>4 DEF ThreatInv, CacheHeld, KeptVerdict, Sound
<1> QED
    BY <1>1, <1>3, <1>5, GoneBy

LEMMA LiveKeeps ==
    ASSUME Threats!ThreatConstants, ThreatInv, Threats!Live \/ Threats!LiveDown
    PROVE  ThreatInv'
<1> DEFINE a == Head(scan.todo)
<1>1. scan.pc = "live" /\ UNCHANGED <<day, reported, left, threats, level, scanned>>
    BY DEF Threats!Live, Threats!LiveDown
<1>2. a \in Addresses
    BY <1>1, ThisAddress DEF ThreatInv, ScanOpen
<1>3. \A n \in 0..2 : Threats!LevelOf(n) \in Threats!Levels
    BY DEF Threats!LevelOf, Threats!Levels
<1>4. a \in Primary => reported[a] \in 0..2
    BY DEF ThreatInv, ThreatsTyped
<1>5. PICK ans : /\ ans.level \in Threats!Levels /\ ans.flagged \in BOOLEAN
                 /\ ans.level = "clean" /\ ~ans.partial => ans.ran
                 /\ Threats!Checked(a, ans)
    <2>1. CASE Threats!Live
        <3> DEFINE ans == Threats!Answers(a)
        <3>1. ans.level \in Threats!Levels /\ ans.flagged \in BOOLEAN /\ (ans.partial \/ ans.ran)
            <4>1. CASE a \in Primary
                <5>1. ans.level = Threats!LevelOf(reported[a]) /\ ans.flagged = (reported[a] > 0)
                    BY <4>1 DEF Threats!Answers
                <5>2. ans.ran
                    BY <4>1, Zenon DEF Threats!Answers
                <5> HIDE DEF ans
                <5>3. ans.level \in Threats!Levels
                    BY <1>3, <1>4, <4>1, <5>1
                <5>4. ans.flagged \in BOOLEAN
                    BY <5>1
                <5> QED
                    BY <5>2, <5>3, <5>4, Zenon
            <4>2. CASE a \notin Primary
                <5>1. ans.level = "caution" /\ ans.flagged = FALSE
                    BY <4>2 DEF Threats!Answers
                <5>2. ans.partial
                    BY <4>2, Zenon DEF Threats!Answers
                <5> QED
                    BY <5>1, <5>2 DEF Threats!Levels
            <4> QED
                BY <4>1, <4>2
        <3>2. Threats!Checked(a, ans)
            BY <2>1 DEF Threats!Live
        <3> QED
            BY <3>1, <3>2
    <2>2. CASE Threats!LiveDown
        <3>1. PICK flagged \in 0..(IF a \in Primary THEN reported[a] ELSE 0) :
                    Threats!Checked(a, Threats!OutageAnswer(a, flagged))
            BY <2>2 DEF Threats!LiveDown
        <3> DEFINE ans == Threats!OutageAnswer(a, flagged)
        <3>2. flagged \in 0..2
            BY <1>4, <3>1
        <3>3. ans.level \in Threats!Levels /\ ans.flagged \in BOOLEAN /\ ans.partial
            BY <1>3, <3>2 DEF Threats!OutageAnswer, Threats!Levels
        <3> QED
            BY <3>1, <3>3
    <2> QED
        BY <2>1, <2>2
<1> QED
    BY <1>1, <1>2, <1>5, CheckedKeeps

-----------------------------------------------------------------------------
LEMMA InsertKeeps == ASSUME ThreatInv, Threats!Insert PROVE ThreatInv'
<1> DEFINE done == {r.item : r \in {r \in threats : r.msg = scan.msg}}
           fresh == {i \in DOMAIN scan.found : scan.found[i].item \notin done /\
                        \A j \in 1..(i - 1) : scan.found[j].item # scan.found[i].item}
           Row(i) == [msg |-> scan.msg, item |-> scan.found[i].item,
                      severity |-> scan.found[i].severity]
<1>1. /\ scan.pc = "insert" /\ threats' = threats \union {Row(i) : i \in fresh}
      /\ scan' = [scan EXCEPT !.pc = "stamp"]
      /\ UNCHANGED <<day, reported, cache, left, level, scanned, seen>>
    BY DEF Threats!Insert
<1>2. ScanOpen /\ DOMAIN scan = {"pc", "msg", "todo", "found"}
    BY <1>1 DEF ThreatInv, ThreatsTyped
<1>3. /\ scan'.pc = "stamp" /\ scan'.msg = scan.msg /\ scan'.todo = scan.todo
      /\ scan'.found = scan.found /\ DOMAIN scan' = DOMAIN scan
    BY <1>1, <1>2
<1>4. DOMAIN scan.found = 1..Len(scan.found) /\ Len(scan.found) \in Nat
      /\ \A i \in 1..Len(scan.found) : scan.found[i] \in Found
    BY <1>2, LenProperties, ElementOfSeq DEF ScanOpen
<1>5. \A i \in fresh : /\ Row(i) \in [msg : Scannable, item : Addresses \union {"link"}, severity : Severe]
                       /\ Row(i).msg = scan.msg /\ Row(i).item = scan.found[i].item
                       /\ i \in 1..Len(scan.found)
    BY <1>2, <1>4 DEF ScanOpen, Found
<1>6. ASSUME NEW i \in fresh, NEW j \in fresh, scan.found[i].item = scan.found[j].item
      PROVE  i = j
    <2>1. i \in Int /\ j \in Int /\ i >= 1 /\ j >= 1
        BY <1>4
    <2>2. ~(i < j) /\ ~(j < i)
        BY <1>6, <2>1
    <2> QED
        BY <2>1, <2>2
<1>7. ASSUME NEW i \in fresh, NEW r \in threats, r.msg = scan.msg
      PROVE  r.item # scan.found[i].item
    BY <1>7
<1> HIDE DEF fresh, Row, done
<1>8. RowsTyped'
    <2>1. \A r, q \in threats' : r.msg = q.msg /\ r.item = q.item => r = q
        BY <1>1, <1>5, <1>6, <1>7 DEF ThreatInv, RowsTyped
    <2> QED
        BY <1>1, <1>5, <2>1 DEF ThreatInv, RowsTyped
<1>9. ThreatsTyped' /\ ScanOpen'
    BY <1>1, <1>2, <1>3 DEF ThreatInv, ThreatsTyped, ScanOpen
<1> QED
    BY <1>1, <1>8, <1>9 DEF ThreatInv, SeenHeld, CacheHeld, KeptVerdict, Sound

LEMMA StampKeeps == ASSUME ThreatInv, Threats!Stamp PROVE ThreatInv'
<1>1. /\ scan.pc = "stamp" /\ level' = [level EXCEPT ![scan.msg] = Threats!WorstLevel]
      /\ scanned' = [scanned EXCEPT ![scan.msg] = "done"] /\ scan' = Threats!Idle
      /\ UNCHANGED <<day, reported, cache, left, threats, seen>>
    BY DEF Threats!Stamp
<1>2. ScanOpen
    BY <1>1 DEF ThreatInv
<1>3. scan'.pc = "idle" /\ DOMAIN scan' = {"pc", "msg", "todo", "found"}
    BY <1>1 DEF Threats!Idle
<1>4. Threats!WorstLevel \in {"none", "warning", "danger"}
    BY DEF Threats!WorstLevel
<1>5. ThreatsTyped'
    BY <1>1, <1>2, <1>3, <1>4 DEF ThreatInv, ThreatsTyped, ScanOpen
<1>6. ASSUME NEW s \in seen, s.msg = scan.msg, s.flagged PROVE Threats!WorstLevel = "danger"
    <2>1. PICK i \in 1..Len(scan.found) : scan.found[i].severity = "danger"
        BY <1>2, <1>6 DEF ScanOpen
    <2>2. DOMAIN scan.found = 1..Len(scan.found)
        BY <1>2, LenProperties DEF ScanOpen
    <2> QED
        BY <2>1, <2>2 DEF Threats!WorstLevel, Threats!Severities
<1>7. SeenHeld'
    BY <1>1, <1>2, <1>6 DEF ThreatInv, ThreatsTyped, SeenHeld, ScanOpen
<1> QED
    BY <1>1, <1>3, <1>5, <1>7 DEF ThreatInv, RowsTyped, CacheHeld, KeptVerdict, Sound

LEMMA ScanFailsKeeps == ASSUME Threats!ThreatConstants, ThreatInv, Threats!ScanFails PROVE ThreatInv'
<1>1. /\ scan' = Threats!Idle /\ left' \in {left, Threats!NoRun}
      /\ UNCHANGED <<day, reported, cache, threats, level, scanned, seen>>
    BY DEF Threats!ScanFails
<1>2. scan'.pc = "idle" /\ DOMAIN scan' = {"pc", "msg", "todo", "found"}
    BY <1>1 DEF Threats!Idle
<1>3. ThreatsTyped'
    BY <1>1, <1>2 DEF ThreatInv, ThreatsTyped, Threats!NoRun, Threats!ThreatConstants
<1> QED
    BY <1>1, <1>2, <1>3 DEF ThreatInv, RowsTyped, SeenHeld, CacheHeld, KeptVerdict, Sound

LEMMA ThreatSteps ==
    ASSUME Threats!ThreatConstants, ThreatInv, [Threats!Next]_Threats!vars
    PROVE  ThreatInv'
<1>1. CASE Threats!Next
    BY <1>1, WorldKeeps, RunsKeep, ScanStartsKeeps, KnownKeeps, CachedKeeps, NotCachedKeeps,
       LiveKeeps, InsertKeeps, StampKeeps, ScanFailsKeeps
    DEF Threats!Next
<1>2. CASE UNCHANGED Threats!vars
    BY <1>2 DEF Threats!vars, ThreatInv, ThreatsTyped, RowsTyped, SeenHeld, CacheHeld,
                KeptVerdict, Sound, ScanOpen
<1> QED
    BY <1>1, <1>2

\* The scan (mailThreats.ts): for any messages, addresses, reports, days, budgets,
\* runs and failures, no message is passed on a clean verdict older than one may be,
\* or on one that lost its caveat, and a scanned message has the colour of its worst.
THEOREM VerdictsReplayed ==
    ASSUME Threats!ThreatConstants
    PROVE  Threats!Spec => [](/\ Threats!TypeOK /\ Threats!CleanIsRecent
                              /\ Threats!CaveatSurvives /\ Threats!ColouredByTheWorst)
<1>1. Threats!Init => ThreatInv
    BY ThreatStarts
<1>2. ThreatInv /\ [Threats!Next]_Threats!vars => ThreatInv'
    BY ThreatSteps
<1> QED
    BY <1>1, <1>2, ThreatSafe, PTL DEF Threats!Spec

-----------------------------------------------------------------------------
(* WalletCheck                                                               *)

\* What was heard of a chain of GoPlus, and of honeypot.is.
Settled(id) == id \in asked \/ id \in errors \/ \E h \in heard : h[1] = id
HoneypotSaid == "honeypot" \in errors \/ <<"honeypot", {}>> \in heard

\* The fetcher of honeypot.is has its request before it, or has been answered.
HoneypotTurn ==
    /\ DOMAIN fetching = 1..7
    /\ fetching[3] \in {Wallet!HoneypotCheck, <<>>}
    /\ fetching[3] = <<>> => HoneypotSaid

\* A check under way has lost no query: each is asked, in error or answered, and
\* what was answered is in the flags.
WalletInv ==
    /\ Wallet!TypeOK
    /\ \A h \in heard : h[2] \subseteq flags
    /\ chain = "none" => asked = {} /\ fetching = <<>> /\ result = Wallet!NoResult
    /\ chain # "none" /\ result = Wallet!NoResult =>
        /\ \A id \in Wallet!GoPlusIds(chain) : Settled(id)
        /\ chain = "evm" => HoneypotTurn
    /\ Wallet!CleanIsAnswered

\* Any flag weighs enough to be seen in the rounded score, and none is no score.
LEMMA FlagsScore ==
    ASSUME NEW raised \in SUBSET Wallet!Flags
    PROVE  /\ Wallet!Score(raised) \in 0..100
           /\ Wallet!Score(raised) = 0 <=> raised = {}
<1>1. Wallet!Flags = {"sanctioned", "blacklisted", "phishing", "stealingAttack",
                      "honeypotRelated", "cybercrime", "financialCrime", "moneyLaundering",
                      "darkwebTransactions", "blackmail", "mixer"}
    BY DEF Wallet!Flags, Wallet!Weight
<1>2. Wallet!Total(Wallet!Flags) = 765
    <2>1. \A f \in Wallet!Flags : (IF f \in Wallet!Flags THEN Wallet!Weight[f] ELSE 0) = Wallet!Weight[f]
        OBVIOUS
    <2> QED
        BY <2>1, <1>1 DEF Wallet!Total, Wallet!Weight
<1>3. /\ Wallet!Total(raised) \in 0..765
      /\ raised = {} => Wallet!Total(raised) = 0
      /\ raised # {} => Wallet!Total(raised) >= 40
    <2> DEFINE w(f) == IF f \in raised THEN Wallet!Weight[f] ELSE 0
    <2>1. /\ w("sanctioned") = IF "sanctioned" \in raised THEN 100 ELSE 0
          /\ w("blacklisted") = IF "blacklisted" \in raised THEN 90 ELSE 0
          /\ w("phishing") = IF "phishing" \in raised THEN 80 ELSE 0
          /\ w("stealingAttack") = IF "stealingAttack" \in raised THEN 80 ELSE 0
          /\ w("honeypotRelated") = IF "honeypotRelated" \in raised THEN 70 ELSE 0
          /\ w("cybercrime") = IF "cybercrime" \in raised THEN 70 ELSE 0
          /\ w("financialCrime") = IF "financialCrime" \in raised THEN 65 ELSE 0
          /\ w("moneyLaundering") = IF "moneyLaundering" \in raised THEN 60 ELSE 0
          /\ w("darkwebTransactions") = IF "darkwebTransactions" \in raised THEN 60 ELSE 0
          /\ w("blackmail") = IF "blackmail" \in raised THEN 50 ELSE 0
          /\ w("mixer") = IF "mixer" \in raised THEN 40 ELSE 0
        BY DEF Wallet!Weight
    <2>2. Wallet!Total(raised) =
            w("sanctioned") + w("blacklisted") + w("phishing") + w("stealingAttack")
            + w("honeypotRelated") + w("cybercrime") + w("financialCrime") + w("moneyLaundering")
            + w("darkwebTransactions") + w("blackmail") + w("mixer")
        BY DEF Wallet!Total
    <2>3. raised # {} => \E f \in Wallet!Flags : f \in raised
        OBVIOUS
    <2> HIDE DEF w
    <2> QED
        BY <2>1, <2>2, <2>3, <1>1
<1>4. \A t \in 0..765 : /\ (200 * t + 765) \div 1530 \in 0..100
                        /\ t = 0 => (200 * t + 765) \div 1530 = 0
                        /\ t >= 40 => (200 * t + 765) \div 1530 > 0
    BY SMT
<1>5. Wallet!Score(raised) = (200 * Wallet!Total(raised) + 765) \div 1530
    BY <1>2, <1>3, <1>4 DEF Wallet!Score
<1> QED
    BY <1>3, <1>4, <1>5

LEMMA LevelIsClean ==
    ASSUME NEW score \in 0..100
    PROVE  /\ Wallet!Level(score) \in {"clean", "caution", "danger"}
           /\ Wallet!Level(score) = "clean" <=> score = 0
    BY DEF Wallet!Level

-----------------------------------------------------------------------------
\* The verdict of a check that settles, whatever became of its requests.
Verdict ==
    [level |-> Wallet!Level(Wallet!Score(flags)), score |-> Wallet!Score(flags), flags |-> flags,
     coverage |-> Wallet!Coverage(chain), partial |-> Wallet!Coverage(chain).goplus # "ran"]

LEMMA WalletStarts == ASSUME Wallet!Init PROVE WalletInv
    BY DEF Wallet!Init, WalletInv, Wallet!TypeOK, Wallet!CleanIsAnswered, Wallet!NoResult

LEMMA CheckKeeps ==
    ASSUME WalletInv, Wallet!WalletConstants, NEW c \in Chains, NEW known \in BOOLEAN,
           Wallet!Check(c, known)
    PROVE  WalletInv'
<1>1. /\ chain = "none" /\ chain' = c /\ c # "none" /\ asked = {} /\ fetching = <<>>
      /\ result = Wallet!NoResult /\ flags' = flags /\ heard' = heard
    BY DEF WalletInv, Wallet!Check, Wallet!WalletConstants
<1>2. CASE c \in Wallet!Supported
    <2>1. /\ asked' = Wallet!GoPlusIds(c) /\ fetching' = Wallet!Fetchers(c, known)
          /\ result' = Wallet!NoResult
        BY <1>1, <1>2 DEF Wallet!Check
    <2>2. \A id \in Wallet!GoPlusIds(c) : Settled(id)'
        BY <2>1 DEF Settled
    <2>3. c = "evm" => HoneypotTurn'
        BY <2>1 DEF HoneypotTurn, Wallet!Fetchers, Wallet!HoneypotCheck
    <2>4. Wallet!TypeOK'
        BY <1>1, <2>1 DEF WalletInv, Wallet!TypeOK, Wallet!NoResult
    <2> QED
        BY <1>1, <2>1, <2>2, <2>3, <2>4 DEF WalletInv, Wallet!CleanIsAnswered
<1>3. CASE c \notin Wallet!Supported
    <2>1. result' = Wallet!Stub /\ asked' = asked /\ fetching' = fetching
        BY <1>1, <1>3 DEF Wallet!Check
    <2>2. Wallet!Stub.level = "caution" /\ Wallet!Stub.score = 0
        BY DEF Wallet!Stub
    <2>3. Wallet!Stub # Wallet!NoResult
        BY <2>2 DEF Wallet!NoResult
    <2>4. Wallet!TypeOK'
        BY <1>1, <2>1, <2>2 DEF WalletInv, Wallet!TypeOK, Wallet!AllIn
    <2> QED
        BY <1>1, <2>1, <2>3, <2>4 DEF WalletInv, Wallet!CleanIsAnswered
<1> QED
    BY <1>2, <1>3

\* Before the verdict there is nothing that it has to answer for.
LEMMA NotYet ==
    ASSUME WalletInv, result = Wallet!NoResult, result' = result, chain' = chain, chain # "none",
           flags' \in SUBSET Wallet!Flags, flags \subseteq flags',
           \A h \in heard' : h \in heard \/ h[2] \subseteq flags',
           \A id \in Wallet!GoPlusIds(chain) : Settled(id)',
           chain = "evm" => HoneypotTurn'
    PROVE  WalletInv'
<1>1. Wallet!TypeOK'
    BY DEF WalletInv, Wallet!TypeOK, Wallet!NoResult
<1>2. \A h \in heard' : h[2] \subseteq flags'
    BY DEF WalletInv
<1> QED
    BY <1>1, <1>2 DEF WalletInv, Wallet!CleanIsAnswered

LEMMA GoPlusAnswersKeeps ==
    ASSUME WalletInv, Wallet!WalletConstants, NEW id \in asked, NEW report \in Reports,
           Wallet!GoPlusAnswers(id, report)
    PROVE  WalletInv'
<1>1. result = Wallet!NoResult /\ chain # "none"
    BY DEF WalletInv, Wallet!TypeOK, Wallet!AllIn
<1>2. heard' = heard \union {<<id, report>>} /\ <<id, report>>[1] = id /\ <<id, report>>[2] = report
    BY DEF Wallet!GoPlusAnswers
<1>3. flags' = flags \union report /\ report \subseteq Wallet!Flags
    BY DEF Wallet!GoPlusAnswers, Wallet!WalletConstants
<1>4. \A i \in Wallet!GoPlusIds(chain) : Settled(i)'
    BY <1>1, <1>2 DEF WalletInv, Settled, Wallet!GoPlusAnswers
<1>5. chain = "evm" => HoneypotTurn'
    BY <1>1, <1>2 DEF WalletInv, HoneypotTurn, HoneypotSaid, Wallet!GoPlusAnswers
<1>6. flags \subseteq Wallet!Flags
    BY DEF WalletInv, Wallet!TypeOK
<1> QED
    BY <1>1, <1>2, <1>3, <1>4, <1>5, <1>6, NotYet DEF Wallet!GoPlusAnswers

LEMMA GoPlusFailsKeeps ==
    ASSUME WalletInv, NEW id \in asked, Wallet!GoPlusFails(id)
    PROVE  WalletInv'
<1>1. result = Wallet!NoResult /\ chain # "none"
    BY DEF WalletInv, Wallet!TypeOK, Wallet!AllIn
<1>2. \A i \in Wallet!GoPlusIds(chain) : Settled(i)'
    BY <1>1 DEF WalletInv, Settled, Wallet!GoPlusFails
<1>3. chain = "evm" => HoneypotTurn'
    BY <1>1 DEF WalletInv, HoneypotTurn, HoneypotSaid, Wallet!GoPlusFails
<1>4. flags \in SUBSET Wallet!Flags
    BY DEF WalletInv, Wallet!TypeOK
<1> QED
    BY <1>1, <1>2, <1>3, <1>4, NotYet DEF Wallet!GoPlusFails

\* The turn of a fetcher that has requests left.
LEMMA TurnLeft ==
    ASSUME \E f \in DOMAIN fetching : fetching[f] # <<>>
    PROVE  Wallet!Turn \in DOMAIN fetching /\ fetching[Wallet!Turn] # <<>>
    BY DEF Wallet!Turn

LEMMA FetchingKeeps == ASSUME WalletInv, Wallet!Fetching PROVE WalletInv'
<1>1. PICK f \in DOMAIN fetching : fetching[f] # <<>>
    BY DEF Wallet!Fetching
<1>2. result = Wallet!NoResult /\ chain # "none"
    BY <1>1 DEF WalletInv, Wallet!TypeOK, Wallet!AllIn
<1>3. Wallet!Turn \in DOMAIN fetching /\ fetching[Wallet!Turn] # <<>>
    BY <1>1, TurnLeft
<1>4. flags \in SUBSET Wallet!Flags /\ flags' = flags /\ result' = result /\ chain' = chain
      /\ asked' = asked
    BY DEF WalletInv, Wallet!TypeOK, Wallet!Fetching, Wallet!Answered, Wallet!Failed
<1>5. /\ \A h \in heard' : h \in heard \/ h[2] \subseteq flags'
      /\ heard \subseteq heard' /\ errors \subseteq errors'
    <2>1. <<Wallet!Now.ask, {}>>[2] = {}
        OBVIOUS
    <2> QED
        BY <2>1 DEF Wallet!Fetching, Wallet!Answered, Wallet!Failed
<1>6. \A id \in Wallet!GoPlusIds(chain) : Settled(id)'
    BY <1>2, <1>4, <1>5 DEF WalletInv, Settled
<1>7. ASSUME chain = "evm" PROVE HoneypotTurn'
    <2>1. HoneypotTurn
        BY <1>2, <1>7 DEF WalletInv
    <2>2. \E rest : fetching' = [fetching EXCEPT ![Wallet!Turn] = rest]
        BY DEF Wallet!Fetching, Wallet!Answered, Wallet!Failed
    <2>3. DOMAIN fetching' = 1..7 /\ (Wallet!Turn # 3 => fetching'[3] = fetching[3])
        BY <2>1, <2>2 DEF HoneypotTurn
    <2>4. HoneypotSaid => HoneypotSaid'
        BY <1>5 DEF HoneypotSaid
    <2>5. ASSUME Wallet!Turn = 3 PROVE fetching'[3] = <<>> /\ HoneypotSaid'
        <3> DEFINE r == Wallet!Said("honeypot")
        <3>1. fetching[3] = <<r>>
            BY <1>3, <2>1, <2>5 DEF HoneypotTurn, Wallet!HoneypotCheck
        <3>2. Wallet!Now = r /\ Tail(fetching[3]) = <<>>
            <4>1. \A x : Head(<<x>>) = x /\ Tail(<<x>>) = <<>>
                OBVIOUS
            <4> HIDE DEF r
            <4> QED
                BY <2>5, <3>1, <4>1 DEF Wallet!Now
        <3>3. r.ask = "honeypot" /\ r.refusal = TRUE /\ r.silence = TRUE
            BY DEF Wallet!Said, Wallet!Request
        <3> HIDE DEF r
        <3>4. \/ /\ fetching' = [fetching EXCEPT ![3] = Tail(@)]
                 /\ heard' = heard \union {<<r.ask, {}>>}
              \/ /\ errors' = errors \union {r.ask}
                 /\ fetching' = [fetching EXCEPT ![3] = IF r.goesOn THEN Tail(@) ELSE <<>>]
            <4>1. CASE Wallet!Answered
                BY <2>5, <3>2, <4>1 DEF Wallet!Answered
            <4>2. CASE Wallet!Failed(Wallet!Now.refusal) \/ Wallet!Failed(Wallet!Now.silence)
                BY <2>5, <3>2, <3>3, <4>2 DEF Wallet!Failed
            <4> QED
                BY <4>1, <4>2 DEF Wallet!Fetching
        <3>5. fetching'[3] = <<>>
            <4>1. 3 \in DOMAIN fetching
                BY <2>1 DEF HoneypotTurn
            <4>2. \A x : [fetching EXCEPT ![3] = x][3] = x
                BY <4>1
            <4>3. \E x : fetching' = [fetching EXCEPT ![3] = x] /\ x = <<>>
                BY <3>2, <3>4
            <4> QED
                BY <4>2, <4>3
        <3>6. HoneypotSaid'
            BY <3>3, <3>4 DEF HoneypotSaid
        <3> QED
            BY <3>5, <3>6
    <2> QED
        BY <2>1, <2>3, <2>4, <2>5 DEF HoneypotTurn
<1> QED
    BY <1>2, <1>4, <1>5, <1>6, <1>7, NotYet

LEMMA SettleKeeps == ASSUME WalletInv, Wallet!Settle PROVE WalletInv'
<1>1. /\ chain # "none" /\ result = Wallet!NoResult /\ Wallet!AllIn
      /\ result' = Verdict
      /\ chain' = chain /\ asked' = asked /\ flags' = flags /\ fetching' = fetching
      /\ errors' = errors /\ heard' = heard
    BY DEF Wallet!Settle, Verdict
<1>2. flags \in SUBSET Wallet!Flags
    BY DEF WalletInv, Wallet!TypeOK
<1>3. /\ Verdict.level = Wallet!Level(Wallet!Score(flags)) /\ Verdict.score = Wallet!Score(flags)
      /\ Verdict.flags = flags
      /\ Verdict.partial = (Wallet!Coverage(chain).goplus # "ran")
      /\ Verdict.coverage = Wallet!Coverage(chain)
    BY DEF Verdict
<1>4. /\ Verdict.score \in 0..100 /\ Verdict.level \in {"clean", "caution", "danger"}
      /\ Verdict.level = "clean" <=> flags = {}
    BY <1>2, <1>3, FlagsScore, LevelIsClean
<1>5. Wallet!TypeOK'
    BY <1>1, <1>2, <1>4 DEF WalletInv, Wallet!TypeOK, Wallet!AllIn
<1>6. ASSUME ~Verdict.partial
      PROVE  /\ Wallet!GoPlusIds(chain) # {}
             /\ Wallet!GoPlusIds(chain) \subseteq {h[1] : h \in heard}
    <2>1. Wallet!Coverage(chain).goplus = "ran"
        BY <1>3, <1>6
    <2>2. Wallet!GoPlusIds(chain) # {} /\ Wallet!GoPlusIds(chain) \intersect errors = {}
        BY <2>1 DEF Wallet!Coverage, Wallet!GoPlusErrored
    <2> QED
        BY <1>1, <2>2 DEF WalletInv, Settled, Wallet!AllIn
<1>7. ASSUME Verdict.coverage.honeypot = "ran" PROVE <<"honeypot", {}>> \in heard
    <2>1. chain = "evm" /\ "honeypot" \notin errors
        BY <1>3, <1>7 DEF Wallet!Coverage
    <2> QED
        BY <1>1, <2>1 DEF WalletInv, HoneypotTurn, HoneypotSaid, Wallet!AllIn
<1>8. Verdict # Wallet!NoResult
    BY <1>4 DEF Wallet!NoResult
<1>9. Wallet!CleanIsAnswered'
    BY <1>1, <1>3, <1>4, <1>6, <1>7 DEF WalletInv, Wallet!CleanIsAnswered
<1> QED
    BY <1>1, <1>5, <1>8, <1>9 DEF WalletInv

LEMMA WalletSteps ==
    ASSUME Wallet!WalletConstants, WalletInv, [Wallet!Next]_Wallet!checkVars
    PROVE  WalletInv'
<1>1. CASE Wallet!Next
    BY <1>1, CheckKeeps, GoPlusAnswersKeeps, GoPlusFailsKeeps, FetchingKeeps, SettleKeeps
    DEF Wallet!Next
<1>2. CASE UNCHANGED Wallet!checkVars
    BY <1>2 DEF Wallet!checkVars, WalletInv, Wallet!TypeOK, Wallet!CleanIsAnswered, Settled,
                HoneypotTurn, HoneypotSaid, Wallet!AllIn
<1> QED
    BY <1>1, <1>2

\* The check of an address (walletChecker.ts): for any chains, keys, reports of
\* GoPlus, answers and failures, a flag that was raised keeps the verdict from being
\* clean, and a clean one that is not partial has the answer of every chain.
THEOREM CleanIsAnsweredHolds ==
    ASSUME Wallet!WalletConstants
    PROVE  Wallet!Spec => [](Wallet!TypeOK /\ Wallet!CleanIsAnswered)
<1>1. Wallet!Init => WalletInv
    BY WalletStarts
<1>2. WalletInv /\ [Wallet!Next]_Wallet!checkVars => WalletInv'
    BY WalletSteps
<1>3. WalletInv => Wallet!TypeOK /\ Wallet!CleanIsAnswered
    BY DEF WalletInv
<1> QED
    BY <1>1, <1>2, <1>3, PTL DEF Wallet!Spec

\* The two together, where one of them moves.
THEOREM VerdictsHoldThere == Spec => []VerdictsHold
<1> DEFINE Inv == /\ part = "threats" => ThreatInv
                  /\ part = "wallet" => WalletInv
<1>1. Init => Inv
    BY MailConstants, ThreatStarts, WalletStarts DEF Init, MailConstants
<1>2. Inv /\ [Next]_vars => Inv'
    <2> SUFFICES ASSUME Inv, [Next]_vars PROVE Inv'
        OBVIOUS
    <2>1. ASSUME part' = "threats" PROVE ThreatInv'
        <3>1. CASE Next
            <4>1. part = "threats" /\ Threats!Next
                BY <2>1, <3>1 DEF Next, Moves
            <4> QED
                BY <4>1, MailConstants, ThreatSteps DEF MailConstants
        <3>2. CASE UNCHANGED vars
            BY <2>1, <3>2, MailConstants, ThreatSteps
            DEF MailConstants, vars, threatVars, Threats!vars
        <3> QED
            BY <3>1, <3>2
    <2>2. ASSUME part' = "wallet" PROVE WalletInv'
        <3>1. CASE Next
            <4>1. part = "wallet" /\ Wallet!Next
                BY <2>2, <3>1 DEF Next, Moves
            <4> QED
                BY <4>1, MailConstants, WalletSteps DEF MailConstants
        <3>2. CASE UNCHANGED vars
            BY <2>2, <3>2, MailConstants, WalletSteps
            DEF MailConstants, vars, walletVars, Wallet!checkVars
        <3> QED
            BY <3>1, <3>2
    <2> QED
        BY <2>1, <2>2
<1>3. Inv => VerdictsHold
    <2>1. WalletInv => Wallet!TypeOK /\ Wallet!CleanIsAnswered
        BY DEF WalletInv
    <2> QED
        BY <2>1, ThreatSafe DEF VerdictsHold
<1> QED
    BY <1>1, <1>2, <1>3, PTL DEF Spec

=============================================================================
