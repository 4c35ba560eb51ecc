--------------------------------- MODULE Board ---------------------------------
(***************************************************************************)
(* The organizer's board (ContractTinsGrid.tsx over GET api/circles): the  *)
(* tins, the women in those that are still forming, and above them those   *)
(* who wait to be placed.  A load is several SELECTs and no transaction;   *)
(* a drop is a request to arrange.ts and, when it went well, another load. *)
(* Meanwhile tins are created and activated, votes admit and expel, and a  *)
(* second organizer has a board of his own.  One board has one load and    *)
(* one drop at a time: an organizer who drops another card, or loads       *)
(* again, before he has his answer is a second board, loaded like his.     *)
(*                                                                         *)
(* Turns, and the statements of arrange that find one, are in Rotation;    *)
(* what a card says of rounds and payments is in Cards.                    *)
(***************************************************************************)
EXTENDS FiniteSets, Integers

CONSTANTS
    Members, Tins, None,
    Placed,         \* the rows at the beginning, as <<tin, member>>
    Founded,        \* the tins there are at the beginning
    Boards,         \* organizers at a screen
    Needed,         \* rows that activation asks for
    MaxLoads, MaxDrops, MaxVotes, MaxCrashes    \* bounds

BoardConstants ==
    /\ Founded \subseteq Tins
    /\ Placed \subseteq Founded \X Members
    /\ None \notin Tins
    /\ IsFiniteSet(Tins) /\ IsFiniteSet(Boards)
    /\ Needed \in Nat

VARIABLES
    status,         \* contracts.status, "none" before its row
    live,           \* contract_members with left_at NULL, as <<tin, member>>
    screen,         \* what each board shows
    load,           \* the request behind it
    hand,           \* what is dragged
    drop,           \* the request to arrange
    expelled,       \* history: the members a vote has expelled
    loads, drops, votes, crashes

boardVars == <<status, live, screen, load, hand, drop, expelled, loads, drops, votes, crashes>>
counts == <<expelled, loads, drops, votes, crashes>>

Unread == [t \in Tins |-> "none"]
NoLoad == [pc |-> "idle", cards |-> Unread, signups |-> {}, roster |-> {}]
Blank == [state |-> "loading", cards |-> Unread, signups |-> {}, roster |-> {}]
Empty == [member |-> None, from |-> None]
NoDrop == [pc |-> "idle", member |-> None, to |-> None, from |-> None]

TypeOK ==
    /\ status \in [Tins -> {"none", "forming", "active"}]
    /\ live \subseteq {p \in Tins \X Members : status[p[1]] # "none"}
    /\ \A b \in Boards :
        /\ screen[b].state \in {"loading", "ready", "error"}
        /\ load[b].pc \in {"idle", "contracts", "signups", "roster", "answer"}
        /\ drop[b].pc \in {"idle", "check", "seat", "leave", "answer"}
        /\ screen[b].roster \cup load[b].roster \subseteq Tins \X Members
        /\ \A p \in load[b].roster : load[b].cards[p[1]] = "forming"
        /\ drop[b].pc # "idle" => drop[b].to # drop[b].from

Init ==
    /\ status = [t \in Tins |-> IF t \in Founded THEN "forming" ELSE "none"]
    /\ live = Placed
    /\ screen = [b \in Boards |-> Blank]
    /\ load = [b \in Boards |-> NoLoad]
    /\ hand = [b \in Boards |-> Empty]
    /\ drop = [b \in Boards |-> NoDrop]
    /\ expelled = {}
    /\ loads = 0 /\ drops = 0 /\ votes = 0 /\ crashes = 0

Fails ==
    /\ crashes < MaxCrashes
    /\ crashes' = crashes + 1

Waiting(m) == \A t \in Tins : <<t, m>> \notin live

-----------------------------------------------------------------------------
(* What goes on elsewhere.                                                 *)

Create(t) ==
    /\ status[t] = "none"
    /\ status' = [status EXCEPT ![t] = "forming"]
    /\ UNCHANGED <<live, screen, load, hand, drop, counts>>

Activate(t) ==
    /\ status[t] = "forming"
    /\ Cardinality({m \in Members : <<t, m>> \in live}) >= Needed
    /\ status' = [status EXCEPT ![t] = "active"]
    /\ UNCHANGED <<live, screen, load, hand, drop, counts>>

Vote ==
    /\ votes < MaxVotes
    /\ votes' = votes + 1

Admit(t, m) ==
    /\ Vote
    /\ status[t] # "none" /\ <<t, m>> \notin live
    /\ live' = live \cup {<<t, m>>}
    /\ UNCHANGED <<status, screen, load, hand, drop, expelled, loads, drops, crashes>>

\* left_at
Expel(t, m) ==
    /\ Vote
    /\ <<t, m>> \in live
    /\ live' = live \ {<<t, m>>}
    /\ expelled' = expelled \cup {m}
    /\ UNCHANGED <<status, screen, load, hand, drop, loads, drops, crashes>>

-----------------------------------------------------------------------------
(* GET /api/circles.                                                       *)

Busy(b) == load[b].pc # "idle"

\* load() on mount or by the retry button; load(true) after a drop is in
\* DropAnswer.  A board that is loading or in error shows nothing to drag.
Reload(b) ==
    /\ loads < MaxLoads
    /\ ~Busy(b) /\ screen[b].state # "ready"
    /\ load' = [load EXCEPT ![b] = [NoLoad EXCEPT !.pc = "contracts"]]
    /\ screen' = [screen EXCEPT ![b].state = "loading"]
    /\ loads' = loads + 1
    /\ UNCHANGED <<status, live, hand, drop, drops, votes, crashes, expelled>>

ReadContracts(b) ==
    /\ load[b].pc = "contracts"
    /\ load' = [load EXCEPT ![b].pc = "signups", ![b].cards = status]
    /\ UNCHANGED <<status, live, screen, hand, drop, counts>>

\* Members without a live row; if there is no tin, they are the answer.
ReadSignups(b) ==
    /\ load[b].pc = "signups"
    /\ load' = [load EXCEPT ![b].pc = IF load[b].cards = Unread THEN "answer" ELSE "roster",
                            ![b].signups = {m \in Members : Waiting(m)}]
    /\ UNCHANGED <<status, live, screen, hand, drop, counts>>

\* Mutant: the tins that form by now.
RosterNow(cards) == {p \in live : status[p[1]] = "forming"}

\* The live rows of the tins that were forming when the tins were read.
RosterOf(cards) == {p \in live : cards[p[1]] = "forming"}

ReadRoster(b) ==
    /\ load[b].pc = "roster"
    /\ load' = [load EXCEPT ![b].pc = "answer",
                            ![b].roster = RosterOf(load[b].cards)]
    /\ UNCHANGED <<status, live, screen, hand, drop, counts>>

Show(b) ==
    /\ load[b].pc = "answer"
    /\ screen' = [screen EXCEPT ![b] = [state |-> "ready", cards |-> load[b].cards,
                                        signups |-> load[b].signups, roster |-> load[b].roster]]
    /\ load' = [load EXCEPT ![b] = NoLoad]
    /\ UNCHANGED <<status, live, hand, drop, counts>>

\* load_failed: the whole board is replaced by the message, its data kept.
LoadFails(b) ==
    /\ Busy(b)
    /\ Fails
    /\ load' = [load EXCEPT ![b] = NoLoad]
    /\ screen' = [screen EXCEPT ![b].state = "error"]
    /\ UNCHANGED <<status, live, hand, drop, loads, drops, votes, expelled>>

-----------------------------------------------------------------------------
(* Dragging.                                                               *)

\* A card is taken from its tin, a chip from the bar (and there is no tin to
\* leave).  With no card there is no bar either.
Grab(b) ==
    /\ screen[b].state = "ready" /\ screen[b].cards # Unread
    /\ drop[b].pc = "idle" /\ hand[b] = Empty
    /\ \/ \E p \in screen[b].roster, from \in Tins \cup {None} :
            /\ from \in {p[1], None}
            /\ hand' = [hand EXCEPT ![b] = [member |-> p[2], from |-> from]]
       \/ \E m \in screen[b].signups :
            hand' = [hand EXCEPT ![b] = [member |-> m, from |-> None]]
    /\ UNCHANGED <<status, live, screen, load, drop, counts>>

\* canTake: as the board shows it.  A copy of a card from its own tin is
\* refused by the request's second check and left out.
CanTake(b, t) ==
    /\ hand[b] # Empty
    /\ screen[b].state = "ready"
    /\ screen[b].cards[t] = "forming"
    /\ t # hand[b].from

Drop(b, t) ==
    /\ drops < MaxDrops
    /\ CanTake(b, t)
    /\ drop' = [drop EXCEPT ![b] = [pc |-> "check", member |-> hand[b].member,
                                    to |-> t, from |-> hand[b].from]]
    /\ hand' = [hand EXCEPT ![b] = Empty]
    /\ drops' = drops + 1
    /\ UNCHANGED <<status, live, screen, load, loads, votes, crashes, expelled>>

\* arrange.ts: both ends form, and she is not in the one she is to join.
DropCheck(b) ==
    /\ drop[b].pc = "check"
    /\ LET r == drop[b] IN
        drop' = [drop EXCEPT ![b] =
            IF /\ status[r.to] = "forming"
               /\ r.from # None => status[r.from] = "forming"
               /\ <<r.to, r.member>> \notin live
            THEN [r EXCEPT !.pc = "seat"] ELSE NoDrop]
    /\ UNCHANGED <<status, live, screen, load, hand, counts>>

\* The INSERT meets the index of live rows: if she is in by now, the request ends.
DropSeat(b) ==
    /\ drop[b].pc = "seat"
    /\ LET r == drop[b] IN
        IF <<r.to, r.member>> \notin live
        THEN /\ live' = live \cup {<<r.to, r.member>>}
             /\ drop' = [drop EXCEPT ![b].pc = IF r.from = None THEN "answer" ELSE "leave"]
        ELSE drop' = [drop EXCEPT ![b] = NoDrop] /\ UNCHANGED live
    /\ UNCHANGED <<status, screen, load, hand, counts>>

\* A move: she leaves the tin her card was taken from, if she is there still.
DropLeave(b) ==
    /\ drop[b].pc = "leave"
    /\ live' = live \ {<<drop[b].from, drop[b].member>>}
    /\ drop' = [drop EXCEPT ![b].pc = "answer"]
    /\ UNCHANGED <<status, screen, load, hand, counts>>

\* Only a drop that went well reads the board again; after a refusal it stays
\* what it was.
DropAnswer(b) ==
    /\ drop[b].pc = "answer"
    /\ loads < MaxLoads /\ ~Busy(b)
    /\ drop' = [drop EXCEPT ![b] = NoDrop]
    /\ load' = [load EXCEPT ![b] = [NoLoad EXCEPT !.pc = "contracts"]]
    /\ loads' = loads + 1
    /\ UNCHANGED <<status, live, screen, hand, drops, votes, crashes, expelled>>

\* A statement throws, or the answer is lost: a note, and no load.
DropFails(b) ==
    /\ drop[b].pc # "idle"
    /\ Fails
    /\ drop' = [drop EXCEPT ![b] = NoDrop]
    /\ UNCHANGED <<status, live, screen, load, hand, loads, drops, votes, expelled>>

Next ==
    \/ \E t \in Tins : \/ Create(t) \/ Activate(t)
                       \/ \E m \in Members : Admit(t, m) \/ Expel(t, m)
    \/ \E b \in Boards :
        \/ Reload(b) \/ ReadContracts(b) \/ ReadSignups(b) \/ ReadRoster(b)
        \/ Show(b) \/ LoadFails(b)
        \/ Grab(b) \/ DropCheck(b) \/ DropSeat(b) \/ DropLeave(b)
        \/ DropAnswer(b) \/ DropFails(b)
        \/ \E t \in Tins : Drop(b, t)

Spec == Init /\ [][Next]_boardVars

-----------------------------------------------------------------------------
(* Properties *)

\* In a list of the answer: of those who wait, or of a tin that forms.
Listed(l, m) ==
    \/ m \in l.signups
    \/ \E t \in Tins : <<t, m>> \in l.roster

\* In a tin that runs: the answer has its card, and by design no names.
Running(l, m) == \E t \in Tins : l.cards[t] = "active" /\ <<t, m>> \in live

\* In a tin founded after the tins were read: none of the answer's cards is hers.
FoundedSince(l, m) == \E t \in Tins : l.cards[t] = "none" /\ <<t, m>> \in live

\* Nobody falls between the statements of a load: however she is moved, placed
\* or admitted while it reads, a member whom no vote expels is in a list of its
\* answer or in a tin that it shows running, unless she is by then in a tin
\* that was founded under the load: the only women an answer can leave out.
NobodyDropsOut ==
    \A b \in Boards : load[b].pc = "roster" =>
        \A m \in Members \ expelled :
            LET l == [load[b] EXCEPT !.roster = RosterOf(load[b].cards)] IN
            Listed(l, m) \/ Running(l, m) \/ FoundedSince(l, m)

=============================================================================
