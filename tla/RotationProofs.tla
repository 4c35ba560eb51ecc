--------------------------- MODULE RotationProofs ---------------------------
(* Theorems about Rotation, for every value of its constants.              *)
EXTENDS Rotation, TLAPS

\* One entry of a function, or of a function of functions, is overwritten.
LEMMA Update ==
    ASSUME NEW D, NEW R, NEW f \in [D -> R], NEW d, NEW v \in R
    PROVE  [f EXCEPT ![d] = v] \in [D -> R]
    OBVIOUS

\* A row of a table of tables is overwritten, with the same kinds of entry.
LEMMA UpdateTwice ==
    ASSUME NEW D, NEW E, NEW R, NEW f \in [D -> [E -> R]], NEW d \in D, NEW e, NEW v \in R
    PROVE  [f EXCEPT ![d][e] = v] \in [D -> [E -> R]]
    OBVIOUS

\* A round that exists has a member as its recipient, and an open-round
\* request looks only at rounds that exist.
RecipientKnown ==
    \A c \in Tins : \A s \in Slots : roundState[c][s] # "none" => recipient[c][s] \in Members
PickKnown ==
    \A o \in Openers : opn[o].pc \in {"recipient", "verify", "stamp", "open"} =>
        roundState[opn[o].tin][opn[o].slot] # "none"
Typed == TypeOK /\ RecipientKnown /\ PickKnown

\* The state a run starts from is well formed: no round, no request in flight.
LEMMA TypedInit == Init => Typed
<1> SUFFICES ASSUME Init PROVE Typed
    OBVIOUS
<1>1. TypeOK
    BY InitAssumption, NullAssumption, TurnAssumption DEF Init, TypeOK, Slots, Seats
<1>2. RecipientKnown /\ PickKnown
    BY DEF Init, RecipientKnown, PickKnown, Idle
<1> QED
    BY <1>1, <1>2 DEF Typed

\* Moving a request on to its next statement keeps it well formed.
LEMMA ArrangeMoves ==
    ASSUME NEW r \in ArrangeReq \cup {Idle}, r.pc # "idle",
           NEW pc \in {"already", "slot", "seat", "leave"}, NEW k \in 0..MaxTurn
    PROVE  /\ r \in ArrangeReq
           /\ [r EXCEPT !.pc = pc] \in ArrangeReq
           /\ [r EXCEPT !.pc = pc, !.slot = k] \in ArrangeReq
<1>1. r \in ArrangeReq
    BY DEF Idle
<1>2. [r EXCEPT !.pc = pc] \in ArrangeReq
    BY <1>1 DEF ArrangeReq
<1>3. [r EXCEPT !.pc = pc, !.slot = k] \in ArrangeReq
    BY <1>1 DEF ArrangeReq
<1> QED
    BY <1>1, <1>2, <1>3

\* An activation that moves on, or ticks members off its list, stays well formed.
LEMMA ActivateMoves ==
    ASSUME NEW r \in ActivateReq \cup {Idle}, r.pc # "idle",
           NEW pc \in {"holders", "flip", "rounds"}, NEW S
    PROVE  /\ r \in ActivateReq
           /\ [r EXCEPT !.pc = pc] \in ActivateReq
           /\ [r EXCEPT !.todo = r.todo \ S] \in ActivateReq
    BY DEF ActivateReq, Idle

\* No statement of an arrange request (arrange.ts) breaks the types.
LEMMA ArrangeTyped ==
    ASSUME Typed, NEW g \in Arrangers,
           \/ \E m \in Members : \E to, from \in Tins : ArrangeTins(g, m, to, from)
           \/ ArrangeStep(g) \/ ArrangeDies(g)
    PROVE  Typed'
<1> USE DEF Idle
<1>1. ASSUME NEW m \in Members, NEW to \in Tins, NEW from \in Tins, ArrangeTins(g, m, to, from)
      PROVE Typed'
    BY <1>1, TurnAssumption DEF ArrangeTins, Typed, TypeOK, RecipientKnown, PickKnown, rows, people, ArrangeReq
<1>2. CASE ArrangeAlready(g)
    <2>1. arr[g] \in ArrangeReq \cup {Idle} /\ arr[g].pc # "idle"
        BY <1>2 DEF ArrangeAlready, Typed, TypeOK
    <2>2. [arr[g] EXCEPT !.pc = "slot"] \in ArrangeReq
        <3>1. 0 \in 0..MaxTurn
            BY TurnAssumption
        <3> QED
            BY <2>1, <3>1, ArrangeMoves
    <2>3. arr' \in [Arrangers -> ArrangeReq \cup {Idle}]
        BY <1>2, <2>2 DEF ArrangeAlready, Typed, TypeOK
    <2> QED
        BY <1>2, <2>3 DEF ArrangeAlready, Typed, TypeOK, RecipientKnown, PickKnown, rows, people
<1>3. CASE ArrangeSlot(g)
    <2>1. arr[g] \in ArrangeReq \cup {Idle} /\ arr[g].pc # "idle"
        BY <1>3 DEF ArrangeSlot, Typed, TypeOK
    <2>2. ASSUME NEW k \in 0..MaxTurn, k < MaxTurn
          PROVE  [arr[g] EXCEPT !.pc = "seat", !.slot = k + 1] \in ArrangeReq
        <3>1. k + 1 \in 0..MaxTurn
            BY <2>2, TurnAssumption
        <3> QED
            BY <2>1, <3>1, ArrangeMoves
    <2>3. arr' \in [Arrangers -> ArrangeReq \cup {Idle}]
        BY <1>3, <2>2 DEF ArrangeSlot, Typed, TypeOK
    <2> QED
        BY <1>3, <2>3 DEF ArrangeSlot, Typed, TypeOK, RecipientKnown, PickKnown, rows, people
<1>4. CASE ArrangeSeat(g)
    <2>1. arr[g] \in ArrangeReq \cup {Idle} /\ arr[g].pc # "idle"
        BY <1>4 DEF ArrangeSeat, Typed, TypeOK
    <2>2. arr[g] \in ArrangeReq /\ [arr[g] EXCEPT !.pc = "leave"] \in ArrangeReq
        <3>1. 0 \in 0..MaxTurn
            BY TurnAssumption
        <3> QED
            BY <2>1, <3>1, ArrangeMoves
    <2>3. arr' \in [Arrangers -> ArrangeReq \cup {Idle}]
        BY <1>4, <2>2 DEF ArrangeSeat, Typed, TypeOK
    <2>4. turn' \in [Tins -> [Members -> Seats]]
        <3>1. arr[g].slot \in Seats /\ arr[g].to \in Tins /\ arr[g].member \in Members
            BY <2>2, TurnAssumption DEF ArrangeReq, Seats, Absent
        <3>2. turn' = turn \/ turn' = [turn EXCEPT ![arr[g].to][arr[g].member] = arr[g].slot]
            BY <1>4 DEF ArrangeSeat
        <3> QED
            <4>1. turn \in [Tins -> [Members -> Seats]]
                BY DEF Typed, TypeOK
            <4>2. [turn EXCEPT ![arr[g].to][arr[g].member] = arr[g].slot] \in [Tins -> [Members -> Seats]]
                BY ONLY <3>1, <4>1, UpdateTwice
            <4> QED
                BY ONLY <3>2, <4>1, <4>2
    <2> QED
        BY <1>4, <2>3, <2>4 DEF ArrangeSeat, Typed, TypeOK, RecipientKnown, PickKnown, rows, people
<1>5. CASE ArrangeLeave(g)
    BY <1>5, TurnAssumption DEF ArrangeLeave, Typed, TypeOK, RecipientKnown, PickKnown, rows, people, ArrangeReq, Seats, Absent
<1>6. CASE ArrangeDies(g)
    BY <1>6 DEF ArrangeDies, Typed, TypeOK, RecipientKnown, PickKnown, rows, people, ArrangeReq
<1> QED
    BY <1>1, <1>2, <1>3, <1>4, <1>5, <1>6 DEF ArrangeStep

\* No statement of an activation (activate.ts) breaks the types, and the
\* rounds it inserts have a member as recipient.
LEMMA ActivateTyped ==
    ASSUME Typed, NEW a \in Activators,
           \/ \E c \in Tins : ActivateRead(a, c)
           \/ ActivateStep(a) \/ ActivateDies(a)
    PROVE  Typed'
<1> USE DEF Idle
<1>1. ASSUME NEW c \in Tins, ActivateRead(a, c) PROVE Typed'
    BY <1>1, TurnAssumption DEF ActivateRead, Typed, TypeOK, RecipientKnown, PickKnown, rows, people, ActivateReq, Seats, Absent
<1>2. CASE ActivateHolders(a)
    BY <1>2 DEF ActivateHolders, Typed, TypeOK, RecipientKnown, PickKnown, rows, people, ActivateReq, TurnHolders
<1>3. CASE ActivateFlip(a)
    <2>1. act[a] \in ActivateReq \cup {Idle} /\ act[a].pc # "idle"
        BY <1>3 DEF ActivateFlip, Typed, TypeOK
    <2>2. [act[a] EXCEPT !.pc = "rounds"] \in ActivateReq
        BY <2>1, ActivateMoves
    <2>3. act' \in [Activators -> ActivateReq \cup {Idle}]
        BY <1>3, <2>2 DEF ActivateFlip, Typed, TypeOK
    <2> QED
        BY <1>3, <2>3 DEF ActivateFlip, Typed, TypeOK, RecipientKnown, PickKnown, rows, people
<1>4. CASE ActivateRound(a)
    <2>1. act[a] \in ActivateReq
        BY <1>4, ActivateMoves DEF ActivateRound, Typed, TypeOK
    <2>2. PICK m \in act[a].todo :
            IF roundState[act[a].tin][act[a].plan[m]] = "none"
            THEN /\ roundState' = [roundState EXCEPT ![act[a].tin][act[a].plan[m]] = "scheduled"]
                 /\ recipient' = [recipient EXCEPT ![act[a].tin][act[a].plan[m]] = m]
                 /\ act' = [act EXCEPT ![a] = IF LastHolder(a, m) THEN Idle
                                     ELSE [act[a] EXCEPT !.todo = act[a].todo \ {m}]]
            ELSE /\ act' = [act EXCEPT ![a] = Idle]
                 /\ UNCHANGED <<roundState, recipient>>
        BY <1>4 DEF ActivateRound
    <2>3. act[a].tin \in Tins /\ m \in Members
        BY <2>1 DEF ActivateReq
    <2>4. [act[a] EXCEPT !.todo = act[a].todo \ {m}] \in ActivateReq
        BY <2>1 DEF ActivateReq
    <2>5. act' \in [Activators -> ActivateReq \cup {Idle}]
        <3>1. act \in [Activators -> ActivateReq \cup {Idle}]
            BY DEF Typed, TypeOK
        <3>2. CASE act' = [act EXCEPT ![a] = Idle]
            BY <3>1, <3>2
        <3>3. CASE act' = [act EXCEPT ![a] = [act[a] EXCEPT !.todo = act[a].todo \ {m}]]
            BY <2>4, <3>1, <3>3
        <3> QED
            BY <2>2, <3>2, <3>3
    <2>6. /\ roundState' \in [Tins -> [Slots -> {"none", "scheduled", "open", "completed"}]]
          /\ recipient' \in [Tins -> [Slots -> Members \cup {NoMember}]]
        <3>1. CASE UNCHANGED <<roundState, recipient>>
            BY <3>1 DEF Typed, TypeOK
        <3>2. CASE /\ roundState' = [roundState EXCEPT ![act[a].tin][act[a].plan[m]] = "scheduled"]
                   /\ recipient' = [recipient EXCEPT ![act[a].tin][act[a].plan[m]] = m]
            BY <2>3, <3>2 DEF Typed, TypeOK
        <3> QED
            BY <2>2, <3>1, <3>2
    <2>7. RecipientKnown' /\ PickKnown'
        <3>1. CASE UNCHANGED <<roundState, recipient>>
            BY <1>4, <3>1 DEF ActivateRound, Typed, RecipientKnown, PickKnown
        <3>2. CASE /\ roundState' = [roundState EXCEPT ![act[a].tin][act[a].plan[m]] = "scheduled"]
                   /\ recipient' = [recipient EXCEPT ![act[a].tin][act[a].plan[m]] = m]
            <4>1. RecipientKnown'
                BY <2>3, <3>2 DEF Typed, TypeOK, RecipientKnown
            <4>2. PickKnown'
                BY <1>4, <3>2 DEF ActivateRound, Typed, TypeOK, PickKnown
            <4> QED
                BY <4>1, <4>2
        <3> QED
            BY <2>2, <3>1, <3>2
    <2> QED
        BY <1>4, <2>5, <2>6, <2>7 DEF ActivateRound, Typed, TypeOK, rows, people
<1>5. CASE ActivateDies(a)
    BY <1>5 DEF ActivateDies, Typed, TypeOK, RecipientKnown, PickKnown, rows, people, ActivateReq
<1> QED
    BY <1>1, <1>2, <1>3, <1>4, <1>5 DEF ActivateStep

OpenerReq == PickReq \cup OpenReq \cup FinalReq \cup CloseReq \cup {Idle}

\* What a request at each statement of open-round carries.
LEMMA OpenerFields ==
    ASSUME NEW r \in OpenerReq
    PROVE  /\ r.pc = "recipient" => r \in PickReq
           /\ r.pc \in {"verify", "stamp", "open", "others", "dues"} => r \in OpenReq
           /\ r.pc = "final" => r \in FinalReq
           /\ r.pc \in {"finish", "close"} => r \in CloseReq
    BY DEF OpenerReq, PickReq, OpenReq, FinalReq, CloseReq, Idle

\* Moving an open-round request to its next statement changes nothing else in it.
LEMMA OpenMoves ==
    ASSUME NEW r \in OpenReq, NEW pc \in {"verify", "stamp", "open", "others", "dues"}
    PROVE  /\ [r EXCEPT !.pc = pc] \in OpenerReq
           /\ [r EXCEPT !.pc = pc].pc = pc
           /\ [r EXCEPT !.pc = pc].tin = r.tin
           /\ [r EXCEPT !.pc = pc].slot = r.slot
    BY DEF OpenReq, OpenerReq

\* So does writing down what Verify answered.
LEMMA OpenAnswered ==
    ASSUME NEW r \in OpenReq, NEW ok \in BOOLEAN
    PROVE  [r EXCEPT !.pc = "stamp", !.verified = ok] \in OpenerReq
    BY DEF OpenReq, OpenerReq

RoundsTyped ==
    /\ roundState \in [Tins -> [Slots -> {"none", "scheduled", "open", "completed"}]]
    /\ snapshot \in [Tins -> [Slots -> Addresses \cup {NoAddress}]]
    /\ dues \in [Tins -> [Slots -> SUBSET Members]]
    /\ warned \subseteq Tins \X Slots
    /\ stamped \subseteq Members

\* A step of open-round that writes rounds but neither makes nor removes one
\* keeps the types.
LEMMA WriteTyped ==
    ASSUME Typed, RoundsTyped', NEW o \in Openers, NEW r \in OpenerReq,
           opn' = [opn EXCEPT ![o] = r],
           r.pc \in {"recipient", "verify", "stamp", "open"} =>
               roundState[r.tin][r.slot] # "none",
           \A c \in Tins : \A s \in Slots : roundState[c][s] = "none" <=> roundState'[c][s] = "none",
           UNCHANGED <<status, turn, recipient, payout, graced, proven, arr, act, chk>>
    PROVE  Typed'
<1>1. opn' \in [Openers -> OpenerReq]
    BY DEF Typed, TypeOK, OpenerReq
<1>2. TypeOK'
    BY <1>1 DEF Typed, TypeOK, OpenerReq, RoundsTyped
<1>3. RecipientKnown'
    BY DEF Typed, RecipientKnown
<1>4. PickKnown'
    <2> SUFFICES ASSUME NEW p \in Openers,
                        opn'[p].pc \in {"recipient", "verify", "stamp", "open"}
                 PROVE  roundState'[opn'[p].tin][opn'[p].slot] # "none"
        BY DEF PickKnown
    <2>1. opn'[p] \in PickReq \cup OpenReq
        BY <1>1, OpenerFields
    <2>2. opn'[p].tin \in Tins /\ opn'[p].slot \in Slots
        BY <2>1 DEF PickReq, OpenReq
    <2>3. roundState[opn'[p].tin][opn'[p].slot] # "none"
        BY DEF Typed, TypeOK, PickKnown
    <2> QED
        BY <2>2, <2>3
<1> QED
    BY <1>2, <1>3, <1>4 DEF Typed

\* A step of open-round that only moves the request, to a request that is well
\* formed and still looks at a round that exists, keeps the types.
LEMMA MoveTyped ==
    ASSUME Typed, NEW o \in Openers, NEW r \in OpenerReq,
           opn' = [opn EXCEPT ![o] = r],
           r.pc \in {"recipient", "verify", "stamp", "open"} =>
               roundState[r.tin][r.slot] # "none",
           UNCHANGED <<turn, rows, people, arr, act, chk>>,
           status' \in [Tins -> {"forming", "active", "completed"}]
    PROVE  Typed'
<1>1. opn' \in [Openers -> OpenerReq]
    BY DEF Typed, TypeOK, OpenerReq
<1>2. TypeOK'
    BY <1>1 DEF Typed, TypeOK, OpenerReq, rows, people
<1>3. RecipientKnown'
    BY DEF Typed, RecipientKnown, rows
<1>4. PickKnown'
    BY DEF Typed, TypeOK, PickKnown, rows
<1> QED
    BY <1>2, <1>3, <1>4 DEF Typed

\* No statement of an open-round request (open-round.ts) breaks the types, and
\* the round it looks up the recipient of exists.
LEMMA OpenTyped ==
    ASSUME Typed, NEW o \in Openers,
           \/ \E c \in Tins : OpenNext(o, c) \/ OpenNone(o, c)
           \/ OpenStep(o) \/ OpenDies(o)
    PROVE  Typed'
<1>a. opn[o] \in OpenerReq /\ Idle \in OpenerReq
    BY DEF Typed, TypeOK, OpenerReq
<1>b. UNCHANGED status => status' \in [Tins -> {"forming", "active", "completed"}]
    BY DEF Typed, TypeOK
<1>c. Idle.pc = "idle"
    BY DEF Idle
<1>1. ASSUME NEW c \in Tins, OpenNext(o, c) PROVE Typed'
    <2>1. PICK s \in Slots : /\ Scheduled(c, s)
                             /\ opn' = [opn EXCEPT ![o] = [pc |-> "recipient", tin |-> c, slot |-> s]]
        BY <1>1 DEF OpenNext
    <2>2. [pc |-> "recipient", tin |-> c, slot |-> s] \in OpenerReq
        BY DEF OpenerReq, PickReq
    <2>3. roundState[c][s] # "none"
        BY <2>1 DEF Scheduled
    <2> QED
        BY <1>1, <1>b, <2>1, <2>2, <2>3, MoveTyped DEF OpenNext
<1>2. ASSUME NEW c \in Tins, OpenNone(o, c) PROVE Typed'
    <2>1. [pc |-> "final", tin |-> c] \in OpenerReq
        BY DEF OpenerReq, FinalReq
    <2> QED
        BY <1>2, <1>b, <2>1, MoveTyped DEF OpenNone
<1>3. CASE FinalPick(o)
    <2>1. CASE opn' = [opn EXCEPT ![o] = Idle]
        BY <1>3, <1>a, <1>b, <1>c, <2>1, MoveTyped DEF FinalPick
    <2>2. CASE \E s \in Slots : opn' = [opn EXCEPT ![o] =
                                   [pc |-> "finish", tin |-> opn[o].tin, slot |-> s]]
        <3>1. PICK s \in Slots : opn' = [opn EXCEPT ![o] =
                                   [pc |-> "finish", tin |-> opn[o].tin, slot |-> s]]
            BY <2>2
        <3>2. opn[o].tin \in Tins
            BY <1>3, <1>a, OpenerFields DEF FinalPick, FinalReq
        <3>3. [pc |-> "finish", tin |-> opn[o].tin, slot |-> s] \in OpenerReq
            BY <3>2 DEF OpenerReq, CloseReq
        <3> QED
            BY <1>3, <1>b, <3>1, <3>3, MoveTyped DEF FinalPick
    <2> QED
        BY <1>3, <2>1, <2>2 DEF FinalPick
<1>5. CASE FinalClose(o)
    <2>1. status' \in [Tins -> {"forming", "active", "completed"}]
        BY <1>5 DEF FinalClose, Typed, TypeOK
    <2> QED
        BY <1>5, <1>a, <1>c, <2>1, MoveTyped DEF FinalClose
<1>6. CASE OpenRecipient(o)
    <2> DEFINE m == recipient[opn[o].tin][opn[o].slot]
               r == [pc |-> "verify", tin |-> opn[o].tin, slot |-> opn[o].slot,
                     addr |-> payout[m], grace |-> m \in graced, verified |-> FALSE]
    <2>1. opn[o].tin \in Tins /\ opn[o].slot \in Slots
        BY <1>6, <1>a, OpenerFields DEF OpenRecipient, PickReq
    <2>2. roundState[opn[o].tin][opn[o].slot] # "none"
        BY <1>6 DEF OpenRecipient, Typed, PickKnown
    <2>3. m \in Members
        BY <2>1, <2>2 DEF Typed, RecipientKnown
    <2>4. CASE HasAddress(m)
        <3>1. payout[m] \in Addresses
            BY <2>3, <2>4 DEF HasAddress, Typed, TypeOK
        <3>2. r \in OpenerReq
            BY <2>1, <3>1 DEF OpenerReq, OpenReq
        <3>3. opn' = [opn EXCEPT ![o] = r]
            BY <1>6, <2>4 DEF OpenRecipient
        <3>4. r.tin = opn[o].tin /\ r.slot = opn[o].slot
            OBVIOUS
        <3>5. UNCHANGED <<status, turn, rows, people, arr, act, chk>>
            BY <1>6 DEF OpenRecipient
        <3> HIDE DEF r
        <3> QED
            BY <1>b, <2>2, <3>2, <3>3, <3>4, <3>5, MoveTyped
    <2>5. CASE ~ HasAddress(m)
        BY <1>6, <1>a, <1>b, <1>c, <2>5, MoveTyped DEF OpenRecipient
    <2> QED
        BY <2>4, <2>5
<1>7. CASE OpenVerify(o)
    <2>1. opn[o] \in OpenReq
        BY <1>7, <1>a, OpenerFields DEF OpenVerify
    <2>2. PICK ok \in BOOLEAN :
            opn' = [opn EXCEPT ![o] = [opn[o] EXCEPT !.pc = "stamp", !.verified = ok]]
        BY <1>7 DEF OpenVerify, GateAnswer, VerifyAnswers, Typed, TypeOK
    <2> DEFINE r == [opn[o] EXCEPT !.pc = "stamp", !.verified = ok]
    <2>3. r \in OpenerReq
        BY <2>1, OpenAnswered
    <2>4. r.tin = opn[o].tin /\ r.slot = opn[o].slot
        BY <2>1 DEF OpenReq
    <2>5. roundState[opn[o].tin][opn[o].slot] # "none"
        BY <1>7 DEF OpenVerify, Typed, PickKnown
    <2> HIDE DEF r
    <2> QED
        BY <1>7, <1>b, <2>2, <2>3, <2>4, <2>5, MoveTyped DEF OpenVerify, r
<1>4. CASE FinalRound(o)
    <2>1. opn[o] \in CloseReq
        BY <1>4, <1>a, OpenerFields DEF FinalRound
    <2>2. CASE IsOpen(opn[o].tin, opn[o].slot)
        <3> DEFINE r == [opn[o] EXCEPT !.pc = "close"]
        <3>1. r \in OpenerReq /\ r.pc = "close"
            BY <2>1 DEF CloseReq, OpenerReq
        <3>2. opn' = [opn EXCEPT ![o] = r]
            BY <1>4, <2>2 DEF FinalRound
        <3>3. roundState' = [roundState EXCEPT ![opn[o].tin][opn[o].slot] = "completed"]
            BY <1>4, <2>2 DEF FinalRound
        <3>4. opn[o].tin \in Tins /\ opn[o].slot \in Slots
            BY <2>1 DEF CloseReq
        <3>5. RoundsTyped'
            BY <1>4, <3>3, <3>4, UpdateTwice DEF FinalRound, RoundsTyped, Typed, TypeOK, people
        <3>6. \A c \in Tins : \A s \in Slots : roundState[c][s] = "none" <=> roundState'[c][s] = "none"
            BY <2>2, <3>3, <3>4 DEF IsOpen, Typed, TypeOK
        <3>7. UNCHANGED <<status, turn, recipient, payout, graced, proven, arr, act, chk>>
            BY <1>4 DEF FinalRound, people
        <3> HIDE DEF r
        <3> QED
            BY <3>1, <3>2, <3>5, <3>6, <3>7, WriteTyped
    <2>3. CASE ~ IsOpen(opn[o].tin, opn[o].slot)
        BY <1>4, <1>a, <1>b, <1>c, <2>3, MoveTyped DEF FinalRound, rows
    <2> QED
        BY <2>2, <2>3
<1>8. CASE OpenStamp(o)
    <2>1. opn[o] \in OpenReq
        BY <1>8, <1>a, OpenerFields DEF OpenStamp
    <2> DEFINE m == recipient[opn[o].tin][opn[o].slot]
               r == [opn[o] EXCEPT !.pc = "open"]
    <2>2. opn[o].tin \in Tins /\ opn[o].slot \in Slots
        BY <2>1 DEF OpenReq
    <2>3. roundState[opn[o].tin][opn[o].slot] # "none"
        BY <1>8 DEF OpenStamp, Typed, PickKnown
    <2>4. m \in Members
        BY <2>2, <2>3 DEF Typed, RecipientKnown
    <2>5. RoundsTyped'
        BY <1>8, <2>4 DEF OpenStamp, RoundsTyped, Typed, TypeOK, rows
    <2>6. r \in OpenerReq /\ r.tin = opn[o].tin /\ r.slot = opn[o].slot
        BY <2>1, OpenMoves
    <2>7. opn' = [opn EXCEPT ![o] = r] \/ opn' = [opn EXCEPT ![o] = Idle]
        BY <1>8 DEF OpenStamp
    <2>8. UNCHANGED <<status, turn, rows, payout, graced, proven, arr, act, chk>>
        BY <1>8 DEF OpenStamp
    <2> HIDE DEF r
    <2> QED
        BY <1>a, <1>c, <2>3, <2>5, <2>6, <2>7, <2>8, WriteTyped DEF rows
<1>9. CASE OpenRound(o)
    <2>1. opn[o] \in OpenReq
        BY <1>9, <1>a, OpenerFields DEF OpenRound
    <2>2. CASE StillScheduled(opn[o].tin, opn[o].slot)
        <3> DEFINE r == [opn[o] EXCEPT !.pc = "others"]
                   c0 == opn[o].tin
                   s0 == opn[o].slot
        <3>1. r \in OpenerReq /\ r.pc = "others"
            BY <2>1, OpenMoves
        <3>2. c0 \in Tins /\ s0 \in Slots /\ opn[o].addr \in Addresses
            BY <2>1 DEF OpenReq
        <3>3. /\ roundState' = [roundState EXCEPT ![c0][s0] = "open"]
              /\ snapshot' = [snapshot EXCEPT ![c0][s0] = opn[o].addr]
              /\ warned' = warned \/ warned' = warned \cup {<<c0, s0>>}
              /\ opn' = [opn EXCEPT ![o] = r]
            BY <1>9, <2>2 DEF OpenRound
        <3>4. UNCHANGED <<status, turn, recipient, dues, people, arr, act, chk>>
            BY <1>9 DEF OpenRound
        <3>5. roundState' \in [Tins -> [Slots -> {"none", "scheduled", "open", "completed"}]]
            BY <3>2, <3>3 DEF Typed, TypeOK
        <3>6. snapshot' \in [Tins -> [Slots -> Addresses \cup {NoAddress}]]
            BY <3>2, <3>3 DEF Typed, TypeOK
        <3>7. warned' \subseteq Tins \X Slots
            BY <3>2, <3>3 DEF Typed, TypeOK
        <3>8. RoundsTyped'
            BY <3>4, <3>5, <3>6, <3>7 DEF RoundsTyped, Typed, TypeOK, people
        <3>9. \A c \in Tins : \A s \in Slots : roundState[c][s] = "none" <=> roundState'[c][s] = "none"
            BY <2>2, <3>2, <3>3 DEF StillScheduled, Scheduled, Typed, TypeOK
        <3> HIDE DEF r
        <3> QED
            BY <3>1, <3>3, <3>4, <3>8, <3>9, WriteTyped DEF people
    <2>3. CASE ~ StillScheduled(opn[o].tin, opn[o].slot)
        BY <1>9, <1>a, <1>b, <1>c, <2>3, MoveTyped DEF OpenRound, rows
    <2> QED
        BY <2>2, <2>3
<1>10. CASE CompleteOthers(o)
    <2> DEFINE r == [opn[o] EXCEPT !.pc = "dues"]
               c0 == opn[o].tin
               swept == [s \in Slots |-> IF Superseded(o, s) THEN "completed" ELSE roundState[c0][s]]
    <2>1. opn[o] \in OpenReq
        BY <1>10, <1>a, OpenerFields DEF CompleteOthers
    <2>2. r \in OpenerReq /\ r.pc = "dues"
        BY <2>1, OpenMoves
    <2>3. c0 \in Tins
        BY <2>1 DEF OpenReq
    <2>4. /\ roundState' = [roundState EXCEPT ![c0] = swept]
          /\ opn' = [opn EXCEPT ![o] = r]
          /\ UNCHANGED <<status, turn, recipient, snapshot, dues, warned, people, arr, act, chk>>
        BY <1>10 DEF CompleteOthers
    <2>5. swept \in [Slots -> {"none", "scheduled", "open", "completed"}]
        BY <2>3 DEF Typed, TypeOK
    <2>6. RoundsTyped'
        BY <2>4, <2>5 DEF RoundsTyped, Typed, TypeOK, people
    <2>7. \A s \in Slots : roundState[c0][s] = "none" <=> swept[s] = "none"
        BY DEF Superseded, IsOpen
    <2>8. \A c \in Tins : \A s \in Slots : roundState[c][s] = "none" <=> roundState'[c][s] = "none"
        BY <2>3, <2>4, <2>7 DEF Typed, TypeOK
    <2> HIDE DEF r, swept
    <2> QED
        BY <2>2, <2>4, <2>6, <2>8, WriteTyped DEF people
<1>11. CASE InsertDues(o)
    <2>1. opn[o] \in OpenReq
        BY <1>11, <1>a, OpenerFields DEF InsertDues
    <2>2. opn[o].tin \in Tins /\ opn[o].slot \in Slots
        BY <2>1 DEF OpenReq
    <2>3. Owing(opn[o].tin, opn[o].slot) \in SUBSET Members
        BY DEF Owing, TurnHolders
    <2>4. RoundsTyped'
        BY <1>11, <2>2, <2>3 DEF InsertDues, RoundsTyped, Typed, TypeOK, people
    <2> QED
        BY <1>11, <1>a, <1>c, <2>4, WriteTyped DEF InsertDues, people
<1>12. CASE OpenDies(o)
    BY <1>12, <1>a, <1>b, <1>c, MoveTyped DEF OpenDies
<1> QED
    BY <1>1, <1>2, <1>3, <1>4, <1>5, <1>6, <1>7, <1>8, <1>9, <1>10, <1>11, <1>12 DEF OpenStep

\* Nor do admissions, address changes, the end of a grace period, or a check.
LEMMA OtherTyped ==
    ASSUME Typed,
           \/ \E c \in Tins : \E m \in Members : Admit(c, m)
           \/ \E m \in Members : \E a \in Addresses \cup {NoAddress} : SetAddress(m, a)
           \/ \E m \in Members : GraceRunsOut(m)
           \/ \E a \in Addresses : ProveAddress(a)
           \/ \E k \in Checkers : \E m \in Members : CheckRead(k, m)
           \/ \E k \in Checkers : CheckStep(k)
           \/ UNCHANGED vars
    PROVE  Typed'
<1> USE DEF Typed, TypeOK, RecipientKnown, PickKnown, rows, people
<1>1. ASSUME NEW c \in Tins, NEW m \in Members, Admit(c, m) PROVE Typed'
    <2>1. NoTurn \in Seats
        BY TurnAssumption DEF NoTurn, Seats, Absent
    <2> QED
        BY <1>1, <2>1 DEF Admit
<1>2. ASSUME NEW m \in Members, NEW a \in Addresses \cup {NoAddress}, SetAddress(m, a) PROVE Typed'
    BY <1>2 DEF SetAddress
<1>3. ASSUME NEW m \in Members, GraceRunsOut(m) PROVE Typed'
    BY <1>3 DEF GraceRunsOut
<1>4. ASSUME NEW a \in Addresses, ProveAddress(a) PROVE Typed'
    BY <1>4 DEF ProveAddress
<1>5. ASSUME NEW k \in Checkers, NEW m \in Members, CheckRead(k, m) PROVE Typed'
    <2>1. [pc |-> "ask", member |-> m, addr |-> payout[m]] \in CheckReq
        BY <1>5 DEF CheckRead, HasAddress, CheckReq
    <2> QED
        BY <1>5, <2>1 DEF CheckRead
<1>6. ASSUME NEW k \in Checkers, CheckStep(k) PROVE Typed'
    <2>1. chk[k] \in CheckReq
        BY <1>6 DEF CheckStep, CheckAsk, CheckStamp, Idle
    <2>2. CASE CheckAsk(k)
        <3>1. [chk[k] EXCEPT !.pc = "stamp"] \in CheckReq
            BY <2>1 DEF CheckReq
        <3>2. chk' = [chk EXCEPT ![k] = [chk[k] EXCEPT !.pc = "stamp"]]
              \/ chk' = [chk EXCEPT ![k] = Idle]
            BY <2>2 DEF CheckAsk
        <3>3. chk' \in [Checkers -> CheckReq \cup {Idle}]
            BY <3>1, <3>2
        <3> QED
            BY <2>2, <3>3 DEF CheckAsk
    <2>3. CASE CheckStamp(k)
        <3>1. chk[k].member \in Members
            BY <2>1 DEF CheckReq
        <3> QED
            BY <2>3, <3>1 DEF CheckStamp
    <2> QED
        BY <1>6, <2>2, <2>3 DEF CheckStep
<1>7. CASE UNCHANGED vars
    BY <1>7 DEF vars
<1> QED
    BY <1>1, <1>2, <1>3, <1>4, <1>5, <1>6, <1>7

\* So every step keeps the inductive invariant of the types.
LEMMA TypedStep == Typed /\ [Next]_vars => Typed'
<1> SUFFICES ASSUME Typed, [Next]_vars PROVE Typed'
    OBVIOUS
<1>1. CASE \E g \in Arrangers :
              \/ \E m \in Members : \E to, from \in Tins : ArrangeTins(g, m, to, from)
              \/ ArrangeStep(g) \/ ArrangeDies(g)
    BY <1>1, ArrangeTyped
<1>2. CASE \E a \in Activators : (\E c \in Tins : ActivateRead(a, c))
                                  \/ ActivateStep(a) \/ ActivateDies(a)
    BY <1>2, ActivateTyped
<1>3. CASE \E o \in Openers : (\E c \in Tins : OpenNext(o, c) \/ OpenNone(o, c))
                               \/ OpenStep(o) \/ OpenDies(o)
    BY <1>3, OpenTyped
<1> QED
    BY <1>1, <1>2, <1>3, OtherTyped DEF Next

\* Every variable keeps its type, a round that exists has a member as its
\* recipient, and no open-round request looks for a recipient that is not there.
THEOREM TypeCorrect == Spec => []TypeOK
<1>1. Typed => TypeOK
    BY DEF Typed
<1> QED
    BY TypedInit, TypedStep, <1>1, PTL DEF Spec

-----------------------------------------------------------------------------
(* One payout per member: the flip to 'active' is a lock.                  *)

NoRoundsWhileForming ==
    \A c \in Tins : status[c] = "forming" => \A s \in Slots : roundState[c][s] = "none"
InsertsForNewcomers ==
    \A a \in Activators : act[a].pc = "rounds" =>
        /\ status[act[a].tin] # "forming"
        /\ \A s \in Slots : roundState[act[a].tin][s] # "none" =>
               recipient[act[a].tin][s] \notin act[a].todo
OneInserter ==
    \A a, b \in Activators :
        act[a].pc = "rounds" /\ act[b].pc = "rounds" /\ act[a].tin = act[b].tin => a = b
PayoutInv ==
    /\ Typed
    /\ NoRoundsWhileForming
    /\ InsertsForNewcomers
    /\ OneInserter
    /\ OnePayoutPerMember

\* No step but an activation's makes a round, names a recipient, or takes a
\* circle out of 'forming' or back.
RosterFrame ==
    /\ UNCHANGED <<recipient, act>>
    /\ \A c \in Tins : status[c] = "forming" <=> status'[c] = "forming"
    /\ \A c \in Tins : \A s \in Slots : roundState[c][s] = "none" <=> roundState'[c][s] = "none"

\* An open-round request adds no round, names no recipient, and neither takes
\* a circle out of 'forming' nor puts one back (open-round.ts writes statuses only).
LEMMA OpenFrame ==
    ASSUME Typed, NEW o \in Openers,
           \/ \E c \in Tins : OpenNext(o, c) \/ OpenNone(o, c)
           \/ OpenStep(o) \/ OpenDies(o)
    PROVE  RosterFrame
<1> USE DEF RosterFrame, rows
<1>a. /\ roundState \in [Tins -> [Slots -> {"none", "scheduled", "open", "completed"}]]
      /\ status \in [Tins -> {"forming", "active", "completed"}]
    BY DEF Typed, TypeOK
<1>1. CASE FinalRound(o)
    BY <1>1, <1>a DEF FinalRound, IsOpen
<1>2. CASE FinalClose(o)
    BY <1>2, <1>a DEF FinalClose
<1>3. CASE OpenRound(o)
    BY <1>3, <1>a DEF OpenRound, StillScheduled, Scheduled
<1>4. CASE CompleteOthers(o)
    <2>1. \A c \in Tins : \A s \in Slots :
             roundState'[c][s] = IF c = opn[o].tin /\ Superseded(o, s)
                                 THEN "completed" ELSE roundState[c][s]
        BY <1>4, <1>a DEF CompleteOthers
    <2>2. \A s \in Slots : Superseded(o, s) => roundState[opn[o].tin][s] = "open"
        BY DEF Superseded, IsOpen
    <2> QED
        BY <1>4, <2>1, <2>2 DEF CompleteOthers
<1>5. CASE InsertDues(o)
    BY <1>5 DEF InsertDues
<1>6. CASE OpenStamp(o)
    BY <1>6 DEF OpenStamp
<1> QED
    BY <1>1, <1>2, <1>3, <1>4, <1>5, <1>6
    DEF OpenNext, OpenNone, OpenDies, OpenStep, FinalPick, OpenRecipient, OpenVerify

\* A step that adds no round, names no recipient and leaves the activations
\* alone keeps the invariant of the payouts.
LEMMA FramePayout ==
    ASSUME PayoutInv, Typed', RosterFrame
    PROVE  PayoutInv'
<1>1. NoRoundsWhileForming'
    BY DEF PayoutInv, NoRoundsWhileForming, RosterFrame
<1>2. InsertsForNewcomers'
    <2> SUFFICES ASSUME NEW a \in Activators, act[a].pc = "rounds"
                 PROVE  /\ status'[act[a].tin] # "forming"
                        /\ \A s \in Slots : roundState'[act[a].tin][s] # "none" =>
                               recipient[act[a].tin][s] \notin act[a].todo
        BY DEF InsertsForNewcomers, RosterFrame
    <2>1. act[a].tin \in Tins
        BY DEF PayoutInv, Typed, TypeOK, ActivateReq, Idle
    <2> QED
        BY <2>1 DEF PayoutInv, InsertsForNewcomers, RosterFrame
<1>3. OneInserter' /\ OnePayoutPerMember'
    BY DEF PayoutInv, OneInserter, OnePayoutPerMember, RosterFrame
<1> QED
    BY <1>1, <1>2, <1>3 DEF PayoutInv

\* The activation keeps it: the flip lets one request through per circle, and
\* that one ticks off each member as it inserts her round (activate.ts).
LEMMA ActivatePayout ==
    ASSUME PayoutInv, Typed', NEW a \in Activators,
           \/ \E c \in Tins : ActivateRead(a, c)
           \/ ActivateStep(a) \/ ActivateDies(a)
    PROVE  PayoutInv'
<1>a. act \in [Activators -> ActivateReq \cup {Idle}] /\ Idle.pc = "idle"
    BY DEF PayoutInv, Typed, TypeOK, Idle
<1>b. /\ status \in [Tins -> {"forming", "active", "completed"}]
      /\ roundState \in [Tins -> [Slots -> {"none", "scheduled", "open", "completed"}]]
      /\ recipient \in [Tins -> [Slots -> Members \cup {NoMember}]]
    BY DEF PayoutInv, Typed, TypeOK
\* Before the flip, and when it ends, a request inserts nothing.
<1>1. ASSUME NEW r, act' = [act EXCEPT ![a] = r], r.pc # "rounds",
             UNCHANGED <<status, roundState, recipient>>
      PROVE  PayoutInv'
    BY <1>1, <1>a DEF PayoutInv, NoRoundsWhileForming, InsertsForNewcomers, OneInserter,
                      OnePayoutPerMember
<1>2. ASSUME NEW c \in Tins, ActivateRead(a, c) PROVE PayoutInv'
    <2> DEFINE r == [pc |-> IF c \in TargetGroups THEN "flip" ELSE "holders", tin |-> c,
                     plan |-> [m \in Members |-> Absent], todo |-> {}]
    <2>1. act' = [act EXCEPT ![a] = r] /\ r.pc # "rounds"
        BY <1>2 DEF ActivateRead
    <2> HIDE DEF r
    <2> QED
        BY <1>1, <1>2, <2>1 DEF ActivateRead, rows
<1>3. CASE ActivateHolders(a)
    <2> DEFINE c == act[a].tin
               r == [pc |-> "flip", tin |-> c, plan |-> turn[c], todo |-> TurnHolders(c)]
    <2>1. act' = [act EXCEPT ![a] = r] \/ act' = [act EXCEPT ![a] = Idle]
        BY <1>3 DEF ActivateHolders
    <2>2. r.pc # "rounds"
        OBVIOUS
    <2> HIDE DEF r
    <2> QED
        BY <1>1, <1>3, <1>a, <2>1, <2>2 DEF ActivateHolders, rows
<1>4. CASE ActivateDies(a)
    BY <1>1, <1>4, <1>a DEF ActivateDies, rows
<1>5. CASE ActivateFlip(a)
    <2> DEFINE c0 == act[a].tin
               r == [act[a] EXCEPT !.pc = "rounds"]
    <2>1. act[a] \in ActivateReq
        BY <1>5, <1>a DEF ActivateFlip, Idle
    <2>2. CASE ~ FlipWins(c0)
        BY <1>1, <1>5, <1>a, <2>2 DEF ActivateFlip, rows
    <2>3. CASE FlipWins(c0)
        <3>1. c0 \in Tins /\ r.tin = c0 /\ r.todo = act[a].todo /\ r.pc = "rounds"
            BY <2>1 DEF ActivateReq
        <3>2. /\ status' = [status EXCEPT ![c0] = "active"]
              /\ act' = [act EXCEPT ![a] = Idle] \/ act' = [act EXCEPT ![a] = r]
              /\ UNCHANGED <<roundState, recipient>>
            BY <1>5, <2>3 DEF ActivateFlip, rows
        <3>3. status[c0] = "forming" /\ \A s \in Slots : roundState[c0][s] = "none"
            BY <2>3, <3>1 DEF FlipWins, PayoutInv, NoRoundsWhileForming
        <3>4. \A b \in Activators : act[b].pc = "rounds" => act[b].tin # c0
            BY <3>3 DEF PayoutInv, InsertsForNewcomers
        <3> HIDE DEF r, c0
        <3>5. NoRoundsWhileForming'
            BY <1>b, <3>1, <3>2 DEF PayoutInv, NoRoundsWhileForming
        <3>6. \A c \in Tins : status[c] # "forming" => status'[c] # "forming"
            BY <1>b, <3>1, <3>2
        <3>7. status'[c0] # "forming"
            BY <1>b, <3>1, <3>2
        <3>8. InsertsForNewcomers'
            <4> SUFFICES ASSUME NEW b \in Activators, act'[b].pc = "rounds"
                         PROVE  /\ status'[act'[b].tin] # "forming"
                                /\ \A s \in Slots : roundState[act'[b].tin][s] # "none" =>
                                       recipient[act'[b].tin][s] \notin act'[b].todo
                BY <3>2 DEF InsertsForNewcomers
            <4>1. CASE b = a
                BY <1>a, <3>1, <3>2, <3>3, <3>7, <4>1
            <4>2. CASE b # a
                <5>1. act'[b] = act[b] /\ act[b].tin \in Tins
                    BY <1>a, <3>2, <4>2 DEF ActivateReq, Idle
                <5> QED
                    BY <3>6, <5>1 DEF PayoutInv, InsertsForNewcomers
            <4> QED
                BY <4>1, <4>2
        <3>9. OneInserter'
            BY <1>a, <3>1, <3>2, <3>4 DEF PayoutInv, OneInserter
        <3>10. OnePayoutPerMember'
            BY <3>2 DEF PayoutInv, OnePayoutPerMember
        <3> QED
            BY <3>5, <3>8, <3>9, <3>10 DEF PayoutInv
    <2> QED
        BY <2>2, <2>3
<1>6. CASE ActivateRound(a)
    <2>1. act[a] \in ActivateReq /\ act[a].pc = "rounds"
        BY <1>6, <1>a DEF ActivateRound, Idle
    <2> DEFINE c0 == act[a].tin
    <2>2. PICK m \in act[a].todo :
            IF roundState[c0][act[a].plan[m]] = "none"
            THEN /\ roundState' = [roundState EXCEPT ![c0][act[a].plan[m]] = "scheduled"]
                 /\ recipient' = [recipient EXCEPT ![c0][act[a].plan[m]] = m]
                 /\ act' = [act EXCEPT ![a] = IF LastHolder(a, m) THEN Idle
                                     ELSE [act[a] EXCEPT !.todo = act[a].todo \ {m}]]
            ELSE /\ act' = [act EXCEPT ![a] = Idle]
                 /\ UNCHANGED <<roundState, recipient>>
        BY <1>6 DEF ActivateRound
    <2>3. UNCHANGED status
        BY <1>6 DEF ActivateRound
    <2> DEFINE s0 == act[a].plan[m]
    <2>4. CASE roundState[c0][s0] # "none"
        BY <1>1, <1>a, <2>2, <2>3, <2>4
    <2>5. CASE roundState[c0][s0] = "none"
        <3> DEFINE r == [act[a] EXCEPT !.todo = act[a].todo \ {m}]
        <3>1. /\ roundState' = [roundState EXCEPT ![c0][s0] = "scheduled"]
              /\ recipient' = [recipient EXCEPT ![c0][s0] = m]
              /\ act' = [act EXCEPT ![a] = Idle] \/ act' = [act EXCEPT ![a] = r]
            BY <2>2, <2>5
        <3>2. r.tin = c0 /\ r.todo = act[a].todo \ {m} /\ c0 \in Tins
            BY <2>1 DEF ActivateReq
        <3>3. status[c0] # "forming" /\ \A s \in Slots :
                  roundState[c0][s] # "none" => recipient[c0][s] \notin act[a].todo
            BY <2>1 DEF PayoutInv, InsertsForNewcomers
        <3>4. \A b \in Activators : b # a /\ act[b].pc = "rounds" => act[b].tin # c0
            BY <2>1 DEF PayoutInv, OneInserter
        <3> HIDE DEF r, c0, s0
        <3>5. \A c \in Tins : \A s \in Slots : c # c0 \/ s # s0 =>
                 roundState'[c][s] = roundState[c][s] /\ recipient'[c][s] = recipient[c][s]
            BY <1>b, <3>1, <3>2
        <3>6. s0 \in Slots => roundState'[c0][s0] = "scheduled" /\ recipient'[c0][s0] = m
            BY <1>b, <3>1, <3>2
        <3>7. NoRoundsWhileForming'
            BY <2>3, <3>3, <3>5 DEF PayoutInv, NoRoundsWhileForming
        <3>8. InsertsForNewcomers'
            <4> SUFFICES ASSUME NEW b \in Activators, act'[b].pc = "rounds"
                         PROVE  /\ status[act'[b].tin] # "forming"
                                /\ \A s \in Slots : roundState'[act'[b].tin][s] # "none" =>
                                       recipient'[act'[b].tin][s] \notin act'[b].todo
                BY <2>3 DEF InsertsForNewcomers
            <4>1. CASE b = a
                <5>1. act'[b] = r
                    BY <1>a, <3>1, <4>1
                <5> QED
                    BY <3>2, <3>3, <3>5, <3>6, <5>1
            <4>2. CASE b # a
                <5>1. act'[b] = act[b] /\ act[b].pc = "rounds"
                    BY <1>a, <3>1, <4>2
                <5>2. act[b].tin # c0 /\ act[b].tin \in Tins
                    BY <1>a, <3>4, <4>2, <5>1 DEF ActivateReq, Idle
                <5> QED
                    BY <3>5, <5>1, <5>2 DEF PayoutInv, InsertsForNewcomers
            <4> QED
                BY <4>1, <4>2
        <3>9. OneInserter'
            <4>1. \A b \in Activators : act'[b].pc = "rounds" =>
                     act[b].pc = "rounds" /\ act'[b].tin = act[b].tin
                BY <1>a, <2>1, <3>1, <3>2 DEF c0
            <4> QED
                BY <4>1 DEF PayoutInv, OneInserter
        <3>10. OnePayoutPerMember'
            <4> SUFFICES ASSUME NEW c \in Tins, NEW s \in Slots, NEW t \in Slots, s # t,
                                roundState'[c][s] # "none", roundState'[c][t] # "none"
                         PROVE  recipient'[c][s] # recipient'[c][t]
                BY DEF OnePayoutPerMember
            <4>1. CASE c # c0 \/ (s # s0 /\ t # s0)
                BY <3>5, <4>1 DEF PayoutInv, OnePayoutPerMember
            <4>2. CASE c = c0 /\ s = s0
                BY <2>2, <3>2, <3>3, <3>5, <3>6, <4>2
            <4>3. CASE c = c0 /\ t = s0
                BY <2>2, <3>2, <3>3, <3>5, <3>6, <4>3
            <4> QED
                BY <4>1, <4>2, <4>3
        <3> QED
            BY <3>7, <3>8, <3>9, <3>10 DEF PayoutInv
    <2> QED
        BY <2>4, <2>5
<1> QED
    BY <1>2, <1>3, <1>4, <1>5, <1>6 DEF ActivateStep

\* No circle has a round, and no activation is in flight, at the start.
LEMMA PayoutInit == Init => PayoutInv
<1> SUFFICES ASSUME Init PROVE PayoutInv
    OBVIOUS
<1>1. NoRoundsWhileForming /\ OnePayoutPerMember
    BY DEF Init, NoRoundsWhileForming, OnePayoutPerMember
<1>2. InsertsForNewcomers /\ OneInserter
    BY DEF Init, InsertsForNewcomers, OneInserter, Idle
<1> QED
    BY <1>1, <1>2, TypedInit DEF PayoutInv

\* So every step keeps the inductive invariant of the payouts.
LEMMA PayoutStep == PayoutInv /\ [Next]_vars => PayoutInv'
<1> SUFFICES ASSUME PayoutInv, [Next]_vars PROVE PayoutInv'
    OBVIOUS
<1>1. Typed /\ Typed'
    BY TypedStep DEF PayoutInv
<1>2. CASE \E a \in Activators : (\E c \in Tins : ActivateRead(a, c))
                                  \/ ActivateStep(a) \/ ActivateDies(a)
    BY <1>1, <1>2, ActivatePayout
<1>3. CASE \E o \in Openers : (\E c \in Tins : OpenNext(o, c) \/ OpenNone(o, c))
                               \/ OpenStep(o) \/ OpenDies(o)
    BY <1>1, <1>3, OpenFrame, FramePayout
<1>4. CASE UNCHANGED <<status, roundState, recipient, act>>
    <2>1. RosterFrame
        BY <1>4 DEF RosterFrame
    <2> QED
        BY <1>1, <2>1, FramePayout
<1>5. ASSUME NEW g \in Arrangers,
             \/ \E m \in Members : \E to, from \in Tins : ArrangeTins(g, m, to, from)
             \/ ArrangeStep(g) \/ ArrangeDies(g)
      PROVE  UNCHANGED <<status, roundState, recipient, act>>
    BY <1>5 DEF ArrangeTins, ArrangeStep, ArrangeDies, ArrangeAlready, ArrangeSlot, ArrangeSeat,
                ArrangeLeave, rows
<1>6. ASSUME NEW k \in Checkers, (\E m \in Members : CheckRead(k, m)) \/ CheckStep(k)
      PROVE  UNCHANGED <<status, roundState, recipient, act>>
    BY <1>6 DEF CheckRead, CheckStep, CheckAsk, CheckStamp, rows
<1>7. ASSUME \/ \E c \in Tins : \E m \in Members : Admit(c, m)
             \/ \E m \in Members : \E a \in Addresses \cup {NoAddress} : SetAddress(m, a)
             \/ \E m \in Members : GraceRunsOut(m)
             \/ \E a \in Addresses : ProveAddress(a)
             \/ UNCHANGED vars
      PROVE  UNCHANGED <<status, roundState, recipient, act>>
    BY <1>7 DEF Admit, SetAddress, GraceRunsOut, ProveAddress, vars, rows
<1> QED
    BY <1>2, <1>3, <1>4, <1>5, <1>6, <1>7 DEF Next

\* No member is the recipient of two rounds of one circle, for any number of
\* concurrent activations, drags and crashes: the flip from 'forming' lets
\* one activation through, and it inserts rounds for members who have none.
THEOREM PayoutsDistinct == Spec => []OnePayoutPerMember
<1>1. PayoutInv => OnePayoutPerMember
    BY DEF PayoutInv
<1> QED
    BY PayoutInit, PayoutStep, <1>1, PTL DEF Spec

-----------------------------------------------------------------------------
(* What opens rounds, what may never change once they are open, how many    *)
(* are open, and what they are owed.                                       *)

\* Every statement of one activation, and of one open-round request.
Activation(a) ==
    (\E c \in Tins : ActivateRead(a, c)) \/ ActivateStep(a) \/ ActivateDies(a)
Advance(o) ==
    (\E c \in Tins : OpenNext(o, c) \/ OpenNone(o, c)) \/ OpenStep(o) \/ OpenDies(o)

\* Nothing else writes a round or a circle's status, and an address once
\* proven stays so.
LEMMA StepKinds ==
    ASSUME [Next]_vars
    PROVE  \/ \E a \in Activators : Activation(a)
           \/ \E o \in Openers : Advance(o)
           \/ UNCHANGED <<status, rows, act, opn>> /\ proven \subseteq proven'
<1>1. ASSUME NEW g \in Arrangers,
             \/ \E m \in Members : \E to, from \in Tins : ArrangeTins(g, m, to, from)
             \/ ArrangeStep(g) \/ ArrangeDies(g)
      PROVE  UNCHANGED <<status, rows, act, opn>> /\ proven \subseteq proven'
    BY <1>1 DEF ArrangeTins, ArrangeStep, ArrangeDies, ArrangeAlready, ArrangeSlot, ArrangeSeat,
                ArrangeLeave, people
<1>2. ASSUME NEW k \in Checkers, (\E m \in Members : CheckRead(k, m)) \/ CheckStep(k)
      PROVE  UNCHANGED <<status, rows, act, opn>> /\ proven \subseteq proven'
    BY <1>2 DEF CheckRead, CheckStep, CheckAsk, CheckStamp, people
<1>3. ASSUME \/ \E c \in Tins : \E m \in Members : Admit(c, m)
             \/ \E m \in Members : \E a \in Addresses \cup {NoAddress} : SetAddress(m, a)
             \/ \E m \in Members : GraceRunsOut(m)
             \/ \E a \in Addresses : ProveAddress(a)
             \/ UNCHANGED vars
      PROVE  UNCHANGED <<status, rows, act, opn>> /\ proven \subseteq proven'
    BY <1>3 DEF Admit, SetAddress, GraceRunsOut, ProveAddress, vars, people
<1> QED
    BY <1>1, <1>2, <1>3 DEF Next, Activation, Advance

\* An activation leaves the open-round requests alone, and writes rounds only
\* by scheduling one where there was none.
LEMMA ActivationWrites ==
    ASSUME Typed, NEW a \in Activators, Activation(a)
    PROVE  /\ UNCHANGED <<snapshot, dues, warned, opn, proven, turn>>
           /\ \A c \in Tins : \A s \in Slots :
                 \/ roundState'[c][s] = roundState[c][s] /\ recipient'[c][s] = recipient[c][s]
                 \/ roundState[c][s] = "none" /\ roundState'[c][s] = "scheduled"
<1>1. CASE ActivateRound(a)
    <2>1. PICK m \in act[a].todo :
            \/ /\ roundState[act[a].tin][act[a].plan[m]] = "none"
               /\ roundState' = [roundState EXCEPT ![act[a].tin][act[a].plan[m]] = "scheduled"]
               /\ recipient' = [recipient EXCEPT ![act[a].tin][act[a].plan[m]] = m]
            \/ UNCHANGED <<roundState, recipient>>
        BY <1>1 DEF ActivateRound
    <2>2. /\ roundState \in [Tins -> [Slots -> {"none", "scheduled", "open", "completed"}]]
          /\ recipient \in [Tins -> [Slots -> Members \cup {NoMember}]]
        BY DEF Typed, TypeOK
    <2>3. UNCHANGED <<snapshot, dues, warned, opn, proven, turn>>
        BY <1>1 DEF ActivateRound, people
    <2> QED
        BY <2>1, <2>2, <2>3
<1>2. CASE (\E c \in Tins : ActivateRead(a, c)) \/ ActivateHolders(a) \/ ActivateFlip(a) \/ ActivateDies(a)
    BY <1>2 DEF ActivateRead, ActivateHolders, ActivateFlip, ActivateDies, rows, people
<1> QED
    BY <1>1, <1>2 DEF Activation, ActivateStep

\* Where the next statement of an open-round request finds it: what it carries
\* is what it carried, but for what this statement has just read.
LEMMA RequestMoves ==
    ASSUME Typed, NEW o \in Openers
    PROVE  /\ OpenRecipient(o) => \/ opn'[o].pc = "idle"
                                  \/ /\ opn'[o].pc = "verify"
                                     /\ opn'[o].tin = opn[o].tin /\ opn'[o].slot = opn[o].slot
           /\ OpenVerify(o) => /\ opn'[o].pc = "stamp"
                               /\ opn'[o].tin = opn[o].tin /\ opn'[o].slot = opn[o].slot
                               /\ opn'[o].addr = opn[o].addr
                               /\ opn'[o].verified => opn[o].addr \in proven
           /\ OpenStamp(o) => \/ opn'[o].pc = "idle"
                              \/ /\ opn'[o].pc = "open"
                                 /\ opn'[o].tin = opn[o].tin /\ opn'[o].slot = opn[o].slot
                                 /\ opn'[o].addr = opn[o].addr
                                 /\ opn'[o].verified = opn[o].verified
           /\ OpenRound(o) => \/ /\ opn'[o].pc = "idle"
                                 /\ UNCHANGED <<roundState, snapshot, warned>>
                              \/ /\ Scheduled(opn[o].tin, opn[o].slot)
                                 /\ opn'[o].pc = "others"
                                 /\ opn'[o].tin = opn[o].tin /\ opn'[o].slot = opn[o].slot
           /\ CompleteOthers(o) => /\ opn'[o].pc = "dues"
                                   /\ opn'[o].tin = opn[o].tin /\ opn'[o].slot = opn[o].slot
           /\ FinalRound(o) => \/ opn'[o].pc = "idle" /\ UNCHANGED roundState
                               \/ /\ IsOpen(opn[o].tin, opn[o].slot)
                                  /\ opn'[o].pc = "close" /\ opn'[o].tin = opn[o].tin
<1>a. opn \in [Openers -> OpenerReq] /\ opn[o] \in OpenerReq /\ Idle.pc = "idle"
    BY DEF Typed, TypeOK, OpenerReq, Idle
<1>1. OpenRecipient(o) => \/ opn'[o].pc = "idle"
                          \/ /\ opn'[o].pc = "verify"
                             /\ opn'[o].tin = opn[o].tin /\ opn'[o].slot = opn[o].slot
    <2> SUFFICES ASSUME OpenRecipient(o)
                 PROVE  \/ opn'[o].pc = "idle"
                        \/ /\ opn'[o].pc = "verify"
                           /\ opn'[o].tin = opn[o].tin /\ opn'[o].slot = opn[o].slot
        OBVIOUS
    <2> DEFINE m == recipient[opn[o].tin][opn[o].slot]
               r == [pc |-> "verify", tin |-> opn[o].tin, slot |-> opn[o].slot,
                     addr |-> payout[m], grace |-> m \in graced, verified |-> FALSE]
    <2>1. opn' = [opn EXCEPT ![o] = IF HasAddress(m) THEN r ELSE Idle]
        BY DEF OpenRecipient
    <2>2. r.pc = "verify" /\ r.tin = opn[o].tin /\ r.slot = opn[o].slot
        OBVIOUS
    <2> HIDE DEF r, m
    <2> QED
        BY <1>a, <2>1, <2>2
<1>2. OpenVerify(o) => /\ opn'[o].pc = "stamp"
                       /\ opn'[o].tin = opn[o].tin /\ opn'[o].slot = opn[o].slot
                       /\ opn'[o].addr = opn[o].addr
                       /\ opn'[o].verified => opn[o].addr \in proven
    <2> SUFFICES ASSUME OpenVerify(o)
                 PROVE  /\ opn'[o].pc = "stamp"
                        /\ opn'[o].tin = opn[o].tin /\ opn'[o].slot = opn[o].slot
                        /\ opn'[o].addr = opn[o].addr
                        /\ opn'[o].verified => opn[o].addr \in proven
        OBVIOUS
    <2>1. PICK ok \in GateAnswer(o) :
            opn' = [opn EXCEPT ![o] = [opn[o] EXCEPT !.pc = "stamp", !.verified = ok]]
        BY DEF OpenVerify
    <2>2. opn[o] \in OpenReq
        BY <1>a, OpenerFields DEF OpenVerify
    <2>3. ok => opn[o].addr \in proven
        BY DEF GateAnswer, VerifyAnswers
    <2> QED
        BY <1>a, <2>1, <2>2, <2>3 DEF OpenReq
<1>3. OpenStamp(o) => \/ opn'[o].pc = "idle"
                      \/ /\ opn'[o].pc = "open"
                         /\ opn'[o].tin = opn[o].tin /\ opn'[o].slot = opn[o].slot
                         /\ opn'[o].addr = opn[o].addr
                         /\ opn'[o].verified = opn[o].verified
    <2>1. OpenStamp(o) => opn[o] \in OpenReq
        BY <1>a, OpenerFields DEF OpenStamp
    <2>2. OpenStamp(o) => \/ opn' = [opn EXCEPT ![o] = [opn[o] EXCEPT !.pc = "open"]]
                          \/ opn' = [opn EXCEPT ![o] = Idle]
        BY DEF OpenStamp
    <2> QED
        BY <1>a, <2>1, <2>2 DEF OpenReq
<1>4. OpenRound(o) => \/ opn'[o].pc = "idle" /\ UNCHANGED <<roundState, snapshot, warned>>
                      \/ /\ Scheduled(opn[o].tin, opn[o].slot)
                         /\ opn'[o].pc = "others"
                         /\ opn'[o].tin = opn[o].tin /\ opn'[o].slot = opn[o].slot
    <2>1. OpenRound(o) => opn[o] \in OpenReq
        BY <1>a, OpenerFields DEF OpenRound
    <2>2. OpenRound(o) =>
            \/ /\ Scheduled(opn[o].tin, opn[o].slot)
               /\ opn' = [opn EXCEPT ![o] = [opn[o] EXCEPT !.pc = "others"]]
            \/ opn' = [opn EXCEPT ![o] = Idle] /\ UNCHANGED <<roundState, snapshot, warned>>
        BY DEF OpenRound, StillScheduled
    <2> QED
        BY <1>a, <2>1, <2>2 DEF OpenReq
<1>5. CompleteOthers(o) => /\ opn'[o].pc = "dues"
                           /\ opn'[o].tin = opn[o].tin /\ opn'[o].slot = opn[o].slot
    <2>1. CompleteOthers(o) => opn[o] \in OpenReq
        BY <1>a, OpenerFields DEF CompleteOthers
    <2>2. CompleteOthers(o) => opn' = [opn EXCEPT ![o] = [opn[o] EXCEPT !.pc = "dues"]]
        BY DEF CompleteOthers
    <2> QED
        BY <1>a, <2>1, <2>2 DEF OpenReq
<1>6. FinalRound(o) => \/ opn'[o].pc = "idle" /\ UNCHANGED roundState
                       \/ /\ IsOpen(opn[o].tin, opn[o].slot)
                          /\ opn'[o].pc = "close" /\ opn'[o].tin = opn[o].tin
    <2>1. FinalRound(o) => opn[o] \in CloseReq
        BY <1>a, OpenerFields DEF FinalRound
    <2>2. FinalRound(o) =>
            \/ /\ IsOpen(opn[o].tin, opn[o].slot)
               /\ opn' = [opn EXCEPT ![o] = [opn[o] EXCEPT !.pc = "close"]]
            \/ opn' = [opn EXCEPT ![o] = Idle] /\ UNCHANGED roundState
        BY DEF FinalRound
    <2> QED
        BY <1>a, <2>1, <2>2 DEF CloseReq
<1> QED
    BY <1>1, <1>2, <1>3, <1>4, <1>5, <1>6

\* An open-round request writes its own record; it opens rounds that were
\* scheduled, completes rounds that were open, and freezes an address or
\* writes a warning only where the round was still scheduled.
LEMMA AdvanceWrites ==
    ASSUME Typed, NEW o \in Openers, Advance(o)
    PROVE  /\ UNCHANGED <<recipient, act, turn, proven>>
           /\ \A p \in Openers : p # o => opn'[p] = opn[p]
           /\ \A c \in Tins : \A s \in Slots :
                 /\ \/ roundState'[c][s] = roundState[c][s]
                    \/ /\ Scheduled(c, s) /\ roundState'[c][s] = "open"
                       /\ OpenRound(o) /\ c = opn[o].tin /\ s = opn[o].slot
                    \/ IsOpen(c, s) /\ roundState'[c][s] = "completed"
                 /\ Scheduled(c, s) \/ snapshot'[c][s] = snapshot[c][s]
                 /\ Scheduled(c, s) \/ (<<c, s>> \in warned' <=> <<c, s>> \in warned)
<1>a. /\ roundState \in [Tins -> [Slots -> {"none", "scheduled", "open", "completed"}]]
      /\ snapshot \in [Tins -> [Slots -> Addresses \cup {NoAddress}]]
      /\ opn \in [Openers -> OpenerReq]
    BY DEF Typed, TypeOK, OpenerReq
<1>1. CASE FinalRound(o)
    <2>1. UNCHANGED <<recipient, act, turn, proven, snapshot, warned>>
        BY <1>1 DEF FinalRound, people
    <2>2. \A p \in Openers : p # o => opn'[p] = opn[p]
        BY <1>1, <1>a DEF FinalRound
    <2>3. \/ /\ IsOpen(opn[o].tin, opn[o].slot)
             /\ roundState' = [roundState EXCEPT ![opn[o].tin][opn[o].slot] = "completed"]
          \/ UNCHANGED roundState
        BY <1>1 DEF FinalRound
    <2> QED
        BY <1>a, <2>1, <2>2, <2>3 DEF IsOpen
<1>2. CASE OpenRound(o)
    <2> DEFINE c0 == opn[o].tin
               s0 == opn[o].slot
    <2>1. UNCHANGED <<recipient, act, turn, proven>>
        BY <1>2 DEF OpenRound, people
    <2>2. \A p \in Openers : p # o => opn'[p] = opn[p]
        BY <1>2, <1>a DEF OpenRound
    <2>3. \/ /\ Scheduled(c0, s0)
             /\ roundState' = [roundState EXCEPT ![c0][s0] = "open"]
             /\ snapshot' = [snapshot EXCEPT ![c0][s0] = opn[o].addr]
             /\ warned' = warned \/ warned' = warned \cup {<<c0, s0>>}
          \/ UNCHANGED <<roundState, snapshot, warned>>
        BY <1>2 DEF OpenRound, StillScheduled
    <2> HIDE DEF c0, s0
    <2>4. \A c \in Tins : \A s \in Slots :
                 /\ \/ roundState'[c][s] = roundState[c][s]
                    \/ /\ Scheduled(c, s) /\ roundState'[c][s] = "open"
                       /\ c = c0 /\ s = s0
                 /\ Scheduled(c, s) \/ snapshot'[c][s] = snapshot[c][s]
                 /\ Scheduled(c, s) \/ (<<c, s>> \in warned' <=> <<c, s>> \in warned)
        BY <1>a, <2>3
    <2> QED
        BY <1>2, <2>1, <2>2, <2>4 DEF c0, s0
<1>3. CASE CompleteOthers(o)
    <2>1. UNCHANGED <<recipient, act, turn, proven, snapshot, warned>>
        BY <1>3 DEF CompleteOthers, people
    <2>2. \A p \in Openers : p # o => opn'[p] = opn[p]
        BY <1>3, <1>a DEF CompleteOthers
    <2>3. \A c \in Tins : \A s \in Slots :
             roundState'[c][s] = IF c = opn[o].tin /\ Superseded(o, s)
                                 THEN "completed" ELSE roundState[c][s]
        BY <1>3, <1>a DEF CompleteOthers
    <2> QED
        BY <2>1, <2>2, <2>3 DEF Superseded
<1>4. CASE \/ \E c \in Tins : OpenNext(o, c) \/ OpenNone(o, c)
           \/ FinalPick(o) \/ FinalClose(o) \/ OpenRecipient(o) \/ OpenVerify(o)
           \/ OpenStamp(o) \/ InsertDues(o) \/ OpenDies(o)
    <2>1. UNCHANGED <<recipient, act, turn, proven, roundState, snapshot, warned>>
        BY <1>4 DEF OpenNext, OpenNone, FinalPick, FinalClose, OpenRecipient, OpenVerify, OpenStamp,
                    InsertDues, OpenDies, rows, people
    <2>2. \A p \in Openers : p # o => opn'[p] = opn[p]
        BY <1>4, <1>a DEF OpenNext, OpenNone, FinalPick, FinalClose, OpenRecipient, OpenVerify,
                          OpenStamp, InsertDues, OpenDies
    <2> QED
        BY <2>1, <2>2
<1> QED
    BY <1>1, <1>2, <1>3, <1>4 DEF Advance, OpenStep

-----------------------------------------------------------------------------
(* Anti-swap: what an open round promises is never rewritten.              *)

\* From the moment a round is open no statement of any request changes its
\* recipient or the address frozen for her, nor reopens a completed one
\* (open-round.ts: "the destination is fixed when the round opens").
THEOREM RecipientFixed == Spec => AntiSwap
<1>1. Typed /\ [Next]_vars =>
        [\A c \in Tins : \A s \in Slots : Opened(c, s) =>
          /\ Opened(c, s)'
          /\ snapshot'[c][s] = snapshot[c][s]
          /\ recipient'[c][s] = recipient[c][s]
          /\ ~ IsOpen(c, s) => ~ IsOpen(c, s)']_vars
    <2> SUFFICES ASSUME Typed, [Next]_vars, NEW c \in Tins, NEW s \in Slots, Opened(c, s)
                 PROVE  /\ Opened(c, s)'
                        /\ snapshot'[c][s] = snapshot[c][s]
                        /\ recipient'[c][s] = recipient[c][s]
                        /\ ~ IsOpen(c, s) => ~ IsOpen(c, s)'
        OBVIOUS
    <2> USE DEF Opened, IsOpen, Scheduled
    <2>1. ASSUME NEW a \in Activators, Activation(a)
          PROVE  /\ UNCHANGED snapshot
                 /\ roundState'[c][s] = roundState[c][s]
                 /\ recipient'[c][s] = recipient[c][s]
        BY <2>1, ActivationWrites
    <2>2. ASSUME NEW o \in Openers, Advance(o)
          PROVE  /\ Opened(c, s)'
                 /\ snapshot'[c][s] = snapshot[c][s]
                 /\ recipient'[c][s] = recipient[c][s]
                 /\ ~ IsOpen(c, s) => ~ IsOpen(c, s)'
        BY <2>2, AdvanceWrites
    <2> QED
        BY <2>1, <2>2, StepKinds DEF rows
<1> QED
    BY TypedInit, TypedStep, <1>1, PTL DEF Spec, AntiSwap

-----------------------------------------------------------------------------
(* A round opens without a warning only for an address Verify confirmed.   *)

\* Between Verify's answer and the opening the request carries the address it
\* asked about, whatever the member's row says by then.
ProvenWhenAnswered ==
    \A o \in Openers : opn[o].pc \in {"stamp", "open"} /\ opn[o].verified =>
        opn[o].addr \in proven
VerifiedInv == Typed /\ ProvenWhenAnswered /\ VerifiedBeforeOpen

\* At the start there is neither a request nor a round.
LEMMA VerifiedInit == Init => VerifiedInv
    BY TypedInit DEF Init, VerifiedInv, ProvenWhenAnswered, VerifiedBeforeOpen, Idle, Opened

\* A step of another kind, or of another request, keeps what a request carries.
LEMMA CarriedKept ==
    ASSUME VerifiedInv, NEW p \in Openers, opn'[p] = opn[p], proven \subseteq proven'
    PROVE  opn'[p].pc \in {"stamp", "open"} /\ opn'[p].verified => opn'[p].addr \in proven'
    BY DEF VerifiedInv, ProvenWhenAnswered

\* The address a request carries past Verify's answer is the one Verify was
\* asked about, and is what the round freezes.
LEMMA VerifiedStep == VerifiedInv /\ [Next]_vars => VerifiedInv'
<1> SUFFICES ASSUME VerifiedInv, [Next]_vars PROVE VerifiedInv'
    OBVIOUS
<1>t. Typed /\ Typed'
    BY TypedStep DEF VerifiedInv
<1>a. /\ snapshot \in [Tins -> [Slots -> Addresses \cup {NoAddress}]]
      /\ opn \in [Openers -> OpenerReq] /\ Idle.pc = "idle"
    BY <1>t DEF Typed, TypeOK, OpenerReq, Idle
<1>1. ASSUME NEW a \in Activators, Activation(a)
      PROVE  ProvenWhenAnswered' /\ VerifiedBeforeOpen'
    BY <1>1, <1>t, ActivationWrites DEF VerifiedInv, ProvenWhenAnswered, VerifiedBeforeOpen, Opened
<1>2. ASSUME NEW o \in Openers, Advance(o) PROVE ProvenWhenAnswered'
    <2> SUFFICES ASSUME NEW p \in Openers, opn'[p].pc \in {"stamp", "open"}, opn'[p].verified
                 PROVE  opn'[p].addr \in proven'
        BY DEF ProvenWhenAnswered
    <2>1. UNCHANGED proven /\ (p # o => opn'[p] = opn[p])
        BY <1>2, <1>t, AdvanceWrites
    <2>2. CASE p # o
        BY <2>1, <2>2, CarriedKept
    <2>3. CASE p = o /\ OpenVerify(o)
        BY <1>t, <2>1, <2>3, RequestMoves
    <2>4. CASE p = o /\ OpenStamp(o)
        <3>1. opn[o].pc = "stamp"
            BY <2>4 DEF OpenStamp
        <3> QED
            BY <1>t, <2>1, <2>4, <3>1, RequestMoves DEF VerifiedInv, ProvenWhenAnswered
    <2>5. CASE p = o /\ (OpenRecipient(o) \/ OpenRound(o) \/ CompleteOthers(o) \/ FinalRound(o))
        BY <1>t, <2>5, RequestMoves
    <2>6. CASE p = o /\ (\/ \E c \in Tins : OpenNext(o, c) \/ OpenNone(o, c)
                         \/ FinalPick(o) \/ FinalClose(o) \/ InsertDues(o) \/ OpenDies(o))
        BY <1>a, <2>6 DEF OpenNext, OpenNone, FinalPick, FinalClose, InsertDues, OpenDies
    <2> QED
        BY <1>2, <2>2, <2>3, <2>4, <2>5, <2>6 DEF Advance, OpenStep
<1>3. ASSUME NEW o \in Openers, Advance(o) PROVE VerifiedBeforeOpen'
    <2> SUFFICES ASSUME NEW c \in Tins, NEW s \in Slots, Opened(c, s)', <<c, s>> \notin warned'
                 PROVE  snapshot'[c][s] \in proven'
        BY DEF VerifiedBeforeOpen
    <2>1. CASE Opened(c, s)
        <3>1. snapshot'[c][s] = snapshot[c][s] /\ <<c, s>> \notin warned /\ proven' = proven
            BY <1>3, <1>t, <2>1, AdvanceWrites DEF Opened, Scheduled
        <3> QED
            BY <2>1, <3>1 DEF VerifiedInv, VerifiedBeforeOpen
    <2>2. CASE ~ Opened(c, s)
        <3>1. OpenRound(o) /\ c = opn[o].tin /\ s = opn[o].slot /\ roundState'[c][s] # roundState[c][s]
            BY <1>3, <1>t, <2>2, AdvanceWrites DEF Opened, IsOpen
        <3>2. /\ snapshot' = [snapshot EXCEPT ![c][s] = opn[o].addr]
              /\ warned' = IF opn[o].verified THEN warned ELSE warned \cup {<<c, s>>}
              /\ proven' = proven
            BY <3>1 DEF OpenRound, people
        <3>3. opn[o].verified /\ opn[o].pc = "open"
            BY <3>1, <3>2 DEF OpenRound
        <3> QED
            BY <1>a, <3>2, <3>3 DEF VerifiedInv, ProvenWhenAnswered
    <2> QED
        BY <2>1, <2>2
<1>4. ASSUME UNCHANGED <<status, rows, act, opn>>, proven \subseteq proven'
      PROVE  ProvenWhenAnswered' /\ VerifiedBeforeOpen'
    BY <1>4 DEF VerifiedInv, ProvenWhenAnswered, VerifiedBeforeOpen, Opened, rows
<1> QED
    BY <1>t, <1>1, <1>2, <1>3, <1>4, StepKinds DEF VerifiedInv

\* A round opened without the operator being warned pays to an address that
\* Verify has confirmed, for any interleaving of address changes, checks and
\* advances (open-round.ts asks Verify at the moment of opening).
THEOREM VerifiedOpenings == Spec => []VerifiedBeforeOpen
<1>1. VerifiedInv => VerifiedBeforeOpen
    BY DEF VerifiedInv
<1> QED
    BY VerifiedInit, VerifiedStep, <1>1, PTL DEF Spec

-----------------------------------------------------------------------------
(* Concurrent advances leave one round open behind them.                   *)

\* Two rounds of a circle are open together only while the request that opened
\* one of them has still to complete the others.
SweepPending ==
    ~ MayCrash => \A c \in Tins : \A s, t \in Slots :
        s # t /\ IsOpen(c, s) /\ IsOpen(c, t) =>
            \E o \in Openers : /\ opn[o].pc = "others" /\ opn[o].tin = c
                               /\ opn[o].slot \in {s, t}
SweepInv == Typed /\ SweepPending

\* No statement of a request leaves two open rounds with nobody to sweep them.
LEMMA SweepStep == SweepInv /\ [Next]_vars => SweepInv'
<1> SUFFICES ASSUME SweepInv, [Next]_vars PROVE SweepInv'
    OBVIOUS
<1>t. Typed /\ Typed'
    BY TypedStep DEF SweepInv
<1> SUFFICES ASSUME ~ MayCrash, NEW c \in Tins, NEW s \in Slots, NEW t \in Slots,
                    s # t, IsOpen(c, s)', IsOpen(c, t)'
             PROVE  \E o \in Openers : /\ opn'[o].pc = "others" /\ opn'[o].tin = c
                                       /\ opn'[o].slot \in {s, t}
    BY <1>t DEF SweepInv, SweepPending
<1>1. CASE IsOpen(c, s) /\ IsOpen(c, t)
    <2>1. PICK p \in Openers : /\ opn[p].pc = "others" /\ opn[p].tin = c
                               /\ opn[p].slot \in {s, t}
        BY <1>1 DEF SweepInv, SweepPending
    <2>2. CASE opn'[p] = opn[p]
        BY <2>1, <2>2
    <2>3. ASSUME Advance(p) PROVE FALSE
        <3>1. CompleteOthers(p)
            BY <2>1, <2>3 DEF Advance, OpenNext, OpenNone, OpenStep, FinalPick, FinalRound, FinalClose,
                              OpenRecipient, OpenVerify, OpenStamp, OpenRound, InsertDues, OpenDies
        <3>2. \A u \in Slots : Superseded(p, u) => roundState'[c][u] = "completed"
            BY <1>t, <2>1, <3>1 DEF CompleteOthers, Typed, TypeOK
        <3>3. Superseded(p, s) \/ Superseded(p, t)
            BY <1>1, <2>1 DEF Superseded
        <3> QED
            BY <3>2, <3>3 DEF IsOpen
    <2>4. Advance(p) \/ opn'[p] = opn[p]
        <3>1. ASSUME NEW a \in Activators, Activation(a) PROVE opn'[p] = opn[p]
            BY <1>t, <3>1, ActivationWrites
        <3>2. ASSUME NEW o \in Openers, Advance(o), o # p PROVE opn'[p] = opn[p]
            BY <1>t, <3>2, AdvanceWrites
        <3> QED
            BY <3>1, <3>2, StepKinds
    <2> QED
        BY <2>2, <2>3, <2>4
<1>2. CASE ~ (IsOpen(c, s) /\ IsOpen(c, t))
    <2>1. PICK u \in Slots : u \in {s, t} /\ ~ IsOpen(c, u) /\ IsOpen(c, u)'
        BY <1>2
    <2>2. ASSUME NEW a \in Activators, Activation(a) PROVE FALSE
        BY <1>t, <2>1, <2>2, ActivationWrites DEF IsOpen
    <2>3. ASSUME NEW o \in Openers, Advance(o)
          PROVE  opn'[o].pc = "others" /\ opn'[o].tin = c /\ opn'[o].slot = u
        <3>1. roundState[c][u] # "open" /\ roundState'[c][u] = "open"
            BY <2>1 DEF IsOpen
        <3>2. OpenRound(o) /\ c = opn[o].tin /\ u = opn[o].slot
            BY <1>t, <2>3, <3>1, AdvanceWrites DEF IsOpen
        <3> QED
            BY <1>t, <3>1, <3>2, RequestMoves
    <2>4. ASSUME UNCHANGED rows PROVE FALSE
        BY <2>1, <2>4 DEF IsOpen, rows
    <2> QED
        BY <2>1, <2>2, <2>3, <2>4, StepKinds
<1> QED
    BY <1>1, <1>2

\* As long as no request dies half way, a circle nobody is advancing has at
\* most one open round, however many advances ran at once (open-round.ts
\* completes every other open round of the circle after opening one).
THEOREM OneRoundOpen == Spec => []AtMostOneOpenAtRest
<1>1. Init => SweepInv
    BY TypedInit DEF Init, SweepInv, SweepPending, IsOpen
<1>2. SweepInv => AtMostOneOpenAtRest
    <2> SUFFICES ASSUME SweepInv, ~ MayCrash, NEW c \in Tins, AtRest(c),
                        NEW s \in Slots, NEW t \in Slots, IsOpen(c, s), IsOpen(c, t)
                 PROVE  s = t
        BY DEF AtMostOneOpenAtRest
    <2> QED
        BY DEF SweepInv, SweepPending, AtRest
<1> QED
    BY <1>1, <1>2, SweepStep, PTL DEF Spec

-----------------------------------------------------------------------------
(* Every round that was opened is billed.                                  *)

\* A round is billed by the time the request that opened it has ended.
BillPending ==
    ~ MayCrash /\ Arrangers = {} => \A c \in Tins : \A s \in Slots : Opened(c, s) =>
        \/ dues[c][s] = Owing(c, s)
        \/ \E o \in Openers : /\ opn[o].pc \in {"others", "dues"}
                              /\ opn[o].tin = c /\ opn[o].slot = s
BillInv == Typed /\ BillPending

\* An admission gives no turn: without drags the turn holders stay the same.
LEMMA HoldersStay ==
    ASSUME Typed, [Next]_vars, Arrangers = {}, NEW c \in Tins
    PROVE  TurnHolders(c)' = TurnHolders(c)
<1>1. ASSUME NEW d \in Tins, NEW m \in Members, Admit(d, m)
      PROVE  TurnHolders(c)' = TurnHolders(c)
    BY <1>1 DEF Admit, SeatFree, TurnHolders, NoTurn, Absent, Typed, TypeOK
<1>2. ASSUME UNCHANGED turn PROVE TurnHolders(c)' = TurnHolders(c)
    BY <1>2 DEF TurnHolders
<1>3. ASSUME NEW a \in Activators, Activation(a) PROVE UNCHANGED turn
    BY <1>3, ActivationWrites
<1>4. ASSUME NEW o \in Openers, Advance(o) PROVE UNCHANGED turn
    BY <1>4, AdvanceWrites
<1>5. ASSUME \/ \E m \in Members : \E a \in Addresses \cup {NoAddress} : SetAddress(m, a)
             \/ \E m \in Members : GraceRunsOut(m)
             \/ \E a \in Addresses : ProveAddress(a)
             \/ \E k \in Checkers : \E m \in Members : CheckRead(k, m)
             \/ \E k \in Checkers : CheckStep(k)
             \/ UNCHANGED vars
      PROVE  UNCHANGED turn
    BY <1>5 DEF SetAddress, GraceRunsOut, ProveAddress, CheckRead, CheckStep, CheckAsk, CheckStamp, vars
<1> QED
    BY <1>1, <1>2, <1>3, <1>4, <1>5 DEF Next, Activation, Advance

\* No statement leaves an opened round unbilled with nobody about to bill it.
LEMMA BillStep == BillInv /\ [Next]_vars => BillInv'
<1> SUFFICES ASSUME BillInv, [Next]_vars PROVE BillInv'
    OBVIOUS
<1>t. Typed /\ Typed'
    BY TypedStep DEF BillInv
<1> SUFFICES ASSUME ~ MayCrash, Arrangers = {}, NEW c \in Tins, NEW s \in Slots, Opened(c, s)'
             PROVE  \/ dues'[c][s] = Owing(c, s)'
                    \/ \E o \in Openers : /\ opn'[o].pc \in {"others", "dues"}
                                          /\ opn'[o].tin = c /\ opn'[o].slot = s
    BY <1>t DEF BillInv, BillPending
<1>h. TurnHolders(c)' = TurnHolders(c)
    BY <1>t, HoldersStay
<1>1. CASE ~ Opened(c, s)
    <2>1. ASSUME NEW a \in Activators, Activation(a) PROVE FALSE
        BY <1>t, <1>1, <2>1, ActivationWrites DEF Opened
    <2>2. ASSUME NEW o \in Openers, Advance(o)
          PROVE  opn'[o].pc = "others" /\ opn'[o].tin = c /\ opn'[o].slot = s
        <3>1. OpenRound(o) /\ c = opn[o].tin /\ s = opn[o].slot /\ roundState' # roundState
            BY <1>t, <1>1, <2>2, AdvanceWrites DEF Opened, IsOpen
        <3> QED
            BY <1>t, <3>1, RequestMoves
    <2>3. ASSUME UNCHANGED rows PROVE FALSE
        BY <1>1, <2>3 DEF Opened, rows
    <2> QED
        BY <2>1, <2>2, <2>3, StepKinds
<1>2. CASE Opened(c, s)
    <2>1. Owing(c, s)' = Owing(c, s)
        <3>1. recipient'[c][s] = recipient[c][s]
            BY <1>t, <1>2, ActivationWrites, AdvanceWrites, StepKinds DEF Opened, rows
        <3> QED
            BY <1>h, <3>1 DEF Owing
    <2>2. ASSUME NEW o \in Openers, InsertDues(o)
          PROVE  \/ dues'[c][s] = dues[c][s] /\ ~ (opn[o].tin = c /\ opn[o].slot = s)
                 \/ dues'[c][s] = Owing(c, s)
        <3>1. dues \in [Tins -> [Slots -> SUBSET Members]]
            BY <1>t DEF Typed, TypeOK
        <3>2. dues' = [dues EXCEPT ![opn[o].tin][opn[o].slot] = Owing(opn[o].tin, opn[o].slot)]
            BY <2>2 DEF InsertDues
        <3> QED
            BY <3>1, <3>2
    <2>3. dues'[c][s] = dues[c][s] \/ \E o \in Openers : InsertDues(o)
        <3>1. ASSUME NEW o \in Openers, Advance(o), ~ InsertDues(o) PROVE UNCHANGED dues
            BY <3>1 DEF Advance, OpenNext, OpenNone, OpenStep, FinalPick, FinalRound, FinalClose,
                        OpenRecipient, OpenVerify, OpenStamp, OpenRound, CompleteOthers, OpenDies, rows
        <3> QED
            BY <1>t, <3>1, ActivationWrites, StepKinds DEF rows
    <2>4. CASE dues[c][s] = Owing(c, s)
        BY <2>1, <2>2, <2>3, <2>4
    <2>5. ASSUME NEW p \in Openers, opn[p].pc \in {"others", "dues"}, opn[p].tin = c, opn[p].slot = s
          PROVE  \/ dues'[c][s] = Owing(c, s)
                 \/ /\ opn'[p].pc \in {"others", "dues"}
                    /\ opn'[p].tin = c /\ opn'[p].slot = s
        <3>1. ASSUME Advance(p) PROVE CompleteOthers(p) \/ InsertDues(p)
            BY <2>5, <3>1 DEF Advance, OpenNext, OpenNone, OpenStep, FinalPick, FinalRound, FinalClose,
                              OpenRecipient, OpenVerify, OpenStamp, OpenRound, OpenDies
        <3>2. CASE CompleteOthers(p)
            BY <1>t, <2>5, <3>2, RequestMoves
        <3>3. CASE InsertDues(p)
            BY <2>2, <2>5, <3>3
        <3>4. CASE opn'[p] = opn[p]
            BY <2>5, <3>4
        <3>5. Advance(p) \/ opn'[p] = opn[p]
            <4>1. ASSUME NEW a \in Activators, Activation(a) PROVE opn'[p] = opn[p]
                BY <1>t, <4>1, ActivationWrites
            <4>2. ASSUME NEW o \in Openers, Advance(o), o # p PROVE opn'[p] = opn[p]
                BY <1>t, <4>2, AdvanceWrites
            <4> QED
                BY <4>1, <4>2, StepKinds
        <3> QED
            BY <3>1, <3>2, <3>3, <3>4, <3>5
    <2> QED
        BY <1>2, <2>1, <2>4, <2>5 DEF BillInv, BillPending
<1> QED
    BY <1>1, <1>2

\* As long as no request dies half way and nobody is re-seated, every round
\* that was opened has left a contribution for each turn holder but its
\* recipient, and for no one else (open-round.ts, the INSERT ... SELECT).
THEOREM OpenedRoundsBilled == Spec => []DuesComplete
<1>1. Init => BillInv
    BY TypedInit DEF Init, BillInv, BillPending, Opened
<1>2. BillInv => DuesComplete
    <2> SUFFICES ASSUME BillInv, ~ MayCrash, Arrangers = {}, NEW c \in Tins, AtRest(c),
                        NEW s \in Slots, Opened(c, s)
                 PROVE  dues[c][s] = {m \in Members : turn[c][m] > NoTurn} \ {recipient[c][s]}
        BY DEF DuesComplete
    <2> QED
        BY DEF BillInv, BillPending, AtRest, Owing, TurnHolders
<1> QED
    BY <1>1, <1>2, BillStep, PTL DEF Spec

-----------------------------------------------------------------------------
(* Rotation implements RoundLifecycle: seen without its requests, seats and *)
(* addresses, every circle lives the plain life that module describes.      *)

\* Where the next statement of an activation finds it.
LEMMA ActivationMoves ==
    ASSUME Typed, NEW a \in Activators
    PROVE  /\ ActivateHolders(a) =>
                \/ act'[a].pc = "idle"
                \/ /\ act'[a].pc = "flip" /\ act'[a].plan = turn[act[a].tin]
                   /\ act'[a].todo = TurnHolders(act[a].tin) /\ act[a].tin \in Tins
           /\ ActivateFlip(a) =>
                \/ act'[a].pc = "idle"
                \/ /\ act'[a].pc = "rounds" /\ act'[a].tin = act[a].tin
                   /\ act'[a].plan = act[a].plan /\ act'[a].todo = act[a].todo
                   /\ status[act[a].tin] = "forming" /\ act[a].tin \in Tins
                   /\ UNCHANGED roundState
           /\ ActivateRound(a) =>
                /\ act[a].tin \in Tins
                /\ \/ act'[a].pc = "idle" /\ UNCHANGED <<roundState, recipient>>
                   \/ \E m \in act[a].todo :
                        /\ m \in Members
                        /\ \A n \in act[a].todo : act[a].plan[m] <= act[a].plan[n]
                        /\ roundState[act[a].tin][act[a].plan[m]] = "none"
                        /\ roundState' = [roundState EXCEPT ![act[a].tin][act[a].plan[m]] = "scheduled"]
                        /\ recipient' = [recipient EXCEPT ![act[a].tin][act[a].plan[m]] = m]
                        /\ \/ act'[a].pc = "idle"
                           \/ /\ act'[a].pc = "rounds" /\ act'[a].tin = act[a].tin
                              /\ act'[a].plan = act[a].plan
                              /\ act'[a].todo = act[a].todo \ {m}
<1>a. act \in [Activators -> ActivateReq \cup {Idle}] /\ Idle.pc = "idle"
    BY DEF Typed, TypeOK, Idle
<1>b. act[a].pc # "idle" => act[a] \in ActivateReq
    BY <1>a
<1>1. ASSUME ActivateHolders(a)
      PROVE  \/ act'[a].pc = "idle"
             \/ /\ act'[a].pc = "flip" /\ act'[a].plan = turn[act[a].tin]
                /\ act'[a].todo = TurnHolders(act[a].tin) /\ act[a].tin \in Tins
    <2> DEFINE r == [pc |-> "flip", tin |-> act[a].tin, plan |-> turn[act[a].tin],
                     todo |-> TurnHolders(act[a].tin)]
    <2>1. act' = [act EXCEPT ![a] = r] \/ act' = [act EXCEPT ![a] = Idle]
        BY <1>1 DEF ActivateHolders
    <2>2. /\ r.pc = "flip" /\ r.plan = turn[act[a].tin] /\ r.todo = TurnHolders(act[a].tin)
        OBVIOUS
    <2>3. act[a].tin \in Tins
        BY <1>1, <1>b DEF ActivateHolders, ActivateReq
    <2> HIDE DEF r
    <2> QED
        BY <1>a, <2>1, <2>2, <2>3
<1>2. ASSUME ActivateFlip(a)
      PROVE  \/ act'[a].pc = "idle"
             \/ /\ act'[a].pc = "rounds" /\ act'[a].tin = act[a].tin
                /\ act'[a].plan = act[a].plan /\ act'[a].todo = act[a].todo
                /\ status[act[a].tin] = "forming" /\ act[a].tin \in Tins
                /\ UNCHANGED roundState
    <2> DEFINE r == [act[a] EXCEPT !.pc = "rounds"]
    <2>1. act[a] \in ActivateReq
        BY <1>2, <1>b DEF ActivateFlip
    <2>2. /\ r.pc = "rounds" /\ r.tin = act[a].tin /\ r.plan = act[a].plan
          /\ r.todo = act[a].todo /\ act[a].tin \in Tins
        BY <2>1 DEF ActivateReq
    <2>3. \/ act' = [act EXCEPT ![a] = Idle]
          \/ act' = [act EXCEPT ![a] = r] /\ status[act[a].tin] = "forming"
        BY <1>2 DEF ActivateFlip, FlipWins
    <2>4. UNCHANGED roundState
        BY <1>2 DEF ActivateFlip, rows
    <2> HIDE DEF r
    <2> QED
        BY <1>a, <2>2, <2>3, <2>4
<1>3. ASSUME ActivateRound(a)
      PROVE  /\ act[a].tin \in Tins
             /\ \/ act'[a].pc = "idle" /\ UNCHANGED <<roundState, recipient>>
                \/ \E m \in act[a].todo :
                     /\ m \in Members
                     /\ \A n \in act[a].todo : act[a].plan[m] <= act[a].plan[n]
                     /\ roundState[act[a].tin][act[a].plan[m]] = "none"
                     /\ roundState' = [roundState EXCEPT ![act[a].tin][act[a].plan[m]] = "scheduled"]
                     /\ recipient' = [recipient EXCEPT ![act[a].tin][act[a].plan[m]] = m]
                     /\ \/ act'[a].pc = "idle"
                        \/ /\ act'[a].pc = "rounds" /\ act'[a].tin = act[a].tin
                           /\ act'[a].plan = act[a].plan
                           /\ act'[a].todo = act[a].todo \ {m}
    <2>1. act[a] \in ActivateReq /\ act[a].pc = "rounds"
        BY <1>3, <1>b DEF ActivateRound
    <2>2. PICK m \in act[a].todo :
            /\ NextInOrder(a, m)
            /\ \/ /\ roundState[act[a].tin][act[a].plan[m]] = "none"
                  /\ roundState' = [roundState EXCEPT ![act[a].tin][act[a].plan[m]] = "scheduled"]
                  /\ recipient' = [recipient EXCEPT ![act[a].tin][act[a].plan[m]] = m]
                  /\ \/ act' = [act EXCEPT ![a] = Idle]
                     \/ act' = [act EXCEPT ![a] = [act[a] EXCEPT !.todo = act[a].todo \ {m}]]
               \/ act' = [act EXCEPT ![a] = Idle] /\ UNCHANGED <<roundState, recipient>>
        BY <1>3 DEF ActivateRound
    <2> DEFINE r == [act[a] EXCEPT !.todo = act[a].todo \ {m}]
    <2>3. /\ r.pc = "rounds" /\ r.tin = act[a].tin /\ r.plan = act[a].plan
          /\ r.todo = act[a].todo \ {m}
        BY <2>1 DEF ActivateReq
    <2>4. m \in Members /\ act[a].tin \in Tins
        BY <2>1 DEF ActivateReq
    <2>5. act' = [act EXCEPT ![a] = r] => act'[a] = r
        BY <1>a
    <2>6. act' = [act EXCEPT ![a] = Idle] => act'[a].pc = "idle"
        BY <1>a
    <2> HIDE DEF r
    <2>7. CASE act' = [act EXCEPT ![a] = Idle] /\ UNCHANGED <<roundState, recipient>>
        BY <2>4, <2>6, <2>7
    <2>8. CASE ~ (act' = [act EXCEPT ![a] = Idle] /\ UNCHANGED <<roundState, recipient>>)
        <3>1. act'[a].pc = "idle" \/ act'[a] = r
            BY <2>2, <2>5, <2>6, <2>8 DEF r
        <3> QED
            BY <2>2, <2>3, <2>4, <2>8, <3>1 DEF NextInOrder
    <2> QED
        BY <2>7, <2>8
<1> QED
    BY <1>1, <1>2, <1>3

\* An activation writes its own record only.
LEMMA ActivationAlone ==
    ASSUME Typed, NEW a \in Activators, Activation(a), NEW b \in Activators, b # a
    PROVE  act'[b] = act[b]
    BY DEF Activation, ActivateStep, ActivateRead, ActivateHolders, ActivateFlip, ActivateRound,
           ActivateDies, Typed, TypeOK

-----------------------------------------------------------------------------
(* The order of the rounds.                                                *)

\* No two members hold the same turn; the plan an activation carries is such
\* an order; the rounds it has still to insert come after those there are; an
\* open-round request carries the earliest scheduled round; the request that
\* closes a circle has completed a round of it.
SeatsDistinct ==
    \A c \in Tins : \A m, n \in Members :
        m # n /\ turn[c][m] > NoTurn => turn[c][m] # turn[c][n]
PlanDistinct ==
    \A a \in Activators : act[a].pc \in {"flip", "rounds"} =>
        \A m \in act[a].todo :
            /\ act[a].plan[m] > NoTurn
            /\ \A n \in act[a].todo : m # n => act[a].plan[m] # act[a].plan[n]
InsertsAtTheEnd ==
    \A a \in Activators : act[a].pc = "rounds" =>
        \A s \in Slots : roundState[act[a].tin][s] # "none" =>
            \A m \in act[a].todo : s < act[a].plan[m]
OpensTheEarliest ==
    \A o \in Openers : opn[o].pc \in {"recipient", "verify", "stamp", "open"} =>
        \A t \in Slots : t < opn[o].slot => ~ Scheduled(opn[o].tin, t)
ClosesAfterAPayout ==
    \A o \in Openers : opn[o].pc = "close" =>
        \E s \in Slots : roundState[opn[o].tin][s] = "completed"
OrderInv ==
    /\ PayoutInv
    /\ SeatsDistinct
    /\ PlanDistinct
    /\ InsertsAtTheEnd
    /\ OpensTheEarliest
    /\ ClosesAfterAPayout

\* At the start the members hold distinct turns and nothing is in flight.
LEMMA OrderInit == Init => OrderInv
<1> SUFFICES ASSUME Init PROVE OrderInv
    OBVIOUS
<1>1. SeatsDistinct
    BY InitAssumption DEF Init, SeatsDistinct
<1>2. PlanDistinct /\ InsertsAtTheEnd /\ OpensTheEarliest /\ ClosesAfterAPayout
    BY DEF Init, PlanDistinct, InsertsAtTheEnd, OpensTheEarliest, ClosesAfterAPayout, Idle
<1> QED
    BY <1>1, <1>2, PayoutInit DEF OrderInv

\* The unique index on a circle's turns keeps them distinct (arrange.ts and
\* admitMember are the only writers of contract_members).
LEMMA SeatsStep ==
    ASSUME Typed, SeatsDistinct, [Next]_vars
    PROVE  SeatsDistinct'
<1>t. turn \in [Tins -> [Members -> Seats]] /\ arr \in [Arrangers -> ArrangeReq \cup {Idle}]
    BY DEF Typed, TypeOK
<1>1. ASSUME NEW c \in Tins, NEW m \in Members, Admit(c, m) PROVE SeatsDistinct'
    BY <1>t, <1>1 DEF Admit, SeatFree, SeatsDistinct, NoTurn, Absent
<1>2. ASSUME NEW g \in Arrangers, ArrangeSeat(g) PROVE SeatsDistinct'
    <2> DEFINE c0 == arr[g].to
               m0 == arr[g].member
               k0 == arr[g].slot
    <2>1. \/ UNCHANGED turn
          \/ SeatFree(c0, m0, k0) /\ turn' = [turn EXCEPT ![c0][m0] = k0]
        BY <1>2 DEF ArrangeSeat
    <2> HIDE DEF c0, m0, k0
    <2> QED
        BY <1>t, <2>1 DEF SeatsDistinct, SeatFree, NoTurn
<1>3. ASSUME NEW g \in Arrangers, ArrangeLeave(g) PROVE SeatsDistinct'
    BY <1>t, <1>3 DEF ArrangeLeave, SeatsDistinct, NoTurn, Absent
<1>4. ASSUME UNCHANGED turn PROVE SeatsDistinct'
    BY <1>4 DEF SeatsDistinct
<1>5. ASSUME NEW g \in Arrangers,
             \/ \E m \in Members : \E to, from \in Tins : ArrangeTins(g, m, to, from)
             \/ ArrangeAlready(g) \/ ArrangeSlot(g) \/ ArrangeDies(g)
      PROVE  UNCHANGED turn
    BY <1>5 DEF ArrangeTins, ArrangeAlready, ArrangeSlot, ArrangeDies
<1>6. ASSUME NEW a \in Activators, Activation(a) PROVE UNCHANGED turn
    BY <1>6, ActivationWrites
<1>7. ASSUME NEW o \in Openers, Advance(o) PROVE UNCHANGED turn
    BY <1>7, AdvanceWrites
<1>8. ASSUME \/ \E m \in Members : \E a \in Addresses \cup {NoAddress} : SetAddress(m, a)
             \/ \E m \in Members : GraceRunsOut(m)
             \/ \E a \in Addresses : ProveAddress(a)
             \/ \E k \in Checkers : \E m \in Members : CheckRead(k, m)
             \/ \E k \in Checkers : CheckStep(k)
             \/ UNCHANGED vars
      PROVE  UNCHANGED turn
    BY <1>8 DEF SetAddress, GraceRunsOut, ProveAddress, CheckRead, CheckStep, CheckAsk, CheckStamp, vars
<1> QED
    BY <1>1, <1>2, <1>3, <1>4, <1>5, <1>6, <1>7, <1>8 DEF Next, ArrangeStep, Activation, Advance

\* An activation carries the turns it read, and ticks members off.
LEMMA PlanStep ==
    ASSUME Typed, SeatsDistinct, PlanDistinct, [Next]_vars
    PROVE  PlanDistinct'
<1> SUFFICES ASSUME NEW b \in Activators, act'[b].pc \in {"flip", "rounds"}
             PROVE  \A m \in act'[b].todo :
                        /\ act'[b].plan[m] > NoTurn
                        /\ \A n \in act'[b].todo : m # n => act'[b].plan[m] # act'[b].plan[n]
    BY DEF PlanDistinct
<1>1. CASE act'[b] = act[b]
    BY <1>1 DEF PlanDistinct
<1>2. CASE Activation(b)
    <2>1. ASSUME NEW c \in Tins, ActivateRead(b, c) PROVE act'[b].todo = {}
        BY <2>1 DEF ActivateRead, Typed, TypeOK
    <2>2. CASE ActivateHolders(b)
        BY <2>2, ActivationMoves DEF SeatsDistinct, TurnHolders
    <2>3. CASE ActivateFlip(b)
        <3>1. act[b].pc = "flip"
            BY <2>3 DEF ActivateFlip
        <3> QED
            BY <2>3, <3>1, ActivationMoves DEF PlanDistinct
    <2>4. CASE ActivateRound(b)
        <3>1. act[b].pc = "rounds"
            BY <2>4 DEF ActivateRound
        <3>2. act'[b].plan = act[b].plan /\ act'[b].todo \subseteq act[b].todo
            BY <2>4, ActivationMoves
        <3> QED
            BY <3>1, <3>2 DEF PlanDistinct
    <2>5. CASE ActivateDies(b)
        BY <2>5 DEF ActivateDies, Typed, TypeOK, Idle
    <2> QED
        BY <1>2, <2>1, <2>2, <2>3, <2>4, <2>5 DEF Activation, ActivateStep
<1>3. Activation(b) \/ act'[b] = act[b]
    BY ActivationAlone, AdvanceWrites, StepKinds
<1> QED
    BY <1>1, <1>2, <1>3

\* Under the invariant, what an activation writes is the next round in order,
\* for a member of its list that has none.
LEMMA InsertsNext ==
    ASSUME OrderInv, NEW a \in Activators, ActivateRound(a)
    PROVE  \/ act'[a].pc = "idle" /\ UNCHANGED <<roundState, recipient>>
           \/ \E m \in act[a].todo :
                LET c == act[a].tin
                    s == act[a].plan[m]
                IN  /\ c \in Tins /\ s \in Slots /\ m \in Members
                    /\ status[c] # "forming"
                    /\ \A t \in Slots : roundState[c][t] # "none" => t < s /\ recipient[c][t] # m
                    /\ roundState[c][s] = "none"
                    /\ roundState' = [roundState EXCEPT ![c][s] = "scheduled"]
                    /\ recipient' = [recipient EXCEPT ![c][s] = m]
                    /\ \/ act'[a].pc = "idle"
                       \/ /\ act'[a].pc = "rounds" /\ act'[a].tin = c
                          /\ act'[a].plan = act[a].plan
                          /\ act'[a].todo = act[a].todo \ {m}
                          /\ \A n \in act'[a].todo : s < act[a].plan[n]
<1>t. Typed
    BY DEF OrderInv, PayoutInv
<1>1. act[a] \in ActivateReq /\ act[a].pc = "rounds"
    BY <1>t DEF ActivateRound, Typed, TypeOK, Idle
<1>2. CASE act'[a].pc = "idle" /\ UNCHANGED <<roundState, recipient>>
    BY <1>2
<1>3. CASE ~ (act'[a].pc = "idle" /\ UNCHANGED <<roundState, recipient>>)
    <2>1. PICK m \in act[a].todo :
                     /\ m \in Members
                     /\ \A n \in act[a].todo : act[a].plan[m] <= act[a].plan[n]
                     /\ roundState[act[a].tin][act[a].plan[m]] = "none"
                     /\ roundState' = [roundState EXCEPT ![act[a].tin][act[a].plan[m]] = "scheduled"]
                     /\ recipient' = [recipient EXCEPT ![act[a].tin][act[a].plan[m]] = m]
                     /\ \/ act'[a].pc = "idle"
                        \/ /\ act'[a].pc = "rounds" /\ act'[a].tin = act[a].tin
                           /\ act'[a].plan = act[a].plan
                           /\ act'[a].todo = act[a].todo \ {m}
        BY <1>t, <1>3, ActivationMoves
    <2>2. act[a].tin \in Tins /\ \A n \in act[a].todo : act[a].plan[n] \in Slots
        <3>1. act[a].tin \in Tins /\ act[a].todo \subseteq Members /\ act[a].plan \in [Members -> Seats]
            BY <1>1 DEF ActivateReq
        <3>2. \A n \in act[a].todo : act[a].plan[n] > NoTurn
            BY <1>1 DEF OrderInv, PlanDistinct
        <3> QED
            BY <3>1, <3>2, TurnAssumption DEF Seats, Slots, NoTurn, Absent
    <2>3. /\ status[act[a].tin] # "forming"
          /\ \A t \in Slots : roundState[act[a].tin][t] # "none" => recipient[act[a].tin][t] # m
        BY <1>1, <2>1 DEF OrderInv, PayoutInv, InsertsForNewcomers
    <2>4. \A t \in Slots : roundState[act[a].tin][t] # "none" => t < act[a].plan[m]
        BY <1>1, <2>1 DEF OrderInv, InsertsAtTheEnd
    <2>5. \A n \in act[a].todo \ {m} : act[a].plan[m] < act[a].plan[n]
        <3>1. \A n \in act[a].todo \ {m} : act[a].plan[m] # act[a].plan[n]
            BY <1>1, <2>1 DEF OrderInv, PlanDistinct
        <3> QED
            BY <2>1, <2>2, <3>1, TurnAssumption DEF Slots
    <2> QED
        BY <2>1, <2>2, <2>3, <2>4, <2>5
<1> QED
    BY <1>2, <1>3

\* The rounds an activation has still to insert come after those there are.
LEMMA InsertsStep ==
    ASSUME OrderInv, [Next]_vars
    PROVE  InsertsAtTheEnd'
<1>t. Typed
    BY DEF OrderInv, PayoutInv
<1>r. roundState \in [Tins -> [Slots -> {"none", "scheduled", "open", "completed"}]]
    BY <1>t DEF Typed, TypeOK
<1>k. ASSUME NEW b \in Activators, act'[b] = act[b], act[b].pc = "rounds",
             \A s \in Slots : roundState'[act[b].tin][s] # "none" => roundState[act[b].tin][s] # "none"
      PROVE  \A s \in Slots : roundState'[act'[b].tin][s] # "none" =>
                 \A m \in act'[b].todo : s < act'[b].plan[m]
    BY <1>k DEF OrderInv, InsertsAtTheEnd
<1>i. \A b \in Activators : act[b].pc = "rounds" => act[b].tin \in Tins
    BY <1>t DEF Typed, TypeOK, ActivateReq, Idle
<1>1. ASSUME NEW o \in Openers, Advance(o) PROVE InsertsAtTheEnd'
    <2>1. UNCHANGED act
        BY <1>t, <1>1, AdvanceWrites
    <2>2. \A c \in Tins : \A s \in Slots : roundState'[c][s] # "none" => roundState[c][s] # "none"
        BY <1>t, <1>1, AdvanceWrites DEF Scheduled, IsOpen
    <2> QED
        BY <1>i, <1>k, <2>1, <2>2 DEF InsertsAtTheEnd
<1>2. ASSUME UNCHANGED <<status, rows, act, opn>> PROVE InsertsAtTheEnd'
    BY <1>2 DEF OrderInv, InsertsAtTheEnd, rows
<1>3. ASSUME NEW a \in Activators, Activation(a) PROVE InsertsAtTheEnd'
    <2>1. CASE ActivateRound(a)
        <3>1. act[a].pc = "rounds"
            BY <2>1 DEF ActivateRound
        <3>2. CASE act'[a].pc = "idle" /\ UNCHANGED <<roundState, recipient>>
            BY <1>k, <1>t, <1>3, <3>2, ActivationAlone DEF InsertsAtTheEnd
        <3>3. CASE ~ (act'[a].pc = "idle" /\ UNCHANGED <<roundState, recipient>>)
            <4> DEFINE c0 == act[a].tin
            <4>1. PICK m \in act[a].todo :
                    /\ c0 \in Tins /\ act[a].plan[m] \in Slots
                    /\ \A t \in Slots : roundState[c0][t] # "none" => t < act[a].plan[m]
                    /\ roundState' = [roundState EXCEPT ![c0][act[a].plan[m]] = "scheduled"]
                    /\ \/ act'[a].pc = "idle"
                       \/ /\ act'[a].pc = "rounds" /\ act'[a].tin = c0
                          /\ act'[a].plan = act[a].plan
                          /\ \A n \in act'[a].todo : act[a].plan[n] \in Slots /\ act[a].plan[m] < act[a].plan[n]
                <5>1. \A n \in act[a].todo : act[a].plan[n] \in Slots
                    <6>1. act[a] \in ActivateReq
                        BY <1>t, <3>1 DEF Typed, TypeOK, Idle
                    <6>2. act[a].todo \subseteq Members /\ act[a].plan \in [Members -> Seats]
                        BY <6>1 DEF ActivateReq
                    <6>3. \A n \in act[a].todo : act[a].plan[n] > NoTurn
                        BY <3>1 DEF OrderInv, PlanDistinct
                    <6> QED
                        BY <6>2, <6>3, TurnAssumption DEF Seats, Slots, NoTurn, Absent
                <5> QED
                    BY <2>1, <3>3, <5>1, InsertsNext
            <4> DEFINE s0 == act[a].plan[m]
            <4>2. \A c \in Tins : \A s \in Slots :
                     (c # c0 \/ s # s0) => roundState'[c][s] = roundState[c][s]
                BY <1>r, <4>1
            <4>3. ASSUME act'[a].pc = "rounds"
                  PROVE  \A s \in Slots : roundState'[act'[a].tin][s] # "none" =>
                            \A n \in act'[a].todo : s < act'[a].plan[n]
                <5> SUFFICES ASSUME NEW s \in Slots, roundState'[c0][s] # "none",
                                    NEW n \in act'[a].todo
                             PROVE  s < act[a].plan[n]
                    BY <4>1, <4>3
                <5>1. s <= s0
                    <6>1. CASE s = s0
                        BY <4>1, <6>1 DEF Slots
                    <6>2. CASE s # s0
                        BY <4>1, <4>2, <6>2 DEF Slots
                    <6> QED
                        BY <6>1, <6>2
                <5> QED
                    BY <4>1, <4>3, <5>1, TurnAssumption DEF Slots
            <4>4. ASSUME NEW b \in Activators, b # a, act'[b].pc = "rounds"
                  PROVE  \A s \in Slots : roundState'[act'[b].tin][s] # "none" =>
                            \A n \in act'[b].todo : s < act'[b].plan[n]
                <5>1. act'[b] = act[b]
                    BY <1>t, <1>3, <4>4, ActivationAlone
                <5>2. act[b].tin # c0
                    BY <3>1, <4>4, <5>1 DEF OrderInv, PayoutInv, OneInserter
                <5>3. act[b].tin \in Tins
                    BY <1>i, <4>4, <5>1
                <5> QED
                    BY <1>k, <4>2, <4>4, <5>1, <5>2, <5>3
            <4> QED
                BY <4>3, <4>4 DEF InsertsAtTheEnd
        <3> QED
            BY <3>2, <3>3
    <2>2. CASE ActivateFlip(a)
        <3>1. UNCHANGED roundState
            BY <2>2 DEF ActivateFlip, rows
        <3>2. ASSUME act'[a].pc = "rounds"
              PROVE  \A s \in Slots : roundState'[act'[a].tin][s] = "none"
            <4>1. act'[a].tin = act[a].tin /\ status[act[a].tin] = "forming" /\ act[a].tin \in Tins
                BY <1>t, <2>2, <3>2, ActivationMoves
            <4> QED
                BY <3>1, <4>1 DEF OrderInv, PayoutInv, NoRoundsWhileForming
        <3> QED
            BY <1>k, <1>t, <1>3, <3>1, <3>2, ActivationAlone DEF InsertsAtTheEnd
    <2>3. CASE (\E c \in Tins : ActivateRead(a, c)) \/ ActivateHolders(a) \/ ActivateDies(a)
        <3>1. UNCHANGED roundState
            BY <2>3 DEF ActivateRead, ActivateHolders, ActivateDies, rows
        <3>2. act'[a].pc # "rounds"
            <4>1. ASSUME NEW c \in Tins, ActivateRead(a, c) PROVE act'[a].pc # "rounds"
                <5> DEFINE r == [pc |-> IF c \in TargetGroups THEN "flip" ELSE "holders", tin |-> c,
                                 plan |-> [m \in Members |-> Absent], todo |-> {}]
                <5>1. act' = [act EXCEPT ![a] = r] /\ r.pc # "rounds"
                    BY <4>1 DEF ActivateRead
                <5> HIDE DEF r
                <5> QED
                    BY <1>t, <5>1 DEF Typed, TypeOK
            <4>2. CASE ActivateHolders(a)
                BY <1>t, <4>2, ActivationMoves
            <4>3. CASE ActivateDies(a)
                BY <1>t, <4>3 DEF ActivateDies, Typed, TypeOK, Idle
            <4> QED
                BY <2>3, <4>1, <4>2, <4>3
        <3> QED
            BY <1>k, <1>t, <1>3, <3>1, <3>2, ActivationAlone DEF InsertsAtTheEnd
    <2> QED
        BY <1>3, <2>1, <2>2, <2>3 DEF Activation, ActivateStep
<1> QED
    BY <1>1, <1>2, <1>3, StepKinds

\* The round a request carries up to its opening stays the earliest scheduled
\* one: rounds are only ever added after those there are.
LEMMA EarliestStep ==
    ASSUME OrderInv, [Next]_vars
    PROVE  OpensTheEarliest'
<1>t. Typed
    BY DEF OrderInv, PayoutInv
<1>r. /\ roundState \in [Tins -> [Slots -> {"none", "scheduled", "open", "completed"}]]
      /\ opn \in [Openers -> OpenerReq]
    BY <1>t DEF Typed, TypeOK, OpenerReq
<1> SUFFICES ASSUME NEW p \in Openers, opn'[p].pc \in {"recipient", "verify", "stamp", "open"},
                    NEW t \in Slots, t < opn'[p].slot,
                    roundState'[opn'[p].tin][t] = "scheduled"
             PROVE  FALSE
    BY DEF OpensTheEarliest, Scheduled
<1>1. ASSUME Advance(p) PROVE FALSE
    <2>1. ASSUME NEW c \in Tins, OpenNext(p, c) PROVE FALSE
        <3>1. PICK s \in Slots :
                /\ \A u \in Slots : u < s => ~ Scheduled(c, u)
                /\ opn' = [opn EXCEPT ![p] = [pc |-> "recipient", tin |-> c, slot |-> s]]
            BY <2>1 DEF OpenNext
        <3>2. opn'[p].tin = c /\ opn'[p].slot = s
            BY <1>r, <3>1
        <3>3. UNCHANGED roundState
            BY <2>1 DEF OpenNext, rows
        <3> QED
            BY <3>1, <3>2, <3>3 DEF Scheduled
    <2>2. CASE OpenRecipient(p) \/ OpenVerify(p) \/ OpenStamp(p)
        <3>1. opn'[p].tin = opn[p].tin /\ opn'[p].slot = opn[p].slot
            BY <1>t, <2>2, RequestMoves
        <3>2. opn[p].pc \in {"recipient", "verify", "stamp"} /\ UNCHANGED roundState
            BY <2>2 DEF OpenRecipient, OpenVerify, OpenStamp, rows
        <3> QED
            BY <3>1, <3>2 DEF OrderInv, OpensTheEarliest, Scheduled
    <2>3. CASE OpenRound(p) \/ CompleteOthers(p) \/ FinalRound(p)
        BY <1>t, <2>3, RequestMoves
    <2>4. CASE (\E c \in Tins : OpenNone(p, c)) \/ FinalPick(p) \/ FinalClose(p)
               \/ InsertDues(p) \/ OpenDies(p)
        BY <1>r, <2>4 DEF OpenNone, FinalPick, FinalClose, InsertDues, OpenDies, Idle
    <2> QED
        BY <1>1, <2>1, <2>2, <2>3, <2>4 DEF Advance, OpenStep
<1>2. CASE opn'[p] = opn[p]
    <2>1. opn[p].tin \in Tins /\ opn[p].slot \in Slots
        <3>1. opn[p] \in PickReq \cup OpenReq
            BY <1>2, <1>r, OpenerFields
        <3> QED
            BY <3>1 DEF PickReq, OpenReq
    <2>2. roundState[opn[p].tin][opn[p].slot] # "none"
        BY <1>2, <1>t DEF Typed, PickKnown
    <2>3. roundState[opn[p].tin][t] # "scheduled" /\ roundState'[opn[p].tin][t] = "scheduled"
        BY <1>2 DEF OrderInv, OpensTheEarliest, Scheduled
    <2>4. ASSUME NEW o \in Openers, Advance(o) PROVE FALSE
        BY <1>t, <2>1, <2>3, <2>4, AdvanceWrites
    <2>5. ASSUME NEW a \in Activators, Activation(a) PROVE FALSE
        <3>1. ActivateRound(a)
            BY <2>1, <2>3, <2>5 DEF Activation, ActivateStep, ActivateRead, ActivateHolders, ActivateFlip,
                                   ActivateDies, rows
        <3>2. PICK m \in act[a].todo :
                /\ act[a].plan[m] \in Slots
                /\ \A u \in Slots : roundState[act[a].tin][u] # "none" => u < act[a].plan[m]
                /\ roundState' = [roundState EXCEPT ![act[a].tin][act[a].plan[m]] = "scheduled"]
            BY <2>3, <3>1, InsertsNext
        <3>3. act[a].tin = opn[p].tin /\ act[a].plan[m] = t
            BY <1>r, <2>1, <2>3, <3>2
        <3> QED
            BY <1>2, <2>1, <2>2, <3>2, <3>3 DEF Slots
    <2> QED
        BY <2>3, <2>4, <2>5, StepKinds DEF rows
<1>3. Advance(p) \/ opn'[p] = opn[p]
    BY <1>t, ActivationWrites, AdvanceWrites, StepKinds
<1> QED
    BY <1>1, <1>2, <1>3

\* The request that closes a circle has just completed a round of it.
LEMMA ClosesStep ==
    ASSUME OrderInv, [Next]_vars
    PROVE  ClosesAfterAPayout'
<1>t. Typed
    BY DEF OrderInv, PayoutInv
<1>r. /\ roundState \in [Tins -> [Slots -> {"none", "scheduled", "open", "completed"}]]
      /\ opn \in [Openers -> OpenerReq] /\ Idle.pc = "idle"
    BY <1>t DEF Typed, TypeOK, OpenerReq, Idle
<1>c. \A c \in Tins : \A s \in Slots : roundState[c][s] = "completed" => roundState'[c][s] = "completed"
    BY <1>t, ActivationWrites, AdvanceWrites, StepKinds DEF rows, IsOpen, Scheduled
<1> SUFFICES ASSUME NEW p \in Openers, opn'[p].pc = "close"
             PROVE  \E s \in Slots : roundState'[opn'[p].tin][s] = "completed"
    BY DEF ClosesAfterAPayout
<1>1. CASE Advance(p)
    <2>1. CASE FinalRound(p)
        <3>1. opn[p] \in CloseReq
            BY <1>r, <2>1, OpenerFields DEF FinalRound
        <3>2. opn'[p].tin = opn[p].tin /\ IsOpen(opn[p].tin, opn[p].slot)
            BY <1>t, <2>1, RequestMoves
        <3>3. roundState' = [roundState EXCEPT ![opn[p].tin][opn[p].slot] = "completed"]
            BY <2>1, <3>2 DEF FinalRound
        <3> QED
            BY <1>r, <3>1, <3>2, <3>3 DEF CloseReq
    <2>2. CASE OpenRecipient(p) \/ OpenVerify(p) \/ OpenStamp(p) \/ OpenRound(p) \/ CompleteOthers(p)
        BY <1>t, <2>2, RequestMoves
    <2>3. CASE (\E c \in Tins : OpenNext(p, c) \/ OpenNone(p, c)) \/ FinalPick(p) \/ FinalClose(p)
               \/ InsertDues(p) \/ OpenDies(p)
        BY <1>r, <2>3 DEF OpenNext, OpenNone, FinalPick, FinalClose, InsertDues, OpenDies
    <2> QED
        BY <1>1, <2>1, <2>2, <2>3 DEF Advance, OpenStep
<1>2. CASE opn'[p] = opn[p]
    <2>1. opn[p] \in CloseReq
        BY <1>2, <1>r, OpenerFields
    <2>2. opn[p].tin \in Tins
        BY <2>1 DEF CloseReq
    <2>3. PICK s \in Slots : roundState[opn[p].tin][s] = "completed"
        BY <1>2 DEF OrderInv, ClosesAfterAPayout
    <2> QED
        BY <1>2, <1>c, <2>2, <2>3
<1>3. Advance(p) \/ opn'[p] = opn[p]
    BY <1>t, ActivationWrites, AdvanceWrites, StepKinds
<1> QED
    BY <1>1, <1>2, <1>3

\* So every step keeps the order of the rounds.
LEMMA OrderStep == OrderInv /\ [Next]_vars => OrderInv'
<1> SUFFICES ASSUME OrderInv, [Next]_vars PROVE OrderInv'
    OBVIOUS
<1>1. PayoutInv' /\ Typed
    BY PayoutStep DEF OrderInv, PayoutInv
<1>2. SeatsDistinct' /\ PlanDistinct'
    BY <1>1, SeatsStep, PlanStep DEF OrderInv
<1>3. InsertsAtTheEnd' /\ OpensTheEarliest' /\ ClosesAfterAPayout'
    BY InsertsStep, EarliestStep, ClosesStep
<1> QED
    BY <1>1, <1>2, <1>3 DEF OrderInv

-----------------------------------------------------------------------------
(* Every step is a step of the plain life of a circle, or a stutter.       *)

\* The flip activates a circle; an INSERT schedules its next round.
LEMMA ActivationMaps ==
    ASSUME OrderInv, NEW a \in Activators, Activation(a)
    PROVE  [Lifecycle!Next]_Lifecycle!vars
<1>t. Typed
    BY DEF OrderInv, PayoutInv
<1>1. CASE ActivateFlip(a)
    <2> DEFINE c0 == act[a].tin
    <2>1. c0 \in Tins
        <3>1. act[a] \in ActivateReq
            BY <1>t, <1>1 DEF ActivateFlip, Typed, TypeOK, Idle
        <3> QED
            BY <3>1 DEF ActivateReq
    <2>2. /\ UNCHANGED <<roundState, recipient>>
          /\ \/ status[c0] = "forming" /\ status' = [status EXCEPT ![c0] = "active"]
             \/ UNCHANGED status
        BY <1>1 DEF ActivateFlip, FlipWins, rows
    <2> HIDE DEF c0
    <2>3. Lifecycle!Activate(c0) \/ UNCHANGED <<status, roundState, recipient>>
        BY <2>2 DEF Lifecycle!Activate
    <2> QED
        BY <2>1, <2>3 DEF Lifecycle!Next, Lifecycle!vars
<1>2. CASE ActivateRound(a)
    <2>1. UNCHANGED status
        BY <1>2 DEF ActivateRound
    <2>2. CASE UNCHANGED <<roundState, recipient>>
        BY <2>1, <2>2 DEF Lifecycle!vars
    <2>3. CASE ~ UNCHANGED <<roundState, recipient>>
        <3> DEFINE c0 == act[a].tin
        <3>1. PICK m \in act[a].todo :
                /\ c0 \in Tins /\ act[a].plan[m] \in Slots /\ m \in Members
                /\ status[c0] # "forming"
                /\ \A t \in Slots : roundState[c0][t] # "none" =>
                       t < act[a].plan[m] /\ recipient[c0][t] # m
                /\ roundState[c0][act[a].plan[m]] = "none"
                /\ roundState' = [roundState EXCEPT ![c0][act[a].plan[m]] = "scheduled"]
                /\ recipient' = [recipient EXCEPT ![c0][act[a].plan[m]] = m]
            BY <1>2, <2>3, InsertsNext
        <3>2. Lifecycle!Schedule(c0, act[a].plan[m], m)
            BY <2>1, <3>1 DEF Lifecycle!Schedule, Lifecycle!Slots, Slots
        <3> QED
            BY <3>1, <3>2 DEF Lifecycle!Next, Lifecycle!Slots, Slots
    <2> QED
        BY <2>2, <2>3
<1>3. CASE (\E c \in Tins : ActivateRead(a, c)) \/ ActivateHolders(a) \/ ActivateDies(a)
    BY <1>3 DEF ActivateRead, ActivateHolders, ActivateDies, rows, Lifecycle!vars
<1> QED
    BY <1>1, <1>2, <1>3 DEF Activation, ActivateStep

\* The guarded UPDATEs of open-round open the next round, complete open ones,
\* and close the circle.
LEMMA AdvanceMaps ==
    ASSUME OrderInv, NEW o \in Openers, Advance(o)
    PROVE  [Lifecycle!Next]_Lifecycle!vars
<1>t. Typed
    BY DEF OrderInv, PayoutInv
<1>r. /\ roundState \in [Tins -> [Slots -> {"none", "scheduled", "open", "completed"}]]
      /\ status \in [Tins -> {"forming", "active", "completed"}]
      /\ opn \in [Openers -> OpenerReq]
    BY <1>t DEF Typed, TypeOK, OpenerReq
<1> USE DEF Lifecycle!Slots, Slots, Lifecycle!vars
<1> DEFINE c0 == opn[o].tin
           s0 == opn[o].slot
<1>1. CASE OpenRound(o)
    <2>1. opn[o].pc = "open" /\ opn[o] \in OpenReq
        BY <1>1, <1>r, OpenerFields DEF OpenRound
    <2>2. c0 \in Tins /\ s0 \in Slots
        BY <2>1 DEF OpenReq
    <2>3. \A t \in Slots : t < s0 => roundState[c0][t] # "scheduled"
        BY <2>1 DEF OrderInv, OpensTheEarliest, Scheduled
    <2>4. /\ UNCHANGED <<status, recipient>>
          /\ \/ /\ roundState[c0][s0] = "scheduled"
                /\ roundState' = [roundState EXCEPT ![c0][s0] = "open"]
             \/ UNCHANGED roundState
        BY <1>1 DEF OpenRound, StillScheduled, Scheduled
    <2> HIDE DEF c0, s0
    <2>5. Lifecycle!Open(c0, s0) \/ UNCHANGED <<status, roundState, recipient>>
        BY <2>3, <2>4 DEF Lifecycle!Open
    <2> QED
        BY <2>2, <2>5 DEF Lifecycle!Next
<1>2. CASE CompleteOthers(o)
    <2>1. c0 \in Tins
        <3>1. opn[o] \in OpenReq
            BY <1>2, <1>r, OpenerFields DEF CompleteOthers
        <3> QED
            BY <3>1 DEF OpenReq
    <2> DEFINE S == {s \in Slots : Superseded(o, s)}
    <2>2. /\ UNCHANGED <<status, recipient>>
          /\ roundState' = [roundState EXCEPT ![c0] =
                              [s \in Slots |-> IF s \in S THEN "completed" ELSE roundState[c0][s]]]
        BY <1>2 DEF CompleteOthers
    <2>3. S \in SUBSET Slots /\ \A s \in S : roundState[c0][s] = "open"
        BY DEF Superseded, IsOpen
    <2> HIDE DEF S, c0
    <2>4. Lifecycle!Complete(c0, S)
        BY <2>2, <2>3 DEF Lifecycle!Complete
    <2> QED
        BY <2>1, <2>3, <2>4 DEF Lifecycle!Next
<1>3. CASE FinalRound(o)
    <2>1. c0 \in Tins /\ s0 \in Slots
        <3>1. opn[o] \in CloseReq
            BY <1>3, <1>r, OpenerFields DEF FinalRound
        <3> QED
            BY <3>1 DEF CloseReq
    <2>2. /\ UNCHANGED <<status, recipient>>
          /\ \/ /\ roundState[c0][s0] = "open"
                /\ roundState' = [roundState EXCEPT ![c0][s0] = "completed"]
             \/ UNCHANGED roundState
        BY <1>3 DEF FinalRound, IsOpen
    <2> HIDE DEF c0, s0
    <2>3. CASE UNCHANGED roundState
        BY <2>2, <2>3
    <2>4. CASE /\ roundState[c0][s0] = "open"
               /\ roundState' = [roundState EXCEPT ![c0][s0] = "completed"]
        <3> DEFINE row == [s \in Slots |-> IF s \in {s0} THEN "completed" ELSE roundState[c0][s]]
        <3>1. roundState' = [roundState EXCEPT ![c0] = row]
            <4>1. [roundState[c0] EXCEPT ![s0] = "completed"] = row
                BY <1>r, <2>1
            <4>2. roundState' = [roundState EXCEPT ![c0] = [roundState[c0] EXCEPT ![s0] = "completed"]]
                BY <2>4, <1>r, <2>1
            <4> HIDE DEF row
            <4> QED
                BY <4>1, <4>2
        <3>2. Lifecycle!Complete(c0, {s0})
            BY <2>2, <2>4, <3>1 DEF Lifecycle!Complete
        <3>3. {s0} \in SUBSET Slots
            BY <2>1
        <3> QED
            BY <2>1, <3>2, <3>3 DEF Lifecycle!Next
    <2> QED
        BY <2>2, <2>3, <2>4
<1>4. CASE FinalClose(o)
    <2>1. opn[o].pc = "close" /\ c0 \in Tins
        <3>1. opn[o].pc = "close" /\ opn[o] \in CloseReq
            BY <1>4, <1>r, OpenerFields DEF FinalClose
        <3> QED
            BY <3>1 DEF CloseReq
    <2>2. \E s \in Slots : roundState[c0][s] = "completed"
        BY <2>1 DEF OrderInv, ClosesAfterAPayout
    <2>3. /\ UNCHANGED <<roundState, recipient>>
          /\ status' = [status EXCEPT ![c0] = IF status[c0] = "active" THEN "completed" ELSE status[c0]]
        BY <1>4 DEF FinalClose, rows
    <2> HIDE DEF c0
    <2>4. CASE status[c0] = "active"
        <3>1. Lifecycle!Finish(c0)
            BY <2>2, <2>3, <2>4 DEF Lifecycle!Finish
        <3> QED
            BY <2>1, <3>1 DEF Lifecycle!Next
    <2>5. CASE status[c0] # "active"
        <3>1. UNCHANGED status
            BY <1>r, <2>3, <2>5
        <3> QED
            BY <2>3, <3>1
    <2> QED
        BY <2>4, <2>5
<1>5. CASE \/ \E c \in Tins : OpenNext(o, c) \/ OpenNone(o, c)
           \/ FinalPick(o) \/ OpenRecipient(o) \/ OpenVerify(o) \/ OpenStamp(o)
           \/ InsertDues(o) \/ OpenDies(o)
    BY <1>5 DEF OpenNext, OpenNone, FinalPick, OpenRecipient, OpenVerify, OpenStamp, InsertDues,
                OpenDies, rows
<1> QED
    BY <1>1, <1>2, <1>3, <1>4, <1>5 DEF Advance, OpenStep

\* Rotation implements the plain life of a circle: activated once, its rounds
\* scheduled in slot order for distinct members, opened in that order,
\* completed, and closed only after a payout, whatever requests, drags,
\* crashes and address changes come between.
THEOREM RotationImplements == Spec => Refinement
<1>1. Init => Lifecycle!Init
    BY DEF Init, Lifecycle!Init, Lifecycle!Slots, Slots
<1>2. OrderInv /\ [Next]_vars => [Lifecycle!Next]_Lifecycle!vars
    <2> SUFFICES ASSUME OrderInv, [Next]_vars PROVE [Lifecycle!Next]_Lifecycle!vars
        OBVIOUS
    <2>1. CASE UNCHANGED <<status, rows, act, opn>>
        BY <2>1 DEF rows, Lifecycle!vars
    <2> QED
        BY <2>1, ActivationMaps, AdvanceMaps, StepKinds
<1> QED
    BY OrderInit, OrderStep, <1>1, <1>2, PTL DEF Spec, Refinement, Lifecycle!Spec

-----------------------------------------------------------------------------
(* The lock is enough: an activation that wins it inserts all it counted.  *)

\* Whom an activation counted is still on its list, or has had her round
\* inserted in her slot.
CountedServed ==
    \A a \in Activators : act[a].pc \in {"flip", "rounds"} =>
        \A m \in Members : act[a].plan[m] > NoTurn =>
            \/ m \in act[a].todo
            \/ /\ act[a].pc = "rounds"
               /\ roundState[act[a].tin][act[a].plan[m]] # "none"
               /\ recipient[act[a].tin][act[a].plan[m]] = m

\* A round that exists keeps its recipient.
LEMMA RecipientKept ==
    ASSUME Typed, [Next]_vars, NEW c \in Tins, NEW s \in Slots, roundState[c][s] # "none"
    PROVE  roundState'[c][s] # "none" /\ recipient'[c][s] = recipient[c][s]
<1>1. ASSUME NEW a \in Activators, Activation(a)
      PROVE  roundState'[c][s] # "none" /\ recipient'[c][s] = recipient[c][s]
    BY <1>1, ActivationWrites
<1>2. ASSUME NEW o \in Openers, Advance(o)
      PROVE  roundState'[c][s] # "none" /\ recipient'[c][s] = recipient[c][s]
    BY <1>2, AdvanceWrites
<1> QED
    BY <1>1, <1>2, StepKinds DEF rows

\* The seats and the list an activation carries are well formed.
LEMMA PlanSlots ==
    ASSUME Typed, NEW a \in Activators, act[a].pc # "idle"
    PROVE  /\ act[a].tin \in Tins /\ act[a].todo \subseteq Members
           /\ \A m \in Members : act[a].plan[m] > NoTurn => act[a].plan[m] \in Slots
<1>1. act[a] \in ActivateReq
    BY DEF Typed, TypeOK, Idle
<1> QED
    BY <1>1, TurnAssumption DEF ActivateReq, Seats, Slots, NoTurn, Absent

\* No statement of any request takes a woman off an activation's list but the
\* INSERT of her round.
LEMMA CountedStep ==
    ASSUME OrderInv, CountedServed, [Next]_vars
    PROVE  CountedServed'
<1>t. Typed
    BY DEF OrderInv, PayoutInv
<1> SUFFICES ASSUME NEW b \in Activators, act'[b].pc \in {"flip", "rounds"},
                    NEW m \in Members, act'[b].plan[m] > NoTurn
             PROVE  \/ m \in act'[b].todo
                    \/ /\ act'[b].pc = "rounds"
                       /\ roundState'[act'[b].tin][act'[b].plan[m]] # "none"
                       /\ recipient'[act'[b].tin][act'[b].plan[m]] = m
    BY DEF CountedServed
<1>1. CASE act'[b] = act[b]
    <2>1. act[b].tin \in Tins /\ act[b].plan[m] \in Slots
        BY <1>t, <1>1, PlanSlots
    <2> QED
        BY <1>t, <1>1, <2>1, RecipientKept DEF CountedServed
<1>2. ASSUME NEW c \in Tins, ActivateRead(b, c) PROVE FALSE
    <2>1. act'[b].plan = [n \in Members |-> Absent]
        BY <1>t, <1>2 DEF ActivateRead, Typed, TypeOK
    <2> QED
        BY <2>1 DEF NoTurn, Absent
<1>3. CASE ActivateHolders(b)
    BY <1>t, <1>3, ActivationMoves DEF TurnHolders
<1>4. CASE ActivateFlip(b)
    <2>1. act[b].pc = "flip"
        BY <1>4 DEF ActivateFlip
    <2> QED
        BY <1>t, <1>4, <2>1, ActivationMoves DEF CountedServed
<1>5. CASE ActivateRound(b)
    <2>1. act[b].pc = "rounds"
        BY <1>5 DEF ActivateRound
    <2>2. PICK n \in act[b].todo :
            /\ roundState' = [roundState EXCEPT ![act[b].tin][act[b].plan[n]] = "scheduled"]
            /\ recipient' = [recipient EXCEPT ![act[b].tin][act[b].plan[n]] = n]
            /\ act'[b].pc = "rounds" /\ act'[b].tin = act[b].tin
            /\ act'[b].plan = act[b].plan
            /\ act'[b].todo = act[b].todo \ {n}
        BY <1>t, <1>5, ActivationMoves
    <2>3. act[b].tin \in Tins /\ act[b].plan[m] \in Slots
        BY <1>t, <2>1, <2>2, PlanSlots
    <2>4. CASE m = n
        BY <1>t, <2>2, <2>3, <2>4 DEF Typed, TypeOK
    <2>5. CASE m # n /\ m \in act[b].todo
        BY <2>2, <2>5
    <2>6. CASE m \notin act[b].todo
        <3>1. /\ roundState[act[b].tin][act[b].plan[m]] # "none"
              /\ recipient[act[b].tin][act[b].plan[m]] = m
            BY <2>1, <2>2, <2>6 DEF CountedServed
        <3> QED
            BY <1>t, <2>2, <2>3, <3>1, RecipientKept
    <2> QED
        BY <2>4, <2>5, <2>6
<1>6. CASE ActivateDies(b)
    BY <1>t, <1>6 DEF ActivateDies, Typed, TypeOK, Idle
<1>7. Activation(b) \/ act'[b] = act[b]
    BY <1>t, ActivationAlone, AdvanceWrites, StepKinds
<1> QED
    BY <1>1, <1>2, <1>3, <1>4, <1>5, <1>6, <1>7 DEF Activation, ActivateStep

\* The INSERT that ends an activation is the one of the last woman it counted:
\* no other request has taken a slot of hers (activate.ts).
LEMMA LastInsert ==
    ASSUME OrderInv, CountedServed, [Next]_vars,
           NEW a \in Activators, ActivateRound(a), act'[a] = Idle,
           NEW n \in Members, act[a].plan[n] > NoTurn
    PROVE  recipient'[act[a].tin][act[a].plan[n]] = n
<1>t. Typed
    BY DEF OrderInv, PayoutInv
<1>1. act[a].pc = "rounds" /\ act[a] \in ActivateReq
    BY <1>t DEF ActivateRound, Typed, TypeOK, Idle
<1>2. PICK m \in act[a].todo :
        IF roundState[act[a].tin][act[a].plan[m]] = "none"
        THEN /\ recipient' = [recipient EXCEPT ![act[a].tin][act[a].plan[m]] = m]
             /\ act' = [act EXCEPT ![a] = IF LastHolder(a, m) THEN Idle
                                          ELSE [act[a] EXCEPT !.todo = act[a].todo \ {m}]]
        ELSE act' = [act EXCEPT ![a] = Idle] /\ UNCHANGED <<roundState, recipient>>
    BY DEF ActivateRound
<1>3. /\ act[a].tin \in Tins /\ m \in Members
      /\ act[a].plan[m] \in Slots /\ act[a].plan[n] \in Slots
    BY <1>t, <1>1, <1>2, PlanSlots DEF OrderInv, PlanDistinct
<1>4. roundState[act[a].tin][act[a].plan[m]] = "none"
    <2>1. ~ (act[a].plan[m] < act[a].plan[m])
        BY <1>3 DEF Slots
    <2> QED
        BY <1>1, <1>2, <1>3, <2>1 DEF OrderInv, InsertsAtTheEnd
<1>5. act[a].todo = {m}
    <2> DEFINE r == [act[a] EXCEPT !.todo = act[a].todo \ {m}]
    <2>1. r.pc = "rounds" /\ Idle.pc = "idle"
        BY <1>1 DEF ActivateReq, Idle
    <2> HIDE DEF r
    <2>2. act \in [Activators -> ActivateReq \cup {Idle}]
        BY <1>t DEF Typed, TypeOK
    <2>3. act' = [act EXCEPT ![a] = IF LastHolder(a, m) THEN Idle ELSE r]
        BY <1>2, <1>4 DEF r
    <2>4. LastHolder(a, m)
        BY <2>1, <2>2, <2>3
    <2> QED
        BY <2>4 DEF LastHolder
<1>6. CASE n = m
    BY <1>t, <1>2, <1>3, <1>4, <1>6 DEF Typed, TypeOK
<1>7. CASE n # m
    <2>1. /\ roundState[act[a].tin][act[a].plan[n]] # "none"
          /\ recipient[act[a].tin][act[a].plan[n]] = n
        BY <1>1, <1>5, <1>7 DEF CountedServed
    <2> QED
        BY <1>t, <1>3, <2>1, RecipientKept
<1> QED
    BY <1>6, <1>7

\* An activation that took the lock and is not cut short gives each woman it
\* counted the round of her slot, however many activations read the same
\* circle, and whatever drags, admissions, advances and crashes come between.
THEOREM CountedGetTheirRounds == Spec => EveryTurnGetsARound
<1>1. Init => CountedServed
    BY DEF Init, CountedServed, Idle
<1>2. OrderInv /\ CountedServed /\ [Next]_vars =>
        [\A a \in Activators : ActivateRound(a) /\ act'[a] = Idle =>
            \A m \in Members : act[a].plan[m] > NoTurn =>
                recipient'[act[a].tin][act[a].plan[m]] = m]_vars
    BY LastInsert
<1>3. OrderInv /\ CountedServed /\ [Next]_vars => CountedServed'
    BY CountedStep
<1> QED
    BY OrderInit, OrderStep, <1>1, <1>2, <1>3, PTL DEF Spec, EveryTurnGetsARound
=============================================================================
