---------------------------- MODULE RecordProofs ----------------------------
(* Theorems about what the screens make of the record: Cards, for any         *)
(* members, turns, calendar and departures, MemberPanel, for any keys,        *)
(* addresses and requests, and PoolWatch, for any members, wallets, transfers *)
(* and passes: as the parts "cards", "panel" and "pool" of MCOffice.          *)
EXTENDS MCOffice, FiniteSetTheorems, FunctionTheorems, WellFoundedInduction, TLAPS

-----------------------------------------------------------------------------
(* Cards                                                                     *)

LEMMA SameOnTheCards ==
    \A S : Card!Cardinality(S) = Cardinality(S) /\ Card!IsFiniteSet(S) = IsFiniteSet(S)
    BY DEF Card!Cardinality, Cardinality, Card!IsFiniteSet, IsFiniteSet

RecordTyped ==
    /\ today \in 1..MaxDay
    /\ circle \in {"active", "completed"}
    /\ round \in [Card!Slots -> {"scheduled", "open", "completed"}]
    /\ owed \subseteq {d \in Card!Dues : round[d[1]] # "scheduled" /\ Card!Recipient(d[1]) # d[2]}
    /\ observed \in [Card!Dues -> Nat] /\ newest \in [Card!Dues -> Nat]
    /\ \A d \in Card!Dues : observed[d] <= newest[d] /\ newest[d] <= today
    /\ seat \in [CardWomen -> Card!Slots \union {0, NoSaver}]
    /\ past \in [CardWomen -> SUBSET (Card!Slots \union {0})]

\* Who has another turn than she began with, or none, has left.
MovedHasLeft == \A w \in CardWomen : seat[w] # SaverTurn[w] => past[w] # {}

CardInv == RecordTyped /\ MovedHasLeft

-----------------------------------------------------------------------------
(* Least and greatest *)

LEMMA LeastNumber ==
    ASSUME NEW S \in SUBSET Nat, S # {}
    PROVE  \E x \in S : \A y \in S : x <= y
<1>1. S \subseteq Nat
    OBVIOUS
<1>2. PICK x \in S : \A y \in S : ~ (<<y, x>> \in OpToRel(<, Nat))
    BY <1>1, NatLessThanWellFounded, WFMin, Zenon
<1>3. \A y \in S : ~ (y < x)
    BY <1>1, <1>2 DEF OpToRel
<1> QED
    BY <1>1, <1>3

LEMMA MinIsLeast ==
    ASSUME NEW S \in SUBSET Nat, S # {}
    PROVE  Card!Min(S) \in S /\ \A y \in S : Card!Min(S) <= y
    BY LeastNumber DEF Card!Min

\* Of the finite sets with no greatest number, a smallest one would be smaller still
\* without one of its members.
LEMMA GreatestNumber ==
    ASSUME NEW S \in SUBSET Nat, IsFiniteSet(S), S # {}
    PROVE  \E x \in S : \A y \in S : x >= y
<1> DEFINE Bad(T) == T # {} /\ ~ \E x \in T : \A y \in T : x >= y
           Sizes == {Cardinality(T) : T \in {U \in SUBSET S : Bad(U)}}
<1> SUFFICES ASSUME Bad(S) PROVE FALSE
    OBVIOUS
<1>1. \A T \in SUBSET S : IsFiniteSet(T) /\ Cardinality(T) \in Nat
    BY FS_Subset, FS_CardinalityType
<1>2. Sizes \in SUBSET Nat /\ Sizes # {}
    BY <1>1
<1>3. PICK T \in SUBSET S : Bad(T) /\ \A U \in SUBSET S : Bad(U) => Cardinality(T) <= Cardinality(U)
    <2>1. PICK n \in Sizes : \A m \in Sizes : n <= m
        BY <1>2, LeastNumber
    <2> QED
        BY <2>1
<1>4. PICK x \in T : TRUE
    BY <1>3
<1>5. Cardinality(T \ {x}) = Cardinality(T) - 1 /\ Cardinality(T) \in Nat
    BY <1>1, <1>3, <1>4, FS_RemoveElement
<1>6. ~Bad(T \ {x})
    <2>1. T \ {x} \in SUBSET S
        OBVIOUS
    <2>2. ~(Cardinality(T) <= Cardinality(T \ {x}))
        BY <1>5
    <2> HIDE DEF Bad
    <2> QED
        BY <1>3, <2>1, <2>2
<1>7. CASE T \ {x} = {}
    BY <1>3, <1>4, <1>7
<1>8. CASE T \ {x} # {}
    <2>1. PICK m \in T \ {x} : \A y \in T \ {x} : m >= y
        BY <1>6, <1>8
    <2>2. m \in Nat /\ x \in Nat /\ T \subseteq Nat
        OBVIOUS
    <2>3. CASE m >= x
        BY <1>3, <2>1, <2>2, <2>3
    <2>4. CASE ~(m >= x)
        <3>1. \A y \in T : x >= y
            BY <2>1, <2>2, <2>4
        <3> QED
            BY <1>3, <1>4, <3>1
    <2> QED
        BY <2>3, <2>4
<1> QED
    BY <1>7, <1>8

LEMMA MaxIsGreatest ==
    ASSUME NEW S \in SUBSET Nat, IsFiniteSet(S), S # {}
    PROVE  Card!Max(S) \in S /\ \A y \in S : Card!Max(S) >= y
    BY GreatestNumber DEF Card!Max

LEMMA SlotsAre ==
    ASSUME Card!CardsConstants
    PROVE  /\ Card!Slots \subseteq Nat \ {0} /\ IsFiniteSet(Card!Slots) /\ Card!Slots # {}
           /\ \A i \in Card!Slots : Card!Recipient(i) \in CardWomen /\ SaverTurn[Card!Recipient(i)] = i
           /\ \A w \in CardWomen : SaverTurn[w] \in Card!Slots \union {0}
           /\ \A i \in Card!Slots : Card!Due(i) \in Nat \ {0}
<1>1. Card!Slots \subseteq Nat \ {0} /\ Card!Slots # {} /\ \A w \in CardWomen : SaverTurn[w] \in Card!Slots \union {0}
    BY DEF Card!CardsConstants, Card!Slots
<1>2. IsFiniteSet(Card!Slots)
    <2> DEFINE T == {SaverTurn[w] : w \in CardWomen}
    <2>2. SaverTurn \in Surjection(CardWomen, T)
        BY DEF Surjection, Card!CardsConstants
    <2>1. IsFiniteSet(T)
        BY <2>2, FS_Surjection, SameOnTheCards DEF Card!CardsConstants
    <2> QED
        BY <2>1, FS_Subset DEF Card!Slots
<1>3. \A i \in Card!Slots : Card!Recipient(i) \in CardWomen /\ SaverTurn[Card!Recipient(i)] = i
    BY DEF Card!Slots, Card!Recipient
<1>4. ASSUME NEW i \in Card!Slots PROVE Card!Due(i) \in Nat \ {0}
    <2>1. i \in Nat /\ i > 0 /\ Cadence \in Nat /\ Cadence > 0
        BY <1>1 DEF Card!CardsConstants
    <2> QED
        BY <2>1 DEF Card!Due
<1> QED
    BY <1>1, <1>2, <1>3, <1>4

-----------------------------------------------------------------------------
(* Readings *)

\* A reading by its dates.
LEMMA Readings ==
    ASSUME Card!CardsConstants, RecordTyped, NEW d \in owed
    PROVE  /\ d \in Card!Dues /\ observed[d] \in Nat /\ today \in Nat /\ Card!Due(d[1]) \in Nat \ {0} /\ Grace \in Nat
           /\ observed[d] # 0 => Card!Reading(d) \in Card!Judged
           /\ observed[d] = 0 => Card!Reading(d) = IF today > Card!Due(d[1]) + Grace THEN "behind" ELSE "pending"
<1>1. d \in Card!Dues /\ d[1] \in Card!Slots /\ observed[d] \in Nat
    BY DEF RecordTyped, Card!Dues
<1>2. Card!Due(d[1]) \in Nat \ {0} /\ Grace \in Nat /\ today \in Nat
    BY <1>1, SlotsAre DEF Card!CardsConstants, RecordTyped
<1> QED
    BY <1>1, <1>2 DEF Card!Reading, Card!Judged

-----------------------------------------------------------------------------
(* The steps *)

LEMMA CardSteps == Card!CardsConstants /\ CardInv /\ [Card!Next]_Card!cardVars => CardInv'
<1> SUFFICES ASSUME Card!CardsConstants, CardInv, [Card!Next]_Card!cardVars PROVE CardInv'
    OBVIOUS
<1> USE DEF CardInv
<1>1. CASE Card!Midnight
    BY <1>1 DEF Card!Midnight, RecordTyped, MovedHasLeft, Card!CardsConstants
<1>2. CASE Card!OpenNext
    <2> DEFINE i == Card!Min(Card!Is("scheduled"))
    <2>1. i \in Card!Slots
        BY <1>2, MinIsLeast, SlotsAre DEF Card!OpenNext, Card!Is
    <2>2. /\ round' = [k \in Card!Slots |-> IF k = i THEN "open"
                                       ELSE IF round[k] = "open" THEN "completed" ELSE round[k]]
          /\ owed' = owed \union {<<i, w>> : w \in {v \in Card!Live : seat[v] # 0} \ {Card!Recipient(i)}}
          /\ UNCHANGED <<today, circle, observed, newest, seat, past>>
        BY <1>2 DEF Card!OpenNext
    <2> HIDE DEF i
    <2>3. round' \in [Card!Slots -> {"scheduled", "open", "completed"}]
        BY <2>2 DEF RecordTyped
    <2>4. ASSUME NEW d \in owed' PROVE d \in Card!Dues /\ round'[d[1]] # "scheduled" /\ Card!Recipient(d[1]) # d[2]
        <3>1. CASE d \in owed
            <4>1. d \in Card!Dues /\ d[1] \in Card!Slots /\ round[d[1]] # "scheduled" /\ Card!Recipient(d[1]) # d[2]
                BY <3>1 DEF RecordTyped, Card!Dues
            <4> QED
                BY <2>2, <4>1
        <3>2. ASSUME NEW w \in Card!Live \ {Card!Recipient(i)}, d = <<i, w>> PROVE d \in Card!Dues /\ d[1] = i /\ d[2] = w
            BY <2>1, <3>2 DEF Card!Dues, Card!Live
        <3>3. round'[i] = "open"
            BY <2>1, <2>2
        <3> QED
            BY <2>2, <3>1, <3>2, <3>3
    <2> QED
        BY <2>2, <2>3, <2>4 DEF RecordTyped, MovedHasLeft
<1>3. CASE Card!CloseLast
    <2>1. ASSUME NEW d \in owed PROVE d[1] \in Card!Slots
        BY DEF RecordTyped, Card!Dues
    <2> QED
        BY <1>3, <2>1 DEF Card!CloseLast, RecordTyped, MovedHasLeft
<1>4. ASSUME NEW i \in Card!Slots, NEW w \in CardWomen, Card!Pay(i, w) PROVE CardInv'
    <2>1. <<i, w>> \in Card!Dues
        BY DEF Card!Dues
    <2>2. today \in Nat
        BY DEF RecordTyped, Card!CardsConstants
    <2> QED
        BY <1>4, <2>1, <2>2 DEF Card!Pay, RecordTyped, MovedHasLeft
<1>5. ASSUME NEW d \in Card!Dues, Card!Observe(d) PROVE CardInv'
    BY <1>5 DEF Card!Observe, RecordTyped, MovedHasLeft
<1>6. ASSUME NEW w \in CardWomen, Card!Expel(w) PROVE CardInv'
    BY <1>6 DEF Card!Expel, Card!Live, RecordTyped, MovedHasLeft
<1>7. ASSUME NEW w \in CardWomen, Card!Admit(w) PROVE CardInv'
    <2>1. seat[w] = NoSaver /\ SaverTurn[w] # NoSaver
        BY <1>7 DEF Card!Admit, Card!Live, Card!CardsConstants
    <2> QED
        BY <1>7, <2>1 DEF Card!Admit, RecordTyped, MovedHasLeft
<1>8. CASE UNCHANGED Card!cardVars
    BY <1>8 DEF Card!cardVars, RecordTyped, MovedHasLeft
<1> QED
    BY <1>1, <1>2, <1>3, <1>4, <1>5, <1>6, <1>7, <1>8 DEF Card!Next

LEMMA CardStarts == Card!CardsConstants /\ Card!Init => CardInv
<1> SUFFICES ASSUME Card!CardsConstants, Card!Init PROVE CardInv
    OBVIOUS
<1>1. SaverTurn \in [CardWomen -> Card!Slots \union {0, NoSaver}]
    BY SlotsAre DEF Card!CardsConstants
<1> QED
    BY <1>1 DEF Card!Init, CardInv, RecordTyped, MovedHasLeft, Card!CardsConstants

\* What is owed stays owed, the days pass, and a row is observed once.
LEMMA RecordGrows ==
    ASSUME Card!CardsConstants, CardInv, [Card!Next]_Card!cardVars
    PROVE  /\ owed \subseteq owed' /\ today' >= today
           /\ \A d \in owed : observed[d] # 0 => observed'[d] = observed[d]
<1>1. today \in Nat /\ observed \in [Card!Dues -> Nat]
    BY DEF CardInv, RecordTyped, Card!CardsConstants
<1>2. CASE Card!Midnight
    BY <1>1, <1>2 DEF Card!Midnight
<1>3. CASE Card!OpenNext
    BY <1>1, <1>3 DEF Card!OpenNext
<1>4. ASSUME NEW e \in Card!Dues, Card!Observe(e)
      PROVE  owed' = owed /\ today' = today /\ \A d \in owed : observed[d] # 0 => observed'[d] = observed[d]
    BY <1>1, <1>4 DEF Card!Observe, Card!Listed
<1>5. CASE Card!CloseLast \/ (\E i \in Card!Slots, w \in CardWomen : Card!Pay(i, w)) \/ (\E w \in CardWomen : Card!Expel(w) \/ Card!Admit(w))
            \/ UNCHANGED Card!cardVars
    <2>1. UNCHANGED <<owed, observed, today>>
        BY <1>5 DEF Card!CloseLast, Card!Pay, Card!Expel, Card!Admit, Card!cardVars
    <2> QED
        BY <1>1, <2>1
<1>6. CASE \E d \in Card!Dues : Card!Observe(d)
    BY <1>1, <1>4, <1>6
<1> QED
    BY <1>2, <1>3, <1>5, <1>6 DEF Card!Next

LEMMA JudgedStep == Card!CardsConstants /\ CardInv /\ [Card!Next]_Card!cardVars => Card!StaysJudged
<1> SUFFICES ASSUME Card!CardsConstants, CardInv, [Card!Next]_Card!cardVars, NEW d \in owed
             PROVE  /\ Card!Reading(d) \in Card!Judged => Card!Reading(d)' = Card!Reading(d)
                    /\ Card!Reading(d) = "behind" => Card!Reading(d)' \in Card!Judged \union {"behind"}
    BY DEF Card!StaysJudged
<1>1. CardInv' /\ d \in owed' /\ today' >= today /\ (observed[d] # 0 => observed'[d] = observed[d])
    BY CardSteps, RecordGrows
<1>2. /\ observed[d] \in Nat /\ today \in Nat /\ Card!Due(d[1]) \in Nat \ {0} /\ Grace \in Nat
      /\ observed[d] # 0 => Card!Reading(d) \in Card!Judged
      /\ observed[d] = 0 => Card!Reading(d) = IF today > Card!Due(d[1]) + Grace THEN "behind" ELSE "pending"
    BY Readings DEF CardInv
<1>3. /\ observed'[d] \in Nat /\ today' \in Nat
      /\ observed'[d] # 0 => Card!Reading(d)' \in Card!Judged
      /\ observed'[d] = 0 => Card!Reading(d)' = IF today' > Card!Due(d[1]) + Grace THEN "behind" ELSE "pending"
    <2>1. RecordTyped'
        BY <1>1 DEF CardInv
    <2>2. d \in Card!Dues /\ d[1] \in Card!Slots /\ observed'[d] \in Nat /\ today' \in Nat
        BY <1>1, <2>1 DEF RecordTyped, Card!Dues
    <2> QED
        BY <1>2, <2>2 DEF Card!Reading, Card!Judged, Card!Due
<1>4. CASE observed[d] # 0
    <2>1. Card!Reading(d)' = Card!Reading(d)
        BY <1>1, <1>2, <1>4 DEF Card!Reading, Card!Due
    <2> QED
        BY <1>2, <1>4, <2>1 DEF Card!Judged
<1>5. CASE observed[d] = 0
    BY <1>1, <1>2, <1>3, <1>5 DEF Card!Judged
<1> QED
    BY <1>4, <1>5

-----------------------------------------------------------------------------
(* One verdict *)

LEMMA NoticesAgree == Card!CardsConstants /\ CardInv => Card!NoticesFollowTheRecord
<1> SUFFICES ASSUME Card!CardsConstants, CardInv PROVE Card!NoticesFollowTheRecord
    OBVIOUS
<1>1. ASSUME NEW d \in owed
      PROVE  /\ (Card!Reading(d) = "behind") = (observed[d] = 0 /\ Card!OutOfGrace(d[1]))
             /\ observed[d] = 0 /\ today <= Card!Due(d[1]) => Card!Reading(d) = "pending"
    <2>1. /\ observed[d] \in Nat /\ today \in Nat /\ Card!Due(d[1]) \in Nat \ {0} /\ Grace \in Nat
          /\ observed[d] # 0 => Card!Reading(d) \in Card!Judged
          /\ observed[d] = 0 => Card!Reading(d) = IF today > Card!Due(d[1]) + Grace THEN "behind" ELSE "pending"
        BY Readings DEF CardInv
    <2> QED
        BY <2>1 DEF Card!OutOfGrace, Card!Judged
<1> QED
    BY <1>1 DEF Card!NoticesFollowTheRecord, Card!ToldLate, Card!Remindable, Card!Bucket

\* Of a number from 1 to n, the first cycle.
LEMMA FirstCycle ==
    ASSUME NEW n \in Nat \ {0}, NEW i \in 1..n
    PROVE  Card!CycleOf(i, n) = 1
<1>1. i + n - 1 = n * 1 + (i - 1) /\ i - 1 \in 0..(n - 1)
    OBVIOUS
<1> QED
    BY <1>1 DEF Card!CycleOf

LEMMA RowAgrees == Card!CardsConstants /\ CardInv => Card!RowIsTheRecord
<1> SUFFICES ASSUME Card!CardsConstants, CardInv, \A w \in CardWomen : past[w] = {} PROVE
        /\ Card!cycleLength = Card!drillInLength
        /\ \A w \in CardWomen : \A i \in Card!Slots :
            <<i, w>> \in owed /\ Card!CycleOf(i, Card!cycleLength) = Card!currentCycle
                => \E p \in 1..Card!cycleLength : Card!IndexOf(p) = i /\ Card!Stars(w, seat[w])[p] = Card!Glyph(<<i, w>>)
    BY DEF Card!RowIsTheRecord
<1>1. \A w \in CardWomen : seat[w] = SaverTurn[w] /\ seat[w] \in Nat
    BY SlotsAre DEF CardInv, MovedHasLeft, Card!CardsConstants
<1>2. Card!Live = CardWomen
    BY <1>1 DEF Card!Live, Card!CardsConstants
<1>3. {seat[w] : w \in Card!Live} \ {0} = Card!Slots
    BY <1>1, <1>2 DEF Card!Slots
<1>4. \A w \in CardWomen : Card!TurnSlots(w) = {SaverTurn[w]}
    BY <1>1, <1>2 DEF Card!TurnSlots
<1>5. {t \in UNION {Card!TurnSlots(w) : w \in CardWomen} : t # 0} = Card!Slots
    BY <1>4 DEF Card!Slots
<1> DEFINE n == Card!Max(Card!Slots)
<1>6. n \in Card!Slots /\ n \in Nat \ {0} /\ \A i \in Card!Slots : i \in 1..n
    BY SlotsAre, MaxIsGreatest
<1>7. ASSUME NEW S \in SUBSET Nat, S \ {0} = Card!Slots PROVE Card!Max(S) = n
    <2>1. Card!Max(S) \in S /\ \A y \in S : Card!Max(S) >= y
        <3>1. \E x \in S : \A y \in S : x >= y
            BY <1>6, <1>7
        <3> QED
            BY <3>1 DEF Card!Max
    <2>2. n \in S /\ n > 0
        BY <1>6, <1>7
    <2>3. Card!Max(S) \in Card!Slots
        <3>1. Card!Max(S) \in Nat /\ n \in Nat /\ Card!Max(S) >= n
            BY <1>6, <2>1, <2>2
        <3>2. Card!Max(S) # 0
            BY <2>2, <3>1
        <3> QED
            BY <1>7, <2>1, <3>2
    <2> QED
        BY <1>6, <2>1, <2>2, <2>3
<1>8. Card!cycleLength = n
    <2>1. {seat[w] : w \in Card!Live} \in SUBSET Nat
        BY <1>1, <1>2
    <2> QED
        BY <1>3, <1>7, <2>1, SlotsAre DEF Card!cycleLength
<1>9. Card!drillInLength = n
    <2>1. {0} \union Card!Slots \in SUBSET Nat /\ ({0} \union Card!Slots) \ {0} = Card!Slots
        BY SlotsAre
    <2> QED
        BY <1>5, <1>7, <2>1 DEF Card!drillInLength
<1>10. Card!currentRound \in Card!Slots
    <2>1. Card!Is("open") # {} => Card!Min(Card!Is("open")) \in Card!Slots
        <3>1. Card!Is("open") \in SUBSET Nat
            BY SlotsAre DEF Card!Is
        <3> QED
            BY <3>1, MinIsLeast DEF Card!Is
    <2> QED
        BY <1>6, <2>1 DEF Card!currentRound
<1>11. Card!currentCycle = 1
    BY <1>6, <1>8, <1>10, FirstCycle DEF Card!currentCycle
<1>12. \A p \in 1..n : Card!IndexOf(p) = p
    BY <1>6, <1>8, <1>11 DEF Card!IndexOf
<1>13. ASSUME NEW w \in CardWomen, NEW i \in Card!Slots, <<i, w>> \in owed
       PROVE  i \in 1..Card!cycleLength /\ Card!IndexOf(i) = i /\ Card!Stars(w, seat[w])[i] = Card!Glyph(<<i, w>>)
    <2>1. i \in 1..n /\ Card!IndexOf(i) = i /\ i # 0
        BY <1>6, <1>12
    <2>2. Card!Recipient(i) # w
        BY <1>13 DEF CardInv, RecordTyped
    <2>3. i # seat[w]
        <3>1. SaverTurn[Card!Recipient(i)] = i /\ Card!Recipient(i) \in CardWomen
            BY SlotsAre
        <3> QED
            BY <1>1, <2>1, <2>2, <3>1 DEF Card!CardsConstants
    <2> HIDE DEF n
    <2> QED
        BY <1>8, <2>1, <2>2, <2>3 DEF Card!Stars
<1> QED
    BY <1>8, <1>9, <1>13

LEMMA CardsSafe == Card!CardsConstants /\ CardInv => Card!TypeOK /\ Card!OneVerdict
<1> SUFFICES ASSUME Card!CardsConstants, CardInv PROVE Card!TypeOK /\ Card!OneVerdict
    OBVIOUS
<1>1. Card!TypeOK
    <2>1. today \in Nat
        BY DEF CardInv, RecordTyped, Card!CardsConstants
    <2> QED
        BY <2>1 DEF CardInv, RecordTyped, Card!TypeOK
<1> QED
    BY <1>1, NoticesAgree, RowAgrees DEF Card!OneVerdict

LEMMA CardsAlways == ASSUME Card!CardsConstants PROVE Card!Spec => []CardInv
<1>1. Card!Init => CardInv
    BY CardStarts
<1>2. CardInv /\ [Card!Next]_Card!cardVars => CardInv'
    BY CardSteps
<1> QED
    BY <1>1, <1>2, PTL DEF Card!Spec

\* The card's verdicts (discipline.ts): for any members, turns and days, what a
\* contribution was read as once, early, on time or late, it is read as ever after;
\* "behind" gives way to a payment only.
THEOREM NobodyIsJudgedTwice == ASSUME Card!CardsConstants PROVE Card!Spec => Card!JudgedForGood
<1>1. CardInv /\ [Card!Next]_Card!cardVars => [Card!StaysJudged]_Card!cardVars
    BY JudgedStep
<1> QED
    BY <1>1, CardsAlways, PTL DEF Card!Spec, Card!JudgedForGood

\* The screens and the notices (susuCard.ts, notifications.ts, discipline.ts): late
\* notices go to whom the record calls behind, reminders to whom it says nothing of
\* yet; and while nobody has left, the card's marks are the record's.
THEOREM ScreensSayOneThing == ASSUME Card!CardsConstants PROVE Card!Spec => [](Card!TypeOK /\ Card!OneVerdict)
<1>1. CardInv => Card!TypeOK /\ Card!OneVerdict
    BY CardsSafe
<1> QED
    BY <1>1, CardsAlways, PTL

\* The card as the part of MCOffice: screens and notices say one thing of her
\* (susuCard.ts, notifications.ts), in the run office's composition.
THEOREM ScreensSayOneThingThere == Spec => []OneVerdict
<1> DEFINE Inv == part = "cards" => CardInv
<1>1. Init => Inv
    BY OfficeConstants, CardStarts DEF Init, OfficeConstants
<1>2. Inv /\ [Next]_vars => Inv'
    <2> SUFFICES ASSUME Inv, [Next]_vars, part' = "cards"
                 PROVE  CardInv'
        OBVIOUS
    <2>1. CASE Next
        <3>1. part = "cards" /\ Card!Next
            BY <2>1 DEF Next, Moves
        <3> QED
            BY <3>1, OfficeConstants, CardSteps DEF OfficeConstants
    <2>2. CASE UNCHANGED vars
        BY <2>2, OfficeConstants, CardSteps
        DEF OfficeConstants, vars, cards, Card!cardVars
    <2> QED
        BY <2>1, <2>2
<1>3. Inv => OneVerdict
    BY OfficeConstants, CardsSafe DEF OneVerdict, OfficeConstants
<1> QED
    BY <1>1, <1>2, <1>3, PTL DEF Spec

\* And no step of that composition takes a verdict back (discipline.ts).
THEOREM NobodyIsJudgedTwiceThere == Spec => JudgedForGood
<1> DEFINE Inv == part = "cards" => CardInv
<1>1. Init => Inv
    BY OfficeConstants, CardStarts DEF Init, OfficeConstants
<1>2. Inv /\ [Next]_vars => Inv' /\ [part = "cards" => Card!StaysJudged]_vars
    <2> SUFFICES ASSUME Inv, [Next]_vars
                 PROVE  Inv' /\ [part = "cards" => Card!StaysJudged]_vars
        OBVIOUS
    <2>1. CASE UNCHANGED vars
        <3>1. Inv'
            BY <2>1, OfficeConstants, CardSteps DEF OfficeConstants, vars, cards, Card!cardVars
        <3> QED
            BY <2>1, <3>1
    <2>2. CASE Next
        <3>1. part' = part /\ (part = "cards" => Card!Next)
            BY <2>2 DEF Next, Moves
        <3>2. part = "cards" => CardInv' /\ Card!StaysJudged
            BY <3>1, OfficeConstants, CardSteps, JudgedStep DEF OfficeConstants
        <3> QED
            BY <3>1, <3>2
    <2> QED
        BY <2>1, <2>2
<1> QED
    BY <1>1, <1>2, PTL DEF Spec, JudgedForGood

-----------------------------------------------------------------------------
(* MemberPanel                                                               *)

LEMMA SameOnThePanel ==
    \A S : Panel!Cardinality(S) = Cardinality(S)
    BY DEF Panel!Cardinality, Cardinality, Panel!IsFiniteSet, IsFiniteSet

Kinds == {"loadPrefs", "togglePref", "loadNotes", "mark", "saveAddress", "checkVerify", "refetch"}
Pcs == {"read", "count", "ask", "write", "answer", "said no"}
Prefs == [Keys -> BOOLEAN]
Changes == [key : Keys, to : BOOLEAN]
ListRecord == [listed : SUBSET Nat, marked : SUBSET Nat, badge : 0..MaxNotices]
ViewRecord == [prefs : Prefs, listed : SUBSET Nat, marked : SUBSET Nat, badge : 0..MaxNotices, row : Panel!Rows]
Args == {None} \cup PanelAddresses \cup Nat \cup Changes
PlainRequest == [pc : Pcs, kind : Kinds, arg : Args]
WithGot == [pc : Pcs, kind : Kinds, arg : Args, got : Prefs \cup ListRecord \cup Panel!Rows]
PanelRequest == {Panel!Idle} \cup PlainRequest \cup WithGot

\* What a request asks and has got, by its kind.
Formed(r) ==
    /\ r.kind = "loadPrefs" => /\ r.pc \in {"read", "answer"}
                               /\ r.pc = "answer" => r \in WithGot /\ r.got \in Prefs
    /\ r.kind = "togglePref" => /\ r.pc \in {"read", "write", "answer"} /\ r.arg \in Changes
                                /\ r.pc = "write" => r \in WithGot /\ r.got \in Prefs
    /\ r.kind = "loadNotes" =>
        /\ r.pc \in {"read", "count", "answer"}
        /\ r.pc # "read" => /\ r \in WithGot /\ r.got \in ListRecord
                            /\ r.got.marked \subseteq r.got.listed /\ r.got.listed \subseteq 1..notices
    /\ r.kind = "mark" => r.pc \in {"write", "answer"} /\ r.arg \in 0..notices
    /\ r.kind = "saveAddress" => r.pc \in {"write", "answer"} /\ r.arg \in PanelAddresses \cup {None}
    /\ r.kind = "checkVerify" => r.pc \in {"read", "ask", "write", "answer", "said no"}
    /\ r.kind = "refetch" => /\ r.pc \in {"read", "answer"}
                             /\ r.pc = "answer" => r \in WithGot /\ r.got \in Panel!Rows

\* The list shown, once R is read.
Listing(R) ==
    /\ view.marked = view.listed \cap R
    /\ Cardinality(view.listed \ view.marked) <= view.badge
    /\ view.badge <= Cardinality((1..notices) \ R)

WillRead(r) == read \cup (IF r.arg = Panel!All THEN 1..notices ELSE {r.arg})

\* What a request has read is what is stored still.
Aware(r) ==
    /\ r.kind = "loadPrefs" /\ r.pc = "answer" => r.got = pref
    /\ r.kind = "togglePref" /\ r.pc = "write" => r.got = pref
    /\ r.kind = "loadNotes" /\ r.pc \in {"count", "answer"} => r.got.marked = r.got.listed \cap read
    /\ r.kind = "loadNotes" /\ r.pc = "answer" =>
        /\ Cardinality(r.got.listed \ r.got.marked) <= r.got.badge
        /\ r.got.badge <= Cardinality((1..notices) \ read)
    /\ r.kind = "refetch" /\ r.pc = "answer" => r.got = row

\* What the panel shows is what the request will have written.
Shown(r) ==
    /\ r.kind = "togglePref" /\ r.pc \in {"read", "write"} => view.prefs = Panel!Merged(pref, r.arg)
    /\ r.kind = "togglePref" /\ r.pc = "answer" => view.prefs = pref
    /\ r.kind = "mark" /\ r.pc = "write" => Listing(WillRead(r))
    /\ r.kind = "mark" /\ r.pc = "answer" => Listing(read)
    /\ r.kind = "saveAddress" /\ r.pc = "write" => view.row = row
    /\ r.kind = "checkVerify" /\ r.pc # "answer" => view.row = row

Agrees(P) ==
    /\ P = "prefs" => view.prefs = pref
    /\ P = "notes" => Listing(read)
    /\ P = "row" => view.row = row

On(q, P) == req[q].pc # "idle" /\ Panel!PartOf(req[q].kind) = P
Single(P) == \A q, r \in Requests : On(q, P) /\ On(r, P) => q = r

PartAgrees(P) ==
    P \notin overlapped =>
        /\ Single(P)
        /\ \A q \in Requests : On(q, P) => Aware(req[q]) /\ (P \notin doubtful => Shown(req[q]))
        /\ P \notin doubtful /\ ~Panel!Busy(P) => Agrees(P)

PanelTyped ==
    /\ pref \in Prefs
    /\ notices \in 0..MaxNotices /\ read \subseteq 1..notices
    /\ row \in Panel!Rows
    /\ view \in ViewRecord
    /\ view.marked \subseteq view.listed /\ view.listed \subseteq 1..notices
    /\ req \in [Requests -> PanelRequest]
    /\ doubtful \subseteq Panel!Parts /\ overlapped \subseteq Panel!Parts

RequestsFormed == \A q \in Requests : req[q].pc # "idle" => Formed(req[q])

PanelInv == PanelTyped /\ RequestsFormed /\ \A P \in Panel!Parts : PartAgrees(P)

-----------------------------------------------------------------------------
(* Records *)

LEMMA RequestFields ==
    ASSUME NEW r \in PanelRequest, r.pc # "idle"
    PROVE  r.pc \in Pcs /\ r.kind \in Kinds /\ r.arg \in Args /\ (r \in PlainRequest \/ r \in WithGot)
    BY DEF PanelRequest, PlainRequest, WithGot, Panel!Idle

LEMMA StepFields ==
    ASSUME NEW r \in PanelRequest, r.pc # "idle", NEW to \in Pcs
    PROVE  LET n == [r EXCEPT !.pc = to]
           IN  /\ n \in PanelRequest /\ n.pc = to /\ n.kind = r.kind /\ n.arg = r.arg
               /\ r \in WithGot => n \in WithGot /\ n.got = r.got
    BY DEF PanelRequest, PlainRequest, WithGot, Panel!Idle

LEMMA NewFields ==
    ASSUME NEW kind \in Kinds, NEW arg \in Args
    PROVE  /\ Panel!Request(kind, arg) \in PanelRequest
           /\ Panel!Request(kind, arg).pc = Panel!First(kind) /\ Panel!Request(kind, arg).kind = kind
           /\ Panel!Request(kind, arg).arg = arg
           /\ Panel!First(kind) = IF kind \in {"mark", "saveAddress"} THEN "write" ELSE "read"
    BY DEF Panel!Request, Panel!First, PanelRequest, PlainRequest, Pcs, Kinds

LEMMA PartsAre ==
    ASSUME NEW kind \in Kinds
    PROVE  /\ Panel!PartOf(kind) \in Panel!Parts
           /\ Panel!PartOf(kind) = "prefs" <=> kind \in {"loadPrefs", "togglePref"}
           /\ Panel!PartOf(kind) = "notes" <=> kind \in {"loadNotes", "mark"}
           /\ Panel!PartOf(kind) = "row" <=> kind \in {"saveAddress", "checkVerify", "refetch"}
    BY DEF Panel!PartOf, Panel!Parts, Kinds

-----------------------------------------------------------------------------
(* How a step changes one request *)

\* Request q becomes n.
Turns(q, n) == n \in PanelRequest /\ req' = [req EXCEPT ![q] = n]

LEMMA TurnsTo ==
    ASSUME PanelTyped, NEW q \in Requests, NEW n, Turns(q, n)
    PROVE  req' \in [Requests -> PanelRequest] /\ req'[q] = n /\ \A r \in Requests : r # q => req'[r] = req[r]
    BY DEF PanelTyped, Turns

\* The state of one part.
Untouched(P) ==
    /\ P = "prefs" => pref' = pref /\ view'.prefs = view.prefs
    /\ P = "notes" => /\ UNCHANGED <<notices, read>> /\ view'.listed = view.listed
                      /\ view'.marked = view.marked /\ view'.badge = view.badge
    /\ P = "row" => row' = row /\ view'.row = view.row

\* A part of which nothing is touched and none of whose requests turns.
LEMMA PartAside ==
    ASSUME PanelInv, NEW P \in Panel!Parts, PartAgrees(P), Untouched(P),
           P \in overlapped => P \in overlapped', P \in doubtful => P \in doubtful',
           \A r \in Requests : req'[r] = req[r] \/ (~On(r, P) /\ ~On(r, P)')
    PROVE  PartAgrees(P)'
<1> SUFFICES ASSUME P \notin overlapped'
             PROVE  /\ Single(P)'
                    /\ \A q \in Requests : On(q, P)' => Aware(req[q])' /\ (P \notin doubtful' => Shown(req[q])')
                    /\ P \notin doubtful' /\ ~Panel!Busy(P)' => Agrees(P)'
    BY DEF PartAgrees
<1>1. \A r \in Requests : On(r, P)' <=> On(r, P)
    BY DEF On
<1>2. Single(P)' /\ (Panel!Busy(P)' <=> Panel!Busy(P))
    BY <1>1 DEF PartAgrees, Single, Panel!Busy, On
<1>3. Agrees(P) => Agrees(P)'
    BY DEF Agrees, Listing, Untouched
<1>4. ASSUME NEW q \in Requests, On(q, P)'
      PROVE  Aware(req[q])' /\ (P \notin doubtful' => Shown(req[q])')
    <2>1. req'[q] = req[q] /\ On(q, P) /\ Aware(req[q]) /\ (P \notin doubtful' => Shown(req[q]))
        BY <1>1, <1>4 DEF PartAgrees
    <2>2. req[q].kind \in Kinds /\ Panel!PartOf(req[q].kind) = P
        BY <2>1, RequestFields DEF PanelInv, PanelTyped, On
    <2>3. /\ P = "prefs" <=> req[q].kind \in {"loadPrefs", "togglePref"}
          /\ P = "notes" <=> req[q].kind \in {"loadNotes", "mark"}
          /\ P = "row" <=> req[q].kind \in {"saveAddress", "checkVerify", "refetch"}
        BY <2>2, PartsAre
    <2>4. Aware(req[q])'
        BY <2>1, <2>3 DEF Aware, Untouched
    <2>5. Shown(req[q]) => Shown(req[q])'
        BY <2>1, <2>3 DEF Shown, Untouched, Listing, WillRead
    <2> QED
        BY <2>1, <2>4, <2>5
<1> QED
    BY <1>2, <1>3, <1>4 DEF PartAgrees

\* The part whose only request turns, or whose first begins.
LEMMA PartTurns ==
    ASSUME PanelInv, NEW P \in Panel!Parts, PartAgrees(P), NEW q \in Requests, NEW n, Turns(q, n),
           P \in overlapped => P \in overlapped', P \in overlapped' \/ On(q, P) \/ ~Panel!Busy(P),
           P \notin overlapped' /\ n.pc # "idle" => Aware(n)' /\ (P \notin doubtful' => Shown(n)'),
           P \notin overlapped' /\ P \notin doubtful' /\ n.pc = "idle" => Agrees(P)',
           n.pc # "idle" => Panel!PartOf(n.kind) = P
    PROVE  PartAgrees(P)'
<1> SUFFICES ASSUME P \notin overlapped'
             PROVE  /\ Single(P)'
                    /\ \A r \in Requests : On(r, P)' => Aware(req[r])' /\ (P \notin doubtful' => Shown(req[r])')
                    /\ P \notin doubtful' /\ ~Panel!Busy(P)' => Agrees(P)'
    BY DEF PartAgrees
<1>1. req'[q] = n /\ \A r \in Requests : r # q => req'[r] = req[r]
    BY TurnsTo DEF PanelInv
<1>2. \A r \in Requests : r # q => ~On(r, P)
    BY DEF PartAgrees, Single, Panel!Busy, On
<1>3. \A r \in Requests : On(r, P)' => r = q
    BY <1>1, <1>2 DEF On
<1>4. ~Panel!Busy(P)' => n.pc = "idle"
    BY <1>1 DEF Panel!Busy
<1>5. ASSUME NEW r \in Requests, On(r, P)'
      PROVE  Aware(req[r])' /\ (P \notin doubtful' => Shown(req[r])')
    <2>1. r = q /\ n.pc # "idle" /\ req'[r] = n
        BY <1>1, <1>3, <1>5 DEF On
    <2> QED
        BY <2>1 DEF Aware, Shown, WillRead
<1> QED
    BY <1>3, <1>4, <1>5 DEF Single

\* The requests keep their forms.
LEMMA FormsStay ==
    ASSUME Panel!PanelConstants, PanelInv, NEW q \in Requests, NEW n, Turns(q, n), notices' \in Nat, notices' >= notices,
           n.pc # "idle" => Formed(n)'
    PROVE  RequestsFormed'
<1>1. req'[q] = n /\ \A r \in Requests : r # q => req'[r] = req[r]
    BY TurnsTo DEF PanelInv
<1> SUFFICES ASSUME NEW r \in Requests, req'[r].pc # "idle" PROVE Formed(req[r])'
    BY DEF RequestsFormed
<1>2. CASE r = q
    BY <1>1, <1>2 DEF Formed
<1>3. CASE r # q
    <2>1. Formed(req[r]) /\ req'[r] = req[r]
        BY <1>1, <1>3 DEF PanelInv, RequestsFormed
    <2>2. 1..notices \subseteq 1..notices' /\ 0..notices \subseteq 0..notices'
        BY DEF PanelInv, PanelTyped, Panel!PanelConstants
    <2> QED
        BY <2>1, <2>2 DEF Formed
<1> QED
    BY <1>2, <1>3

\* A step of one request, or of a tap that makes one, in its part.
LEMMA OneTurn ==
    ASSUME Panel!PanelConstants, PanelInv, PanelTyped', NEW q \in Requests, NEW n, NEW P \in Panel!Parts, Turns(q, n),
           notices' = notices, req[q].pc = "idle" \/ On(q, P),
           n.pc # "idle" => Panel!PartOf(n.kind) = P /\ Formed(n)',
           \A O \in Panel!Parts : O # P => Untouched(O),
           overlapped \subseteq overlapped', \A O \in Panel!Parts : O # P /\ O \in doubtful => O \in doubtful',
           P \in overlapped' \/ On(q, P) \/ ~Panel!Busy(P),
           P \notin overlapped' /\ n.pc # "idle" => Aware(n)' /\ (P \notin doubtful' => Shown(n)'),
           P \notin overlapped' /\ P \notin doubtful' /\ n.pc = "idle" => Agrees(P)'
    PROVE  PanelInv'
<1>1. RequestsFormed'
    <2>1. notices' \in Nat /\ notices' >= notices
        BY DEF PanelInv, PanelTyped, Panel!PanelConstants
    <2> QED
        BY <2>1, FormsStay
<1>2. PartAgrees(P)'
    BY PartTurns DEF PanelInv
<1>3. ASSUME NEW O \in Panel!Parts, O # P
      PROVE  PartAgrees(O)'
    <2>1. req'[q] = n /\ \A r \in Requests : r # q => req'[r] = req[r]
        BY TurnsTo DEF PanelInv
    <2>2. ~On(q, O) /\ ~On(q, O)'
        BY <1>3, <2>1 DEF On
    <2>3. \A r \in Requests : req'[r] = req[r] \/ (~On(r, O) /\ ~On(r, O)')
        BY <2>1, <2>2
    <2> QED
        BY <1>3, <2>3, PartAside DEF PanelInv
<1> QED
    BY <1>1, <1>2, <1>3 DEF PanelInv

-----------------------------------------------------------------------------
(* Her taps *)

\* The part of a tap: alone, or overlapped by another.
LEMMA TapTurns ==
    ASSUME Panel!PanelConstants, PanelInv, NEW q \in Requests, NEW kind \in Kinds, NEW arg \in Args, NEW shown,
           Panel!Tap(q, kind, arg, shown), PanelTyped',
           Formed(Panel!Request(kind, arg))',
           \A O \in Panel!Parts : O # Panel!PartOf(kind) => Untouched(O),
           Panel!PartOf(kind) \notin overlapped /\ Panel!PartOf(kind) \notin doubtful /\ ~Panel!Busy(Panel!PartOf(kind))
               => Shown(Panel!Request(kind, arg))'
    PROVE  PanelInv'
<1> DEFINE n == Panel!Request(kind, arg)
           P == Panel!PartOf(kind)
<1>1. Turns(q, n) /\ n.pc = Panel!First(kind) /\ n.kind = kind /\ P \in Panel!Parts
    BY NewFields, PartsAre DEF Panel!Tap, Turns
<1>2. /\ notices' = notices /\ req[q].pc = "idle" /\ doubtful' = doubtful
      /\ overlapped' = IF Panel!Busy(P) THEN overlapped \cup {P} ELSE overlapped
    BY DEF Panel!Tap
<1>3. Aware(n)'
    BY <1>1, NewFields DEF Aware
<1>4. P \notin overlapped' /\ P \notin doubtful' => Shown(n)'
    BY <1>2
<1>5. n.pc # "idle"
    BY <1>1, NewFields
<1> HIDE DEF n, P
<1>6. overlapped \subseteq overlapped' /\ (P \in overlapped' \/ ~Panel!Busy(P))
    BY <1>2
<1>7. Formed(n)' /\ Panel!PartOf(n.kind) = P /\ \A O \in Panel!Parts : O # P => Untouched(O)
    BY <1>1 DEF n, P
<1> QED
    BY <1>1, <1>2, <1>3, <1>4, <1>5, <1>6, <1>7, OneTurn

LEMMA ToggleKeeps ==
    ASSUME Panel!PanelConstants, PanelInv, NEW q \in Requests, NEW k \in Keys, Panel!togglePref(q, k)
    PROVE  PanelInv'
<1>0. PICK arg : arg = [key |-> k, to |-> ~view.prefs[k]]
    OBVIOUS
<1> DEFINE n == Panel!Request("togglePref", arg)
           turned == [view.prefs EXCEPT ![k] = ~@]
           shown == [view EXCEPT !.prefs = turned]
<1>1. arg \in Changes /\ arg \in Args /\ "togglePref" \in Kinds /\ Panel!Tap(q, "togglePref", arg, shown)
    <2>1. arg \in Changes
        BY <1>0 DEF Changes, PanelInv, PanelTyped, ViewRecord, Prefs
    <2>2. Panel!Tap(q, "togglePref", arg, shown)
        BY <1>0 DEF Panel!togglePref
    <2> QED
        BY <2>1, <2>2 DEF Args, Kinds
<1>2. n \in PanelRequest /\ n.pc = "read" /\ n.kind = "togglePref" /\ n.arg = arg
    BY <1>1, NewFields
<1>3. Panel!PartOf("togglePref") = "prefs"
    BY DEF Panel!PartOf
<1>4. /\ view' = shown /\ UNCHANGED <<pref, notices, read, row, doubtful>>
      /\ req' = [req EXCEPT ![q] = n] /\ overlapped' \subseteq Panel!Parts
    BY <1>1, <1>3 DEF Panel!Tap, Panel!Parts, PanelInv, PanelTyped
<1>5. turned \in Prefs
    BY DEF PanelInv, PanelTyped, ViewRecord, Prefs
<1> HIDE DEF turned
<1>6. /\ shown \in ViewRecord /\ shown.prefs = turned /\ shown.row = view.row
      /\ shown.listed = view.listed /\ shown.marked = view.marked /\ shown.badge = view.badge
    BY <1>5 DEF PanelInv, PanelTyped, ViewRecord
<1> HIDE DEF shown, n
<1>7. req' \in [Requests -> PanelRequest]
    BY <1>2, <1>4 DEF PanelInv, PanelTyped
<1>8. PanelTyped'
    BY <1>4, <1>6, <1>7 DEF PanelInv, PanelTyped
<1>9. Formed(n)'
    BY <1>1, <1>2 DEF Formed
<1>10. \A O \in Panel!Parts : O # "prefs" => Untouched(O)
    BY <1>4, <1>6 DEF Untouched
<1>11. ASSUME "prefs" \notin overlapped, "prefs" \notin doubtful, ~Panel!Busy("prefs")
       PROVE  Shown(n)'
    <2>1. view.prefs = pref
        BY <1>11 DEF PanelInv, PartAgrees, Agrees, Panel!Parts
    <2>2. Panel!Merged(pref, arg) = turned
        BY <1>0, <2>1 DEF Panel!Merged, turned, PanelInv, PanelTyped, Prefs
    <2> QED
        BY <1>2, <1>4, <1>6, <2>2 DEF Shown, Panel!Merged
<1> QED
    BY <1>1, <1>3, <1>8, <1>9, <1>10, <1>11, TapTurns DEF n

LEMMA SaveTapKeeps ==
    ASSUME Panel!PanelConstants, PanelInv, NEW q \in Requests, NEW a \in PanelAddresses \cup {None}, Panel!saveAddress(q, a)
    PROVE  PanelInv'
<1> DEFINE n == Panel!Request("saveAddress", a)
<1>1. a \in Args /\ "saveAddress" \in Kinds /\ Panel!Tap(q, "saveAddress", a, view) /\ Panel!PartOf("saveAddress") = "row"
    BY DEF Args, Kinds, Panel!saveAddress, Panel!PartOf
<1>2. n \in PanelRequest /\ n.pc = "write" /\ n.kind = "saveAddress" /\ n.arg = a
    BY <1>1, NewFields
<1>3. /\ UNCHANGED <<view, pref, notices, read, row, doubtful>>
      /\ req' = [req EXCEPT ![q] = n] /\ overlapped' \subseteq Panel!Parts
    BY <1>1 DEF Panel!Tap, Panel!Parts, PanelInv, PanelTyped
<1> HIDE DEF n
<1>4. req' \in [Requests -> PanelRequest]
    BY <1>2, <1>3 DEF PanelInv, PanelTyped
<1>5. PanelTyped'
    BY <1>3, <1>4 DEF PanelInv, PanelTyped
<1>6. Formed(n)'
    BY <1>2 DEF Formed
<1>7. \A O \in Panel!Parts : O # "row" => Untouched(O)
    BY <1>3 DEF Untouched
<1>8. ASSUME "row" \notin overlapped, "row" \notin doubtful, ~Panel!Busy("row")
      PROVE  Shown(n)'
    <2>1. view.row = row
        BY <1>8 DEF PanelInv, PartAgrees, Agrees, Panel!Parts
    <2> QED
        BY <1>2, <1>3, <2>1 DEF Shown
<1> QED
    BY <1>1, <1>5, <1>6, <1>7, <1>8, TapTurns DEF n

LEMMA VerifyTapKeeps ==
    ASSUME Panel!PanelConstants, PanelInv, NEW q \in Requests, Panel!checkVerify(q)
    PROVE  PanelInv'
<1> DEFINE n == Panel!Request("checkVerify", None)
<1>1. None \in Args /\ "checkVerify" \in Kinds /\ Panel!Tap(q, "checkVerify", None, view) /\ Panel!PartOf("checkVerify") = "row"
    BY DEF Args, Kinds, Panel!checkVerify, Panel!PartOf
<1>2. n \in PanelRequest /\ n.pc = "read" /\ n.kind = "checkVerify"
    BY <1>1, NewFields
<1>3. /\ UNCHANGED <<view, pref, notices, read, row, doubtful>>
      /\ req' = [req EXCEPT ![q] = n] /\ overlapped' \subseteq Panel!Parts
    BY <1>1 DEF Panel!Tap, Panel!Parts, PanelInv, PanelTyped
<1> HIDE DEF n
<1>4. req' \in [Requests -> PanelRequest]
    BY <1>2, <1>3 DEF PanelInv, PanelTyped
<1>5. PanelTyped'
    BY <1>3, <1>4 DEF PanelInv, PanelTyped
<1>6. Formed(n)'
    BY <1>2 DEF Formed
<1>7. \A O \in Panel!Parts : O # "row" => Untouched(O)
    BY <1>3 DEF Untouched
<1>8. ASSUME "row" \notin overlapped, "row" \notin doubtful, ~Panel!Busy("row")
      PROVE  Shown(n)'
    <2>1. view.row = row
        BY <1>8 DEF PanelInv, PartAgrees, Agrees, Panel!Parts
    <2> QED
        BY <1>2, <1>3, <2>1 DEF Shown
<1> QED
    BY <1>1, <1>5, <1>6, <1>7, <1>8, TapTurns DEF n

LEMMA NoticesFinite ==
    ASSUME Panel!PanelConstants, PanelTyped, NEW R
    PROVE  /\ IsFiniteSet(view.listed \ R) /\ IsFiniteSet((1..notices) \ R)
           /\ Cardinality(view.listed \ R) \in Nat /\ Cardinality((1..notices) \ R) \in Nat
<1>1. 1..notices \in SUBSET Int /\ IsFiniteSet(1..notices)
    BY FS_Interval DEF PanelTyped, Panel!PanelConstants
<1>2. view.listed \ R \subseteq 1..notices /\ (1..notices) \ R \subseteq 1..notices
    BY DEF PanelTyped
<1> QED
    BY <1>1, <1>2, FS_Subset, FS_CardinalityType

LEMMA MarkAllTapKeeps ==
    ASSUME Panel!PanelConstants, PanelInv, NEW q \in Requests, Panel!markAllRead(q)
    PROVE  PanelInv'
<1> DEFINE n == Panel!Request("mark", Panel!All)
           shown == [view EXCEPT !.marked = view.listed, !.badge = 0]
<1>1. Panel!All \in Args /\ "mark" \in Kinds /\ Panel!Tap(q, "mark", Panel!All, shown) /\ Panel!PartOf("mark") = "notes"
    BY DEF Args, Kinds, Panel!markAllRead, Panel!PartOf, Panel!All
<1>2. n \in PanelRequest /\ n.pc = "write" /\ n.kind = "mark" /\ n.arg = 0
    BY <1>1, NewFields DEF Panel!All
<1>3. view \in ViewRecord /\ view.listed \in SUBSET Nat /\ 0 \in 0..MaxNotices
    BY DEF PanelInv, PanelTyped, ViewRecord, Panel!PanelConstants
<1>4. /\ shown \in ViewRecord /\ shown.prefs = view.prefs /\ shown.row = view.row
      /\ shown.listed = view.listed /\ shown.marked = view.listed /\ shown.badge = 0
    BY <1>3 DEF ViewRecord
<1>5. /\ view' = shown /\ UNCHANGED <<pref, notices, read, row, doubtful>>
      /\ req' = [req EXCEPT ![q] = n] /\ overlapped' \subseteq Panel!Parts
    BY <1>1 DEF Panel!Tap, Panel!Parts, PanelInv, PanelTyped
<1> HIDE DEF shown, n
<1>6. req' \in [Requests -> PanelRequest]
    BY <1>2, <1>5 DEF PanelInv, PanelTyped
<1>7. PanelTyped'
    BY <1>4, <1>5, <1>6 DEF PanelInv, PanelTyped
<1>8. notices' \in Nat
    BY <1>5 DEF PanelInv, PanelTyped, Panel!PanelConstants
<1>9. n = n' /\ Formed(n)'
    BY <1>2, <1>8 DEF Formed, n, Panel!Request, Panel!First, Panel!All
<1>10. \A O \in Panel!Parts : O # "notes" => Untouched(O)
    BY <1>4, <1>5 DEF Untouched
<1>11. Shown(n)'
    <2>1. view'.listed \subseteq 1..notices' /\ WillRead(n)' = read' \cup (1..notices')
        BY <1>2, <1>7, <1>9 DEF PanelTyped, WillRead, Panel!All
    <2>2. view'.marked = view'.listed \cap WillRead(n)'
        BY <1>4, <1>5, <2>1
    <2>3. view'.listed \ view'.marked = {} /\ (1..notices') \ WillRead(n)' = {} /\ view'.badge = 0
        BY <1>4, <1>5, <2>1
    <2>4. Listing(WillRead(n))'
        BY <2>2, <2>3, FS_EmptySet DEF Listing
    <2> QED
        BY <1>2, <1>9, <2>4 DEF Shown
<1> QED
    BY <1>1, <1>7, <1>9, <1>10, <1>11, TapTurns DEF n

LEMMA MarkOneTapKeeps ==
    ASSUME Panel!PanelConstants, PanelInv, NEW q \in Requests, NEW m \in view.listed, Panel!markOne(q, m)
    PROVE  PanelInv'
<1> DEFINE n == Panel!Request("mark", m)
           marks == view.marked \cup {m}
           left == IF view.badge > 0 THEN view.badge - 1 ELSE 0
           shown == [view EXCEPT !.marked = marks, !.badge = left]
<1>1. m \in 1..notices /\ m \in Args /\ "mark" \in Kinds /\ Panel!Tap(q, "mark", m, shown) /\ Panel!PartOf("mark") = "notes"
    BY DEF Args, Kinds, Panel!markOne, Panel!PartOf, PanelInv, PanelTyped
<1>2. n \in PanelRequest /\ n.pc = "write" /\ n.kind = "mark" /\ n.arg = m
    BY <1>1, NewFields
<1>3. /\ view \in ViewRecord /\ view.listed \in SUBSET Nat /\ view.badge \in 0..MaxNotices
      /\ marks \in SUBSET Nat /\ marks \subseteq view.listed /\ left \in 0..MaxNotices
    BY <1>1 DEF PanelInv, PanelTyped, ViewRecord, Panel!PanelConstants
<1>left. left \in Nat /\ (view.badge > 0 => left = view.badge - 1)
    BY <1>3 DEF Panel!PanelConstants
<1>marks. marks = view.marked \cup {m} /\ m \notin view.marked
    BY DEF Panel!markOne
<1> HIDE DEF marks, left
<1>4. /\ shown \in ViewRecord /\ shown.prefs = view.prefs /\ shown.row = view.row
      /\ shown.listed = view.listed /\ shown.marked = marks /\ shown.badge = left
    BY <1>3 DEF ViewRecord
<1>5. /\ view' = shown /\ UNCHANGED <<pref, notices, read, row, doubtful>>
      /\ req' = [req EXCEPT ![q] = n] /\ overlapped' \subseteq Panel!Parts
    BY <1>1 DEF Panel!Tap, Panel!Parts, PanelInv, PanelTyped
<1> HIDE DEF shown, n
<1>6. req' \in [Requests -> PanelRequest]
    BY <1>2, <1>5 DEF PanelInv, PanelTyped
<1>7. PanelTyped'
    BY <1>3, <1>4, <1>5, <1>6 DEF PanelInv, PanelTyped
<1>8. m \in 0..notices'
    BY <1>1, <1>5
<1>9. n = n' /\ Formed(n)'
    BY <1>2, <1>8 DEF Formed, n
<1>10. \A O \in Panel!Parts : O # "notes" => Untouched(O)
    BY <1>4, <1>5 DEF Untouched
<1>11. ASSUME "notes" \notin overlapped, "notes" \notin doubtful, ~Panel!Busy("notes")
       PROVE  Shown(n)'
    <2>1. Listing(read)
        BY <1>11 DEF PanelInv, PartAgrees, Agrees, Panel!Parts
    <2>2. m # 0 /\ WillRead(n)' = read \cup {m} /\ m \notin read
        BY <1>1, <1>2, <1>5, <1>9, <1>marks, <2>1 DEF WillRead, Panel!All, Listing
    <2>3. view'.marked = view'.listed \cap (read \cup {m})
        BY <1>4, <1>5, <1>marks, <2>1 DEF Listing
    <2>4. /\ Cardinality(view.listed \ marks) = Cardinality(view.listed \ view.marked) - 1
          /\ Cardinality(view.listed \ view.marked) \in Nat /\ Cardinality(view.listed \ view.marked) > 0
        <3>1. /\ view.listed \ marks = (view.listed \ view.marked) \ {m}
              /\ m \in view.listed \ view.marked
            BY <1>marks
        <3>2. IsFiniteSet(view.listed \ view.marked) /\ IsFiniteSet(view.listed \ marks)
            BY NoticesFinite DEF PanelInv
        <3>3. Cardinality(view.listed \ view.marked) \in Nat /\ Cardinality(view.listed \ marks) \in Nat
            BY NoticesFinite DEF PanelInv
        <3>4. Cardinality((view.listed \ view.marked) \ {m}) = Cardinality(view.listed \ view.marked) - 1
            BY <3>1, <3>2, FS_RemoveElement
        <3>5. Cardinality(view.listed \ marks) = Cardinality(view.listed \ view.marked) - 1
            BY <3>1, <3>4
        <3> QED
            BY <3>3, <3>5
    <2>5. /\ Cardinality((1..notices) \ (read \cup {m})) = Cardinality((1..notices) \ read) - 1
          /\ Cardinality((1..notices) \ read) \in Nat
        <3>1. /\ (1..notices) \ (read \cup {m}) = ((1..notices) \ read) \ {m}
              /\ m \in (1..notices) \ read
            BY <1>1, <2>2
        <3>2. IsFiniteSet((1..notices) \ read) /\ Cardinality((1..notices) \ read) \in Nat
            BY NoticesFinite DEF PanelInv
        <3>3. Cardinality(((1..notices) \ read) \ {m}) = Cardinality((1..notices) \ read) - 1
            BY <3>1, <3>2, FS_RemoveElement
        <3> QED
            BY <3>1, <3>2, <3>3
    <2>6. view.badge > 0 /\ left = view.badge - 1
        BY <1>3, <1>left, <2>1, <2>4 DEF Listing, Panel!PanelConstants
    <2>7. /\ Cardinality(view.listed \ marks) <= left
          /\ left <= Cardinality((1..notices) \ (read \cup {m}))
        BY <1>3, <2>1, <2>4, <2>5, <2>6 DEF Listing, Panel!PanelConstants
    <2>8. Listing(WillRead(n))'
        BY <1>4, <1>5, <1>9, <2>2, <2>3, <2>7 DEF Listing
    <2> QED
        BY <1>2, <1>9, <2>8 DEF Shown
<1> QED
    BY <1>1, <1>7, <1>9, <1>10, <1>11, TapTurns DEF n

-----------------------------------------------------------------------------
(* The endpoints read *)

LEMMA GotFields ==
    ASSUME NEW r \in PanelRequest, r.pc # "idle", NEW to \in Pcs, NEW value \in Prefs \cup ListRecord \cup Panel!Rows
    PROVE  LET n == [pc |-> to, kind |-> r.kind, arg |-> r.arg, got |-> value]
           IN  /\ n \in PanelRequest /\ n \in WithGot
               /\ n.pc = to /\ n.kind = r.kind /\ n.arg = r.arg /\ n.got = value
    BY RequestFields DEF PanelRequest, WithGot

\* What is known of a request under way.
LEMMA UnderWay ==
    ASSUME PanelInv, NEW q \in Requests, req[q].pc # "idle"
    PROVE  /\ req[q] \in PanelRequest /\ req[q].pc \in Pcs /\ req[q].kind \in Kinds
           /\ Formed(req[q]) /\ Panel!PartOf(req[q].kind) \in Panel!Parts /\ On(q, Panel!PartOf(req[q].kind))
    BY RequestFields, PartsAre DEF PanelInv, PanelTyped, RequestsFormed, On

\* A step that changes nothing but its request, and perhaps leaves its part in doubt.
LEMMA OnlyTurns ==
    ASSUME Panel!PanelConstants, PanelInv, NEW q \in Requests, NEW n, NEW P \in Panel!Parts, On(q, P), Turns(q, n),
           UNCHANGED <<pref, notices, read, row, view, overlapped>>,
           doubtful \subseteq doubtful', doubtful' \subseteq doubtful \cup {P},
           n.pc # "idle" => Panel!PartOf(n.kind) = P /\ Formed(n),
           P \notin overlapped /\ Aware(req[q]) /\ (P \notin doubtful' => Shown(req[q]))
               => /\ n.pc # "idle" => Aware(n) /\ (P \notin doubtful' => Shown(n))
                  /\ n.pc = "idle" /\ P \notin doubtful' => Agrees(P)
    PROVE  PanelInv'
<1>1. PanelTyped'
    BY TurnsTo DEF PanelInv, PanelTyped
<1>2. P \notin overlapped => Aware(req[q]) /\ (P \notin doubtful' => Shown(req[q]))
    BY DEF PanelInv, PartAgrees
<1>3. Formed(n) => Formed(n)'
    BY DEF Formed
<1>4. Aware(n) => Aware(n)'
    BY DEF Aware
<1>5. Shown(n) => Shown(n)'
    BY DEF Shown, Listing, WillRead
<1>6. Agrees(P) => Agrees(P)'
    BY DEF Agrees, Listing
<1>7. \A O \in Panel!Parts : O # P => Untouched(O)
    BY DEF Untouched
<1> QED
    BY <1>1, <1>2, <1>3, <1>4, <1>5, <1>6, <1>7, OneTurn

LEMMA ReadPrefsKeeps ==
    ASSUME Panel!PanelConstants, PanelInv, NEW q \in Requests, Panel!ReadPrefs(q)
    PROVE  PanelInv'
<1>1. PICK to \in {"answer", "write"} :
        /\ req[q].pc = "read" /\ Panel!Got(q, to, pref)
        /\ \/ req[q].kind = "loadPrefs" /\ to = "answer"
           \/ req[q].kind = "togglePref" /\ to = "write"
    BY DEF Panel!ReadPrefs, Panel!Has
<1>2. PICK n : n = [pc |-> to, kind |-> req[q].kind, arg |-> req[q].arg, got |-> pref]
    OBVIOUS
<1>3. UNCHANGED <<pref, notices, read, row, view, overlapped, doubtful>>
    BY DEF Panel!ReadPrefs, Panel!serverVars, Panel!rest
<1>4. /\ pref \in Prefs /\ to \in Pcs /\ req[q] \in PanelRequest /\ req[q].pc # "idle"
      /\ Formed(req[q]) /\ "prefs" \in Panel!Parts
    BY <1>1, UnderWay DEF PanelInv, PanelTyped, Pcs, Panel!Parts
<1>5. /\ n \in PanelRequest /\ n \in WithGot
      /\ n.pc = to /\ n.kind = req[q].kind /\ n.arg = req[q].arg /\ n.got = pref
    BY <1>2, <1>4, GotFields
<1>6. Turns(q, n)
    BY <1>1, <1>2, <1>5 DEF Turns, Panel!Got
<1>7. On(q, "prefs") /\ Panel!PartOf(n.kind) = "prefs"
    BY <1>1, <1>5 DEF On, Panel!PartOf
<1>8. Formed(n)
    BY <1>1, <1>4, <1>5 DEF Formed
<1>9. Aware(n) /\ (Shown(req[q]) => Shown(n)) /\ n.pc # "idle"
    BY <1>1, <1>5 DEF Aware, Shown
<1> QED
    BY <1>3, <1>4, <1>6, <1>7, <1>8, <1>9, OnlyTurns

LEMMA ListNotesKeeps ==
    ASSUME Panel!PanelConstants, PanelInv, NEW q \in Requests, Panel!ListNotes(q)
    PROVE  PanelInv'
<1>1. PICK L : L = {n \in 1..notices : n > notices - LIMIT}
    OBVIOUS
<1>2. PICK value : value = [listed |-> L, marked |-> L \cap read, badge |-> 0]
    OBVIOUS
<1>3. req[q].pc = "read" /\ req[q].kind = "loadNotes" /\ Panel!Got(q, "count", value)
    BY <1>1, <1>2 DEF Panel!ListNotes, Panel!Has
<1>4. PICK n : n = [pc |-> "count", kind |-> req[q].kind, arg |-> req[q].arg, got |-> value]
    OBVIOUS
<1>5. UNCHANGED <<pref, notices, read, row, view, overlapped, doubtful>>
    BY DEF Panel!ListNotes, Panel!serverVars, Panel!rest
<1>6. L \subseteq 1..notices /\ 1..notices \subseteq Nat /\ 0 \in 0..MaxNotices
    BY <1>1 DEF PanelInv, PanelTyped, Panel!PanelConstants
<1>7. /\ value \in ListRecord /\ value.listed = L /\ value.marked = L \cap read
    BY <1>2, <1>6 DEF ListRecord
<1>8. "count" \in Pcs /\ req[q] \in PanelRequest /\ req[q].pc # "idle" /\ "notes" \in Panel!Parts
    BY <1>3, UnderWay DEF Pcs, Panel!Parts
<1>9. /\ n \in PanelRequest /\ n \in WithGot
      /\ n.pc = "count" /\ n.kind = "loadNotes" /\ n.got = value
    BY <1>3, <1>4, <1>7, <1>8, GotFields
<1>10. Turns(q, n)
    BY <1>3, <1>4, <1>9 DEF Turns, Panel!Got
<1>11. On(q, "notes") /\ Panel!PartOf(n.kind) = "notes"
    BY <1>3, <1>9 DEF On, Panel!PartOf
<1>12. Formed(n)
    BY <1>6, <1>7, <1>9 DEF Formed
<1>13. Aware(n) /\ Shown(n) /\ n.pc # "idle"
    BY <1>7, <1>9 DEF Aware, Shown
<1> QED
    BY <1>5, <1>8, <1>10, <1>11, <1>12, <1>13, OnlyTurns

LEMMA CountNotesKeeps ==
    ASSUME Panel!PanelConstants, PanelInv, NEW q \in Requests, Panel!CountNotes(q)
    PROVE  PanelInv'
<1>1. PICK c : c = Cardinality((1..notices) \ read)
    OBVIOUS
<1>2. PICK value : value = [req[q].got EXCEPT !.badge = c]
    OBVIOUS
<1>3. req[q].pc = "count" /\ req[q].kind = "loadNotes" /\ Panel!Got(q, "answer", value)
    BY <1>1, <1>2, SameOnThePanel DEF Panel!CountNotes, Panel!Has
<1>4. PICK n : n = [pc |-> "answer", kind |-> req[q].kind, arg |-> req[q].arg, got |-> value]
    OBVIOUS
<1>5. UNCHANGED <<pref, notices, read, row, view, overlapped, doubtful>>
    BY DEF Panel!CountNotes, Panel!serverVars, Panel!rest
<1>6. c \in 0..MaxNotices
    <2>1. IsFiniteSet(1..notices) /\ Cardinality(1..notices) = notices /\ notices \in 0..MaxNotices
        BY FS_Interval DEF PanelInv, PanelTyped, Panel!PanelConstants
    <2>2. c \in Nat /\ c <= notices
        BY <1>1, <2>1, FS_Subset, FS_CardinalityType
    <2> QED
        BY <2>1, <2>2 DEF Panel!PanelConstants
<1>7. /\ "answer" \in Pcs /\ req[q] \in PanelRequest /\ req[q].pc # "idle" /\ "notes" \in Panel!Parts
      /\ Formed(req[q])
    BY <1>3, UnderWay DEF Pcs, Panel!Parts
<1>8. /\ req[q].got \in ListRecord
      /\ req[q].got.marked \subseteq req[q].got.listed /\ req[q].got.listed \subseteq 1..notices
    BY <1>3, <1>7 DEF Formed
<1>9. /\ value \in ListRecord /\ value.listed = req[q].got.listed /\ value.marked = req[q].got.marked
      /\ value.badge = c
    BY <1>2, <1>6, <1>8 DEF ListRecord
<1>10. /\ n \in PanelRequest /\ n \in WithGot
       /\ n.pc = "answer" /\ n.kind = "loadNotes" /\ n.got = value
    BY <1>3, <1>4, <1>7, <1>9, GotFields
<1>11. Turns(q, n)
    BY <1>3, <1>4, <1>10 DEF Turns, Panel!Got
<1>12. On(q, "notes") /\ Panel!PartOf(n.kind) = "notes"
    BY <1>3, <1>10 DEF On, Panel!PartOf
<1>13. Formed(n)
    BY <1>8, <1>9, <1>10 DEF Formed
<1>14. ASSUME Aware(req[q])
       PROVE  Aware(n)
    <2>1. value.marked = value.listed \cap read
        BY <1>3, <1>9, <1>14 DEF Aware
    <2>2. value.listed \ value.marked \subseteq (1..notices) \ read
        BY <1>8, <1>9, <2>1
    <2>3. IsFiniteSet((1..notices) \ read)
        BY NoticesFinite DEF PanelInv
    <2>4. Cardinality(value.listed \ value.marked) <= c /\ c <= Cardinality((1..notices) \ read)
        BY <1>1, <1>6, <2>2, <2>3, FS_Subset DEF Panel!PanelConstants
    <2> QED
        BY <1>9, <1>10, <2>1, <2>4 DEF Aware
<1>15. Shown(n) /\ n.pc # "idle"
    BY <1>10 DEF Shown
<1> QED
    BY <1>5, <1>7, <1>11, <1>12, <1>13, <1>14, <1>15, OnlyTurns

LEMMA ReadAccountKeeps ==
    ASSUME Panel!PanelConstants, PanelInv, NEW q \in Requests, Panel!ReadAccount(q)
    PROVE  PanelInv'
<1>1. req[q].pc = "read" /\ req[q].kind = "refetch" /\ Panel!Got(q, "answer", row)
    BY DEF Panel!ReadAccount, Panel!Has
<1>2. PICK n : n = [pc |-> "answer", kind |-> req[q].kind, arg |-> req[q].arg, got |-> row]
    OBVIOUS
<1>3. UNCHANGED <<pref, notices, read, row, view, overlapped, doubtful>>
    BY DEF Panel!ReadAccount, Panel!serverVars, Panel!rest
<1>4. row \in Panel!Rows /\ "answer" \in Pcs /\ req[q] \in PanelRequest /\ req[q].pc # "idle" /\ "row" \in Panel!Parts
    BY <1>1, UnderWay DEF PanelInv, PanelTyped, Pcs, Panel!Parts
<1>5. n \in PanelRequest /\ n \in WithGot /\ n.pc = "answer" /\ n.kind = "refetch" /\ n.got = row
    BY <1>1, <1>2, <1>4, GotFields
<1>6. Turns(q, n)
    BY <1>1, <1>2, <1>5 DEF Turns, Panel!Got
<1>7. On(q, "row") /\ Panel!PartOf(n.kind) = "row"
    BY <1>1, <1>5 DEF On, Panel!PartOf
<1>8. Formed(n) /\ Aware(n) /\ Shown(n) /\ n.pc # "idle"
    BY <1>4, <1>5 DEF Formed, Aware, Shown
<1> QED
    BY <1>3, <1>4, <1>6, <1>7, <1>8, OnlyTurns

\* The address is read, and its verification asked for.
LEMMA AskingKeeps ==
    ASSUME Panel!PanelConstants, PanelInv, NEW q \in Requests, Panel!ReadAddress(q) \/ Panel!AskVerify(q)
    PROVE  PanelInv'
<1>1. PICK to \in {"ask", "write", "said no"} :
        req[q].pc \in {"read", "ask"} /\ req[q].kind = "checkVerify" /\ Panel!Step(q, to)
    BY DEF Panel!ReadAddress, Panel!AskVerify, Panel!Has
<1>2. PICK n : n = [req[q] EXCEPT !.pc = to]
    OBVIOUS
<1>3. UNCHANGED <<pref, notices, read, row, view, overlapped, doubtful>>
    BY DEF Panel!ReadAddress, Panel!AskVerify, Panel!serverVars, Panel!rest
<1>4. to \in Pcs /\ to # "answer" /\ to # "idle" /\ req[q] \in PanelRequest /\ req[q].pc # "idle" /\ "row" \in Panel!Parts
    BY <1>1, UnderWay DEF Pcs, Panel!Parts
<1>5. n \in PanelRequest /\ n.pc = to /\ n.kind = "checkVerify"
    BY <1>1, <1>2, <1>4, StepFields
<1>6. Turns(q, n)
    BY <1>1, <1>2, <1>5 DEF Turns, Panel!Step
<1>7. On(q, "row") /\ Panel!PartOf(n.kind) = "row"
    BY <1>1, <1>5 DEF On, Panel!PartOf
<1>8. Formed(n) /\ Aware(n) /\ (Shown(req[q]) => Shown(n)) /\ n.pc # "idle"
    BY <1>1, <1>4, <1>5 DEF Formed, Aware, Shown
<1> QED
    BY <1>3, <1>4, <1>6, <1>7, <1>8, OnlyTurns

LEMMA RefusedKeeps ==
    ASSUME Panel!PanelConstants, PanelInv, NEW q \in Requests, Panel!Refused(q)
    PROVE  PanelInv'
<1>1. req[q].pc = "write" /\ req[q].kind = "saveAddress"
    BY DEF Panel!Refused, Panel!Has
<1>2. PICK n : n = Panel!Idle
    OBVIOUS
<1>3. UNCHANGED <<pref, notices, read, row, view, overlapped, doubtful>> /\ "row" \in Panel!Parts
    BY DEF Panel!Refused, Panel!serverVars, Panel!rest, Panel!Parts
<1>4. Turns(q, n) /\ n.pc = "idle"
    BY <1>2 DEF Panel!Refused, Turns, Panel!Idle, PanelRequest
<1>5. On(q, "row")
    BY <1>1 DEF On, Panel!PartOf
<1>6. Shown(req[q]) => Agrees("row")
    BY <1>1 DEF Shown, Agrees
<1> QED
    BY <1>3, <1>4, <1>5, <1>6, OnlyTurns

-----------------------------------------------------------------------------
(* The endpoints write *)

LEMMA WritePrefsKeeps ==
    ASSUME Panel!PanelConstants, PanelInv, NEW q \in Requests, Panel!WritePrefs(q)
    PROVE  PanelInv'
<1>1. req[q].pc = "write" /\ req[q].kind = "togglePref" /\ Panel!Step(q, "answer")
    BY DEF Panel!WritePrefs, Panel!Has
<1>2. PICK n : n = [req[q] EXCEPT !.pc = "answer"]
    OBVIOUS
<1>3. /\ UNCHANGED <<notices, read, row, view, overlapped, doubtful>>
      /\ pref' = Panel!Merged(req[q].got, req[q].arg)
    BY DEF Panel!WritePrefs, Panel!rest
<1>4. /\ "answer" \in Pcs /\ req[q] \in PanelRequest /\ req[q].pc # "idle" /\ "prefs" \in Panel!Parts
      /\ Formed(req[q])
    BY <1>1, UnderWay DEF Pcs, Panel!Parts
<1>5. n \in PanelRequest /\ n.pc = "answer" /\ n.kind = "togglePref" /\ n.arg = req[q].arg
    BY <1>1, <1>2, <1>4, StepFields
<1>6. Turns(q, n)
    BY <1>1, <1>2, <1>5 DEF Turns, Panel!Step
<1>7. On(q, "prefs") /\ Panel!PartOf(n.kind) = "prefs"
    BY <1>1, <1>5 DEF On, Panel!PartOf
<1>8. req[q].got \in Prefs /\ req[q].arg \in Changes
    BY <1>1, <1>4 DEF Formed
<1>9. pref' \in Prefs
    BY <1>3, <1>8 DEF Panel!Merged, Prefs, Changes
<1>10. PanelTyped'
    BY <1>3, <1>6, <1>9, TurnsTo DEF PanelInv, PanelTyped
<1>11. Formed(n)' /\ Aware(n)' /\ n.pc # "idle"
    BY <1>5, <1>8 DEF Formed, Aware
<1>12. ASSUME "prefs" \notin overlapped, "prefs" \notin doubtful
       PROVE  Shown(n)'
    <2>1. Aware(req[q]) /\ Shown(req[q])
        BY <1>4, <1>7, <1>12 DEF PanelInv, PartAgrees
    <2>2. view.prefs = pref'
        BY <1>1, <1>3, <2>1 DEF Aware, Shown
    <2> QED
        BY <1>3, <1>5, <2>2 DEF Shown
<1>13. \A O \in Panel!Parts : O # "prefs" => Untouched(O)
    BY <1>3 DEF Untouched
<1> QED
    BY <1>3, <1>4, <1>6, <1>7, <1>10, <1>11, <1>12, <1>13, OneTurn

LEMMA MarkKeeps ==
    ASSUME Panel!PanelConstants, PanelInv, NEW q \in Requests, Panel!Mark(q)
    PROVE  PanelInv'
<1>1. req[q].pc = "write" /\ req[q].kind = "mark" /\ Panel!Step(q, "answer")
    BY DEF Panel!Mark, Panel!Has
<1>2. PICK n : n = [req[q] EXCEPT !.pc = "answer"]
    OBVIOUS
<1>3. /\ UNCHANGED <<pref, notices, row, view, overlapped, doubtful>>
      /\ read' = WillRead(req[q])
    BY DEF Panel!Mark, Panel!rest, WillRead
<1>4. /\ "answer" \in Pcs /\ req[q] \in PanelRequest /\ req[q].pc # "idle" /\ "notes" \in Panel!Parts
      /\ Formed(req[q])
    BY <1>1, UnderWay DEF Pcs, Panel!Parts
<1>5. n \in PanelRequest /\ n.pc = "answer" /\ n.kind = "mark" /\ n.arg = req[q].arg
    BY <1>1, <1>2, <1>4, StepFields
<1>6. Turns(q, n)
    BY <1>1, <1>2, <1>5 DEF Turns, Panel!Step
<1>7. On(q, "notes") /\ Panel!PartOf(n.kind) = "notes"
    BY <1>1, <1>5 DEF On, Panel!PartOf
<1>8. req[q].arg \in 0..notices
    BY <1>1, <1>4 DEF Formed
<1>9. read' \subseteq 1..notices
    <2>1. read \subseteq 1..notices /\ notices \in Nat
        BY DEF PanelInv, PanelTyped, Panel!PanelConstants
    <2>2. CASE req[q].arg = 0
        BY <1>3, <2>1, <2>2 DEF WillRead, Panel!All
    <2>3. CASE req[q].arg # 0
        <3>1. req[q].arg \in 1..notices
            BY <1>8, <2>1, <2>3
        <3>2. read' = read \cup {req[q].arg}
            BY <1>3, <2>3 DEF WillRead, Panel!All
        <3> QED
            BY <2>1, <3>1, <3>2
    <2> QED
        BY <2>2, <2>3
<1>10. PanelTyped'
    BY <1>3, <1>6, <1>9, TurnsTo DEF PanelInv, PanelTyped
<1>11. Formed(n)' /\ Aware(n)' /\ n.pc # "idle"
    BY <1>3, <1>5, <1>8 DEF Formed, Aware
<1>12. ASSUME "notes" \notin overlapped, "notes" \notin doubtful
       PROVE  Shown(n)'
    <2>1. Shown(req[q])
        BY <1>4, <1>7, <1>12 DEF PanelInv, PartAgrees
    <2>2. Listing(WillRead(req[q]))
        BY <1>1, <2>1 DEF Shown
    <2>3. Listing(read)'
        BY <1>3, <2>2 DEF Listing
    <2> QED
        BY <1>5, <2>3 DEF Shown
<1>13. \A O \in Panel!Parts : O # "notes" => Untouched(O)
    BY <1>3 DEF Untouched
<1> QED
    BY <1>3, <1>4, <1>6, <1>7, <1>10, <1>11, <1>12, <1>13, OneTurn

\* Her row is written: the address, or its stamp.
LEMMA RowWritesKeep ==
    ASSUME Panel!PanelConstants, PanelInv, NEW q \in Requests, Panel!SaveAddress(q) \/ Panel!Stamp(q)
    PROVE  PanelInv'
<1>1. req[q].pc = "write" /\ req[q].kind \in {"saveAddress", "checkVerify"} /\ Panel!Step(q, "answer")
    BY DEF Panel!SaveAddress, Panel!Stamp, Panel!Has
<1>2. PICK n : n = [req[q] EXCEPT !.pc = "answer"]
    OBVIOUS
<1>3. UNCHANGED <<pref, notices, read, view, overlapped, doubtful>>
    BY DEF Panel!SaveAddress, Panel!Stamp, Panel!rest
<1>4. /\ "answer" \in Pcs /\ req[q] \in PanelRequest /\ req[q].pc # "idle" /\ "row" \in Panel!Parts
      /\ Formed(req[q])
    BY <1>1, UnderWay DEF Pcs, Panel!Parts
<1>5. n \in PanelRequest /\ n.pc = "answer" /\ n.kind = req[q].kind /\ n.arg = req[q].arg
    BY <1>1, <1>2, <1>4, StepFields
<1>6. Turns(q, n)
    BY <1>1, <1>2, <1>5 DEF Turns, Panel!Step
<1>7. On(q, "row") /\ Panel!PartOf(n.kind) = "row"
    BY <1>1, <1>5 DEF On, Panel!PartOf
<1>8. row' \in Panel!Rows
    <2>1. CASE Panel!SaveAddress(q)
        <3>1. req[q].arg \in PanelAddresses \cup {None} /\ row' = [address |-> req[q].arg, verified |-> FALSE]
            BY <1>1, <1>4, <2>1 DEF Panel!SaveAddress, Panel!Has, Formed
        <3> QED
            BY <3>1 DEF Panel!Rows
    <2>2. CASE Panel!Stamp(q)
        BY <2>2 DEF Panel!Stamp, Panel!Rows, PanelInv, PanelTyped
    <2> QED
        BY <2>1, <2>2
<1>9. PanelTyped'
    BY <1>3, <1>6, <1>8, TurnsTo DEF PanelInv, PanelTyped
<1>10. Formed(n)' /\ Aware(n)' /\ Shown(n)' /\ n.pc # "idle"
    BY <1>1, <1>4, <1>5 DEF Formed, Aware, Shown
<1>11. \A O \in Panel!Parts : O # "row" => Untouched(O)
    BY <1>3 DEF Untouched
<1> QED
    BY <1>3, <1>4, <1>6, <1>7, <1>9, <1>10, <1>11, OneTurn

-----------------------------------------------------------------------------
(* The answers *)

LEMMA LoadKeeps ==
    ASSUME Panel!PanelConstants, PanelInv, NEW q \in Requests, Panel!Answered(q), Panel!IsLoad(q)
    PROVE  PanelInv'
<1>1. req[q].pc \in {"answer", "said no"} /\ req[q].kind \in {"loadPrefs", "loadNotes", "refetch"}
    BY DEF Panel!Answered, Panel!IsLoad
<1>2. /\ req[q] \in PanelRequest /\ req[q].pc # "idle" /\ Formed(req[q])
      /\ Panel!PartOf(req[q].kind) \in Panel!Parts /\ On(q, Panel!PartOf(req[q].kind))
    BY <1>1, UnderWay
<1>3. req[q].pc = "answer"
    BY <1>1, <1>2 DEF Formed
<1>4. PICK n : n = Panel!Idle
    OBVIOUS
<1>5. PICK P : P = Panel!PartOf(req[q].kind)
    OBVIOUS
<1>6. /\ UNCHANGED <<pref, notices, read, row, overlapped>> /\ Turns(q, n) /\ n.pc = "idle"
      /\ view' = Panel!Loaded(q) /\ doubtful' = doubtful \ {P}
    BY <1>4, <1>5 DEF Panel!Answered, Panel!serverVars, Turns, PanelRequest, Panel!Idle
<1>7. P \notin overlapped => Aware(req[q])
    BY <1>2, <1>5 DEF PanelInv, PartAgrees
<1>8. req' \in [Requests -> PanelRequest]
    BY <1>6, TurnsTo DEF PanelInv
<1>9. view \in ViewRecord
    BY DEF PanelInv, PanelTyped
<1>10. CASE req[q].kind = "loadPrefs"
    <2>1. req[q].got \in Prefs /\ view' = [view EXCEPT !.prefs = req[q].got] /\ P = "prefs"
        BY <1>2, <1>3, <1>5, <1>6, <1>10 DEF Formed, Panel!Loaded, Panel!PartOf
    <2>2. /\ view' \in ViewRecord /\ view'.prefs = req[q].got /\ view'.row = view.row
          /\ view'.listed = view.listed /\ view'.marked = view.marked /\ view'.badge = view.badge
        BY <1>9, <2>1 DEF ViewRecord
    <2>3. PanelTyped'
        BY <1>6, <1>8, <2>2 DEF PanelInv, PanelTyped
    <2>4. \A O \in Panel!Parts : O # P => Untouched(O)
        BY <1>6, <2>1, <2>2 DEF Untouched
    <2>5. P \notin overlapped => Agrees(P)'
        BY <1>3, <1>6, <1>7, <1>10, <2>1, <2>2 DEF Agrees, Aware
    <2> QED
        BY <1>2, <1>5, <1>6, <2>3, <2>4, <2>5, OneTurn
<1>11. CASE req[q].kind = "loadNotes"
    <2>1. /\ req[q].got \in ListRecord /\ P = "notes"
          /\ req[q].got.marked \subseteq req[q].got.listed /\ req[q].got.listed \subseteq 1..notices
        BY <1>2, <1>3, <1>5, <1>11 DEF Formed, Panel!PartOf
    <2>2. view' = [prefs |-> view.prefs, row |-> view.row, listed |-> req[q].got.listed,
                   marked |-> req[q].got.marked, badge |-> req[q].got.badge]
        BY <1>6, <1>11 DEF Panel!Loaded
    <2>3. /\ view' \in ViewRecord /\ view'.prefs = view.prefs /\ view'.row = view.row
          /\ view'.listed = req[q].got.listed /\ view'.marked = req[q].got.marked
          /\ view'.badge = req[q].got.badge
        BY <1>9, <2>1, <2>2 DEF ViewRecord, ListRecord
    <2>4. PanelTyped'
        BY <1>6, <1>8, <2>1, <2>3 DEF PanelInv, PanelTyped
    <2>5. \A O \in Panel!Parts : O # P => Untouched(O)
        BY <1>6, <2>1, <2>3 DEF Untouched
    <2>6. P \notin overlapped => Agrees(P)'
        BY <1>3, <1>6, <1>7, <1>11, <2>1, <2>3 DEF Agrees, Aware, Listing
    <2> QED
        BY <1>2, <1>5, <1>6, <2>4, <2>5, <2>6, OneTurn
<1>12. CASE req[q].kind = "refetch"
    <2>1. req[q].got \in Panel!Rows /\ view' = [view EXCEPT !.row = req[q].got] /\ P = "row"
        BY <1>2, <1>3, <1>5, <1>6, <1>12 DEF Formed, Panel!Loaded, Panel!PartOf
    <2>2. /\ view' \in ViewRecord /\ view'.row = req[q].got /\ view'.prefs = view.prefs
          /\ view'.listed = view.listed /\ view'.marked = view.marked /\ view'.badge = view.badge
        BY <1>9, <2>1 DEF ViewRecord
    <2>3. PanelTyped'
        BY <1>6, <1>8, <2>2 DEF PanelInv, PanelTyped
    <2>4. \A O \in Panel!Parts : O # P => Untouched(O)
        BY <1>6, <2>1, <2>2 DEF Untouched
    <2>5. P \notin overlapped => Agrees(P)'
        BY <1>3, <1>6, <1>7, <1>12, <2>1, <2>2 DEF Agrees, Aware
    <2> QED
        BY <1>2, <1>5, <1>6, <2>3, <2>4, <2>5, OneTurn
<1> QED
    BY <1>1, <1>10, <1>11, <1>12

LEMMA AnswerKeeps ==
    ASSUME Panel!PanelConstants, PanelInv, NEW q \in Requests, Panel!Answered(q), ~Panel!IsLoad(q)
    PROVE  PanelInv'
<1>1. req[q].pc \in {"answer", "said no"} /\ req[q].kind \notin {"loadPrefs", "loadNotes", "refetch"}
    BY DEF Panel!Answered, Panel!IsLoad
<1>2. /\ req[q].pc # "idle" /\ Formed(req[q]) /\ req[q].kind \in Kinds
      /\ Panel!PartOf(req[q].kind) \in Panel!Parts /\ On(q, Panel!PartOf(req[q].kind))
    BY <1>1, UnderWay
<1>3. UNCHANGED <<pref, notices, read, row, view, doubtful, overlapped>>
    BY DEF Panel!Answered, Panel!serverVars
<1>4. CASE Panel!PartOf(req[q].kind) = "row" /\ req[q].pc = "answer"
    <2>1. PICK n : n = Panel!Request("refetch", None)
        OBVIOUS
    <2>2. n \in PanelRequest /\ n.pc = "read" /\ n.kind = "refetch"
        BY <2>1, NewFields DEF Kinds, Args
    <2>3. Turns(q, n)
        BY <1>4, <2>1, <2>2 DEF Panel!Answered, Turns
    <2>4. Panel!PartOf(n.kind) = "row" /\ Formed(n) /\ Aware(n) /\ Shown(n) /\ n.pc # "idle"
        BY <2>2 DEF Panel!PartOf, Formed, Aware, Shown
    <2> QED
        BY <1>2, <1>3, <1>4, <2>3, <2>4, OnlyTurns
<1>5. CASE ~(Panel!PartOf(req[q].kind) = "row" /\ req[q].pc = "answer")
    <2>1. PICK n : n = Panel!Idle
        OBVIOUS
    <2>2. Turns(q, n) /\ n.pc = "idle"
        BY <1>5, <2>1 DEF Panel!Answered, Turns, PanelRequest, Panel!Idle
    <2>3. Shown(req[q]) => Agrees(Panel!PartOf(req[q].kind))
        <3>1. CASE req[q].kind = "togglePref"
            BY <1>1, <1>2, <3>1 DEF Shown, Agrees, Panel!PartOf, Formed
        <3>2. CASE req[q].kind = "mark"
            BY <1>1, <1>2, <3>2 DEF Shown, Agrees, Panel!PartOf, Formed
        <3>3. CASE req[q].kind = "saveAddress"
            BY <1>1, <1>2, <1>5, <3>3 DEF Panel!PartOf, Formed
        <3>4. CASE req[q].kind = "checkVerify"
            BY <1>1, <1>2, <1>5, <3>4 DEF Shown, Agrees, Panel!PartOf
        <3> QED
            BY <1>1, <1>2, <3>1, <3>2, <3>3, <3>4 DEF Kinds
    <2> QED
        BY <1>2, <1>3, <2>2, <2>3, OnlyTurns
<1> QED
    BY <1>4, <1>5

LEMMA ThrowsKeeps ==
    ASSUME Panel!PanelConstants, PanelInv, NEW q \in Requests, Panel!Throws(q)
    PROVE  PanelInv'
<1>1. /\ req[q].pc # "idle" /\ req[q].kind \in Kinds
      /\ Panel!PartOf(req[q].kind) \in Panel!Parts /\ On(q, Panel!PartOf(req[q].kind))
    BY UnderWay DEF Panel!Throws
<1>2. UNCHANGED <<pref, notices, read, row, view, overlapped>>
    BY DEF Panel!Throws, Panel!serverVars
<1>3. CASE req[q].kind \in {"togglePref", "mark"}
    <2>1. PICK kind \in Kinds : kind = IF req[q].kind = "mark" THEN "loadNotes" ELSE "loadPrefs"
        BY DEF Kinds
    <2>2. PICK n : n = Panel!Request(kind, None)
        OBVIOUS
    <2>3. n \in PanelRequest /\ n.pc = "read" /\ n.kind = kind
        BY <2>1, <2>2, NewFields DEF Args
    <2>4. doubtful' = doubtful /\ Turns(q, n)
        BY <1>3, <2>1, <2>2, <2>3 DEF Panel!Throws, Panel!ReadBack, Turns
    <2>5. Panel!PartOf(n.kind) = Panel!PartOf(req[q].kind)
        BY <1>3, <2>1, <2>3 DEF Panel!PartOf
    <2>6. Formed(n) /\ Aware(n) /\ Shown(n) /\ n.pc # "idle"
        BY <2>1, <2>3 DEF Formed, Aware, Shown
    <2> QED
        BY <1>1, <1>2, <2>4, <2>5, <2>6, OnlyTurns
<1>4. CASE req[q].kind \notin {"togglePref", "mark"}
    <2>1. PICK n : n = Panel!Idle
        OBVIOUS
    <2>2. doubtful' = doubtful \cup {Panel!PartOf(req[q].kind)} /\ Turns(q, n) /\ n.pc = "idle"
        BY <1>4, <2>1 DEF Panel!Throws, Panel!ReadBack, Turns, PanelRequest, Panel!Idle
    <2> QED
        BY <1>1, <1>2, <2>2, OnlyTurns
<1> QED
    BY <1>3, <1>4

LEMMA ErrorKeeps ==
    ASSUME Panel!PanelConstants, PanelInv, NEW q \in Requests, Panel!Error(q)
    PROVE  PanelInv'
<1>1. Panel!PartOf(req[q].kind) \in Panel!Parts /\ On(q, Panel!PartOf(req[q].kind))
    BY UnderWay DEF Panel!Error
<1>2. PICK n : n = Panel!Idle
    OBVIOUS
<1>3. /\ UNCHANGED <<pref, notices, read, row, view, overlapped>>
      /\ doubtful' = doubtful \cup {Panel!PartOf(req[q].kind)} /\ Turns(q, n) /\ n.pc = "idle"
    BY <1>2 DEF Panel!Error, Panel!serverVars, Turns, PanelRequest, Panel!Idle
<1> QED
    BY <1>1, <1>3, OnlyTurns

-----------------------------------------------------------------------------
(* A notice comes *)

LEMMA UnreadFinite ==
    ASSUME NEW k \in Nat, NEW R
    PROVE  IsFiniteSet((1..k) \ R) /\ Cardinality((1..k) \ R) \in Nat
<1>1. IsFiniteSet(1..k) /\ (1..k) \ R \subseteq 1..k
    BY FS_Interval
<1> QED
    BY <1>1, FS_Subset, FS_CardinalityType

LEMMA MoreUnread ==
    ASSUME Panel!PanelConstants, PanelTyped, notices' = notices + 1, notices' \in Nat, NEW R
    PROVE  /\ (1..notices) \ R \subseteq (1..notices') \ R
           /\ Cardinality((1..notices) \ R) <= Cardinality((1..notices') \ R)
<1>1. notices \in Nat /\ 1..notices \subseteq 1..notices' /\ IsFiniteSet(1..notices')
    BY FS_Interval DEF PanelTyped, Panel!PanelConstants
<1>2. IsFiniteSet((1..notices') \ R)
    BY <1>1, FS_Subset
<1> QED
    BY <1>1, <1>2, FS_Subset

LEMMA ArriveKeeps ==
    ASSUME Panel!PanelConstants, PanelInv, Panel!Arrive
    PROVE  PanelInv'
<1>1. UNCHANGED <<pref, read, row, req, view, doubtful, overlapped>>
    BY DEF Panel!Arrive, Panel!rest
<1>2. notices \in Nat /\ notices' \in 0..MaxNotices /\ notices' = notices + 1 /\ notices' \in Nat
    BY DEF Panel!Arrive, PanelInv, PanelTyped, Panel!PanelConstants
<1>3. 1..notices \subseteq 1..notices' /\ 0..notices \subseteq 0..notices'
    BY <1>2
<1>4. PanelTyped'
    BY <1>1, <1>2, <1>3 DEF PanelInv, PanelTyped
<1>5. RequestsFormed'
    <2> SUFFICES ASSUME NEW q \in Requests, req[q].pc # "idle" PROVE Formed(req[q])'
        BY <1>1 DEF RequestsFormed
    <2>1. Formed(req[q])
        BY DEF PanelInv, RequestsFormed
    <2> QED
        BY <1>1, <1>3, <2>1 DEF Formed
<1>6. ASSUME NEW P \in Panel!Parts, P # "notes"
      PROVE  PartAgrees(P)'
    <2>1. Untouched(P)
        BY <1>1, <1>6 DEF Untouched
    <2> QED
        BY <1>1, <2>1, PartAside DEF PanelInv
<1>7. ASSUME NEW R, Listing(R)
      PROVE  Listing(R)'
    <2>1. Cardinality((1..notices) \ R) <= Cardinality((1..notices') \ R)
        BY <1>2, MoreUnread DEF PanelInv
    <2>2. /\ Cardinality((1..notices) \ R) \in Nat /\ Cardinality((1..notices') \ R) \in Nat
        BY <1>2, UnreadFinite
    <2>3. view.badge \in Nat
        BY DEF PanelInv, PanelTyped, ViewRecord, Panel!PanelConstants
    <2> QED
        BY <1>1, <1>7, <2>1, <2>2, <2>3 DEF Listing
<1>8. PartAgrees("notes")'
    <2> SUFFICES ASSUME "notes" \notin overlapped
                 PROVE  /\ Single("notes")'
                        /\ \A q \in Requests : On(q, "notes")' =>
                               Aware(req[q])' /\ ("notes" \notin doubtful => Shown(req[q])')
                        /\ "notes" \notin doubtful /\ ~Panel!Busy("notes") => Agrees("notes")'
        BY <1>1 DEF PartAgrees, Panel!Busy
    <2>1. PartAgrees("notes")
        BY DEF PanelInv, Panel!Parts
    <2>2. Single("notes")'
        BY <1>1, <2>1 DEF PartAgrees, Single, On
    <2>3. Agrees("notes") => Agrees("notes")'
        BY <1>1, <1>7 DEF Agrees
    <2>4. ASSUME NEW q \in Requests, On(q, "notes")'
          PROVE  Aware(req[q])' /\ ("notes" \notin doubtful => Shown(req[q])')
        <3>1. On(q, "notes") /\ Aware(req[q]) /\ ("notes" \notin doubtful => Shown(req[q]))
            BY <1>1, <2>1, <2>4 DEF PartAgrees, On
        <3>2. Aware(req[q])'
            <4>1. ASSUME req[q].kind = "loadNotes", req[q].pc = "answer"
                  PROVE  req[q].got.badge <= Cardinality((1..notices') \ read)
                <5>1. /\ req[q].got.badge \in Nat
                      /\ req[q].got.badge <= Cardinality((1..notices) \ read)
                    <6>1. Formed(req[q])
                        BY <4>1 DEF PanelInv, RequestsFormed
                    <6>2. req[q].got \in ListRecord
                        BY <4>1, <6>1 DEF Formed
                    <6> QED
                        BY <3>1, <4>1, <6>2 DEF Aware, ListRecord, Panel!PanelConstants
                <5>2. /\ Cardinality((1..notices) \ read) <= Cardinality((1..notices') \ read)
                      /\ Cardinality((1..notices) \ read) \in Nat /\ Cardinality((1..notices') \ read) \in Nat
                    BY <1>2, MoreUnread, UnreadFinite DEF PanelInv
                <5> QED
                    BY <5>1, <5>2
            <4> QED
                BY <1>1, <3>1, <4>1 DEF Aware
        <3>3. Shown(req[q]) => Shown(req[q])'
            <4>1. Listing(read) => Listing(read)'
                BY <1>1, <1>7
            <4>2. Listing(WillRead(req[q])) => Listing(WillRead(req[q]))'
                <5>1. CASE req[q].arg # Panel!All
                    BY <1>1, <1>7, <5>1 DEF WillRead
                <5>2. CASE req[q].arg = Panel!All
                    <6> SUFFICES ASSUME Listing(read \cup (1..notices))
                                 PROVE  Listing(read \cup (1..notices))'
                        BY <1>1, <5>2 DEF WillRead
                    <6>1. /\ (1..notices) \ (read \cup (1..notices)) = {}
                          /\ (1..notices') \ (read \cup (1..notices')) = {}
                        OBVIOUS
                    <6>2. view.listed \cap (read \cup (1..notices')) = view.listed \cap (read \cup (1..notices))
                        BY <1>3 DEF PanelInv, PanelTyped
                    <6> QED
                        BY <1>1, <6>1, <6>2 DEF Listing
                <5> QED
                    BY <5>1, <5>2
            <4> QED
                BY <1>1, <4>1, <4>2 DEF Shown
        <3> QED
            BY <3>1, <3>2, <3>3
    <2> QED
        BY <2>1, <2>2, <2>3, <2>4 DEF PartAgrees
<1> QED
    BY <1>4, <1>5, <1>6, <1>8 DEF PanelInv

-----------------------------------------------------------------------------
(* The panel *)

LEMMA PanelStarts ==
    ASSUME Panel!PanelConstants, Panel!Init
    PROVE  PanelInv
<1>1. PICK p \in Requests, n \in Requests :
        /\ p # n
        /\ req = [q \in Requests |-> IF q = p THEN Panel!Request("loadPrefs", None)
                                     ELSE IF q = n THEN Panel!Request("loadNotes", None) ELSE Panel!Idle]
    BY DEF Panel!Init
<1>2. /\ Panel!Request("loadPrefs", None) \in PanelRequest /\ Panel!Request("loadNotes", None) \in PanelRequest
      /\ Panel!Request("loadPrefs", None).pc = "read" /\ Panel!Request("loadPrefs", None).kind = "loadPrefs"
      /\ Panel!Request("loadNotes", None).pc = "read" /\ Panel!Request("loadNotes", None).kind = "loadNotes"
    BY NewFields DEF Kinds, Args
<1>3. Panel!Idle \in PanelRequest /\ Panel!Idle.pc = "idle"
    BY DEF Panel!Idle, PanelRequest
<1>4. /\ req \in [Requests -> PanelRequest]
      /\ \A q \in Requests : req[q].pc # "idle" => /\ req[q].pc = "read"
                                                   /\ \/ q = p /\ req[q].kind = "loadPrefs"
                                                      \/ q = n /\ req[q].kind = "loadNotes"
      /\ On(p, "prefs") /\ On(n, "notes")
    BY <1>1, <1>2, <1>3 DEF On, Panel!PartOf
<1>5. /\ view = [prefs |-> DEFAULTS, listed |-> {}, marked |-> {}, badge |-> 0, row |-> row]
      /\ DEFAULTS \in Prefs /\ row \in Panel!Rows /\ 0 \in 0..MaxNotices
    BY DEF Panel!Init, Panel!PanelConstants, Prefs
<1>6. view \in ViewRecord /\ view.listed = {} /\ view.marked = {} /\ view.row = row
    BY <1>5 DEF ViewRecord
<1>7. PanelTyped
    BY <1>4, <1>6 DEF Panel!Init, PanelTyped, Prefs
<1>8. RequestsFormed
    BY <1>4 DEF RequestsFormed, Formed
<1>9. ASSUME NEW P \in Panel!Parts
      PROVE  PartAgrees(P)
    <2>1. Single(P)
        BY <1>4 DEF Single, On, Panel!PartOf
    <2>2. ASSUME NEW q \in Requests, On(q, P)
          PROVE  Aware(req[q]) /\ Shown(req[q])
        BY <1>4, <2>2 DEF On, Aware, Shown
    <2>3. ~Panel!Busy(P) => P = "row"
        BY <1>4, <1>9 DEF Panel!Busy, On, Panel!Parts
    <2>4. P = "row" => Agrees(P)
        BY <1>6 DEF Agrees
    <2> QED
        BY <2>1, <2>2, <2>3, <2>4 DEF PartAgrees
<1> QED
    BY <1>7, <1>8, <1>9 DEF PanelInv

LEMMA PanelSteps ==
    ASSUME Panel!PanelConstants, PanelInv, [Panel!Next]_Panel!panelVars
    PROVE  PanelInv'
<1>1. CASE Panel!Arrive
    BY <1>1, ArriveKeeps
<1>2. ASSUME NEW q \in Requests, NEW k \in Keys, Panel!togglePref(q, k)
      PROVE  PanelInv'
    BY <1>2, ToggleKeeps
<1>3. ASSUME NEW q \in Requests, Panel!markAllRead(q)
      PROVE  PanelInv'
    BY <1>3, MarkAllTapKeeps
<1>4. ASSUME NEW q \in Requests, NEW n \in view.listed, Panel!markOne(q, n)
      PROVE  PanelInv'
    BY <1>4, MarkOneTapKeeps
<1>5. ASSUME NEW q \in Requests, NEW a \in PanelAddresses \cup {None}, Panel!saveAddress(q, a)
      PROVE  PanelInv'
    BY <1>5, SaveTapKeeps
<1>6. ASSUME NEW q \in Requests, Panel!checkVerify(q)
      PROVE  PanelInv'
    BY <1>6, VerifyTapKeeps
<1>7. ASSUME NEW q \in Requests, Panel!ReadPrefs(q) \/ Panel!WritePrefs(q)
      PROVE  PanelInv'
    BY <1>7, ReadPrefsKeeps, WritePrefsKeeps
<1>8. ASSUME NEW q \in Requests, Panel!ListNotes(q) \/ Panel!CountNotes(q) \/ Panel!Mark(q)
      PROVE  PanelInv'
    BY <1>8, ListNotesKeeps, CountNotesKeeps, MarkKeeps
<1>9. ASSUME NEW q \in Requests, Panel!SaveAddress(q) \/ Panel!Refused(q) \/ Panel!ReadAddress(q) \/ Panel!AskVerify(q)
                                 \/ Panel!Stamp(q) \/ Panel!ReadAccount(q)
      PROVE  PanelInv'
    BY <1>9, RowWritesKeep, RefusedKeeps, AskingKeeps, ReadAccountKeeps
<1>10. ASSUME NEW q \in Requests, Panel!Answered(q)
       PROVE  PanelInv'
    BY <1>10, LoadKeeps, AnswerKeeps
<1>11. ASSUME NEW q \in Requests, Panel!Throws(q) \/ Panel!Error(q)
       PROVE  PanelInv'
    BY <1>11, ThrowsKeeps, ErrorKeeps
<1>12. CASE UNCHANGED Panel!panelVars
    <2>1. UNCHANGED <<pref, notices, read, row, view, req, doubtful, overlapped>>
        BY <1>12 DEF Panel!panelVars
    <2>2. PanelTyped' /\ RequestsFormed'
        BY <2>1 DEF PanelInv, PanelTyped, RequestsFormed, Formed
    <2>3. \A P \in Panel!Parts : Untouched(P)
        BY <2>1 DEF Untouched
    <2>4. \A P \in Panel!Parts : PartAgrees(P)'
        BY <2>1, <2>3, PartAside DEF PanelInv
    <2> QED
        BY <2>2, <2>4 DEF PanelInv
<1> QED
    BY <1>1, <1>2, <1>3, <1>4, <1>5, <1>6, <1>7, <1>8, <1>9, <1>10, <1>11, <1>12 DEF Panel!Next

LEMMA PanelSafe ==
    ASSUME Panel!PanelConstants, PanelInv
    PROVE  Panel!TypeOK /\ Panel!PanelAgrees
<1>1. ASSUME NEW q \in Requests
      PROVE  req[q].pc \in {"idle", "read", "count", "ask", "write", "answer", "said no"}
    BY RequestFields DEF PanelInv, PanelTyped, Pcs
<1>2. Panel!TypeOK
    BY <1>1 DEF Panel!TypeOK, PanelInv, PanelTyped, ViewRecord, Prefs
<1>3. ASSUME NEW P \in Panel!Parts, P \notin doubtful, P \notin overlapped, ~Panel!Busy(P)
      PROVE  Agrees(P)
    BY <1>3 DEF PanelInv, PartAgrees
<1>4. Panel!PanelAgrees
    BY <1>3, SameOnThePanel DEF Panel!PanelAgrees, Agrees, Listing, Panel!Parts
<1> QED
    BY <1>2, <1>4

\* A member's panel (MemberAccount.tsx, api/me): for any preferences, notices,
\* addresses and failing requests, what a part of it shows is what is stored, once
\* its requests have ended, came one at a time and no failure was left unread; and
\* the badge counts the unread listed, and none that is read.
THEOREM PanelShowsWhatIsStored ==
    ASSUME Panel!PanelConstants
    PROVE  Panel!Spec => [](Panel!TypeOK /\ Panel!PanelAgrees)
<1>1. Panel!Init => PanelInv
    BY PanelStarts
<1>2. PanelInv /\ [Panel!Next]_Panel!panelVars => PanelInv'
    BY PanelSteps
<1>3. PanelInv => Panel!TypeOK /\ Panel!PanelAgrees
    BY PanelSafe
<1> QED
    BY <1>1, <1>2, <1>3, PTL DEF Panel!Spec

\* The panel as the part of MCOffice: it shows what is stored (MemberAccount.tsx),
\* in the run office's composition.
THEOREM PanelShowsWhatIsStoredThere == Spec => []PanelAgrees
<1> DEFINE Inv == part = "panel" => PanelInv
<1>1. Init => Inv
    BY OfficeConstants, PanelStarts DEF Init, OfficeConstants
<1>2. Inv /\ [Next]_vars => Inv'
    <2> SUFFICES ASSUME Inv, [Next]_vars, part' = "panel"
                 PROVE  PanelInv'
        OBVIOUS
    <2>1. CASE Next
        <3>1. part = "panel" /\ Panel!Next
            BY <2>1 DEF Next, Moves
        <3> QED
            BY <3>1, OfficeConstants, PanelSteps DEF OfficeConstants
    <2>2. CASE UNCHANGED vars
        BY <2>2, OfficeConstants, PanelSteps
        DEF OfficeConstants, vars, panel, Panel!panelVars
    <2> QED
        BY <2>1, <2>2
<1>3. Inv => PanelAgrees
    BY OfficeConstants, PanelSafe DEF PanelAgrees, OfficeConstants
<1> QED
    BY <1>1, <1>2, <1>3, PTL DEF Spec

-----------------------------------------------------------------------------
(* PoolWatch                                                                 *)

LEMMA SameInThePool ==
    \A S : Pool!Cardinality(S) = Cardinality(S) /\ Pool!IsFiniteSet(S) = IsFiniteSet(S)
    BY DEF Pool!Cardinality, Cardinality, Pool!IsFiniteSet, IsFiniteSet

PoolRow == [who : Watched, wallet : Wallets, at : Int]

ChainTransfer == [from : Wallets, to : Pool!Addresses]

PoolPass == [pc : {"idle", "scan"}, todo : SUBSET PoolRow, payouts : SUBSET Wallets,
             sinks : SUBSET (Pool!Addresses \X Watched), known : SUBSET ChainTransfer,
             asked : SUBSET PoolRow]

PoolTyped ==
    /\ address \in [Watched -> Wallets \union {None}]
    /\ \A m, n \in Watched : address[m] = address[n] /\ address[m] # None => m = n
    /\ updated \in [Watched -> Int] /\ changes \in Nat
    /\ paid \subseteq ChainTransfer /\ IsFiniteSet(paid)
    /\ pass \in [Passes -> PoolPass]
    /\ alerts \in [Pool!Addresses -> [count : Nat, explained : BOOLEAN]]

\* On a pass's list is a member once, and a wallet.
OneRowPerWallet(b) ==
    \A r, q \in b.todo \union b.asked : r.who = q.who \/ r.wallet = q.wallet => r = q

\* Whoever is held to have fed an address has been asked about, and her wallet has.
SinksWerePaid(b, chain) ==
    \A s \in b.sinks : \E r \in b.asked :
        r.who = s[2] /\ [from |-> r.wallet, to |-> s[1]] \in chain

\* Whoever was asked about and had fed an address is held to, until it is on record.
NothingForgotten(b, record) ==
    \A r \in b.asked, a \in Pool!Addresses \ b.payouts :
        [from |-> r.wallet, to |-> a] \in b.known =>
            <<a, r.who>> \in b.sinks \/ record[a].count > 0

PassSound(b, chain, record) ==
    OneRowPerWallet(b) /\ SinksWerePaid(b, chain) /\ NothingForgotten(b, record) /\ b.known \subseteq chain

Feeders(chain, a) == {t.from : t \in {u \in chain : u.to = a}}

RecordTrue(chain, record) ==
    \A a \in Pool!Addresses : record[a].count > 0 =>
        /\ record[a].count >= Threshold /\ record[a].count <= Cardinality(Watched)
        /\ record[a].count <= Cardinality(Feeders(chain, a))

PoolInv ==
    /\ PoolTyped
    /\ \A p \in Passes : PassSound(pass[p], paid, alerts)
    /\ RecordTrue(paid, alerts)

-----------------------------------------------------------------------------
(* Counting *)

\* Those who fed an address are finitely many, and no fewer later.
LEMMA FeedersGrow ==
    ASSUME NEW chain, IsFiniteSet(chain), NEW old \in SUBSET chain, NEW a
    PROVE  /\ IsFiniteSet(Feeders(chain, a)) /\ Cardinality(Feeders(chain, a)) \in Nat
           /\ Cardinality(Feeders(old, a)) \in Nat
           /\ Cardinality(Feeders(old, a)) <= Cardinality(Feeders(chain, a))
<1> DEFINE Those(c) == {u \in c : u.to = a}
           f == [t \in Those(chain) |-> t.from]
<1>1. IsFiniteSet(Those(chain))
    BY FS_Subset
<1>2. f \in Surjection(Those(chain), Feeders(chain, a))
    BY DEF Surjection, Feeders
<1>3. IsFiniteSet(Feeders(chain, a))
    <2> HIDE DEF f, Those
    <2> QED
        BY <1>1, <1>2, FS_Surjection
<1>4. Feeders(old, a) \in SUBSET Feeders(chain, a)
    BY DEF Feeders
<1>5. /\ IsFiniteSet(Feeders(old, a))
      /\ Cardinality(Feeders(old, a)) <= Cardinality(Feeders(chain, a))
    BY <1>3, <1>4, FS_Subset
<1> QED
    BY <1>3, <1>5, FS_CardinalityType

LEMMA SendersAreMembers ==
    ASSUME Pool!PoolConstants, NEW sinks, NEW a
    PROVE  /\ IsFiniteSet(Pool!Senders(sinks, a)) /\ Cardinality(Pool!Senders(sinks, a)) \in Nat
           /\ Cardinality(Pool!Senders(sinks, a)) <= Cardinality(Watched)
<1>1. Pool!Senders(sinks, a) \in SUBSET Watched /\ IsFiniteSet(Watched)
    BY SameInThePool DEF Pool!Senders, Pool!PoolConstants
<1> QED
    BY <1>1, FS_Subset, FS_CardinalityType

\* A member who is held to have fed an address answers for one wallet that has.
LEMMA SendersFed ==
    ASSUME Pool!PoolConstants, NEW b \in PoolPass,
           NEW chain \in SUBSET ChainTransfer, IsFiniteSet(chain),
           OneRowPerWallet(b), SinksWerePaid(b, chain), NEW a \in Pool!Addresses
    PROVE  Cardinality(Pool!Senders(b.sinks, a)) <= Cardinality(Feeders(chain, a))
<1> DEFINE Hers(m) == CHOOSE r \in b.asked : r.who = m /\ [from |-> r.wallet, to |-> a] \in chain
           S == Pool!Senders(b.sinks, a)
           F == Feeders(chain, a)
           f == [m \in S |-> Hers(m).wallet]
<1>1. ASSUME NEW m \in S
      PROVE  /\ Hers(m) \in b.asked /\ Hers(m).who = m
             /\ [from |-> Hers(m).wallet, to |-> a] \in chain
    <2>1. <<a, m>> \in b.sinks
        BY DEF Pool!Senders
    <2>2. \E r \in b.asked : r.who = m /\ [from |-> r.wallet, to |-> a] \in chain
        BY <2>1 DEF SinksWerePaid
    <2> QED
        BY <2>2
<1>2. ASSUME NEW m \in S
      PROVE  Hers(m).wallet \in F
    <2>1. PICK u \in chain : u = [from |-> Hers(m).wallet, to |-> a]
        BY <1>1
    <2>2. u.from = Hers(m).wallet /\ u.to = a
        BY <2>1
    <2> QED
        BY <2>2 DEF Feeders
<1>3. ASSUME NEW m \in S, NEW n \in S, Hers(m).wallet = Hers(n).wallet
      PROVE  m = n
    BY <1>1, <1>3 DEF OneRowPerWallet
<1> HIDE DEF Hers, S, F
<1>4. f \in Injection(S, F)
    BY <1>2, <1>3 DEF Injection, IsInjective
<1>5. IsFiniteSet(F)
    BY FeedersGrow DEF F
<1> HIDE DEF f
<1>6. Cardinality(S) <= Cardinality(F)
    BY <1>4, <1>5, FS_Injection
<1> QED
    BY <1>6 DEF S, F

\* Those on a list are different members.
LEMMA AskedAreSenders ==
    ASSUME Pool!PoolConstants, NEW b \in PoolPass, OneRowPerWallet(b), NEW a,
           NEW R \in SUBSET b.asked,
           \A r \in R : <<a, r.who>> \in b.sinks
    PROVE  /\ Cardinality(R) \in Nat
           /\ Cardinality(R) <= Cardinality(Pool!Senders(b.sinks, a))
<1> DEFINE f == [r \in R |-> r.who]
           S == Pool!Senders(b.sinks, a)
<1>1. \A r \in R : r.who \in S
    BY DEF Pool!Senders, PoolPass, PoolRow
<1>2. \A r, q \in R : r.who = q.who => r = q
    BY DEF OneRowPerWallet
<1>3. IsFiniteSet(S)
    BY SendersAreMembers
<1> HIDE DEF S
<1>4. f \in Injection(R, S)
    BY <1>1, <1>2 DEF Injection, IsInjective
<1> HIDE DEF f
<1>5. IsFiniteSet(R) /\ Cardinality(R) <= Cardinality(S)
    BY <1>3, <1>4, FS_Injection
<1> QED
    BY <1>5, FS_CardinalityType DEF S

-----------------------------------------------------------------------------
(* What money and records that only grow leave as it is *)

LEMMA PassStaysSound ==
    ASSUME NEW b \in PoolPass, NEW chain, NEW record, PassSound(b, chain, record),
           NEW chain2, chain \subseteq chain2,
           NEW record2, \A a \in Pool!Addresses : record[a].count > 0 => record2[a].count > 0
    PROVE  PassSound(b, chain2, record2)
<1>1. SinksWerePaid(b, chain2)
    BY DEF PassSound, SinksWerePaid
<1>2. NothingForgotten(b, record2)
    BY DEF PassSound, NothingForgotten
<1> QED
    BY <1>1, <1>2 DEF PassSound

LEMMA RecordStaysTrue ==
    ASSUME NEW chain, NEW record, RecordTrue(chain, record), NEW chain2, IsFiniteSet(chain2),
           chain \subseteq chain2, Threshold \in Nat,
           \A a \in Pool!Addresses : record[a].count \in Nat
    PROVE  RecordTrue(chain2, record)
<1> SUFFICES ASSUME NEW a \in Pool!Addresses, record[a].count > 0
             PROVE  /\ record[a].count >= Threshold /\ record[a].count <= Cardinality(Watched)
                    /\ record[a].count <= Cardinality(Feeders(chain2, a))
    BY DEF RecordTrue
<1>1. /\ Cardinality(Feeders(chain2, a)) \in Nat /\ Cardinality(Feeders(chain, a)) \in Nat
      /\ Cardinality(Feeders(chain, a)) <= Cardinality(Feeders(chain2, a))
    BY FeedersGrow
<1> QED
    BY <1>1 DEF RecordTrue

\* A pass that is asleep, one that has just got its list.
LEMMA AsleepIsSound ==
    ASSUME NEW chain, NEW record
    PROVE  Pool!Asleep \in PoolPass /\ PassSound(Pool!Asleep, chain, record)
<1>1. Pool!Asleep \in PoolPass
    BY DEF Pool!Asleep, PoolPass
<1> QED
    BY <1>1 DEF Pool!Asleep, PassSound, OneRowPerWallet, SinksWerePaid, NothingForgotten

\* One pass has taken a step, the chain and the record are as they were.
LEMMA OnePassMoves ==
    ASSUME Pool!PoolConstants, PoolInv, NEW p \in Passes, NEW b \in PoolPass,
           PassSound(b, paid, alerts),
           pass' = [pass EXCEPT ![p] = b], UNCHANGED <<address, updated, paid, alerts, changes>>
    PROVE  PoolInv'
<1>1. pass \in [Passes -> PoolPass]
    BY DEF PoolInv, PoolTyped
<1>2. pass' \in [Passes -> PoolPass] /\ pass'[p] = b /\ \A q \in Passes \ {p} : pass'[q] = pass[q]
    BY <1>1
<1>3. PoolTyped'
    BY <1>2 DEF PoolInv, PoolTyped
<1>4. paid' = paid /\ alerts' = alerts
    OBVIOUS
<1>5. ASSUME NEW q \in Passes
      PROVE  PassSound(pass'[q], paid', alerts')
    BY <1>2, <1>4 DEF PoolInv
<1>6. RecordTrue(paid', alerts')
    BY <1>4 DEF PoolInv
<1> QED
    BY <1>3, <1>5, <1>6 DEF PoolInv

-----------------------------------------------------------------------------
(* Steps *)

LEMMA PoolStarts ==
    ASSUME Pool!PoolConstants, Pool!Init
    PROVE  PoolInv
<1>1. IsFiniteSet(paid)
    BY FS_EmptySet DEF Pool!Init
<1>2. PoolTyped
    BY <1>1, AsleepIsSound DEF PoolTyped, Pool!Init, Pool!PoolConstants, Pool!NoAlert
<1>3. \A p \in Passes : PassSound(pass[p], paid, alerts)
    BY AsleepIsSound DEF Pool!Init
<1>4. RecordTrue(paid, alerts)
    BY DEF RecordTrue, Pool!Init, Pool!NoAlert
<1> QED
    BY <1>2, <1>3, <1>4 DEF PoolInv

LEMMA TransferKeeps ==
    ASSUME Pool!PoolConstants, PoolInv, NEW m \in Watched, NEW to \in Pool!Addresses,
           Pool!Transfer(m, to)
    PROVE  PoolInv'
<1>1. PICK chain : chain = paid'
    OBVIOUS
<1>2. address[m] \in Wallets
    BY DEF PoolInv, PoolTyped, Pool!Transfer
<1>3. chain \subseteq ChainTransfer /\ IsFiniteSet(chain) /\ paid \subseteq chain
    <2> DEFINE t == [from |-> address[m], to |-> to]
    <2>1. t \in ChainTransfer
        BY <1>2 DEF ChainTransfer
    <2>2. chain = paid \cup {t}
        BY <1>1 DEF Pool!Transfer
    <2> HIDE DEF t
    <2> QED
        BY <2>1, <2>2, FS_AddElement DEF PoolInv, PoolTyped
<1>4. UNCHANGED <<address, updated, pass, alerts, changes>>
    BY DEF Pool!Transfer
<1>5. PoolTyped'
    BY <1>1, <1>3, <1>4 DEF PoolInv, PoolTyped
<1>6. ASSUME NEW p \in Passes
      PROVE  PassSound(pass[p], chain, alerts)
    <2>1. pass[p] \in PoolPass /\ PassSound(pass[p], paid, alerts)
        BY DEF PoolInv, PoolTyped
    <2> QED
        BY <1>3, <2>1, PassStaysSound
<1>7. RecordTrue(chain, alerts)
    <2>1. \A a \in Pool!Addresses : alerts[a].count \in Nat
        BY DEF PoolInv, PoolTyped
    <2>2. Threshold \in Nat /\ RecordTrue(paid, alerts)
        BY DEF PoolInv, Pool!PoolConstants
    <2> QED
        BY <1>3, <2>1, <2>2, RecordStaysTrue
<1> QED
    BY <1>1, <1>4, <1>5, <1>6, <1>7 DEF PoolInv

LEMMA SetAddressKeeps ==
    ASSUME Pool!PoolConstants, PoolInv, NEW m \in Watched, NEW a \in Wallets \union {None},
           Pool!SetAddress(m, a)
    PROVE  PoolInv'
<1>1. /\ address' = [address EXCEPT ![m] = a] /\ changes' = changes + 1
      /\ updated' = [updated EXCEPT ![m] = changes + 1]
      /\ a # None => \A n \in Watched : address[n] # a
      /\ UNCHANGED <<paid, pass, alerts>>
    BY DEF Pool!SetAddress
<1>2. PoolTyped'
    BY <1>1 DEF PoolInv, PoolTyped
<1> QED
    BY <1>1, <1>2 DEF PoolInv

LEMMA StartKeeps ==
    ASSUME Pool!PoolConstants, PoolInv, NEW p \in Passes, Pool!Start(p)
    PROVE  PoolInv'
<1> DEFINE listed == {m \in Pool!Listed : address[m] # None}
           wanted == {Pool!Row(m) : m \in listed}
           wallets == {address[m] : m \in listed}
           b == [Pool!Asleep EXCEPT !.pc = "scan", !.todo = wanted, !.payouts = wallets, !.known = paid]
<1>1. \A m \in listed : m \in Watched /\ address[m] \in Wallets /\ updated[m] \in Int
    BY DEF Pool!Listed, PoolInv, PoolTyped
<1>2. wanted \in SUBSET PoolRow /\ wallets \in SUBSET Wallets
    BY <1>1 DEF Pool!Row, PoolRow
<1>3. ASSUME NEW r \in wanted, NEW q \in wanted, r.who = q.who \/ r.wallet = q.wallet
      PROVE  r = q
    <2>1. PICK m \in listed : r = Pool!Row(m)
        OBVIOUS
    <2>2. PICK n \in listed : q = Pool!Row(n)
        OBVIOUS
    <2>3. m = n
        <3>1. m \in Watched /\ n \in Watched /\ address[m] # None
            BY <1>1
        <3>2. m = n \/ address[m] = address[n]
            BY <1>3, <2>1, <2>2 DEF Pool!Row
        <3> QED
            BY <3>1, <3>2 DEF PoolInv, PoolTyped
    <2> QED
        BY <2>1, <2>2, <2>3
<1>4. pass' = [pass EXCEPT ![p] = b]
    BY DEF Pool!Start
<1>5. UNCHANGED <<address, updated, paid, alerts, changes>>
    BY DEF Pool!Start
<1> HIDE DEF listed, wanted, wallets
<1>6. /\ b \in PoolPass /\ b.todo = wanted /\ b.asked = {} /\ b.sinks = {} /\ b.known = paid
    BY <1>2 DEF Pool!Asleep, PoolPass, PoolInv, PoolTyped
<1> HIDE DEF b
<1>7. PassSound(b, paid, alerts)
    BY <1>3, <1>6 DEF PassSound, OneRowPerWallet, SinksWerePaid, NothingForgotten
<1> QED
    BY <1>4, <1>5, <1>6, <1>7, OnePassMoves

LEMMA LookupKeeps ==
    ASSUME Pool!PoolConstants, PoolInv, NEW p \in Passes, Pool!Lookup(p)
    PROVE  PoolInv'
<1>1. PICK o \in PoolPass : o = pass[p] /\ PassSound(o, paid, alerts)
    BY DEF PoolInv, PoolTyped
<1>2. PICK r \in o.todo :
          /\ pass' = [pass EXCEPT ![p] = Pool!LookedUp(p, r)]
          /\ UNCHANGED <<address, updated, paid, alerts, changes, failures>>
    BY <1>1 DEF Pool!Lookup
<1>3. r \in PoolRow /\ r.who \in Watched /\ r.wallet \in Wallets
    BY DEF PoolPass, PoolRow
<1> DEFINE fed == Pool!Fed(p, r)
           todo == o.todo \ {r}
           sinks == o.sinks \union (fed \X {r.who})
           asked == o.asked \union {r}
           b == [o EXCEPT !.todo = todo, !.sinks = sinks, !.asked = asked]
<1>4. paid \in SUBSET ChainTransfer
    BY DEF PoolInv, PoolTyped
<1>5. \A a : a \in fed <=> [from |-> r.wallet, to |-> a] \in paid /\ a \notin o.payouts
    <2>1. \A u \in paid : u = [from |-> u.from, to |-> u.to]
        BY <1>4 DEF ChainTransfer
    <2>2. \A a : a \in fed <=> (\E u \in paid : u.from = r.wallet /\ u.to = a) /\ a \notin o.payouts
        BY <1>1 DEF Pool!Fed
    <2>3. \A a : [from |-> r.wallet, to |-> a].from = r.wallet /\ [from |-> r.wallet, to |-> a].to = a
        OBVIOUS
    <2>4. \A a : (\E u \in paid : u.from = r.wallet /\ u.to = a) <=> [from |-> r.wallet, to |-> a] \in paid
        BY <2>1, <2>3
    <2> QED
        BY <2>2, <2>4
<1>6. fed \subseteq Pool!Addresses
    <2> SUFFICES ASSUME NEW a \in fed PROVE a \in Pool!Addresses
        OBVIOUS
    <2>1. [from |-> r.wallet, to |-> a] \in ChainTransfer
        BY <1>4, <1>5
    <2> QED
        BY <2>1 DEF ChainTransfer
<1>7. pass' = [pass EXCEPT ![p] = b]
    <2>1. Pool!LookedUp(p, r) = b
        BY <1>1 DEF Pool!LookedUp
    <2> QED
        BY <1>2, <2>1
<1> HIDE DEF fed
<1>8. sinks \in SUBSET (Pool!Addresses \X Watched) /\ todo \in SUBSET PoolRow /\ asked \in SUBSET PoolRow
    BY <1>3, <1>6 DEF PoolPass
<1>9. /\ b \in PoolPass /\ b.todo = todo /\ b.sinks = sinks /\ b.asked = asked
      /\ b.known = o.known /\ b.payouts = o.payouts
    <2> HIDE DEF todo, sinks, asked
    <2> QED
        BY <1>8 DEF PoolPass
<1> HIDE DEF b
<1>10. OneRowPerWallet(b)
    <2>1. b.todo \union b.asked \subseteq o.todo \union o.asked
        BY <1>9
    <2> QED
        BY <1>1, <2>1 DEF PassSound, OneRowPerWallet
<1>11. SinksWerePaid(b, paid)
    <2> SUFFICES ASSUME NEW s \in b.sinks
                 PROVE  \E q \in b.asked : q.who = s[2] /\ [from |-> q.wallet, to |-> s[1]] \in paid
        BY DEF SinksWerePaid
    <2>1. CASE s \in o.sinks
        <3>1. PICK q \in o.asked : q.who = s[2] /\ [from |-> q.wallet, to |-> s[1]] \in paid
            BY <1>1, <2>1 DEF PassSound, SinksWerePaid
        <3> QED
            BY <1>9, <3>1
    <2>2. CASE s \in fed \X {r.who}
        <3>1. s[1] \in fed /\ s[2] = r.who
            BY <2>2
        <3>2. r \in b.asked /\ [from |-> r.wallet, to |-> s[1]] \in paid
            BY <1>5, <1>9, <3>1
        <3> QED
            BY <3>1, <3>2
    <2> QED
        BY <1>9, <2>1, <2>2
<1>12. NothingForgotten(b, alerts)
    <2> SUFFICES ASSUME NEW q \in b.asked, NEW a \in Pool!Addresses \ b.payouts,
                        [from |-> q.wallet, to |-> a] \in b.known
                 PROVE  <<a, q.who>> \in b.sinks \/ alerts[a].count > 0
        BY DEF NothingForgotten
    <2>1. CASE q \in o.asked
        BY <1>1, <1>9, <2>1 DEF PassSound, NothingForgotten
    <2>2. CASE q = r
        <3>1. a \in fed
            BY <1>1, <1>5, <1>9, <2>2 DEF PassSound
        <3> QED
            BY <1>9, <2>2, <3>1
    <2> QED
        BY <1>9, <2>1, <2>2
<1>13. PassSound(b, paid, alerts)
    BY <1>1, <1>9, <1>10, <1>11, <1>12 DEF PassSound
<1> QED
    BY <1>2, <1>7, <1>9, <1>13, OnePassMoves

LEMMA LookupFailsKeeps ==
    ASSUME Pool!PoolConstants, PoolInv, NEW p \in Passes, Pool!LookupFails(p)
    PROVE  PoolInv'
<1>1. PICK o \in PoolPass : o = pass[p] /\ PassSound(o, paid, alerts)
    BY DEF PoolInv, PoolTyped
<1>2. PICK r \in o.todo : pass' = [pass EXCEPT ![p].todo = @ \ {r}]
    BY <1>1 DEF Pool!LookupFails
<1> DEFINE todo == o.todo \ {r}
           b == [o EXCEPT !.todo = todo]
<1>3. pass' = [pass EXCEPT ![p] = b]
    BY <1>1, <1>2 DEF PoolInv, PoolTyped
<1>4. todo \in SUBSET PoolRow /\ todo \subseteq o.todo
    BY DEF PoolPass
<1> HIDE DEF todo
<1>5. /\ b \in PoolPass /\ b.todo = todo /\ b.sinks = o.sinks /\ b.asked = o.asked
      /\ b.known = o.known /\ b.payouts = o.payouts
    BY <1>4 DEF PoolPass
<1> HIDE DEF b
<1>6. PassSound(b, paid, alerts)
    BY <1>1, <1>4, <1>5 DEF PassSound, OneRowPerWallet, SinksWerePaid, NothingForgotten
<1>7. UNCHANGED <<address, updated, paid, alerts, changes>>
    BY DEF Pool!LookupFails
<1> QED
    BY <1>3, <1>5, <1>6, <1>7, OnePassMoves

LEMMA PassEndsKeeps ==
    ASSUME Pool!PoolConstants, PoolInv, NEW p \in Passes, Pool!Answer(p) \/ Pool!Dies(p)
    PROVE  PoolInv'
    BY AsleepIsSound, OnePassMoves DEF Pool!Answer, Pool!Dies

LEMMA RecordKeeps ==
    ASSUME Pool!PoolConstants, PoolInv, NEW p \in Passes, NEW a \in Pool!Addresses,
           Pool!Record(p, a)
    PROVE  PoolInv'
<1>1. PICK o \in PoolPass : o = pass[p] /\ PassSound(o, paid, alerts)
    BY DEF PoolInv, PoolTyped
<1>2. PICK n : n = Cardinality(Pool!Senders(o.sinks, a))
    OBVIOUS
<1>3. PICK record : record = alerts'
    OBVIOUS
<1>4. /\ n >= Threshold
      /\ record = [alerts EXCEPT ![a].count = n]
      /\ pass' = [pass EXCEPT ![p].sinks = @ \ ({a} \X Watched)]
      /\ UNCHANGED <<address, updated, paid, changes>>
    BY <1>1, <1>2, <1>3, SameInThePool DEF Pool!Record, Pool!Found
<1>5. n \in Nat /\ n > 0 /\ n <= Cardinality(Watched) /\ n <= Cardinality(Feeders(paid, a))
    <2>1. n \in Nat /\ n <= Cardinality(Watched)
        BY <1>2, SendersAreMembers
    <2>2. n <= Cardinality(Feeders(paid, a))
        BY <1>1, <1>2, SendersFed DEF PassSound, PoolInv, PoolTyped
    <2> QED
        BY <1>4, <2>1, <2>2 DEF Pool!PoolConstants
<1>6. /\ record \in [Pool!Addresses -> [count : Nat, explained : BOOLEAN]]
      /\ record[a].count = n
      /\ \A c \in Pool!Addresses \ {a} : record[c] = alerts[c]
    BY <1>4, <1>5 DEF PoolInv, PoolTyped
<1> DEFINE sinks == o.sinks \ ({a} \X Watched)
           b == [o EXCEPT !.sinks = sinks]
<1>7. pass' = [pass EXCEPT ![p] = b]
    BY <1>1, <1>4 DEF PoolInv, PoolTyped
<1>8. sinks \in SUBSET (Pool!Addresses \X Watched) /\ sinks \subseteq o.sinks
    BY DEF PoolPass
<1>9. \A c \in Pool!Addresses \ {a} : \A m : <<c, m>> \in o.sinks => <<c, m>> \in sinks
    OBVIOUS
<1> HIDE DEF sinks
<1>10. /\ b \in PoolPass /\ b.todo = o.todo /\ b.sinks = sinks /\ b.asked = o.asked
       /\ b.known = o.known /\ b.payouts = o.payouts
    BY <1>8 DEF PoolPass
<1> HIDE DEF b
<1>11. PassSound(b, paid, record)
    <2>1. NothingForgotten(b, record)
        <3> SUFFICES ASSUME NEW q \in b.asked, NEW c \in Pool!Addresses \ b.payouts,
                            [from |-> q.wallet, to |-> c] \in b.known
                     PROVE  <<c, q.who>> \in b.sinks \/ record[c].count > 0
            BY DEF NothingForgotten
        <3>1. CASE c = a
            BY <1>5, <1>6, <3>1
        <3>2. CASE c # a
            <4>1. <<c, q.who>> \in o.sinks \/ alerts[c].count > 0
                BY <1>1, <1>10 DEF PassSound, NothingForgotten
            <4> QED
                BY <1>6, <1>9, <1>10, <3>2, <4>1
        <3> QED
            BY <3>1, <3>2
    <2>2. SinksWerePaid(b, paid) /\ OneRowPerWallet(b) /\ b.known \subseteq paid
        BY <1>1, <1>8, <1>10 DEF PassSound, SinksWerePaid, OneRowPerWallet
    <2> QED
        BY <2>1, <2>2 DEF PassSound
<1>12. pass' \in [Passes -> PoolPass] /\ pass'[p] = b /\ \A q \in Passes \ {p} : pass'[q] = pass[q]
    BY <1>7, <1>10 DEF PoolInv, PoolTyped
<1>13. ASSUME NEW q \in Passes
       PROVE  PassSound(pass'[q], paid, record)
    <2>1. CASE q = p
        BY <1>11, <1>12, <2>1
    <2>2. CASE q # p
        <3>1. pass[q] \in PoolPass /\ PassSound(pass[q], paid, alerts)
            BY DEF PoolInv, PoolTyped
        <3>2. \A c \in Pool!Addresses : alerts[c].count > 0 => record[c].count > 0
            BY <1>5, <1>6
        <3>3. PassSound(pass[q], paid, record)
            BY <3>1, <3>2, PassStaysSound
        <3> QED
            BY <1>12, <2>2, <3>3
    <2> QED
        BY <2>1, <2>2
<1>14. RecordTrue(paid, record)
    <2> SUFFICES ASSUME NEW c \in Pool!Addresses, record[c].count > 0
                 PROVE  /\ record[c].count >= Threshold /\ record[c].count <= Cardinality(Watched)
                        /\ record[c].count <= Cardinality(Feeders(paid, c))
        BY DEF RecordTrue
    <2>1. CASE c = a
        BY <1>4, <1>5, <1>6, <2>1
    <2>2. CASE c # a
        BY <1>6, <2>2 DEF PoolInv, RecordTrue
    <2> QED
        BY <2>1, <2>2
<1>15. PoolTyped'
    BY <1>3, <1>4, <1>6, <1>12 DEF PoolInv, PoolTyped
<1> QED
    BY <1>3, <1>4, <1>13, <1>14, <1>15 DEF PoolInv

LEMMA ExplainKeeps ==
    ASSUME PoolInv, NEW a \in Pool!Addresses, Pool!Explain(a)
    PROVE  PoolInv'
<1>1. PICK record : record = alerts'
    OBVIOUS
<1>2. /\ record = [alerts EXCEPT ![a].explained = TRUE]
      /\ UNCHANGED <<address, updated, paid, pass, changes>>
    BY <1>1 DEF Pool!Explain
<1>3. /\ record \in [Pool!Addresses -> [count : Nat, explained : BOOLEAN]]
      /\ \A c \in Pool!Addresses : record[c].count = alerts[c].count
    BY <1>2 DEF PoolInv, PoolTyped
<1>4. ASSUME NEW p \in Passes
      PROVE  PassSound(pass[p], paid, record)
    <2>1. pass[p] \in PoolPass /\ PassSound(pass[p], paid, alerts)
        BY DEF PoolInv, PoolTyped
    <2> QED
        BY <1>3, <2>1, PassStaysSound
<1>5. RecordTrue(paid, record)
    BY <1>3 DEF PoolInv, RecordTrue
<1>6. PoolTyped'
    BY <1>1, <1>2, <1>3 DEF PoolInv, PoolTyped
<1> QED
    BY <1>1, <1>2, <1>4, <1>5, <1>6 DEF PoolInv

LEMMA PoolSteps ==
    ASSUME Pool!PoolConstants, PoolInv, [Pool!Next]_Pool!poolVars
    PROVE  PoolInv'
<1>1. CASE Pool!Next
    BY <1>1, TransferKeeps, SetAddressKeeps, StartKeeps, LookupKeeps, LookupFailsKeeps, PassEndsKeeps,
       RecordKeeps, ExplainKeeps DEF Pool!Next
<1>2. CASE UNCHANGED Pool!poolVars
    BY <1>2 DEF Pool!poolVars, PoolInv, PoolTyped
<1> QED
    BY <1>1, <1>2

-----------------------------------------------------------------------------

\* Once a pass is through, whom enough of its list had fed is on record.
LEMMA NoPoolUnseen ==
    ASSUME Pool!PoolConstants, PoolInv, NEW p \in Passes, Pool!Done(p),
           NEW a \in Pool!Addresses \ pass[p].payouts,
           Cardinality({r \in pass[p].asked : [from |-> r.wallet, to |-> a] \in pass[p].known}) >= Threshold
    PROVE  alerts[a].count > 0
<1> SUFFICES ASSUME ~(alerts[a].count > 0) PROVE FALSE
    OBVIOUS
<1>1. PICK o \in PoolPass : o = pass[p] /\ PassSound(o, paid, alerts)
    BY DEF PoolInv, PoolTyped
<1> DEFINE R == {r \in o.asked : [from |-> r.wallet, to |-> a] \in o.known}
<1>2. \A r \in R : <<a, r.who>> \in o.sinks
    BY <1>1 DEF PassSound, NothingForgotten
<1>3. R \in SUBSET o.asked /\ Cardinality(R) >= Threshold
    BY <1>1
<1> HIDE DEF R
<1>4. Cardinality(R) \in Nat /\ Cardinality(R) <= Cardinality(Pool!Senders(o.sinks, a))
    BY <1>1, <1>2, <1>3, AskedAreSenders DEF PassSound
<1>5. Cardinality(Pool!Senders(o.sinks, a)) \in Nat /\ Threshold \in Nat
    BY SendersAreMembers DEF Pool!PoolConstants
<1>6. a \in Pool!Found(o.sinks)
    BY <1>3, <1>4, <1>5, SameInThePool DEF Pool!Found
<1> QED
    BY <1>1, <1>6 DEF Pool!Done

LEMMA PoolSafe ==
    ASSUME Pool!PoolConstants, PoolInv
    PROVE  Pool!TypeOK /\ Pool!ReportsMatchTheChain
<1>1. ASSUME NEW a \in Pool!Addresses, alerts[a].count > 0
      PROVE  /\ alerts[a].count >= Threshold
             /\ alerts[a].count <= Cardinality({t.from : t \in {u \in paid : u.to = a}})
    BY <1>1 DEF PoolInv, RecordTrue, Feeders
<1>2. Pool!ReportsMatchTheChain
    BY <1>1, NoPoolUnseen, SameInThePool DEF Pool!ReportsMatchTheChain
<1>3. ASSUME NEW a \in Pool!Addresses
      PROVE  alerts[a].count \in 0..Cardinality(Watched)
    <2>1. alerts[a].count \in Nat /\ Cardinality(Watched) \in Nat
        BY FS_CardinalityType, SameInThePool DEF PoolInv, PoolTyped, Pool!PoolConstants
    <2>2. alerts[a].count > 0 => alerts[a].count <= Cardinality(Watched)
        BY DEF PoolInv, RecordTrue
    <2> QED
        BY <2>1, <2>2
<1>4. ASSUME NEW p \in Passes
      PROVE  /\ pass[p].pc \in {"idle", "scan"}
             /\ pass[p].todo \subseteq [who : Watched, wallet : Wallets, at : Int]
             /\ pass[p].sinks \subseteq (Pool!Addresses \X Watched)
    BY DEF PoolInv, PoolTyped, PoolPass, PoolRow
<1>5. Pool!TypeOK
    BY <1>3, <1>4, SameInThePool DEF Pool!TypeOK, PoolInv, PoolTyped, ChainTransfer
<1> QED
    BY <1>2, <1>5

\* The pool watch (poolWatch.ts): for any members, wallets, passes, threshold, cap and
\* failures, what is on record is what the chain says, and no pool passes unseen.
THEOREM ReportsMatch == ASSUME Pool!PoolConstants PROVE Pool!Spec => [](Pool!TypeOK /\ Pool!ReportsMatchTheChain)
<1>1. Pool!Init => PoolInv
    BY PoolStarts
<1>2. PoolInv /\ [Pool!Next]_Pool!poolVars => PoolInv'
    BY PoolSteps
<1>3. PoolInv => Pool!TypeOK /\ Pool!ReportsMatchTheChain
    BY PoolSafe
<1> QED
    BY <1>1, <1>2, <1>3, PTL DEF Pool!Spec

\* The property of MCOffice that the run office checks.
THEOREM ReportsMatchThere == Spec => []ReportsMatchTheChain
<1> DEFINE Inv == part = "pool" => PoolInv
<1>1. Init => Inv
    BY OfficeConstants, PoolStarts DEF Init, OfficeConstants
<1>2. Inv /\ [Next]_vars => Inv'
    <2> SUFFICES ASSUME Inv, [Next]_vars, part' = "pool"
                 PROVE  PoolInv'
        OBVIOUS
    <2>1. CASE Next
        <3>1. part = "pool" /\ Pool!Next
            BY <2>1 DEF Next, Moves
        <3> QED
            BY <3>1, OfficeConstants, PoolSteps DEF OfficeConstants
    <2>2. CASE UNCHANGED vars
        BY <2>2, OfficeConstants, PoolSteps
        DEF OfficeConstants, vars, pool, Pool!poolVars
    <2> QED
        BY <2>1, <2>2
<1>3. Inv => ReportsMatchTheChain
    BY OfficeConstants, PoolSafe DEF ReportsMatchTheChain, OfficeConstants
<1> QED
    BY <1>1, <1>2, <1>3, PTL DEF Spec

=============================================================================
