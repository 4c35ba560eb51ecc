-------------------------------- MODULE Cards --------------------------------
(***************************************************************************)
(* A member's record in one circle and the screens that derive it: what    *)
(* the dates say of a contribution (lib/circles/discipline.ts), her susu   *)
(* card (susuCard.ts), the operator's drill-in (api/circles/[id].ts) and   *)
(* the notices that are sent from the same rows (notifications.ts).        *)
(*                                                                         *)
(* Nothing of it is stored, so all of it is read off the rounds, the dues  *)
(* and the memberships, which go on changing: rounds open and complete,    *)
(* transfers are observed late, members leave and come back.  What opening *)
(* a round and observing do statement by statement is the subject of       *)
(* Rotation and Payments; here each is one step.                           *)
(***************************************************************************)
EXTENDS Integers, FiniteSets, FiniteSetsExt

CONSTANTS
    Women,
    Turn,           \* the turn of each when the circle was activated; 0 is NULL
    Nobody,         \* no live contract_members row
    Cadence, Grace, Lead,   \* in days
    MaxDay,         \* bound: days
    MaxTransfers,   \* bound: transfers
    MaxLeaves       \* bound: departures

Slots == {Turn[w] : w \in Women} \ {0}
Recipient(i) == CHOOSE w \in Women : Turn[w] = i
Dues == Slots \X Women

CardsConstants ==
    /\ Turn \in [Women -> Nat]
    /\ Slots # {}
    /\ \A v, w \in Women : Turn[v] = Turn[w] /\ Turn[v] # 0 => v = w
    /\ Cadence \in Nat \ {0} /\ Grace \in Nat /\ Lead \in Nat
    /\ IsFiniteSet(Women) /\ Nobody \notin Nat /\ MaxDay \in Nat \ {0}

VARIABLES
    today,      \* days since the activation, from 1
    circle,     \* contracts.status
    round,      \* rounds.status, by round_index = slot
    owed,       \* the contributions rows
    observed,   \* the day of the transfer a row was marked by, 0 for NULL
    newest,     \* the newest transfer of each to the round's destination (external)
    seat,       \* turn_order of the live row: a slot, 0 for NULL, or Nobody
    past,       \* turn_order of the rows with left_at
    transfers, leaves

cardVars == <<today, circle, round, owed, observed, newest, seat, past, transfers, leaves>>

TypeOK ==
    /\ today \in 1..MaxDay
    /\ circle \in {"active", "completed"}
    /\ round \in [Slots -> {"scheduled", "open", "completed"}]
    /\ owed \subseteq {d \in Dues : round[d[1]] # "scheduled" /\ Recipient(d[1]) # d[2]}
    /\ \A d \in Dues : observed[d] \in 0..newest[d] /\ newest[d] <= today
    /\ \A w \in Women : /\ seat[w] \in Slots \union {0, Nobody}
                        /\ past[w] \subseteq Slots \union {0}

Init ==
    /\ today = 1
    /\ circle = "active"
    /\ round = [i \in Slots |-> "scheduled"]
    /\ owed = {}
    /\ observed = [d \in Dues |-> 0]
    /\ newest = [d \in Dues |-> 0]
    /\ seat = Turn
    /\ past = [w \in Women |-> {}]
    /\ transfers = 0 /\ leaves = 0

Due(i) == Cadence * i
Is(st) == {i \in Slots : round[i] = st}
Live == {w \in Women : seat[w] # Nobody}

-----------------------------------------------------------------------------
(* What goes on.                                                           *)

Midnight ==
    /\ today < MaxDay
    /\ today' = today + 1
    /\ UNCHANGED <<circle, round, owed, observed, newest, seat, past, transfers, leaves>>

\* The advance: the next round opens, any other open one completes, and every
\* seated member but the recipient owes.
OpenNext ==
    /\ Is("scheduled") # {}
    /\ LET i == Min(Is("scheduled")) IN
        /\ round' = [k \in Slots |-> IF k = i THEN "open"
                                     ELSE IF round[k] = "open" THEN "completed" ELSE round[k]]
        /\ owed' = owed \union {<<i, w>> : w \in {v \in Live : seat[v] # 0} \ {Recipient(i)}}
    /\ UNCHANGED <<today, circle, observed, newest, seat, past, transfers, leaves>>

CloseLast ==
    /\ Is("scheduled") = {}
    /\ Is("open") # {}
    /\ round' = [k \in Slots |-> "completed"]
    /\ circle' = "completed"
    /\ UNCHANGED <<today, owed, observed, newest, seat, past, transfers, leaves>>

\* She pays a round whenever she likes: before it opens, late, or again.
Pay(i, w) ==
    /\ transfers < MaxTransfers
    /\ newest' = [newest EXCEPT ![<<i, w>>] = today]
    /\ transfers' = transfers + 1
    /\ UNCHANGED <<today, circle, round, owed, observed, seat, past, leaves>>

\* Mutant: rows that are paid already are asked about again.
AnyRow(d) == round[d[1]] = "open"

\* status = 'pending' AND r.status = 'open'
Listed(d) == observed[d] = 0 /\ round[d[1]] = "open"

\* The hourly pass comes to it; the newest transfer answers.
Observe(d) ==
    /\ d \in owed
    /\ Listed(d)
    /\ newest[d] # 0
    /\ observed' = [observed EXCEPT ![d] = newest[d]]
    /\ UNCHANGED <<today, circle, round, owed, newest, seat, past, transfers, leaves>>

\* expelMember, by somebody else's vote: the row keeps its turn.
Expel(w) ==
    /\ leaves < MaxLeaves
    /\ w \in Live
    /\ Live # {w}
    /\ past' = [past EXCEPT ![w] = @ \union {seat[w]}]
    /\ seat' = [seat EXCEPT ![w] = Nobody]
    /\ leaves' = leaves + 1
    /\ UNCHANGED <<today, circle, round, owed, observed, newest, transfers>>

\* admitMember: a new row, without a turn.
Admit(w) ==
    /\ w \notin Live
    /\ seat' = [seat EXCEPT ![w] = 0]
    /\ UNCHANGED <<today, circle, round, owed, observed, newest, past, transfers, leaves>>

Next ==
    \/ Midnight \/ OpenNext \/ CloseLast
    \/ \E i \in Slots, w \in Women : Pay(i, w)
    \/ \E d \in Dues : Observe(d)
    \/ \E w \in Women : Expel(w) \/ Admit(w)

Spec == Init /\ [][Next]_cardVars

-----------------------------------------------------------------------------
(* disciplineState: one contribution, from its dates.                      *)

Reading(d) ==
    LET due == Due(d[1])
        paid == observed[d]
    IN  CASE paid # 0 /\ paid < due -> "early"
          [] paid # 0 /\ paid = due -> "on_time"
          [] paid > due /\ paid <= due + Grace -> "late"
          [] paid > due + Grace -> "repaid"
          [] paid = 0 /\ today > due + Grace -> "behind"
          [] OTHER -> "pending"

\* stats.ts: the rows of the programme in one state.
Bucket(st) == {d \in owed : Reading(d) = st}

\* slotFor
Glyph(d) ==
    IF d \notin owed THEN "pending"
    ELSE CASE Reading(d) \in {"early", "on_time"} -> "on_time"
           [] Reading(d) \in {"late", "repaid"} -> "late"
           [] Reading(d) = "behind" -> "missed"
           [] OTHER -> "pending"

-----------------------------------------------------------------------------
(* buildCard.                                                              *)

\* Mutant: the round after the last of a cycle is counted to the same one.
CycleFloor(i, n) == i \div n + 1

\* Math.ceil(i / n)
CycleOf(i, n) == (i + n - 1) \div n

\* MAX(turn_order) among live members, else the number of rounds.
cycleLength ==
    LET turns == {seat[w] : w \in Live} IN
    IF turns \ {0} = {} THEN Cardinality(Slots) ELSE Max(turns)

\* The open round, else the furthest on record.
currentRound == IF Is("open") # {} THEN Min(Is("open")) ELSE Max(Slots)
currentCycle == CycleOf(currentRound, cycleLength)

\* Whichever of her rows LIMIT 1 returns.
TurnSlots(w) == past[w] \union (IF w \in Live THEN {seat[w]} ELSE {})

IndexOf(p) == (currentCycle - 1) * cycleLength + p

\* The star row, if her turn is t.
Stars(w, t) ==
    [p \in 1..cycleLength |->
        IF p = t \/ (IndexOf(p) \in Slots /\ Recipient(IndexOf(p)) = w) THEN "turn"
        ELSE IF IndexOf(p) \in Slots THEN Glyph(<<IndexOf(p), w>>)
        ELSE "pending"]

\* The drill-in counts a cycle over the departed too.
drillInLength == Max({0} \union {t \in UNION {TurnSlots(w) : w \in Women} : t # 0})

-----------------------------------------------------------------------------
(* runDueReminders: its two queries, over the same rows.                   *)

OutOfGrace(i) == Due(i) < today - Grace

Remindable == {d \in owed : observed[d] = 0 /\ circle = "active"
                            /\ today <= Due(d[1]) /\ Due(d[1]) <= today + Lead}
ToldLate == {d \in owed : observed[d] = 0 /\ circle = "active" /\ OutOfGrace(d[1])}

-----------------------------------------------------------------------------
(* Properties *)

Judged == {"early", "on_time", "late", "repaid"}

\* "It happened", so it stays: what a contribution was once read as paid, it is
\* read as ever after, whoever leaves, whatever round completes and whatever
\* she sends again; "behind" gives way only to a payment, and no verdict turns
\* back into "pending".
StaysJudged ==
    \A d \in owed :
        /\ Reading(d) \in Judged => Reading(d)' = Reading(d)
        /\ Reading(d) = "behind" => Reading(d)' \in Judged \union {"behind"}

JudgedForGood == [][StaysJudged]_cardVars

\* "Every stat, badge and reminder must call this function so they can never
\* disagree about her": the late notice goes to exactly those the record calls
\* behind, and the reminder only to those of whom it says nothing yet.
NoticesFollowTheRecord ==
    /\ circle = "active" => ToldLate = Bucket("behind")
    /\ Remindable \subseteq Bucket("pending")

\* As long as nobody has left, the card and the drill-in count the same cycle,
\* and what she owes in it stands in her row under its own mark.
RowIsTheRecord ==
    (\A w \in Women : past[w] = {}) =>
        /\ cycleLength = drillInLength
        /\ \A w \in Women : \A i \in Slots :
            <<i, w>> \in owed /\ CycleOf(i, cycleLength) = currentCycle
                => \E p \in 1..cycleLength : IndexOf(p) = i /\ Stars(w, seat[w])[p] = Glyph(<<i, w>>)

\* The screens and the notices say one thing of her.
OneVerdict == NoticesFollowTheRecord /\ RowIsTheRecord

=============================================================================
