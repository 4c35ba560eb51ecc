------------------------------- MODULE SeedRows -------------------------------
(***************************************************************************)
(* The seed scripts of the circles as data: the statements of each over    *)
(* parts (what it puts into one table), what a deletion of a part takes    *)
(* with it, and the rows of the two live circles.                          *)
(***************************************************************************)
EXTENDS FiniteSets, Integers, Sequences

Forming == {"kejetia", "tema"}
Live == {"makola", "beta"}            \* with rounds, and with a cast of its own
Circles == Live \union Forming

Tenant == <<"programme", "tenants">>
Parts ==
    {Tenant} \union (Live \X {"members", "rounds", "contributions"})
    \union (Circles \X {"contracts", "contract_members", "contract_events"})

\* The forming tins are made of the beta circle's women.
Cast(c) == <<IF c = "makola" THEN "makola" ELSE "beta", "members">>

\* What a part goes with (ON DELETE CASCADE), and what its rows refer to.
CascadesFrom(p) ==
    LET circle == <<p[1], "contracts">> IN
    CASE p[2] = "tenants" -> {}
      [] p[2] \in {"members", "contracts"} -> {Tenant}
      [] p[2] \in {"rounds", "contract_events"} -> {Tenant, circle}
      [] p[2] = "contract_members" -> {Tenant, circle, Cast(p[1])}
      [] p[2] = "contributions" -> {Tenant, circle, Cast(p[1]), <<p[1], "rounds">>}

RefersTo(p) == CascadesFrom(p) \union (IF p[2] = "rounds" THEN {Cast(p[1])} ELSE {})

-----------------------------------------------------------------------------
(* The scripts: <<what, parts>> *)

Delete(c, tables) == [i \in DOMAIN tables |-> <<"delete", {<<c, tables[i]>>}>>]
Insert(c, tables) == [i \in DOMAIN tables |-> <<"insert", {<<c, tables[i]>>}>>]

DemoCircle ==
    <<<<"delete", {Tenant}>>, <<"insert", {Tenant}>>>>
    \o Insert("makola", <<"members", "contracts", "contract_members", "rounds",
                          "contributions", "contract_events">>)

\* Mutant: the members are cleared without the LIKE 'beta-mem-%'.
EveryMember == Live \X {"members"}

BetaMembers == {<<"beta", "members">>}

BetaCircle ==
    <<<<"need", {Tenant}>>>>
    \o Delete("beta", <<"contributions", "rounds", "contract_events", "contract_members",
                        "contracts">>)
    \o <<<<"delete", BetaMembers>>>>
    \o Insert("beta", <<"members", "contracts", "contract_members", "rounds",
                        "contributions", "contract_events">>)

FormingTin(c) ==
    Delete(c, <<"contract_members", "contract_events", "contracts">>)
    \o Insert(c, <<"contracts", "contract_members", "contract_events">>)

FormingTins ==
    <<<<"need", {Tenant}>>, <<"need", BetaMembers>>>> \o FormingTin("kejetia") \o FormingTin("tema")

Script == [demo |-> DemoCircle, beta |-> BetaCircle, forming |-> FormingTins]

-----------------------------------------------------------------------------
(* The rows: a woman is her number in the cast, and a day is counted from  *)
(* the day of the seeding.                                                 *)

Women == [makola |-> 1..11, beta |-> 1..26]
Verified == [makola |-> Women.makola \ {7, 11}, beta |-> Women.beta \ {17, 24}]
CURRENT_ROUND == [makola |-> 6, beta |-> 14]
GRACE == 3
roundDueOffset(c, n) == (n - CURRENT_ROUND[c]) * 7 + 2

\* makola: the departed (11) held turn 7, and her replacement (10) took it over.
Turn(c, w) ==
    IF c = "beta" \/ w \in (1..6) \union {8, 9} THEN w ELSE IF w = 7 THEN 10 ELSE 7

Left(c) == IF c = "makola" THEN [who |-> 11, after |-> 5] ELSE [who |-> 24, after |-> 10]
Late(c) == IF c = "makola" THEN [who |-> 10, from |-> 6] ELSE [who |-> 23, from |-> 9]

activeInRound(c, w, n) ==
    /\ w = Left(c).who => n <= Left(c).after
    /\ w = Late(c).who => n >= Late(c).from

recipientOf(c, n) ==
    CHOOSE w \in Women[c] : Turn(c, w) = n /\ (c = "makola" => w # Left(c).who)

\* How many days after the due date she pays; or she has not.
NotSeen == 99

PAY_OFFSET ==
    <<<<-3, -2, -3, -2, -3, -2>>, <<0, 0, -1, 0, 0, 0>>, <<-1, 6, 0, -1, 0, NotSeen>>,
      <<2, 1, 0, 2, 1, NotSeen>>, <<-2, -2, -2, -2, -2, -2>>, <<0, -1, 0, 0, 3, NotSeen>>,
      <<0, 0, 1, 0, NotSeen, NotSeen>>, <<-1, -1, 0, 0, -1, -1>>, <<0, 1, 0, 0, 0, NotSeen>>,
      <<NotSeen, NotSeen, NotSeen, NotSeen, NotSeen, -1>>, <<0, 0, 0, -1, 0, NotSeen>>>>

payOffset(w, n) ==
    CASE n = CURRENT_ROUND.beta /\ (w - 1) % 3 = 1 -> NotSeen
      [] OTHER ->
         CASE w = 4 -> IF n % 4 = 0 THEN 0 ELSE 2
           [] w = 9 -> IF n = 5 THEN 6 ELSE IF n % 3 # 0 THEN 0 ELSE -1
           [] w = 17 -> IF n = 11 THEN NotSeen ELSE IF n % 2 = 1 THEN 0 ELSE -1
           [] w = 2 -> IF n % 5 = 0 THEN 1 ELSE -2
           [] w = 20 -> IF n % 3 = 0 THEN 3 ELSE 0
           [] w = 6 -> -3
           [] OTHER -> IF (w - 1 + n) % 7 = 0 THEN 1 ELSE IF (w - 1) % 3 = 0 THEN -1 ELSE 0

Offset(c, w, n) == IF c = "makola" THEN PAY_OFFSET[w][n] ELSE payOffset(w, n)

\* The contributions: nobody pays herself.
Dues(c) ==
    {due \in (1..CURRENT_ROUND[c]) \X Women[c] :
        due[2] # recipientOf(c, due[1]) /\ activeInRound(c, due[2], due[1])}

\* disciplineState on the day of the seeding; a payment that the beta circle has
\* seen is never of a day to come.
Reading(c, due) ==
    LET on == roundDueOffset(c, due[1])
        off == Offset(c, due[2], due[1])
        paid == IF c = "beta" /\ on + off > -1 THEN -1 ELSE on + off
    IN  CASE off = NotSeen -> IF 0 > on + GRACE THEN "behind" ELSE "pending"
          [] OTHER -> CASE paid < on -> "early"
                        [] paid = on -> "on_time"
                        [] paid > on /\ paid <= on + GRACE -> "late"
                        [] OTHER -> "repaid"

Read(c, reading) == {due \in Dues(c) : Reading(c, due) = reading}

\* The savings group, where k is 0 for this month and grace five days.
Savers == {2, 4, 6, 8, 9}
savingsOffset(k, w) ==
    CASE k = 0 -> IF w \in {2, 6, 8} THEN -7 ELSE NotSeen
      [] k = -1 /\ w = 9 -> NotSeen
      [] OTHER -> IF w = 4 THEN 1 ELSE -1

Savings(k, w) ==
    LET on == 30 * k + 5 IN
    CASE savingsOffset(k, w) # NotSeen -> IF on + savingsOffset(k, w) > 0 THEN "future" ELSE "paid"
      [] OTHER -> IF 0 > on + 5 THEN "behind" ELSE "pending"

\* What the two live circles are seeded to show: no two women who are in it
\* hold one turn; whoever has had a round opened for her was in the circle and
\* verified; nine paid each closed round of Makola (its payout of 225); and the
\* one open debt and the one made good are the two that the scripts name.  In the
\* savings group one month was skipped by one woman, and nothing is paid tomorrow.
ReadsAsSaid ==
    /\ \A c \in Live :
        /\ \A v, w \in Women[c] \ {Left(c).who} : Turn(c, v) = Turn(c, w) => v = w
        /\ \A n \in 1..CURRENT_ROUND[c] :
            LET w == recipientOf(c, n) IN activeInRound(c, w, n) /\ w \in Verified[c]
    /\ \A n \in 1..5 : Cardinality({due \in Dues("makola") : due[1] = n}) * 25 = 225
    /\ Read("makola", "behind") = {<<5, 7>>} /\ Read("makola", "repaid") = {<<2, 3>>}
    /\ Read("beta", "behind") = {<<11, 17>>} /\ Read("beta", "repaid") = {<<5, 9>>}
    /\ {s \in (-3..0) \X Savers : Savings(s[1], s[2]) = "behind"} = {<<-1, 9>>}
    /\ \A s \in (-3..0) \X Savers : Savings(s[1], s[2]) # "future"

=============================================================================
