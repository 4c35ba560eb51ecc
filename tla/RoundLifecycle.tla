--------------------------- MODULE RoundLifecycle ---------------------------
(***************************************************************************)
(* What the rotation promises, without requests, seats or addresses: each  *)
(* circle is activated once, its rounds are scheduled in slot order for    *)
(* distinct members, opened in slot order, and completed; nothing is ever  *)
(* taken back.  Rotation implements it (Rotation!Refinement).              *)
(***************************************************************************)
EXTENDS Integers

CONSTANTS Members, NoMember, Tins, MaxTurn

VARIABLES status, roundState, recipient

Slots == 1..MaxTurn
vars == <<status, roundState, recipient>>

Init ==
    /\ status = [c \in Tins |-> "forming"]
    /\ roundState = [c \in Tins |-> [s \in Slots |-> "none"]]
    /\ recipient = [c \in Tins |-> [s \in Slots |-> NoMember]]

Activate(c) ==
    /\ status[c] = "forming"
    /\ status' = [status EXCEPT ![c] = "active"]
    /\ UNCHANGED <<roundState, recipient>>

\* A new round comes after every round there is, for a member who has none.
Schedule(c, s, m) ==
    /\ status[c] # "forming"
    /\ \A t \in Slots : roundState[c][t] # "none" => t < s /\ recipient[c][t] # m
    /\ roundState[c][s] = "none"
    /\ roundState' = [roundState EXCEPT ![c][s] = "scheduled"]
    /\ recipient' = [recipient EXCEPT ![c][s] = m]
    /\ UNCHANGED status

Open(c, s) ==
    /\ roundState[c][s] = "scheduled"
    /\ \A t \in Slots : t < s => roundState[c][t] # "scheduled"
    /\ roundState' = [roundState EXCEPT ![c][s] = "open"]
    /\ UNCHANGED <<status, recipient>>

\* One or several open rounds are closed by one statement.
Complete(c, S) ==
    /\ \A s \in S : roundState[c][s] = "open"
    /\ roundState' = [roundState EXCEPT ![c] =
                        [s \in Slots |-> IF s \in S THEN "completed" ELSE @[s]]]
    /\ UNCHANGED <<status, recipient>>

\* A circle closes only after a round of it has been paid out.
Finish(c) ==
    /\ status[c] = "active"
    /\ \E s \in Slots : roundState[c][s] = "completed"
    /\ status' = [status EXCEPT ![c] = "completed"]
    /\ UNCHANGED <<roundState, recipient>>

Next ==
    \E c \in Tins :
        \/ Activate(c)
        \/ \E s \in Slots : \E m \in Members : Schedule(c, s, m)
        \/ \E s \in Slots : Open(c, s)
        \/ \E S \in SUBSET Slots : Complete(c, S)
        \/ Finish(c)

Spec == Init /\ [][Next]_vars
=============================================================================
