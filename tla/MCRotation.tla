----------------------------- MODULE MCRotation -----------------------------
(* Instances of Rotation: who is seated and which addresses are in place.  *)
EXTENDS Rotation, TLC

CONSTANTS m1, m2, m3, t1, t2, w1, w2, w3, w4

\* Three women agreed on an order in t1; t2 (when there is one) is empty.
SeatedInT1(c, m) ==
    IF c # t1 THEN Absent ELSE CASE m = m1 -> 1 [] m = m2 -> 2 [] m = m3 -> 3 [] OTHER -> Absent
ThreeSeated == [c \in Tins |-> [m \in Members |-> SeatedInT1(c, m)]]

\* The same after one of them was moved out and back in: slot 2 is empty.
GapInT1(c, m) ==
    IF c # t1 THEN Absent ELSE CASE m = m1 -> 1 [] m = m2 -> 3 [] m = m3 -> 4 [] OTHER -> Absent
GapSeated == [c \in Tins |-> [m \in Members |-> GapInT1(c, m)]]

\* Each of the three has set her own wallet.
OwnWallets == [m \in Members |-> CASE m = m1 -> w1 [] m = m2 -> w2 [] m = m3 -> w3 [] OTHER -> NoAddress]

\* Requests of one kind are interchangeable.
RequestSymmetry == Permutations(Activators) \cup Permutations(Openers)
=============================================================================
