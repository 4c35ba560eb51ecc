---------------------------- MODULE MCCircleVotes ----------------------------
(* Instances of CircleVotes: a circle of two or three and one candidate.   *)
EXTENDS CircleVotes, TLC

CONSTANTS m1, m2, m3

\* An expulsion of m2, tallied by unanimous_no.
ExpelM2 == {OpenVote("expulsion", "unanimous_no", m2, NoMember)}

\* An admission of m3 by silence.
AdmitM3 == {OpenVote("admission", "blackball", m3, NoMember)}

\* The cron and an on-read pass are interchangeable.
PassSymmetry == Permutations(Passes)
=============================================================================
