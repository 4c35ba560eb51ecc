----------------------------- MODULE CircleVotes -----------------------------
(***************************************************************************)
(* "The group decides": asking to join a circle, putting a question to it, *)
(* casting ballots, and the close pass that resolves the votes whose       *)
(* window has ended (src/src/lib/circles/votes.ts and its routes).         *)
(*                                                                         *)
(* One circle.  A task is a request or a run of the close pass: a record   *)
(* of the statement that comes next and of what the earlier ones read.     *)
(* One action is one awaited `db.execute`.  A failing statement ends its   *)
(* task, a crash of the server ends them all, and what was written stays.  *)
(*                                                                         *)
(* Left out: sessions, the admissions hold, titles, logins already settled *)
(* in another programme, and mid_entry votes, which no code opens and the  *)
(* close pass treats as admissions.                                        *)
(***************************************************************************)
EXTENDS Naturals, FiniteSets

CONSTANTS
    Members,        \* everybody with a member row in the programme
    InitLive,       \* those with a live contract_members row at the start
    Candidates,     \* bound: members who ask to join during a run
    MaxVotes,       \* bound: the circle_votes rows a run may create
    Choices,        \* the ballots a run explores
    OutsideVotes,   \* rows written for the kinds no route opens yet
    Requests,       \* concurrent join, propose and cast requests
    Passes,         \* concurrent close passes (the cron, and on read)
    MaxCrashes,     \* bound: failed statements and crashes in a run
    NoMember        \* a NULL subject_member_id or invited_by

ASSUME MemberAssumption ==
    /\ NoMember \notin Members /\ IsFiniteSet(Members)
    /\ InitLive \subseteq Members
ASSUME ChoiceAssumption == Choices \subseteq {"yes", "no", "abstain"}
ASSUME TaskAssumption == Requests \cap Passes = {}
ASSUME BoundAssumption == MaxVotes \in Nat /\ MaxCrashes \in Nat

Votes == 1..MaxVotes    \* rows in the order of their INSERTs

OpenVote(kind, threshold, subject, sponsor) ==
    [status |-> "open", kind |-> kind, threshold |-> threshold,
     subject |-> subject, sponsor |-> sponsor]

\* "blackball and unanimous_no are schema-ready": their rows come from outside.
OutsideKinds == {OpenVote("expulsion", "unanimous_no", m, NoMember) : m \in Members}
                  \cup {OpenVote("admission", "blackball", m, NoMember) : m \in Members}
ASSUME OutsideAssumption == OutsideVotes \subseteq OutsideKinds

VARIABLES
    live,       \* members with a contract_members row whose left_at is NULL
    settled,    \* members whose login has this programme as active tenant
    vote,       \* circle_votes
    ended,      \* votes whose closes_at has passed
    ballots,    \* circle_vote_ballots
    task,       \* the requests and passes in flight
    crashes     \* how many there were

vars == <<live, settled, vote, ended, ballots, task, crashes>>

Tasks == Requests \cup Passes
Idle == [pc |-> "idle"]
NoVote == [status |-> "none"]
Someone == Members \cup {NoMember}

JoinTask == [pc : {"sponsor", "already_in", "pending", "ask"}, member : Members, sponsor : Members]
ProposeTask == [pc : {"propose"}]
CastTask == [pc : {"eligible", "cast"}, vote : Votes, member : Members, ballot : Choices]
ResolveTask == [pc : {"resolve"}, vote : Votes, voter : Members]
TallyTask == [pc : {"tally"}, todo : (SUBSET Votes) \ {{}}]   \* a pass ends with its list
CountTask == [pc : {"count"}, vote : Votes, noes : 0..Cardinality(Members), todo : SUBSET Votes]
CloseTask == [pc : {"close"}, vote : Votes, verdict : {"passed", "failed"}, todo : SUBSET Votes]
EffectTask == [pc : {"already", "admit", "grant", "expel"}, vote : Votes, todo : SUBSET Votes]

TypeOK ==
    /\ live \subseteq Members
    /\ settled \subseteq Members
    /\ vote \in [Votes -> {NoVote} \cup
                   [status : {"open", "passed", "failed"},
                    kind : {"admission", "proposal", "expulsion"},
                    threshold : {"sponsor", "majority", "blackball", "unanimous_no"},
                    subject : Someone, sponsor : Someone]]
    /\ ended \subseteq Votes
    /\ ballots \in [Votes -> [Members -> Choices \cup {"none"}]]
    /\ task \in [Tasks -> {Idle} \cup JoinTask \cup ProposeTask \cup CastTask \cup ResolveTask
                            \cup TallyTask \cup CountTask \cup CloseTask \cup EffectTask]
    /\ crashes \in 0..MaxCrashes

Init ==
    /\ live = InitLive
    /\ settled = InitLive
    /\ vote = [v \in Votes |-> NoVote]
    /\ ended = {}
    /\ ballots = [v \in Votes |-> [m \in Members |-> "none"]]
    /\ task = [t \in Tasks |-> Idle]
    /\ crashes = 0

IsOpen(v) == vote[v].status = "open"
NextRow(v) == vote[v] = NoVote /\ \A w \in 1..v-1 : vote[w] # NoVote
Decided(v) == vote[v].status \in {"passed", "failed"}
Goto(t, r) == task' = [task EXCEPT ![t] = r]

-----------------------------------------------------------------------------
(* Opening votes: join.ts, join-request.ts, propose.ts.                    *)

\* The circle is forming or active; a request to any other changes nothing.
Join(t, m, s) ==
    /\ m \in Candidates
    /\ task[t] = Idle
    /\ Goto(t, [pc |-> "sponsor", member |-> m, sponsor |-> s])
    /\ UNCHANGED <<live, settled, vote, ended, ballots, crashes>>

\* sponsor_not_in_group, then cannot_sponsor_self.
JoinSponsor(t) ==
    /\ task[t].pc = "sponsor"
    /\ Goto(t, IF task[t].sponsor \in live /\ task[t].sponsor # task[t].member
               THEN [task[t] EXCEPT !.pc = "already_in"] ELSE Idle)
    /\ UNCHANGED <<live, settled, vote, ended, ballots, crashes>>

JoinAlreadyIn(t) ==
    /\ task[t].pc = "already_in"
    /\ Goto(t, IF task[t].member \in live THEN Idle ELSE [task[t] EXCEPT !.pc = "pending"])
    /\ UNCHANGED <<live, settled, vote, ended, ballots, crashes>>

HasOpenAdmission(m) ==
    \E v \in Votes : IsOpen(v) /\ vote[v].kind = "admission" /\ vote[v].subject = m

JoinPending(t) ==
    /\ task[t].pc = "pending"
    /\ Goto(t, IF HasOpenAdmission(task[t].member) THEN Idle ELSE [task[t] EXCEPT !.pc = "ask"])
    /\ UNCHANGED <<live, settled, vote, ended, ballots, crashes>>

\* Where asking used to settle her login, and no longer does.
SettledByAsking(m) == settled \cup {m}
SettledAfterAsking(m) == settled

JoinAsk(t, v) ==
    /\ task[t].pc = "ask"
    /\ NextRow(v)
    /\ vote' = [vote EXCEPT ![v] = OpenVote("admission", "sponsor",
                                            task[t].member, task[t].sponsor)]
    /\ settled' = SettledAfterAsking(task[t].member)
    /\ Goto(t, Idle)
    /\ UNCHANGED <<live, ended, ballots, crashes>>

\* A live member of the circle puts a question to it.
Propose(t, m) ==
    /\ task[t] = Idle
    /\ m \in live
    /\ Goto(t, [pc |-> "propose"])
    /\ UNCHANGED <<live, settled, vote, ended, ballots, crashes>>

ProposeInsert(t, v) ==
    /\ task[t].pc = "propose"
    /\ NextRow(v)
    /\ vote' = [vote EXCEPT ![v] = OpenVote("proposal", "majority", NoMember, NoMember)]
    /\ Goto(t, Idle)
    /\ UNCHANGED <<live, settled, ended, ballots, crashes>>

\* Run bound: every vote row is taken, the request ends.
OutOfVotes(t) ==
    /\ task[t].pc \in {"ask", "propose"}
    /\ \A v \in Votes : vote[v] # NoVote
    /\ Goto(t, Idle)
    /\ UNCHANGED <<live, settled, vote, ended, ballots, crashes>>

\* Run bound: one such row of each threshold.
OpenOutside(v, row) ==
    /\ NextRow(v)
    /\ ~ \E w \in 1..v-1 : vote[w].threshold = row.threshold
    /\ (row.kind = "admission") = (row.subject \notin live)
    /\ vote' = [vote EXCEPT ![v] = row]
    /\ UNCHANGED <<live, settled, ended, ballots, task, crashes>>

-----------------------------------------------------------------------------
(* castBallot.  closes_at is not looked at here.                           *)

\* Only her sponsor vouches; nobody votes on herself.
MayCast(v, m) ==
    IF vote[v].threshold = "sponsor" THEN m = vote[v].sponsor ELSE m # vote[v].subject

Cast(t, v, m, b) ==
    /\ task[t] = Idle
    /\ IsOpen(v)
    /\ MayCast(v, m)
    /\ Goto(t, [pc |-> IF vote[v].threshold = "sponsor" THEN "cast" ELSE "eligible",
                vote |-> v, member |-> m, ballot |-> b])
    /\ UNCHANGED <<live, settled, vote, ended, ballots, crashes>>

\* A tallied vote is for live members; a sponsor is not asked whether she still is.
CastEligible(t) ==
    /\ task[t].pc = "eligible"
    /\ Goto(t, IF task[t].member \in live THEN [task[t] EXCEPT !.pc = "cast"] ELSE Idle)
    /\ UNCHANGED <<live, settled, vote, ended, ballots, crashes>>

\* Only a sponsor's ballot resolves a vote before its window ends.
ResolvesOnBallot(v) == vote[v].threshold = "sponsor"

\* The primary key (vote_id, member_id) refuses a second ballot.
CastInsert(t) ==
    /\ task[t].pc = "cast"
    /\ LET v == task[t].vote
           m == task[t].member
       IN  IF ballots[v][m] = "none"
           THEN /\ ballots' = [ballots EXCEPT ![v][m] = task[t].ballot]
                /\ Goto(t, IF ResolvesOnBallot(v) THEN [pc |-> "resolve", vote |-> v,
                                                        voter |-> m] ELSE Idle)
           ELSE /\ Goto(t, Idle)
                /\ UNCHANGED ballots
    /\ UNCHANGED <<live, settled, vote, ended, crashes>>

AdmitsMidEntryOnly(v) == vote[v].kind = "mid_entry"
Admits(v) == vote[v].kind = "admission"

\* UPDATE ... WHERE status = 'open'; whether it hit a row is not looked at.
CastResolve(t) ==
    /\ task[t].pc = "resolve"
    /\ LET v == task[t].vote
           passed == ballots[v][task[t].voter] = "yes"
       IN  /\ vote' = [vote EXCEPT ![v].status =
                         IF @ # "open" THEN @ ELSE IF passed THEN "passed" ELSE "failed"]
           /\ Goto(t, IF passed /\ Admits(v)
                      THEN [pc |-> "already", vote |-> v, todo |-> {}] ELSE Idle)
    /\ UNCHANGED <<live, settled, ended, ballots, crashes>>

-----------------------------------------------------------------------------
(* closeExpiredVotes: one list of due votes, then each in turn.            *)

AnyOpenVote(v) == IsOpen(v)
TalliedOnly(v) == IsOpen(v) /\ v \in ended /\ vote[v].threshold # "sponsor"
Due(v) == IsOpen(v) /\ v \in ended

PassStart(t) ==
    /\ task[t] = Idle
    /\ \E v \in Votes : Due(v)
    /\ Goto(t, [pc |-> "tally", todo |-> {v \in Votes : Due(v)}])
    /\ UNCHANGED <<live, settled, vote, ended, ballots, crashes>>

\* On to the rest of the list; a request has none.
NeverDone(todo) == [pc |-> "tally", todo |-> todo]
Onward(todo) == IF todo = {} THEN Idle ELSE [pc |-> "tally", todo |-> todo]

Voters(v, b) == {m \in Members : ballots[v][m] = b}

\* The verdict the ballots give; unanimous_no needs one more read.
Verdict(v) ==
    LET passed == CASE vote[v].threshold = "sponsor" -> vote[v].sponsor \in Voters(v, "yes")
                    [] vote[v].threshold = "majority" ->
                         Cardinality(Voters(v, "yes")) > Cardinality(Voters(v, "no"))
                    [] OTHER -> Voters(v, "no") = {}
    IN  IF passed THEN "passed" ELSE "failed"

PassTally(t, v) ==
    /\ task[t].pc = "tally"
    /\ v \in task[t].todo
    /\ LET rest == task[t].todo \ {v} IN
        Goto(t, IF vote[v].threshold = "unanimous_no"
                THEN [pc |-> "count", vote |-> v, todo |-> rest,
                      noes |-> Cardinality(Voters(v, "no"))]
                ELSE [pc |-> "close", vote |-> v, todo |-> rest, verdict |-> Verdict(v)])
    /\ UNCHANGED <<live, settled, vote, ended, ballots, crashes>>

\* Every live member but the subject must have said no; silence blocks.
PassCount(t) ==
    /\ task[t].pc = "count"
    /\ LET eligible == Cardinality(live \ {vote[task[t].vote].subject}) IN
        Goto(t, [pc |-> "close", vote |-> task[t].vote, todo |-> task[t].todo,
                 verdict |-> IF eligible > 0 /\ task[t].noes >= eligible
                             THEN "passed" ELSE "failed"])
    /\ UNCHANGED <<live, settled, vote, ended, ballots, crashes>>

CloseUnguarded(v) == TRUE
CloseWins(v) == IsOpen(v)

\* Only the pass that flips the vote goes on to its effect.
PassClose(t) ==
    /\ task[t].pc = "close"
    /\ LET v == task[t].vote
           passed == task[t].verdict = "passed"
           effect(pc) == [pc |-> pc, vote |-> v, todo |-> task[t].todo]
       IN  IF CloseWins(v)
           THEN /\ vote' = [vote EXCEPT ![v].status = task[t].verdict]
                /\ Goto(t, CASE passed /\ vote[v].kind = "admission" -> effect("already")
                             [] passed /\ vote[v].kind = "expulsion" -> effect("expel")
                             [] OTHER -> Onward(task[t].todo))
           ELSE /\ Goto(t, Onward(task[t].todo))
                /\ UNCHANGED vote
    /\ UNCHANGED <<live, settled, ended, ballots, crashes>>

\* expelMember.
PassExpel(t) ==
    /\ task[t].pc = "expel"
    /\ live' = live \ {vote[task[t].vote].subject}
    /\ Goto(t, Onward(task[t].todo))
    /\ UNCHANGED <<settled, vote, ended, ballots, crashes>>

-----------------------------------------------------------------------------
(* admitMember, reached from a sponsor's ballot or from a pass.            *)

AdmitAlready(t) ==
    /\ task[t].pc = "already"
    /\ Goto(t, IF vote[task[t].vote].subject \in live
               THEN Onward(task[t].todo) ELSE [task[t] EXCEPT !.pc = "admit"])
    /\ UNCHANGED <<live, settled, vote, ended, ballots, crashes>>

\* One live row per member: a second INSERT is an error that ends the task.
AdmitInsert(t) ==
    /\ task[t].pc = "admit"
    /\ LET m == vote[task[t].vote].subject IN
        /\ live' = live \cup {m}
        /\ Goto(t, IF m \in live THEN Idle ELSE [task[t] EXCEPT !.pc = "grant"])
    /\ UNCHANGED <<settled, vote, ended, ballots, crashes>>

\* Her login is settled in the programme that admitted her.
AdmitGrant(t) ==
    /\ task[t].pc = "grant"
    /\ settled' = settled \cup {vote[task[t].vote].subject}
    /\ Goto(t, Onward(task[t].todo))
    /\ UNCHANGED <<live, vote, ended, ballots, crashes>>

-----------------------------------------------------------------------------
(* Time and failures.                                                      *)

WindowEnds(v) ==
    /\ IsOpen(v)
    /\ v \notin ended
    /\ ended' = ended \cup {v}
    /\ UNCHANGED <<live, settled, vote, ballots, task, crashes>>

\* One statement fails, or the server goes down with everything in flight.
Crash(dead) ==
    /\ crashes < MaxCrashes
    /\ \E t \in dead : task[t] # Idle
    /\ task' = [t \in Tasks |-> IF t \in dead THEN Idle ELSE task[t]]
    /\ crashes' = crashes + 1
    /\ UNCHANGED <<live, settled, vote, ended, ballots>>

-----------------------------------------------------------------------------
AdmitStep(t) == AdmitAlready(t) \/ AdmitInsert(t) \/ AdmitGrant(t)
RequestStep(t) ==
    \/ JoinSponsor(t) \/ JoinAlreadyIn(t) \/ JoinPending(t)
    \/ \E v \in Votes : JoinAsk(t, v) \/ ProposeInsert(t, v)
    \/ OutOfVotes(t)
    \/ CastEligible(t) \/ CastInsert(t) \/ CastResolve(t)
    \/ AdmitStep(t)
PassStep(t) ==
    \/ \E v \in Votes : PassTally(t, v)
    \/ PassCount(t) \/ PassClose(t) \/ PassExpel(t)
    \/ AdmitStep(t)

Next ==
    \/ \E t \in Requests : \E m, s \in Members : Join(t, m, s)
    \/ \E t \in Requests : \E m \in Members : Propose(t, m)
    \/ \E t \in Requests : \E v \in Votes : \E m \in Members : \E b \in Choices : Cast(t, v, m, b)
    \/ \E t \in Requests : RequestStep(t)
    \/ \E t \in Passes : PassStart(t) \/ PassStep(t)
    \/ \E v \in Votes : \E row \in OutsideVotes : OpenOutside(v, row)
    \/ \E v \in Votes : WindowEnds(v)
    \/ \E t \in Tasks : Crash({t})
    \/ Crash(Tasks)

Spec == Init /\ [][Next]_vars

\* Statements that were started are resumed, and the daily close-votes cron
\* (render.yaml) keeps starting passes.  Nobody has to cast a ballot.
Fairness ==
    /\ \A t \in Requests : WF_vars(RequestStep(t))
    /\ \A t \in Passes : WF_vars(PassStart(t)) /\ WF_vars(PassStep(t))

FairSpec == Spec /\ Fairness

-----------------------------------------------------------------------------
(* What the group is owed.                                                 *)

\* A verdict is final: whichever of two passes and a sponsor's ballot gets to
\* the vote first decides it, and the losers never write over it ("the
\* status='open' guard on the UPDATE means two concurrent passes cannot both
\* apply the same outcome").
DecidedOnce ==
    [][\A v \in Votes : Decided(v) => vote'[v] = vote[v]]_vars

\* A vote that is tallied is decided no sooner than its window ends.
TalliedAfterWindow ==
    \A v \in Votes :
        Decided(v) /\ vote[v].threshold # "sponsor" => v \in ended

AdmissionOf(v, m) == vote[v] # NoVote /\ vote[v].kind = "admission" /\ vote[v].subject = m
BroughtIn(v, m) ==
    /\ AdmissionOf(v, m)
    /\ IF vote[v].threshold = "sponsor" THEN ballots[v][vote[v].sponsor] = "yes"
                                         ELSE vote[v].status = "passed"

\* Whoever is a member of the circle, or sees its programme, and did not at
\* the start, was brought in by her sponsor's yes or by a tallied admission
\* that passed; asking to join gives nothing.
InByTheGroupOnly ==
    \A m \in (live \cup settled) \ InitLive : \E v \in Votes : BroughtIn(v, m)

\* The close pass gets to every vote: one whose window has ended is decided,
\* even if a pass fails half way through its list.
DueVotesAreDecided ==
    \A v \in Votes : IsOpen(v) /\ v \in ended ~> Decided(v)

\* An admission that passed puts her in the circle, unless a statement failed
\* between the verdict and its effect.
PassedIsAdmitted ==
    \A v \in Votes : \A m \in Members :
        AdmissionOf(v, m) /\ vote[v].status = "passed" ~> m \in live \/ crashes > 0

-----------------------------------------------------------------------------
(* What the comments say and the code does not do.                         *)

\* votes.ts on an admission still open at its close: "the sponsor never voted
\* yes -- no vouch, no entry"; on the grant: "the consequence of the group
\* saying yes, which is the only thing that should ever produce it".
NoEntryOnAFailedVote ==
    \A m \in live \ InitLive : \E v \in Votes : AdmissionOf(v, m) /\ vote[v].status = "passed"
=============================================================================
