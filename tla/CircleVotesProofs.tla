-------------------------- MODULE CircleVotesProofs --------------------------
(* Theorems about CircleVotes, for any number of members, votes, requests  *)
(* and close passes, and any number of failures between their statements.  *)
EXTENDS CircleVotes, FiniteSetTheorems, TLAPS

VoteRow == [status : {"open", "passed", "failed"},
            kind : {"admission", "proposal", "expulsion"},
            threshold : {"sponsor", "majority", "blackball", "unanimous_no"},
            subject : Someone, sponsor : Someone]
TaskRecord == {Idle} \cup JoinTask \cup ProposeTask \cup CastTask \cup ResolveTask
                 \cup TallyTask \cup CountTask \cup CloseTask \cup EffectTask

\* What a task at each statement carries.
LEMMA TaskFields ==
    ASSUME NEW r \in TaskRecord
    PROVE  /\ r.pc \in {"sponsor", "already_in", "pending", "ask"} => r \in JoinTask
           /\ r.pc \in {"eligible", "cast"} => r \in CastTask
           /\ r.pc = "resolve" => r \in ResolveTask
           /\ r.pc = "tally" => r \in TallyTask
           /\ r.pc = "count" => r \in CountTask
           /\ r.pc = "close" => r \in CloseTask
           /\ r.pc \in {"already", "admit", "grant", "expel"} => r \in EffectTask
    BY DEF TaskRecord, Idle, JoinTask, ProposeTask, CastTask, ResolveTask, TallyTask, CountTask,
           CloseTask, EffectTask

\* A task that has read nothing yet, or nothing it still goes by.
LEMMA NewTasks ==
    /\ Idle \in TaskRecord /\ Idle.pc = "idle"
    /\ [pc |-> "propose"] \in TaskRecord
    /\ \A m, s \in Members : [pc |-> "sponsor", member |-> m, sponsor |-> s] \in TaskRecord
    BY DEF TaskRecord, Idle, JoinTask, ProposeTask

\* A request to join moves on with the names it came with.
LEMMA JoinMoves ==
    ASSUME NEW r \in JoinTask, NEW pc \in {"already_in", "pending", "ask"}
    PROVE  [r EXCEPT !.pc = pc] \in TaskRecord /\ [r EXCEPT !.pc = pc].pc = pc
    BY DEF TaskRecord, JoinTask

\* So does the admission of somebody.
LEMMA EffectMoves ==
    ASSUME NEW r \in EffectTask, NEW pc \in {"admit", "grant"}
    PROVE  /\ [r EXCEPT !.pc = pc] \in TaskRecord /\ [r EXCEPT !.pc = pc].pc = pc
           /\ [r EXCEPT !.pc = pc].vote = r.vote /\ [r EXCEPT !.pc = pc].todo = r.todo
    BY DEF TaskRecord, EffectTask

\* A ballot moves on to its INSERT.
LEMMA CastMoves ==
    ASSUME NEW r \in CastTask
    PROVE  /\ [r EXCEPT !.pc = "cast"] \in TaskRecord /\ [r EXCEPT !.pc = "cast"].pc = "cast"
           /\ [r EXCEPT !.pc = "cast"].vote = r.vote
           /\ [r EXCEPT !.pc = "cast"].member = r.member
    BY DEF TaskRecord, CastTask

\* A pass goes on with the rest of its list, or ends with it.
LEMMA OnwardMoves ==
    ASSUME NEW todo \in SUBSET Votes
    PROVE  /\ Onward(todo) \in TaskRecord
           /\ \/ Onward(todo).pc = "idle"
              \/ Onward(todo).pc = "tally" /\ Onward(todo).todo = todo
<1>1. CASE todo = {}
    BY <1>1, NewTasks DEF Onward
<1>2. CASE todo # {}
    BY <1>2 DEF Onward, TaskRecord, TallyTask
<1> QED
    BY <1>1, <1>2

\* Counts of ballots and of members are numbers no larger than the circle.
LEMMA Counts ==
    ASSUME NEW S \in SUBSET Members
    PROVE  Cardinality(S) \in 0..Cardinality(Members)
<1>1. IsFiniteSet(Members) /\ IsFiniteSet(S)
    BY MemberAssumption, FS_Subset
<1>2. /\ Cardinality(S) \in Nat /\ Cardinality(Members) \in Nat
      /\ Cardinality(S) <= Cardinality(Members)
    BY <1>1, FS_CardinalityType, FS_Subset
<1> QED
    BY <1>2

-----------------------------------------------------------------------------
(* What the tasks rely on.                                                 *)

\* Somebody said yes for good: the sponsor's ballot, or a tally that passed.
SaidYes(v, rows, cast) ==
    /\ rows[v] # NoVote
    /\ rows[v].kind = "admission"
    /\ IF rows[v].threshold = "sponsor" THEN cast[v][rows[v].sponsor] = "yes"
                                         ELSE rows[v].status = "passed"

\* What a task still holds true of the vote rows, of the windows that have
\* ended and of the ballots cast, although it read them earlier.
Knows(r, rows, over, cast) ==
    /\ r.pc \in {"eligible", "cast"} =>
         /\ rows[r.vote] # NoVote
         /\ rows[r.vote].threshold = "sponsor" => r.member = rows[r.vote].sponsor
    /\ r.pc = "resolve" =>
         /\ rows[r.vote] # NoVote
         /\ rows[r.vote].threshold = "sponsor" /\ r.voter = rows[r.vote].sponsor
    /\ r.pc \in {"tally", "count", "close", "already", "admit", "grant", "expel"} =>
         \A v \in r.todo : rows[v] # NoVote /\ v \in over
    /\ r.pc \in {"count", "close"} => rows[r.vote] # NoVote /\ r.vote \in over
    /\ r.pc = "count" => rows[r.vote].threshold = "unanimous_no"
    /\ r.pc = "close" /\ r.verdict = "passed" /\ rows[r.vote].threshold = "sponsor" =>
         cast[r.vote][rows[r.vote].sponsor] = "yes"
    /\ r.pc \in {"already", "admit", "grant"} => SaidYes(r.vote, rows, cast)

TasksKnow == \A t \in Tasks : Knows(task[t], vote, ended, ballots)

\* An admission is about somebody, and whoever is to vouch is somebody.
RowsNamed ==
    \A v \in Votes : vote[v] # NoVote =>
        /\ vote[v].kind = "admission" => vote[v].subject \in Members
        /\ vote[v].threshold = "sponsor" => vote[v].sponsor \in Members

GroupInv ==
    /\ TypeOK
    /\ RowsNamed
    /\ TasksKnow
    /\ TalliedAfterWindow
    /\ InByTheGroupOnly

\* Rows, ended windows and ballots are only added to: a row keeps what it was
\* opened with, and a decided row stays as it is.
Grows ==
    /\ \A v \in Votes : vote[v] # NoVote =>
         /\ vote'[v] # NoVote
         /\ vote'[v].kind = vote[v].kind /\ vote'[v].threshold = vote[v].threshold
         /\ vote'[v].subject = vote[v].subject /\ vote'[v].sponsor = vote[v].sponsor
         /\ vote[v].status # "open" => vote'[v] = vote[v]
    /\ ended \subseteq ended'
    /\ \A v \in Votes : \A m \in Members :
         ballots[v][m] # "none" => ballots'[v][m] = ballots[v][m]

\* So what a task relies on stays true while others write.
LEMMA KnownStays ==
    ASSUME RowsNamed, Grows, NEW r \in TaskRecord, Knows(r, vote, ended, ballots)
    PROVE  Knows(r, vote', ended', ballots')
<1>1. /\ r.pc \in {"eligible", "cast"} => r.vote \in Votes
      /\ r.pc = "resolve" => r.vote \in Votes
      /\ r.pc \in {"tally", "count", "close", "already", "admit", "grant", "expel"} =>
           r.todo \subseteq Votes
      /\ r.pc \in {"count", "close", "already", "admit", "grant"} => r.vote \in Votes
    BY TaskFields DEF CastTask, ResolveTask, TallyTask, CountTask, CloseTask, EffectTask
<1>2. r.pc \in {"already", "admit", "grant"} => SaidYes(r.vote, vote', ballots')
    BY <1>1 DEF Knows, SaidYes, Grows, RowsNamed
<1>3. r.pc = "close" /\ r.verdict = "passed" /\ vote'[r.vote].threshold = "sponsor" =>
         ballots'[r.vote][vote'[r.vote].sponsor] = "yes"
    BY <1>1 DEF Knows, Grows, RowsNamed
<1> QED
    BY <1>1, <1>2, <1>3 DEF Knows, Grows

\* A step that moves one task to a record that knows what it relies on.
LEMMA TaskMoves ==
    ASSUME TypeOK, RowsNamed, TasksKnow, Grows, NEW t \in Tasks, NEW r \in TaskRecord,
           task' = [task EXCEPT ![t] = r], Knows(r, vote', ended', ballots')
    PROVE  task' \in [Tasks -> TaskRecord] /\ TasksKnow'
<1>1. task \in [Tasks -> TaskRecord]
    BY DEF TypeOK, TaskRecord
<1>2. \A u \in Tasks : Knows(task'[u], vote', ended', ballots')
    <2> SUFFICES ASSUME NEW u \in Tasks PROVE Knows(task'[u], vote', ended', ballots')
        OBVIOUS
    <2>1. CASE u = t
        BY <1>1, <2>1
    <2>2. CASE u # t
        <3>1. task'[u] = task[u] /\ task[u] \in TaskRecord
            BY <1>1, <2>2
        <3>2. Knows(task[u], vote, ended, ballots)
            BY DEF TasksKnow
        <3> QED
            BY <3>1, <3>2, KnownStays
    <2> QED
        BY <2>1, <2>2
<1> QED
    BY <1>1, <1>2 DEF TasksKnow

\* Whoever was brought in stays so, as rows and ballots only grow.
LEMMA GroupStays ==
    ASSUME RowsNamed, InByTheGroupOnly, Grows,
           \A m \in (live' \cup settled') \ (live \cup settled) :
               \E v \in Votes : SaidYes(v, vote, ballots) /\ vote[v].subject = m
    PROVE  InByTheGroupOnly'
<1> SUFFICES ASSUME NEW m \in (live' \cup settled') \ InitLive
             PROVE  \E v \in Votes : BroughtIn(v, m)'
    BY DEF InByTheGroupOnly
<1>1. PICK v \in Votes : SaidYes(v, vote, ballots) /\ vote[v].subject = m
    <2>1. CASE m \in live \cup settled
        BY <2>1 DEF InByTheGroupOnly, BroughtIn, AdmissionOf, SaidYes
    <2>2. CASE m \notin live \cup settled
        BY <2>2
    <2> QED
        BY <2>1, <2>2
<1>2. BroughtIn(v, m)'
    BY <1>1 DEF SaidYes, Grows, RowsNamed, BroughtIn, AdmissionOf
<1> QED
    BY <1>2

\* What every step is shown to do.
Kept == GroupInv' /\ Grows

TablesTyped ==
    /\ live \subseteq Members
    /\ settled \subseteq Members
    /\ vote \in [Votes -> {NoVote} \cup VoteRow]
    /\ ended \subseteq Votes
    /\ ballots \in [Votes -> [Members -> Choices \cup {"none"}]]
    /\ crashes \in 0..MaxCrashes

\* The invariant is kept by a step that adds to the tables, moves one task and
\* lets in only whom the group said yes to.
LEMMA GroupMoves ==
    ASSUME GroupInv, Grows, TablesTyped', RowsNamed', TalliedAfterWindow',
           NEW t \in Tasks, NEW r \in TaskRecord,
           task' = [task EXCEPT ![t] = r], Knows(r, vote', ended', ballots'),
           \A m \in (live' \cup settled') \ (live \cup settled) :
               \E v \in Votes : SaidYes(v, vote, ballots) /\ vote[v].subject = m
    PROVE  Kept
<1>1. task' \in [Tasks -> TaskRecord] /\ TasksKnow'
    BY TaskMoves DEF GroupInv
<1>2. InByTheGroupOnly'
    BY GroupStays DEF GroupInv
<1>3. TypeOK'
    BY <1>1 DEF TypeOK, TablesTyped, VoteRow, TaskRecord
<1> QED
    BY <1>1, <1>2, <1>3 DEF GroupInv, Kept

\* A step that only moves a task.
LEMMA TaskOnly ==
    ASSUME GroupInv, NEW t \in Tasks, NEW r \in TaskRecord,
           task' = [task EXCEPT ![t] = r], Knows(r, vote, ended, ballots),
           UNCHANGED <<live, settled, vote, ended, ballots, crashes>>
    PROVE  Kept
<1>1. Grows
    BY DEF Grows
<1>2. TablesTyped' /\ RowsNamed' /\ TalliedAfterWindow'
    BY DEF GroupInv, TypeOK, TablesTyped, VoteRow, RowsNamed, TalliedAfterWindow, Decided
<1> QED
    BY <1>1, <1>2, GroupMoves

\* A new row is open, and takes a place nothing refers to yet.
LEMMA RowAdded ==
    ASSUME GroupInv, NEW v \in Votes, NextRow(v), NEW row \in VoteRow, row.status = "open",
           row.kind = "admission" => row.subject \in Members,
           row.threshold = "sponsor" => row.sponsor \in Members,
           vote' = [vote EXCEPT ![v] = row],
           UNCHANGED <<live, settled, ended, ballots, crashes>>
    PROVE  Grows /\ TablesTyped' /\ RowsNamed' /\ TalliedAfterWindow'
<1>1. vote \in [Votes -> {NoVote} \cup VoteRow]
    BY DEF GroupInv, TypeOK, VoteRow
<1>2. Grows
    BY <1>1 DEF Grows, NextRow
<1>3. TablesTyped'
    BY <1>1 DEF GroupInv, TypeOK, TablesTyped
<1>4. RowsNamed' /\ TalliedAfterWindow'
    BY <1>1 DEF GroupInv, RowsNamed, TalliedAfterWindow, Decided
<1> QED
    BY <1>2, <1>3, <1>4

\* A row that is decided leaves 'open', and keeps everything else.
LEMMA RowDecided ==
    ASSUME GroupInv, NEW v \in Votes, IsOpen(v), NEW verdict \in {"passed", "failed"},
           vote[v].threshold = "sponsor" \/ v \in ended,
           vote' = [vote EXCEPT ![v] = [vote[v] EXCEPT !.status = verdict]],
           UNCHANGED <<live, settled, ended, ballots, crashes>>
    PROVE  /\ Grows /\ TablesTyped' /\ RowsNamed' /\ TalliedAfterWindow'
           /\ vote'[v].status = verdict
<1>1. vote \in [Votes -> {NoVote} \cup VoteRow]
    BY DEF GroupInv, TypeOK, VoteRow
<1>2. vote[v] \in VoteRow
    BY <1>1 DEF IsOpen, NoVote
<1> DEFINE row == [vote[v] EXCEPT !.status = verdict]
<1>3. /\ row \in VoteRow /\ row.status = verdict
      /\ row.kind = vote[v].kind /\ row.threshold = vote[v].threshold
      /\ row.subject = vote[v].subject /\ row.sponsor = vote[v].sponsor
    BY <1>2 DEF VoteRow
<1>4. row # NoVote /\ vote[v] # NoVote
    <2>1. NoVote.status = "none"
        BY DEF NoVote
    <2> QED
        BY <1>3, <2>1 DEF IsOpen
<1> HIDE DEF row
<1>5. vote' = [vote EXCEPT ![v] = row]
    BY DEF row
<1>6. Grows
    <2>1. vote'[v] = row /\ \A w \in Votes : w # v => vote'[w] = vote[w]
        BY <1>1, <1>5
    <2>2. UNCHANGED <<ended, ballots>> /\ vote[v].status = "open"
        BY DEF IsOpen
    <2> QED
        BY <1>3, <1>4, <2>1, <2>2 DEF Grows
<1>7. TablesTyped'
    <2>1. vote' \in [Votes -> {NoVote} \cup VoteRow]
        BY <1>1, <1>3, <1>5
    <2> QED
        BY <2>1 DEF GroupInv, TypeOK, TablesTyped
<1>8. RowsNamed' /\ TalliedAfterWindow'
    BY <1>1, <1>3, <1>4, <1>5 DEF GroupInv, RowsNamed, TalliedAfterWindow, Decided
<1> QED
    BY <1>1, <1>3, <1>5, <1>6, <1>7, <1>8

\* A task that relies on nothing.
LEMMA KnowsNothing ==
    ASSUME NEW r, r.pc \in {"idle", "sponsor", "already_in", "pending", "ask", "propose"},
           NEW rows, NEW over, NEW cast
    PROVE  Knows(r, rows, over, cast)
    BY DEF Knows

-----------------------------------------------------------------------------
(* The requests.                                                           *)

\* Asking to join, and putting a question, open a vote and give nothing else
\* (join.ts, join-request.ts, propose.ts).
LEMMA OpeningKept ==
    ASSUME GroupInv, NEW t \in Requests,
           \/ \E m, s \in Members : Join(t, m, s)
           \/ \E m \in Members : Propose(t, m)
           \/ JoinSponsor(t) \/ JoinAlreadyIn(t) \/ JoinPending(t)
           \/ \E v \in Votes : JoinAsk(t, v) \/ ProposeInsert(t, v)
           \/ OutOfVotes(t)
    PROVE  Kept
<1>t. t \in Tasks /\ task \in [Tasks -> TaskRecord] /\ task[t] \in TaskRecord
    BY DEF Tasks, GroupInv, TypeOK, TaskRecord
<1>i. Idle \in TaskRecord /\ Knows(Idle, vote', ended', ballots') /\ Knows(Idle, vote, ended, ballots)
    BY NewTasks, KnowsNothing
<1>1. ASSUME NEW m \in Members, NEW s \in Members, Join(t, m, s) PROVE Kept
    <2> DEFINE r == [pc |-> "sponsor", member |-> m, sponsor |-> s]
    <2>1. r \in TaskRecord /\ r.pc = "sponsor"
        BY NewTasks
    <2>2. task' = [task EXCEPT ![t] = r] /\ UNCHANGED <<live, settled, vote, ended, ballots, crashes>>
        BY <1>1 DEF Join, Goto
    <2> HIDE DEF r
    <2>3. Knows(r, vote, ended, ballots)
        BY <2>1, KnowsNothing
    <2> QED
        BY <1>t, <2>1, <2>2, <2>3, TaskOnly
<1>2. ASSUME NEW m \in Members, Propose(t, m) PROVE Kept
    <2> DEFINE r == [pc |-> "propose"]
    <2>1. r \in TaskRecord /\ r.pc = "propose"
        BY NewTasks
    <2>2. task' = [task EXCEPT ![t] = r] /\ UNCHANGED <<live, settled, vote, ended, ballots, crashes>>
        BY <1>2 DEF Propose, Goto
    <2> HIDE DEF r
    <2>3. Knows(r, vote, ended, ballots)
        BY <2>1, KnowsNothing
    <2> QED
        BY <1>t, <2>1, <2>2, <2>3, TaskOnly
<1>3. ASSUME JoinSponsor(t) \/ JoinAlreadyIn(t) \/ JoinPending(t) PROVE Kept
    <2>1. task[t] \in JoinTask
        BY <1>3, <1>t, TaskFields DEF JoinSponsor, JoinAlreadyIn, JoinPending
    <2>2. /\ UNCHANGED <<live, settled, vote, ended, ballots, crashes>>
          /\ \/ task' = [task EXCEPT ![t] = Idle]
             \/ \E pc \in {"already_in", "pending", "ask"} :
                    task' = [task EXCEPT ![t] = [task[t] EXCEPT !.pc = pc]]
        BY <1>3 DEF JoinSponsor, JoinAlreadyIn, JoinPending, Goto
    <2>3. CASE task' = [task EXCEPT ![t] = Idle]
        BY <1>t, <1>i, <2>2, <2>3, TaskOnly
    <2>4. ASSUME NEW pc \in {"already_in", "pending", "ask"},
                 task' = [task EXCEPT ![t] = [task[t] EXCEPT !.pc = pc]]
          PROVE  Kept
        <3> DEFINE r == [task[t] EXCEPT !.pc = pc]
        <3>1. r \in TaskRecord /\ r.pc = pc
            BY <2>1, JoinMoves
        <3>2. task' = [task EXCEPT ![t] = r]
            BY <2>4
        <3> HIDE DEF r
        <3>3. Knows(r, vote, ended, ballots)
            BY <3>1, KnowsNothing
        <3> QED
            BY <1>t, <2>2, <3>1, <3>2, <3>3, TaskOnly
    <2> QED
        BY <2>2, <2>3, <2>4
<1>4. ASSUME NEW v \in Votes, JoinAsk(t, v) PROVE Kept
    <2>1. task[t] \in JoinTask
        BY <1>4, <1>t, TaskFields DEF JoinAsk
    <2> DEFINE row == OpenVote("admission", "sponsor", task[t].member, task[t].sponsor)
    <2>2. /\ row \in VoteRow /\ row.status = "open"
          /\ row.subject \in Members /\ row.sponsor \in Members
        BY <2>1 DEF OpenVote, VoteRow, JoinTask, Someone
    <2>3. /\ NextRow(v) /\ vote' = [vote EXCEPT ![v] = row] /\ task' = [task EXCEPT ![t] = Idle]
          /\ UNCHANGED <<live, settled, ended, ballots, crashes>>
        BY <1>4 DEF JoinAsk, SettledAfterAsking, Goto
    <2> HIDE DEF row
    <2>4. Grows /\ TablesTyped' /\ RowsNamed' /\ TalliedAfterWindow'
        BY <2>2, <2>3, RowAdded
    <2> QED
        BY <1>t, <1>i, <2>3, <2>4, GroupMoves
<1>5. ASSUME NEW v \in Votes, ProposeInsert(t, v) PROVE Kept
    <2> DEFINE row == OpenVote("proposal", "majority", NoMember, NoMember)
    <2>1. /\ row \in VoteRow /\ row.status = "open"
          /\ row.kind = "proposal" /\ row.threshold = "majority"
        BY DEF OpenVote, VoteRow, Someone
    <2>2. /\ NextRow(v) /\ vote' = [vote EXCEPT ![v] = row] /\ task' = [task EXCEPT ![t] = Idle]
          /\ UNCHANGED <<live, settled, ended, ballots, crashes>>
        BY <1>5 DEF ProposeInsert, Goto
    <2> HIDE DEF row
    <2>3. Grows /\ TablesTyped' /\ RowsNamed' /\ TalliedAfterWindow'
        BY <2>1, <2>2, RowAdded
    <2> QED
        BY <1>t, <1>i, <2>2, <2>3, GroupMoves
<1>6. ASSUME OutOfVotes(t) PROVE Kept
    <2>1. task' = [task EXCEPT ![t] = Idle] /\ UNCHANGED <<live, settled, vote, ended, ballots, crashes>>
        BY <1>6 DEF OutOfVotes, Goto
    <2> QED
        BY <1>t, <1>i, <2>1, TaskOnly
<1> QED
    BY <1>1, <1>2, <1>3, <1>4, <1>5, <1>6

\* A ballot is for the vote it was checked against, a sponsor's ballot is the
\* sponsor's, and only that one decides a vote at once (castBallot).
LEMMA CastKept ==
    ASSUME GroupInv, NEW t \in Requests,
           \/ \E v \in Votes : \E m \in Members : \E b \in Choices : Cast(t, v, m, b)
           \/ CastEligible(t) \/ CastInsert(t) \/ CastResolve(t)
    PROVE  Kept
<1>t. t \in Tasks /\ task \in [Tasks -> TaskRecord] /\ task[t] \in TaskRecord
    BY DEF Tasks, GroupInv, TypeOK, TaskRecord
<1>i. Idle \in TaskRecord /\ Knows(Idle, vote', ended', ballots') /\ Knows(Idle, vote, ended, ballots)
    BY NewTasks, KnowsNothing
<1>k. Knows(task[t], vote, ended, ballots)
    BY <1>t DEF GroupInv, TasksKnow
<1>v. vote \in [Votes -> {NoVote} \cup VoteRow] /\ ballots \in [Votes -> [Members -> Choices \cup {"none"}]]
    BY DEF GroupInv, TypeOK, VoteRow
<1>1. ASSUME NEW v \in Votes, NEW m \in Members, NEW b \in Choices, Cast(t, v, m, b) PROVE Kept
    <2> DEFINE pc == IF vote[v].threshold = "sponsor" THEN "cast" ELSE "eligible"
               r == [pc |-> pc, vote |-> v, member |-> m, ballot |-> b]
    <2>1. /\ r \in TaskRecord /\ r.pc \in {"cast", "eligible"} /\ r.vote = v /\ r.member = m
          /\ task' = [task EXCEPT ![t] = r]
        BY <1>1 DEF Cast, Goto, TaskRecord, CastTask
    <2>2. /\ UNCHANGED <<live, settled, vote, ended, ballots, crashes>>
          /\ MayCast(v, m) /\ vote[v] # NoVote
        BY <1>1 DEF Cast, IsOpen, NoVote
    <2> HIDE DEF r, pc
    <2>3. Knows(r, vote, ended, ballots)
        BY <2>1, <2>2 DEF Knows, MayCast
    <2> QED
        BY <1>t, <2>1, <2>2, <2>3, TaskOnly
<1>2. ASSUME CastEligible(t) PROVE Kept
    <2>1. task[t] \in CastTask /\ task[t].pc = "eligible"
        BY <1>2, <1>t, TaskFields DEF CastEligible
    <2> DEFINE r == [task[t] EXCEPT !.pc = "cast"]
    <2>2. /\ r \in TaskRecord /\ r.pc = "cast" /\ r.vote = task[t].vote /\ r.member = task[t].member
        BY <2>1, CastMoves
    <2>3. /\ task' = [task EXCEPT ![t] = r] \/ task' = [task EXCEPT ![t] = Idle]
          /\ UNCHANGED <<live, settled, vote, ended, ballots, crashes>>
        BY <1>2 DEF CastEligible, Goto
    <2> HIDE DEF r
    <2>4. Knows(r, vote, ended, ballots)
        BY <1>k, <2>1, <2>2 DEF Knows
    <2> QED
        BY <1>t, <1>i, <2>2, <2>3, <2>4, TaskOnly
<1>3. ASSUME CastInsert(t) PROVE Kept
    <2>1. task[t] \in CastTask /\ task[t].pc = "cast"
        BY <1>3, <1>t, TaskFields DEF CastInsert
    <2> DEFINE v == task[t].vote
               m == task[t].member
               b == task[t].ballot
               r == [pc |-> "resolve", vote |-> v, voter |-> m]
    <2>2. v \in Votes /\ m \in Members /\ b \in Choices
        BY <2>1 DEF CastTask
    <2>3. r \in TaskRecord /\ r.pc = "resolve" /\ r.vote = v /\ r.voter = m
        BY <2>2 DEF TaskRecord, ResolveTask
    <2>4. vote[v] # NoVote /\ (vote[v].threshold = "sponsor" => m = vote[v].sponsor)
        BY <1>k, <2>1 DEF Knows
    <2>5. CASE ballots[v][m] # "none"
        <3>1. task' = [task EXCEPT ![t] = Idle] /\ UNCHANGED <<live, settled, vote, ended, ballots, crashes>>
            BY <1>3, <2>5 DEF CastInsert, Goto
        <3> QED
            BY <1>t, <1>i, <3>1, TaskOnly
    <2>6. CASE ballots[v][m] = "none"
        <3>1. /\ ballots' = [ballots EXCEPT ![v][m] = b]
              /\ \/ vote[v].threshold = "sponsor" /\ task' = [task EXCEPT ![t] = r]
                 \/ task' = [task EXCEPT ![t] = Idle]
              /\ UNCHANGED <<live, settled, vote, ended, crashes>>
            BY <1>3, <2>6 DEF CastInsert, ResolvesOnBallot, Goto
        <3> HIDE DEF v, m, b, r
        <3>2. Grows
            BY <1>v, <2>2, <2>6, <3>1 DEF Grows
        <3>3. ballots' \in [Votes -> [Members -> Choices \cup {"none"}]]
            BY <1>v, <2>2, <3>1
        <3>4. TablesTyped'
            BY <3>1, <3>3 DEF GroupInv, TypeOK, TablesTyped, VoteRow
        <3>5. RowsNamed' /\ TalliedAfterWindow'
            BY <3>1 DEF GroupInv, RowsNamed, TalliedAfterWindow, Decided
        <3>6. vote[v].threshold = "sponsor" => Knows(r, vote', ended', ballots')
            BY <2>3, <2>4, <3>1 DEF Knows
        <3> QED
            BY <1>t, <1>i, <2>3, <3>1, <3>2, <3>4, <3>5, <3>6, GroupMoves
    <2> QED
        BY <2>5, <2>6
<1>4. ASSUME CastResolve(t) PROVE Kept
    <2>1. task[t] \in ResolveTask /\ task[t].pc = "resolve"
        BY <1>4, <1>t, TaskFields DEF CastResolve
    <2> DEFINE v == task[t].vote
               r == [pc |-> "already", vote |-> v, todo |-> {}]
               verdict == IF ballots[v][task[t].voter] = "yes" THEN "passed" ELSE "failed"
    <2>2. v \in Votes
        BY <2>1 DEF ResolveTask
    <2>3. r \in TaskRecord /\ r.pc = "already" /\ r.vote = v /\ r.todo = {}
        BY <2>2 DEF TaskRecord, EffectTask
    <2>4. vote[v] # NoVote /\ vote[v].threshold = "sponsor" /\ task[t].voter = vote[v].sponsor
        BY <1>k, <2>1 DEF Knows
    <2>5. /\ vote' = [vote EXCEPT ![v] = [vote[v] EXCEPT !.status =
                        IF vote[v].status # "open" THEN vote[v].status ELSE verdict]]
          /\ \/ task' = [task EXCEPT ![t] = r] /\ ballots[v][task[t].voter] = "yes"
                /\ vote[v].kind = "admission"
             \/ task' = [task EXCEPT ![t] = Idle]
          /\ UNCHANGED <<live, settled, ended, ballots, crashes>>
        BY <1>4 DEF CastResolve, Admits, Goto
    <2>6. verdict \in {"passed", "failed"}
        OBVIOUS
    <2> HIDE DEF v, r, verdict
    <2>7. Grows /\ TablesTyped' /\ RowsNamed' /\ TalliedAfterWindow'
        <3>1. CASE IsOpen(v)
            <4>1. vote' = [vote EXCEPT ![v] = [vote[v] EXCEPT !.status = verdict]]
                BY <2>5, <3>1 DEF IsOpen
            <4> QED
                BY <2>2, <2>4, <2>5, <2>6, <3>1, <4>1, RowDecided
        <3>2. CASE ~ IsOpen(v)
            <4>1. [vote[v] EXCEPT !.status = vote[v].status] = vote[v]
                BY <1>v, <2>2, <2>4 DEF VoteRow
            <4>2. vote' = vote
                BY <1>v, <2>2, <2>5, <3>2, <4>1 DEF IsOpen
            <4> QED
                BY <2>5, <4>2 DEF Grows, GroupInv, TypeOK, TablesTyped, VoteRow, RowsNamed,
                                  TalliedAfterWindow, Decided
        <3> QED
            BY <3>1, <3>2
    <2>8. /\ vote[v].kind = "admission" /\ ballots[v][task[t].voter] = "yes" =>
                Knows(r, vote', ended', ballots')
        BY <2>2, <2>3, <2>4, <2>5, <2>7 DEF Knows, SaidYes, Grows
    <2> QED
        BY <1>t, <1>i, <2>3, <2>5, <2>7, <2>8, GroupMoves
<1> QED
    BY <1>1, <1>2, <1>3, <1>4

-----------------------------------------------------------------------------
(* The close pass, and the admission either path leads to.                 *)

\* Going on with the rest of a list relies on no more than the list did.
LEMMA OnwardKnows ==
    ASSUME NEW todo \in SUBSET Votes, NEW rows, NEW over, NEW cast,
           \A v \in todo : rows[v] # NoVote /\ v \in over
    PROVE  Onward(todo) \in TaskRecord /\ Knows(Onward(todo), rows, over, cast)
    BY OnwardMoves DEF Knows

\* admitMember lets in whom the task was told to, and nobody else.
LEMMA AdmitKept ==
    ASSUME GroupInv, NEW t \in Tasks, AdmitStep(t)
    PROVE  Kept
<1>t. task \in [Tasks -> TaskRecord] /\ task[t] \in TaskRecord
    BY DEF GroupInv, TypeOK, TaskRecord
<1>i. Idle \in TaskRecord /\ Knows(Idle, vote', ended', ballots')
    BY NewTasks, KnowsNothing
<1>k. Knows(task[t], vote, ended, ballots)
    BY DEF GroupInv, TasksKnow
<1>1. task[t] \in EffectTask /\ task[t].pc \in {"already", "admit", "grant"}
    BY <1>t, TaskFields DEF AdmitStep, AdmitAlready, AdmitInsert, AdmitGrant
<1> DEFINE v == task[t].vote
           m == vote[task[t].vote].subject
           rest == Onward(task[t].todo)
           r(pc) == [task[t] EXCEPT !.pc = pc]
<1>2. v \in Votes /\ task[t].todo \in SUBSET Votes
    BY <1>1 DEF EffectTask
<1>3. /\ SaidYes(v, vote, ballots) /\ m \in Members
      /\ \A w \in task[t].todo : vote[w] # NoVote /\ w \in ended
    BY <1>1, <1>2, <1>k DEF Knows, SaidYes, GroupInv, RowsNamed
<1>4. /\ UNCHANGED <<vote, ended, ballots, crashes>>
      /\ \/ UNCHANGED <<live, settled>>
         \/ live' = live \cup {m} /\ UNCHANGED settled
         \/ settled' = settled \cup {m} /\ UNCHANGED live
      /\ \/ task' = [task EXCEPT ![t] = Idle]
         \/ task' = [task EXCEPT ![t] = rest]
         \/ \E pc \in {"admit", "grant"} : task' = [task EXCEPT ![t] = r(pc)]
    BY DEF AdmitStep, AdmitAlready, AdmitInsert, AdmitGrant, Goto
<1>5. Grows
    BY <1>4 DEF Grows
<1>6. rest \in TaskRecord /\ Knows(rest, vote', ended', ballots')
    BY <1>2, <1>3, <1>4, OnwardKnows
<1>7. ASSUME NEW pc \in {"admit", "grant"}
      PROVE  r(pc) \in TaskRecord /\ Knows(r(pc), vote', ended', ballots')
    <2>1. /\ r(pc) \in TaskRecord /\ r(pc).pc = pc
          /\ r(pc).vote = v /\ r(pc).todo = task[t].todo
        BY <1>1, EffectMoves
    <2> HIDE DEF r, v, m
    <2> QED
        BY <1>3, <1>4, <2>1 DEF Knows
<1> HIDE DEF v, m, rest, r
<1>8. TablesTyped' /\ RowsNamed' /\ TalliedAfterWindow'
    BY <1>3, <1>4 DEF GroupInv, TypeOK, TablesTyped, VoteRow, RowsNamed, TalliedAfterWindow, Decided
<1>9. \A n \in (live' \cup settled') \ (live \cup settled) :
          \E w \in Votes : SaidYes(w, vote, ballots) /\ vote[w].subject = n
    BY <1>2, <1>3, <1>4 DEF v, m
<1> QED
    BY <1>4, <1>5, <1>6, <1>7, <1>8, <1>9, <1>i, GroupMoves

\* What a pass found due is due; the verdict it carries to the UPDATE is the
\* one the ballots gave, and the UPDATE decides only a vote that is open
\* (closeExpiredVotes).
LEMMA PassKept ==
    ASSUME GroupInv, NEW t \in Passes,
           \/ PassStart(t)
           \/ \E v \in Votes : PassTally(t, v)
           \/ PassCount(t) \/ PassClose(t) \/ PassExpel(t)
    PROVE  Kept
<1>t. t \in Tasks /\ task \in [Tasks -> TaskRecord] /\ task[t] \in TaskRecord
    BY DEF Tasks, GroupInv, TypeOK, TaskRecord
<1>k. Knows(task[t], vote, ended, ballots)
    BY <1>t DEF GroupInv, TasksKnow
<1>v. vote \in [Votes -> {NoVote} \cup VoteRow] /\ ballots \in [Votes -> [Members -> Choices \cup {"none"}]]
    BY DEF GroupInv, TypeOK, VoteRow
<1>1. ASSUME PassStart(t) PROVE Kept
    <2> DEFINE due == {v \in Votes : Due(v)}
               r == [pc |-> "tally", todo |-> due]
    <2>1. due \in (SUBSET Votes) \ {{}}
        BY <1>1 DEF PassStart
    <2>2. r \in TaskRecord /\ r.pc = "tally" /\ r.todo = due
        BY <2>1 DEF TaskRecord, TallyTask
    <2>3. task' = [task EXCEPT ![t] = r] /\ UNCHANGED <<live, settled, vote, ended, ballots, crashes>>
        BY <1>1 DEF PassStart, Goto
    <2>4. \A v \in due : vote[v] # NoVote /\ v \in ended
        BY DEF Due, IsOpen, NoVote
    <2> HIDE DEF r, due
    <2>5. Knows(r, vote, ended, ballots)
        BY <2>2, <2>4 DEF Knows
    <2> QED
        BY <1>t, <2>2, <2>3, <2>5, TaskOnly
<1>2. ASSUME NEW v \in Votes, PassTally(t, v) PROVE Kept
    <2> DEFINE rest == task[t].todo \ {v}
               noes == Cardinality(Voters(v, "no"))
               count == [pc |-> "count", vote |-> v, todo |-> rest, noes |-> noes]
               close == [pc |-> "close", vote |-> v, todo |-> rest, verdict |-> Verdict(v)]
    <2>1. task[t].pc = "tally" /\ v \in task[t].todo /\ task[t] \in TallyTask
        BY <1>2, <1>t, TaskFields DEF PassTally
    <2>2. rest \in SUBSET Votes
        BY <2>1 DEF TallyTask
    <2>3. /\ vote[v] # NoVote /\ v \in ended
          /\ \A w \in rest : vote[w] # NoVote /\ w \in ended
        BY <1>k, <2>1 DEF Knows
    <2>4. noes \in 0..Cardinality(Members)
        BY Counts DEF Voters
    <2>5. Verdict(v) \in {"passed", "failed"}
        BY DEF Verdict
    <2>6. Verdict(v) = "passed" /\ vote[v].threshold = "sponsor" =>
              ballots[v][vote[v].sponsor] = "yes"
        BY DEF Verdict, Voters
    <2>7. /\ count \in TaskRecord /\ count.pc = "count" /\ count.vote = v /\ count.todo = rest
          /\ close \in TaskRecord /\ close.pc = "close" /\ close.vote = v /\ close.todo = rest
          /\ close.verdict = Verdict(v)
        <3> HIDE DEF rest, noes
        <3> QED
            BY <2>2, <2>4, <2>5 DEF TaskRecord, CountTask, CloseTask
    <2>8. /\ \/ vote[v].threshold = "unanimous_no" /\ task' = [task EXCEPT ![t] = count]
             \/ task' = [task EXCEPT ![t] = close]
          /\ UNCHANGED <<live, settled, vote, ended, ballots, crashes>>
        BY <1>2 DEF PassTally, Goto
    <2> HIDE DEF count, close, rest, noes
    <2>9. vote[v].threshold = "unanimous_no" => Knows(count, vote, ended, ballots)
        BY <2>3, <2>7 DEF Knows
    <2>10. Knows(close, vote, ended, ballots)
        BY <2>3, <2>6, <2>7 DEF Knows
    <2> QED
        BY <1>t, <2>7, <2>8, <2>9, <2>10, TaskOnly
<1>3. ASSUME PassCount(t) PROVE Kept
    <2> DEFINE eligible == Cardinality(live \ {vote[task[t].vote].subject})
               verdict == IF eligible > 0 /\ task[t].noes >= eligible THEN "passed" ELSE "failed"
               close == [pc |-> "close", vote |-> task[t].vote, todo |-> task[t].todo,
                         verdict |-> verdict]
    <2>1. task[t].pc = "count" /\ task[t] \in CountTask
        BY <1>3, <1>t, TaskFields DEF PassCount
    <2>2. task[t].vote \in Votes /\ task[t].todo \in SUBSET Votes
        BY <2>1 DEF CountTask
    <2>3. verdict \in {"passed", "failed"}
        OBVIOUS
    <2>4. task' = [task EXCEPT ![t] = close] /\ UNCHANGED <<live, settled, vote, ended, ballots, crashes>>
        BY <1>3 DEF PassCount, Goto
    <2> HIDE DEF verdict
    <2>5. /\ close \in TaskRecord /\ close.pc = "close" /\ close.vote = task[t].vote
          /\ close.todo = task[t].todo
        BY <2>2, <2>3 DEF TaskRecord, CloseTask
    <2> HIDE DEF close
    <2>6. Knows(close, vote, ended, ballots)
        BY <1>k, <2>1, <2>5 DEF Knows
    <2> QED
        BY <1>t, <2>4, <2>5, <2>6, TaskOnly
<1>4. ASSUME PassClose(t) PROVE Kept
    <2> DEFINE v == task[t].vote
               rest == Onward(task[t].todo)
               effect(pc) == [pc |-> pc, vote |-> v, todo |-> task[t].todo]
    <2>1. task[t].pc = "close" /\ task[t] \in CloseTask
        BY <1>4, <1>t, TaskFields DEF PassClose
    <2>2. v \in Votes /\ task[t].todo \in SUBSET Votes /\ task[t].verdict \in {"passed", "failed"}
        BY <2>1 DEF CloseTask
    <2>3. /\ vote[v] # NoVote /\ v \in ended
          /\ \A w \in task[t].todo : vote[w] # NoVote /\ w \in ended
          /\ task[t].verdict = "passed" /\ vote[v].threshold = "sponsor" =>
                ballots[v][vote[v].sponsor] = "yes"
        BY <1>k, <2>1 DEF Knows
    <2>4. ASSUME ~ IsOpen(v) PROVE Kept
        <3>1. task' = [task EXCEPT ![t] = rest] /\ UNCHANGED <<live, settled, vote, ended, ballots, crashes>>
            BY <1>4, <2>4 DEF PassClose, CloseWins, Goto
        <3>2. rest \in TaskRecord /\ Knows(rest, vote, ended, ballots)
            BY <2>2, <2>3, OnwardKnows
        <3> HIDE DEF rest
        <3> QED
            BY <1>t, <3>1, <3>2, TaskOnly
    <2>5. ASSUME IsOpen(v) PROVE Kept
        <3>1. /\ vote' = [vote EXCEPT ![v] = [vote[v] EXCEPT !.status = task[t].verdict]]
              /\ \/ /\ task[t].verdict = "passed" /\ vote[v].kind = "admission"
                    /\ task' = [task EXCEPT ![t] = effect("already")]
                 \/ task' = [task EXCEPT ![t] = effect("expel")]
                 \/ task' = [task EXCEPT ![t] = rest]
              /\ UNCHANGED <<live, settled, ended, ballots, crashes>>
            BY <1>4, <2>5 DEF PassClose, CloseWins, Goto
        <3>2. /\ Grows /\ TablesTyped' /\ RowsNamed' /\ TalliedAfterWindow'
              /\ vote'[v].status = task[t].verdict
            BY <2>2, <2>3, <2>5, <3>1, RowDecided
        <3>3. \A w \in task[t].todo : vote'[w] # NoVote /\ w \in ended'
            BY <2>2, <2>3, <3>2 DEF Grows
        <3>4. rest \in TaskRecord /\ Knows(rest, vote', ended', ballots')
            BY <2>2, <3>3, OnwardKnows
        <3>5. /\ effect("already") \in TaskRecord /\ effect("already").pc = "already"
              /\ effect("already").vote = v /\ effect("already").todo = task[t].todo
              /\ effect("expel") \in TaskRecord /\ effect("expel").pc = "expel"
              /\ effect("expel").vote = v /\ effect("expel").todo = task[t].todo
            <4> HIDE DEF v
            <4> QED
                BY <2>2 DEF TaskRecord, EffectTask
        <3> HIDE DEF rest, effect, v
        <3>6. Knows(effect("expel"), vote', ended', ballots')
            BY <3>3, <3>5 DEF Knows
        <3>7. task[t].verdict = "passed" /\ vote[v].kind = "admission" =>
                  SaidYes(v, vote', ballots')
            BY <2>2, <2>3, <3>1, <3>2 DEF SaidYes, Grows
        <3>8. task[t].verdict = "passed" /\ vote[v].kind = "admission" =>
                  Knows(effect("already"), vote', ended', ballots')
            BY <3>3, <3>5, <3>7 DEF Knows
        <3> QED
            BY <1>t, <3>1, <3>2, <3>4, <3>5, <3>6, <3>8, GroupMoves
    <2> QED
        BY <2>4, <2>5
<1>5. ASSUME PassExpel(t) PROVE Kept
    <2> DEFINE rest == Onward(task[t].todo)
    <2>1. task[t].pc = "expel" /\ task[t] \in EffectTask
        BY <1>5, <1>t, TaskFields DEF PassExpel
    <2>2. /\ task' = [task EXCEPT ![t] = rest] /\ live' \subseteq live
          /\ UNCHANGED <<settled, vote, ended, ballots, crashes>>
        BY <1>5 DEF PassExpel, Goto
    <2>3. task[t].todo \in SUBSET Votes /\ \A w \in task[t].todo : vote[w] # NoVote /\ w \in ended
        BY <1>k, <2>1 DEF EffectTask, Knows
    <2>4. rest \in TaskRecord /\ Knows(rest, vote', ended', ballots')
        BY <2>2, <2>3, OnwardKnows
    <2> HIDE DEF rest
    <2>5. Grows
        BY <2>2 DEF Grows
    <2>6. TablesTyped' /\ RowsNamed' /\ TalliedAfterWindow'
        BY <2>2 DEF GroupInv, TypeOK, TablesTyped, VoteRow, RowsNamed, TalliedAfterWindow, Decided
    <2> QED
        BY <1>t, <2>2, <2>4, <2>5, <2>6, GroupMoves
<1> QED
    BY <1>1, <1>2, <1>3, <1>4, <1>5

\* Rows from outside, the end of a window and a crash write no vote that is
\* there, and a crash only forgets tasks.
LEMMA OutsideKept ==
    ASSUME GroupInv,
           \/ \E v \in Votes : \E row \in OutsideVotes : OpenOutside(v, row)
           \/ \E v \in Votes : WindowEnds(v)
           \/ \E dead \in SUBSET Tasks : Crash(dead)
           \/ UNCHANGED vars
    PROVE  Kept
<1>t. task \in [Tasks -> TaskRecord]
    BY DEF GroupInv, TypeOK, TaskRecord
<1>1. ASSUME Grows, TablesTyped', RowsNamed', TalliedAfterWindow',
             live' = live, settled' = settled, task' \in [Tasks -> TaskRecord],
             \A u \in Tasks : task'[u] = task[u] \/ task'[u] = Idle
      PROVE  Kept
    <2>1. TasksKnow'
        <3>1. \A u \in Tasks : Knows(task'[u], vote', ended', ballots')
            <4> SUFFICES ASSUME NEW u \in Tasks PROVE Knows(task'[u], vote', ended', ballots')
                OBVIOUS
            <4>1. Knows(task[u], vote, ended, ballots) /\ task[u] \in TaskRecord
                BY <1>t DEF GroupInv, TasksKnow
            <4>2. Knows(task[u], vote', ended', ballots')
                BY <1>1, <4>1, KnownStays DEF GroupInv
            <4>3. Knows(Idle, vote', ended', ballots')
                BY NewTasks, KnowsNothing
            <4> QED
                BY <1>1, <4>2, <4>3
        <3> QED
            BY <3>1 DEF TasksKnow
    <2>2. InByTheGroupOnly'
        BY <1>1, GroupStays DEF GroupInv
    <2>3. TypeOK'
        BY <1>1 DEF TypeOK, TablesTyped, VoteRow, TaskRecord
    <2> QED
        BY <1>1, <2>1, <2>2, <2>3 DEF GroupInv, Kept
<1>2. ASSUME NEW v \in Votes, NEW row \in OutsideVotes, OpenOutside(v, row)
      PROVE  Kept
    <2>1. /\ row \in VoteRow /\ row.status = "open"
          /\ row.subject \in Members /\ row.threshold # "sponsor"
        BY OutsideAssumption DEF OutsideKinds, OpenVote, VoteRow, Someone
    <2>2. /\ NextRow(v) /\ vote' = [vote EXCEPT ![v] = row]
          /\ UNCHANGED <<live, settled, ended, ballots, task, crashes>>
        BY <1>2 DEF OpenOutside
    <2>3. Grows /\ TablesTyped' /\ RowsNamed' /\ TalliedAfterWindow'
        BY <2>1, <2>2, RowAdded
    <2> QED
        BY <1>t, <1>1, <2>2, <2>3
<1>3. ASSUME NEW v \in Votes, WindowEnds(v) PROVE Kept
    <2>1. ended' = ended \cup {v} /\ UNCHANGED <<live, settled, vote, ballots, task, crashes>>
        BY <1>3 DEF WindowEnds
    <2>2. Grows /\ TablesTyped' /\ RowsNamed' /\ TalliedAfterWindow'
        BY <2>1 DEF Grows, GroupInv, TypeOK, TablesTyped, VoteRow, RowsNamed, TalliedAfterWindow, Decided
    <2> QED
        BY <1>t, <1>1, <2>1, <2>2
<1>4. ASSUME NEW dead \in SUBSET Tasks, Crash(dead) PROVE Kept
    <2>1. /\ crashes' = crashes + 1 /\ crashes < MaxCrashes
          /\ UNCHANGED <<live, settled, vote, ended, ballots>>
          /\ task' = [u \in Tasks |-> IF u \in dead THEN Idle ELSE task[u]]
        BY <1>4 DEF Crash
    <2>2. crashes' \in 0..MaxCrashes
        BY <2>1, BoundAssumption DEF GroupInv, TypeOK
    <2>3. Grows /\ TablesTyped' /\ RowsNamed' /\ TalliedAfterWindow'
        BY <2>1, <2>2 DEF Grows, GroupInv, TypeOK, TablesTyped, VoteRow, RowsNamed, TalliedAfterWindow, Decided
    <2>4. task' \in [Tasks -> TaskRecord] /\ \A u \in Tasks : task'[u] = task[u] \/ task'[u] = Idle
        BY <1>t, <2>1, NewTasks
    <2> QED
        BY <1>1, <2>1, <2>3, <2>4
<1>5. ASSUME UNCHANGED vars PROVE Kept
    <2>1. UNCHANGED <<live, settled, vote, ended, ballots, task, crashes>>
        BY <1>5 DEF vars
    <2>2. Grows /\ TablesTyped' /\ RowsNamed' /\ TalliedAfterWindow'
        BY <2>1 DEF Grows, GroupInv, TypeOK, TablesTyped, VoteRow, RowsNamed, TalliedAfterWindow, Decided
    <2> QED
        BY <1>t, <1>1, <2>1, <2>2
<1> QED
    BY <1>2, <1>3, <1>4, <1>5

\* So every step keeps the invariant, and only adds to the tables.
LEMMA GroupStep == GroupInv /\ [Next]_vars => Kept
<1> SUFFICES ASSUME GroupInv, [Next]_vars PROVE Kept
    OBVIOUS
<1>1. ASSUME NEW t \in Requests, RequestStep(t) PROVE Kept
    <2>1. t \in Tasks
        BY DEF Tasks
    <2> QED
        BY <1>1, <2>1, OpeningKept, CastKept, AdmitKept DEF RequestStep
<1>2. ASSUME NEW t \in Passes, PassStart(t) \/ PassStep(t) PROVE Kept
    <2>1. t \in Tasks
        BY DEF Tasks
    <2> QED
        BY <1>2, <2>1, PassKept, AdmitKept DEF PassStep
<1>3. ASSUME NEW t \in Requests,
             \/ \E m, s \in Members : Join(t, m, s)
             \/ \E m \in Members : Propose(t, m)
             \/ \E v \in Votes : \E m \in Members : \E b \in Choices : Cast(t, v, m, b)
      PROVE Kept
    BY <1>3, OpeningKept, CastKept
<1>4. ASSUME \/ \E v \in Votes : \E row \in OutsideVotes : OpenOutside(v, row)
             \/ \E v \in Votes : WindowEnds(v)
             \/ \E t \in Tasks : Crash({t})
             \/ Crash(Tasks)
             \/ UNCHANGED vars
      PROVE Kept
    <2>1. \A t \in Tasks : {t} \in SUBSET Tasks
        OBVIOUS
    <2> QED
        BY <1>4, <2>1, OutsideKept
<1> QED
    BY <1>1, <1>2, <1>3, <1>4 DEF Next

\* At the start there are no votes, no tasks, and only the first members.
LEMMA GroupInit == Init => GroupInv
<1> SUFFICES ASSUME Init PROVE GroupInv
    OBVIOUS
<1>1. TypeOK
    BY MemberAssumption, BoundAssumption DEF Init, TypeOK
<1>2. RowsNamed /\ TalliedAfterWindow /\ InByTheGroupOnly
    <2>1. \A v \in Votes : vote[v] = NoVote /\ vote[v].status = "none"
        BY DEF Init, NoVote
    <2> QED
        BY <2>1 DEF Init, RowsNamed, TalliedAfterWindow, Decided, InByTheGroupOnly
<1>3. TasksKnow
    <2>1. \A t \in Tasks : task[t] = Idle
        BY DEF Init
    <2>2. Knows(Idle, vote, ended, ballots)
        BY NewTasks, KnowsNothing
    <2> QED
        BY <2>1, <2>2 DEF TasksKnow
<1> QED
    BY <1>1, <1>2, <1>3 DEF GroupInv

-----------------------------------------------------------------------------
(* The theorems.                                                           *)

\* Every table and every task keeps its type.
THEOREM VotesTyped == Spec => []TypeOK
<1>1. GroupInv => TypeOK
    BY DEF GroupInv
<1>2. GroupInv /\ [Next]_vars => GroupInv'
    BY GroupStep DEF Kept
<1> QED
    BY GroupInit, <1>1, <1>2, PTL DEF Spec

\* Whoever is in the circle, or sees its programme, and was not there at the
\* start has her sponsor's yes or a tallied admission that passed behind her,
\* whatever joins, ballots, close passes and failures overlap (votes.ts: the
\* grant is "the consequence of the group saying yes").
THEOREM OnlyTheGroupBringsIn == Spec => []InByTheGroupOnly
<1>1. GroupInv => InByTheGroupOnly
    BY DEF GroupInv
<1>2. GroupInv /\ [Next]_vars => GroupInv'
    BY GroupStep DEF Kept
<1> QED
    BY GroupInit, <1>1, <1>2, PTL DEF Spec

\* A vote that is tallied is decided no sooner than its window ends: only the
\* close pass decides it, and the pass lists it once closes_at has passed.
THEOREM TalliesWait == Spec => []TalliedAfterWindow
<1>1. GroupInv => TalliedAfterWindow
    BY DEF GroupInv
<1>2. GroupInv /\ [Next]_vars => GroupInv'
    BY GroupStep DEF Kept
<1> QED
    BY GroupInit, <1>1, <1>2, PTL DEF Spec

\* A verdict is final: no second pass and no sponsor's ballot that comes late
\* writes a vote that has been decided (the status = 'open' guard).
THEOREM VerdictsAreFinal == Spec => DecidedOnce
<1>1. GroupInv /\ [Next]_vars => [\A v \in Votes : Decided(v) => vote'[v] = vote[v]]_vars
    <2> SUFFICES ASSUME GroupInv, [Next]_vars, NEW v \in Votes, Decided(v)
                 PROVE  vote'[v] = vote[v]
        OBVIOUS
    <2>1. vote[v] # NoVote /\ vote[v].status # "open"
        BY DEF Decided, NoVote
    <2> QED
        BY <2>1, GroupStep DEF Kept, Grows
<1>2. GroupInv /\ [Next]_vars => GroupInv'
    BY GroupStep DEF Kept
<1> QED
    BY GroupInit, <1>1, <1>2, PTL DEF Spec, DecidedOnce
=============================================================================
