------------------------------- MODULE DemoSeed --------------------------------
(***************************************************************************)
(* pages/api/demo/start.ts and cleanup.ts: everybody who tries the demo    *)
(* wipes and fills the one demo tenant anew, in batches, each of them a    *)
(* transaction that may fail and is not missed; batches of one phase run   *)
(* at once, and the next phase waits for them.  Visitors overlap.  The     *)
(* batches are in DemoBatches.                                             *)
(***************************************************************************)
EXTENDS Naturals, DemoBatches

CONSTANTS MaxStarts,     \* bound: requests of demo/start, numbered as they come
          Schemas,       \* the tables there may be at first
          MaxCleanups, MaxFailures   \* bounds

Starts == 1..MaxStarts
NoStart == 0

DemoConstants == Schemas \subseteq SUBSET Tables

VARIABLES
    tables,      \* the tables there are
    rows,        \* [Tables -> how many batches have rows of theirs in each]
    over,        \* [Starts -> the batches that are over]
    start,       \* [Starts -> "new", "running", "answered", "shown", "error", "dead"]
    alone,       \* history: the last start, if nobody and nothing has disturbed it
    cleanups, failures

demoVars == <<tables, rows, over, start, alone, cleanups, failures>>

TypeOK ==
    /\ tables \subseteq Tables
    /\ rows \in [Tables -> 0..Many]
    /\ \A s \in Starts :
        /\ over[s] \subseteq DOMAIN Batches
        /\ \A b \in over[s] : Batches[b].after \subseteq over[s]
    /\ alone \in Starts \union {NoStart}

\* The portfolio as the older product left it, or not there at all; no migration
\* creates the cache.
Init ==
    /\ tables \in Schemas
    /\ rows = [t \in Tables |-> 0] /\ over = [s \in Starts |-> {}] /\ start = [s \in Starts |-> "new"]
    /\ alone = NoStart /\ cleanups = 0 /\ failures = 0

-----------------------------------------------------------------------------
(* demo/start *)

Background == DOMAIN CommunityTrust

\* An error leaves the rest of its phase under way.
Busy(s) ==
    \/ start[s] = "running"
    \/ start[s] = "answered" /\ ~(Background \subseteq over[s])
    \/ start[s] = "error" /\ ~(DOMAIN Phase1 \subseteq over[s])
Quiet == \A s \in Starts : ~Busy(s)

\* A signed-in visitor is sent to log out first.
Start(s) ==
    /\ start[s] = "new" /\ \A q \in 1..(s - 1) : start[q] # "new"
    /\ start' = [start EXCEPT ![s] = "running"]
    /\ alone' = IF Quiet THEN s ELSE NoStart
    /\ UNCHANGED <<tables, rows, over, cleanups, failures>>

Ready(s, b) ==
    /\ Busy(s) /\ b \notin over[s] /\ Batches[b].after \subseteq over[s]
    /\ start[s] = "answered" => b \in Background
    /\ start[s] = "error" => b \in DOMAIN Phase1

\* A batch puts in what it has, or does nothing; setCache alone is not caught.
Run(s, b) ==
    LET it == Batches[b]
        there == tables \union it.creates
        Left(t) == IF t \in it.clears THEN 0 ELSE rows[t]
    IN
    /\ Ready(s, b)
    /\ over' = [over EXCEPT ![s] = @ \union {b}]
    /\ IF it.needs \subseteq there
       THEN /\ tables' = there
            /\ rows' = [t \in Tables |-> CASE t \in it.kept -> 1
                                          [] t \in it.new /\ Left(t) < Many -> Left(t) + 1
                                          [] OTHER -> Left(t)]
            /\ start' = start
       ELSE /\ UNCHANGED <<tables, rows>>
            /\ start' = IF b = "cache" THEN [start EXCEPT ![s] = "error"] ELSE start
    /\ UNCHANGED <<alone, cleanups, failures>>

Fails(s, b) ==
    /\ Ready(s, b)
    /\ failures < MaxFailures /\ failures' = failures + 1
    /\ over' = [over EXCEPT ![s] = @ \union {b}]
    /\ start' = IF b = "cache" THEN [start EXCEPT ![s] = "error"] ELSE start
    /\ alone' = NoStart
    /\ UNCHANGED <<tables, rows, cleanups>>

\* The cookie of the demo, and on to its dashboard.
Answer(s) ==
    /\ start[s] = "running"
    /\ DOMAIN Batches \ Background \subseteq over[s]
    /\ start' = [start EXCEPT ![s] = "answered"]
    /\ UNCHANGED <<tables, rows, over, alone, cleanups, failures>>

\* With ?debug=1: what is there by now, without the cookie, and without the rest.
AnswerDebug(s) ==
    /\ start[s] = "running"
    /\ over[s] = DOMAIN Portrait
    /\ start' = [start EXCEPT ![s] = "shown"]
    /\ UNCHANGED <<tables, rows, over, alone, cleanups, failures>>

\* The process dies, with whoever was being served.
Dies ==
    /\ \E s \in Starts : Busy(s)
    /\ failures < MaxFailures /\ failures' = failures + 1
    /\ start' = [s \in Starts |-> IF Busy(s) THEN "dead" ELSE start[s]]
    /\ alone' = NoStart
    /\ UNCHANGED <<tables, rows, over, cleanups>>

-----------------------------------------------------------------------------
(* demo/cleanup: table by table, not all of them, whoever is in the demo;  *)
(* it may come to nothing part way.  Its statements are taken as one.      *)

Swept == <<"imports", "snapshots", "accounts", "wallets">>

Cleanup(reached) ==
    /\ cleanups < MaxCleanups /\ cleanups' = cleanups + 1
    /\ rows' = [t \in Tables |-> IF \E i \in 1..reached : Swept[i] = t THEN 0 ELSE rows[t]]
    /\ alone' = NoStart
    /\ UNCHANGED <<tables, over, start, failures>>

Next ==
    \/ \E s \in Starts :
        \/ Start(s) \/ Answer(s) \/ AnswerDebug(s)
        \/ \E b \in DOMAIN Batches : Run(s, b) \/ Fails(s, b)
    \/ Dies
    \/ \E reached \in DOMAIN Swept : Cleanup(reached)

Spec == Init /\ [][Next]_demoVars

-----------------------------------------------------------------------------
(* Properties *)

\* "Wipes any existing demo data ... every time": whatever overlapping starts,
\* cleanups, failures and crashes have left, the next start that runs by itself
\* leaves each table of the demo with one seed, where it is there at all.  With
\* ?debug=1 it leaves one seed of the portfolio, and the community's rows, which
\* it has cleared by then, out; the sample tins and the rest stay as they were.
AloneIsWhole ==
    alone # NoStart /\ Quiet =>
        /\ start[alone] = "answered" => \A t \in tables : rows[t] = Seed(t)
        /\ start[alone] = "shown" =>
              /\ \A t \in tables \cap Shown : rows[t] = Seed(t)
              /\ "community" \in tables => rows["community"] = 0

=============================================================================
