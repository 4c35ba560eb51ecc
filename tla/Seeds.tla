-------------------------------- MODULE Seeds ---------------------------------
(***************************************************************************)
(* scripts/seedDemoCircle.mjs, seedBetaCircle.mjs and seedFormingTins.mjs: *)
(* circles to look at, in the programme of the demo.  Each script is       *)
(* statements one after another, in no transaction, that clear what the    *)
(* script owns and put it in again; deletes cascade as the schema says,    *)
(* and the three share a programme, and two of them the same women.        *)
(*                                                                         *)
(* What a script puts into one table is a part; the scripts' statements,   *)
(* and the rows that a part is made of, are in SeedRows.                   *)
(***************************************************************************)
EXTENDS Integers, Sequences, SeedRows

CONSTANTS MaxRuns, MaxFailures   \* bounds

Runs == 1..MaxRuns
Nobody == 0

VARIABLES
    rows,      \* [Parts -> "none", "some" of its rows, "all" of them, or more]
    run,       \* [Runs -> the script and the statement it is at]
    alone,     \* history: the run nobody else's has overlapped, nor cut short
    whole,     \* history: the scripts done alone, and not written over since
    failures

seedVars == <<rows, run, alone, whole, failures>>

TypeOK ==
    /\ rows \in [Parts -> {"none", "some", "all", "more"}]
    /\ alone \in Runs \union {Nobody}
    /\ whole \subseteq DOMAIN Script
    /\ \A r \in Runs : run[r].script = "none" \/ run[r].at \in 0..(Len(Script[run[r].script]) + 1)

Init ==
    /\ rows \in {[p \in Parts |-> IF p = Tenant THEN there ELSE "none"] : there \in {"none", "all"}}
    /\ run = [r \in Runs |-> [script |-> "none", at |-> 0]]
    /\ alone = Nobody /\ whole = {} /\ failures = 0

-----------------------------------------------------------------------------
(* A run *)

Running(r) == run[r].at > 0

\* The circles a script writes over; seed:beta the forming tins, by the cascade.
Owns(s) == CASE s = "demo" -> {"demo", "beta", "forming"}
             [] s = "beta" -> {"beta", "forming"}
             [] s = "forming" -> {"forming"}

Start(r, s) ==
    /\ run[r].script = "none" /\ \A q \in 1..(r - 1) : run[q].script # "none"
    /\ run' = [run EXCEPT ![r] = [script |-> s, at |-> 1]]
    /\ alone' = IF \E q \in Runs : Running(q) THEN Nobody ELSE r
    /\ whole' = whole \ Owns(s)
    /\ UNCHANGED <<rows, failures>>

Now(r) == Script[run[r].script][run[r].at]
Part(r) == CHOOSE p \in Now(r)[2] : TRUE

\* It throws, and the rest of the script is not run.
Stops(r) == run' = [run EXCEPT ![r].at = 0]

Goes(r) ==
    IF run[r].at < Len(Script[run[r].script])
    THEN /\ run' = [run EXCEPT ![r].at = @ + 1]
         /\ UNCHANGED <<alone, whole>>
    ELSE /\ run' = [run EXCEPT ![r].at = 0]
         /\ whole' = IF alone = r THEN whole \union {run[r].script} ELSE whole
         /\ alone' = alone

Checked(r) ==
    /\ Running(r) /\ Now(r)[1] = "need"
    /\ IF rows[Part(r)] = "all" THEN Goes(r) ELSE Stops(r) /\ UNCHANGED <<alone, whole>>
    /\ UNCHANGED <<rows, failures>>

\* A round loses its recipient when she goes (ON DELETE SET NULL).
Deleted(r) ==
    LET gone == Now(r)[2] IN
    /\ Running(r) /\ Now(r)[1] = "delete"
    /\ rows' = [p \in Parts |->
                  IF p \in gone \/ CascadesFrom(p) \cap gone # {} THEN "none"
                  ELSE IF RefersTo(p) \cap gone # {} /\ rows[p] # "none" THEN "some"
                  ELSE rows[p]]
    /\ Goes(r)
    /\ UNCHANGED failures

\* Every id is fixed, so that a row that is there already is refused; not an
\* event, whose id is the database's.
Inserted(r) ==
    LET p == Part(r) IN
    /\ Running(r) /\ Now(r)[1] = "insert"
    /\ IF /\ \A q \in RefersTo(p) : rows[q] \in {"all", "more"}
          /\ rows[p] = "none" \/ p[2] = "contract_events"
       THEN /\ rows' = [rows EXCEPT ![p] = IF @ = "none" THEN "all" ELSE "more"]
            /\ Goes(r)
       ELSE /\ \/ rows' = rows
               \/ rows[p] = "none" /\ rows' = [rows EXCEPT ![p] = "some"]
            /\ Stops(r)
            /\ UNCHANGED <<alone, whole>>
    /\ UNCHANGED failures

\* A statement fails, or the process is gone, after some of a part's inserts.
Fails(r) ==
    LET p == Part(r) IN
    /\ Running(r)
    /\ failures < MaxFailures /\ failures' = failures + 1
    /\ \/ rows' = rows
       \/ Now(r)[1] = "insert" /\ rows[p] = "none" /\ rows' = [rows EXCEPT ![p] = "some"]
    /\ Stops(r)
    /\ UNCHANGED <<alone, whole>>

Next ==
    \E r \in Runs :
        \/ \E s \in DOMAIN Script : Start(r, s)
        \/ Checked(r) \/ Deleted(r) \/ Inserted(r) \/ Fails(r)

Spec == Init /\ [][Next]_seedVars

-----------------------------------------------------------------------------
(* Properties *)

PartsOf(s) ==
    {p \in Parts : p[1] \in (CASE s = "demo" -> {"programme", "makola"}
                               [] s = "beta" -> {"beta"}
                               [] s = "forming" -> Forming)}

\* "Re-run safe": once a script has run by itself, every part of its circles is
\* there, once, whatever was there and however earlier runs ended; and it stays so
\* until a script that writes over them starts.  Of seed:beta, which "touches
\* nothing else in the programme - Makola Traders and the savings group are left
\* alone", the second half holds and the first does not: its women are those of
\* the forming tins, whose rosters go with them (Owns).
SeededIsWhole == \A s \in whole : \A p \in PartsOf(s) : rows[p] = "all"

=============================================================================
