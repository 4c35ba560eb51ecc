------------------------------- MODULE Migrations ------------------------------
(***************************************************************************)
(* scripts/pgMigrate.mjs: the migrations in the order of their names, each *)
(* in a transaction with its row in schema_migrations.  Nothing keeps two  *)
(* runs (a deploy and somebody's console) from overlapping, nor a run from *)
(* dying; --mark records a file as applied without running it.             *)
(***************************************************************************)
EXTENDS FiniteSets, Naturals, Sequences, SequencesExt

CONSTANTS
    Runners,
    Files,        \* the files, in the order of their names
    LEGACY,       \* those that are held back
    Marks,        \* [Runners -> the file it marks, or None if it applies]
    None,
    MaxFailures   \* bound

MigrationConstants ==
    /\ Files \in Seq(Range(Files)) /\ IsInjective(Files) /\ LEGACY \subseteq Range(Files)
    /\ Marks \in [Runners -> Range(Files) \union {None}]

VARIABLES
    ledger,       \* schema_migrations: [file -> "no", "applied", "marked"]
    schema,       \* how often each file's SQL has taken effect
    run,          \* [Runners -> where it is, the places in Files of those left to it]
    failures

migVars == <<ledger, schema, run, failures>>

Own == Range(Files) \ LEGACY

TypeOK ==
    /\ ledger \in [Range(Files) -> {"no", "applied", "marked"}]
    /\ schema \in [Range(Files) -> Nat]
    /\ \A r \in Runners :
        /\ run[r].pc \in {"new", "begin", "sql", "row", "commit", "done", "failed"}
        /\ run[r].pending \subseteq DOMAIN Files

Init ==
    /\ ledger = [f \in Range(Files) |-> "no"]
    /\ schema = [f \in Range(Files) |-> 0]
    /\ run = [r \in Runners |-> [pc |-> "new", pending |-> {}]]
    /\ failures = 0

-----------------------------------------------------------------------------

\* The applied files are read once, before anything.
Read(r) ==
    /\ run[r].pc = "new" /\ Marks[r] = None
    /\ LET pending == {i \in DOMAIN Files : Files[i] \in Own /\ ledger[Files[i]] = "no"} IN
       run' = [run EXCEPT ![r] = [pc |-> IF pending = {} THEN "done" ELSE "begin",
                                  pending |-> pending]]
    /\ UNCHANGED <<ledger, schema, failures>>

\* --dry-run ends here.
DryRun(r) ==
    /\ run[r].pc = "new" /\ Marks[r] = None
    /\ run' = [run EXCEPT ![r].pc = "done"]
    /\ UNCHANGED <<ledger, schema, failures>>

\* The file a run is at.
Place(r) == Min(run[r].pending)
At(r) == Files[Place(r)]

\* Another run's uncommitted row of the same file: the INSERT waits for it.
Contended(r, f) ==
    \E q \in Runners \ {r} : run[q].pc = "commit" /\ At(q) = f

\* --mark: ON CONFLICT DO NOTHING.
Mark(r) ==
    /\ run[r].pc = "new" /\ Marks[r] # None
    /\ ~Contended(r, Marks[r])
    /\ IF ledger[Marks[r]] = "no"
       THEN ledger' = [ledger EXCEPT ![Marks[r]] = "marked"]
       ELSE ledger' = ledger
    /\ run' = [run EXCEPT ![r].pc = "done"]
    /\ UNCHANGED <<schema, failures>>

To(r, pc) == run' = [run EXCEPT ![r].pc = pc]

Begin(r) ==
    /\ run[r].pc = "begin"
    /\ To(r, "sql")
    /\ UNCHANGED <<ledger, schema, failures>>

\* The file's SQL, seen by nobody else yet.
Sql(r) ==
    /\ run[r].pc = "sql"
    /\ To(r, "row")
    /\ UNCHANGED <<ledger, schema, failures>>

\* The row, whose id is a primary key.
Row(r) ==
    /\ run[r].pc = "row" /\ ~Contended(r, At(r)) /\ ledger[At(r)] = "no"
    /\ To(r, "commit")
    /\ UNCHANGED <<ledger, schema, failures>>

\* The file's SQL and its row take effect together.
Land(r) ==
    /\ schema' = [schema EXCEPT ![At(r)] = @ + 1]
    /\ ledger' = [ledger EXCEPT ![At(r)] = "applied"]

\* On to the next file, or to the end.
Passed(r, end) ==
    LET left == run[r].pending \ {Place(r)} IN
    run' = [run EXCEPT ![r] = [pc |-> IF left = {} THEN end ELSE "begin", pending |-> left]]

Commit(r) ==
    /\ run[r].pc = "commit"
    /\ Land(r)
    /\ Passed(r, "done")
    /\ UNCHANGED failures

\* Mutant: the failure is reported, and the next file tried.
GoesOn(r) == Passed(r, "failed")

\* ROLLBACK, and the error is thrown on.
Stops(r) == run' = [run EXCEPT ![r] = [pc |-> "failed", pending |-> {}]]

\* The SQL fails, by itself or since another run has applied it.
SqlFails(r) ==
    /\ run[r].pc = "sql"
    /\ IF schema[At(r)] > 0 THEN failures' = failures
       ELSE failures < MaxFailures /\ failures' = failures + 1
    /\ Stops(r)
    /\ UNCHANGED <<ledger, schema>>

\* The row is there already: another run's, or a mark.
RowRefused(r) ==
    /\ run[r].pc = "row" /\ ~Contended(r, At(r)) /\ ledger[At(r)] # "no"
    /\ Stops(r)
    /\ UNCHANGED <<ledger, schema, failures>>

\* The process dies, a COMMIT on its way perhaps done.
Dies(r) ==
    /\ run[r].pc \notin {"new", "done", "failed"}
    /\ failures < MaxFailures /\ failures' = failures + 1
    /\ Stops(r)
    /\ UNCHANGED <<ledger, schema>> \/ (run[r].pc = "commit" /\ Land(r))

Next ==
    \E r \in Runners :
        \/ Read(r) \/ DryRun(r) \/ Mark(r)
        \/ Begin(r) \/ Sql(r) \/ Row(r) \/ Commit(r)
        \/ SqlFails(r) \/ RowRefused(r) \/ Dies(r)

Spec == Init /\ [][Next]_migVars

-----------------------------------------------------------------------------
(* Properties *)

\* "A migration lands whole or not at all": however runs overlap, fail and die, a
\* file's SQL has taken effect exactly if its row says it was applied, and once;
\* a held file never; and none before an earlier one, but for the marked.
LandsWholeInOrder ==
    /\ \A f \in Range(Files) : schema[f] = IF ledger[f] = "applied" THEN 1 ELSE 0
    /\ \A f \in LEGACY : schema[f] = 0
    /\ \A i, j \in DOMAIN Files :
        i < j /\ ledger[Files[j]] = "applied" /\ Files[i] \in Own => ledger[Files[i]] # "no"

=============================================================================
