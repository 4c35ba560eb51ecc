----------------------------- MODULE TenantContext -----------------------------
(***************************************************************************)
(* lib/db.pg.ts and lib/dbContext.ts: every statement of the application   *)
(* goes through execute or batch.  With a role of its own for the web, a   *)
(* request of a tenant gets a connection of the web pool and, inside its   *)
(* transaction, the tenant that the row policies go by; all others go to   *)
(* the owner's pool, which the policies do not hold.                       *)
(***************************************************************************)
EXTENDS FiniteSets, Naturals

CONSTANTS
    Requests,
    Tenant,       \* [Requests -> the tenant of its context, or None]
    Statements,   \* [Requests -> how many it sends: 1 is execute, more a batch]
    SchemaDDL,    \* the requests that send CREATE or ALTER TABLE, and INDEX
    WebPool, OwnerPool,   \* connections
    None,
    MaxFailures   \* bound

Pool == WebPool \union OwnerPool

TenantConstants ==
    /\ DOMAIN Tenant = Requests /\ Statements \in [Requests -> Nat \ {0}]
    /\ SchemaDDL \subseteq Requests
    /\ WebPool \intersect OwnerPool = {} /\ None \notin Pool \union Requests

VARIABLES
    conn,        \* [connection -> who has it, its transaction, its settings]
    req,         \* [Requests -> where it is, on which connection, statements sent]
    stored,      \* committed: [by, nth, as], with the tenant that the policies saw
    failures

tenantVars == <<conn, req, stored, failures>>

\* A connection as the server hands it out.
Fresh == [by |-> None, tx |-> "none", local |-> None, session |-> None, written |-> {}]

TypeOK ==
    /\ \A c \in Pool : /\ conn[c].by \in Requests \union {None}
                       /\ conn[c].tx \in {"none", "open", "aborted"}
    /\ \A r \in Requests :
        /\ req[r].pc \in {"new", "begin", "tenant", "send", "commit", "rollback", "done", "failed"}
        /\ req[r].on # None => conn[req[r].on].by = r

Init ==
    /\ conn = [c \in Pool |-> Fresh]
    /\ req = [r \in Requests |-> [pc |-> "new", on |-> None, sent |-> 0]]
    /\ stored = {} /\ failures = 0

-----------------------------------------------------------------------------

\* tenantCtx, and none for a statement that changes the schema.
Ctx(r) == IF r \in SchemaDDL THEN None ELSE Tenant[r]

\* What the policies go by on a connection.
Sees(c) == IF conn[c].local # None THEN conn[c].local ELSE conn[c].session

Goes(r, pc) == req' = [req EXCEPT ![r].pc = pc]

\* connect(): whichever connection of the pool is free.
Connect(r, c) ==
    /\ req[r].pc = "new" /\ conn[c].by = None
    /\ c \in IF Ctx(r) = None THEN OwnerPool ELSE WebPool
    /\ conn' = [conn EXCEPT ![c].by = r]
    /\ req' = [req EXCEPT ![r].pc = "begin", ![r].on = c]
    /\ UNCHANGED <<stored, failures>>

\* A BEGIN inside a transaction is a warning.  The owner's single statement has
\* none around it, and is the same as a transaction of one.
Begin(r) ==
    LET c == req[r].on IN
    /\ req[r].pc = "begin"
    /\ conn' = [conn EXCEPT ![c].tx = IF @ = "none" THEN "open" ELSE @]
    /\ Goes(r, IF Ctx(r) = None THEN "send" ELSE "tenant")
    /\ UNCHANGED <<stored, failures>>

\* Mutant: set_config(..., false), for the session.
SetForSession(c, t) == [c EXCEPT !.session = t]

SetLocal(c, t) == [c EXCEPT !.local = t]

setTenantGuc(r) ==
    LET c == req[r].on IN
    /\ req[r].pc = "tenant" /\ conn[c].tx = "open"
    /\ conn' = [conn EXCEPT ![c] = SetLocal(@, Tenant[r])]
    /\ Goes(r, "send")
    /\ UNCHANGED <<stored, failures>>

Send(r) ==
    LET c == req[r].on IN
    /\ req[r].pc = "send" /\ conn[c].tx = "open"
    /\ conn' = [conn EXCEPT ![c].written = @ \union
                    {[by |-> r, nth |-> req[r].sent + 1, as |-> Sees(c)]}]
    /\ req' = [req EXCEPT ![r].sent = @ + 1,
                    ![r].pc = IF req[r].sent + 1 = Statements[r] THEN "commit" ELSE "send"]
    /\ UNCHANGED <<stored, failures>>

\* A statement fails, by itself or since its transaction has.
Fails(r) ==
    LET c == req[r].on IN
    /\ req[r].pc \in {"tenant", "send"}
    /\ IF conn[c].tx = "aborted" THEN failures' = failures
       ELSE failures < MaxFailures /\ failures' = failures + 1
    /\ conn' = [conn EXCEPT ![c].tx = "aborted"]
    /\ Goes(r, "rollback")
    /\ UNCHANGED stored

\* What is left on a connection when its transaction is over.
Over(c) == [c EXCEPT !.tx = "none", !.local = None, !.written = {}, !.by = None]

\* Mutant: what failed is released as it is.
JustReleased(c) == [c EXCEPT !.by = None]

RolledBack(c) == Over(c)

\* COMMIT of an aborted transaction is a ROLLBACK.
Commit(r) ==
    LET c == req[r].on IN
    /\ req[r].pc = "commit"
    /\ stored' = IF conn[c].tx = "open" THEN stored \union conn[c].written ELSE stored
    /\ conn' = [conn EXCEPT ![c] = Over(@)]
    /\ req' = [req EXCEPT ![r].pc = "done", ![r].on = None]
    /\ UNCHANGED failures

Rollback(r) ==
    /\ req[r].pc = "rollback"
    /\ conn' = [conn EXCEPT ![req[r].on] = RolledBack(@)]
    /\ req' = [req EXCEPT ![r].pc = "failed", ![r].on = None]
    /\ UNCHANGED <<stored, failures>>

\* The connection breaks, a COMMIT on its way perhaps done; the pool replaces it.
Breaks(r) ==
    LET c == req[r].on IN
    /\ c # None
    /\ failures < MaxFailures /\ failures' = failures + 1
    /\ stored' \in {stored} \union
         (IF req[r].pc = "commit" /\ conn[c].tx = "open" THEN {stored \union conn[c].written} ELSE {})
    /\ conn' = [conn EXCEPT ![c] = Fresh]
    /\ req' = [req EXCEPT ![r].pc = "failed", ![r].on = None]

Next ==
    \E r \in Requests :
        \/ \E c \in Pool : Connect(r, c)
        \/ Begin(r) \/ setTenantGuc(r) \/ Send(r) \/ Fails(r)
        \/ Commit(r) \/ Rollback(r) \/ Breaks(r)

Spec == Init /\ [][Next]_tenantVars

-----------------------------------------------------------------------------
(* Properties *)

\* "It can never bleed into the next request that reuses this pooled connection":
\* in whatever order requests share the connections, fail and lose them, what is
\* stored was written as its request's own tenant, a batch wholly or not at all and
\* wholly if its caller was told so, and a connection that waits carries neither a
\* tenant nor a transaction.
TenantsApart ==
    /\ \A w \in stored : w.as = Ctx(w.by)
    /\ \A r \in Requests :
         LET of == {w \in stored : w.by = r} IN
         /\ Cardinality(of) \in {0, Statements[r]}
         /\ req[r].pc = "done" => Cardinality(of) = Statements[r]
    /\ \A c \in Pool : conn[c].by = None => conn[c] = Fresh

=============================================================================
