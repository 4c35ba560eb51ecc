----------------------------- MODULE OfficeProofs -----------------------------
(* Theorems about the parts "context", "migrations", "board" and "support" of *)
(* MCOffice, whose instances of the four are as general as the modules:       *)
(* TenantContext, for any requests, tenants, batches, pools and failures;     *)
(* Migrations, for any files, runs, marks and failures; Board, for any        *)
(* members, tins, organizers and loads; Support, for any users, windows,      *)
(* limit and failures.                                                        *)
EXTENDS MCOffice, FiniteSetTheorems, FunctionTheorems, WellFoundedInduction, TLAPS

-----------------------------------------------------------------------------
(* TenantContext                                                             *)

LEMMA SameCardinality == \A S : Context!Cardinality(S) = Cardinality(S)
    BY DEF Context!Cardinality, Cardinality

\* The first n statements of a request, each as its own tenant.
Rows(r, n) == {[by |-> r, nth |-> k, as |-> Context!Ctx(r)] : k \in 1..n}

Of(r) == {w \in stored : w.by = r}

\* How a connection stands at each statement of the request that has it.
Serves(c, q, r) ==
    /\ c.by = r /\ c.session = None
    /\ q.pc \in {"begin", "tenant", "send", "commit", "rollback"}
    /\ q.pc \in {"begin", "tenant"} => q.sent = 0 /\ c.written = {} /\ c.local = None
    /\ q.pc = "begin" => c.tx = "none"
    /\ q.pc = "tenant" => c.tx = "open" /\ Context!Ctx(r) # None
    /\ q.pc \in {"send", "commit"} =>
         c.tx = "open" /\ c.local = Context!Ctx(r) /\ c.written = Rows(r, q.sent)
    /\ q.pc = "send" => q.sent < Statements[r]
    /\ q.pc = "commit" => q.sent = Statements[r]
    /\ q.pc = "rollback" => c.tx = "aborted"

\* A connection is with the request that has it, or waits as it was handed out.
ConnsHeld ==
    \A c \in Context!Pool : \/ conn[c] = Context!Fresh
                            \/ conn[c].by \in Sent /\ call[conn[c].by].on = c

RequestsServed ==
    \A r \in Sent :
        \/ call[r].on = None /\ call[r].pc \in {"new", "done", "failed"}
           /\ (call[r].pc = "new" => call[r].sent = 0)
        \/ call[r].on \in Context!Pool /\ Serves(conn[call[r].on], call[r], r)

\* What is stored of a request is all of it, or nothing.
StoredWhole ==
    /\ \A w \in stored : w.by \in Sent
    /\ \A r \in Sent :
        /\ Of(r) = {} \/ Of(r) = Rows(r, Statements[r])
        /\ call[r].pc = "done" => Of(r) = Rows(r, Statements[r])
        /\ call[r].pc \notin {"done", "failed"} => Of(r) = {}

TenantsAsked == {RequestTenant[r] : r \in Sent} \union {None}
Written == [by : Sent, nth : Nat, as : TenantsAsked]
ConnRecord == [by : Sent \union {None}, tx : {"none", "open", "aborted"}, local : TenantsAsked,
               session : {None}, written : SUBSET Written]
ReqRecord == [pc : {"new", "begin", "tenant", "send", "commit", "rollback", "done", "failed"},
              on : Context!Pool \union {None}, sent : Nat]

ContextTyped == conn \in [Context!Pool -> ConnRecord] /\ call \in [Sent -> ReqRecord]

ContextInv == ContextTyped /\ ConnsHeld /\ RequestsServed /\ StoredWhole

\* The policies are asked for one of the tenants, or none.
LEMMA CtxFields ==
    ASSUME Context!TenantConstants, NEW r \in Sent
    PROVE  /\ Context!Ctx(r) \in TenantsAsked /\ None \notin Context!Pool /\ None \notin Sent
           /\ Statements[r] \in Nat /\ Statements[r] > 0
           /\ Context!Ctx(r) # None => Context!Ctx(r) = RequestTenant[r]
    BY DEF Context!TenantConstants, Context!Ctx, TenantsAsked

\* Counting what was written: the n rows of one request are n.
LEMMA RowsCount ==
    ASSUME NEW r \in Sent, NEW n \in Nat
    PROVE  Cardinality(Rows(r, n)) = n
<1> DEFINE f == [k \in 1..n |-> [by |-> r, nth |-> k, as |-> Context!Ctx(r)]]
<1>1. f \in Bijection(1..n, Rows(r, n))
    <2>1. f \in [1..n -> Rows(r, n)]
        BY DEF Rows
    <2>2. \A i, j \in 1..n : f[i] = f[j] => i = j
        OBVIOUS
    <2>3. \A w \in Rows(r, n) : \E k \in 1..n : f[k] = w
        BY DEF Rows
    <2> QED
        BY <2>1, <2>2, <2>3 DEF Bijection, Injection, Surjection, IsInjective
<1>2. ExistsBijection(1..n, Rows(r, n))
    BY <1>1 DEF ExistsBijection
<1>3. IsFiniteSet(1..n) /\ Cardinality(1..n) = n
    BY FS_Interval
<1> QED
    BY <1>2, <1>3, FS_Bijection

\* A request that moves with its connection leaves the others, and theirs.
LEMMA OneMoves ==
    ASSUME Context!TenantConstants, ContextInv, NEW r \in Sent, NEW c \in Context!Pool,
           conn[c].by \in {r, None}, call[r].on \in {c, None},
           NEW nc \in ConnRecord, NEW nq \in ReqRecord,
           conn' = [conn EXCEPT ![c] = nc], call' = [call EXCEPT ![r] = nq],
           \/ nq.on = c /\ Serves(nc, nq, r)
           \/ nq.on = None /\ nc = Context!Fresh /\ nq.pc \in {"done", "failed"}
    PROVE  ContextTyped' /\ ConnsHeld' /\ RequestsServed'
<1> USE DEF ContextInv
<1>1. /\ conn'[c] = nc /\ \A d \in Context!Pool : d # c => conn'[d] = conn[d]
      /\ call'[r] = nq /\ \A q \in Sent : q # r => call'[q] = call[q]
    BY DEF ContextTyped
<1>2. None \notin Context!Pool /\ None \notin Sent
    BY CtxFields
<1>3. \A q \in Sent : q # r /\ call[q].on \in Context!Pool => call[q].on # c
    BY <1>2 DEF RequestsServed, Serves
<1>4. ContextTyped'
    BY DEF ContextTyped
<1>5. ConnsHeld'
    <2> SUFFICES ASSUME NEW d \in Context!Pool
                 PROVE  \/ conn'[d] = Context!Fresh
                        \/ conn'[d].by \in Sent /\ call'[conn'[d].by].on = d
        BY DEF ConnsHeld
    <2>1. CASE d = c
        BY <1>1, <2>1 DEF Serves
    <2>2. CASE d # c
        BY <1>1, <1>2, <2>2 DEF ConnsHeld
    <2> QED
        BY <2>1, <2>2
<1>6. RequestsServed'
    <2> SUFFICES ASSUME NEW q \in Sent
                 PROVE  \/ call'[q].on = None /\ call'[q].pc \in {"new", "done", "failed"}
                           /\ (call'[q].pc = "new" => call'[q].sent = 0)
                        \/ call'[q].on \in Context!Pool /\ Serves(conn'[call'[q].on], call'[q], q)
        BY DEF RequestsServed
    <2>1. CASE q = r
        BY <1>1, <2>1
    <2>2. CASE q # r
        BY <1>1, <1>3, <2>2 DEF RequestsServed
    <2> QED
        BY <2>1, <2>2
<1> QED
    BY <1>4, <1>5, <1>6

\* What is stored stays, while a request is on its way or fails.
LEMMA StoredStays ==
    ASSUME ContextInv, NEW r \in Sent, NEW nq \in ReqRecord, UNCHANGED stored,
           call' = [call EXCEPT ![r] = nq], nq.pc # "done",
           call[r].pc \notin {"done", "failed"}
    PROVE  StoredWhole'
<1>1. call'[r] = nq /\ \A q \in Sent : q # r => call'[q] = call[q]
    BY DEF ContextInv, ContextTyped
<1> QED
    BY <1>1 DEF ContextInv, StoredWhole, Of

\* A request that is on its way, and the connection it has.
LEMMA OnItsWay ==
    ASSUME ContextInv, NEW r \in Sent,
           \/ call[r].pc \in {"begin", "tenant", "send", "commit", "rollback"}
           \/ call[r].on # None
    PROVE  /\ call[r].on \in Context!Pool /\ conn[call[r].on] \in ConnRecord /\ call[r] \in ReqRecord
           /\ Serves(conn[call[r].on], call[r], r)
           /\ call[r].pc \notin {"new", "done", "failed"}
    BY DEF ContextInv, ContextTyped, RequestsServed, Serves

LEMMA KeptByConnect ==
    ASSUME Context!TenantConstants, ContextInv, NEW r \in Sent, NEW c \in Context!Pool, Context!Connect(r, c)
    PROVE  ContextInv'
<1> DEFINE nc == [conn[c] EXCEPT !.by = r]
           nq == [call[r] EXCEPT !.pc = "begin", !.on = c]
<1>1. /\ call[r].pc = "new" /\ conn[c].by = None /\ UNCHANGED stored
      /\ conn' = [conn EXCEPT ![c] = nc] /\ call' = [call EXCEPT ![r] = nq]
    BY DEF Context!Connect
<1>2. conn[c] \in ConnRecord /\ call[r] \in ReqRecord
    BY DEF ContextInv, ContextTyped
<1>3. conn[c] = Context!Fresh /\ call[r].on = None /\ call[r].sent = 0
    BY <1>1, CtxFields DEF ContextInv, ConnsHeld, RequestsServed, Serves
<1>4. nc \in ConnRecord /\ nc.by = r /\ nc.tx = "none" /\ nc.session = None /\ nc.local = None
      /\ nc.written = {}
    BY <1>2, <1>3 DEF ConnRecord, Context!Fresh
<1>5. nq \in ReqRecord /\ nq.pc = "begin" /\ nq.on = c /\ nq.sent = 0
    BY <1>2, <1>3 DEF ReqRecord
<1> HIDE DEF nc, nq
<1>6. Serves(nc, nq, r)
    BY <1>4, <1>5 DEF Serves
<1>7. ContextTyped' /\ ConnsHeld' /\ RequestsServed'
    BY <1>1, <1>3, <1>4, <1>5, <1>6, OneMoves
<1>8. StoredWhole'
    BY <1>1, <1>5, StoredStays
<1> QED
    BY <1>7, <1>8 DEF ContextInv

LEMMA KeptByBegin ==
    ASSUME Context!TenantConstants, ContextInv, NEW r \in Sent, Context!Begin(r)
    PROVE  ContextInv'
<1> DEFINE c == call[r].on
           nc == [conn[c] EXCEPT !.tx = IF conn[c].tx = "none" THEN "open" ELSE conn[c].tx]
           nq == [call[r] EXCEPT !.pc = IF Context!Ctx(r) = None THEN "send" ELSE "tenant"]
<1>1. /\ call[r].pc = "begin" /\ UNCHANGED stored
      /\ conn' = [conn EXCEPT ![c] = nc] /\ call' = [call EXCEPT ![r] = nq]
    BY DEF Context!Begin, Context!Goes
<1>2. c \in Context!Pool /\ conn[c] \in ConnRecord /\ call[r] \in ReqRecord /\ Serves(conn[c], call[r], r)
    BY <1>1, OnItsWay
<1>3. nc \in ConnRecord /\ nc.by = r /\ nc.tx = "open" /\ nc.session = None /\ nc.local = None
      /\ nc.written = {}
    BY <1>1, <1>2 DEF ConnRecord, Serves
<1>4. nq \in ReqRecord /\ nq.on = c /\ nq.sent = 0
      /\ nq.pc = IF Context!Ctx(r) = None THEN "send" ELSE "tenant"
    BY <1>1, <1>2 DEF ReqRecord, Serves
<1>5. Rows(r, 0) = {}
    BY DEF Rows
<1> HIDE DEF nc, nq
<1>6. Serves(nc, nq, r)
    BY <1>3, <1>4, <1>5, CtxFields DEF Serves
<1>7. ContextTyped' /\ ConnsHeld' /\ RequestsServed'
    BY <1>1, <1>2, <1>3, <1>4, <1>6, OneMoves DEF Serves
<1>8. StoredWhole'
    BY <1>1, <1>4, StoredStays
<1> QED
    BY <1>7, <1>8 DEF ContextInv

LEMMA KeptBySetTenant ==
    ASSUME Context!TenantConstants, ContextInv, NEW r \in Sent, Context!setTenantGuc(r)
    PROVE  ContextInv'
<1> DEFINE c == call[r].on
           nc == [conn[c] EXCEPT !.local = RequestTenant[r]]
           nq == [call[r] EXCEPT !.pc = "send"]
<1>1. /\ call[r].pc = "tenant" /\ UNCHANGED stored
      /\ conn' = [conn EXCEPT ![c] = nc] /\ call' = [call EXCEPT ![r] = nq]
    BY DEF Context!setTenantGuc, Context!Goes, Context!SetLocal
<1>2. c \in Context!Pool /\ conn[c] \in ConnRecord /\ call[r] \in ReqRecord /\ Serves(conn[c], call[r], r)
    BY <1>1, OnItsWay
<1>3. nc \in ConnRecord /\ nc.by = r /\ nc.tx = "open" /\ nc.session = None
      /\ nc.local = Context!Ctx(r) /\ nc.written = {}
    BY <1>1, <1>2, CtxFields DEF ConnRecord, Serves
<1>4. nq \in ReqRecord /\ nq.on = c /\ nq.sent = 0 /\ nq.pc = "send"
    BY <1>1, <1>2 DEF ReqRecord, Serves
<1>5. Rows(r, 0) = {}
    BY DEF Rows
<1> HIDE DEF nc, nq
<1>6. Serves(nc, nq, r)
    BY <1>3, <1>4, <1>5, CtxFields DEF Serves
<1>7. ContextTyped' /\ ConnsHeld' /\ RequestsServed'
    BY <1>1, <1>2, <1>3, <1>4, <1>6, OneMoves DEF Serves
<1>8. StoredWhole'
    BY <1>1, <1>4, StoredStays
<1> QED
    BY <1>7, <1>8 DEF ContextInv

LEMMA KeptBySend ==
    ASSUME Context!TenantConstants, ContextInv, NEW r \in Sent, Context!Send(r)
    PROVE  ContextInv'
<1> DEFINE c == call[r].on
           n == call[r].sent
           new == [by |-> r, nth |-> n + 1, as |-> Context!Sees(c)]
           nc == [conn[c] EXCEPT !.written = conn[c].written \union {new}]
           then == IF n + 1 = Statements[r] THEN "commit" ELSE "send"
           nq == [call[r] EXCEPT !.sent = n + 1, !.pc = then]
<1>1. /\ call[r].pc = "send" /\ UNCHANGED stored
      /\ conn' = [conn EXCEPT ![c] = nc] /\ call' = [call EXCEPT ![r] = nq]
    BY DEF Context!Send
<1>2. c \in Context!Pool /\ conn[c] \in ConnRecord /\ call[r] \in ReqRecord /\ Serves(conn[c], call[r], r)
    BY <1>1, OnItsWay
<1>3. n \in Nat /\ n < Statements[r] /\ conn[c].written = Rows(r, n) /\ conn[c].local = Context!Ctx(r)
      /\ conn[c].session = None
    BY <1>1, <1>2 DEF Serves, ReqRecord
<1>4. Context!Sees(c) = Context!Ctx(r)
    BY <1>3 DEF Context!Sees
<1>5. new \in Written /\ new = [by |-> r, nth |-> n + 1, as |-> Context!Ctx(r)]
    BY <1>3, <1>4, CtxFields DEF Written
<1>6. Rows(r, n + 1) = Rows(r, n) \union {new}
    <2>1. 1..(n + 1) = (1..n) \union {n + 1}
        BY <1>3
    <2> QED
        BY <1>5, <2>1 DEF Rows
<1> HIDE DEF new
<1>7. nc \in ConnRecord /\ nc.by = r /\ nc.tx = "open" /\ nc.session = None
      /\ nc.local = Context!Ctx(r) /\ nc.written = Rows(r, n + 1)
    BY <1>1, <1>2, <1>3, <1>5, <1>6 DEF ConnRecord, Serves
<1>8. nq \in ReqRecord /\ nq.on = c /\ nq.sent = n + 1
      /\ nq.pc = then
    <2>1. n + 1 \in Nat /\ then \in {"send", "commit"}
        BY <1>3
    <2> HIDE DEF then
    <2> QED
        BY <1>2, <2>1 DEF ReqRecord
<1> HIDE DEF nc, nq
<1>9. Serves(nc, nq, r)
    BY <1>3, <1>7, <1>8, CtxFields DEF Serves
<1>10. ContextTyped' /\ ConnsHeld' /\ RequestsServed'
    BY <1>1, <1>2, <1>7, <1>8, <1>9, OneMoves DEF Serves
<1>11. StoredWhole'
    BY <1>1, <1>8, StoredStays
<1> QED
    BY <1>10, <1>11 DEF ContextInv

LEMMA KeptByFails ==
    ASSUME Context!TenantConstants, ContextInv, NEW r \in Sent, Context!Fails(r)
    PROVE  ContextInv'
<1> DEFINE c == call[r].on
           nc == [conn[c] EXCEPT !.tx = "aborted"]
           nq == [call[r] EXCEPT !.pc = "rollback"]
<1>1. /\ call[r].pc \in {"tenant", "send"} /\ UNCHANGED stored
      /\ conn' = [conn EXCEPT ![c] = nc] /\ call' = [call EXCEPT ![r] = nq]
    BY DEF Context!Fails, Context!Goes
<1>2. c \in Context!Pool /\ conn[c] \in ConnRecord /\ call[r] \in ReqRecord /\ Serves(conn[c], call[r], r)
    BY <1>1, OnItsWay
<1>3. nc \in ConnRecord /\ nc.by = r /\ nc.tx = "aborted" /\ nc.session = None
    BY <1>2 DEF ConnRecord, Serves
<1>4. nq \in ReqRecord /\ nq.on = c /\ nq.pc = "rollback"
    BY <1>2 DEF ReqRecord
<1> HIDE DEF nc, nq
<1>5. Serves(nc, nq, r)
    BY <1>3, <1>4 DEF Serves
<1>6. ContextTyped' /\ ConnsHeld' /\ RequestsServed'
    BY <1>1, <1>2, <1>3, <1>4, <1>5, OneMoves DEF Serves
<1>7. StoredWhole'
    BY <1>1, <1>4, StoredStays
<1> QED
    BY <1>6, <1>7 DEF ContextInv

\* What ends a transaction leaves its connection as it was handed out.
LEMMA OverIsFresh ==
    ASSUME NEW c \in ConnRecord
    PROVE  Context!Over(c) = Context!Fresh /\ Context!Fresh \in ConnRecord
<1>1. Context!Fresh \in ConnRecord
    BY DEF Context!Fresh, ConnRecord, TenantsAsked
<1>2. /\ Context!Over(c) \in ConnRecord
      /\ Context!Over(c).by = None /\ Context!Over(c).tx = "none" /\ Context!Over(c).local = None
      /\ Context!Over(c).session = None /\ Context!Over(c).written = {}
    BY DEF Context!Over, ConnRecord, TenantsAsked
<1>3. \A d \in ConnRecord : d = [by |-> d.by, tx |-> d.tx, local |-> d.local,
                               session |-> d.session, written |-> d.written]
    BY DEF ConnRecord
<1> HIDE DEF ConnRecord
<1>4. Context!Over(c) = [by |-> None, tx |-> "none", local |-> None, session |-> None, written |-> {}]
    BY <1>2, <1>3
<1> QED
    BY <1>1, <1>4 DEF Context!Fresh

LEMMA KeptByRollback ==
    ASSUME Context!TenantConstants, ContextInv, NEW r \in Sent, Context!Rollback(r)
    PROVE  ContextInv'
<1> DEFINE c == call[r].on
           nq == [call[r] EXCEPT !.pc = "failed", !.on = None]
<1>1. /\ call[r].pc = "rollback" /\ UNCHANGED stored
      /\ conn' = [conn EXCEPT ![c] = Context!Over(conn[c])] /\ call' = [call EXCEPT ![r] = nq]
    BY DEF Context!Rollback, Context!RolledBack
<1>2. c \in Context!Pool /\ conn[c] \in ConnRecord /\ call[r] \in ReqRecord /\ Serves(conn[c], call[r], r)
    BY <1>1, OnItsWay
<1>3. Context!Over(conn[c]) = Context!Fresh /\ Context!Fresh \in ConnRecord
    BY <1>2, OverIsFresh
<1>4. nq \in ReqRecord /\ nq.on = None /\ nq.pc = "failed"
    BY <1>2 DEF ReqRecord
<1> HIDE DEF nq
<1>5. ContextTyped' /\ ConnsHeld' /\ RequestsServed'
    BY <1>1, <1>2, <1>3, <1>4, OneMoves DEF Serves
<1>6. StoredWhole'
    BY <1>1, <1>4, StoredStays
<1> QED
    BY <1>5, <1>6 DEF ContextInv

\* A transaction that is committed is stored whole.
LEMMA StoredAdds ==
    ASSUME ContextInv, NEW r \in Sent, NEW nq \in ReqRecord, nq.pc \in {"done", "failed"},
           call[r].pc = "commit", stored' = stored \union Rows(r, Statements[r]),
           call' = [call EXCEPT ![r] = nq]
    PROVE  StoredWhole'
<1>1. call'[r] = nq /\ \A q \in Sent : q # r => call'[q] = call[q]
    BY DEF ContextInv, ContextTyped
<1>2. \A w \in Rows(r, Statements[r]) : w.by = r
    BY DEF Rows
<1>3. Of(r) = {}
    BY DEF ContextInv, StoredWhole
<1> DEFINE OfThen(q) == {w \in stored' : w.by = q}
<1>4. OfThen(r) = Rows(r, Statements[r])
    BY <1>2, <1>3 DEF Of
<1>5. \A q \in Sent : q # r => OfThen(q) = Of(q)
    BY <1>2 DEF Of
<1> HIDE DEF OfThen
<1>6. \A q \in Sent :
        /\ OfThen(q) = {} \/ OfThen(q) = Rows(q, Statements[q])
        /\ call'[q].pc = "done" => OfThen(q) = Rows(q, Statements[q])
        /\ call'[q].pc \notin {"done", "failed"} => OfThen(q) = {}
    BY <1>1, <1>4, <1>5 DEF ContextInv, StoredWhole
<1>7. \A w \in stored' : w.by \in Sent
    BY <1>2 DEF ContextInv, StoredWhole
<1> QED
    BY <1>6, <1>7 DEF StoredWhole, Of, OfThen

LEMMA KeptByStoring ==
    ASSUME Context!TenantConstants, ContextInv, NEW r \in Sent, Context!Commit(r)
    PROVE  ContextInv'
<1> DEFINE c == call[r].on
           nq == [call[r] EXCEPT !.pc = "done", !.on = None]
<1>1. /\ call[r].pc = "commit"
      /\ stored' = IF conn[c].tx = "open" THEN stored \union conn[c].written ELSE stored
      /\ conn' = [conn EXCEPT ![c] = Context!Over(conn[c])] /\ call' = [call EXCEPT ![r] = nq]
    BY DEF Context!Commit
<1>2. c \in Context!Pool /\ conn[c] \in ConnRecord /\ call[r] \in ReqRecord /\ Serves(conn[c], call[r], r)
    BY <1>1, OnItsWay
<1>3. Context!Over(conn[c]) = Context!Fresh /\ Context!Fresh \in ConnRecord
    BY <1>2, OverIsFresh
<1>4. nq \in ReqRecord /\ nq.on = None /\ nq.pc = "done"
    BY <1>2 DEF ReqRecord
<1> HIDE DEF nq
<1>5. ContextTyped' /\ ConnsHeld' /\ RequestsServed'
    BY <1>1, <1>2, <1>3, <1>4, OneMoves DEF Serves
<1>6. stored' = stored \union Rows(r, Statements[r])
    BY <1>1, <1>2 DEF Serves
<1>7. StoredWhole'
    BY <1>1, <1>4, <1>6, StoredAdds
<1> QED
    BY <1>5, <1>7 DEF ContextInv

LEMMA KeptByBreaks ==
    ASSUME Context!TenantConstants, ContextInv, NEW r \in Sent, Context!Breaks(r)
    PROVE  ContextInv'
<1> DEFINE c == call[r].on
           nq == [call[r] EXCEPT !.pc = "failed", !.on = None]
<1>1. /\ c # None
      /\ conn' = [conn EXCEPT ![c] = Context!Fresh] /\ call' = [call EXCEPT ![r] = nq]
    BY DEF Context!Breaks
<1>2. c \in Context!Pool /\ conn[c] \in ConnRecord /\ call[r] \in ReqRecord /\ Serves(conn[c], call[r], r)
      /\ call[r].pc \notin {"new", "done", "failed"}
    BY <1>1, OnItsWay
<1>3. Context!Fresh \in ConnRecord
    BY <1>2, OverIsFresh
<1>4. nq \in ReqRecord /\ nq.on = None /\ nq.pc = "failed"
    BY <1>2 DEF ReqRecord
<1> HIDE DEF nq
<1>5. ContextTyped' /\ ConnsHeld' /\ RequestsServed'
    BY <1>1, <1>2, <1>3, <1>4, OneMoves DEF Serves
<1>6. \/ stored' = stored
      \/ call[r].pc = "commit" /\ stored' = stored \union Rows(r, Statements[r])
    BY <1>2 DEF Context!Breaks, Serves
<1>7. StoredWhole'
    BY <1>1, <1>2, <1>4, <1>6, StoredStays, StoredAdds
<1> QED
    BY <1>5, <1>7 DEF ContextInv

LEMMA ContextAtFirst == Context!TenantConstants /\ Context!Init => ContextInv
<1> SUFFICES ASSUME Context!TenantConstants, Context!Init
             PROVE  ContextInv
    OBVIOUS
<1>1. ContextTyped
    BY DEF Context!Init, ContextTyped, ConnRecord, ReqRecord, Context!Fresh, TenantsAsked
<1>2. ConnsHeld /\ RequestsServed /\ StoredWhole
    BY DEF Context!Init, ConnsHeld, RequestsServed, StoredWhole, Of
<1> QED
    BY <1>1, <1>2 DEF ContextInv

LEMMA ContextKept == Context!TenantConstants /\ ContextInv /\ [Context!Next]_Context!tenantVars => ContextInv'
<1> SUFFICES ASSUME Context!TenantConstants, ContextInv, [Context!Next]_Context!tenantVars
             PROVE  ContextInv'
    OBVIOUS
<1>1. CASE Context!Next
    BY <1>1, KeptByConnect, KeptByBegin, KeptBySetTenant, KeptBySend, KeptByFails, KeptByStoring,
       KeptByRollback, KeptByBreaks DEF Context!Next
<1>2. CASE UNCHANGED Context!tenantVars
    BY <1>2 DEF Context!tenantVars, ContextInv, ContextTyped, ConnsHeld, RequestsServed, StoredWhole, Of
<1> QED
    BY <1>1, <1>2

LEMMA ContextSafe == Context!TenantConstants /\ ContextInv => Context!TypeOK /\ Context!TenantsApart
<1> SUFFICES ASSUME Context!TenantConstants, ContextInv
             PROVE  Context!TypeOK /\ Context!TenantsApart
    OBVIOUS
<1>1. \A r \in Sent : Cardinality(Rows(r, Statements[r])) = Statements[r]
    BY CtxFields, RowsCount
<1>2. Cardinality({}) = 0
    BY FS_EmptySet
<1>3. \A r \in Sent : /\ Cardinality(Of(r)) \in {0, Statements[r]}
                      /\ call[r].pc = "done" => Cardinality(Of(r)) = Statements[r]
    BY <1>1, <1>2 DEF ContextInv, StoredWhole
<1>4. \A w \in stored : w.as = Context!Ctx(w.by)
    <2> SUFFICES ASSUME NEW w \in stored
                 PROVE  w.as = Context!Ctx(w.by)
        OBVIOUS
    <2>1. w.by \in Sent /\ w \in Of(w.by)
        BY DEF ContextInv, StoredWhole, Of
    <2>2. w \in Rows(w.by, Statements[w.by])
        BY <2>1 DEF ContextInv, StoredWhole
    <2> QED
        BY <2>2 DEF Rows
<1>5. \A c \in Context!Pool : conn[c].by = None => conn[c] = Context!Fresh
    BY CtxFields DEF ContextInv, ConnsHeld, Context!TenantConstants
<1>6. Context!TenantsApart
    BY <1>3, <1>4, <1>5, SameCardinality DEF Context!TenantsApart, Of
<1>7. Context!TypeOK
    BY DEF ContextInv, ContextTyped, ConnRecord, ReqRecord, RequestsServed, Serves, Context!TypeOK
<1> QED
    BY <1>6, <1>7

\* db.pg.ts, "it can never bleed into the next request": every row stored was
\* written as its own request's tenant, a batch is stored whole or not at all,
\* and wholly if its caller was told so, and a connection that waits has neither
\* a tenant nor a transaction, for any pools and any failures; and connections
\* and requests keep their types.
THEOREM TenantsNeverMix ==
    ASSUME Context!TenantConstants
    PROVE  Context!Spec => [](Context!TypeOK /\ Context!TenantsApart)
<1>1. Context!Init => ContextInv
    BY ContextAtFirst
<1>2. ContextInv /\ [Context!Next]_Context!tenantVars => ContextInv'
    BY ContextKept
<1>3. ContextInv => Context!TypeOK /\ Context!TenantsApart
    BY ContextSafe
<1> QED
    BY <1>1, <1>2, <1>3, PTL DEF Context!Spec

\* The connections as the part of MCOffice: tenants never mix (db.pg.ts), in the run
\* office's composition.
THEOREM TenantsNeverMixThere == Spec => []TenantsApart
<1> DEFINE Inv == part = "context" => ContextInv
<1>1. Init => Inv
    BY OfficeConstants, ContextAtFirst DEF Init, OfficeConstants
<1>2. Inv /\ [Next]_vars => Inv'
    <2> SUFFICES ASSUME Inv, [Next]_vars, part' = "context"
                 PROVE  ContextInv'
        OBVIOUS
    <2>1. CASE Next
        <3>1. part = "context" /\ Context!Next
            BY <2>1 DEF Next, Moves
        <3> QED
            BY <3>1, OfficeConstants, ContextKept DEF OfficeConstants
    <2>2. CASE UNCHANGED vars
        BY <2>2, OfficeConstants, ContextKept
        DEF OfficeConstants, vars, context, Context!tenantVars
    <2> QED
        BY <2>1, <2>2
<1>3. Inv => TenantsApart
    BY OfficeConstants, ContextSafe DEF OfficeConstants, TenantsApart
<1> QED
    BY <1>1, <1>2, <1>3, PTL DEF Spec

-----------------------------------------------------------------------------
(* Migrations                                                                *)

Working == {"begin", "sql", "row", "commit"}
RunRecord == [pc : Working \union {"new", "done", "failed"}, pending : SUBSET DOMAIN Files]
Spot(rec) == Files[Migration!Min(rec.pending)]

\* What a run at work knows: files of its own are left to it, and those that
\* are not are in the ledger.
Informed(rec, led) ==
    rec.pc \in Working =>
        /\ rec.pending # {}
        /\ \A i \in rec.pending : Files[i] \in Migration!Own
        /\ \A i \in DOMAIN Files \ rec.pending : Files[i] \in Migration!Own => led[Files[i]] # "no"

\* A row that waits for its COMMIT is not in the ledger yet.
Claims(rec, led) == rec.pc = "commit" => led[Spot(rec)] = "no"

MigTyped ==
    /\ ledger \in [Migration!Range(Files) -> {"no", "applied", "marked"}]
    /\ schema \in [Migration!Range(Files) -> Nat]
    /\ run \in [Runners -> RunRecord]

AllInformed == \A r \in Runners : Informed(run[r], ledger)
AllClaim == \A r \in Runners : Claims(run[r], ledger)

\* The primary key lets one run through.
OneCommits ==
    \A r, q \in Runners : run[r].pc = "commit" /\ run[q].pc = "commit" /\ Spot(run[r]) = Spot(run[q])
        => r = q

MigInv == MigTyped /\ AllInformed /\ AllClaim /\ OneCommits /\ Migration!LandsWholeInOrder

-----------------------------------------------------------------------------
(* Lemmas *)

\* Files stand at places 1 to n, each at one.
LEMMA FilePlaces ==
    ASSUME Migration!MigrationConstants
    PROVE  /\ DOMAIN Files \subseteq Nat
           /\ \A i \in DOMAIN Files : Files[i] \in Migration!Range(Files)
           /\ \A i, j \in DOMAIN Files : Files[i] = Files[j] => i = j
           /\ \A f \in Migration!Range(Files) : \E i \in DOMAIN Files : f = Files[i]
<1>1. DOMAIN Files = 1..Len(Files) /\ Len(Files) \in Nat
    BY DEF Migration!MigrationConstants
<1>2. DOMAIN Files \subseteq Nat
    BY <1>1
<1> QED
    BY <1>2 DEF Migration!MigrationConstants, Migration!IsInjective, Migration!Range

\* The first of the places left.
LEMMA FirstPlace ==
    ASSUME Migration!MigrationConstants, NEW S \in SUBSET DOMAIN Files, S # {}
    PROVE  Migration!Min(S) \in S /\ \A i \in S : Migration!Min(S) <= i
<1>1. S \subseteq Nat
    BY FilePlaces
<1>2. PICK x \in S : \A y \in S : ~ (<<y, x>> \in OpToRel(<, Nat))
    BY <1>1, NatLessThanWellFounded, WFMin, Zenon
<1>3. \A y \in S : ~ (y < x)
    BY <1>1, <1>2 DEF OpToRel
<1>4. \A y \in S : x <= y
    BY <1>1, <1>3
<1> QED
    BY <1>4 DEF Migration!Min

\* What a run is at is a file of its own, and none before it is left.
LEMMA AtWork ==
    ASSUME Migration!MigrationConstants, NEW rec \in RunRecord, NEW led, Informed(rec, led),
           rec.pc \in Working
    PROVE  /\ Migration!Min(rec.pending) \in rec.pending
           /\ Migration!Min(rec.pending) \in DOMAIN Files
           /\ Spot(rec) \in Migration!Range(Files) /\ Spot(rec) \in Migration!Own
           /\ \A i \in DOMAIN Files : i < Migration!Min(rec.pending) /\ Files[i] \in Migration!Own => led[Files[i]] # "no"
<1>1. rec.pending \in SUBSET DOMAIN Files /\ rec.pending # {}
    BY DEF RunRecord, Informed
<1>2. Migration!Min(rec.pending) \in rec.pending /\ \A i \in rec.pending : Migration!Min(rec.pending) <= i
    BY <1>1, FirstPlace
<1>3. Spot(rec) \in Migration!Range(Files) /\ Spot(rec) \in Migration!Own
    BY <1>1, <1>2, FilePlaces DEF Spot, Informed
<1>4. ASSUME NEW i \in DOMAIN Files, i < Migration!Min(rec.pending), Files[i] \in Migration!Own
      PROVE  led[Files[i]] # "no"
    <2>1. i \in Nat /\ Migration!Min(rec.pending) \in Nat
        BY <1>1, <1>2, FilePlaces
    <2>2. i \notin rec.pending
        BY <1>2, <1>4, <2>1
    <2> QED
        BY <1>4, <2>2 DEF Informed
<1> QED
    BY <1>1, <1>2, <1>3, <1>4

\* A run that becomes rec, where the ledger only gains rows: the others go on
\* knowing what they know.
LEMMA OneRun ==
    ASSUME Migration!MigrationConstants, MigInv, NEW r \in Runners, NEW rec \in RunRecord,
           run' = [run EXCEPT ![r] = rec],
           ledger' \in [Migration!Range(Files) -> {"no", "applied", "marked"}],
           schema' \in [Migration!Range(Files) -> Nat],
           \A f \in Migration!Range(Files) : ledger[f] # "no" => ledger'[f] # "no",
           \A q \in Runners \ {r} : run[q].pc = "commit" => ledger'[Spot(run[q])] = "no",
           Informed(rec, ledger'), Claims(rec, ledger'),
           \A q \in Runners \ {r} : run[q].pc = "commit" /\ rec.pc = "commit" => Spot(run[q]) # Spot(rec),
           Migration!LandsWholeInOrder'
    PROVE  MigInv'
<1>1. run \in [Runners -> RunRecord]
    BY DEF MigInv, MigTyped
<1>2. run'[r] = rec /\ \A q \in Runners \ {r} : run'[q] = run[q]
    BY <1>1
<1>3. MigTyped'
    <2>1. run' \in [Runners -> RunRecord]
        BY <1>1
    <2> QED
        BY <2>1 DEF MigTyped
<1>4. AllInformed'
    <2>1. ASSUME NEW q \in Runners PROVE Informed(run'[q], ledger')
        <3>1. CASE q = r
            BY <1>2, <3>1
        <3>2. CASE q # r
            <4>1. Informed(run[q], ledger) /\ run'[q] = run[q]
                BY <1>2, <3>2 DEF MigInv, AllInformed
            <4> QED
                BY <4>1, FilePlaces DEF Informed
        <3> QED
            BY <3>1, <3>2
    <2> QED
        BY <2>1 DEF AllInformed
<1>5. AllClaim'
    <2>1. ASSUME NEW q \in Runners PROVE Claims(run'[q], ledger')
        <3>1. CASE q = r
            BY <1>2, <3>1
        <3>2. CASE q # r
            BY <1>2, <3>2 DEF Claims
        <3> QED
            BY <3>1, <3>2
    <2> QED
        BY <2>1 DEF AllClaim
<1>6. OneCommits'
    <2>1. ASSUME NEW p \in Runners, NEW q \in Runners, run'[p].pc = "commit", run'[q].pc = "commit",
                 Spot(run'[p]) = Spot(run'[q])
          PROVE  p = q
        <3>1. CASE p = r
            BY <1>2, <2>1, <3>1
        <3>2. CASE q = r
            BY <1>2, <2>1, <3>2
        <3>3. CASE p # r /\ q # r
            BY <1>2, <2>1, <3>3 DEF MigInv, OneCommits
        <3> QED
            BY <3>1, <3>2, <3>3
    <2> QED
        BY <2>1 DEF OneCommits
<1> QED
    BY <1>3, <1>4, <1>5, <1>6 DEF MigInv

\* A run moves from one statement of a file to the next.
LEMMA RunMoves ==
    ASSUME Migration!MigrationConstants, MigInv, NEW r \in Runners, NEW pc \in Working \union {"done"},
           Migration!To(r, pc), ledger' = ledger, schema' = schema,
           pc \in Working => run[r].pc \in Working,
           pc = "commit" => ledger[Migration!At(r)] = "no" /\ ~Migration!Contended(r, Migration!At(r))
    PROVE  MigInv'
<1> DEFINE rec == [run[r] EXCEPT !.pc = pc]
<1>1. run \in [Runners -> RunRecord] /\ run[r] \in RunRecord /\ Informed(run[r], ledger)
    BY DEF MigInv, MigTyped, AllInformed
<1>2. rec \in RunRecord /\ rec.pc = pc /\ rec.pending = run[r].pending
    BY <1>1 DEF RunRecord
<1>3. run' = [run EXCEPT ![r] = rec]
    BY <1>1 DEF Migration!To
<1> HIDE DEF rec
<1>4. Spot(rec) = Migration!At(r)
    BY <1>2 DEF Spot, Migration!At, Migration!Place
<1>5. Informed(rec, ledger')
    BY <1>1, <1>2 DEF Informed
<1>6. Claims(rec, ledger')
    BY <1>2, <1>4 DEF Claims
<1>7. \A q \in Runners \ {r} : run[q].pc = "commit" => ledger'[Spot(run[q])] = "no"
    BY DEF MigInv, AllClaim, Claims
<1>8. \A q \in Runners \ {r} : run[q].pc = "commit" /\ rec.pc = "commit" => Spot(run[q]) # Spot(rec)
    BY <1>2, <1>4 DEF Migration!Contended, Spot, Migration!At, Migration!Place
<1>9. Migration!LandsWholeInOrder'
    BY DEF MigInv, Migration!LandsWholeInOrder
<1>10. /\ ledger' \in [Migration!Range(Files) -> {"no", "applied", "marked"}]
       /\ schema' \in [Migration!Range(Files) -> Nat]
       /\ \A f \in Migration!Range(Files) : ledger[f] # "no" => ledger'[f] # "no"
    BY DEF MigInv, MigTyped
<1> QED
    BY <1>2, <1>3, <1>5, <1>6, <1>7, <1>8, <1>9, <1>10, OneRun

\* A run that is over knows nothing.
LEMMA RunStops ==
    ASSUME Migration!MigrationConstants, MigInv, NEW r \in Runners, Migration!Stops(r),
           ledger' \in [Migration!Range(Files) -> {"no", "applied", "marked"}],
           schema' \in [Migration!Range(Files) -> Nat],
           \A f \in Migration!Range(Files) : ledger[f] # "no" => ledger'[f] # "no",
           \A q \in Runners \ {r} : run[q].pc = "commit" => ledger'[Spot(run[q])] = "no",
           Migration!LandsWholeInOrder'
    PROVE  MigInv'
<1> DEFINE rec == [pc |-> "failed", pending |-> {}]
<1>1. rec \in RunRecord /\ rec.pc = "failed"
    BY DEF RunRecord
<1>2. run' = [run EXCEPT ![r] = rec]
    BY DEF Migration!Stops
<1> HIDE DEF rec
<1>3. Informed(rec, ledger') /\ Claims(rec, ledger')
    BY <1>1 DEF Informed, Claims, Working
<1> QED
    BY <1>1, <1>2, <1>3, OneRun

\* A file lands: its SQL once, its row, and every earlier file of its own has
\* a row.
LEMMA FileLands ==
    ASSUME Migration!MigrationConstants, MigInv, NEW r \in Runners, run[r].pc = "commit", Migration!Land(r)
    PROVE  /\ ledger' \in [Migration!Range(Files) -> {"no", "applied", "marked"}]
           /\ schema' \in [Migration!Range(Files) -> Nat]
           /\ \A f \in Migration!Range(Files) : ledger[f] # "no" => ledger'[f] # "no"
           /\ ledger'[Migration!At(r)] = "applied"
           /\ \A q \in Runners \ {r} : run[q].pc = "commit" => ledger'[Spot(run[q])] = "no"
           /\ Migration!LandsWholeInOrder'
<1>1. run[r] \in RunRecord /\ Informed(run[r], ledger) /\ run[r].pc \in Working
    BY DEF MigInv, MigTyped, AllInformed, Working
<1>2. Migration!At(r) = Spot(run[r])
    BY DEF Migration!At, Migration!Place, Spot
<1>3. Migration!At(r) \in Migration!Range(Files) /\ Migration!At(r) \in Migration!Own
    BY <1>1, <1>2, AtWork
<1>4. ledger[Migration!At(r)] = "no"
    BY <1>2 DEF MigInv, AllClaim, Claims
<1>5. /\ ledger \in [Migration!Range(Files) -> {"no", "applied", "marked"}]
      /\ schema \in [Migration!Range(Files) -> Nat]
    BY DEF MigInv, MigTyped
<1>6. /\ ledger' = [ledger EXCEPT ![Migration!At(r)] = "applied"]
      /\ schema' = [schema EXCEPT ![Migration!At(r)] = @ + 1]
    BY DEF Migration!Land
<1>7. \A f \in Migration!Range(Files) : /\ f # Migration!At(r) => ledger'[f] = ledger[f] /\ schema'[f] = schema[f]
                                        /\ f = Migration!At(r) => ledger'[f] = "applied" /\ schema'[f] = schema[f] + 1
    BY <1>5, <1>6
<1>8. ledger' \in [Migration!Range(Files) -> {"no", "applied", "marked"}] /\ schema' \in [Migration!Range(Files) -> Nat]
    BY <1>3, <1>5, <1>6
<1>9. ASSUME NEW q \in Runners \ {r}, run[q].pc = "commit" PROVE ledger'[Spot(run[q])] = "no"
    <2>1. run[q] \in RunRecord /\ Informed(run[q], ledger) /\ run[q].pc \in Working
        BY <1>9 DEF MigInv, MigTyped, AllInformed, Working
    <2>2. Spot(run[q]) \in Migration!Range(Files)
        BY <2>1, AtWork
    <2>3. Spot(run[q]) # Migration!At(r)
        BY <1>2, <1>9 DEF MigInv, OneCommits
    <2>4. ledger[Spot(run[q])] = "no"
        BY <1>9 DEF MigInv, AllClaim, Claims
    <2> QED
        BY <1>7, <2>2, <2>3, <2>4
<1>10. Migration!LandsWholeInOrder'
    <2>1. ASSUME NEW f \in Migration!Range(Files)
          PROVE  schema'[f] = IF ledger'[f] = "applied" THEN 1 ELSE 0
        <3>1. schema[f] = IF ledger[f] = "applied" THEN 1 ELSE 0
            BY DEF MigInv, Migration!LandsWholeInOrder
        <3>2. CASE f = Migration!At(r)
            BY <1>4, <1>7, <3>1, <3>2
        <3>3. CASE f # Migration!At(r)
            BY <1>7, <3>1, <3>3
        <3> QED
            BY <3>2, <3>3
    <2>2. ASSUME NEW f \in LEGACY PROVE schema'[f] = 0
        <3>1. f \in Migration!Range(Files) /\ f # Migration!At(r)
            BY <1>3 DEF Migration!Own, Migration!MigrationConstants
        <3>2. schema[f] = 0
            BY DEF MigInv, Migration!LandsWholeInOrder
        <3> QED
            BY <1>7, <3>1, <3>2
    <2>3. ASSUME NEW i \in DOMAIN Files, NEW j \in DOMAIN Files, i < j,
                 ledger'[Files[j]] = "applied", Files[i] \in Migration!Own
          PROVE  ledger'[Files[i]] # "no"
        <3>1. Files[i] \in Migration!Range(Files) /\ Files[j] \in Migration!Range(Files)
            BY FilePlaces
        <3>2. ledger[Files[i]] # "no"
            <4>1. CASE Files[j] = Migration!At(r)
                <5>1. j = Migration!Min(run[r].pending)
                    BY <1>1, <4>1, AtWork, FilePlaces DEF Migration!At, Migration!Place
                <5> QED
                    BY <1>1, <2>3, <5>1, AtWork
            <4>2. CASE Files[j] # Migration!At(r)
                <5>1. ledger[Files[j]] = "applied"
                    BY <1>7, <2>3, <3>1, <4>2
                <5> QED
                    BY <2>3, <5>1 DEF MigInv, Migration!LandsWholeInOrder
            <4> QED
                BY <4>1, <4>2
        <3> QED
            BY <1>7, <3>1, <3>2
    <2> QED
        BY <2>1, <2>2, <2>3 DEF Migration!LandsWholeInOrder
<1>11. (\A f \in Migration!Range(Files) : ledger[f] # "no" => ledger'[f] # "no") /\ ledger'[Migration!At(r)] = "applied"
    BY <1>3, <1>7
<1> QED
    BY <1>8, <1>9, <1>10, <1>11

-----------------------------------------------------------------------------
(* The actions *)

\* What is not in the ledger is left to the run that reads it.
LEMMA KeptByRead ==
    ASSUME Migration!MigrationConstants, MigInv, NEW r \in Runners, Migration!Read(r) PROVE MigInv'
<1> DEFINE left == {i \in DOMAIN Files : Files[i] \in Migration!Own /\ ledger[Files[i]] = "no"}
           rec == [pc |-> IF left = {} THEN "done" ELSE "begin", pending |-> left]
<1>1. run' = [run EXCEPT ![r] = rec] /\ ledger' = ledger /\ schema' = schema
    BY DEF Migration!Read
<1>2. left \in SUBSET DOMAIN Files
    OBVIOUS
<1>3. \A i \in left : Files[i] \in Migration!Own
    OBVIOUS
<1>4. \A i \in DOMAIN Files \ left : Files[i] \in Migration!Own => ledger[Files[i]] # "no"
    OBVIOUS
<1> HIDE DEF left
<1>5. /\ rec \in RunRecord /\ rec.pending = left /\ rec.pc # "commit"
      /\ rec.pc \in Working => left # {}
    BY <1>2 DEF RunRecord, Working
<1> HIDE DEF rec
<1>6. Informed(rec, ledger') /\ Claims(rec, ledger')
    BY <1>1, <1>3, <1>4, <1>5 DEF Informed, Claims
<1>7. \A q \in Runners \ {r} : run[q].pc = "commit" => ledger'[Spot(run[q])] = "no"
    BY <1>1 DEF MigInv, AllClaim, Claims
<1>8. Migration!LandsWholeInOrder'
    BY <1>1 DEF MigInv, Migration!LandsWholeInOrder
<1>9. /\ ledger' \in [Migration!Range(Files) -> {"no", "applied", "marked"}]
      /\ schema' \in [Migration!Range(Files) -> Nat]
      /\ \A f \in Migration!Range(Files) : ledger[f] # "no" => ledger'[f] # "no"
    BY <1>1 DEF MigInv, MigTyped
<1> QED
    BY <1>1, <1>5, <1>6, <1>7, <1>8, <1>9, OneRun

\* A mark waits for a row that is about to commit, and is no SQL.
LEMMA KeptByMark ==
    ASSUME Migration!MigrationConstants, MigInv, NEW r \in Runners, Migration!Mark(r) PROVE MigInv'
<1> DEFINE rec == [run[r] EXCEPT !.pc = "done"]
           f == Marks[r]
<1>1. /\ run \in [Runners -> RunRecord] /\ run[r] \in RunRecord
      /\ ledger \in [Migration!Range(Files) -> {"no", "applied", "marked"}]
      /\ schema \in [Migration!Range(Files) -> Nat]
    BY DEF MigInv, MigTyped
<1>2. rec \in RunRecord /\ rec.pc = "done"
    BY <1>1 DEF RunRecord
<1>3. run' = [run EXCEPT ![r] = rec] /\ schema' = schema
    BY <1>1 DEF Migration!Mark
<1> HIDE DEF rec
<1>4. f \in Migration!Range(Files)
    BY DEF Migration!Mark, Migration!MigrationConstants
<1>5. /\ \A g \in Migration!Range(Files) \ {f} : ledger'[g] = ledger[g]
      /\ ledger'[f] = IF ledger[f] = "no" THEN "marked" ELSE ledger[f]
      /\ ledger' \in [Migration!Range(Files) -> {"no", "applied", "marked"}]
    BY <1>1, <1>4 DEF Migration!Mark
<1>6. \A g \in Migration!Range(Files) : /\ ledger[g] # "no" => ledger'[g] = ledger[g]
                                        /\ ledger'[g] = "applied" <=> ledger[g] = "applied"
    BY <1>1, <1>5
<1> HIDE DEF f
<1>7. Informed(rec, ledger') /\ Claims(rec, ledger')
    BY <1>2 DEF Informed, Claims, Working
<1>8. ASSUME NEW q \in Runners \ {r}, run[q].pc = "commit" PROVE ledger'[Spot(run[q])] = "no"
    <2>1. run[q] \in RunRecord /\ Informed(run[q], ledger) /\ run[q].pc \in Working
        BY <1>8 DEF MigInv, MigTyped, AllInformed, Working
    <2>2. Spot(run[q]) \in Migration!Range(Files) /\ Spot(run[q]) # f
        BY <1>8, <2>1, AtWork DEF Migration!Mark, Migration!Contended, Migration!At, Migration!Place, Spot, f
    <2> QED
        BY <1>5, <1>8, <2>2 DEF MigInv, AllClaim, Claims
<1>9. Migration!LandsWholeInOrder'
    <2>1. \A g \in Migration!Range(Files) : schema'[g] = IF ledger'[g] = "applied" THEN 1 ELSE 0
        BY <1>3, <1>6 DEF MigInv, Migration!LandsWholeInOrder
    <2>2. \A g \in LEGACY : schema'[g] = 0
        BY <1>3 DEF MigInv, Migration!LandsWholeInOrder
    <2>3. \A i, j \in DOMAIN Files :
              i < j /\ ledger'[Files[j]] = "applied" /\ Files[i] \in Migration!Own => ledger'[Files[i]] # "no"
        BY <1>6, FilePlaces DEF MigInv, Migration!LandsWholeInOrder
    <2> QED
        BY <2>1, <2>2, <2>3 DEF Migration!LandsWholeInOrder
<1>10. schema' \in [Migration!Range(Files) -> Nat]
    BY <1>1, <1>3
<1>11. \A g \in Migration!Range(Files) : ledger[g] # "no" => ledger'[g] # "no"
    BY <1>6
<1> QED
    BY <1>2, <1>3, <1>5, <1>7, <1>8, <1>9, <1>10, <1>11, OneRun

\* The steps within a file's transaction.
LEMMA KeptWithin ==
    ASSUME Migration!MigrationConstants, MigInv, NEW r \in Runners,
           Migration!DryRun(r) \/ Migration!Begin(r) \/ Migration!Sql(r) \/ Migration!Row(r)
    PROVE  MigInv'
<1>1. CASE Migration!DryRun(r)
    BY <1>1, RunMoves DEF Migration!DryRun, Migration!To, Working
<1>2. CASE Migration!Begin(r)
    BY <1>2, RunMoves DEF Migration!Begin, Working
<1>3. CASE Migration!Sql(r)
    BY <1>3, RunMoves DEF Migration!Sql, Working
<1>4. CASE Migration!Row(r)
    BY <1>4, RunMoves DEF Migration!Row, Working
<1> QED
    BY <1>1, <1>2, <1>3, <1>4

\* After a COMMIT the run has the rest of its files to do.
LEMMA KeptByCommit ==
    ASSUME Migration!MigrationConstants, MigInv, NEW r \in Runners, Migration!Commit(r) PROVE MigInv'
<1> DEFINE left == run[r].pending \ {Migration!Place(r)}
           rec == [pc |-> IF left = {} THEN "done" ELSE "begin", pending |-> left]
<1>1. run[r] \in RunRecord /\ Informed(run[r], ledger) /\ run[r].pc \in Working /\ run[r].pc = "commit"
    BY DEF MigInv, MigTyped, AllInformed, Working, Migration!Commit
<1>2. Migration!Land(r) /\ run' = [run EXCEPT ![r] = rec]
    BY DEF Migration!Commit, Migration!Passed
<1>3. left \in SUBSET DOMAIN Files /\ \A i \in left : Files[i] \in Migration!Own
    BY <1>1 DEF RunRecord, Informed
<1>4. \A i \in DOMAIN Files \ left : Files[i] \in Migration!Own => ledger'[Files[i]] # "no"
    <2>1. ASSUME NEW i \in DOMAIN Files \ left, Files[i] \in Migration!Own PROVE ledger'[Files[i]] # "no"
        <3>1. CASE i = Migration!Place(r)
            BY <1>1, <1>2, <3>1, FileLands DEF Migration!At
        <3>2. CASE i \notin run[r].pending
            BY <1>1, <1>2, <2>1, <3>2, FileLands, FilePlaces DEF Informed
        <3> QED
            BY <2>1, <3>1, <3>2
    <2> QED
        BY <2>1
<1> HIDE DEF left
<1>5. /\ rec \in RunRecord /\ rec.pending = left /\ rec.pc # "commit"
      /\ rec.pc \in Working => left # {}
    BY <1>3 DEF RunRecord, Working
<1> HIDE DEF rec
<1>6. Informed(rec, ledger') /\ Claims(rec, ledger')
    BY <1>3, <1>4, <1>5 DEF Informed, Claims
<1> QED
    BY <1>1, <1>2, <1>5, <1>6, FileLands, OneRun

\* A run that fails or dies leaves what it had begun, or has landed it whole.
LEMMA KeptByFailure ==
    ASSUME Migration!MigrationConstants, MigInv, NEW r \in Runners,
           Migration!SqlFails(r) \/ Migration!RowRefused(r) \/ Migration!Dies(r)
    PROVE  MigInv'
<1>1. Migration!Stops(r)
    BY DEF Migration!SqlFails, Migration!RowRefused, Migration!Dies
<1>2. CASE ledger' = ledger /\ schema' = schema
    <2>1. /\ ledger' \in [Migration!Range(Files) -> {"no", "applied", "marked"}]
          /\ schema' \in [Migration!Range(Files) -> Nat]
          /\ \A f \in Migration!Range(Files) : ledger[f] # "no" => ledger'[f] # "no"
        BY <1>2 DEF MigInv, MigTyped
    <2>2. \A q \in Runners \ {r} : run[q].pc = "commit" => ledger'[Spot(run[q])] = "no"
        BY <1>2 DEF MigInv, AllClaim, Claims
    <2>3. Migration!LandsWholeInOrder'
        BY <1>2 DEF MigInv, Migration!LandsWholeInOrder
    <2> QED
        BY <1>1, <2>1, <2>2, <2>3, RunStops
<1>3. CASE run[r].pc = "commit" /\ Migration!Land(r)
    BY <1>1, <1>3, FileLands, RunStops
<1> QED
    BY <1>2, <1>3 DEF Migration!SqlFails, Migration!RowRefused, Migration!Dies

-----------------------------------------------------------------------------
(* The theorems *)

\* Before any run nothing has landed.
LEMMA NothingLandedYet == ASSUME Migration!MigrationConstants, Migration!Init PROVE MigInv
<1>1. MigTyped
    BY DEF Migration!Init, MigTyped, RunRecord
<1>2. AllInformed /\ AllClaim /\ OneCommits
    BY DEF Migration!Init, AllInformed, AllClaim, OneCommits, Informed, Claims, Working
<1>3. Migration!LandsWholeInOrder
    BY FilePlaces DEF Migration!Init, Migration!LandsWholeInOrder, Migration!MigrationConstants
<1> QED
    BY <1>1, <1>2, <1>3 DEF MigInv

\* Every step keeps the invariant.
LEMMA MigSteps == ASSUME Migration!MigrationConstants, MigInv, [Migration!Next]_Migration!migVars PROVE MigInv'
<1>1. ASSUME NEW r \in Runners,
             \/ Migration!Read(r) \/ Migration!DryRun(r) \/ Migration!Mark(r) \/ Migration!Begin(r) \/ Migration!Sql(r) \/ Migration!Row(r) \/ Migration!Commit(r)
             \/ Migration!SqlFails(r) \/ Migration!RowRefused(r) \/ Migration!Dies(r)
      PROVE  MigInv'
    BY <1>1, KeptByRead, KeptByMark, KeptWithin, KeptByCommit, KeptByFailure
<1>2. CASE UNCHANGED Migration!migVars
    BY <1>2 DEF Migration!migVars, MigInv, MigTyped, AllInformed, AllClaim, OneCommits, Informed, Claims, Spot,
       Migration!LandsWholeInOrder
<1> QED
    BY <1>1, <1>2 DEF Migration!Next

\* The invariant holds for good.
LEMMA MigAlways == ASSUME Migration!MigrationConstants PROVE Migration!Spec => []MigInv
<1>1. Migration!Init => MigInv
    BY NothingLandedYet
<1>2. MigInv /\ [Migration!Next]_Migration!migVars => MigInv'
    BY MigSteps
<1> QED
    BY <1>1, <1>2, PTL DEF Migration!Spec

\* pgMigrate.mjs, "a migration lands whole or not at all": for any number of
\* overlapping runs and any failures, the SQL of a file has taken effect once if
\* its row says so and never otherwise, a held file never, and no file before
\* an earlier one of ours that has no row.
THEOREM WholeOrNotAtAll == ASSUME Migration!MigrationConstants PROVE Migration!Spec => []Migration!LandsWholeInOrder
<1>1. MigInv => Migration!LandsWholeInOrder
    BY DEF MigInv
<1> QED
    BY <1>1, MigAlways, PTL

\* The ledger, the schema and every run keep their types: what is left to a run
\* are files there are.
THEOREM MigrationTypes == ASSUME Migration!MigrationConstants PROVE Migration!Spec => []Migration!TypeOK
<1>1. MigInv => Migration!TypeOK
    BY DEF MigInv, MigTyped, RunRecord, Working, Migration!TypeOK
<1> QED
    BY <1>1, MigAlways, PTL

\* The runner as the part of MCOffice: a file lands whole, once and in order
\* (pgMigrate.mjs), in the run office's composition.
THEOREM WholeOrNotAtAllThere == Spec => []LandsWholeInOrder
<1> DEFINE Inv == part = "migrations" => MigInv
<1>1. Init => Inv
    BY OfficeConstants, NothingLandedYet DEF Init, OfficeConstants
<1>2. Inv /\ [Next]_vars => Inv'
    <2> SUFFICES ASSUME Inv, [Next]_vars, part' = "migrations"
                 PROVE  MigInv'
        OBVIOUS
    <2>1. CASE Next
        <3>1. part = "migrations" /\ Migration!Next
            BY <2>1 DEF Next, Moves
        <3> QED
            BY <3>1, OfficeConstants, MigSteps DEF OfficeConstants
    <2>2. CASE UNCHANGED vars
        BY <2>2, OfficeConstants, MigSteps
        DEF OfficeConstants, vars, migrations, Migration!migVars
    <2> QED
        BY <2>1, <2>2
<1>3. Inv => LandsWholeInOrder
    BY DEF MigInv, MigTyped, RunRecord, Working, Migration!TypeOK, LandsWholeInOrder
<1> QED
    BY <1>1, <1>2, <1>3, PTL DEF Spec

-----------------------------------------------------------------------------
LEMMA SameOnTheBoard ==
    \A S : Grid!Cardinality(S) = Cardinality(S) /\ Grid!IsFiniteSet(S) = IsFiniteSet(S)
    BY DEF Grid!Cardinality, Cardinality, Grid!IsFiniteSet, IsFiniteSet

LEMMA SameAtTheDesk ==
    \A S : Desk!Cardinality(S) = Cardinality(S) /\ Desk!IsFiniteSet(S) = IsFiniteSet(S)
    BY DEF Desk!Cardinality, Cardinality, Desk!IsFiniteSet, IsFiniteSet

-----------------------------------------------------------------------------
(* Board                                                                     *)

TinCards == [Tins -> {"none", "forming", "active"}]
Pairs == Tins \X Dragged
LoadRecord == [pc : {"idle", "contracts", "signups", "roster", "answer"}, cards : TinCards,
               signups : SUBSET Dragged, roster : SUBSET Pairs]
ScreenRecord == [state : {"loading", "ready", "error"}, cards : TinCards,
                 signups : SUBSET Dragged, roster : SUBSET Pairs]
HandRecord == [member : Dragged \union {None}, from : Tins \union {None}]
DropRecord == [pc : {"idle", "check", "seat", "leave", "answer"}, member : Dragged \union {None},
               to : Tins \union {None}, from : Tins \union {None}]

\* A request to arrange is for a woman who was in hand, between different tins.
DropKnows(d) == /\ d.pc # "idle" => d.member \in Dragged /\ d.to \in Tins /\ d.to # d.from
                /\ d.pc = "leave" => d.from # None
                /\ d.pc = "idle" => d.from = None

\* A load has no roster before the tins are read.
LoadBegins(l) == l.pc = "contracts" => l.roster = {}

BoardTyped ==
    /\ status \in TinCards
    /\ live \subseteq {p \in Pairs : status[p[1]] # "none"}
    /\ screen \in [Boards -> ScreenRecord]
    /\ load \in [Boards -> LoadRecord]
    /\ hand \in [Boards -> HandRecord]
    /\ drop \in [Boards -> DropRecord]
    /\ \A b \in Boards :
        /\ \A p \in load[b].roster : load[b].cards[p[1]] = "forming"
        /\ hand[b] # Grid!Empty => hand[b].member \in Dragged
        /\ DropKnows(drop[b])
LoadsBegin == \A b \in Boards : LoadBegins(load[b])

\* The tin a drop has checked is there, and stays.
Checked(d, st) == d.pc = "seat" => st[d.to] # "none"
DropsChecked == \A b \in Boards : Checked(drop[b], status)

\* The tins a woman is in, and the drops that have yet to take her out of one.
Seats(m) == {t \in Tins : <<t, m>> \in live}
LeavingDrops(m) == {b \in Boards : drop[b].pc = "leave" /\ drop[b].member = m}

\* A board has her in a tin, or is about to move her out of one.
Seen(m) ==
    \E b \in Boards :
        \/ \E t \in Tins : <<t, m>> \in load[b].roster \union screen[b].roster
        \/ hand[b].from # None /\ hand[b].member = m
        \/ drop[b].from # None /\ drop[b].member = m

\* The argument: a drop has put her into one tin before it takes her out of
\* another, so she is in more tins than there are drops to leave one.
Seated ==
    \A m \in Dragged \ expelled :
        Seen(m) \/ Seats(m) # {} => Cardinality(LeavingDrops(m)) < Cardinality(Seats(m))

\* Who was not among those waiting had a tin, and has one still.
Accounted ==
    \A b \in Boards : load[b].pc = "roster" =>
        \A m \in Dragged \ expelled : m \in load[b].signups \/ Seats(m) # {}

BoardInv == BoardTyped /\ LoadsBegin /\ DropsChecked /\ Seated /\ Accounted

-----------------------------------------------------------------------------
(* Counting *)

\* The tins and the drops are finitely many.
LEMMA FinitelyMany ==
    ASSUME Grid!BoardConstants, NEW m
    PROVE  /\ IsFiniteSet(Seats(m)) /\ IsFiniteSet(LeavingDrops(m))
           /\ Cardinality(Seats(m)) \in Nat /\ Cardinality(LeavingDrops(m)) \in Nat
           /\ Cardinality(Seats(m)) = 0 <=> Seats(m) = {}
           /\ Cardinality(LeavingDrops(m)) = 0 <=> LeavingDrops(m) = {}
<1>1. IsFiniteSet(Seats(m)) /\ IsFiniteSet(LeavingDrops(m))
    BY FS_Subset, SameOnTheBoard DEF Grid!BoardConstants, Seats, LeavingDrops
<1> QED
    BY <1>1, FS_CardinalityType, FS_EmptySet

\* The same, after a step.
LEMMA FinitelyManyThen ==
    ASSUME Grid!BoardConstants, NEW m
    PROVE  /\ IsFiniteSet(Seats(m)') /\ IsFiniteSet(LeavingDrops(m)')
           /\ Cardinality(Seats(m)') \in Nat /\ Cardinality(LeavingDrops(m)') \in Nat
           /\ Cardinality(Seats(m)') = 0 <=> Seats(m)' = {}
           /\ Cardinality(LeavingDrops(m)') = 0 <=> LeavingDrops(m)' = {}
<1>1. IsFiniteSet(Seats(m)') /\ IsFiniteSet(LeavingDrops(m)')
    BY FS_Subset, SameOnTheBoard DEF Grid!BoardConstants, Seats, LeavingDrops
<1> QED
    BY <1>1, FS_CardinalityType, FS_EmptySet

\* Who is in no tin is about to leave none.
LEMMA NoRowNoLeave ==
    ASSUME Grid!BoardConstants, BoardInv, NEW m \in Dragged \ expelled, Seats(m) = {}
    PROVE  LeavingDrops(m) = {} /\ ~Seen(m)
<1>1. ~Seen(m)
    <2>1. ~(Cardinality(LeavingDrops(m)) < Cardinality(Seats(m)))
        BY FinitelyMany
    <2> QED
        BY <2>1 DEF BoardInv, Seated
<1>2. LeavingDrops(m) = {}
    BY <1>1 DEF Seen, LeavingDrops, BoardInv, BoardTyped, DropKnows
<1> QED
    BY <1>1, <1>2

\* A step that puts nobody in and takes nobody out keeps the count.
LEMMA QuietlySeated ==
    ASSUME Grid!BoardConstants, BoardInv, live' = live, expelled' = expelled,
           \A m \in Dragged : LeavingDrops(m)' \subseteq LeavingDrops(m),
           \A m \in Dragged : Seen(m)' => Seen(m) \/ Seats(m) # {}
    PROVE  Seated'
<1> SUFFICES ASSUME NEW m \in Dragged \ expelled', Seen(m)' \/ Seats(m)' # {}
             PROVE  Cardinality(LeavingDrops(m)') < Cardinality(Seats(m)')
    BY DEF Seated
<1>1. Seats(m)' = Seats(m)
    BY DEF Seats
<1>2. Cardinality(LeavingDrops(m)) < Cardinality(Seats(m))
    BY <1>1 DEF BoardInv, Seated
<1>3. Cardinality(LeavingDrops(m)') <= Cardinality(LeavingDrops(m))
    BY FinitelyMany, FS_Subset
<1> QED
    BY <1>1, <1>2, <1>3, FinitelyMany, FinitelyManyThen

\* Loads that found her waiting, or in a tin, are right still.
LEMMA StillAccounted ==
    ASSUME BoardInv, expelled \subseteq expelled',
           \A m \in Dragged \ expelled' : Seats(m) # {} => Seats(m)' # {},
           \A b \in Boards : load'[b].pc = "roster" =>
               \/ load[b].pc = "roster" /\ load'[b].signups = load[b].signups
               \/ \A m \in Dragged : m \in load'[b].signups \/ Seats(m)' # {}
    PROVE  Accounted'
<1> SUFFICES ASSUME NEW b \in Boards, load'[b].pc = "roster", NEW m \in Dragged \ expelled'
             PROVE  m \in load'[b].signups \/ Seats(m)' # {}
    BY DEF Accounted
<1>1. CASE \A n \in Dragged : n \in load'[b].signups \/ Seats(n)' # {}
    BY <1>1
<1>2. CASE load[b].pc = "roster" /\ load'[b].signups = load[b].signups
    BY <1>2 DEF BoardInv, Accounted
<1> QED
    BY <1>1, <1>2

-----------------------------------------------------------------------------
(* Elsewhere *)

\* A tin is created or activated.
LEMMA KeptByTins ==
    ASSUME Grid!BoardConstants, BoardInv, NEW t \in Tins, Grid!Create(t) \/ Grid!Activate(t) PROVE BoardInv'
<1>1. UNCHANGED <<live, screen, load, hand, drop, expelled>>
    BY DEF Grid!Create, Grid!Activate, Grid!counts
<1>2. /\ status' \in TinCards
      /\ \A s \in Tins : status[s] # "none" => status'[s] # "none"
    BY DEF BoardInv, BoardTyped, Grid!Create, Grid!Activate, TinCards
<1>3. BoardTyped'
    <2>1. live' \subseteq {p \in Pairs : status'[p[1]] # "none"}
        BY <1>1, <1>2 DEF BoardInv, BoardTyped, Pairs
    <2> QED
        BY <1>1, <1>2, <2>1 DEF BoardInv, BoardTyped, DropKnows
<1>4. Seated'
    BY <1>1, QuietlySeated DEF LeavingDrops, Seen
<1>5. Accounted'
    BY <1>1, StillAccounted DEF Seats
<1>6. LoadsBegin' /\ DropsChecked'
    BY <1>1, <1>2 DEF BoardInv, BoardTyped, DropKnows, LoadsBegin, DropsChecked, Checked
<1> QED
    BY <1>3, <1>4, <1>5, <1>6 DEF BoardInv

\* A vote brings her into a tin.
LEMMA KeptByAdmitting ==
    ASSUME Grid!BoardConstants, BoardInv, NEW t \in Tins, NEW m \in Dragged, Grid!Admit(t, m) PROVE BoardInv'
<1>1. UNCHANGED <<status, screen, load, hand, drop, expelled>>
    BY DEF Grid!Admit
<1>2. live' = live \cup {<<t, m>>} /\ <<t, m>> \notin live /\ status[t] # "none"
    BY DEF Grid!Admit
<1>3. BoardTyped'
    <2>1. live' \subseteq {p \in Pairs : status'[p[1]] # "none"}
        BY <1>1, <1>2 DEF BoardInv, BoardTyped, Pairs
    <2> QED
        BY <1>1, <2>1 DEF BoardInv, BoardTyped, DropKnows
<1>4. \A n \in Dragged : /\ Seats(n) \subseteq Seats(n)'
                         /\ n # m => Seats(n)' = Seats(n)
    BY <1>2 DEF Seats
<1>5. Seated'
    <2> SUFFICES ASSUME NEW n \in Dragged \ expelled', Seen(n)' \/ Seats(n)' # {}
                 PROVE  Cardinality(LeavingDrops(n)') < Cardinality(Seats(n)')
        BY DEF Seated
    <2>1. LeavingDrops(n)' = LeavingDrops(n) /\ (Seen(n)' => Seen(n)) /\ n \in Dragged \ expelled
        BY <1>1 DEF LeavingDrops, Seen
    <2>2. CASE Seats(n) # {} \/ Seen(n)
        <3>1. Cardinality(LeavingDrops(n)) < Cardinality(Seats(n))
            BY <2>1, <2>2 DEF BoardInv, Seated
        <3>2. Cardinality(Seats(n)) <= Cardinality(Seats(n)')
            BY <1>4, FinitelyManyThen, FS_Subset
        <3> QED
            BY <2>1, <3>1, <3>2, FinitelyMany, FinitelyManyThen
    <2>3. CASE Seats(n) = {} /\ ~Seen(n)
        <3>1. LeavingDrops(n)' = {} /\ Seats(n)' # {}
            BY <2>1, <2>3, NoRowNoLeave
        <3> QED
            BY <3>1, FinitelyManyThen
    <2> QED
        BY <2>2, <2>3
<1>6. Accounted'
    BY <1>1, <1>4, StillAccounted
<1>7. LoadsBegin' /\ DropsChecked'
    BY <1>1 DEF BoardInv, LoadsBegin, DropsChecked
<1> QED
    BY <1>3, <1>5, <1>6, <1>7 DEF BoardInv

\* A vote takes her out; nothing is said of her from then on.
LEMMA KeptByExpelling ==
    ASSUME Grid!BoardConstants, BoardInv, NEW t \in Tins, NEW m \in Dragged, Grid!Expel(t, m) PROVE BoardInv'
<1>1. UNCHANGED <<status, screen, load, hand, drop>>
    BY DEF Grid!Expel
<1>2. live' = live \ {<<t, m>>} /\ expelled' = expelled \cup {m}
    BY DEF Grid!Expel
<1>3. BoardTyped'
    <2>1. live' \subseteq {p \in Pairs : status'[p[1]] # "none"}
        BY <1>1, <1>2 DEF BoardInv, BoardTyped
    <2> QED
        BY <1>1, <2>1 DEF BoardInv, BoardTyped, DropKnows
<1>4. \A n \in Dragged \ expelled' : n \in Dragged \ expelled /\ Seats(n)' = Seats(n)
    BY <1>2 DEF Seats
<1>5. \A n \in Dragged : LeavingDrops(n)' = LeavingDrops(n) /\ (Seen(n)' => Seen(n))
    BY <1>1 DEF LeavingDrops, Seen
<1>6. Seated'
    BY <1>4, <1>5 DEF BoardInv, Seated
<1>7. Accounted'
    BY <1>1, <1>2, <1>4, StillAccounted
<1>8. LoadsBegin' /\ DropsChecked'
    BY <1>1 DEF BoardInv, LoadsBegin, DropsChecked
<1> QED
    BY <1>3, <1>6, <1>7, <1>8 DEF BoardInv

-----------------------------------------------------------------------------
(* Loads *)

\* A load, or a screen, that becomes q.
LEMMA OneBoard ==
    ASSUME NEW R, NEW f \in [Boards -> R], NEW b \in Boards, NEW q \in R
    PROVE  /\ [f EXCEPT ![b] = q] \in [Boards -> R]
           /\ [f EXCEPT ![b] = q][b] = q
           /\ \A c \in Boards : c # b => [f EXCEPT ![b] = q][c] = f[c]
OBVIOUS

\* What the load of a board is at first, and when it is over.
LEMMA NothingRead ==
    /\ Grid!Unread \in TinCards
    /\ Grid!NoLoad \in LoadRecord /\ Grid!NoLoad.pc = "idle" /\ Grid!NoLoad.roster = {}
BY DEF Grid!Unread, TinCards, Grid!NoLoad, LoadRecord

\* A load that becomes q, and shows the board no woman in a tin whom it had not
\* or who is in none.
LEMMA LoadStep ==
    ASSUME Grid!BoardConstants, BoardInv, NEW b \in Boards, NEW q \in LoadRecord, NEW s \in ScreenRecord,
           load' = [load EXCEPT ![b] = q], screen' = [screen EXCEPT ![b] = s],
           UNCHANGED <<status, live, hand, drop, expelled>>,
           \A p \in q.roster : q.cards[p[1]] = "forming",
           q.roster \subseteq load[b].roster \union live,
           s.roster \subseteq load[b].roster \union screen[b].roster,
           LoadBegins(q),
           q.pc = "roster" => \A m \in Dragged : m \in q.signups \/ Seats(m) # {}
    PROVE  BoardInv'
<1>1. load \in [Boards -> LoadRecord] /\ screen \in [Boards -> ScreenRecord]
    BY DEF BoardInv, BoardTyped
<1>2. /\ load' \in [Boards -> LoadRecord] /\ screen' \in [Boards -> ScreenRecord]
      /\ load'[b] = q /\ screen'[b] = s
      /\ \A c \in Boards : c # b => load'[c] = load[c] /\ screen'[c] = screen[c]
    BY <1>1, OneBoard
<1>3. BoardTyped'
    <2>1. ASSUME NEW c \in Boards PROVE \A p \in load'[c].roster : load'[c].cards[p[1]] = "forming"
        BY <1>2, <2>1 DEF BoardInv, BoardTyped
    <2> QED
        BY <1>2, <2>1 DEF BoardInv, BoardTyped, DropKnows
<1>4. Seated'
    <2>1. \A m \in Dragged : LeavingDrops(m)' \subseteq LeavingDrops(m)
        BY DEF LeavingDrops
    <2>2. ASSUME NEW m \in Dragged, Seen(m)' PROVE Seen(m) \/ Seats(m) # {}
        <3>1. PICK c \in Boards :
                  \/ \E t \in Tins : <<t, m>> \in load'[c].roster \union screen'[c].roster
                  \/ hand[c].from # None /\ hand[c].member = m
                  \/ drop[c].from # None /\ drop[c].member = m
            BY <2>2 DEF Seen
        <3>2. CASE \/ hand[c].from # None /\ hand[c].member = m
                   \/ drop[c].from # None /\ drop[c].member = m
            BY <3>2 DEF Seen
        <3>3. ASSUME NEW t \in Tins, <<t, m>> \in load'[c].roster \union screen'[c].roster
              PROVE  Seen(m) \/ Seats(m) # {}
            <4>1. <<t, m>> \in load[c].roster \union screen[c].roster \union live
                BY <1>2, <3>3
            <4> QED
                BY <4>1 DEF Seen, Seats
        <3> QED
            BY <3>1, <3>2, <3>3
    <2> QED
        BY <2>1, <2>2, QuietlySeated
<1>5. Accounted'
    <2>1. \A m \in Dragged : Seats(m)' = Seats(m)
        BY DEF Seats
    <2> QED
        BY <1>2, <2>1, StillAccounted
<1>6. LoadsBegin' /\ DropsChecked'
    BY <1>2 DEF BoardInv, LoadsBegin, DropsChecked
<1> QED
    BY <1>3, <1>4, <1>5, <1>6 DEF BoardInv

\* A request that starts, one after the other of its SELECTs, its answer, and
\* its failure.
LEMMA KeptByLoading ==
    ASSUME Grid!BoardConstants, BoardInv, NEW b \in Boards,
           Grid!Reload(b) \/ Grid!ReadContracts(b) \/ Grid!ReadSignups(b) \/ Grid!ReadRoster(b) \/ Grid!Show(b) \/ Grid!LoadFails(b)
    PROVE  BoardInv'
<1>1. /\ load \in [Boards -> LoadRecord] /\ screen \in [Boards -> ScreenRecord]
      /\ load[b] \in LoadRecord /\ screen[b] \in ScreenRecord /\ status \in TinCards
      /\ \A p \in load[b].roster : load[b].cards[p[1]] = "forming"
      /\ live \subseteq Pairs
    BY DEF BoardInv, BoardTyped
<1>2. Grid!NoLoad \in LoadRecord /\ Grid!NoLoad.pc = "idle" /\ Grid!NoLoad.roster = {}
    BY NothingRead
<1>3. [screen EXCEPT ![b] = screen[b]] = screen
    BY <1>1
<1>4. CASE Grid!Reload(b)
    <2> DEFINE q == [Grid!NoLoad EXCEPT !.pc = "contracts"]
               s == [screen[b] EXCEPT !.state = "loading"]
    <2>1. q \in LoadRecord /\ q.roster = {} /\ q.pc # "roster"
        BY <1>2 DEF LoadRecord
    <2>2. s \in ScreenRecord /\ s.roster = screen[b].roster
        BY <1>1 DEF ScreenRecord
    <2>3. load' = [load EXCEPT ![b] = q] /\ screen' = [screen EXCEPT ![b] = s]
        BY <1>1, <1>4 DEF Grid!Reload
    <2>4. UNCHANGED <<status, live, hand, drop, expelled>>
        BY <1>4 DEF Grid!Reload
    <2> HIDE DEF q, s
    <2> QED
        BY <2>1, <2>2, <2>3, <2>4, LoadStep DEF LoadBegins
<1>5. CASE Grid!ReadContracts(b)
    <2> DEFINE q == [load[b] EXCEPT !.pc = "signups", !.cards = status]
    <2>1. load[b].roster = {}
        BY <1>5 DEF Grid!ReadContracts, BoardInv, LoadsBegin, LoadBegins
    <2>2. q \in LoadRecord /\ q.roster = {} /\ q.pc = "signups"
        BY <1>1, <2>1 DEF LoadRecord
    <2>3. load' = [load EXCEPT ![b] = q] /\ UNCHANGED <<status, live, screen, hand, drop, expelled>>
        <3>1. UNCHANGED <<status, live, screen, hand, drop, expelled>>
            BY <1>5 DEF Grid!ReadContracts, Grid!counts
        <3>2. /\ DOMAIN load' = Boards /\ load' = [c \in Boards |-> load'[c]]
              /\ \A c \in Boards : c # b => load'[c] = load[c]
            BY <1>1, <1>5 DEF Grid!ReadContracts
        <3>3. load'[b] = q
            BY <1>1, <1>5 DEF Grid!ReadContracts, LoadRecord
        <3> HIDE DEF q
        <3> QED
            BY <1>1, <3>1, <3>2, <3>3
    <2> HIDE DEF q
    <2>9. screen' = [screen EXCEPT ![b] = screen[b]] /\ UNCHANGED <<status, live, hand, drop, expelled>>
        BY <1>3, <2>3
    <2> QED
        BY <1>1, <2>2, <2>3, <2>9, LoadStep DEF LoadBegins
<1>6. CASE Grid!ReadSignups(b)
    <2> DEFINE waiting == {m \in Dragged : Grid!Waiting(m)}
               q == [load[b] EXCEPT !.pc = IF load[b].cards = Grid!Unread THEN "answer" ELSE "roster",
                                    !.signups = waiting]
    <2>1. waiting \subseteq Dragged /\ \A m \in Dragged : m \in waiting \/ Seats(m) # {}
        BY DEF Grid!Waiting, Seats
    <2>2. UNCHANGED <<status, live, screen, hand, drop, expelled>>
        BY <1>6 DEF Grid!ReadSignups, Grid!counts
    <2>3. load' = [load EXCEPT ![b].pc = IF load[b].cards = Grid!Unread THEN "answer" ELSE "roster",
                               ![b].signups = waiting]
        BY <1>6 DEF Grid!ReadSignups
    <2> HIDE DEF waiting
    <2>4. load' = [load EXCEPT ![b] = q]
        <3>1. /\ DOMAIN load' = Boards /\ load' = [c \in Boards |-> load'[c]]
              /\ \A c \in Boards : c # b => load'[c] = load[c]
            BY <1>1, <2>3
        <3>2. load'[b] = q
            BY <1>1, <2>3 DEF LoadRecord
        <3> HIDE DEF q
        <3> QED
            BY <1>1, <3>1, <3>2
    <2>5. /\ q \in LoadRecord /\ q.roster = load[b].roster /\ q.cards = load[b].cards
          /\ q.signups = waiting /\ q.pc \in {"answer", "roster"}
        BY <1>1, <2>1 DEF LoadRecord
    <2> HIDE DEF q
    <2>9. screen' = [screen EXCEPT ![b] = screen[b]] /\ UNCHANGED <<status, live, hand, drop, expelled>>
        BY <1>3, <2>2
    <2>6. LoadBegins(q) /\ q.roster \subseteq load[b].roster \union live
          /\ \A p \in q.roster : q.cards[p[1]] = "forming"
        BY <1>1, <2>5 DEF LoadBegins
    <2>7. q.pc = "roster" => \A m \in Dragged : m \in q.signups \/ Seats(m) # {}
        BY <2>1, <2>5
    <2> QED
        BY <1>1, <2>4, <2>5, <2>6, <2>7, <2>9, LoadStep
<1>7. CASE Grid!ReadRoster(b)
    <2> DEFINE found == Grid!RosterOf(load[b].cards)
               q == [load[b] EXCEPT !.pc = "answer", !.roster = found]
    <2>1. found \subseteq live /\ \A p \in found : load[b].cards[p[1]] = "forming"
        BY DEF Grid!RosterOf
    <2>2. UNCHANGED <<status, live, screen, hand, drop, expelled>>
        BY <1>7 DEF Grid!ReadRoster, Grid!counts
    <2>3. load' = [load EXCEPT ![b].pc = "answer", ![b].roster = found]
        BY <1>7 DEF Grid!ReadRoster
    <2> HIDE DEF found
    <2>4. load' = [load EXCEPT ![b] = q]
        <3>1. /\ DOMAIN load' = Boards /\ load' = [c \in Boards |-> load'[c]]
              /\ \A c \in Boards : c # b => load'[c] = load[c]
            BY <1>1, <2>3
        <3>2. load'[b] = q
            BY <1>1, <2>3 DEF LoadRecord
        <3> HIDE DEF q
        <3> QED
            BY <1>1, <3>1, <3>2
    <2>5. /\ q \in LoadRecord /\ q.roster = found /\ q.cards = load[b].cards /\ q.pc = "answer"
        BY <1>1, <2>1 DEF LoadRecord
    <2> HIDE DEF q
    <2>9. screen' = [screen EXCEPT ![b] = screen[b]] /\ UNCHANGED <<status, live, hand, drop, expelled>>
        BY <1>3, <2>2
    <2>6. LoadBegins(q) /\ q.roster \subseteq load[b].roster \union live
          /\ \A p \in q.roster : q.cards[p[1]] = "forming"
        BY <2>1, <2>5 DEF LoadBegins
    <2>7. q.pc # "roster"
        BY <2>5
    <2> QED
        BY <1>1, <2>4, <2>5, <2>6, <2>7, <2>9, LoadStep
<1>8. CASE Grid!Show(b)
    <2> DEFINE s == [state |-> "ready", cards |-> load[b].cards,
                     signups |-> load[b].signups, roster |-> load[b].roster]
    <2>1. s \in ScreenRecord /\ s.roster = load[b].roster
        BY <1>1 DEF LoadRecord, ScreenRecord
    <2>2. load' = [load EXCEPT ![b] = Grid!NoLoad] /\ screen' = [screen EXCEPT ![b] = s]
        BY <1>8 DEF Grid!Show
    <2>3. UNCHANGED <<status, live, hand, drop, expelled>>
        BY <1>8 DEF Grid!Show, Grid!counts
    <2> HIDE DEF s
    <2> QED
        BY <1>2, <2>1, <2>2, <2>3, LoadStep DEF LoadBegins
<1>9. CASE Grid!LoadFails(b)
    <2> DEFINE s == [screen[b] EXCEPT !.state = "error"]
    <2>1. s \in ScreenRecord /\ s.roster = screen[b].roster
        BY <1>1 DEF ScreenRecord
    <2>2. load' = [load EXCEPT ![b] = Grid!NoLoad] /\ screen' = [screen EXCEPT ![b] = s]
        BY <1>1, <1>9 DEF Grid!LoadFails
    <2>3. UNCHANGED <<status, live, hand, drop, expelled>>
        BY <1>9 DEF Grid!LoadFails
    <2> HIDE DEF s
    <2> QED
        BY <1>2, <2>1, <2>2, <2>3, LoadStep DEF LoadBegins
<1> QED
    BY <1>4, <1>5, <1>6, <1>7, <1>8, <1>9

-----------------------------------------------------------------------------
(* Drags *)

\* What a board has in hand, or asks of arrange, becomes h and d; no row is
\* written, and her card was in a tin that the board had her in.
LEMMA DragStep ==
    ASSUME Grid!BoardConstants, BoardInv, NEW b \in Boards, NEW h \in HandRecord, NEW d \in DropRecord,
           hand' = [hand EXCEPT ![b] = h], drop' = [drop EXCEPT ![b] = d],
           UNCHANGED <<status, live, screen, expelled>>,
           load' = load \/ load' = [load EXCEPT ![b] = [Grid!NoLoad EXCEPT !.pc = "contracts"]],
           h # Grid!Empty => h.member \in Dragged,
           h.from # None => Seen(h.member),
           DropKnows(d),
           d.from # None => Seen(d.member),
           d.pc = "leave" => drop[b].pc = "leave" /\ d.member = drop[b].member,
           Checked(d, status)
    PROVE  BoardInv'
<1>1. /\ hand \in [Boards -> HandRecord] /\ drop \in [Boards -> DropRecord]
      /\ load \in [Boards -> LoadRecord] /\ screen \in [Boards -> ScreenRecord]
    BY DEF BoardInv, BoardTyped
<1>2. /\ hand' \in [Boards -> HandRecord] /\ drop' \in [Boards -> DropRecord]
      /\ hand'[b] = h /\ drop'[b] = d
      /\ \A c \in Boards : c # b => hand'[c] = hand[c] /\ drop'[c] = drop[c]
    BY <1>1, OneBoard
<1>3. /\ load' \in [Boards -> LoadRecord]
      /\ \A c \in Boards : \/ load'[c] = load[c]
                           \/ load'[c].roster = {} /\ load'[c].pc = "contracts"
    <2> DEFINE q == [Grid!NoLoad EXCEPT !.pc = "contracts"]
    <2>1. q \in LoadRecord /\ q.roster = {} /\ q.pc = "contracts"
        BY NothingRead DEF LoadRecord
    <2>2. CASE load' = load
        BY <1>1, <2>2
    <2>3. CASE load' = [load EXCEPT ![b] = q]
        <3> HIDE DEF q
        <3> QED
            BY <1>1, <2>1, <2>3, OneBoard
    <2> QED
        BY <2>2, <2>3
<1>4. BoardTyped'
    <2>1. ASSUME NEW c \in Boards
          PROVE  /\ \A p \in load'[c].roster : load'[c].cards[p[1]] = "forming"
                 /\ hand'[c] # Grid!Empty => hand'[c].member \in Dragged
                 /\ DropKnows(drop'[c])
        <3>1. \A p \in load'[c].roster : load'[c].cards[p[1]] = "forming"
            BY <1>3 DEF BoardInv, BoardTyped
        <3>2. hand'[c] # Grid!Empty => hand'[c].member \in Dragged
            BY <1>2 DEF BoardInv, BoardTyped
        <3>3. DropKnows(drop'[c])
            BY <1>2 DEF BoardInv, BoardTyped
        <3> QED
            BY <3>1, <3>2, <3>3
    <2> QED
        BY <1>2, <1>3, <2>1 DEF BoardInv, BoardTyped, DropKnows
<1>5. Seated'
    <2>1. \A m \in Dragged : LeavingDrops(m)' \subseteq LeavingDrops(m)
        BY <1>2 DEF LeavingDrops
    <2>2. ASSUME NEW m \in Dragged, Seen(m)' PROVE Seen(m)
        <3>1. PICK c \in Boards :
                  \/ \E t \in Tins : <<t, m>> \in load'[c].roster \union screen'[c].roster
                  \/ hand'[c].from # None /\ hand'[c].member = m
                  \/ drop'[c].from # None /\ drop'[c].member = m
            BY <2>2 DEF Seen
        <3>2. CASE \E t \in Tins : <<t, m>> \in load'[c].roster \union screen'[c].roster
            BY <1>3, <3>2 DEF Seen
        <3>3. CASE hand'[c].from # None /\ hand'[c].member = m
            <4>1. CASE c = b
                BY <1>2, <3>3, <4>1
            <4>2. CASE c # b
                BY <1>2, <3>3, <4>2 DEF Seen
            <4> QED
                BY <4>1, <4>2
        <3>4. CASE drop'[c].from # None /\ drop'[c].member = m
            <4>1. CASE c = b
                BY <1>2, <3>4, <4>1
            <4>2. CASE c # b
                BY <1>2, <3>4, <4>2 DEF Seen
            <4> QED
                BY <4>1, <4>2
        <3> QED
            BY <3>1, <3>2, <3>3, <3>4
    <2> QED
        BY <2>1, <2>2, QuietlySeated
<1>6. Accounted'
    <2>1. \A m \in Dragged : Seats(m)' = Seats(m)
        BY DEF Seats
    <2>2. \A c \in Boards : load'[c].pc = "roster" => load'[c] = load[c]
        BY <1>3
    <2> QED
        BY <2>1, <2>2, StillAccounted
<1>7. LoadsBegin' /\ DropsChecked'
    BY <1>2, <1>3 DEF BoardInv, LoadsBegin, LoadBegins, DropsChecked
<1> QED
    BY <1>4, <1>5, <1>6, <1>7 DEF BoardInv

\* A request that is not under way knows nothing.
LEMMA NothingAsked ==
    ASSUME Grid!BoardConstants
    PROVE  /\ Grid!NoDrop \in DropRecord /\ DropKnows(Grid!NoDrop) /\ Grid!NoDrop.from = None /\ Grid!NoDrop.pc = "idle"
           /\ Checked(Grid!NoDrop, status)
           /\ Grid!Empty \in HandRecord /\ Grid!Empty.from = None
BY DEF Grid!NoDrop, DropRecord, DropKnows, Checked, Grid!Empty, HandRecord

\* A card or a chip is taken.
LEMMA KeptByGrabbing ==
    ASSUME Grid!BoardConstants, BoardInv, NEW b \in Boards, Grid!Grab(b) PROVE BoardInv'
<1>1. /\ screen[b] \in ScreenRecord /\ drop[b] \in DropRecord /\ drop[b].pc = "idle"
      /\ DropKnows(drop[b]) /\ drop \in [Boards -> DropRecord]
    BY DEF BoardInv, BoardTyped, Grid!Grab
<1>2. PICK h \in HandRecord : /\ hand' = [hand EXCEPT ![b] = h]
                              /\ h.member \in Dragged
                              /\ h.from # None => Seen(h.member)
    <2>1. ASSUME NEW m \in screen[b].signups,
                 hand' = [hand EXCEPT ![b] = [member |-> m, from |-> None]]
          PROVE  \E h \in HandRecord : /\ hand' = [hand EXCEPT ![b] = h]
                                       /\ h.member \in Dragged
                                       /\ h.from # None => Seen(h.member)
        <3> DEFINE h == [member |-> m, from |-> None]
        <3>1. h \in HandRecord /\ h.member \in Dragged /\ h.from = None
            BY <1>1 DEF ScreenRecord, HandRecord
        <3>2. hand' = [hand EXCEPT ![b] = h]
            BY <2>1
        <3> HIDE DEF h
        <3> QED
            BY <3>1, <3>2
    <2>2. ASSUME NEW p \in screen[b].roster, NEW from \in Tins \union {None},
                 hand' = [hand EXCEPT ![b] = [member |-> p[2], from |-> from]]
          PROVE  \E h \in HandRecord : /\ hand' = [hand EXCEPT ![b] = h]
                                       /\ h.member \in Dragged
                                       /\ h.from # None => Seen(h.member)
        <3>1. p[1] \in Tins /\ p[2] \in Dragged /\ p = <<p[1], p[2]>>
            BY <1>1 DEF ScreenRecord, Pairs
        <3>2. Seen(p[2])
            BY <3>1 DEF Seen
        <3> DEFINE h == [member |-> p[2], from |-> from]
        <3>3. h \in HandRecord /\ h.member = p[2]
            BY <3>1 DEF HandRecord
        <3>4. hand' = [hand EXCEPT ![b] = h]
            BY <2>2
        <3> HIDE DEF h
        <3> QED
            BY <3>1, <3>2, <3>3, <3>4
    <2> QED
        BY <2>1, <2>2 DEF Grid!Grab
<1>3. drop' = [drop EXCEPT ![b] = drop[b]] /\ load' = load
      /\ UNCHANGED <<status, live, screen, expelled>>
    BY <1>1 DEF Grid!Grab, Grid!counts
<1>4. drop[b].from = None /\ Checked(drop[b], status)
    BY <1>1 DEF DropKnows, Checked
<1> QED
    BY <1>1, <1>2, <1>3, <1>4, DragStep

\* It is let go over a tin.
LEMMA KeptByDropping ==
    ASSUME Grid!BoardConstants, BoardInv, NEW b \in Boards, NEW t \in Tins, Grid!Drop(b, t) PROVE BoardInv'
<1> DEFINE d == [pc |-> "check", member |-> hand[b].member, to |-> t, from |-> hand[b].from]
<1>1. /\ hand[b] \in HandRecord /\ hand[b] # Grid!Empty /\ hand[b].member \in Dragged /\ t # hand[b].from
    BY DEF BoardInv, BoardTyped, Grid!Drop, Grid!CanTake
<1>2. /\ d \in DropRecord /\ DropKnows(d) /\ d.pc = "check"
      /\ d.from = hand[b].from /\ d.member = hand[b].member
    BY <1>1 DEF DropRecord, HandRecord, DropKnows
<1>3. (d.from # None => Seen(d.member)) /\ Checked(d, status)
    BY <1>2 DEF Seen, Checked
<1>4. /\ drop' = [drop EXCEPT ![b] = d] /\ hand' = [hand EXCEPT ![b] = Grid!Empty]
      /\ load' = load /\ UNCHANGED <<status, live, screen, expelled>>
    BY DEF Grid!Drop
<1> HIDE DEF d
<1> QED
    BY <1>2, <1>3, <1>4, DragStep, NothingAsked

\* Arrange refuses, goes on, answers or fails, all without a row.
LEMMA KeptByAnswering ==
    ASSUME Grid!BoardConstants, BoardInv, NEW b \in Boards,
           Grid!DropCheck(b) \/ Grid!DropAnswer(b) \/ Grid!DropFails(b)
    PROVE  BoardInv'
<1>1. /\ drop[b] \in DropRecord /\ DropKnows(drop[b]) /\ drop \in [Boards -> DropRecord]
      /\ hand[b] \in HandRecord /\ hand \in [Boards -> HandRecord]
      /\ hand[b] # Grid!Empty => hand[b].member \in Dragged
    BY DEF BoardInv, BoardTyped
<1>2. /\ hand' = [hand EXCEPT ![b] = hand[b]]
      /\ hand[b].from # None => Seen(hand[b].member)
      /\ UNCHANGED <<status, live, screen, expelled>>
    BY <1>1 DEF Grid!DropCheck, Grid!DropAnswer, Grid!DropFails, Grid!counts, Seen
<1>3. load' = load \/ load' = [load EXCEPT ![b] = [Grid!NoLoad EXCEPT !.pc = "contracts"]]
    BY DEF Grid!DropCheck, Grid!DropAnswer, Grid!DropFails
<1>4. CASE drop' = [drop EXCEPT ![b] = Grid!NoDrop]
    BY <1>1, <1>2, <1>3, <1>4, NothingAsked, DragStep
<1>5. CASE /\ drop[b].pc = "check" /\ status[drop[b].to] = "forming"
           /\ drop' = [drop EXCEPT ![b] = [drop[b] EXCEPT !.pc = "seat"]]
    <2> DEFINE d == [drop[b] EXCEPT !.pc = "seat"]
    <2>1. /\ d \in DropRecord /\ d.pc = "seat" /\ d.member = drop[b].member
          /\ d.from = drop[b].from /\ d.to = drop[b].to
        BY <1>1 DEF DropRecord
    <2>2. drop' = [drop EXCEPT ![b] = d]
        BY <1>5
    <2> HIDE DEF d
    <2>3. DropKnows(d) /\ (d.from # None => Seen(d.member)) /\ Checked(d, status)
        BY <1>1, <1>5, <2>1 DEF DropKnows, Seen, Checked
    <2> QED
        BY <1>1, <1>2, <1>3, <2>1, <2>2, <2>3, DragStep
<1> QED
    BY <1>4, <1>5 DEF Grid!DropCheck, Grid!DropAnswer, Grid!DropFails

\* A request that has written a row becomes d, which is for the same woman and
\* the same tins.
LEMMA WriteStep ==
    ASSUME Grid!BoardConstants, BoardInv, NEW b \in Boards, NEW d \in DropRecord, DropKnows(d), d.pc # "seat",
           d.from = None \/ (d.from = drop[b].from /\ d.member = drop[b].member),
           drop' = [drop EXCEPT ![b] = d],
           UNCHANGED <<status, screen, load, hand, expelled>>,
           live' \subseteq live \union {p \in Pairs : status[p[1]] # "none"}
    PROVE  /\ BoardTyped' /\ LoadsBegin' /\ DropsChecked'
           /\ drop'[b] = d /\ \A c \in Boards : c # b => drop'[c] = drop[c]
           /\ \A m \in Dragged : Seen(m)' => Seen(m)
<1>1. drop \in [Boards -> DropRecord]
    BY DEF BoardInv, BoardTyped
<1>2. /\ drop' \in [Boards -> DropRecord] /\ drop'[b] = d
      /\ \A c \in Boards : c # b => drop'[c] = drop[c]
    BY <1>1, OneBoard
<1>3. BoardTyped'
    <2>1. live' \subseteq {p \in Pairs : status'[p[1]] # "none"}
        BY DEF BoardInv, BoardTyped, Pairs
    <2>2. \A c \in Boards : DropKnows(drop'[c])
        BY <1>2 DEF BoardInv, BoardTyped
    <2> QED
        BY <1>2, <2>1, <2>2 DEF BoardInv, BoardTyped, DropKnows
<1>4. ASSUME NEW m \in Dragged, Seen(m)' PROVE Seen(m)
    <2>1. PICK c \in Boards :
              \/ \E t \in Tins : <<t, m>> \in load[c].roster \union screen[c].roster
              \/ hand[c].from # None /\ hand[c].member = m
              \/ drop'[c].from # None /\ drop'[c].member = m
        BY <1>4 DEF Seen
    <2>2. CASE drop'[c].from # None /\ drop'[c].member = m
        <3>1. CASE c = b
            BY <1>2, <2>2, <3>1 DEF Seen
        <3>2. CASE c # b
            BY <1>2, <2>2, <3>2 DEF Seen
        <3> QED
            BY <3>1, <3>2
    <2> QED
        BY <2>1, <2>2 DEF Seen
<1>5. LoadsBegin' /\ DropsChecked'
    BY <1>2 DEF BoardInv, LoadsBegin, DropsChecked, Checked
<1> QED
    BY <1>2, <1>3, <1>4, <1>5

\* She is put into the tin, and before she leaves the other she is in one more.
LEMMA KeptBySeating ==
    ASSUME Grid!BoardConstants, BoardInv, NEW b \in Boards, Grid!DropSeat(b), <<drop[b].to, drop[b].member>> \notin live
    PROVE  BoardInv'
<1> DEFINE r == drop[b]
           d == [r EXCEPT !.pc = IF r.from = None THEN "answer" ELSE "leave"]
           placed == <<r.to, r.member>>
<1>1. /\ r \in DropRecord /\ DropKnows(r) /\ r.pc = "seat" /\ Checked(r, status)
      /\ drop \in [Boards -> DropRecord]
    BY DEF BoardInv, BoardTyped, Grid!DropSeat, DropsChecked
<1>2. /\ r.to \in Tins /\ r.member \in Dragged /\ placed \in {p \in Pairs : status[p[1]] # "none"}
    BY <1>1 DEF DropKnows, Checked, Pairs
<1>3. /\ d \in DropRecord /\ d.pc \in {"answer", "leave"}
      /\ d.member = r.member /\ d.from = r.from /\ d.to = r.to
      /\ d.pc = "leave" <=> r.from # None
    BY <1>1 DEF DropRecord
<1>4. DropKnows(d)
    BY <1>1, <1>3 DEF DropKnows
<1>5. /\ live' = live \union {placed} /\ placed \notin live
      /\ UNCHANGED <<status, screen, load, hand, expelled>>
    BY DEF Grid!DropSeat, Grid!counts
<1>6. drop' = [drop EXCEPT ![b] = d]
    <2>1. drop' = [drop EXCEPT ![b].pc = IF r.from = None THEN "answer" ELSE "leave"]
        BY DEF Grid!DropSeat
    <2>2. /\ DOMAIN drop' = Boards /\ drop' = [c \in Boards |-> drop'[c]]
          /\ \A c \in Boards : c # b => drop'[c] = drop[c]
        BY <1>1, <2>1
    <2>3. drop'[b] = d
        BY <1>1, <2>1 DEF DropRecord
    <2> HIDE DEF d
    <2> QED
        BY <1>1, <2>2, <2>3
<1> HIDE DEF d
<1>7. /\ BoardTyped' /\ LoadsBegin' /\ DropsChecked'
      /\ drop'[b] = d /\ \A c \in Boards : c # b => drop'[c] = drop[c]
      /\ \A m \in Dragged : Seen(m)' => Seen(m)
    BY <1>2, <1>3, <1>4, <1>5, <1>6, WriteStep
<1> PICK w \in Dragged, t \in Tins : w = r.member /\ t = r.to
    BY <1>2
<1>8. /\ Seats(w)' = Seats(w) \union {t} /\ t \notin Seats(w)
      /\ \A m \in Dragged : m # w => Seats(m)' = Seats(m)
    BY <1>5 DEF Seats
<1>9. /\ LeavingDrops(w)' \subseteq LeavingDrops(w) \union {b}
      /\ r.from = None => LeavingDrops(w)' \subseteq LeavingDrops(w)
      /\ \A m \in Dragged : m # w => LeavingDrops(m)' \subseteq LeavingDrops(m)
    BY <1>3, <1>7 DEF LeavingDrops
<1>10. Seated'
    <2> SUFFICES ASSUME NEW m \in Dragged \ expelled', Seen(m)' \/ Seats(m)' # {}
                 PROVE  Cardinality(LeavingDrops(m)') < Cardinality(Seats(m)')
        BY DEF Seated
    <2>1. m \in Dragged \ expelled
        BY <1>5
    <2>2. CASE m # w
        <3>1. Cardinality(LeavingDrops(m)) < Cardinality(Seats(m))
            BY <1>7, <1>8, <2>1, <2>2 DEF BoardInv, Seated
        <3>2. Cardinality(LeavingDrops(m)') <= Cardinality(LeavingDrops(m))
            BY <1>9, <2>2, FinitelyMany, FS_Subset
        <3> QED
            BY <1>8, <2>2, <3>1, <3>2, FinitelyMany, FinitelyManyThen
    <2>3. CASE m = w
        <3>1. Cardinality(Seats(m)') = Cardinality(Seats(m)) + 1
            <4>1. Cardinality(Seats(m) \union {t}) = Cardinality(Seats(m)) + 1
                BY <1>8, <2>3, FinitelyMany, FS_AddElement
            <4> QED
                BY <1>8, <2>3, <4>1
        <3>2. CASE Seats(m) = {} /\ ~Seen(m)
            <4>1. LeavingDrops(m) = {}
                BY <2>1, <3>2, NoRowNoLeave
            <4>2. r.from = None
                BY <2>3, <3>2 DEF Seen
            <4>3. LeavingDrops(m)' = {}
                BY <1>9, <2>3, <4>1, <4>2
            <4>4. Cardinality(LeavingDrops(m)') = 0
                BY <4>3, FinitelyManyThen
            <4>5. Cardinality(Seats(m)) \in Nat
                BY FinitelyMany
            <4> QED
                BY <3>1, <4>4, <4>5
        <3>3. CASE Seats(m) # {} \/ Seen(m)
            <4>1. Cardinality(LeavingDrops(m)) < Cardinality(Seats(m))
                BY <2>1, <3>3 DEF BoardInv, Seated
            <4>2. /\ IsFiniteSet(LeavingDrops(m) \union {b})
                  /\ Cardinality(LeavingDrops(m) \union {b}) <= Cardinality(LeavingDrops(m)) + 1
                <5>1. IsFiniteSet(LeavingDrops(m)) /\ Cardinality(LeavingDrops(m)) \in Nat
                    BY FinitelyMany
                <5>2. /\ IsFiniteSet(LeavingDrops(m) \union {b})
                      /\ Cardinality(LeavingDrops(m) \union {b}) =
                            IF b \in LeavingDrops(m) THEN Cardinality(LeavingDrops(m))
                                                ELSE Cardinality(LeavingDrops(m)) + 1
                    BY <5>1, FS_AddElement
                <5> QED
                    BY <5>1, <5>2
            <4>3. Cardinality(LeavingDrops(m)') <= Cardinality(LeavingDrops(m) \union {b})
                BY <1>9, <2>3, <4>2, FS_Subset
            <4>4. Cardinality(LeavingDrops(m) \union {b}) \in Nat
                BY <4>2, FS_CardinalityType
            <4> QED
                BY <3>1, <4>1, <4>2, <4>3, <4>4, FinitelyMany, FinitelyManyThen
        <3> QED
            BY <3>2, <3>3
    <2> QED
        BY <2>2, <2>3
<1>11. Accounted'
    <2>1. \A m \in Dragged : Seats(m) # {} => Seats(m)' # {}
        BY <1>5 DEF Seats
    <2> QED
        BY <1>5, <2>1, StillAccounted
<1> QED
    BY <1>7, <1>10, <1>11 DEF BoardInv

\* She is taken out of the tin she was moved from, and is in another.
LEMMA KeptByLeaving ==
    ASSUME Grid!BoardConstants, BoardInv, NEW b \in Boards, Grid!DropLeave(b) PROVE BoardInv'
<1> DEFINE r == drop[b]
           d == [r EXCEPT !.pc = "answer"]
<1>1. /\ r \in DropRecord /\ DropKnows(r) /\ r.pc = "leave"
      /\ drop \in [Boards -> DropRecord]
    BY DEF BoardInv, BoardTyped, Grid!DropLeave
<1>2. r.member \in Dragged /\ r.from \in Tins
    BY <1>1 DEF DropKnows, DropRecord
<1>3. /\ d \in DropRecord /\ d.pc = "answer"
      /\ d.member = r.member /\ d.from = r.from /\ d.to = r.to
    BY <1>1 DEF DropRecord
<1>4. DropKnows(d)
    BY <1>1, <1>3 DEF DropKnows
<1>5. /\ live' = live \ {<<r.from, r.member>>}
      /\ UNCHANGED <<status, screen, load, hand, expelled>>
    BY DEF Grid!DropLeave, Grid!counts
<1>6. drop' = [drop EXCEPT ![b] = d]
    BY <1>1 DEF Grid!DropLeave
<1> HIDE DEF d
<1>7. /\ BoardTyped' /\ LoadsBegin' /\ DropsChecked'
      /\ drop'[b] = d /\ \A c \in Boards : c # b => drop'[c] = drop[c]
      /\ \A m \in Dragged : Seen(m)' => Seen(m)
    BY <1>3, <1>4, <1>5, <1>6, WriteStep
<1> PICK w \in Dragged, t \in Tins : w = r.member /\ t = r.from
    BY <1>2
<1>8. /\ Seats(w)' = Seats(w) \ {t}
      /\ \A m \in Dragged : m # w => Seats(m)' = Seats(m)
    BY <1>5 DEF Seats
<1>9. /\ b \in LeavingDrops(w) /\ LeavingDrops(w)' \subseteq LeavingDrops(w) \ {b}
      /\ \A m \in Dragged : m # w => LeavingDrops(m)' \subseteq LeavingDrops(m)
    BY <1>1, <1>3, <1>7 DEF LeavingDrops
<1>10. ASSUME NEW m \in Dragged \ expelled, Cardinality(LeavingDrops(m)) < Cardinality(Seats(m))
       PROVE  Cardinality(LeavingDrops(m)') < Cardinality(Seats(m)')
    <2>1. CASE m # w
        <3>1. Cardinality(LeavingDrops(m)') <= Cardinality(LeavingDrops(m))
            BY <1>9, <2>1, FinitelyMany, FS_Subset
        <3> QED
            BY <1>8, <1>10, <2>1, <3>1, FinitelyMany, FinitelyManyThen
    <2>2. CASE m = w
        <3>1. /\ IsFiniteSet(LeavingDrops(m) \ {b})
              /\ Cardinality(LeavingDrops(m) \ {b}) = Cardinality(LeavingDrops(m)) - 1
            BY <1>9, <2>2, FinitelyMany, FS_RemoveElement
        <3>2. Cardinality(LeavingDrops(m)') <= Cardinality(LeavingDrops(m)) - 1
            <4>1. Cardinality(LeavingDrops(m)') <= Cardinality(LeavingDrops(m) \ {b})
                BY <1>9, <2>2, <3>1, FS_Subset
            <4> QED
                BY <3>1, <4>1
        <3>3. Cardinality(Seats(m)') >= Cardinality(Seats(m)) - 1
            <4>1. IsFiniteSet(Seats(m)) /\ Cardinality(Seats(m)) \in Nat
                BY FinitelyMany
            <4>2. Cardinality(Seats(m) \ {t}) = IF t \in Seats(m) THEN Cardinality(Seats(m)) - 1
                                                               ELSE Cardinality(Seats(m))
                BY <4>1, FS_RemoveElement
            <4>3. Cardinality(Seats(m)') = Cardinality(Seats(m) \ {t})
                BY <1>8, <2>2
            <4> QED
                BY <4>1, <4>2, <4>3
        <3> QED
            BY <1>10, <3>2, <3>3, FinitelyMany, FinitelyManyThen
    <2> QED
        BY <2>1, <2>2
<1>11. \A m \in Dragged : Seats(m)' \subseteq Seats(m)
    BY <1>8
<1>12. Seated'
    BY <1>5, <1>7, <1>10, <1>11 DEF BoardInv, Seated
<1>13. Accounted'
    <2>1. ASSUME NEW m \in Dragged \ expelled, Seats(m) # {} PROVE Seats(m)' # {}
        <3>1. Cardinality(LeavingDrops(m)) < Cardinality(Seats(m))
            BY <2>1 DEF BoardInv, Seated
        <3>2. Cardinality(LeavingDrops(m)') < Cardinality(Seats(m)')
            BY <1>10, <3>1
        <3> QED
            BY <3>2, FinitelyManyThen
    <2> QED
        BY <1>5, <2>1, StillAccounted
<1> QED
    BY <1>7, <1>12, <1>13 DEF BoardInv

\* She is in by now: the INSERT meets the index, and the request ends.
LEMMA KeptByRefusing ==
    ASSUME Grid!BoardConstants, BoardInv, NEW b \in Boards, Grid!DropSeat(b), <<drop[b].to, drop[b].member>> \in live
    PROVE  BoardInv'
<1>1. /\ hand[b] \in HandRecord /\ hand \in [Boards -> HandRecord]
      /\ hand[b] # Grid!Empty => hand[b].member \in Dragged
      /\ hand[b].from # None => Seen(hand[b].member)
    BY DEF BoardInv, BoardTyped, Seen
<1>2. /\ drop' = [drop EXCEPT ![b] = Grid!NoDrop] /\ hand' = [hand EXCEPT ![b] = hand[b]]
      /\ load' = load /\ UNCHANGED <<status, live, screen, expelled>>
    BY <1>1 DEF Grid!DropSeat, Grid!counts
<1> QED
    BY <1>1, <1>2, NothingAsked, DragStep

-----------------------------------------------------------------------------
(* The board *)

LEMMA BoardStarts == ASSUME Grid!BoardConstants, Grid!Init PROVE BoardInv
<1>1. BoardTyped
    <2>1. status \in TinCards
        BY DEF Grid!Init, TinCards
    <2>2. live \subseteq {p \in Pairs : status[p[1]] # "none"}
        BY DEF Grid!Init, Grid!BoardConstants, Pairs
    <2>3. screen \in [Boards -> ScreenRecord] /\ load \in [Boards -> LoadRecord]
        BY NothingRead DEF Grid!Init, Grid!Blank, ScreenRecord
    <2>4. hand \in [Boards -> HandRecord] /\ drop \in [Boards -> DropRecord]
        BY NothingAsked DEF Grid!Init
    <2>5. ASSUME NEW b \in Boards
          PROVE  /\ \A p \in load[b].roster : load[b].cards[p[1]] = "forming"
                 /\ hand[b] # Grid!Empty => hand[b].member \in Dragged
                 /\ DropKnows(drop[b])
        BY NothingRead, NothingAsked DEF Grid!Init
    <2> QED
        BY <2>1, <2>2, <2>3, <2>4, <2>5 DEF BoardTyped
<1>2. LoadsBegin /\ DropsChecked /\ Accounted
    BY NothingRead, NothingAsked DEF Grid!Init, LoadsBegin, LoadBegins, DropsChecked, Checked, Accounted
<1>3. Seated
    <2>1. ASSUME NEW m \in Dragged PROVE ~Seen(m) /\ LeavingDrops(m) = {}
        BY NothingRead, NothingAsked DEF Grid!Init, Grid!Blank, Seen, LeavingDrops
    <2> QED
        BY <2>1, FinitelyMany DEF Seated
<1> QED
    BY <1>1, <1>2, <1>3 DEF BoardInv

LEMMA BoardSteps == ASSUME Grid!BoardConstants, BoardInv, [Grid!Next]_Grid!boardVars PROVE BoardInv'
<1>1. ASSUME NEW t \in Tins, Grid!Create(t) \/ Grid!Activate(t) PROVE BoardInv'
    BY <1>1, KeptByTins
<1>2. ASSUME NEW t \in Tins, NEW m \in Dragged, Grid!Admit(t, m) PROVE BoardInv'
    BY <1>2, KeptByAdmitting
<1>3. ASSUME NEW t \in Tins, NEW m \in Dragged, Grid!Expel(t, m) PROVE BoardInv'
    BY <1>3, KeptByExpelling
<1>4. ASSUME NEW b \in Boards,
             Grid!Reload(b) \/ Grid!ReadContracts(b) \/ Grid!ReadSignups(b) \/ Grid!ReadRoster(b) \/ Grid!Show(b) \/ Grid!LoadFails(b)
      PROVE  BoardInv'
    BY <1>4, KeptByLoading
<1>5. ASSUME NEW b \in Boards, Grid!Grab(b) PROVE BoardInv'
    BY <1>5, KeptByGrabbing
<1>6. ASSUME NEW b \in Boards, NEW t \in Tins, Grid!Drop(b, t) PROVE BoardInv'
    BY <1>6, KeptByDropping
<1>7. ASSUME NEW b \in Boards, Grid!DropCheck(b) \/ Grid!DropAnswer(b) \/ Grid!DropFails(b) PROVE BoardInv'
    BY <1>7, KeptByAnswering
<1>8. ASSUME NEW b \in Boards, Grid!DropSeat(b) PROVE BoardInv'
    BY <1>8, KeptBySeating, KeptByRefusing
<1>9. ASSUME NEW b \in Boards, Grid!DropLeave(b) PROVE BoardInv'
    BY <1>9, KeptByLeaving
<1>10. CASE UNCHANGED Grid!boardVars
    BY <1>10 DEF Grid!boardVars, BoardInv, BoardTyped, LoadsBegin, DropsChecked, Seated, Accounted,
                 Seen, Seats, LeavingDrops
<1> QED
    BY <1>1, <1>2, <1>3, <1>4, <1>5, <1>6, <1>7, <1>8, <1>9, <1>10 DEF Grid!Next

LEMMA BoardAlways == ASSUME Grid!BoardConstants PROVE Grid!Spec => []BoardInv
<1>1. Grid!Init => BoardInv
    BY BoardStarts
<1>2. BoardInv /\ [Grid!Next]_Grid!boardVars => BoardInv'
    BY BoardSteps
<1> QED
    BY <1>1, <1>2, PTL DEF Grid!Spec

\* Who is accounted for is listed with the roster that is read, or has a tin
\* whose roster is not.
LEMMA NobodyFalls == BoardInv => Grid!NobodyDropsOut
<1> SUFFICES ASSUME BoardInv, NEW b \in Boards, load[b].pc = "roster", NEW m \in Dragged \ expelled
             PROVE  LET l == [load[b] EXCEPT !.roster = Grid!RosterOf(load[b].cards)]
                    IN Grid!Listed(l, m) \/ Grid!Running(l, m) \/ Grid!FoundedSince(l, m)
    BY DEF Grid!NobodyDropsOut
<1> DEFINE q == [load[b] EXCEPT !.roster = Grid!RosterOf(load[b].cards)]
<1>1. q.signups = load[b].signups /\ q.cards = load[b].cards /\ q.roster = Grid!RosterOf(load[b].cards)
    BY DEF BoardInv, BoardTyped, LoadRecord
<1> HIDE DEF q
<1>2. CASE m \in load[b].signups
    BY <1>1, <1>2 DEF Grid!Listed, q
<1>3. CASE Seats(m) # {}
    <2>1. PICK t \in Tins : <<t, m>> \in live
        BY <1>3 DEF Seats
    <2>2. CASE q.cards[t] = "forming"
        <3>1. <<t, m>> \in q.roster
            BY <1>1, <2>1, <2>2 DEF Grid!RosterOf
        <3> QED
            BY <3>1 DEF Grid!Listed, q
    <2>3. CASE q.cards[t] = "active"
        BY <2>1, <2>3 DEF Grid!Running, q
    <2>4. CASE q.cards[t] = "none"
        BY <2>1, <2>4 DEF Grid!FoundedSince, q
    <2>5. q.cards[t] \in {"none", "forming", "active"}
        BY <1>1 DEF BoardInv, BoardTyped, LoadRecord, TinCards
    <2> QED
        BY <2>2, <2>3, <2>4, <2>5
<1> QED
    BY <1>2, <1>3 DEF BoardInv, Accounted

\* GET api/circles: for any organizers, drags, votes and loads that fail, a
\* member whom no vote expels, however she is moved while a load reads, is listed
\* in its answer, or in a tin it shows running, or in one founded since the tins
\* were read.
THEOREM NobodyFallsBetween == ASSUME Grid!BoardConstants PROVE Grid!Spec => []Grid!NobodyDropsOut
<1>1. BoardInv => Grid!NobodyDropsOut
    BY NobodyFalls
<1> QED
    BY <1>1, BoardAlways, PTL

\* The fields as Board has them.
LEMMA BoardTypesHold == BoardInv => Grid!TypeOK
<1> SUFFICES ASSUME BoardInv PROVE Grid!TypeOK
    OBVIOUS
<1>1. ASSUME NEW b \in Boards
      PROVE  /\ screen[b].state \in {"loading", "ready", "error"}
             /\ load[b].pc \in {"idle", "contracts", "signups", "roster", "answer"}
             /\ drop[b].pc \in {"idle", "check", "seat", "leave", "answer"}
             /\ screen[b].roster \cup load[b].roster \subseteq Tins \X Dragged
             /\ \A p \in load[b].roster : load[b].cards[p[1]] = "forming"
             /\ drop[b].pc # "idle" => drop[b].to # drop[b].from
    <2>1. screen[b] \in ScreenRecord /\ load[b] \in LoadRecord /\ drop[b] \in DropRecord
        BY DEF BoardInv, BoardTyped
    <2>2. /\ screen[b].state \in {"loading", "ready", "error"} /\ screen[b].roster \subseteq Pairs
          /\ load[b].pc \in {"idle", "contracts", "signups", "roster", "answer"}
          /\ load[b].roster \subseteq Pairs
          /\ drop[b].pc \in {"idle", "check", "seat", "leave", "answer"}
        BY <2>1 DEF ScreenRecord, LoadRecord, DropRecord
    <2> QED
        BY <2>2 DEF BoardInv, BoardTyped, DropKnows, Pairs
<1> QED
    BY <1>1 DEF BoardInv, BoardTyped, Grid!TypeOK, TinCards, Pairs

\* Board: what the boards show, load, hold and ask for keeps its type.
THEOREM BoardTypes == ASSUME Grid!BoardConstants PROVE Grid!Spec => []Grid!TypeOK
<1>1. BoardInv => Grid!TypeOK
    BY BoardTypesHold
<1> QED
    BY <1>1, BoardAlways, PTL

\* The board of tins as the part of MCOffice: a load leaves out no member whom no
\* vote expels, but one in a tin founded under it (ContractTinsGrid.tsx,
\* api/circles), in the run office's composition.
THEOREM NobodyDropsOutThere == Spec => []NobodyDropsOut
<1> DEFINE Inv == part = "board" => BoardInv
<1>1. Init => Inv
    BY OfficeConstants, BoardStarts DEF Init, OfficeConstants
<1>2. Inv /\ [Next]_vars => Inv'
    <2> SUFFICES ASSUME Inv, [Next]_vars, part' = "board"
                 PROVE  BoardInv'
        OBVIOUS
    <2>1. CASE Next
        <3>1. part = "board" /\ Grid!Next
            BY <2>1 DEF Next, Moves
        <3> QED
            BY <3>1, OfficeConstants, BoardSteps DEF OfficeConstants
    <2>2. CASE UNCHANGED vars
        BY <2>2, OfficeConstants, BoardSteps
        DEF OfficeConstants, vars, board, Grid!boardVars
    <2> QED
        BY <2>1, <2>2
<1>3. Inv => NobodyDropsOut
    BY OfficeConstants, NobodyFalls, BoardTypesHold DEF NobodyDropsOut, OfficeConstants
<1> QED
    BY <1>1, <1>2, <1>3, PTL DEF Spec

-----------------------------------------------------------------------------
(* Support                                                                   *)

Message == [id : Nat, user : Writers, admin : BOOLEAN, day : Nat, meant : Writers \union {None}]
ReplyRecord == [pc : {"idle", "insert", "answer"}, user : Writers \union {None}, meant : Writers \union {None}]

\* TypeOK with the fields of every record.
DeskFields ==
    /\ supportDay \in 1..MaxSupportDay
    /\ thread \subseteq Message /\ IsFiniteSet(thread)
    /\ made \in 0..MaxMessages
    /\ \A m \in thread : m.id \in 1..made /\ m.day \in 1..supportDay
    /\ \A m, n \in thread : m.id = n.id => m = n
    /\ post \in [Windows -> {"idle", "insert", "answer"}]
    /\ header \in Writers \union {None} /\ draft \in Writers \union {None}
    /\ reply \in ReplyRecord

\* What is typed under a name is for her; and so is what was sent.
TypedUnderHerName ==
    /\ header # None /\ draft # None => draft = header
    /\ reply.pc # "idle" => reply.user = reply.meant /\ reply.user # None

WindowsOf(u) == {w \in Windows : w[1] = u}
OfDay(u, d) == {m \in thread : m.user = u /\ ~m.admin /\ m.day = d}
Counted(u) == {w \in WindowsOf(u) : post[w] = "insert"}

\* A message that was counted in is still to come.
TodayCounted ==
    \A u \in Writers :
        Cardinality(OfDay(u, supportDay)) + Cardinality(Counted(u)) < RATE_LIMIT_COUNT + Cardinality(WindowsOf(u))

SupportInv == DeskFields /\ TypedUnderHerName /\ Desk!RepliesWhereWritten /\ TodayCounted /\ Desk!WithinTheDay

-----------------------------------------------------------------------------

LEMMA WindowsFinite ==
    ASSUME Desk!SupportConstants, NEW u \in Writers
    PROVE  IsFiniteSet(WindowsOf(u)) /\ Cardinality(WindowsOf(u)) \in Nat
<1>1. IsFiniteSet(WindowsOf(u))
    BY FS_Subset, SameAtTheDesk DEF WindowsOf, Desk!SupportConstants
<1> QED
    BY <1>1, FS_CardinalityType

\* Fewer messages, fewer windows on their way: the limits hold a fortiori.
LEMMA FewerCount ==
    ASSUME NEW S, NEW T, IsFiniteSet(T), S \subseteq T
    PROVE  IsFiniteSet(S) /\ Cardinality(S) \in Nat /\ Cardinality(T) \in Nat /\ Cardinality(S) <= Cardinality(T)
    BY FS_Subset, FS_CardinalityType

LEMMA CountsFinite ==
    ASSUME Desk!SupportConstants, DeskFields, NEW u \in Writers, NEW d
    PROVE  /\ IsFiniteSet(OfDay(u, d)) /\ Cardinality(OfDay(u, d)) \in Nat
           /\ IsFiniteSet(Counted(u)) /\ Cardinality(Counted(u)) \in Nat
           /\ Cardinality(Counted(u)) <= Cardinality(WindowsOf(u))
           /\ Cardinality(WindowsOf(u)) \in Nat
<1>1. OfDay(u, d) \subseteq thread /\ Counted(u) \subseteq WindowsOf(u)
    BY DEF OfDay, Counted
<1> QED
    BY <1>1, WindowsFinite, FewerCount DEF DeskFields

\* A step by which nobody has more messages, nor more windows counted in.
LEMMA LimitsStay ==
    ASSUME Desk!SupportConstants, DeskFields, TodayCounted, Desk!WithinTheDay,
           supportDay' = supportDay, thread' \subseteq thread,
           \A u \in Writers : Counted(u)' \subseteq Counted(u)
    PROVE  TodayCounted' /\ Desk!WithinTheDay'
<1>1. ASSUME NEW u \in Writers, NEW d
      PROVE  /\ Cardinality(OfDay(u, d)') \in Nat /\ Cardinality(OfDay(u, d)') <= Cardinality(OfDay(u, d))
             /\ Cardinality(Counted(u)') \in Nat /\ Cardinality(Counted(u)') <= Cardinality(Counted(u))
    <2>1. OfDay(u, d)' \subseteq OfDay(u, d)
        BY DEF OfDay
    <2> QED
        BY <2>1, CountsFinite, FewerCount
<1>2. \A u \in Writers : WindowsOf(u)' = WindowsOf(u)
    BY DEF WindowsOf
<1>3. ASSUME NEW u \in Writers
      PROVE  Cardinality(OfDay(u, supportDay)') + Cardinality(Counted(u)') < RATE_LIMIT_COUNT + Cardinality(WindowsOf(u))
    BY <1>1, CountsFinite DEF TodayCounted, Desk!SupportConstants
<1>4. TodayCounted'
    BY <1>2, <1>3 DEF TodayCounted
<1>5. ASSUME NEW u \in Writers, NEW d \in 1..MaxSupportDay
      PROVE  Cardinality({m \in thread' : m.user = u /\ ~m.admin /\ m.day = d})
                < RATE_LIMIT_COUNT + Cardinality({w \in Windows : w[1] = u})
    <2>1. Cardinality(OfDay(u, d)) < RATE_LIMIT_COUNT + Cardinality(WindowsOf(u))
        BY SameAtTheDesk DEF Desk!WithinTheDay, OfDay, WindowsOf
    <2>2. Cardinality(OfDay(u, d)') < RATE_LIMIT_COUNT + Cardinality(WindowsOf(u))
        BY <1>1, <2>1, CountsFinite DEF Desk!SupportConstants
    <2> QED
        BY <2>2 DEF OfDay, WindowsOf
<1> QED
    BY <1>4, <1>5, SameAtTheDesk DEF Desk!WithinTheDay

\* One more message of today, from somebody who is not u or is the operator, or
\* in place of a window that was counted in.
LEMMA LimitsStayByStore ==
    ASSUME Desk!SupportConstants, DeskFields, TodayCounted, Desk!WithinTheDay, UNCHANGED supportDay,
           NEW v \in Writers, NEW admin \in BOOLEAN, NEW meant \in Writers \union {None},
           Desk!Store(v, admin, meant), post' \in [Windows -> {"idle", "insert", "answer"}],
           \A u \in Writers : Counted(u)' \subseteq Counted(u),
           ~admin => \E w \in Counted(v) : Counted(v)' \subseteq Counted(v) \ {w}
    PROVE  TodayCounted' /\ Desk!WithinTheDay'
<1> DEFINE new == [id |-> made + 1, user |-> v, admin |-> admin, day |-> supportDay, meant |-> meant]
<1>1. thread' = thread \union {new}
    BY DEF Desk!Store
<1>2. ASSUME NEW u \in Writers, NEW d, u # v \/ admin \/ d # supportDay PROVE OfDay(u, d)' = OfDay(u, d)
    BY <1>1, <1>2 DEF OfDay
<1>3. CASE admin
    <2>1. ASSUME NEW u \in Writers, NEW d PROVE OfDay(u, d)' = OfDay(u, d)
        BY <1>2, <1>3
    <2>2. ASSUME NEW u \in Writers
          PROVE  Cardinality(OfDay(u, supportDay)') + Cardinality(Counted(u)') < RATE_LIMIT_COUNT + Cardinality(WindowsOf(u))
        <3>1. Cardinality(Counted(u)') \in Nat /\ Cardinality(Counted(u)') <= Cardinality(Counted(u))
            BY CountsFinite, FewerCount
        <3>2. OfDay(u, supportDay)' = OfDay(u, supportDay)
            BY <2>1
        <3> QED
            BY <3>1, <3>2, CountsFinite DEF TodayCounted, Desk!SupportConstants
    <2>3. TodayCounted'
        BY <2>2 DEF TodayCounted, WindowsOf
    <2>4. ASSUME NEW u \in Writers, NEW d \in 1..MaxSupportDay
          PROVE  Cardinality(OfDay(u, d)') < RATE_LIMIT_COUNT + Cardinality(WindowsOf(u))
        <3>1. OfDay(u, d)' = OfDay(u, d)
            BY <2>1
        <3> QED
            BY <3>1, SameAtTheDesk DEF Desk!WithinTheDay, OfDay, WindowsOf
    <2>5. Desk!WithinTheDay'
        BY <2>4, SameAtTheDesk DEF Desk!WithinTheDay, OfDay, WindowsOf
    <2> QED
        BY <2>3, <2>5
<1>4. CASE ~admin
    <2>1. PICK w \in Counted(v) : Counted(v)' \subseteq Counted(v) \ {w}
        BY <1>4
    <2>2. /\ IsFiniteSet(Counted(v) \ {w}) /\ Cardinality(Counted(v) \ {w}) = Cardinality(Counted(v)) - 1
        BY <2>1, CountsFinite, FS_RemoveElement
    <2>3. Cardinality(Counted(v)') \in Nat /\ Cardinality(Counted(v)') <= Cardinality(Counted(v)) - 1
        BY <2>1, <2>2, FewerCount, CountsFinite
    <2>4. OfDay(v, supportDay)' \subseteq OfDay(v, supportDay) \union {new} /\ IsFiniteSet(OfDay(v, supportDay) \union {new})
          /\ Cardinality(OfDay(v, supportDay) \union {new}) <= Cardinality(OfDay(v, supportDay)) + 1
        <3>1. OfDay(v, supportDay)' \subseteq OfDay(v, supportDay) \union {new}
            BY <1>1 DEF OfDay
        <3>2. IsFiniteSet(OfDay(v, supportDay)) /\ Cardinality(OfDay(v, supportDay)) \in Nat
            BY CountsFinite
        <3> HIDE DEF new
        <3>3. /\ IsFiniteSet(OfDay(v, supportDay) \union {new})
              /\ \/ Cardinality(OfDay(v, supportDay) \union {new}) = Cardinality(OfDay(v, supportDay))
                 \/ Cardinality(OfDay(v, supportDay) \union {new}) = Cardinality(OfDay(v, supportDay)) + 1
            BY <3>2, FS_AddElement
        <3> QED
            BY <3>1, <3>2, <3>3
    <2>5. Cardinality(OfDay(v, supportDay)') \in Nat /\ Cardinality(OfDay(v, supportDay)') <= Cardinality(OfDay(v, supportDay)) + 1
        BY <2>4, FewerCount, CountsFinite, FS_CardinalityType
    <2>6. ASSUME NEW u \in Writers
          PROVE  Cardinality(OfDay(u, supportDay)') + Cardinality(Counted(u)') < RATE_LIMIT_COUNT + Cardinality(WindowsOf(u))
        <3>1. CASE u = v
            BY <2>3, <2>5, <3>1, CountsFinite DEF TodayCounted, Desk!SupportConstants
        <3>2. CASE u # v
            <4>1. Cardinality(Counted(u)') \in Nat /\ Cardinality(Counted(u)') <= Cardinality(Counted(u))
                BY CountsFinite, FewerCount
            <4>2. OfDay(u, supportDay)' = OfDay(u, supportDay)
                BY <1>2, <3>2
            <4> QED
                BY <4>1, <4>2, CountsFinite DEF TodayCounted, Desk!SupportConstants
        <3> QED
            BY <3>1, <3>2
    <2>7. TodayCounted'
        BY <2>6 DEF TodayCounted, WindowsOf
    <2>8. ASSUME NEW u \in Writers, NEW d \in 1..MaxSupportDay
          PROVE  Cardinality(OfDay(u, d)') < RATE_LIMIT_COUNT + Cardinality(WindowsOf(u))
        <3>1. CASE d = supportDay
            <4>1. Cardinality(OfDay(u, supportDay)') + Cardinality(Counted(u)') < RATE_LIMIT_COUNT + Cardinality(WindowsOf(u))
                BY <2>6
            <4>2. Cardinality(OfDay(u, supportDay)') \in Nat /\ Cardinality(Counted(u)') \in Nat
                <5>1. OfDay(u, supportDay)' \subseteq thread' /\ IsFiniteSet(thread')
                    <6>1. IsFiniteSet(thread')
                        BY <1>1, FS_AddElement DEF DeskFields
                    <6> QED
                        BY <6>1 DEF OfDay
                <5> QED
                    BY <5>1, CountsFinite, FewerCount
            <4>3. OfDay(u, d)' = OfDay(u, supportDay)'
                BY <3>1 DEF OfDay
            <4> QED
                BY <4>1, <4>2, <4>3, WindowsFinite DEF Desk!SupportConstants
        <3>2. CASE d # supportDay
            <4>1. OfDay(u, d)' = OfDay(u, d)
                BY <1>2, <3>2
            <4> QED
                BY <4>1, SameAtTheDesk DEF Desk!WithinTheDay, OfDay, WindowsOf
        <3> QED
            BY <3>1, <3>2
    <2>9. Desk!WithinTheDay'
        BY <2>8, SameAtTheDesk DEF Desk!WithinTheDay, OfDay, WindowsOf
    <2> QED
        BY <2>7, <2>9
<1> QED
    BY <1>3, <1>4

\* A message under the name it was meant for keeps the fields.
LEMMA FieldsStayByStore ==
    ASSUME Desk!SupportConstants, DeskFields, Desk!RepliesWhereWritten, UNCHANGED supportDay,
           NEW v \in Writers, NEW admin \in BOOLEAN, NEW meant \in Writers \union {None},
           Desk!Store(v, admin, meant), admin => v = meant
    PROVE  /\ thread' \subseteq Message /\ IsFiniteSet(thread') /\ made' \in 0..MaxMessages
           /\ \A m \in thread' : m.id \in 1..made' /\ m.day \in 1..supportDay
           /\ \A m, n \in thread' : m.id = n.id => m = n
           /\ Desk!RepliesWhereWritten'
<1> DEFINE new == [id |-> made + 1, user |-> v, admin |-> admin, day |-> supportDay, meant |-> meant]
<1>1. thread' = thread \union {new} /\ made' = made + 1 /\ made < MaxMessages
    BY DEF Desk!Store
<1>2. /\ new \in Message /\ new.id = made + 1 /\ new.day = supportDay /\ new.admin = admin
      /\ new.user = v /\ new.meant = meant /\ supportDay \in 1..supportDay
    BY DEF DeskFields, Message, Desk!SupportConstants
<1> HIDE DEF new
<1>3. IsFiniteSet(thread')
    BY <1>1, FS_AddElement DEF DeskFields
<1>4. made' \in 0..MaxMessages /\ \A m \in thread' : m.id \in 1..made' /\ m.day \in 1..supportDay
    BY <1>1, <1>2 DEF DeskFields, Desk!SupportConstants
<1>5. \A m, n \in thread' : m.id = n.id => m = n
    BY <1>1, <1>2 DEF DeskFields
<1> QED
    BY <1>1, <1>2, <1>3, <1>4, <1>5 DEF DeskFields, Desk!RepliesWhereWritten

-----------------------------------------------------------------------------
(* The steps                                                                 *)

LEMMA KeptByMidnight == ASSUME Desk!SupportConstants, SupportInv, Desk!Midnight PROVE SupportInv'
<1>1. DeskFields'
    BY DEF SupportInv, DeskFields, Desk!Midnight, Desk!screen, Desk!SupportConstants
<1>2. TypedUnderHerName' /\ Desk!RepliesWhereWritten'
    BY DEF SupportInv, TypedUnderHerName, Desk!RepliesWhereWritten, Desk!Midnight, Desk!screen
<1>3. Desk!WithinTheDay'
    BY SameAtTheDesk DEF SupportInv, Desk!WithinTheDay, Desk!Midnight
<1>4. ASSUME NEW u \in Writers
      PROVE  Cardinality(OfDay(u, supportDay)') + Cardinality(Counted(u)') < RATE_LIMIT_COUNT + Cardinality(WindowsOf(u))
    <2>1. OfDay(u, supportDay)' = {}
        BY DEF SupportInv, DeskFields, OfDay, Desk!Midnight, Desk!SupportConstants
    <2>2. Counted(u)' = Counted(u)
        BY DEF Counted, WindowsOf, Desk!Midnight
    <2> QED
        BY <2>1, <2>2, CountsFinite, FS_EmptySet DEF SupportInv, Desk!SupportConstants
<1>5. TodayCounted'
    BY <1>4 DEF TodayCounted, WindowsOf
<1> QED
    BY <1>1, <1>2, <1>3, <1>5 DEF SupportInv

LEMMA KeptByPostCount ==
    ASSUME Desk!SupportConstants, SupportInv, NEW t \in Windows, Desk!PostCount(t) PROVE SupportInv'
<1>1. DeskFields'
    BY DEF SupportInv, DeskFields, Desk!PostCount, Desk!screen
<1>2. TypedUnderHerName' /\ Desk!RepliesWhereWritten' /\ Desk!WithinTheDay'
    BY SameAtTheDesk DEF SupportInv, TypedUnderHerName, Desk!RepliesWhereWritten, Desk!WithinTheDay, Desk!PostCount, Desk!screen
<1>3. ASSUME NEW u \in Writers
      PROVE  Cardinality(OfDay(u, supportDay)') + Cardinality(Counted(u)') < RATE_LIMIT_COUNT + Cardinality(WindowsOf(u))
    <2>1. OfDay(u, supportDay)' = OfDay(u, supportDay)
        BY DEF OfDay, Desk!PostCount
    <2>2. CASE u = t[1]
        <3>1. Cardinality(OfDay(u, supportDay)) < RATE_LIMIT_COUNT
            BY <2>2, SameAtTheDesk DEF Desk!PostCount, Desk!UnderLimit, Desk!Recent, OfDay
        <3>2. Counted(u)' \subseteq WindowsOf(u)
            BY DEF Counted, WindowsOf
        <3>3. Cardinality(Counted(u)') \in Nat /\ Cardinality(Counted(u)') <= Cardinality(WindowsOf(u))
            BY <3>2, WindowsFinite, FewerCount
        <3> QED
            BY <2>1, <3>1, <3>3, CountsFinite, WindowsFinite DEF SupportInv, Desk!SupportConstants
    <2>3. CASE u # t[1]
        <3>1. Counted(u)' = Counted(u)
            BY <2>3 DEF SupportInv, DeskFields, Counted, WindowsOf, Desk!PostCount
        <3> QED
            BY <2>1, <3>1 DEF SupportInv, TodayCounted
    <2> QED
        BY <2>2, <2>3
<1>4. TodayCounted'
    BY <1>3 DEF TodayCounted, WindowsOf
<1> QED
    BY <1>1, <1>2, <1>4 DEF SupportInv

LEMMA KeptByPostInsert ==
    ASSUME Desk!SupportConstants, SupportInv, NEW t \in Windows, Desk!PostInsert(t) PROVE SupportInv'
<1>1. /\ t[1] \in Writers /\ Desk!Store(t[1], FALSE, None) /\ UNCHANGED supportDay
      /\ post' = [post EXCEPT ![t] = "answer"] /\ post[t] = "insert"
    BY DEF Desk!PostInsert, Desk!SupportConstants
<1>2. post' \in [Windows -> {"idle", "insert", "answer"}]
    BY <1>1 DEF SupportInv, DeskFields
<1>3. /\ \A u \in Writers : Counted(u)' \subseteq Counted(u)
      /\ t \in Counted(t[1]) /\ Counted(t[1])' \subseteq Counted(t[1]) \ {t}
    BY <1>1 DEF SupportInv, DeskFields, Counted, WindowsOf
<1>4. TodayCounted' /\ Desk!WithinTheDay'
    BY <1>1, <1>2, <1>3, LimitsStayByStore DEF SupportInv
<1>5. DeskFields' /\ Desk!RepliesWhereWritten'
    BY <1>1, <1>2, FieldsStayByStore DEF SupportInv, DeskFields, Desk!PostInsert, Desk!screen
<1>6. TypedUnderHerName'
    BY DEF SupportInv, TypedUnderHerName, Desk!PostInsert, Desk!screen
<1> QED
    BY <1>4, <1>5, <1>6 DEF SupportInv

LEMMA KeptByReplyInsert == ASSUME Desk!SupportConstants, SupportInv, Desk!ReplyInsert PROVE SupportInv'
<1>1. /\ reply \in ReplyRecord /\ reply.user = reply.meant /\ reply.user \in Writers
      /\ Desk!Store(reply.user, TRUE, reply.meant) /\ UNCHANGED <<supportDay, post>>
      /\ reply' = [reply EXCEPT !.pc = "answer"]
    BY DEF SupportInv, DeskFields, TypedUnderHerName, Desk!ReplyInsert, ReplyRecord
<1>2. \A u \in Writers : Counted(u)' \subseteq Counted(u)
    BY <1>1 DEF Counted, WindowsOf
<1>3. TodayCounted' /\ Desk!WithinTheDay'
    BY <1>1, <1>2, LimitsStayByStore DEF SupportInv, DeskFields, ReplyRecord
<1>4. reply' \in ReplyRecord /\ reply'.user = reply.user /\ reply'.meant = reply.meant
    BY <1>1 DEF ReplyRecord
<1>5. DeskFields' /\ Desk!RepliesWhereWritten'
    BY <1>1, <1>4, FieldsStayByStore DEF SupportInv, DeskFields, Desk!ReplyInsert
<1>6. TypedUnderHerName'
    BY <1>1, <1>4 DEF SupportInv, TypedUnderHerName, Desk!ReplyInsert
<1> QED
    BY <1>3, <1>5, <1>6 DEF SupportInv

\* What neither stores nor counts.
LEMMA KeptByOthers ==
    ASSUME Desk!SupportConstants, SupportInv,
           \/ \E t \in Windows : Desk!PostAnswer(t) \/ Desk!PostFails(t)
           \/ \E u \in Writers : Desk!OpenThread(u)
           \/ Desk!Close \/ Desk!Type \/ Desk!Send \/ Desk!ReplyAnswer \/ Desk!ReplyFails
           \/ \E m \in thread : Desk!Delete(m)
    PROVE  SupportInv'
<1>1. /\ supportDay' = supportDay /\ made' = made /\ thread' \subseteq thread
      /\ \/ post' = post
         \/ \E t \in Windows : post' = [post EXCEPT ![t] = "idle"]
    BY DEF Desk!PostAnswer, Desk!PostFails, Desk!OpenThread, Desk!Close, Desk!Type, Desk!Send, Desk!ReplyAnswer, Desk!ReplyFails, Desk!Delete
<1>2. \A u \in Writers : Counted(u)' \subseteq Counted(u)
    BY <1>1 DEF SupportInv, DeskFields, Counted, WindowsOf
<1>3. TodayCounted' /\ Desk!WithinTheDay'
    BY <1>1, <1>2, LimitsStay DEF SupportInv
<1>4. IsFiniteSet(thread')
    BY <1>1, FS_Subset DEF SupportInv, DeskFields
<1>5. /\ header' \in Writers \union {None} /\ draft' \in Writers \union {None}
      /\ reply' \in ReplyRecord /\ TypedUnderHerName'
    <2>1. CASE UNCHANGED Desk!screen
        BY <2>1 DEF SupportInv, DeskFields, TypedUnderHerName, Desk!screen
    <2>2. CASE (\E u \in Writers : Desk!OpenThread(u)) \/ Desk!Close \/ Desk!Type
        BY <2>2 DEF SupportInv, DeskFields, TypedUnderHerName, Desk!OpenThread, Desk!OpenedEmpty, Desk!Close, Desk!Type
    <2>3. CASE Desk!Send
        BY <2>3 DEF SupportInv, DeskFields, TypedUnderHerName, Desk!Send, ReplyRecord
    <2>4. CASE Desk!ReplyAnswer \/ Desk!ReplyFails
        BY <2>4 DEF SupportInv, DeskFields, TypedUnderHerName, Desk!ReplyAnswer, Desk!ReplyFails, Desk!NoReply, ReplyRecord
    <2> QED
        BY <2>1, <2>2, <2>3, <2>4 DEF Desk!PostAnswer, Desk!PostFails, Desk!Delete
<1>6. DeskFields' /\ Desk!RepliesWhereWritten'
    BY <1>1, <1>4, <1>5 DEF SupportInv, DeskFields, Desk!RepliesWhereWritten
<1> QED
    BY <1>3, <1>5, <1>6 DEF SupportInv

LEMMA NothingSaidYet == Desk!SupportConstants /\ Desk!Init => SupportInv
<1> SUFFICES ASSUME Desk!SupportConstants, Desk!Init PROVE SupportInv
    OBVIOUS
<1>1. DeskFields
    BY FS_EmptySet DEF Desk!Init, DeskFields, ReplyRecord, Desk!NoReply, Desk!SupportConstants
<1>2. TypedUnderHerName /\ Desk!RepliesWhereWritten
    BY DEF Desk!Init, TypedUnderHerName, Desk!RepliesWhereWritten, Desk!NoReply
<1>3. ASSUME NEW u \in Writers, NEW d PROVE OfDay(u, d) = {} /\ Counted(u) = {}
    BY DEF Desk!Init, OfDay, Counted, WindowsOf
<1>4. TodayCounted
    <2> SUFFICES ASSUME NEW u \in Writers
                 PROVE  Cardinality(OfDay(u, supportDay)) + Cardinality(Counted(u))
                            < RATE_LIMIT_COUNT + Cardinality(WindowsOf(u))
        BY DEF TodayCounted
    <2>1. Cardinality(OfDay(u, supportDay)) = 0 /\ Cardinality(Counted(u)) = 0
        BY <1>3, FS_EmptySet
    <2> QED
        BY <2>1, WindowsFinite DEF Desk!SupportConstants
<1>5. ASSUME NEW u \in Writers, NEW d PROVE Cardinality(OfDay(u, d)) < RATE_LIMIT_COUNT + Cardinality(WindowsOf(u))
    <2>1. Cardinality(OfDay(u, d)) = 0
        BY <1>3, FS_EmptySet
    <2>2. Cardinality(WindowsOf(u)) \in Nat
        BY WindowsFinite
    <2> QED
        BY <2>1, <2>2 DEF Desk!SupportConstants
<1>6. Desk!WithinTheDay
    BY <1>5, SameAtTheDesk DEF Desk!WithinTheDay, OfDay, WindowsOf
<1> QED
    BY <1>1, <1>2, <1>4, <1>6 DEF SupportInv

LEMMA SupportSteps == Desk!SupportConstants /\ SupportInv /\ [Desk!Next]_Desk!supportVars => SupportInv'
<1> SUFFICES ASSUME Desk!SupportConstants, SupportInv, [Desk!Next]_Desk!supportVars PROVE SupportInv'
    OBVIOUS
<1>1. CASE Desk!Next
    BY <1>1, KeptByMidnight, KeptByPostCount, KeptByPostInsert, KeptByReplyInsert, KeptByOthers DEF Desk!Next
<1>2. CASE UNCHANGED Desk!supportVars
    <2>1. DeskFields' /\ TypedUnderHerName' /\ Desk!RepliesWhereWritten'
        BY <1>2 DEF SupportInv, Desk!supportVars, DeskFields, TypedUnderHerName, Desk!RepliesWhereWritten
    <2>2. \A u \in Writers : Counted(u)' \subseteq Counted(u)
        BY <1>2 DEF Desk!supportVars, Counted, WindowsOf
    <2>3. TodayCounted' /\ Desk!WithinTheDay'
        BY <1>2, <2>2, LimitsStay DEF SupportInv, Desk!supportVars
    <2> QED
        BY <2>1, <2>3 DEF SupportInv
<1> QED
    BY <1>1, <1>2

LEMMA SupportSafe == SupportInv => Desk!TypeOK /\ Desk!RepliesWhereWritten /\ Desk!WithinTheDay
    BY DEF SupportInv, DeskFields, Message, ReplyRecord, Desk!TypeOK

\* The support desk (api/support, admin/support.astro): for any users, windows,
\* operators' tabs and failures, a reply is stored for the user under whose name
\* it was typed, however threads are opened while an earlier one is on its way;
\* and her messages of a day pass the limit by her windows sending at once only.
THEOREM RepliesReachWhomTheyName ==
    ASSUME Desk!SupportConstants
    PROVE  Desk!Spec => [](Desk!TypeOK /\ Desk!RepliesWhereWritten /\ Desk!WithinTheDay)
<1>1. Desk!Init => SupportInv
    BY NothingSaidYet
<1>2. SupportInv /\ [Desk!Next]_Desk!supportVars => SupportInv'
    BY SupportSteps
<1> QED
    BY <1>1, <1>2, SupportSafe, PTL DEF Desk!Spec

\* The support desk as the part of MCOffice: replies reach whom they name and the
\* limit of a day holds (api/support), in the run office's composition.
THEOREM RepliesReachThere == Spec => []RepliesWhereWritten
<1> DEFINE Inv == part = "support" => SupportInv
<1>1. Init => Inv
    BY OfficeConstants, NothingSaidYet DEF Init, OfficeConstants
<1>2. Inv /\ [Next]_vars => Inv'
    <2> SUFFICES ASSUME Inv, [Next]_vars, part' = "support"
                 PROVE  SupportInv'
        OBVIOUS
    <2>1. CASE Next
        <3>1. part = "support" /\ Desk!Next
            BY <2>1 DEF Next, Moves
        <3> QED
            BY <3>1, OfficeConstants, SupportSteps DEF OfficeConstants
    <2>2. CASE UNCHANGED vars
        BY <2>2, OfficeConstants, SupportSteps
        DEF OfficeConstants, vars, support, Desk!supportVars
    <2> QED
        BY <2>1, <2>2
<1>3. Inv => RepliesWhereWritten
    BY OfficeConstants, SupportSafe DEF RepliesWhereWritten, OfficeConstants
<1> QED
    BY <1>1, <1>2, <1>3, PTL DEF Spec
===============================================================================
