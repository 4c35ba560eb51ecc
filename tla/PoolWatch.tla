------------------------------- MODULE PoolWatch -------------------------------
(***************************************************************************)
(* The daily look for somebody who pools the members' money                *)
(* (lib/circles/poolWatch.ts, api/cron/pool-watch.ts) and the operator who *)
(* accepts an explanation (api/admin/pool-alerts.ts).                      *)
(*                                                                         *)
(* A pass lists the members once and then asks the explorer about one      *)
(* wallet after the other; meanwhile wallets are re-set, money moves and,  *)
(* since the workflow's curl retries after a timeout, another pass runs.   *)
(* One programme: a pass takes them one by one and compares within each.   *)
(* A member's wallet_address and payout_address are always written         *)
(* together, and unique, so that the first check (two members with one     *)
(* address) has nothing to find and is left out.                           *)
(***************************************************************************)
EXTENDS Integers, FiniteSets

CONSTANTS
    Members,
    Wallets,        \* addresses a member may have
    First,          \* the one each has at the beginning, if any
    Order,          \* when each was last updated, the beginning being 0
    Elsewhere,      \* addresses that are nobody's
    None,
    Passes,
    Threshold,      \* SINK_THRESHOLD
    Scanned,        \* MAX_MEMBERS_SCANNED
    MaxTransfers, MaxChanges, MaxFailures    \* bounds

PoolConstants ==
    /\ IsFiniteSet(Members)
    /\ First \in [Members -> Wallets \union {None}]
    /\ Order \in [Members -> Int] /\ \A m \in Members : Order[m] <= 0
    /\ \A m, n \in Members : Order[m] = Order[n] => m = n
    /\ \A m, n \in Members : First[m] = First[n] /\ First[m] # None => m = n
    /\ Threshold \in Nat \ {0}
    /\ Scanned \in Nat
    /\ Wallets \intersect Elsewhere = {} /\ None \notin Wallets \union Elsewhere

Addresses == Wallets \union Elsewhere

VARIABLES
    address,        \* members.wallet_address = payout_address
    updated,        \* members.updated_at: after how many changes
    paid,           \* who has paid whom on the chain, as [from, to] (external)
    pass,
    alerts,         \* pool_alerts, kind common_sink
    changes, failures

poolVars == <<address, updated, paid, pass, alerts, changes, failures>>

Asleep == [pc |-> "idle", todo |-> {}, payouts |-> {}, sinks |-> {},
           known |-> {}, asked |-> {}]
NoAlert == [count |-> 0, explained |-> FALSE]

TypeOK ==
    /\ address \in [Members -> Wallets \union {None}]
    /\ updated \in [Members -> Int]
    /\ paid \subseteq [from : Wallets, to : Addresses]
    /\ \A p \in Passes :
        /\ pass[p].pc \in {"idle", "scan"}
        /\ pass[p].todo \subseteq [who : Members, wallet : Wallets, at : Int]
        /\ pass[p].sinks \subseteq (Addresses \X Members)
    /\ \A a \in Addresses : alerts[a].count \in 0..Cardinality(Members)

Init ==
    /\ address = First
    /\ updated = Order
    /\ paid = {}
    /\ pass = [p \in Passes |-> Asleep]
    /\ alerts = [a \in Addresses |-> NoAlert]
    /\ changes = 0 /\ failures = 0

-----------------------------------------------------------------------------
(* The members                                                             *)

\* A stablecoin transfer from her wallet, to another member or out.
Transfer(m, to) ==
    /\ Cardinality(paid) < MaxTransfers
    /\ address[m] \notin {None, to}
    /\ paid' = paid \union {[from |-> address[m], to |-> to]}
    /\ UNCHANGED <<address, updated, pass, alerts, changes, failures>>

\* me/address.ts, circles/member-address.ts; members_tenant_wallet_uniq.
SetAddress(m, a) ==
    /\ changes < MaxChanges
    /\ a # None => \A n \in Members : address[n] # a
    /\ a # address[m]
    /\ address' = [address EXCEPT ![m] = a]
    /\ changes' = changes + 1
    /\ updated' = [updated EXCEPT ![m] = changes']
    /\ UNCHANGED <<paid, pass, alerts, failures>>

-----------------------------------------------------------------------------
(* runPoolWatch                                                            *)

\* ORDER BY updated_at DESC LIMIT MAX_MEMBERS_SCANNED
Listed == {m \in Members : Cardinality({n \in Members : updated[n] > updated[m]}) < Scanned}

Row(m) == [who |-> m, wallet |-> address[m], at |-> updated[m]]

\* The list: whom to ask about, and where a transfer may go without a word.
Start(p) ==
    /\ pass[p].pc = "idle"
    /\ \E m \in Members : address[m] # None
    /\ LET withWallet == {m \in Listed : address[m] # None} IN
        pass' = [pass EXCEPT ![p] =
            [Asleep EXCEPT !.pc = "scan",
                           !.todo = {Row(m) : m \in withWallet},
                           !.payouts = {address[m] : m \in withWallet},
                           !.known = paid]]
    /\ UNCHANGED <<address, updated, paid, alerts, changes, failures>>

\* What her wallet sent, but for payments to a member.
Fed(p, r) == {t.to : t \in {u \in paid : u.from = r.wallet}} \ pass[p].payouts

\* The row whose turn it is.
Turn(p, r) ==
    /\ pass[p].pc = "scan"
    /\ r \in pass[p].todo /\ \A q \in pass[p].todo : q.at <= r.at

LookedUp(p, r) ==
    [pass[p] EXCEPT !.todo = @ \ {r},
                    !.sinks = @ \union (Fed(p, r) \X {r.who}),
                    !.asked = @ \union {r}]

Lookup(p) ==
    \E r \in pass[p].todo :
        /\ Turn(p, r)
        /\ pass' = [pass EXCEPT ![p] = LookedUp(p, r)]
        /\ UNCHANGED <<address, updated, paid, alerts, changes, failures>>

\* The explorer fails on one wallet: an error in the report, and the next one.
LookupFails(p) ==
    /\ failures < MaxFailures
    /\ failures' = failures + 1
    /\ \E r \in pass[p].todo : Turn(p, r) /\ pass' = [pass EXCEPT ![p].todo = @ \ {r}]
    /\ UNCHANGED <<address, updated, paid, alerts, changes>>

Senders(sinks, a) == {m \in Members : <<a, m>> \in sinks}

\* Mutant: more than SINK_THRESHOLD.
FoundAbove(sinks) == {a \in Addresses : Cardinality(Senders(sinks, a)) > Threshold}

Found(sinks) == {a \in Addresses : Cardinality(Senders(sinks, a)) >= Threshold}

Through(p) == pass[p].pc = "scan" /\ pass[p].todo = {}

\* One upsert per finding; what has been explained stays explained.
Record(p, a) ==
    /\ Through(p)
    /\ a \in Found(pass[p].sinks)
    /\ alerts' = [alerts EXCEPT ![a].count = Cardinality(Senders(pass[p].sinks, a))]
    /\ pass' = [pass EXCEPT ![p].sinks = @ \ ({a} \X Members)]
    /\ UNCHANGED <<address, updated, paid, changes, failures>>

Done(p) == Through(p) /\ Found(pass[p].sinks) = {}

Answer(p) ==
    /\ Done(p)
    /\ pass' = [pass EXCEPT ![p] = Asleep]
    /\ UNCHANGED <<address, updated, paid, alerts, changes, failures>>

\* The request dies: nothing is recorded before the loop is through.
Dies(p) ==
    /\ pass[p].pc # "idle"
    /\ failures < MaxFailures
    /\ failures' = failures + 1
    /\ pass' = [pass EXCEPT ![p] = Asleep]
    /\ UNCHANGED <<address, updated, paid, alerts, changes>>

\* An operator accepts an explanation: resolved_at, once.
Explain(a) ==
    /\ alerts[a].count > 0 /\ ~alerts[a].explained
    /\ alerts' = [alerts EXCEPT ![a].explained = TRUE]
    /\ UNCHANGED <<address, updated, paid, pass, changes, failures>>

Next ==
    \/ \E m \in Members : \/ \E to \in Addresses : Transfer(m, to)
                          \/ \E a \in Wallets \union {None} : SetAddress(m, a)
    \/ \E p \in Passes : \/ Start(p) \/ Lookup(p) \/ LookupFails(p)
                         \/ Answer(p) \/ Dies(p)
                         \/ \E a \in Addresses : Record(p, a)
    \/ \E a \in Addresses : Explain(a)

Spec == Init /\ [][Next]_poolVars

-----------------------------------------------------------------------------
(* Properties *)

\* The money says so: on record is only an address that as many wallets as it
\* is reported for have paid.  And no pool passes unseen: once a pass is through,
\* every address that enough of the wallets it got an answer about had fed when
\* it started, and that was the payout address of none of the listed, is on
\* record, whatever failed, moved or was explained meanwhile.
ReportsMatchTheChain ==
    /\ \A a \in Addresses : alerts[a].count > 0 =>
        /\ alerts[a].count >= Threshold
        /\ alerts[a].count <= Cardinality({t.from : t \in {u \in paid : u.to = a}})
    /\ \A p \in Passes : Done(p) =>
        \A a \in Addresses \ pass[p].payouts :
            Cardinality({r \in pass[p].asked : [from |-> r.wallet, to |-> a] \in pass[p].known})
                >= Threshold => alerts[a].count > 0

=============================================================================
