------------------------------ MODULE Payments -------------------------------
(***************************************************************************)
(* Contributions and the chain: what each open round is owed, the hourly   *)
(* pass that marks contributions paid by reading public transfers          *)
(* (src/src/lib/circles/observePayments.ts), and the daily pass that       *)
(* reminds those who have not paid (runDueReminders), both telling the     *)
(* members through Notices.                                                *)
(*                                                                         *)
(* A pass lists what is pending, then looks up, compares and writes one    *)
(* statement at a time, while rounds move on, wallets change, money moves  *)
(* and other runs of the same cron overlap with it.                        *)
(*                                                                         *)
(* Left out: target groups, amounts but for enough or too little, wallets  *)
(* with more than one page (100) of transfers, and the due_today nudge,    *)
(* which is a second reminder under a key of its own.                      *)
(***************************************************************************)
EXTENDS Notices, Sequences

CONSTANTS
    MaxRound,       \* the rounds of the programme, by due date
    Circle,         \* the circle each round belongs to
    Recipient,      \* and its recipient
    Wallets, NoWallet,
    InitWallet,     \* the wallets a run starts from
    Movers,         \* bound: members whose wallet changes during a run
    MaxTransfers,   \* bound: the transfers on the chain
    MaxLookups,     \* MAX_LOOKUPS_PER_RUN
    Observers,      \* overlapping observe-payments runs
    Reminders       \* overlapping reminders runs

Rounds == 1..MaxRound
Contributions == Rounds \X Members

ASSUME RoundAssumption ==
    /\ MaxRound \in Nat
    /\ Recipient \in [Rounds -> Members]
    /\ DOMAIN Circle = Rounds
ASSUME WalletAssumption ==
    /\ NoWallet \notin Wallets
    /\ InitWallet \in [Members -> Wallets \cup {NoWallet}]
ASSUME PassAssumption ==
    /\ Callers = Observers \cup Reminders /\ Observers \cap Reminders = {}
    /\ Tolerant = Callers
    /\ EventKeys = Contributions
    /\ MaxTransfers \in Nat /\ MaxLookups \in Nat

VARIABLES
    roundState,     \* rounds.status
    dest,           \* rounds.payout_address_snapshot
    openedAt,       \* how many transfers there were when the round opened
    contrib,        \* contributions: status and the observed transfer
    late,           \* rounds whose due date and grace have passed
    wallet,         \* members.wallet_address (always equal to payout_address)
    held,           \* every address she has had (bookkeeping of the model)
    chain,          \* transfers of the configured token, oldest first (external)
    pass            \* the cron runs in flight

rounds == <<roundState, dest, openedAt, late>>
wallets == <<wallet, held>>
vars == <<noticeVars, rounds, contrib, wallets, chain, pass>>

Transfer == [from : Wallets, to : Wallets, amount : {"enough", "short"}]
Unwritten == [status |-> "none", tx |-> 0]
Pending == [status |-> "pending", tx |-> 0]
Item == [key : Contributions, dest : Wallets, payer : Wallets]
ObserveRecord == [pc : {"payer", "match", "confirm"}, rest : SUBSET Item, mine : SUBSET Item,
                  seen : 0..MaxTransfers, confirm : SUBSET Contributions]
RemindRecord == [pc : {"late"}]

TypeOK ==
    /\ NoticesTypeOK
    /\ roundState \in [Rounds -> {"scheduled", "open", "completed"}]
    /\ dest \in [Rounds -> Wallets \cup {NoWallet}]
    /\ openedAt \in [Rounds -> 0..MaxTransfers]
    /\ contrib \in [Contributions -> {Unwritten, Pending}
                      \cup [status : {"paid", "partial"}, tx : 1..MaxTransfers]]
    /\ late \subseteq Rounds
    /\ wallet \in [Members -> Wallets \cup {NoWallet}]
    /\ held \in [Members -> SUBSET Wallets]
    /\ chain \in Seq(Transfer) /\ Len(chain) <= MaxTransfers
    /\ pass \in [Callers -> ObserveRecord \cup RemindRecord \cup {Idle}]

Init ==
    /\ NoticesInit
    /\ roundState = [r \in Rounds |-> "scheduled"]
    /\ dest = [r \in Rounds |-> NoWallet]
    /\ openedAt = [r \in Rounds |-> 0]
    /\ contrib = [c \in Contributions |-> Unwritten]
    /\ late = {}
    /\ wallet = InitWallet
    /\ held = [m \in Members |-> {InitWallet[m]} \cap Wallets]
    /\ chain = <<>>
    /\ pass = [t \in Callers |-> Idle]

Proceed(t, r) == pass' = [pass EXCEPT ![t] = r]

-----------------------------------------------------------------------------
(* The rounds, as the passes see them (Rotation has the requests).         *)

Siblings(r) == {q \in Rounds \ {r} : Circle[q] = Circle[r]}

\* The earliest scheduled round opens, its destination frozen, and every
\* other open round of the circle completes.
RoundOpens(r) ==
    /\ roundState[r] = "scheduled"
    /\ \A q \in Siblings(r) : q < r => roundState[q] # "scheduled"
    /\ LET a == wallet[Recipient[r]] IN
        /\ a # NoWallet
        /\ dest' = [dest EXCEPT ![r] = a]
    /\ roundState' = [q \in Rounds |->
                        IF q = r THEN "open"
                        ELSE IF q \in Siblings(r) /\ roundState[q] = "open" THEN "completed"
                        ELSE roundState[q]]
    /\ openedAt' = [openedAt EXCEPT ![r] = Len(chain)]
    /\ UNCHANGED <<noticeVars, late, contrib, wallets, chain, pass>>

\* A later statement of the same request: one pending row for each member but
\* the recipient.
DuesComeDue(r) ==
    /\ roundState[r] # "scheduled"
    /\ \A m \in Members : contrib[<<r, m>>] = Unwritten
    /\ contrib' = [c \in Contributions |-> IF c[1] = r /\ c[2] # Recipient[r]
                                           THEN Pending ELSE contrib[c]]
    /\ UNCHANGED <<noticeVars, rounds, wallets, chain, pass>>

\* The closing advance completes the last round.
RoundCloses(r) ==
    /\ roundState[r] = "open"
    /\ \A q \in Siblings(r) : roundState[q] # "scheduled"
    /\ roundState' = [roundState EXCEPT ![r] = "completed"]
    /\ UNCHANGED <<noticeVars, dest, openedAt, late, contrib, wallets, chain, pass>>

\* Only the reminders read it: left out of a run that has none.
GraceEnds(r) ==
    /\ Reminders # {}
    /\ roundState[r] # "scheduled"
    /\ r \notin late
    /\ late' = late \cup {r}
    /\ UNCHANGED <<noticeVars, roundState, dest, openedAt, contrib, wallets, chain, pass>>

\* members_tenant_wallet_uniq: no two members have one address at a time.
SetAddress(m, a) ==
    /\ m \in Movers
    /\ a # wallet[m]
    /\ a = NoWallet \/ \A n \in Members : wallet[n] # a
    /\ wallet' = [wallet EXCEPT ![m] = a]
    /\ held' = [held EXCEPT ![m] = @ \cup ({a} \cap Wallets)]
    /\ UNCHANGED <<noticeVars, rounds, contrib, chain, pass>>

\* Someone sends tokens from a wallet a member has had to one a round pays.
TokensMove(a, b, n) ==
    /\ Len(chain) < MaxTransfers
    /\ a \in UNION {held[m] : m \in Members}
    /\ b \in {dest[r] : r \in Rounds} \cup {wallet[Recipient[r]] : r \in Rounds}
    /\ a # b
    /\ chain' = Append(chain, [from |-> a, to |-> b, amount |-> n])
    /\ UNCHANGED <<noticeVars, rounds, contrib, wallets, pass>>

-----------------------------------------------------------------------------
(* observePayments.                                                        *)

\* The round's frozen destination, never the recipient's current address.
CurrentAddress(r) == wallet[Recipient[r]]
FrozenAddress(r) == dest[r]

Listable(c) ==
    /\ contrib[c] = Pending
    /\ roundState[c[1]] = "open"
    /\ wallet[c[2]] # NoWallet

\* ORDER BY due_date LIMIT MAX_LOOKUPS_PER_RUN.
Listed(S) ==
    /\ S # {}
    /\ Cardinality(S) <= MaxLookups
    /\ \A c \in S : Listable(c)
    /\ \A d \in Contributions \ S : Listable(d) =>
          Cardinality(S) = MaxLookups /\ \A c \in S : c[1] <= d[1]

Asked(c) == [key |-> c, dest |-> FrozenAddress(c[1]), payer |-> wallet[c[2]]]

ObserveList(t) ==
    /\ pass[t] = Idle
    /\ Resting(t)
    /\ \E S \in SUBSET Contributions :
        /\ Listed(S)
        /\ Proceed(t, [pc |-> "payer", rest |-> {Asked(c) : c \in S}, mine |-> {},
                       seen |-> 0, confirm |-> {}])
    /\ UNCHANGED <<noticeVars, rounds, contrib, wallets, chain>>

\* With its list done a pass turns to the confirmations.
NextPayer(p) == [p EXCEPT !.pc = IF p.rest = {} THEN "confirm" ELSE "payer"]

\* One explorer lookup per payer, answered for all her items.
ObserveLookup(t, w) ==
    /\ pass[t].pc = "payer"
    /\ LET hers == {i \in pass[t].rest : i.payer = w} IN
        /\ hers # {}
        /\ Proceed(t, [pass[t] EXCEPT !.pc = "match", !.mine = hers,
                                      !.rest = pass[t].rest \ hers, !.seen = Len(chain)])
    /\ UNCHANGED <<noticeVars, rounds, contrib, wallets, chain>>

\* An error skips the payer until the next run.
LookupFails(t, w) ==
    /\ pass[t].pc = "payer"
    /\ Fails
    /\ LET hers == {i \in pass[t].rest : i.payer = w} IN
        /\ hers # {}
        /\ Proceed(t, NextPayer([pass[t] EXCEPT !.rest = pass[t].rest \ hers]))
    /\ UNCHANGED <<written, prefs, queue, call, rounds, contrib, wallets, chain>>

\* The explorer lists both directions, so both ends are compared.
OtherWay(i, k) == chain[k].from = i.dest /\ chain[k].to = i.payer
Matches(i, k) == chain[k].from = i.payer /\ chain[k].to = i.dest

\* The newest transfer of the answer from her to the destination; 0 is none.
Newest(i, n) ==
    LET hits == {k \in 1..n : Matches(i, k)} IN
    IF hits = {} THEN 0 ELSE CHOOSE k \in hits : \A j \in hits : j <= k

AlwaysFound(k) == TRUE
Found(k) == k > 0

\* Under-payment records partial, never paid.
Verdict(k) == IF k \in DOMAIN chain /\ chain[k].amount = "enough" THEN "paid" ELSE "partial"

\* UPDATE ... WHERE status = 'pending'.
Unguarded(c) == TRUE
StillPending(c) == contrib[c] = Pending

\* The confirmation is queued whether or not the UPDATE hit the row.
AnyMatch(k) == TRUE
NeverConfirmed(k) == FALSE
Confirmed(k) == Verdict(k) = "paid"

ObserveItem(t) ==
    /\ pass[t].pc = "match"
    /\ \E i \in pass[t].mine :
        LET k == Newest(i, pass[t].seen)
            left == [pass[t] EXCEPT !.mine = pass[t].mine \ {i},
                                    !.confirm = IF Found(k) /\ Confirmed(k)
                                                THEN pass[t].confirm \cup {i.key}
                                                ELSE pass[t].confirm]
        IN  /\ contrib' = IF Found(k) /\ StillPending(i.key)
                          THEN [contrib EXCEPT ![i.key] = [status |-> Verdict(k), tx |-> k]]
                          ELSE contrib
            /\ Proceed(t, IF left.mine = {} THEN NextPayer(left) ELSE left)
    /\ UNCHANGED <<noticeVars, rounds, wallets, chain>>

Batch(kind, S) == {[kind |-> kind, key |-> c, to |-> c[2]] : c \in S}

\* After the loop, one notify for each payment found.
ObserveConfirm(t) ==
    /\ pass[t].pc = "confirm"
    /\ Handed(t, Batch("payment_confirmed", pass[t].confirm))
    /\ Proceed(t, Idle)
    /\ UNCHANGED <<written, prefs, call, failures, rounds, contrib, wallets, chain>>

\* A failing UPDATE ends the pass, confirmations and all.
ObserveDies(t) ==
    /\ pass[t].pc = "match"
    /\ Fails
    /\ Proceed(t, Idle)
    /\ UNCHANGED <<written, prefs, queue, call, rounds, contrib, wallets, chain>>

ObserveStep(t) ==
    \/ \E w \in Wallets : ObserveLookup(t, w) \/ LookupFails(t, w)
    \/ ObserveItem(t) \/ ObserveConfirm(t)

-----------------------------------------------------------------------------
(* runDueReminders: first what is due, then, with that list done, what is  *)
(* late.  Only pending contributions are read; the rounds are not.         *)

\* The contract is active until its last round has been closed.
CircleActive(r) == \E q \in Siblings(r) \cup {r} : roundState[q] # "completed"
Owed(S) == {c \in Contributions : contrib[c] = Pending /\ c[1] \in S /\ CircleActive(c[1])}

RemindDue(t) ==
    /\ pass[t] = Idle
    /\ Resting(t)
    /\ Handed(t, Batch("reminder", Owed(Rounds \ late)))
    /\ Proceed(t, [pc |-> "late"])
    /\ UNCHANGED <<written, prefs, call, failures, rounds, contrib, wallets, chain>>

RemindLate(t) ==
    /\ pass[t].pc = "late"
    /\ Resting(t)
    /\ Handed(t, Batch("gentle_late", Owed(late)))
    /\ Proceed(t, Idle)
    /\ UNCHANGED <<written, prefs, call, failures, rounds, contrib, wallets, chain>>

-----------------------------------------------------------------------------
CallerStep(t) == NotifyStep(t) /\ UNCHANGED <<rounds, contrib, wallets, chain, pass>>
CallerFails(t) == NotifyFails(t) /\ UNCHANGED <<rounds, contrib, wallets, chain, pass>>
SavePref == PrefStep /\ UNCHANGED <<rounds, contrib, wallets, chain, pass>>

ServerDies ==
    /\ Crash
    /\ pass' = [t \in Callers |-> Idle]
    /\ UNCHANGED <<rounds, contrib, wallets, chain>>

NextPayment ==
    \/ \E r \in Rounds : RoundOpens(r) \/ DuesComeDue(r) \/ RoundCloses(r) \/ GraceEnds(r)
    \/ \E m \in Members : \E a \in Wallets \cup {NoWallet} : SetAddress(m, a)
    \/ \E a, b \in Wallets : \E n \in {"enough", "short"} : TokensMove(a, b, n)
    \/ \E t \in Observers : ObserveList(t) \/ ObserveStep(t) \/ ObserveDies(t)
    \/ \E t \in Reminders : RemindDue(t) \/ RemindLate(t)
    \/ \E t \in Callers : CallerStep(t) \/ CallerFails(t)
    \/ SavePref
    \/ ServerDies

Spec == Init /\ [][NextPayment]_vars

\* Statements that were started are resumed, and the hourly workflow keeps
\* starting passes.  Lookups and statements fail at most MaxFailures times.
Fairness ==
    /\ \A t \in Observers : WF_vars(ObserveList(t)) /\ WF_vars(ObserveStep(t))
    /\ \A t \in Callers : WF_vars(CallerStep(t))

FairSpec == Spec /\ Fairness

-----------------------------------------------------------------------------
(* What the ledger is owed.                                                *)

\* A contribution is only ever marked by a transfer that is on the chain, from
\* an address she has had, to the address that was frozen for the round, and
\* says paid only when it was enough, whatever changed since the pass listed it.
MarkedByATransfer ==
    \A c \in Contributions : contrib[c].tx > 0 =>
        LET tr == chain[contrib[c].tx] IN
        /\ tr.to = dest[c[1]]
        /\ tr.from \in held[c[2]]
        /\ contrib[c].status = "paid" => tr.amount = "enough"

\* Overlapping passes never rewrite what one of them has marked.
MarkedOnce ==
    [][\A c \in Contributions : contrib[c].tx > 0 => contrib'[c] = contrib[c]]_vars

\* Nobody is told her payment arrived unless the full amount went from an
\* address of hers to the address of the round.
ConfirmedWasPaid ==
    \A n \in inApp : n.kind = "payment_confirmed" =>
        \E k \in 1..Len(chain) : /\ chain[k].to = dest[n.key[1]]
                                 /\ chain[k].from \in held[n.key[2]]
                                 /\ chain[k].amount = "enough"

\* What the ledger holds as paid and what members are told of it goes back to
\* money on the chain, whatever two overlapping passes had read before.
BackedByATransfer == MarkedByATransfer /\ ConfirmedWasPaid

\* As long as a run's budget of lookups covers what is pending, a transfer to
\* the round's address is seen while the round is open, however often lookups
\* and passes fail on the way.
SentWhileOpen(c, w) ==
    /\ Listable(c)
    /\ wallet[c[2]] = w
    /\ \E k \in 1..Len(chain) : chain[k].from = w /\ chain[k].to = dest[c[1]]
TransfersAreSeen ==
    Cardinality(Contributions) <= MaxLookups =>
        \A c \in Contributions : \A w \in Wallets : SentWhileOpen(c, w) ~> ~ SentWhileOpen(c, w)

\* Once marked paid she is told so, unless something failed in between.
PaidIsConfirmed ==
    \A c \in Contributions : contrib[c].status = "paid" ~>
        [kind |-> "payment_confirmed", key |-> c, to |-> c[2]] \in inApp \/ failures > 0

-----------------------------------------------------------------------------
(* What the comments say and the code does not do.                         *)

\* observePayments.ts: a transfer counts "only at or after the round opened".
CountsFromTheOpening ==
    \A c \in Contributions : contrib[c].tx > 0 => contrib[c].tx > openedAt[c[1]]
=============================================================================
