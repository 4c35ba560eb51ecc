------------------------------ MODULE Rotation ------------------------------
(***************************************************************************)
(* The rotation of a circle ("tin"): seating members while it is forming,  *)
(* activating it into scheduled rounds, and advancing it round by round.   *)
(*                                                                         *)
(* Every route handler runs as a chain of awaited `db.execute` calls, and  *)
(* each call is a transaction of its own (src/src/lib/db.pg.ts).  A        *)
(* request is therefore a record that remembers which statement comes next *)
(* and what the earlier ones read; one action is one statement, and the    *)
(* statements of different requests interleave freely.  With MayCrash a    *)
(* request may also die between two statements, which leaves what it wrote *)
(* so far in the database.                                                 *)
(*                                                                         *)
(* Left out: the session and role checks at the top of each handler, the   *)
(* append-only contract_events rows and the notices, none of which the     *)
(* rotation reads back.                                                    *)
(***************************************************************************)
EXTENDS Integers, FiniteSets

CONSTANTS
    Members,        \* the people of one programme
    NoMember,       \* the recipient of a round that does not exist
    Tins,           \* the programme's contracts
    TargetGroups,   \* those of type target_group: they have no rounds
    MaxTurn,        \* bound: the highest turn slot a run explores
    Addresses,      \* wallet addresses
    NoAddress,      \* an empty payout_address
    Arrangers,      \* concurrent arrange requests
    Activators,     \* concurrent activate requests
    Openers,        \* concurrent open-round requests
    Checkers,       \* concurrent address-verify requests
    Movers,         \* bound: members the organizer drags during a run
    Joiners,        \* bound: members an admission vote may bring in during a run
    AddressSetters, \* bound: members whose wallet is set or verified in a run
    MayCrash,       \* may a request die between two statements?
    InitTurn,       \* the seats a run starts from
    InitPayout,     \* the addresses a run starts from
    InitProven,     \* the addresses Verify knows at the start
    InitGraced      \* members in the 14 days after setting an address

Absent == -1        \* no live contract_members row
NoTurn == 0         \* a live row whose turn_order is NULL
Slots == 1..MaxTurn
Seats == Absent..MaxTurn

ASSUME TurnAssumption == MaxTurn \in Nat
ASSUME TinAssumption == TargetGroups \subseteq Tins
ASSUME NullAssumption == NoMember \notin Members /\ NoAddress \notin Addresses
ASSUME CrashAssumption == MayCrash \in BOOLEAN
ASSUME InitAssumption ==
    /\ InitTurn \in [Tins -> [Members -> Seats]]
    /\ \A c \in Tins : \A m, n \in Members :
            m # n /\ InitTurn[c][m] > NoTurn => InitTurn[c][m] # InitTurn[c][n]
    /\ InitPayout \in [Members -> Addresses \cup {NoAddress}]
    /\ InitProven \subseteq Addresses
    /\ InitGraced \subseteq Members

VARIABLES
    status,     \* contracts.status
    turn,       \* contract_members: Absent, NoTurn or turn_order
    roundState, \* rounds.status; "none" when there is no row
    recipient,  \* rounds.recipient_member_id
    snapshot,   \* rounds.payout_address_snapshot
    dues,       \* contributions: who has a row for the round
    warned,     \* rounds opened with the recipient_unverified_grace warning
    payout,     \* members.payout_address (and wallet_address, always equal)
    stamped,    \* members whose address_verified_at is set
    graced,     \* members whose payout_address_set_at is under 14 days old
    proven,     \* addresses Verify has confirmed (external)
    arr, act, opn, chk  \* the requests in flight

rows == <<roundState, recipient, snapshot, dues, warned>>
people == <<payout, stamped, graced, proven>>
vars == <<status, turn, rows, people, arr, act, opn, chk>>

-----------------------------------------------------------------------------
(* Requests.                                                               *)

Idle == [pc |-> "idle"]

\* from = to stands for mode 'copy': there is no tin to leave.
ArrangeReq == [pc : {"already", "slot", "seat", "leave"}, member : Members,
               to : Tins, from : Tins, slot : 0..MaxTurn]
ActivateReq == [pc : {"holders", "flip", "rounds"}, tin : Tins,
                plan : [Members -> Seats], todo : SUBSET Members]
PickReq == [pc : {"recipient"}, tin : Tins, slot : Slots]
OpenReq == [pc : {"verify", "stamp", "open", "others", "dues"}, tin : Tins,
            slot : Slots, addr : Addresses, grace : BOOLEAN, verified : BOOLEAN]
FinalReq == [pc : {"final"}, tin : Tins]
CloseReq == [pc : {"finish", "close"}, tin : Tins, slot : Slots]
CheckReq == [pc : {"ask", "stamp"}, member : Members, addr : Addresses]

TypeOK ==
    /\ status \in [Tins -> {"forming", "active", "completed"}]
    /\ turn \in [Tins -> [Members -> Seats]]
    /\ roundState \in [Tins -> [Slots -> {"none", "scheduled", "open", "completed"}]]
    /\ recipient \in [Tins -> [Slots -> Members \cup {NoMember}]]
    /\ snapshot \in [Tins -> [Slots -> Addresses \cup {NoAddress}]]
    /\ dues \in [Tins -> [Slots -> SUBSET Members]]
    /\ warned \subseteq Tins \X Slots
    /\ payout \in [Members -> Addresses \cup {NoAddress}]
    /\ stamped \subseteq Members
    /\ graced \subseteq Members
    /\ proven \subseteq Addresses
    /\ arr \in [Arrangers -> ArrangeReq \cup {Idle}]
    /\ act \in [Activators -> ActivateReq \cup {Idle}]
    /\ opn \in [Openers -> PickReq \cup OpenReq \cup FinalReq \cup CloseReq \cup {Idle}]
    /\ chk \in [Checkers -> CheckReq \cup {Idle}]

Init ==
    /\ status = [c \in Tins |-> "forming"]
    /\ turn = InitTurn
    /\ roundState = [c \in Tins |-> [s \in Slots |-> "none"]]
    /\ recipient = [c \in Tins |-> [s \in Slots |-> NoMember]]
    /\ snapshot = [c \in Tins |-> [s \in Slots |-> NoAddress]]
    /\ dues = [c \in Tins |-> [s \in Slots |-> {}]]
    /\ warned = {}
    /\ payout = InitPayout
    /\ stamped = {}
    /\ graced = InitGraced
    /\ proven = InitProven
    /\ arr = [g \in Arrangers |-> Idle]
    /\ act = [a \in Activators |-> Idle]
    /\ opn = [o \in Openers |-> Idle]
    /\ chk = [k \in Checkers |-> Idle]

-----------------------------------------------------------------------------
(* POST /api/circles/arrange.                                              *)

\* Both ends of the drag are read in one SELECT and must be forming.
ArrangeTins(g, m, to, from) ==
    /\ m \in Movers
    /\ arr[g].pc = "idle"
    /\ status[to] = "forming"
    /\ status[from] = "forming"
    /\ arr' = [arr EXCEPT ![g] = [pc |-> "already", member |-> m,
                                  to |-> to, from |-> from, slot |-> 0]]
    /\ UNCHANGED <<status, turn, rows, people, act, opn, chk>>

\* Already in the destination: the request ends with already_in_tin.
ArrangeAlready(g) ==
    /\ arr[g].pc = "already"
    /\ arr' = [arr EXCEPT ![g] = IF turn[arr[g].to][arr[g].member] = Absent
                                 THEN [@ EXCEPT !.pc = "slot"] ELSE Idle]
    /\ UNCHANGED <<status, turn, rows, people, act, opn, chk>>

HighestTurn(c, k) ==
    /\ \A n \in Members : turn[c][n] <= k
    /\ k = 0 \/ \E n \in Members : turn[c][n] = k

\* COALESCE(MAX(turn_order), 0) + 1.  A slot past MaxTurn is past the bound
\* of the run: the request is dropped.
ArrangeSlot(g) ==
    /\ arr[g].pc = "slot"
    /\ \E k \in 0..MaxTurn :
        /\ HighestTurn(arr[g].to, k)
        /\ arr' = [arr EXCEPT ![g] = IF k < MaxTurn
                                     THEN [@ EXCEPT !.pc = "seat", !.slot = k + 1]
                                     ELSE Idle]
    /\ UNCHANGED <<status, turn, rows, people, act, opn, chk>>

\* The two partial unique indexes: one live row per member, one per turn.
SeatFree(c, m, k) ==
    /\ turn[c][m] = Absent
    /\ k = NoTurn \/ \A n \in Members : turn[c][n] # k

\* The INSERT names no status: nothing here asks whether the tin still forms.
ArrangeSeat(g) ==
    /\ arr[g].pc = "seat"
    /\ LET r == arr[g] IN
        IF SeatFree(r.to, r.member, r.slot)
        THEN /\ turn' = [turn EXCEPT ![r.to][r.member] = r.slot]
             /\ arr' = [arr EXCEPT ![g] = IF r.to = r.from THEN Idle
                                          ELSE [r EXCEPT !.pc = "leave"]]
        ELSE /\ arr' = [arr EXCEPT ![g] = Idle]
             /\ UNCHANGED turn
    /\ UNCHANGED <<status, rows, people, act, opn, chk>>

\* mode 'move': the DELETE of the source row.
ArrangeLeave(g) ==
    /\ arr[g].pc = "leave"
    /\ turn' = [turn EXCEPT ![arr[g].from][arr[g].member] = Absent]
    /\ arr' = [arr EXCEPT ![g] = Idle]
    /\ UNCHANGED <<status, rows, people, act, opn, chk>>

ArrangeDies(g) ==
    /\ MayCrash
    /\ arr[g].pc # "idle"
    /\ arr' = [arr EXCEPT ![g] = Idle]
    /\ UNCHANGED <<status, turn, rows, people, act, opn, chk>>

\* admitMember, the one other writer of contract_members: no turn, any status.
Admit(c, m) ==
    /\ m \in Joiners
    /\ SeatFree(c, m, NoTurn)
    /\ turn' = [turn EXCEPT ![c][m] = NoTurn]
    /\ UNCHANGED <<status, rows, people, arr, act, opn, chk>>

-----------------------------------------------------------------------------
(* POST /api/circles/activate.                                             *)

\* "Three, not two": fewer turn holders and activation is refused.
NeededTurns == 3

ActivateRead(a, c) ==
    /\ act[a].pc = "idle"
    /\ status[c] = "forming"
    /\ act' = [act EXCEPT ![a] =
                 [pc |-> IF c \in TargetGroups THEN "flip" ELSE "holders", tin |-> c,
                  plan |-> [m \in Members |-> Absent], todo |-> {}]]
    /\ UNCHANGED <<status, turn, rows, people, arr, opn, chk>>

TurnHolders(c) == {m \in Members : turn[c][m] > NoTurn}

ActivateHolders(a) ==
    /\ act[a].pc = "holders"
    /\ LET c == act[a].tin IN
        act' = [act EXCEPT ![a] =
                  IF Cardinality(TurnHolders(c)) >= NeededTurns
                  THEN [pc |-> "flip", tin |-> c, plan |-> turn[c], todo |-> TurnHolders(c)]
                  ELSE Idle]
    /\ UNCHANGED <<status, turn, rows, people, arr, opn, chk>>

\* UPDATE ... WHERE status = 'forming': the guard is the lock.
FlipUnguarded(c) == TRUE
FlipWins(c) == status[c] = "forming"

ActivateFlip(a) ==
    /\ act[a].pc = "flip"
    /\ LET c == act[a].tin IN
        IF FlipWins(c)
        THEN /\ status' = [status EXCEPT ![c] = "active"]
             /\ act' = [act EXCEPT ![a] = IF @.todo = {} THEN Idle
                                          ELSE [@ EXCEPT !.pc = "rounds"]]
        ELSE /\ act' = [act EXCEPT ![a] = Idle]
             /\ UNCHANGED status
    /\ UNCHANGED <<turn, rows, people, arr, opn, chk>>

\* ORDER BY turn_order ASC: the turn holder whose round is inserted next.
AnyOrder(a, m) == TRUE
NextInOrder(a, m) == \A n \in act[a].todo : act[a].plan[m] <= act[a].plan[n]

\* The loop ends with the last turn holder.
LastHolder(a, m) == act[a].todo = {m}

\* One INSERT per turn holder, in slot order.  UNIQUE (contract_id,
\* round_index) makes a second row for a slot an error that ends the request.
ActivateRound(a) ==
    /\ act[a].pc = "rounds"
    /\ \E m \in act[a].todo :
        LET c == act[a].tin
            s == act[a].plan[m]
        IN  /\ NextInOrder(a, m)
            /\ IF roundState[c][s] = "none"
               THEN /\ roundState' = [roundState EXCEPT ![c][s] = "scheduled"]
                    /\ recipient' = [recipient EXCEPT ![c][s] = m]
                    /\ act' = [act EXCEPT ![a] = IF LastHolder(a, m) THEN Idle
                                                 ELSE [@ EXCEPT !.todo = act[a].todo \ {m}]]
               ELSE /\ act' = [act EXCEPT ![a] = Idle]
                    /\ UNCHANGED <<roundState, recipient>>
    /\ UNCHANGED <<status, turn, snapshot, dues, warned, people, arr, opn, chk>>

ActivateDies(a) ==
    /\ MayCrash
    /\ act[a].pc # "idle"
    /\ act' = [act EXCEPT ![a] = Idle]
    /\ UNCHANGED <<status, turn, rows, people, arr, opn, chk>>

-----------------------------------------------------------------------------
(* POST /api/circles/open-round.  The contract's status is never read.     *)

Scheduled(c, s) == roundState[c][s] = "scheduled"
IsOpen(c, s) == roundState[c][s] = "open"
Opened(c, s) == roundState[c][s] \in {"open", "completed"}

\* The earliest round still scheduled ...
OpenNext(o, c) ==
    /\ opn[o].pc = "idle"
    /\ \E s \in Slots :
        /\ Scheduled(c, s)
        /\ \A t \in Slots : t < s => ~ Scheduled(c, t)
        /\ opn' = [opn EXCEPT ![o] = [pc |-> "recipient", tin |-> c, slot |-> s]]
    /\ UNCHANGED <<status, turn, rows, people, arr, act, chk>>

\* ... or none is left and the request turns to closing the circle.
OpenNone(o, c) ==
    /\ opn[o].pc = "idle"
    /\ \A s \in Slots : ~ Scheduled(c, s)
    /\ opn' = [opn EXCEPT ![o] = [pc |-> "final", tin |-> c]]
    /\ UNCHANGED <<status, turn, rows, people, arr, act, chk>>

\* ORDER BY round_index DESC LIMIT 1; no open round is no_scheduled_round.
FinalPick(o) ==
    /\ opn[o].pc = "final"
    /\ LET c == opn[o].tin IN
        \/ /\ \A s \in Slots : ~ IsOpen(c, s)
           /\ opn' = [opn EXCEPT ![o] = Idle]
        \/ \E s \in Slots :
            /\ IsOpen(c, s)
            /\ \A t \in Slots : t > s => ~ IsOpen(c, t)
            /\ opn' = [opn EXCEPT ![o] = [pc |-> "finish", tin |-> c, slot |-> s]]
    /\ UNCHANGED <<status, turn, rows, people, arr, act, chk>>

\* UPDATE ... WHERE status = 'open'; no row is already_completed.
FinalRound(o) ==
    /\ opn[o].pc = "finish"
    /\ LET c == opn[o].tin
           s == opn[o].slot
       IN  IF IsOpen(c, s)
           THEN /\ roundState' = [roundState EXCEPT ![c][s] = "completed"]
                /\ opn' = [opn EXCEPT ![o].pc = "close"]
           ELSE /\ opn' = [opn EXCEPT ![o] = Idle]
                /\ UNCHANGED roundState
    /\ UNCHANGED <<status, turn, recipient, snapshot, dues, warned, people, arr, act, chk>>

\* UPDATE contracts ... WHERE status = 'active'; its row count is not read.
FinalClose(o) ==
    /\ opn[o].pc = "close"
    /\ LET c == opn[o].tin IN
        status' = [status EXCEPT ![c] = IF @ = "active" THEN "completed" ELSE @]
    /\ opn' = [opn EXCEPT ![o] = Idle]
    /\ UNCHANGED <<turn, rows, people, arr, act, chk>>

AnyAddress(m) == TRUE
HasAddress(m) == payout[m] # NoAddress

\* The recipient's address and whether its 14 days are still running.
OpenRecipient(o) ==
    /\ opn[o].pc = "recipient"
    /\ LET m == recipient[opn[o].tin][opn[o].slot] IN
        opn' = [opn EXCEPT ![o] = IF HasAddress(m)
                                  THEN [pc |-> "verify", tin |-> @.tin, slot |-> @.slot,
                                        addr |-> payout[m], grace |-> m \in graced,
                                        verified |-> FALSE]
                                  ELSE Idle]
    /\ UNCHANGED <<status, turn, rows, people, arr, act, chk>>

\* Verify's public lookup, fail-closed: revoked, unreachable or unknown is FALSE.
VerifyAnswers(a) == IF a \in proven THEN BOOLEAN ELSE {FALSE}

\* The gate asks Verify at the moment of opening, not the cached stamp.
CachedAnswer(o) == {recipient[opn[o].tin][opn[o].slot] \in stamped}
GateAnswer(o) == VerifyAnswers(opn[o].addr)

OpenVerify(o) ==
    /\ opn[o].pc = "verify"
    /\ \E ok \in GateAnswer(o) :
        opn' = [opn EXCEPT ![o].pc = "stamp", ![o].verified = ok]
    /\ UNCHANGED <<status, turn, rows, people, arr, act, chk>>

MayOpen(r) == r.verified \/ r.grace

\* The stamp is refreshed on the member's row whatever address is there now;
\* then the gate: not proven and out of grace ends with recipient_not_verified.
OpenStamp(o) ==
    /\ opn[o].pc = "stamp"
    /\ LET m == recipient[opn[o].tin][opn[o].slot] IN
        stamped' = IF opn[o].verified THEN stamped \cup {m} ELSE stamped \ {m}
    /\ opn' = [opn EXCEPT ![o] = IF MayOpen(@) THEN [@ EXCEPT !.pc = "open"] ELSE Idle]
    /\ UNCHANGED <<status, turn, rows, payout, graced, proven, arr, act, chk>>

OpenUnguarded(c, s) == TRUE
StillScheduled(c, s) == Scheduled(c, s)

\* UPDATE ... WHERE status = 'scheduled', freezing the address read earlier.
OpenRound(o) ==
    /\ opn[o].pc = "open"
    /\ LET c == opn[o].tin
           s == opn[o].slot
       IN  IF StillScheduled(c, s)
           THEN /\ roundState' = [roundState EXCEPT ![c][s] = "open"]
                /\ snapshot' = [snapshot EXCEPT ![c][s] = opn[o].addr]
                /\ warned' = IF opn[o].verified THEN warned ELSE warned \cup {<<c, s>>}
                /\ opn' = [opn EXCEPT ![o].pc = "others"]
           ELSE /\ opn' = [opn EXCEPT ![o] = Idle]
                /\ UNCHANGED <<roundState, snapshot, warned>>
    /\ UNCHANGED <<status, turn, recipient, dues, people, arr, act, chk>>

\* Every other open round of the circle is completed.
PreviousSlot(o, s) == s = opn[o].slot - 1 /\ IsOpen(opn[o].tin, s)
Superseded(o, s) == s # opn[o].slot /\ IsOpen(opn[o].tin, s)

CompleteOthers(o) ==
    /\ opn[o].pc = "others"
    /\ LET c == opn[o].tin IN
        roundState' = [roundState EXCEPT ![c] =
                         [s \in Slots |-> IF Superseded(o, s)
                                          THEN "completed" ELSE roundState[c][s]]]
    /\ opn' = [opn EXCEPT ![o].pc = "dues"]
    /\ UNCHANGED <<status, turn, recipient, snapshot, dues, warned, people, arr, act, chk>>

EveryMemberButOne(c, s) == {m \in Members : turn[c][m] # Absent} \ {recipient[c][s]}
Owing(c, s) == TurnHolders(c) \ {recipient[c][s]}

\* INSERT ... SELECT: one pending contribution per turn holder but the recipient.
InsertDues(o) ==
    /\ opn[o].pc = "dues"
    /\ LET c == opn[o].tin
           s == opn[o].slot
       IN  dues' = [dues EXCEPT ![c][s] = Owing(c, s)]
    /\ opn' = [opn EXCEPT ![o] = Idle]
    /\ UNCHANGED <<status, turn, roundState, recipient, snapshot, warned, people, arr, act, chk>>

OpenDies(o) ==
    /\ MayCrash
    /\ opn[o].pc # "idle"
    /\ opn' = [opn EXCEPT ![o] = Idle]
    /\ UNCHANGED <<status, turn, rows, people, arr, act, chk>>

-----------------------------------------------------------------------------
(* Addresses: set by the member or the operator, proven at Verify.         *)

\* One UPDATE sets both columns, clears the stamp and restarts the grace;
\* members_tenant_wallet_uniq refuses an address another member holds.
SetAddress(m, a) ==
    /\ m \in AddressSetters
    /\ a = NoAddress \/ \A n \in Members \ {m} : payout[n] # a
    /\ payout' = [payout EXCEPT ![m] = a]
    /\ stamped' = stamped \ {m}
    /\ graced' = graced \cup {m}
    /\ UNCHANGED <<status, turn, rows, proven, arr, act, opn, chk>>

\* Fourteen days have passed since payout_address_set_at.
GraceRunsOut(m) ==
    /\ m \in graced
    /\ graced' = graced \ {m}
    /\ UNCHANGED <<status, turn, rows, payout, stamped, proven, arr, act, opn, chk>>

\* Someone proves an address at Verify, outside this program.
ProveAddress(a) ==
    /\ a \notin proven
    /\ proven' = proven \cup {a}
    /\ UNCHANGED <<status, turn, rows, payout, stamped, graced, arr, act, opn, chk>>

CheckRead(k, m) ==
    /\ m \in AddressSetters
    /\ chk[k].pc = "idle"
    /\ HasAddress(m)
    /\ chk' = [chk EXCEPT ![k] = [pc |-> "ask", member |-> m, addr |-> payout[m]]]
    /\ UNCHANGED <<status, turn, rows, people, arr, act, opn>>

CheckAsk(k) ==
    /\ chk[k].pc = "ask"
    /\ \E ok \in VerifyAnswers(chk[k].addr) :
        chk' = [chk EXCEPT ![k] = IF ok THEN [@ EXCEPT !.pc = "stamp"] ELSE Idle]
    /\ UNCHANGED <<status, turn, rows, people, arr, act, opn>>

\* UPDATE members SET address_verified_at = now(): the row, not the address.
CheckStamp(k) ==
    /\ chk[k].pc = "stamp"
    /\ stamped' = stamped \cup {chk[k].member}
    /\ chk' = [chk EXCEPT ![k] = Idle]
    /\ UNCHANGED <<status, turn, rows, payout, graced, proven, arr, act, opn>>

-----------------------------------------------------------------------------
ArrangeStep(g) ==
    ArrangeAlready(g) \/ ArrangeSlot(g) \/ ArrangeSeat(g) \/ ArrangeLeave(g)
ActivateStep(a) == ActivateHolders(a) \/ ActivateFlip(a) \/ ActivateRound(a)
OpenStep(o) ==
    \/ FinalPick(o) \/ FinalRound(o) \/ FinalClose(o)
    \/ OpenRecipient(o) \/ OpenVerify(o) \/ OpenStamp(o)
    \/ OpenRound(o) \/ CompleteOthers(o) \/ InsertDues(o)
CheckStep(k) == CheckAsk(k) \/ CheckStamp(k)

Next ==
    \/ \E g \in Arrangers : \E m \in Members : \E to, from \in Tins : ArrangeTins(g, m, to, from)
    \/ \E g \in Arrangers : ArrangeStep(g) \/ ArrangeDies(g)
    \/ \E c \in Tins : \E m \in Members : Admit(c, m)
    \/ \E a \in Activators : \E c \in Tins : ActivateRead(a, c)
    \/ \E a \in Activators : ActivateStep(a) \/ ActivateDies(a)
    \/ \E o \in Openers : \E c \in Tins : OpenNext(o, c) \/ OpenNone(o, c)
    \/ \E o \in Openers : OpenStep(o) \/ OpenDies(o)
    \/ \E m \in Members : \E a \in Addresses \cup {NoAddress} : SetAddress(m, a)
    \/ \E m \in Members : GraceRunsOut(m)
    \/ \E a \in Addresses : ProveAddress(a)
    \/ \E k \in Checkers : \E m \in Members : CheckRead(k, m)
    \/ \E k \in Checkers : CheckStep(k)

Spec == Init /\ [][Next]_vars

-----------------------------------------------------------------------------
(* What a circle is owed.                                                  *)

\* No member is the recipient of two rounds of one circle, however many
\* activations race with the organizer's drags (activate.ts: "the guard is
\* the lock, so only one activation wins and no rounds are duplicated").
OnePayoutPerMember ==
    \A c \in Tins : \A s, t \in Slots :
        s # t /\ roundState[c][s] # "none" /\ roundState[c][t] # "none"
            => recipient[c][s] # recipient[c][t]

\* Anti-swap: from the moment a round opens its recipient and the address
\* she is paid at never change, and a completed round stays completed.
AntiSwap ==
    [][\A c \in Tins : \A s \in Slots : Opened(c, s) =>
          /\ Opened(c, s)'
          /\ snapshot'[c][s] = snapshot[c][s]
          /\ recipient'[c][s] = recipient[c][s]
          /\ ~ IsOpen(c, s) => ~ IsOpen(c, s)']_vars

\* A round that opens without telling the operator that its recipient is
\* unproven pays to an address Verify has confirmed, whatever was stamped or
\* re-set while the lookup was on its way.
VerifiedBeforeOpen ==
    \A c \in Tins : \A s \in Slots :
        Opened(c, s) /\ <<c, s>> \notin warned => snapshot[c][s] \in proven

\* No open-round request of this circle is between two statements.
AtRest(c) == \A o \in Openers : opn[o].pc = "idle" \/ opn[o].tin # c

\* As long as no request dies half way, concurrent advances never leave two
\* rounds of a circle open behind them.
AtMostOneOpenAtRest ==
    ~ MayCrash => \A c \in Tins : AtRest(c) =>
        \A s, t \in Slots : IsOpen(c, s) /\ IsOpen(c, t) => s = t

\* As long as no request dies half way and nobody is re-seated, every round
\* that was opened has left a contribution for each member of the rotation
\* but its recipient, and for no one else.
DuesComplete ==
    ~ MayCrash /\ Arrangers = {} => \A c \in Tins : AtRest(c) =>
        \A s \in Slots : Opened(c, s) =>
            dues[c][s] = {m \in Members : turn[c][m] > NoTurn} \ {recipient[c][s]}

\* An activation whose last INSERT answers has given every woman it counted
\* the round of her own slot, though a second activation counted the same
\* circle, the organizer dragged and a vote admitted since, and others died
\* half way: none finds a slot taken and ends early (activate.ts: "the guard
\* is the lock, so only one activation wins").
EveryTurnGetsARound ==
    [][\A a \in Activators : ActivateRound(a) /\ act'[a] = Idle =>
          \A m \in Members : act[a].plan[m] > NoTurn =>
              recipient'[act[a].tin][act[a].plan[m]] = m]_vars

\* Seen without its requests, seats and addresses, the rotation is the plain
\* life of a circle: activated once, its rounds scheduled in slot order for
\* distinct members, opened in that order, completed, never taken back.
Lifecycle == INSTANCE RoundLifecycle
    WITH status <- status, roundState <- roundState, recipient <- recipient
Refinement == Lifecycle!Spec
=============================================================================
