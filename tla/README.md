# SusuFinance in TLA+

Models of the program in this repository: the rotation of a savings circle, the
votes that change who is in it, the watcher that marks contributions paid from
the chain, the notices members get, the operators' mail, who belongs to which
programme, and the screens, scripts and plumbing around them. Every model is
checked with TLC on small instances; most safety properties are also proved with
TLAPS, for every value of the constants: those of the rotation, the votes, the
payments and notices, the cards, the board, a member's panel, the pool watch, the
support desk, sign-in, the programmes and seats, the doors, the drafts, the
filing, the "Check now" button, the tenant of every database statement and the
migration runner. Paths below are relative to the repository; `circles/` is
`src/lib/circles/` and `api/` is `src/pages/api/`.

## How to read the models

The server is a Node process on a PostgreSQL database.
`src/lib/db.pg.ts` runs every `db.execute` as a transaction of its own (the
subject of `TenantContext`), and the handlers modelled here use no transaction
around several of them. Hence the convention all modules share:

* **one action is one awaited statement** (or one awaited outside call: Verify,
  the explorer, the mail server, a provider of identities). A request, or a run
  of a cron job, is a record that holds the name of its next statement (`pc`)
  and what it has read so far; its actions interleave freely with the others';
* in the modules about a screen, an action is what the user does, a statement,
  or the arrival of an answer; what the screen shows is state beside what is
  stored;
* a guarded `UPDATE ... WHERE status = ...` tests and sets in one step; a
  `SELECT` followed by a write does not;
* a unique index is a condition on the INSERT; where the code uses
  `ON CONFLICT DO NOTHING` the row is skipped, elsewhere the violation is an
  error that ends the request;
* a crash, or a failed statement, ends a request between two statements and
  leaves what it wrote. `MaxCrashes` and `MaxFailures` bound how many there are.

Wording, JSON, layout and the append-only `contract_events` log are left out:
nothing modelled reads them back. Where a statement of one module is an
uninterrupted step in another, that module's header says so (a payment is one
step in `Cards`, three statements in `Payments`).

## Inventory, and which module models what

| component | code | what it keeps | module |
|---|---|---|---|
| Rotation | `api/circles/arrange.ts`, `activate.ts`, `open-round.ts` | `contracts.status`, `contract_members`, `rounds`, `contributions` | `Rotation`; abstractly `RoundLifecycle` |
| Payout addresses | `api/me/address.ts`, `api/me/address/verify.ts`, `api/circles/member-address*`, `circles/almstinsVerify.ts` | the address, its stamp and its time in `members` | `Rotation`; as the panel shows them, `MemberPanel` |
| Votes | `circles/votes.ts`, `api/circles/join.ts`, `join-request.ts`, `propose.ts`, `vote/[id]/ballot.ts`, `api/cron/close-votes.ts` | `circle_votes`, `circle_vote_ballots`, live members, the active programme of a login | `CircleVotes` |
| Payment observation | `circles/observePayments.ts`, hourly | `contributions.status`, the observed transfer | `Payments` |
| Notification center | `circles/notifications.ts`, `api/cron/reminders.ts`, `api/me/preferences.ts` | `notifications`, `sent_at`, `members.notify_pref` | `Notices`, and `Payments` on top of it |
| What a contribution is read as | `circles/discipline.ts`, `susuCard.ts`, `api/circles/[id].ts`, `stats.ts`, `notifications.ts` | nothing: derived | `Cards` |
| Board of tins | `ContractTinsGrid.tsx`, `api/circles/index.ts`, `create.ts` | what each organizer's board shows | `Board` |
| A member's panel | `MemberAccount.tsx`, `api/me/*` | what it shows, what is on its way | `MemberPanel` |
| Pool watch | `circles/poolWatch.ts`, `api/cron/pool-watch.ts`, `api/admin/pool-alerts.ts` | `pool_alerts` | `PoolWatch` |
| Programmes, memberships, invitations | `tenants.ts`, `api/admin/invite.ts`, the invite and claim pages, `api/account/delete.ts` | `tenants`, `tenant_memberships`, `admin_invites`, `member_claims`, `members.user_id` | `Programmes` |
| Sign-in | `[...auth].ts`, `authAdapter.ts`, `api/auth/signup.ts` | `auth_users`, `auth_accounts`, `auth_credentials`, tokens | `Accounts` |
| Doors | `middleware/`, `lobby.astro`, `circleAccess.ts`, the guards of the pages | cookies; the page of each tab | `Doorway` |
| Mail synchronisation | `mailSync.ts`, `api/cron/sync-mail.ts`, `api/admin/mail/*` | `mail_messages`, folder cursors, rules | `MailSync` |
| Mailbox configuration, the button | `mailboxes.ts`, `api/admin/mail/refresh.ts` | a cooldown in memory | `Mailboxes` |
| Drafts | `mailboxWindows.client.ts`, `api/admin/mail/draft.ts`, `saveDraft`, `deleteDraft` | `mail_drafts`, the Drafts folder, the dialog | `Composer` |
| Filing | `mailboxWindows.client.ts`, `api/admin/mail/organize.ts` | the list, the selection, the offered rule | `MailDesk` |
| Mail threats | `mailThreats.ts` | `mail_threats`, the cache of verdicts, a budget | `MailThreats` |
| Wallet checker | `walletChecker.ts` | one check's flags and errors | `WalletCheck` |
| Support desk | `api/support`, `api/admin/support`, `pages/admin/support.astro` | the threads; the screen | `Support` |
| Demo tenant | `api/demo/start.ts`, `cleanup.ts` | the demo rows | `DemoSeed`, its batches in `DemoBatches` |
| Seed scripts | `scripts/seed*.mjs` | three sample circles | `Seeds`, their statements in `SeedRows` |
| Database access | `db.pg.ts`, `dbContext.ts` | connections and their tenant | `TenantContext` |
| Migrations | `scripts/pgMigrate.mjs` | `schema_migrations` | `Migrations` |
| Not modelled | see `PROJECT.json` and the end of this file | | |

`MC...` modules define the values of constants for TLC; `...Proofs` modules hold
the theorems.

How the parts meet: `activate` and `open-round` write the rounds and
contributions that `observePayments` and `runDueReminders` read later;
`open-round` and the member's address routes share her address row and its
stamp; `admitMember` writes the same `contract_members` rows as `arrange`; the
cron jobs, `open-round` and the vote routes all end in `notify`; the close-votes
cron runs the same function as the circle page does on read, so passes overlap;
a poll files by the rules that the desk sets and scans what it stored; the doors
read the memberships that programmes and votes write; everything goes through
`execute` and `batch`.

What makes it hard: no transaction spans a handler, so every check of one
statement is stale by the next; operators double-click and two of them work at
once; `open-round` waits for a remote service between reading an address and
freezing it; the workflows call with `--retry 3 --max-time 300`, so a slow run is
started again while it is still going; a run can die at any statement, and
nothing scans for half-finished work; the screens load without locks and apply
answers in the order they arrive. `PROJECT.json` lists each such place with its
line under `hazards`, and names the property that watches it or says why none
does.

## The modules

**Rotation.** `status`, `turn`, `roundState`, `recipient`, `snapshot` and `dues`
are the columns of contracts, contract_members, rounds and contributions, per
circle (the code calls a circle a *tin*); `turn[c][m]` is the seat of m in c,
`Absent` without a live row and `NoTurn` for a live row with a NULL turn.
`payout`, `stamped`, `graced` are the address columns, and `proven` is what
Verify knows. `arr`, `act`, `opn`, `chk` are the requests in flight:

| actions | code |
|---|---|
| `ArrangeTins`, `ArrangeAlready`, `ArrangeSlot`, `ArrangeSeat`, `ArrangeLeave` | arrange.ts, in this order |
| `Admit` | what `admitMember` writes (the vote itself is CircleVotes) |
| `ActivateRead`, `ActivateHolders`, `ActivateFlip`, `ActivateRound` | activate.ts: three turn holders needed, the guarded flip, one INSERT for each in slot order |
| `OpenNext` or `OpenNone`, then `OpenRecipient`, `OpenVerify`, `OpenStamp`, `OpenRound`, `CompleteOthers`, `InsertDues` | open-round.ts |
| `FinalPick`, `FinalRound`, `FinalClose` | its closing advance |
| `SetAddress`, `CheckRead`, `CheckAsk`, `CheckStamp`, `GraceRunsOut`, `ProveAddress` | the address routes, time, and Verify |
| `ArrangeDies`, `ActivateDies`, `OpenDies` | a request that dies half way |

`RoundLifecycle` is the abstract specification: each circle is activated once,
its rounds scheduled in slot order for distinct members, opened in that order,
completed, never taken back, and the circle is completed only after a round of
it is. `Rotation!Refinement` says that Rotation implements it, under the
identity mapping on the three variables they share.

**CircleVotes.** One circle: `live` members, `settled` logins (whose active
programme is this one), the rows of `vote` in INSERT order, `ended` (those past
`closes_at`), the `ballots`, and a `task` for each request and pass. `Join...`,
`Propose...`, `Cast...` follow the routes and `castBallot`; `PassStart`,
`PassTally`, `PassCount`, `PassClose`, `PassExpel` are `closeExpiredVotes` with
its list of due votes; `Admit...` are the three statements of `admitMember`,
reached from a ballot and from a pass. Kinds no route opens yet ("schema-ready")
are rows written from outside (`OpenOutside`).

**Notices, and Payments on top of it.** `Notices` is `notify`: read the member,
claim the in-app row, claim the email row, send, mark. `Tolerant` callers (the
cron jobs) catch a failing call and go on, the others give up. `Payments` adds
rounds as the cron jobs see them, wallets that change, transfers on a `chain`,
the pass of `observePayments` (`ObserveList`, `ObserveLookup`, `ObserveItem`,
`ObserveConfirm`) and of `runDueReminders` (`RemindDue`, `RemindLate`).
`openedAt` and `held` are bookkeeping of the model: the length of the chain when
a round opened, and the addresses a member has had.

**Cards.** Rounds open and complete, transfers are observed late, members leave
and come back; the operators `Reading`, `Glyph`, `Stars`, `CycleOf`,
`Remindable`, `ToldLate` are the derivations of the screens and the notices.

**Board, MemberPanel, Support, PoolWatch.** A screen (or a pass that lists once
and then asks for each) beside what is stored: `Board` has the three SELECTs of
a load, the drag, and the statements of arrange that seat and unseat;
`MemberPanel` is optimistic and has one request per tap; `Support` a composer
that outlives the thread it was opened for; `PoolWatch` a pass with retries
beside an operator who explains.

**Programmes, Accounts, Doorway.** Settling a user's programme at sign-in with
the founders' gate and its undo, invitations, claims, erasure (`Programmes`);
which user a provider's identity, a link or a password leads to (`Accounts`,
with Auth.js' order of calls as external); which page a tab comes to with which
cookies, as the middleware and the guards decide it (`Doorway`).

**MailSync, Mailboxes, Composer, MailDesk, MailThreats, WalletCheck.** The mail
server's folders and their copy, with cursors, the converging DELETE, rules,
organize and sends (`MailSync`); which mailbox a request may use, and the
cooldown (`Mailboxes`); a draft as a row and a copy in Drafts (`Composer`);
lists, selections and offers (`MailDesk`); the scan with its cache and budget
(`MailThreats`), and the check of one address by sources that may be down
(`WalletCheck`).

**DemoSeed, DemoBatches, Seeds, SeedRows.** The batches of a demo start, what
they need and clear; the statements of the three seed scripts over *parts*
(what a script puts into one table), with the cascades of the schema, and the
rows of the two live circles.

**TenantContext, Migrations.** Connections, their transaction and their tenant,
for single statements and batches; the runner's ledger, its `--mark`, its runs.

## The runs

| run | bounds | what it shows |
|---|---|---|
| `seating` | 3 members, 2 circles (one a target group), 4 slots, 1 drag, 2 activations, an admission, crashes | `OnePayoutPerMember`: whatever interleaves with the activation, each member gets one payout; `EveryTurnGetsARound`: an activation that ends has given every woman it counted the round of her slot |
| `rounds` | 3 members, 3 rounds, 1 activation, 1 advance at a time, 1 verify check, a wallet changing among 4, crashes | `TypeOK`, `VerifiedBeforeOpen`, `Refinement` |
| `calm` | 3 seated members with a gap in the slots and a fourth admitted without a turn, 2 concurrent advances, no deaths | `AtMostOneOpenAtRest`, `DuesComplete`, `AntiSwap` |
| `votes_group` | 3 people, 2 votes, 1 request, 2 passes | `TypeOK`, `DecidedOnce`, `InByTheGroupOnly` |
| `votes_live` | 2 people, 2 votes, 1 request, 1 pass, 1 crash or failed statement | `DueVotesAreDecided`, `PassedIsAdmitted` |
| `payments_chain` | 2 payers, 1 round, 2 transfers, 2 overlapping passes with a budget of 1 lookup, the recipient's wallet moving | `TypeOK`, `BackedByATransfer`, `MarkedOnce`, `EmailOncePerEvent` |
| `payments_told` | 1 payer, 1 round, 1 transfer, the hourly pass and the reminder run, emails, a preference being saved, 1 failure of any kind, EMAIL_SERVER set or not where each send happens | `SentMeansSent`; `TransfersAreSeen`, `PaidIsConfirmed` under fairness |
| `mail_filed` | 2 messages, 2 folders, a rule, one request between polls, 1 failure, 1 renumbering | `MailIsFiled` under fairness |
| `mail` | the six mail modules, see the head of `Mail.cfg` | `MailboxCopied`, `DraftKept`, `RuleFromAMove`, `DestroyOnlyFromTrash`, `VerdictsHold`, `HeldButton` |
| `office` | the twelve parts beside the circle's own, see the head of `Office.cfg` | one property for each part, below |

`mail` and `office` are composites (`MCMail`, `MCOffice`): in the models their
parts share no state, so `part` picks one that moves in each behaviour, and the
others stand at an initial state; interleaving two of them would only multiply
states that no property tells apart. Each property is its part's, together with
its `TypeOK`, guarded by `part`. What `office` checks:

| property | says |
|---|---|
| `RightProgramme`, `SeatClaimedOnce` | a user's active programme is one she has a membership or a seat in; a visit of an invitation that ended has brought its redeemer in, and one that let her in is followed by her active programme, unless it or her account went away; a claimed seat stays hers |
| `OneVerdict`, `JudgedForGood` | screens and notices say one thing of a member; what a contribution was once read as, it stays |
| `ReportsMatchTheChain` | an alert counts payers that exist, and a finished pass misses no pool among the wallets it asked about |
| `RepliesWhereWritten` | a reply reaches the user under whose name it was typed; a day's limit is exceeded by no more than the windows that sent at once |
| `NobodyDropsOut` | a member who is moved while a load reads is in a list of its answer, or in a tin it shows running, unless her tin was founded under the load |
| `NoWrongDoor` | no tab is sent round in a circle, but for an operator astray (whom the circle's pages do not let in, and the lobby sends there); she is astray only during a redemption, after one that stopped half way, or between two programmes; in demo mode is only who chose it |
| `PanelAgrees` | with nothing under way the panel shows what is stored, but for overlapping taps and answers that were lost |
| `OnePersonOneUser` | two people are never one user, nor one person two at the doors that know her email |
| `SeededIsWhole` | a demo start or a seed script that ran by itself, to its end, left what it seeds whole; a start with `?debug=1` the portfolio, with the community's rows gone; what a failed one leaves, the next by itself repairs |
| `TenantsApart` | every stored row is of its request's tenant, batches whole; connections go back clean |
| `LandsWholeInOrder` | a migration has taken effect exactly if its row says so, once, and in order |

and `mail`: no cursor passes a message it has not filed, and the copy is the
mailbox's unless something failed, was renumbered or began under another
(`MailboxCopied`); a letter said to be in Drafts is there until sent or
discarded, unless she hurried that letter (`DraftKept`); a rule comes from a move
that happened, or from mail that was taken away under the request, which the code
counts as moved (`RuleFromAMove`); only what lies in Trash is destroyed
(`DestroyOnlyFromTrash`); a replayed clean is recent, an outage keeps its caveat,
a clean that is not called partial was answered by every source
(`VerdictsHold`); of two presses within the cooldown one polls (`HeldButton`).

Two more runs end in a counterexample: the code does not do what its comment says.

| run | what TLC finds | the comment |
|---|---|---|
| `vouch_after_the_close` | the close pass fails an admission between the sponsor's yes and its UPDATE; the UPDATE hits no row, and she is admitted on a vote recorded as failed | votes.ts:285, "no vouch, no entry" |
| `payment_before_opening` | a transfer made before the round opened marks its contribution paid: no timestamp is compared | observePayments.ts:26, "only at or after the round opened" |

### Bounds, and why they are enough

* Three seated members are the fewest an activation accepts, and give a first,
  a middle and a last round; a fourth slot is what a drag needs to append.
* Two requests of a kind are what a lost race needs. Every guard that decides
  one (`FlipWins`, `StillScheduled`, `CloseWins`, `Claims`, ...) is
  broken on purpose by a mutant in `PROJECT.json`, and the run notices.
* In `seating` nothing opens rounds, and in `rounds` nobody is dragged: a drag
  reaches the rounds only through the plan that an activation reads.
* A vote's window ends at any moment (`WindowEnds`); two votes are enough for a
  pass to hold one while it works on another, and for an admission and an
  expulsion of different members to cross.
* Two transfers tell the newest from the older; a budget of one lookup makes
  the list shorter than what is pending.
* One failure of any kind may hit at every statement. Liveness then speaks of
  what the next run repairs.
* In `office`: three days let a due date, its grace and the day after pass; two
  of everything that can race. `MaxCleanups = 0`: demo/cleanup.ts is modelled
  but not exercised. `MaxLostTabs = 1`: a redemption may die half way, so that
  operators astray do occur. In `mail`, `Overlap = FALSE` has polls and organize
  requests take turns (`MailboxCopied` is proved for `TRUE` as well), and the
  CONSTRAINT `SomeLetterUnhurried` keeps to behaviours of the composer in which
  she works in turn on one of the two letters at least: of the others `DraftKept`
  says nothing.

Symmetry is used over interchangeable requests and passes only, and in no run
with a liveness property. Deadlock checking is off where a run really may stop
(all requests done, and bounds used up) and on in the others.

### Fairness

In `votes_live`, `payments_told` and `mail_filed`: weak fairness on the steps of
a request or run that has started, since the event loop resumes every awaited
statement; and weak fairness on starting a close pass, a
payment pass and a poll: render.yaml runs close-votes daily, the workflows run
observe-payments hourly and sync-mail every quarter of an hour. Nothing makes a
person act: no fairness on requests, ballots, transfers, wallets, moves, crashes
or the ends of windows. `TransfersAreSeen` is stated only for a budget of lookups
that covers what is pending, since with more pending than that it is false: the
earliest due dates are asked for first, every hour. Beyond these runs nothing
here needs fairness: the other properties are safety.

## What is proved

All theorems are for any values of the constants that satisfy the named
assumptions: any number of members, circles, requests, passes, failures.

| module | theorem | states |
|---|---|---|
| `RotationProofs` | `TypeCorrect` | `[]TypeOK` |
| | `PayoutsDistinct` | `[]OnePayoutPerMember` |
| | `CountedGetTheirRounds` | `EveryTurnGetsARound` (an action property) |
| | `RecipientFixed` | `AntiSwap` (an action property) |
| | `VerifiedOpenings` | `[]VerifiedBeforeOpen` |
| | `OneRoundOpen`, `OpenedRoundsBilled` | `[]AtMostOneOpenAtRest` and `[]DuesComplete`, whose premise is that no request dies half way (and, for the dues, that nobody is dragged): otherwise they are false |
| | `RotationImplements` | `Refinement`: Rotation implements RoundLifecycle |
| `CircleVotesProofs` | `VotesTyped`, `OnlyTheGroupBringsIn`, `VerdictsAreFinal`, `TalliesWait` | `[]TypeOK`, `[]InByTheGroupOnly`, `DecidedOnce`, and that a tally decides only after the window ended |
| `PaymentsProofs` | `PaymentsTyped`, `OneMailPerEvent`, `SentDidLeave`, `LedgerIsBacked`, `MarkedForGood` | `[]TypeOK`, `[]EmailOncePerEvent`, `[]SentMeansSent`, `[]BackedByATransfer`, `MarkedOnce` |
| `RecordProofs` | `ScreensSayOneThing`, `NobodyIsJudgedTwice` | of Cards: `[](TypeOK /\ OneVerdict)`, `JudgedForGood` |
| | `PanelShowsWhatIsStored` | of MemberPanel: `[](TypeOK /\ PanelAgrees)` |
| | `ReportsMatch` | of PoolWatch: `[](TypeOK /\ ReportsMatchTheChain)` |
| | `ScreensSayOneThingThere`, `NobodyIsJudgedTwiceThere`, `PanelShowsWhatIsStoredThere`, `ReportsMatchThere` | `[]OneVerdict`, `JudgedForGood`, `[]PanelAgrees`, `[]ReportsMatchTheChain` of `office` |
| `OfficeProofs` | `NobodyFallsBetween`, `BoardTypes` | of Board: `[]NobodyDropsOut`, `[]TypeOK` |
| | `RepliesReachWhomTheyName` | of Support: `[](TypeOK /\ RepliesWhereWritten /\ WithinTheDay)` |
| | `TenantsNeverMix` | of TenantContext: `[](TypeOK /\ TenantsApart)` |
| | `WholeOrNotAtAll`, `MigrationTypes` | of Migrations: `[]LandsWholeInOrder`, `[]TypeOK` |
| | `NobodyDropsOutThere`, `RepliesReachThere`, `TenantsNeverMixThere`, `WholeOrNotAtAllThere` | `[]NobodyDropsOut`, `[]RepliesWhereWritten`, `[]TenantsApart`, `[]LandsWholeInOrder` of `office` |
| `PeopleProofs` | `OneUserEach` | of Accounts: `[](TypeOK /\ OnePersonOneUser)` |
| | `DoorsLeadHome` | of Doorway: `[](TypeOK /\ NoRedirectLoop /\ StaysHome /\ DemoByChoice)` |
| | `SeatsAreClaimedOnce` | of Programmes: `SeatClaimedOnce` |
| | `RightProgrammeHolds` | of Programmes: `[](TypeOK /\ ActiveIsBacked /\ InvitedGetIn)` |
| | `OneUserEachThere`, `NoWrongDoorThere`, `SeatClaimedOnceThere`, `RightProgrammeThere` | `[]OnePersonOneUser`, `[]NoWrongDoor`, `SeatClaimedOnce`, `[]RightProgramme` of `office` |
| `MailProofs` | `RulesFollowMoves`, `NothingElseDestroyed`, `DeskTypes` | of MailDesk: `[]RuleFromAMove`, `DestroyOnlyFromTrash`, `[]TypeOK` |
| | `KeptIfSheWaits`, `PanelAndFolderAgree`, `ComposerTypes` | of Composer: `[]DraftKept`, `[]DraftsAgree`, `[]TypeOK`; the first two speak of the letters she has not hurried, and without that TLC finds a letter lost |
| | `HeldButtonHolds` | of Mailboxes: `[](TypeOK /\ HeldButton /\ InTheirName)` |
| | `VerdictsReplayed` | of MailThreats: `[](TypeOK /\ CleanIsRecent /\ CaveatSurvives /\ ColouredByTheWorst)` |
| | `CleanIsAnsweredHolds` | of WalletCheck: `[](TypeOK /\ CleanIsAnswered)` |
| | `RulesFollowMovesThere`, `NothingElseDestroyedThere`, `DraftKeptThere`, `HeldButtonHoldsThere`, `VerdictsHoldThere` | five properties of `mail`: `[]RuleFromAMove`, `DestroyOnlyFromTrash`, `[]DraftKept`, `[]HeldButton`, `[]VerdictsHold` |
| `SyncProofs` | `NothingIsSkipped` | of MailSync: `[](TypeOK /\ NothingSkipped /\ WholeMessages)`, for any polls, requests and sends that overlap and fail; a folder that is renumbered is spoken of until then, a whole row where nothing failed |
| | `PanelIsTheMailbox` | of MailSync: `[]PanelIsMailbox`, which speaks of behaviours in which nothing began under another, failed or was renumbered; with an overlap TLC finds a letter with two rows (see below) |
| | `MailboxCopiedThere`, `NothingIsSkippedThere` | `[]MailboxCopied` of `mail`, and the first three of its four parts, both for all values of the constants |

A component that runs as a part of `mail` or `office` has two theorems. One is of
the component alone, `Part!Spec => ...`, and assumes what is said of its constants
(`DeskConstants`, `TenantConstants`, ...; TLC evaluates them for the values of the
runs). The other, whose name ends in `There`, is of the composition's `Spec`, and
states the very property that the run checks: where the part is the one that
moves, its steps are the component's, and where it is not, its property asks
nothing. The instances in the composites leave the constants of the components
open, so both are as general as the module.

### The arguments

*Rotation.* `TypeOK` is not inductive: `OpenRecipient` reads the address of a
round's recipient, who has to be a member. `Typed` adds `RecipientKnown` and
`PickKnown` (an advance that picked a round still finds one there: rounds are
never deleted). `PayoutInv` makes activate.ts's "the guard is the lock" precise:
a forming circle has no rounds, so the winner of the flip starts from nothing;
whoever is left in its plan has no round yet; and two activations are never both
past the flip of one circle. So an activation finds none of its slots taken
(`EveryTurnGetsARound`): the rounds there are came from its own plan. The plan is a snapshot of the seats, so nothing
that happens to the seats later matters. `AntiSwap` is immediate per action once
it is known that only `OpenRound` writes a snapshot and only of a scheduled
round. `VerifiedInv` carries what a request learnt at the gate until the INSERT:
an address read and confirmed stays proven, whatever she sets since. `SweepInv`:
two rounds of a circle are open together only while the request that opened one
of them has still to complete the others. `BillInv`: an opened round is billed,
or its advance has still to bill it; without drags the turn holders stay the
same, since an admission gives no turn. For the refinement, `OrderInv` says that an
activation schedules the smallest turn left and everything scheduled is below
it, that the round an advance opens is the earliest scheduled one if it still is
scheduled, and that a closing advance has a completed round. Every step then maps
to a step of `RoundLifecycle` or to a stutter.

*CircleVotes.* `GroupInv` says what a task at each statement knows: a task on
its way to an admission has her sponsor's yes among the ballots or a passed
admission behind her; a tally is of a vote whose window has ended. Ballots and
decided votes are never taken back, so what a task knows stays true while others
move. `DecidedOnce` needs the guard of the UPDATE and no more.

*Notices and Payments.* `EmailInv`: the row of a mail that is about to leave is
claimed, one call at a time is past the claim of one event, and no mail of it has
left before. `LedgerInv` adds that what a pass looked up are transfers of the
chain, that what it is about to mark is matched by one of them in full, from an
address the payer has had to the frozen one; a chain only grows, and an address
once held stays in `held`. `Newest` needs the existence of a smallest element,
which comes from well-founded induction on the naturals, stated once.

*Board.* Who is dragged from one tin to another is seated before she is
unseated, by two statements, and several organizers may drag the same woman. The
invariant counts: a member known to some board, or in some tin, is in more
tins than there are requests still to take her out of one (`Seated`). A load
then finds her waiting, or she is in a tin when it reads the roster
(`Accounted`): in one the answer shows forming she is listed, in one it shows
running no names are shown by design, and else the answer has no card of it
because it was founded since (`FoundedSince`).

*Composer.* Appending first and deleting second keeps a letter only if what is
deleted is the old copy of the same letter. `Matches` says so of every uid that a
row, a save or a deletion holds, and rests on two facts: uids are given once
(`Numbered`), and wherever an id occurs with a letter (a row, the stale list, the
form, a request) it is the same letter (`OneLetter`), because a fresh id is one
that none of them mentions. A deletion is of a letter that is over already
(`OverFirst`), and stays so since no save runs beside it, or else both letters
are `hurried` (`OneAtATime`): this is where haste can lose a letter. A letter that
is not hurried has its requests one after another, whatever goes on with the
others. For the agreement, `AgreeInv` holds as long as nothing
failed: a letter has one id as well, rows and copies correspond but for what a
request is replacing or deleting (`Copied`), and the row of a letter that is over
has a request that will take it away (`OverGoes`).

*MailDesk.* What an organize request did is recorded (`filed`), and an offer, or
a rule, is of a sender one of whose messages was moved (`ActsKnow`,
`OffersFiled`), or was `taken` by somebody else between the request's SELECT and
its turn, which needs that a list shows a row once and that only one offer is up. That destruction reaches only Trash holds by the guard in organize.ts,
for every message of a batch; the theorem needs no more than types.

*TenantContext.* A connection out of its pool is held by exactly one request,
and where that request stands determines its transaction, its tenant, and which
statements it carries as whose (`Serves`). A connection comes back `Fresh`
because the tenant is set local to the transaction.

*Migrations.* A run that waits for its COMMIT has inserted a ledger row that
nobody has committed, and the primary key lets one through (`OneCommits`); a run
at work knows that its own earlier files are in the ledger (`Informed`), because
its list was ordered and it stops at the first failure.

*Cards.* A contribution is read from dates that never change again once set: a
transfer is observed with the day it was made, the newest wins, and the calendar
only moves on. So what is read is the last word (`StaysJudged`) once it is known
that no observation is of a later day than today, and that whoever has another
turn than she began with has left (`MovedHasLeft`). The glyph of the card, which
looks at the greatest cycle, and the record agree by what `Min` and `Max` of a
finite set of numbers are (`LeastNumber`, `GreatestNumber`: no library theorem
says so, they come from well-founded induction on the naturals and on sizes).

*MemberPanel.* The property speaks of parts of the screen whose requests ended,
came one at a time and failed unseen by nobody; in between, the screen is ahead of
what is stored, so the invariant says by what: each kind of request, at each of
its statements, knows what is stored still (`Aware`) and the screen shows what it
will have written (`Shown`). Requests of the other two parts touch neither. The
badge is a count of the unread: what is marked read lowers it by as much as it
shortens the list of the unread.

*PoolWatch.* The count on record is of members, the chain has wallets. A pass has
listed each member with one wallet, no wallet twice (`OneRowPerWallet`), and whom
it holds to have fed an address did so from the wallet it asked about
(`SinksWerePaid`); the map from these members to their wallets is injective, so
they are no more than the senders on the chain, which only grow. The other way
round, who was asked about and had fed an address is among those counted, or the
address is on record already (`NothingForgotten`).

*Support.* Opening a thread empties the composer or keeps it with the name over
it, and the request carries the name of its moment (`TypedUnderHerName`). The
limit of a day is read by one statement and used by the next: messages of the day
and windows past the count are together fewer than the limit and the windows
(`TodayCounted`).

*Accounts.* `OnePersonOneUser` is a statement about who came in, ever. The
invariant follows a claim from the callback to the row: whoever came in by a door,
is linked to it or is about to be (`Claimed`) has the email the door shows, or the
row had none, and then it has that one door (`NoEmailOneDoor`). What a callback
has read of a user stays true of her or she is gone (`Knows`); the unique index is
what keeps two rows apart (`OneRowEach`).

*Seats.* Every step leaves the seats alone, founds one, binds a free one to
somebody without a seat in that programme, or empties seats of programmes and
users that are gone (`SeatMoves`); that the last is not reached for a programme in
use needs `SignsKnown`: a sign-in that undoes a programme has marked it as gone,
by the statement before.

*Programmes.* What a request has read of memberships and seats stays true of them,
or their programme is in `gone`, or their user was deleted and does not come back
(`Stays`). So a sign-in that is about to attach somebody knows her membership
(`SignRight`), a visit that is about to point her knows her membership or seat
(`VisitRight`), and an active programme is backed when it is set and after
(`ActiveRight`). That a deleted user cannot be attached again rests on
`Registered`: who is known to a request is there or is deleted for good. A
programme has a membership or a link only once its founder's row is in (`Begun`),
so the founder's clean-up after a failed INSERT takes nobody's programme away. And
whom some visit has let in, one of her visits has pointed (`PointedRight`), since a
sign-in attaches only who has no active programme.

*Doorway.* Each page has a `Rank` under the cookies she has, and a redirect leads to
a page of a lower one (`Downhill`): the login and the landing page lie lowest, what
signs her out or changes the demo highest. So the pages a tab has been sent through
lie above the one it asks for (`Downward`), and it does not come back to one. The
circle's pages and the lobby send to each other; they disagree exactly on an
operator who is `Astray`, and a redirect never makes her so, as it leaves her
session as it is or ends it. That she is not astray to begin with: whatever points
to a programme points to one she is, or is being made, somebody in (`Belongs`), and
with one programme and no statement lost that is the one she operates
(`PointsHome`).

*Mailboxes.* Reading a mailbox's stamp and setting it is one step, with nothing
awaited in between. Stamps are of moments that have been, no earlier than a
cooldown after the start (`Stamped`), and what was begun is not after its box's
stamp (`BeforeTheStamp`); so what begins next lies a cooldown after all of it,
unless a restart has forgotten the stamps, and `HeldButton` says which restart.

*MailSync.* What the cursor has passed is filed (`NumbersHold`): a poll has filed
what lies up to its own `since`, has what comes next in its batch or will fetch
it later, and lets go of a message only when its row is there (`PollExact`). A row
disappears only with its message: an expunge or a move has taken that from the
server by the statement before (`OrgExact`, and the last conjunct of `PollExact`),
and a moved message gets a uid above every cursor. All this is said of a folder
as long as it has its first numbers, so overlaps, failures and renumberings do not
matter. Attachments and the scan are the inserting poll's, which its row names
(`SyncWhole`). That the panel is the mailbox needs turns: as long as
nothing has `overlapped`, at most one of the polls, requests and sends is at work
(`OneAtATime`, which follows from how they began and is not assumed). Then
each row has its message where the row says, or a request holds
it between the move on the server and the UPDATE; and of a row without uid the
message is still to be fetched in some folder, so that the poll that fetches it
takes the row away first (`RowPlaced`, `Awaited`). It is enough that nobody else
fetches it meanwhile, which is what the turns are for.

*MailThreats.* A verdict in the cache is as it was made, with its caveat, and a
clean one expires a clean one's days after it was made (`KeptVerdict`), so a scan
that takes it before it expires takes a recent one. What a scan went by while its
message is open is the open scan's, and a flag among it is among its findings
(`ScanOpen`), so the colour that the stamp leaves is of a finding. That a row for
the same item is there already (ON CONFLICT DO NOTHING) does not lower the colour:
it is of the findings, not of the rows.

*WalletCheck.* A check that has not settled has lost no question: each of GoPlus's
chains is being asked, is named in the errors, or has answered, and what was
answered is in the flags (`WalletInv`); the same of honeypot.is, whose fetcher
stands before its one request or has said how it went (`HoneypotTurn`). No flag
weighs so little that the rounding hides it (`FlagsScore`).

The invariants were model-checked, on instances like those of the runs, before
they were proved. Proving changed the models where their form stood in the way and
not where it did not: what was kept in a sequence and only compared is numbered or
a set (the files left to a run, the slots of a list, who wrote last, the boxes
left to a poll, the memberships, whose order is the `age` of a row, the messages a poll has
fetched); a renumbering gives each message its rank; a score adds the weights by
name; and the fetchers of a check, which share nothing, take turns. `Bindable`,
`Aim` and `Redirected` name a step that was written out twice. `InvitedGetIn` used
to except requests in flight and states after a failure; the proof showed that it
need not: it says of every visit what it has done by then. Bounds are assumed numbers, and members, tins, boards,
windows and messages finite where the code (or the argument) counts them.

### Only model-checked

* The liveness properties (`DueVotesAreDecided`, `PassedIsAdmitted`, `TransfersAreSeen`, `PaidIsConfirmed`, `MailIsFiled`): out
  of the prover's reach, as is everything with `ENABLED`.
* `SeededIsWhole` is a matter of particular batches and statements, written down
  as data; TLC goes through all of their orders.
* `ReadsAsSaid` in `SeedRows`, which relates the seeded rows to what the scripts
  say of them: data, evaluated once by TLC.

## What is not modelled, and why

Target groups beyond their activation; amounts but for enough or too little;
answers of the explorer longer than its page of 100; the `due_today` nudge;
mid-entry votes (no code opens one); members without an email; unread marks and
badges of the mail panel; what the migrations do to the schema; rate limits on
sign-in; headers. Minor paths that are folded into others: a failed load of the application
(middleware.ts:95-99), which redirects; a failed undo of a programme at sign-in
(tenants.ts:368-374), which is swallowed and lets the sign-in succeed; preferences
that cannot be read (preferences.ts:55-57), which answers the defaults as if they
had been; an APPEND whose answer names no uid (mailSync.ts:775), which leaves a
draft's row without one; days that are taken from the process and from the
database in turn, which `Cards` takes for one `today`; and a drop or a load begun
on a board before the last has answered, which `Board` takes for another board's.
The geoblock's table of countries is a choice. The admissions
hold is one switch: a held door is a request that changes nothing. The record
proof is signature computations over one file. The cache of verdicts in the process
(walletChecker.ts:161-175, asked at mailThreats.ts:251) is left out since it is
always empty: nothing calls its `setCache`. The puller, transfers, wallets,
cache lock and upstream quota are imported by nothing. Account settings and price
alerts are rows of one user, written by one statement each. Translations, card
export and analytics decide nothing.

## What was noticed

Noticed while modelling and not turned into properties, because no comment, doc
or test says what should happen, or because the property excepts it by name.

*Circles.*
* An advance that dies between opening a round and completing the earlier one
  leaves two open; the closing advance completes the highest only, so the other
  stays open in a completed circle (open-round.ts:71-95). An activation that
  dies after its flip leaves a circle with some rounds missing, and cannot be
  repeated. `api/circles/index.ts` mixes two open rounds.
* The status of the contract is never read by open-round: an advance that
  overtakes a slow activation may close the circle early. A drag that read
  `forming` goes through after the activation (arrange.ts:11 has the roster
  closed by then; only the UPDATE is guarded). The dedupe key of
  `cycle_complete` is the contract, so only the first member's notice is written
  (open-round.ts:104). A verify request may stamp an address set after the one
  it read; open-round asks again, so only what the roster shows is wrong.
* Two join requests at once both find no open admission and stack two, though
  votes.ts:76 says a candidate should not be able to stack requests. A sponsor
  who has left can still vouch; noes of members who left count.
* A `partial` contribution is never looked at again. The newest of several
  transfers wins. Observation reads only open rounds, so a late payment after the
  round completed is never seen and "behind" never turns into "repaid"
  (discipline.ts:35-37). An address given up by one member and taken by another
  brings its old transfers along.
* Reminders and late notices are sent from a list read at the start, to members
  who have left as well. Without EMAIL_SERVER, `email.ts` returns as if it had
  sent (33-36), and `notify` stamps `sent_at`, though notifications.ts:236 wants
  NULL for what was not sent; LoginPageComponent.astro:319 says that it is unset.
  `SentMeansSent` excepts these by name. Two saves of preferences at once undo each other.
* The card reads `LIMIT 1` without an order and may find a row of a past
  membership; `stats.ts` counts a member who came back twice; `cyclesCompleted`
  may fall back when somebody leaves.
* Board: with no tins the bar of those who wait is hidden, though
  index.ts:191-192 returns them; a late quiet load overwrites a newer one; a
  refused drop does not reload; a drag from a stale board copies her instead of
  moving; who is put into a tin founded between the first and the third SELECT of a
  load is nowhere in its answer (index.ts:234); an expulsion under a move can leave her in no tin.
* Pool watch: what was "never flagged" may be flagged after its recipient changes
  address; members past the cap of 40 are never scanned; an explained finding
  never reopens (poolWatch.ts:171-172).
* Panel: "mark all read" marks notices never shown; two quick toggles lose one; a
  late read shows an old address as verified; an answer of 500 leaves the
  optimistic value; after a lost answer to a save the old address stays shown.
* Member cards: an advance whose answer was lost and is clicked again advances
  again; any save reloads and unmounts the other editors.

*Programmes, accounts, doors.*
* Two founders race; undoing one's programme can take away what the other
  adopted; erasure reads one membership (`LIMIT 1`); claimed members have no
  `tenant_memberships` row (tenants.ts:310-314); a crash after an invite is
  consumed spends it.
* 0022_auth.sql:36-38 says several rows may have no email, but the code stores
  `''`, so a second one meets the unique index; "allow separate account" ends in
  `createUser` returning the existing user; a sign-up that dies after its first
  INSERT leaves a user without a password whose email "exists"; a link used by
  two requests at once signs in twice.
* Doors: a redirect loop after a lost second statement, or with two programmes
  (circleAccess.ts:81-83 against lobby.astro:58-63); the JWT is refreshed only at
  /api/auth/session, which no page calls.
* Support: "5 per 24 hours" is per UTC day; a reply inserted between the SELECT
  and the UPDATE is marked read unseen; a late load shows one user's messages
  under another's name; a send empties a text begun for somebody else meanwhile.

*Mail.*
* A poll that reads the target folder between a move on the server and its UPDATE
  stores the message under its new uid, and the UPDATE then leaves a second row of
  it, without uid. The move forgets the cursor so that the next poll reads the
  folder again and takes that row away (mailSync.ts:872-878); but if the first poll
  saves its cursor after that, none does.
* After a UIDVALIDITY reset the cursor keeps the greater UID (mailSync.ts:143
  wants to start over from zero); attachments of a message are lost in a crash
  between its INSERT and theirs; a rule that points at INBOX moves forever; the
  cooldown stamps the arrival of a press, so polls may start closer together, and
  the cron beside the button may poll one box at once.
* An organize request counts a message as moved though somebody else has taken it
  away: neither the server's MOVE nor the UPDATE says that it found nothing
  (organize.ts:143-144, mailSync.ts:860-880), and a rule may be offered for it.
* A save whose answer comes after the form was reopened belongs to another
  letter; a late load shows another folder's rows; an action on one row takes an
  `ok` with `failed` in it for success; the rule is offered when only some rows
  are listed.
* Capped, partial and failed scans stamp `scanned_at` (mailThreats.ts:312-315); a
  known row keeps out a later danger; an expired danger is replaced by a partial
  clean in an outage. GoPlus' 200 without a result counts as having run;
  `coverage.chainabuse` says it ran when it was skipped; answers of honeypot.is
  and Chainabuse reach neither level nor flags; ENS, label and Etherscan are
  silent about answers that are not ok.

*Demo, seeds, database.*
* No migration creates `cache`, and the INSERT into it in demo/start.ts:287-291 is
  not caught; the clearing is one batch, so one missing table leaves everything;
  two overlapping starts double the sample tins. A start with `?debug=1` answers
  after clearing the community's rows and before seeding them (start.ts:513-530).
  There is one demo tenant (`tables` and `rows` are its).
* Running seed:beta again deletes the 26 members and, with them, the rosters of
  the forming tins, though seedBetaCircle.mjs:6-8 says it touches nothing else in
  the programme; round 24 is for a member who left
  after round 10; "25 wallets pay the 26th" is 24 in most rounds; a script that
  dies half way has to be run again.
* A COMMIT whose answer is lost is reported as failed though it is stored.

## Plan

Left for later: the refinement of the abstract specification to crashes (what a
circle is owed when an advance died).
