------------------------------ MODULE MCOffice ------------------------------
(***************************************************************************)
(* The parts beside the circle's rounds, votes, payments and mail, for TLC.*)
(* They share no state in the models, so one of them moves in each         *)
(* behaviour, as in MCMail.                                                *)
(***************************************************************************)
EXTENDS Integers, Sequences, TLC

CONSTANTS
    ama, efua, yaa, None, MaxFailures,
    \* Programmes
    Users, SignIns, Visits, Links, Seeds, BOOTSTRAP_OWNERS, MaxErasures, MaxBegun,
    \* Cards
    CardWomen, SaverTurn, NoSaver, Cadence, Grace, Lead, MaxDay, MaxTransfers, MaxLeaves,
    \* PoolWatch
    aa, bb, cc, Watched, Wallets, FirstWallet, Order, OtherPools, Passes, Threshold, Scanned, MaxChanges,
    \* Support
    Writers, Windows, RATE_LIMIT_COUNT, MaxSupportDay, MaxMessages,
    \* Board
    A, m1, Dragged, Tins, Placed, Founded, Boards, Needed, MaxLoads, MaxDrops, MaxVotes, MaxCrashes,
    \* Doorway
    t1, t2, Tenants, Tabs, Typed, MaxLostTabs,
    \* MemberPanel
    k1, Keys, DEFAULTS, PanelAddresses, Requests, LIMIT, MaxNotices, MaxTaps,
    \* Accounts
    g1, h1, h2, People, Identities, OwnerOf, Shows, Logins, Callbacks, Signups, MaxStarts, MaxErased,
    \* DemoSeed and Seeds
    MaxDemoStarts, Schemas, MaxCleanups, MaxRuns,
    \* TenantContext
    r1, r2, r3, r4, ga, gb, Sent, RequestTenant, Statements, SchemaDDL, WebPool, OwnerPool, MaxLost,
    \* Migrations
    d1, d2, d3, f1, f2, f3, f4, Runners, Files, LEGACY, Marks

VARIABLES
    part,       \* the one that moves
    failures,
    tenants, memberships, exists, active, cookie, link, seed, sign, visit, erase, gone,
    today, circle, round, owed, observed, newest, seat, past, transfers, leaves,
    address, updated, paid, pass, alerts, changes,
    supportDay, thread, post, header, draft, reply, made,
    status, live, screen, load, hand, drop, expelled, loads, drops, votes, crashes,
    role, member, seated, activeTenant, pointing, cookies, tab, chosen, switches,
    pref, notices, read, row, view, req, doubtful, overlapped, taps,
    email, accounts, creds, links, cb, su, came, starts, erased,
    tables, rows, over, start, alone, cleanups,
    conn, call, stored,
    ledger, schema, run,
    seedRows, seedRun, seedAlone, whole

Membership == INSTANCE Programmes
Card == INSTANCE Cards WITH Women <- CardWomen, Turn <- SaverTurn, Nobody <- NoSaver
Pool == INSTANCE PoolWatch
    WITH Members <- Watched, First <- FirstWallet, Elsewhere <- OtherPools
Desk == INSTANCE Support
    WITH Users <- Writers, MaxDay <- MaxSupportDay, today <- supportDay, active <- header
Grid == INSTANCE Board WITH Members <- Dragged
Door == INSTANCE Doorway WITH MaxFailures <- MaxLostTabs, active <- activeTenant, changes <- switches
Panel == INSTANCE MemberPanel WITH Addresses <- PanelAddresses
Login == INSTANCE Accounts WITH Users <- Logins
Demo == INSTANCE DemoSeed WITH MaxStarts <- MaxDemoStarts
Context == INSTANCE TenantContext
    WITH Requests <- Sent, Tenant <- RequestTenant, MaxFailures <- MaxLost, req <- call
Migration == INSTANCE Migrations
Script == INSTANCE Seeds WITH rows <- seedRows, run <- seedRun, alone <- seedAlone

people == <<tenants, memberships, exists, active, cookie, link, seed, sign, visit, erase, gone>>
cards == <<today, circle, round, owed, observed, newest, seat, past, transfers, leaves>>
pool == <<address, updated, paid, pass, alerts, changes>>
support == <<supportDay, thread, post, header, draft, reply, made>>
board == <<status, live, screen, load, hand, drop, expelled, loads, drops, votes, crashes>>
doorway == <<role, member, seated, activeTenant, pointing, cookies, tab, chosen, switches>>
panel == <<pref, notices, read, row, view, req, doubtful, overlapped, taps>>
logins == <<email, accounts, creds, links, cb, su, came, starts, erased>>
demo == <<tables, rows, over, start, alone, cleanups>>
context == <<conn, call, stored>>
migrations == <<ledger, schema, run>>
scripts == <<seedRows, seedRun, seedAlone, whole>>
vars == <<part, failures, people, cards, pool, support, board, doorway, panel, logins, demo,
          context, migrations, scripts>>

\* A part that does not move stands at one of its initial states.
Init ==
    /\ part \in {"people", "cards", "pool", "support", "board", "doorway", "panel", "logins",
                 "demo", "context", "migrations", "scripts"}
    /\ Membership!Init /\ Card!Init /\ Pool!Init /\ Desk!Init /\ Grid!Init /\ Door!Init
    /\ Panel!Init /\ Login!Init /\ Demo!Init /\ Context!Init /\ Migration!Init /\ Script!Init
    /\ part # "panel" => /\ pref = DEFAULTS /\ notices = 0 /\ row.address = None
                         /\ req[CHOOSE q \in Requests : TRUE] = Panel!Request("loadPrefs", None)
    /\ part # "demo" => tables = Demo!Tables
    /\ part # "scripts" => \A p \in DOMAIN seedRows : seedRows[p] = "none"

Moves(p, step) == part = p /\ part' = part /\ step

Next ==
    \/ /\ Moves("people", Membership!Next)
       /\ UNCHANGED <<cards, pool, support, board, doorway, panel, logins, demo, context, migrations, scripts>>
    \/ /\ Moves("cards", Card!Next)
       /\ UNCHANGED <<failures, people, pool, support, board, doorway, panel, logins, demo, context, migrations, scripts>>
    \/ /\ Moves("pool", Pool!Next)
       /\ UNCHANGED <<people, cards, support, board, doorway, panel, logins, demo, context, migrations, scripts>>
    \/ /\ Moves("support", Desk!Next)
       /\ UNCHANGED <<people, cards, pool, board, doorway, panel, logins, demo, context, migrations, scripts>>
    \/ /\ Moves("board", Grid!Next)
       /\ UNCHANGED <<failures, people, cards, pool, support, doorway, panel, logins, demo, context, migrations, scripts>>
    \/ /\ Moves("doorway", Door!Next)
       /\ UNCHANGED <<people, cards, pool, support, board, panel, logins, demo, context, migrations, scripts>>
    \/ /\ Moves("panel", Panel!Next)
       /\ UNCHANGED <<people, cards, pool, support, board, doorway, logins, demo, context, migrations, scripts>>
    \/ /\ Moves("logins", Login!Next)
       /\ UNCHANGED <<people, cards, pool, support, board, doorway, panel, demo, context, migrations, scripts>>
    \/ /\ Moves("demo", Demo!Next)
       /\ UNCHANGED <<people, cards, pool, support, board, doorway, panel, logins, context, migrations, scripts>>
    \/ /\ Moves("context", Context!Next)
       /\ UNCHANGED <<people, cards, pool, support, board, doorway, panel, logins, demo, migrations, scripts>>
    \/ /\ Moves("migrations", Migration!Next)
       /\ UNCHANGED <<people, cards, pool, support, board, doorway, panel, logins, demo, context, scripts>>
    \/ /\ Moves("scripts", Script!Next)
       /\ UNCHANGED <<people, cards, pool, support, board, doorway, panel, logins, demo, context, migrations>>

Spec == Init /\ [][Next]_vars

-----------------------------------------------------------------------------
(* Values *)

\* Cards: their turns. PoolWatch: their wallets, and when they last changed.
ThreeTurns == ama :> 1 @@ efua :> 2 @@ yaa :> 3
ThreeWallets == ama :> aa @@ efua :> bb @@ yaa :> cc
ByName == ama :> 0 @@ efua :> -1 @@ yaa :> -2

\* Support: ama has the drawer open twice. Board: one tin, with one woman in it.
TwoDrawers == {<<ama, 1>>, <<ama, 2>>}
OneInA == {<<A, m1>>}

\* Doorway: one tab goes anywhere but to the leaf pages, another starts the demo.
AnyPage == t1 :> {"circle", "new", "dashboard", "lobby", "admin", "security", "onboarding", "login", "logout", "signup"}
           @@ t2 :> {"demoStart"}

\* MemberPanel: the preference is on by default.
OnByDefault == k1 :> TRUE

\* Accounts: ama has an identity at Google and one at GitHub, efua one at GitHub.
TheirOwn == g1 :> ama @@ h1 :> ama @@ h2 :> efua

\* DemoSeed: all tables, or but one.
WithAndWithoutCache ==
    {{"wallets", "groups", "accounts", "snapshots", "events", "imports", "notes", "tins", "entries",
      "community", "destinations", "cache", "entities"}, {"cache"}}

\* TenantContext: two requests of one programme, one of another, one of none.
FourRequests == r1 :> ga @@ r2 :> gb @@ r3 :> None @@ r4 :> ga
OnesAndTwos == r1 :> 1 @@ r2 :> 2 @@ r3 :> 1 @@ r4 :> 2

\* Migrations: four files, of which the first is held; one runner only marks.
FourFiles == <<f1, f2, f3, f4>>
OneMarks == d1 :> None @@ d2 :> None @@ d3 :> f3

ASSUME OfficeConstants ==
    /\ Membership!ProgrammesConstants /\ Card!CardsConstants
    /\ Pool!PoolConstants /\ Desk!SupportConstants /\ Grid!BoardConstants /\ Door!DoorwayConstants
    /\ Panel!PanelConstants /\ Login!AccountConstants /\ Demo!DemoConstants
    /\ Context!TenantConstants /\ Migration!MigrationConstants

\* Seeds: no state is in this, TLC evaluates it once.
ASSUME Script!ReadsAsSaid

-----------------------------------------------------------------------------
(* Each property is its part's, where that part moves, with its TypeOK. *)

\* Programmes (tenants.ts, invite, claim): the active programme is one she has
\* a membership or a seat in, but for one undone or deleted under her; and a visit
\* of an invitation that ended has brought its redeemer in.
RightProgramme ==
    part = "people" => Membership!TypeOK /\ Membership!ActiveIsBacked /\ Membership!InvitedGetIn

\* Programmes: a seat is claimed once and stays hers.
SeatClaimedOnce == [][part = "people" => Membership!SeatsStayHers]_vars

\* Cards (discipline.ts): what a contribution was once read as, it stays.
JudgedForGood == [][part = "cards" => Card!StaysJudged]_vars

\* Cards (susuCard.ts, notifications.ts): screens and notices say one thing of her.
OneVerdict == part = "cards" => Card!TypeOK /\ Card!OneVerdict

\* PoolWatch (poolWatch.ts): on record is what the chain says, and no pool passes unseen.
ReportsMatchTheChain == part = "pool" => Pool!TypeOK /\ Pool!ReportsMatchTheChain

\* Support (api/support, admin/support.astro): a reply reaches the user under
\* whose name it was typed, and the limit of a day holds but for the windows
\* that were sending at once.
RepliesWhereWritten ==
    part = "support" => Desk!TypeOK /\ Desk!RepliesWhereWritten /\ Desk!WithinTheDay

\* Board (ContractTinsGrid.tsx, circles/index.ts): a member who is moved while a
\* load reads is in a list of its answer or in a tin it shows running, unless her
\* tin was founded under the load.
NobodyDropsOut == part = "board" => Grid!TypeOK /\ Grid!NobodyDropsOut

\* Doorway (middleware/app.ts, lobby.astro, demo/start.ts): no tab is sent round in
\* a circle, but for an operator astray; she is so only during or after a redemption
\* that stopped half way, or between two programmes; and in demo mode is only who
\* chose it.
NoWrongDoor ==
    part = "doorway" =>
        Door!TypeOK /\ Door!NoRedirectLoop /\ Door!StaysHome /\ Door!DemoByChoice

\* MemberPanel (MemberAccount.tsx, api/me): the panel shows what is stored.
PanelAgrees == part = "panel" => Panel!TypeOK /\ Panel!PanelAgrees

\* Accounts ([...auth].ts, authAdapter.ts, signup.ts): two people are never one
\* user, nor one person two at the doors that know her email.
OnePersonOneUser == part = "logins" => Login!TypeOK /\ Login!OnePersonOneUser

\* DemoSeed and Seeds (demo/start.ts, the seed scripts): a start or a script that
\* runs by itself leaves what it seeds whole and once, whatever was there.
SeededIsWhole ==
    /\ part = "demo" => Demo!TypeOK /\ Demo!AloneIsWhole
    /\ part = "scripts" => Script!TypeOK /\ Script!SeededIsWhole

\* TenantContext (db.pg.ts): no statement is stored as another request's tenant,
\* and no connection goes back with one.
TenantsApart == part = "context" => Context!TypeOK /\ Context!TenantsApart

\* Migrations (pgMigrate.mjs): a file lands whole, once and in order.
LandsWholeInOrder == part = "migrations" => Migration!TypeOK /\ Migration!LandsWholeInOrder

=============================================================================
