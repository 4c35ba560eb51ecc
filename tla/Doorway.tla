-------------------------------- MODULE Doorway --------------------------------
(***************************************************************************)
(* Which page one browser comes to: the middleware (middleware.ts, app.ts, *)
(* auth.ts, geoblock.ts), the guards at the head of the pages, and the     *)
(* cookies they read and set.  A page is asked for with the cookies of     *)
(* that moment; its answer shows it or sends the tab elsewhere, and may    *)
(* set cookies.  Tabs share the cookies; behind them memberships change.   *)
(*                                                                         *)
(* Statement by statement signing in, invitations and claims are in        *)
(* Programmes; here a sign-in is one step, and a redemption is two, since  *)
(* a page can be asked for (and the process die) between them.             *)
(***************************************************************************)
EXTENDS FiniteSets, Naturals

CONSTANTS
    Tenants, None,
    Tabs,
    Typed,                      \* bound: the pages asked for in each, but by redirects
    MaxChanges, MaxFailures     \* bounds

Public == {"home", "login", "signup", "logout", "logoutToDemo", "demoStart", "demoEnd", "geoAllow"}
Inside == {"circles", "circle", "new", "dashboard", "lobby", "admin", "security", "onboarding",
           "card", "vouch", "join", "link"}
Pages == Public \union Inside

DoorwayConstants ==
    /\ None \notin Tenants /\ Tenants \intersect {"demo", "out"} = {}
    /\ Typed \in [Tabs -> SUBSET Pages]

VARIABLES
    role,           \* the programmes she is owner or admin of: tenant_memberships
    member,         \* those with a members row of hers
    seated,         \* those with a live contract_members row of hers
    active,         \* auth_users.active_tenant_id
    pointing,       \* of a redemption: the programme active is about to be set to
    cookies,        \* [session: the JWT's tenantId or "out", demo]
    tab,            \* each tab: [pc, page, next, had, trail]
    chosen,         \* history: she chose the demo, and was not served as herself since
    changes, failures

doorVars == <<role, member, seated, active, pointing, cookies, tab, chosen, changes, failures>>
server == <<role, member, seated, active, pointing>>

Cookies == [session : Tenants \union {None, "out"}, demo : BOOLEAN]

TypeOK ==
    /\ role \subseteq Tenants /\ member \subseteq Tenants /\ seated \subseteq member
    /\ active \in Tenants \union {None} /\ pointing \in Tenants \union {None}
    /\ cookies \in Cookies
    /\ \A t \in Tabs : /\ tab[t].pc \in {"shown", "asked"}
                       /\ tab[t].page \in Pages \union {"other"} /\ tab[t].next \in Pages
                       /\ tab[t].had \in Cookies
                       /\ tab[t].trail \subseteq Pages \X Cookies

NoCookies == [session |-> "out", demo |-> FALSE]

\* A tab at rest: of the pages it may show only the login page is of account, and
\* where signing in there leads.
At(p, next) == [pc |-> "shown", page |-> IF p = "login" THEN p ELSE "other",
                next |-> IF p = "login" THEN next ELSE "lobby",
                had |-> NoCookies, trail |-> {}]

\* She has no programme; the two founders have come before her.
Init ==
    /\ role = {} /\ member = {} /\ seated = {}
    /\ active = None /\ pointing = None
    /\ cookies = NoCookies
    /\ tab = [t \in Tabs |-> At("home", "lobby")]
    /\ chosen = FALSE
    /\ changes = 0 /\ failures = 0

-----------------------------------------------------------------------------
(* Behind the pages: what others do, or she in another browser.            *)

\* What the tabs have been through counts only while nothing else changes.
Unsettled == [t \in Tabs |-> [tab[t] EXCEPT !.trail = {}]]

Elsewhere(c) == IF c = cookies THEN tab ELSE Unsettled

Changed ==
    /\ changes < MaxChanges
    /\ changes' = changes + 1
    /\ tab' = Unsettled
    /\ UNCHANGED <<cookies, chosen, failures>>

\* A redemption's first statement, of an invitation ...
InviteRedeemed(g) ==
    /\ pointing = None /\ g \notin role
    /\ role' = role \union {g}
    /\ pointing' = g
    /\ Changed
    /\ UNCHANGED <<member, seated, active>>

\* ... or of a claim to a seeded member, who may have been placed already ...
ClaimRedeemed(g, placed) ==
    /\ pointing = None /\ g \notin member
    /\ member' = member \union {g}
    /\ seated' = IF placed THEN seated \union {g} ELSE seated
    /\ pointing' = g
    /\ Changed
    /\ UNCHANGED <<role, active>>

\* ... and the second one.
Pointed ==
    /\ pointing # None
    /\ active' = pointing
    /\ pointing' = None
    /\ tab' = Unsettled
    /\ UNCHANGED <<role, member, seated, cookies, chosen, changes, failures>>

\* The process dies before it.
PointLost ==
    /\ pointing # None
    /\ failures < MaxFailures
    /\ failures' = failures + 1
    /\ pointing' = None
    /\ tab' = Unsettled
    /\ UNCHANGED <<role, member, seated, active, cookies, chosen, changes>>

\* join-request.ts: a members row, and nothing else.
JoinRequested(g) ==
    /\ g \notin member
    /\ member' = member \union {g}
    /\ Changed
    /\ UNCHANGED <<role, seated, active, pointing>>

\* admitMember: her seat, and the programme if she has none.
Admitted(g) ==
    /\ g \in member \ seated
    /\ seated' = seated \union {g}
    /\ active' = IF active = None THEN g ELSE active
    /\ Changed
    /\ UNCHANGED <<role, member, pointing>>

Expelled(g) ==
    /\ g \in seated
    /\ seated' = seated \ {g}
    /\ Changed
    /\ UNCHANGED <<role, member, active, pointing>>

-----------------------------------------------------------------------------
(* Who asks.  All of it is read off the cookies the request came with.     *)

User(c) == c.session # "out"

\* requireTenantSession: the session before the demo; a session without a
\* programme has the active one, if she is owner or admin there.
TenantOf(c) ==
    IF User(c) THEN IF c.session # None THEN c.session
                    ELSE IF active \in role THEN active ELSE None
    ELSE IF c.demo THEN "demo" ELSE None

hasCircleAccess(g) == g = "demo" \/ g \in role \/ g \in seated

\* circleGateTarget: where to, or the page itself.
circleGateTarget(p, c) ==
    IF TenantOf(c) = None THEN IF User(c) THEN "lobby" ELSE "login"
    ELSE IF hasCircleAccess(TenantOf(c)) THEN p ELSE "lobby"

\* Mutant: whoever has a programme is sent to its circles.
LobbyByTenant(c) ==
    IF ~User(c) /\ ~c.demo THEN "login"
    ELSE IF TenantOf(c) # None \/ role # {} THEN "circles"
    ELSE "lobby"

\* lobby.astro: a door for everybody who is not an operator, of whatever programme.
LobbyTarget(c) ==
    IF ~User(c) /\ ~c.demo THEN "login"
    ELSE IF c.demo \/ role # {} THEN "circles"
    ELSE "lobby"

\* The guard of a page: where it may send the tab; itself if it is shown.  Whose
\* the admin pages are and whether admissions are held is not known here.
Guard(p, c) ==
    CASE p \in {"circles", "circle"} -> {circleGateTarget(p, c)}
      [] p = "lobby" -> {LobbyTarget(c)}
      [] p = "new" -> {IF TenantOf(c) = None THEN "login"
                       ELSE IF TenantOf(c) \in role THEN "new" ELSE "circles"}
      [] p = "dashboard" -> IF User(c) THEN {"admin", "lobby"} ELSE {"login"}
      [] p = "admin" -> IF User(c) THEN {"admin", "lobby"} ELSE {"login"}
      [] p = "security" -> IF TenantOf(c) = None THEN {"login"} ELSE {"security", "lobby"}
      [] p = "card" -> {IF ~User(c) THEN "login" ELSE IF member = {} THEN "lobby" ELSE "card"}
      [] p = "vouch" -> {IF ~User(c) \/ TenantOf(c) = None THEN "login" ELSE "vouch"}
      [] p = "join" -> IF User(c) THEN {"join", "lobby"} ELSE {"login"}
      [] p = "link" -> {IF User(c) THEN "link" ELSE "login"}
      [] p = "signup" -> {IF User(c) THEN "dashboard" ELSE "signup"}
      [] p = "demoStart" -> {IF User(c) THEN "logoutToDemo" ELSE "circles"}
      [] p = "logoutToDemo" -> {"demoStart"}
      [] p \in {"logout", "demoEnd"} -> {"login"}
      [] p = "geoAllow" -> {"home"}
      [] OTHER -> {p}

\* The middleware before it: no page but the public ones without a session or
\* the demo; the onboarding page is dead for whoever is signed in.
Targets(p, c) ==
    IF p \in Public THEN Guard(p, c)
    ELSE IF ~User(c) /\ ~c.demo THEN {"login"}
    ELSE IF p = "onboarding" /\ User(c) THEN {"lobby"}
    ELSE Guard(p, c)

\* Where signing in leads: the page asked for, where the redirect names it.
NextOf(p, c) ==
    IF p \in Public \/ (c.demo /\ p \in {"dashboard", "admin", "security"}) THEN "lobby"
    ELSE IF p = "circle" /\ c.demo THEN "circles" ELSE p

-----------------------------------------------------------------------------
(* The cookies an answer sets.                                             *)

\* Mutant: the lingering demo cookie is left alone.
ClearsNever(p, c) == p = "demoEnd"

\* proceedWith: whoever is signed in loses the demo cookie, but for the answers
\* that do not come by it.
ClearsDemo(p, c) ==
    \/ p = "demoEnd"
    \/ p \notin Public \union {"onboarding"} /\ User(c) /\ c.demo

After(p, c) ==
    [session |-> IF p \in {"logout", "logoutToDemo"} THEN "out" ELSE cookies.session,
     demo |-> IF p = "demoStart" /\ ~User(c) THEN TRUE
              ELSE IF ClearsDemo(p, c) THEN FALSE ELSE cookies.demo]

-----------------------------------------------------------------------------
(* The browser.                                                            *)

\* She types, clicks or reloads.  A link in a page she sees is no different.
Ask(t, p) ==
    /\ p \in Typed[t]
    /\ tab[t].pc # "asked"
    /\ tab' = [tab EXCEPT ![t] = [@ EXCEPT !.pc = "asked", !.page = p,
                                           !.had = cookies, !.trail = {}]]
    /\ UNCHANGED <<server, cookies, chosen, changes, failures>>

\* getGeoblockResponse: from a place that is blocked or unknown, or with a check
\* that fails, and without the pass that geoAllow gives; 451, and nothing is set.
Refused(t) ==
    /\ tab[t].pc = "asked" /\ tab[t].page # "geoAllow"
    /\ tab' = [tab EXCEPT ![t] = At("other", @.next)]
    /\ UNCHANGED <<server, cookies, chosen, changes, failures>>

AsHerself(t) == User(tab[t].had) /\ tab[t].had.demo /\ tab[t].page \notin Public

Shown(t) ==
    LET p == tab[t].page IN
    /\ tab[t].pc = "asked"
    /\ p \in Targets(p, tab[t].had)
    /\ cookies' = After(p, tab[t].had)
    /\ tab' = [Elsewhere(cookies') EXCEPT ![t] = At(p, @.next)]
    /\ chosen' = (chosen /\ ~AsHerself(t))
    /\ UNCHANGED <<server, changes, failures>>

\* The tab on its way to q, with the cookies the answer left.
Onward(t, q) ==
    LET p == tab[t].page
        had == tab[t].had
    IN [tab[t] EXCEPT !.page = q, !.had = cookies',
                      !.next = IF q = "login" THEN NextOf(p, had) ELSE "lobby",
                      !.trail = IF had = cookies THEN tab[t].trail \union {<<p, had>>} ELSE {}]

\* The tab follows a redirect.
Redirected(t) ==
    LET p == tab[t].page
        had == tab[t].had
    IN
    /\ tab[t].pc = "asked"
    /\ cookies' = After(p, had)
    /\ \E q \in Targets(p, had) \ {p} : tab' = [Elsewhere(cookies') EXCEPT ![t] = Onward(t, q)]
    /\ chosen' = (chosen \/ (p = "demoStart" /\ ~User(had)))
    /\ UNCHANGED <<server, changes, failures>>

\* The callback after a sign-in: the JWT gets the active programme, else one of
\* her own, which becomes the active one.
SignIn(t) ==
    /\ tab[t].pc = "shown" /\ tab[t].page = "login"
    /\ \E g \in IF active # None THEN {active} ELSE IF role # {} THEN role ELSE {None} :
        /\ active' = g
        /\ cookies' = [cookies EXCEPT !.session = g]
    /\ tab' = [Unsettled EXCEPT ![t] = [@ EXCEPT !.pc = "asked", !.page = tab[t].next,
                                                 !.next = "lobby", !.had = cookies']]
    /\ UNCHANGED <<role, member, seated, pointing, chosen, changes, failures>>

SessionExpires ==
    /\ cookies.session # "out"
    /\ cookies' = [cookies EXCEPT !.session = "out"]
    /\ tab' = Unsettled
    /\ UNCHANGED <<server, chosen, changes, failures>>

DemoExpires ==
    /\ cookies.demo
    /\ cookies' = [cookies EXCEPT !.demo = FALSE]
    /\ tab' = Unsettled
    /\ UNCHANGED <<server, chosen, changes, failures>>

Next ==
    \/ \E g \in Tenants :
        \/ InviteRedeemed(g) \/ JoinRequested(g) \/ Admitted(g) \/ Expelled(g)
        \/ \E placed \in BOOLEAN : ClaimRedeemed(g, placed)
    \/ Pointed \/ PointLost
    \/ SessionExpires \/ DemoExpires
    \/ \E t \in Tabs :
        \/ \E p \in Pages : Ask(t, p)
        \/ Refused(t) \/ Shown(t) \/ Redirected(t) \/ SignIn(t)

Spec == Init /\ [][Next]_doorVars

-----------------------------------------------------------------------------
(* Properties *)

\* An operator whom the pages of the circle do not let in, as what they go by is
\* a programme in which she is nobody, or none.
Astray(c) == User(c) /\ role # {} /\ circleGateTarget("circles", c) = "lobby"

\* "... instead of looping her through a door she is already through": no tab is
\* redirected to a page that has just redirected it, with the same cookies, while
\* nothing else has happened; but for the operator astray, whom the circle's pages
\* and the lobby send to each other ...
NoRedirectLoop ==
    \A t \in Tabs :
        tab[t].pc = "asked" /\ <<tab[t].page, tab[t].had>> \in tab[t].trail => Astray(tab[t].had)

\* ... and she is astray only while a redemption is between its statements, after
\* one that died there, or if she is somebody in two programmes.
StaysHome ==
    failures = 0 /\ pointing = None /\ (\A g, h \in role \union member : g = h) => ~Astray(cookies)

\* "A later expired session drops to /login, never silently back into demo mode":
\* in demo mode is only who chose it, and has not been served as herself since, in
\* whatever order tabs ask and are answered.
DemoByChoice == cookies.session = "out" /\ cookies.demo => chosen

=============================================================================
