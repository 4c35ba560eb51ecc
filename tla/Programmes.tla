----------------------------- MODULE Programmes -----------------------------
(***************************************************************************)
(* Who belongs to which programme (tenant): signing in and the founders'   *)
(* gate, invitations for administrators, claim links for seeded members,   *)
(* and deleting an account.                                                *)
(* lib/tenants.ts, lib/authAdapter.ts, lib/requireTenantSession.ts,        *)
(* pages/invite/[token].astro, pages/claim/[token].astro,                  *)
(* api/admin/invite.ts, api/circles/member-claim.ts, api/account/delete.ts *)
(***************************************************************************)
EXTENDS Integers, FiniteSets

CONSTANTS
    Users,        \* people, one e-mail address each
    SignIns,      \* sign-in requests; one that founds gives its name to the programme
    Visits,       \* requests for an invite or a claim link
    Links,        \* the links made: invitations and claim links
    Seeds,        \* members rows that nobody has claimed yet
    None,
    BOOTSTRAP_OWNERS,
    MaxFailures,  \* bound: statements that throw, requests that die
    MaxErasures,  \* bound: accounts deleted
    MaxBegun      \* bound: links made and accounts deleted, together

\* What the constants are.
ProgrammesConstants ==
    /\ None \notin SignIns \union Users \union Links \union Seeds
    /\ BOOTSTRAP_OWNERS \in Nat /\ MaxFailures \in Nat

VARIABLES
    tenants,      \* the tenants rows
    memberships,  \* tenant_memberships; the age of a row is how many came after it
    exists,       \* the users with an auth_users row
    active,       \* auth_users.active_tenant_id
    cookie,       \* [user -> the tenantId in her session's JWT, or "out"]
    link,         \* admin_invites (seed = None) and member_claims
    seed,         \* members: the programme of a row and the login bound to it
    sign, visit, erase,
    gone,         \* history: programmes undone or deleted
    failures

vars == <<tenants, memberships, exists, active, cookie, link, seed,
          sign, visit, erase, gone, failures>>

Membership(t, u, role) == [tenant |-> t, user |-> u, role |-> role, age |-> 0]

TypeOK ==
    /\ tenants \subseteq SignIns /\ gone \subseteq SignIns
    /\ memberships \subseteq [tenant : tenants, user : exists, role : {"owner", "admin"}, age : Nat]
    /\ \A m, k \in memberships : m.tenant = k.tenant /\ m.user = k.user => m = k
    /\ exists \subseteq Users
    /\ active \in [Users -> SignIns \union {None}]
    /\ cookie \in [Users -> SignIns \union {None, "out"}]
    /\ link \in [Links -> [state : {"unused", "live", "spent", "dead"},
                           tenant : SignIns \union {None}, seed : Seeds \union {None},
                           by : Users \union {None}]]
    /\ seed \in [Seeds -> [tenant : SignIns \union {None}, user : Users \union {None}]]
    /\ \A r \in SignIns : sign[r].pc \in
        {"idle", "find", "create", "read", "own", "founders", "join", "mint", "owner", "attach",
         "settle", "undoRow", "undoTenant", "done", "refused"}
    /\ \A v \in Visits : visit[v].pc \in
        {"idle", "check", "insert", "mine", "bind", "point", "in", "done", "failed"}
    /\ \A u \in Users : erase[u].pc \in {"no", "count", "wipe", "row", "erased"}
    /\ failures \in 0..MaxFailures

Init ==
    /\ tenants = {} /\ memberships = {} /\ exists = {} /\ gone = {}
    /\ active = [u \in Users |-> None]
    /\ cookie = [u \in Users |-> "out"]
    /\ link = [l \in Links |-> [state |-> "unused", tenant |-> None, seed |-> None, by |-> None]]
    /\ seed = [s \in Seeds |-> [tenant |-> None, user |-> None]]
    /\ sign = [r \in SignIns |-> [pc |-> "idle", user |-> None, goal |-> None]]
    /\ visit = [v \in Visits |-> [pc |-> "idle", user |-> None, token |-> None, tenant |-> None]]
    /\ erase = [u \in Users |-> [pc |-> "no", tenant |-> None]]
    /\ failures = 0

HasMembership(u, t) == \E m \in memberships : m.user = u /\ m.tenant = t
Eldest(rows) == {m \in rows : \A k \in rows : k.age <= m.age}

\* requireTenantSession: the cookie's tenant, else the active one if she has a
\* membership there.
SessionTenant(u) ==
    IF cookie[u] = "out" THEN None
    ELSE IF cookie[u] # None THEN cookie[u]
    ELSE IF active[u] # None /\ HasMembership(u, active[u]) THEN active[u] ELSE None

IsOwner(u, t) == \E m \in memberships : m.user = u /\ m.tenant = t /\ m.role \in {"owner", "admin"}

-----------------------------------------------------------------------------
(* Signing in: authAdapter.createUser, then ensureTenantForUser from the jwt *)
(* callback. The call in the signIn callback is one more request.            *)

people == <<tenants, memberships, exists, active, gone>>
others == <<link, seed, visit, erase, failures>>

Go(r, pc) == sign' = [sign EXCEPT ![r].pc = pc]
Aim(r, pc, t) == sign' = [sign EXCEPT ![r].pc = pc, ![r].goal = t]

\* The sign-in succeeds: the JWT carries t.
SignedIn(r, t) ==
    /\ Go(r, "done")
    /\ cookie' = [cookie EXCEPT ![sign[r].user] = t]

\* Which of the requests or links that are left comes next is of no account, nor
\* who is the first to come.
AnyOf(S) == CHOOSE x \in S : TRUE

SignIn(r, u) ==
    /\ sign[r].pc = "idle"
    /\ r = AnyOf({q \in SignIns : sign[q].pc = "idle"})
    /\ (\A q \in SignIns : sign[q].pc = "idle") => u = AnyOf(Users)
    /\ erase[u].pc # "erased"
    /\ sign' = [sign EXCEPT ![r] = [pc |-> "find", user |-> u, goal |-> None]]
    /\ UNCHANGED <<people, cookie, others>>

FindUser(r) ==
    /\ sign[r].pc = "find"
    /\ Go(r, IF sign[r].user \in exists THEN "read" ELSE "create")
    /\ UNCHANGED <<people, cookie, others>>

\* The unique index on lower(email) refuses a second row.
CreateUser(r) ==
    /\ sign[r].pc = "create"
    /\ Go(r, IF sign[r].user \in exists \/ erase[sign[r].user].pc = "erased" THEN "refused" ELSE "read")
    /\ exists' = IF erase[sign[r].user].pc = "erased" THEN exists ELSE exists \union {sign[r].user}
    /\ UNCHANGED <<tenants, memberships, active, gone, cookie, others>>

ReadActive(r) ==
    LET t == active[sign[r].user] IN
    /\ sign[r].pc = "read"
    /\ \/ t # None /\ SignedIn(r, t)
       \/ t = None /\ Go(r, "own") /\ cookie' = cookie
    /\ UNCHANGED <<people, others>>

\* ORDER BY owner first, then the oldest.
OwnMembership(r) ==
    LET mine == {m \in memberships : m.user = sign[r].user}
        owned == {m \in mine : m.role = "owner"}
    IN
    /\ sign[r].pc = "own"
    /\ \/ mine = {} /\ Go(r, "founders")
       \/ \E m \in Eldest(IF owned = {} THEN mine ELSE owned) : Aim(r, "attach", m.tenant)
    /\ UNCHANGED <<people, cookie, others>>

Founders(r) ==
    LET n == Cardinality(memberships) IN
    /\ sign[r].pc = "founders"
    /\ \/ /\ n >= BOOTSTRAP_OWNERS
          /\ SignedIn(r, None)
       \/ /\ n \in 1..(BOOTSTRAP_OWNERS - 1)
          /\ \E m \in Eldest(memberships) : Aim(r, "join", m.tenant)
          /\ cookie' = cookie
       \/ /\ n = 0
          /\ Aim(r, "mint", r)
          /\ cookie' = cookie
    /\ UNCHANGED <<people, others>>

\* The foreign keys want the tenant and the user; a second row is not inserted.
AddMembership(u, t, role) ==
    memberships' = IF HasMembership(u, t) THEN memberships
                   ELSE {[m EXCEPT !.age = @ + 1] : m \in memberships}
                        \union {Membership(t, u, role)}

\* The second founder becomes a co-owner.
Join(r) ==
    LET u == sign[r].user
        fits == sign[r].goal \in tenants /\ u \in exists
    IN
    /\ sign[r].pc = "join"
    /\ \/ fits /\ AddMembership(u, sign[r].goal, "owner") /\ Go(r, "attach")
       \/ ~fits /\ memberships' = memberships /\ Go(r, "refused")
    /\ UNCHANGED <<tenants, exists, active, gone, cookie, others>>

Mint(r) ==
    /\ sign[r].pc = "mint"
    /\ tenants' = tenants \union {r}
    /\ Go(r, "owner")
    /\ UNCHANGED <<memberships, exists, active, gone, cookie, others>>

\* A refused row takes the programme back.
FirstOwner(r) ==
    LET u == sign[r].user IN
    /\ sign[r].pc = "owner"
    /\ \/ /\ u \in exists
          /\ AddMembership(u, r, "owner")
          /\ tenants' = tenants
          /\ Go(r, "attach")
       \/ /\ u \notin exists
          /\ tenants' = tenants \ {r}
          /\ memberships' = memberships
          /\ Go(r, "refused")
    /\ UNCHANGED <<exists, active, gone, cookie, others>>

\* UPDATE ... WHERE id = ? AND active_tenant_id IS NULL
Attach(r) ==
    LET u == sign[r].user
        free == u \in exists /\ active[u] = None
    IN
    /\ sign[r].pc = "attach"
    /\ \/ /\ free
          /\ active' = [active EXCEPT ![u] = sign[r].goal]
          /\ SignedIn(r, sign[r].goal)
       \/ ~free /\ Go(r, "settle") /\ UNCHANGED <<active, cookie>>
    /\ UNCHANGED <<tenants, memberships, exists, gone, others>>

\* Somebody else settled it; a programme this request minted is undone.
Settle(r) ==
    LET t == active[sign[r].user] IN
    /\ sign[r].pc = "settle"
    /\ IF sign[r].goal = r
       THEN Aim(r, "undoRow", t) /\ cookie' = cookie
       ELSE \/ t # None /\ SignedIn(r, t)
            \/ t = None /\ Go(r, "refused") /\ cookie' = cookie
    /\ UNCHANGED <<people, others>>

UndoRow(r) ==
    /\ sign[r].pc = "undoRow"
    /\ memberships' = {m \in memberships : m.tenant # r \/ m.user # sign[r].user}
    /\ gone' = gone \union {r}
    /\ Go(r, "undoTenant")
    /\ UNCHANGED <<tenants, exists, active, cookie, others>>

\* Everything of the tenant cascades.
DropTenant(t) ==
    /\ tenants' = tenants \ {t}
    /\ memberships' = {m \in memberships : m.tenant # t}
    /\ link' = [l \in Links |-> IF link[l].tenant = t THEN [link[l] EXCEPT !.state = "dead"]
                               ELSE link[l]]
    /\ seed' = [s \in Seeds |-> IF seed[s].tenant = t THEN [tenant |-> None, user |-> None]
                                ELSE seed[s]]

UndoTenant(r) ==
    /\ sign[r].pc = "undoTenant"
    /\ DropTenant(r)
    /\ \/ sign[r].goal # None /\ SignedIn(r, sign[r].goal)
       \/ sign[r].goal = None /\ Go(r, "refused") /\ cookie' = cookie
    /\ UNCHANGED <<exists, active, gone, visit, erase, failures>>

Fail == failures < MaxFailures /\ failures' = failures + 1

\* A statement throws, or the process dies, wherever the request is. The
\* founder's own INSERT is the only one whose failure is cleaned up after.
SignInFails(r) ==
    /\ Fail
    /\ sign[r].pc \notin {"idle", "done", "refused"}
    /\ Go(r, "refused")
    /\ tenants' \in {tenants, IF sign[r].pc = "owner" THEN tenants \ {r} ELSE tenants}
    /\ UNCHANGED <<memberships, exists, active, gone, cookie, link, seed, visit, erase>>

SignInStep(r) ==
    \/ FindUser(r) \/ CreateUser(r) \/ ReadActive(r) \/ OwnMembership(r) \/ Founders(r)
    \/ Join(r) \/ Mint(r) \/ FirstOwner(r) \/ Attach(r) \/ Settle(r) \/ UndoRow(r) \/ UndoTenant(r)

\* How much of it has been begun that the bounds are on.
Erasing == {u \in Users : erase[u].pc # "no"}
WithinBounds ==
    Cardinality({l \in Links : link[l].state # "unused"}) + Cardinality(Erasing) < MaxBegun

-----------------------------------------------------------------------------
(* Invitations and claim links *)

Make(l, u, s) ==
    /\ WithinBounds
    /\ link[l].state = "unused"
    /\ l = AnyOf({k \in Links : link[k].state = "unused"})
    /\ IsOwner(u, SessionTenant(u))
    /\ link' = [link EXCEPT ![l] = [state |-> "live", tenant |-> SessionTenant(u), seed |-> s, by |-> u]]
    /\ UNCHANGED <<people, cookie, sign, seed, visit, erase, failures>>

MakeInvite(l, u) == Make(l, u, None)

\* The organizer adds a member who has no login yet.
SeedMember(s, t) ==
    /\ seed[s].tenant = None
    /\ t \in tenants
    /\ seed' = [seed EXCEPT ![s].tenant = t]
    /\ UNCHANGED <<people, cookie, sign, link, visit, erase, failures>>

MakeClaim(l, u, s) ==
    /\ seed[s] = [tenant |-> SessionTenant(u), user |-> None]
    /\ Make(l, u, s)

\* The TTL runs out.
Expire(l) ==
    /\ link[l].state = "live"
    /\ link' = [link EXCEPT ![l].state = "dead"]
    /\ UNCHANGED <<people, cookie, sign, seed, visit, erase, failures>>

Here(v, from, to) ==
    /\ visit[v].pc = from
    /\ visit' = [visit EXCEPT ![v].pc = to]

\* The guarded UPDATE; a spent link changes nothing.
Spend(v, u, l, pc) ==
    /\ visit[v].pc = "idle"
    /\ v = AnyOf({w \in Visits : visit[w].pc = "idle"})
    /\ cookie[u] # "out" /\ u \in exists
    /\ link[l].state = "live"
    /\ link' = [link EXCEPT ![l].state = "spent"]
    /\ visit' = [visit EXCEPT ![v] = [pc |-> pc, user |-> u, token |-> l, tenant |-> link[l].tenant]]
    /\ UNCHANGED <<people, cookie, sign, seed, erase, failures>>

Redeem(v, u, l) == link[l].seed = None /\ Spend(v, u, l, "check")

\* Mutant: the test of the existing membership is turned round.
CheckInverted(v) ==
    /\ Here(v, "check", IF HasMembership(visit[v].user, visit[v].tenant) THEN "insert" ELSE "point")
    /\ UNCHANGED <<people, cookie, sign, link, seed, erase, failures>>

CheckMember(v) ==
    /\ Here(v, "check", IF HasMembership(visit[v].user, visit[v].tenant) THEN "point" ELSE "insert")
    /\ UNCHANGED <<people, cookie, sign, link, seed, erase, failures>>

\* The unique index and the foreign keys may refuse the row.
InsertAdmin(v) ==
    LET u == visit[v].user
        t == visit[v].tenant
        fits == u \in exists /\ t \in tenants /\ ~HasMembership(u, t)
    IN
    /\ \/ fits /\ AddMembership(u, t, "admin") /\ Here(v, "insert", "point")
       \/ ~fits /\ memberships' = memberships /\ Here(v, "insert", "done")
    /\ UNCHANGED <<tenants, exists, active, gone, cookie, sign, link, seed, erase, failures>>

\* UPDATE auth_users SET active_tenant_id, whatever it was.
Point(v) ==
    /\ Here(v, "point", "in")
    /\ active' = IF visit[v].user \in exists
                 THEN [active EXCEPT ![visit[v].user] = visit[v].tenant] ELSE active
    /\ UNCHANGED <<tenants, memberships, exists, gone, cookie, sign, link, seed, erase, failures>>

RedeemClaim(v, u, l) == link[l].seed # None /\ Spend(v, u, l, "mine")

HasSeat(u, t) == \E s \in Seeds : seed[s] = [tenant |-> t, user |-> u]

\* Somebody in this programme already: the claim is spent for nothing.
CheckMine(v) ==
    /\ Here(v, "mine", IF HasSeat(visit[v].user, visit[v].tenant) THEN "done" ELSE "bind")
    /\ UNCHANGED <<people, cookie, sign, link, seed, erase, failures>>

\* Mutant: the UPDATE without AND user_id IS NULL.
BindableTaken(s, u, t) == seed[s].tenant = t /\ ~HasSeat(u, t)

\* The row is there, and nobody's.
Bindable(s, u, t) == t # None /\ seed[s] = [tenant |-> t, user |-> None] /\ ~HasSeat(u, t)

\* UPDATE members ... WHERE user_id IS NULL, under a unique (tenant, user).
Bind(v) ==
    LET s == link[visit[v].token].seed
        u == visit[v].user
        free == Bindable(s, u, visit[v].tenant)
    IN
    /\ \/ /\ visit[v].pc = "bind"
          /\ free
          /\ seed' = [seed EXCEPT ![s].user = u]
          /\ Here(v, "bind", "point")
       \/ /\ visit[v].pc = "bind"
          /\ ~free
          /\ seed' = seed
          /\ Here(v, "bind", "done")
    /\ UNCHANGED <<people, cookie, sign, link, erase, failures>>

VisitFails(v) ==
    /\ Fail
    /\ visit[v].pc \in {"check", "insert", "mine", "bind", "point"}
    /\ visit' = [visit EXCEPT ![v].pc = "failed"]
    /\ UNCHANGED <<people, cookie, sign, link, seed, erase>>

VisitStep(v) ==
    CheckMember(v) \/ InsertAdmin(v) \/ Point(v) \/ CheckMine(v) \/ Bind(v)

-----------------------------------------------------------------------------
(* Deleting an account *)

EraseGo(u, from, to) ==
    /\ erase[u].pc = from
    /\ erase' = [erase EXCEPT ![u].pc = to]
    /\ UNCHANGED <<tenants, sign, visit>>

\* Any of her memberships (LIMIT 1) decides what is deleted.
EraseStart(u) ==
    /\ WithinBounds /\ Cardinality(Erasing) < MaxErasures
    /\ cookie[u] # "out"
    /\ erase[u].pc = "no"
    /\ \E m \in memberships : /\ m.user = u
                              /\ erase' = [erase EXCEPT ![u] = [pc |-> "count", tenant |-> m.tenant]]
    /\ UNCHANGED <<people, cookie, sign, link, seed, visit, failures>>

\* A shared programme is refused; a count that fails is taken for 0.
EraseCount(u) ==
    LET n == Cardinality({m \in memberships : m.tenant = erase[u].tenant}) IN
    /\ \/ EraseGo(u, "count", IF n > 1 THEN "no" ELSE "wipe") /\ failures' = failures
       \/ EraseGo(u, "count", "wipe") /\ Fail
    /\ UNCHANGED <<memberships, exists, active, gone, cookie, link, seed>>

\* The DELETEs swallow their failures, and the next one runs.
EraseMemberships(u) ==
    /\ EraseGo(u, "wipe", "row")
    /\ \/ /\ memberships' = {m \in memberships : m.tenant # erase[u].tenant}
          /\ gone' = gone \union {erase[u].tenant}
          /\ failures' = failures
       \/ Fail /\ UNCHANGED <<memberships, gone>>
    /\ UNCHANGED <<exists, active, cookie, link, seed>>

\* Her rows and the links she made cascade, her seats are free again; the
\* cookies are cleared whatever happened.
DropUser(u) ==
    /\ exists' = exists \ {u}
    /\ active' = [active EXCEPT ![u] = None]
    /\ memberships' = {m \in memberships : m.user # u}
    /\ link' = [l \in Links |-> IF link[l].by = u THEN [link[l] EXCEPT !.state = "dead"] ELSE link[l]]
    /\ seed' = [s \in Seeds |-> IF seed[s].user = u THEN [seed[s] EXCEPT !.user = None] ELSE seed[s]]

EraseUser(u) ==
    /\ EraseGo(u, "row", "erased")
    /\ cookie' = [cookie EXCEPT ![u] = "out"]
    /\ \/ DropUser(u) /\ failures' = failures
       \/ Fail /\ UNCHANGED <<exists, active, memberships, link, seed>>
    /\ UNCHANGED gone

EraseStep(u) == EraseCount(u) \/ EraseMemberships(u) \/ EraseUser(u)

-----------------------------------------------------------------------------
Next ==
    \/ \E r \in SignIns : (\E u \in Users : SignIn(r, u)) \/ SignInStep(r) \/ SignInFails(r)
    \/ \E u \in Users :
        \/ \E l \in Links : \/ MakeInvite(l, u)
                           \/ \E s \in Seeds : MakeClaim(l, u, s)
                           \/ \E v \in Visits : Redeem(v, u, l) \/ RedeemClaim(v, u, l)
        \/ EraseStart(u) \/ EraseStep(u)
    \/ \E s \in Seeds, t \in SignIns : SeedMember(s, t)
    \/ \E l \in Links : Expire(l)
    \/ \E v \in Visits : VisitStep(v) \/ VisitFails(v)

Spec == Init /\ [][Next]_vars

-----------------------------------------------------------------------------
(* Properties *)

\* A seeded member is claimed once: no later link, and no second visit of the
\* same one, hands her seat to another login, or a login a second seat.
SeatsStayHers ==
    /\ \A s \in Seeds : /\ seed[s].user \in exists' /\ seed[s].tenant \notin gone'
                        => seed'[s] = seed[s]
    /\ \A s, q \in Seeds : seed'[s].user # None /\ seed'[s] = seed'[q] => s = q

SeatClaimedOnce == [][SeatsStayHers]_vars

Backed(u, t) == HasMembership(u, t) \/ HasSeat(u, t)

\* The active programme is one she has a membership or a seat in. Only a
\* programme that was undone or deleted under her leaves her pointing at
\* nothing: never a request that died half way.
ActiveIsBacked ==
    \A u \in exists : active[u] # None => Backed(u, active[u]) \/ active[u] \in gone

\* A visit of an invite that ended, without failing, has brought its redeemer in;
\* and one that let her in has made a programme she was let into her active
\* one, which no sign-in of hers meanwhile takes back: unless the programme or
\* her account went away.
InvitedGetIn ==
    \A v \in Visits :
        LET u == visit[v].user
            t == visit[v].tenant
        IN visit[v].pc \in {"in", "done"} /\ u \in exists /\ t \notin gone =>
            /\ link[visit[v].token].seed = None => HasMembership(u, t)
            /\ visit[v].pc = "in" => /\ Backed(u, t)
                                     /\ \E w \in Visits : /\ visit[w].pc = "in" /\ visit[w].user = u
                                                          /\ active[u] = visit[w].tenant

=============================================================================
