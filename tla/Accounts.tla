------------------------------- MODULE Accounts -------------------------------
(***************************************************************************)
(* Who a sign-in is: users, the identities that providers vouch for, and   *)
(* passwords.  The adapter's and the callbacks' statements are this        *)
(* program's, the order in which Auth.js calls them is external: account?, *)
(* the signIn callback, account? again, and if there is none createUser    *)
(* and linkAccount.  (A magic link has no account.)                        *)
(* What programme the user then gets is in Programmes.                     *)
(***************************************************************************)
EXTENDS FiniteSets, Naturals

CONSTANTS
    People,
    Identities,     \* at Google and GitHub
    OwnerOf,        \* [Identities -> People]
    Shows,          \* the identities whose provider shows an email: their owner's
    Users, None,
    Callbacks,      \* sign-ins under way
    Signups,        \* sign-ups under way
    MaxStarts, MaxErased, MaxFailures      \* bounds

AccountConstants ==
    /\ OwnerOf \in [Identities -> People]
    /\ Shows \subseteq Identities
    /\ None \notin Users \cup People \cup {"", "gone"}
    /\ People \cap {"", "gone"} = {}
    /\ Identities \cap People = {}

VARIABLES
    email,          \* auth_users: a person (her address) or "" for a row; None for
                    \* no row yet, "gone" for none any more (ids are not used again)
    accounts,       \* auth_accounts, as <<identity, user>>
    creds,          \* auth_credentials: users
    links,          \* auth_verification_tokens: people with a link in their mail
    cb, su,         \* the requests
    came,           \* history: <<door, user>>, who came in by what, as which user
    starts, erased, failures

accountVars == <<email, accounts, creds, links, cb, su, came, starts, erased, failures>>
counts == <<starts, erased, failures>>

Doors == Identities \cup People     \* by her identities; by her password or a link
PersonAt(d) == IF d \in People THEN d ELSE OwnerOf[d]
Idle == [pc |-> "idle"]

Exists(u) == email[u] \notin {None, "gone"}

TypeOK ==
    /\ email \in [Users -> People \cup {"", None, "gone"}]
    /\ accounts \subseteq Identities \X {u \in Users : Exists(u)}
    /\ \A a, b \in accounts : a[1] = b[1] => a = b
    /\ creds \subseteq {u \in Users : Exists(u)}
    /\ links \subseteq People
    /\ \A c \in Callbacks : cb[c].pc \in {"idle", "used", "find", "match", "count", "adopt", "attach",
                                          "stamp", "login", "create", "insert", "unlink", "link"}
    /\ \A s \in Signups : su[s].pc \in {"idle", "check", "insert", "creds", "mail"}

Init ==
    /\ email = [u \in Users |-> None]
    /\ accounts = {} /\ creds = {} /\ links = {}
    /\ cb = [c \in Callbacks |-> Idle]
    /\ su = [s \in Signups |-> Idle]
    /\ came = {}
    /\ starts = 0 /\ erased = 0 /\ failures = 0

\* The address a provider reports, "" if it reports none.
EmailOf(d) == IF d \in Shows \cup People THEN PersonAt(d) ELSE ""
Having(e) == {u \in Users : email[u] = e}
AccountOf(i) == {u \in Users : <<i, u>> \in accounts}
Unused == {u \in Users : email[u] = None}

Start == starts < MaxStarts /\ starts' = starts + 1
At(c, pc) == cb[c].pc = pc
Go(c, pc) == cb' = [cb EXCEPT ![c].pc = pc]
GoAs(c, pc, u) == cb' = [cb EXCEPT ![c].pc = pc, ![c].user = u]
tables == <<email, accounts, creds, links>>

In(c, u) ==
    /\ came' = came \cup {<<cb[c].door, u>>}
    /\ cb' = [cb EXCEPT ![c] = Idle]

-----------------------------------------------------------------------------
(* The callback of a provider                                              *)

Begin(c, i) ==
    /\ Start
    /\ cb[c] = Idle
    /\ cb' = [cb EXCEPT ![c] = [pc |-> "find", door |-> i, user |-> None]]
    /\ UNCHANGED <<tables, su, came, erased, failures>>

\* getUserByAccount; the user it finds is the one signIn is asked about.
Find(c) ==
    /\ At(c, "find")
    /\ \/ AccountOf(cb[c].door) = {} /\ GoAs(c, "match", None)
       \/ \E u \in AccountOf(cb[c].door) : GoAs(c, "match", u)
    /\ UNCHANGED <<tables, su, came, counts>>

\* Layer 1, where there is an email; without one, layer 2: the account again.
Match(c) ==
    /\ At(c, "match")
    /\ LET e == EmailOf(cb[c].door)
           others == Having(e) \ {cb[c].user}
       IN  IF e = "" THEN Go(c, "adopt")
           ELSE \/ others = {} /\ Go(c, "stamp")
                \/ \E u \in others : cb' = [cb EXCEPT ![c] = [pc |-> "count", door |-> cb[c].door,
                                                              user |-> cb[c].user, other |-> u]]
    /\ UNCHANGED <<tables, su, came, counts>>

\* Only one who has no provider yet is linked here.
CountAccounts(c) ==
    /\ At(c, "count")
    /\ IF \E i \in Identities : <<i, cb[c].other>> \in accounts
       THEN Go(c, "stamp") ELSE GoAs(c, "attach", cb[c].other)
    /\ UNCHANGED <<tables, su, came, counts>>

\* ON CONFLICT DO NOTHING; the foreign key may throw, and the throw is caught.
AttachAccount(c) ==
    /\ At(c, "attach")
    /\ accounts' = IF AccountOf(cb[c].door) = {} /\ Exists(cb[c].user)
                   THEN accounts \cup {<<cb[c].door, cb[c].user>>} ELSE accounts
    /\ Go(c, "stamp")
    /\ UNCHANGED <<email, creds, links, su, came, counts>>

Adopt(c) ==
    /\ At(c, "adopt")
    /\ \/ AccountOf(cb[c].door) = {} /\ Go(c, "stamp")
       \/ \E u \in AccountOf(cb[c].door) : GoAs(c, "stamp", u)
    /\ UNCHANGED <<tables, su, came, counts>>

\* Of a user that exists: her tenant, last_login and an email if she had none.
\* (An email that somebody else has is an error, caught.)
Stamp(c) ==
    /\ At(c, "stamp")
    /\ LET u == cb[c].user
           e == EmailOf(cb[c].door)
       IN  email' = [v \in Users |-> IF v = u /\ email[v] = "" /\ Having(e) = {} THEN e ELSE email[v]]
    /\ Go(c, "login")
    /\ UNCHANGED <<accounts, creds, links, su, came, counts>>

Login(c) ==
    /\ At(c, "login")
    /\ \/ AccountOf(cb[c].door) = {} /\ Go(c, "create") /\ UNCHANGED came
       \/ \E u \in AccountOf(cb[c].door) : In(c, u)
    /\ UNCHANGED <<tables, su, counts>>

\* Mutant: no email is an email like any other.
AnyEmail(e) == TRUE

\* createUser looks for the email only if there is one.
LooksUp(e) == e # ""

Create(c) ==
    /\ At(c, "create")
    /\ LET e == EmailOf(cb[c].door)
           found == IF LooksUp(e) THEN Having(e) ELSE {}
       IN  \/ found = {} /\ Go(c, "insert") /\ UNCHANGED came
           \/ \E u \in found :
                IF cb[c].door \in Identities THEN GoAs(c, "unlink", u) /\ UNCHANGED came
                ELSE In(c, u)
    /\ UNCHANGED <<tables, su, counts>>

\* auth_users_email_idx: one row for an email; "" is one, only NULL is not.
Free(e) == Having(e) = {}

InsertUser(c) ==
    /\ At(c, "insert")
    /\ LET e == EmailOf(cb[c].door) IN
        /\ Free(e)
        /\ \E u \in Unused :
            /\ u = CHOOSE v \in Unused : TRUE
            /\ email' = [email EXCEPT ![u] = e]
            /\ IF cb[c].door \in Identities THEN GoAs(c, "unlink", u) /\ UNCHANGED came
               ELSE In(c, u)
    /\ UNCHANGED <<accounts, creds, links, su, counts>>

\* The index throws: the sign-in ends at /login?error.
InsertRefused(c) ==
    /\ At(c, "insert")
    /\ ~Free(EmailOf(cb[c].door))
    /\ cb' = [cb EXCEPT ![c] = Idle]
    /\ UNCHANGED <<tables, su, came, counts>>

Unlink(c) ==
    /\ At(c, "unlink")
    /\ accounts' = {a \in accounts : a[1] # cb[c].door}
    /\ Go(c, "link")
    /\ UNCHANGED <<email, creds, links, su, came, counts>>

\* One row for an identity, and of a user that is there; else an error.
Link(c) ==
    /\ At(c, "link")
    /\ IF AccountOf(cb[c].door) = {} /\ Exists(cb[c].user)
       THEN accounts' = accounts \cup {<<cb[c].door, cb[c].user>>} /\ In(c, cb[c].user)
       ELSE cb' = [cb EXCEPT ![c] = Idle] /\ UNCHANGED <<accounts, came>>
    /\ UNCHANGED <<email, creds, links, su, counts>>

-----------------------------------------------------------------------------
(* A link in her mail; a password                                          *)

SendLink(p) ==
    /\ Start
    /\ p \notin links
    /\ links' = links \cup {p}
    /\ UNCHANGED <<email, accounts, creds, cb, su, came, erased, failures>>

\* useVerificationToken: the row is read and deleted in two statements.
FollowLink(c, p) ==
    /\ p \in links
    /\ cb[c] = Idle
    /\ cb' = [cb EXCEPT ![c] = [pc |-> "used", door |-> p, user |-> None]]
    /\ UNCHANGED <<tables, su, came, counts>>

\* getUserByEmail says nobody, so createUser is next.
UseLink(c) ==
    /\ At(c, "used")
    /\ links' = links \ {cb[c].door}
    /\ Go(c, "create")
    /\ UNCHANGED <<email, accounts, creds, su, came, counts>>

\* authorize: her user has a password, and it is hers.
Password(p) ==
    /\ \E u \in Having(p) \cap creds : came' = came \cup {<<p, u>>}
    /\ UNCHANGED <<tables, cb, su, counts>>

SignUp(s, p) ==
    /\ Start
    /\ su[s] = Idle
    /\ su' = [su EXCEPT ![s] = [pc |-> "check", person |-> p, user |-> None]]
    /\ UNCHANGED <<tables, cb, came, erased, failures>>

SignUpCheck(s) ==
    /\ su[s].pc = "check"
    /\ su' = [su EXCEPT ![s] = IF Having(su[s].person) = {} THEN [@ EXCEPT !.pc = "insert"] ELSE Idle]
    /\ UNCHANGED <<tables, cb, came, counts>>

SignUpInsert(s) ==
    /\ su[s].pc = "insert"
    /\ IF Free(su[s].person)
       THEN \E u \in Unused :
                /\ u = CHOOSE v \in Unused : TRUE
                /\ email' = [email EXCEPT ![u] = su[s].person]
                /\ su' = [su EXCEPT ![s] = [@ EXCEPT !.pc = "creds", !.user = u]]
       ELSE su' = [su EXCEPT ![s] = Idle] /\ UNCHANGED email
    /\ UNCHANGED <<accounts, creds, links, cb, came, counts>>

\* The programme, the language and the verification mail follow, and change
\* nothing here.
SignUpCreds(s) ==
    /\ su[s].pc = "creds"
    /\ creds' = IF Exists(su[s].user) THEN creds \cup {su[s].user} ELSE creds
    /\ su' = [su EXCEPT ![s] = Idle]
    /\ UNCHANGED <<email, accounts, links, cb, came, counts>>

\* DELETE FROM auth_users, with what refers to it; she is somebody new afterwards.
Erase(u) ==
    /\ erased < MaxErased /\ erased' = erased + 1
    /\ \E d \in Doors : <<d, u>> \in came
    /\ Exists(u)
    /\ email' = [email EXCEPT ![u] = "gone"]
    /\ accounts' = {a \in accounts : a[2] # u}
    /\ creds' = creds \ {u}
    /\ came' = {x \in came : x[2] # u}
    /\ UNCHANGED <<links, cb, su, starts, failures>>

Dies ==
    /\ failures < MaxFailures /\ failures' = failures + 1
    /\ \/ \E c \in Callbacks : cb[c] # Idle /\ cb' = [cb EXCEPT ![c] = Idle] /\ UNCHANGED su
       \/ \E s \in Signups : su[s] # Idle /\ su' = [su EXCEPT ![s] = Idle] /\ UNCHANGED cb
    /\ UNCHANGED <<tables, came, starts, erased>>

Next ==
    \/ \E c \in Callbacks :
        \/ \E i \in Identities : Begin(c, i)
        \/ \E p \in People : FollowLink(c, p)
        \/ Find(c) \/ Match(c) \/ CountAccounts(c) \/ AttachAccount(c) \/ Adopt(c) \/ Stamp(c)
        \/ Login(c) \/ Create(c) \/ InsertUser(c) \/ InsertRefused(c) \/ Unlink(c) \/ Link(c)
        \/ UseLink(c)
    \/ \E p \in People : SendLink(p) \/ Password(p)
    \/ \E s \in Signups : \/ \E p \in People : SignUp(s, p)
                          \/ SignUpCheck(s) \/ SignUpInsert(s) \/ SignUpCreds(s)
    \/ \E u \in Users : Erase(u)
    \/ Dies

Spec == Init /\ [][Next]_accountVars

-----------------------------------------------------------------------------
(* Properties *)

\* Whatever door she comes by, with sign-ins and sign-ups crossing each other or
\* dying between two statements: nobody comes in as a user that somebody else
\* came in as or is linked to; and the doors that know her email lead to one user.
OnePersonOneUser ==
    \A x, y \in came \cup accounts :
        /\ PersonAt(x[1]) # PersonAt(y[1]) => x[2] # y[2]
        /\ EmailOf(x[1]) = EmailOf(y[1]) /\ EmailOf(x[1]) # "" => x[2] = y[2]

=============================================================================
