---------------------------- MODULE PeopleProofs ----------------------------
(* Theorems about Accounts, for any people, identities, sign-ins, sign-ups    *)
(* and failures; about Doorway, for any tabs; and about Programmes, for any   *)
(* people, sign-ins, links, visits, seats and failures: as the parts          *)
(* "logins", "doorway" and "people" of MCOffice.                              *)
EXTENDS MCOffice, TLAPS

-----------------------------------------------------------------------------
(* Accounts                                                                  *)

CallbackPcs == {"used", "find", "match", "count", "adopt", "attach", "stamp", "login", "create",
                "insert", "unlink", "link"}
PlainCallback == [pc : CallbackPcs, door : Login!Doors, user : Logins \cup {None}]
WithOther == [pc : CallbackPcs, door : Login!Doors, user : Logins \cup {None}, other : Logins]
Callback == {Login!Idle} \cup PlainCallback \cup WithOther
SignupRecord == {Login!Idle} \cup [pc : {"check", "insert", "creds"}, person : People, user : Logins \cup {None}]

\* What a sign-in under way knows: whoever it goes for has the email it was shown,
\* unless she was deleted meanwhile.
Knows(r) ==
    /\ r.pc \notin {"idle", "used", "create", "insert"} => r.door \in Identities
    /\ r.pc = "used" => r.door \in People
    /\ r.pc \in {"attach", "unlink", "link"} => r.user \in Logins
    /\ r.pc # "idle" /\ r.user # None => email[r.user] \in {Login!EmailOf(r.door), "gone"}
    /\ r.pc = "count" => /\ r \in WithOther /\ Login!EmailOf(r.door) # ""
                         /\ email[r.other] \in {Login!EmailOf(r.door), "gone"}

\* A pair of a door and a user who has its email; or who has one at all.
Hers(x) == email[x[2]] = Login!EmailOf(x[1])
Known(x) == email[x[2]] # ""

\* Who came in by a door, is linked to it or is about to be.
Claimed ==
    {x \in Login!Doors \X Logins :
        \/ x \in came \cup accounts
        \/ \E c \in Callbacks : cb[c].pc # "idle" /\ cb[c].door = x[1] /\ cb[c].user = x[2]}

RowsTyped ==
    /\ email \in [Logins -> People \cup {"", None, "gone"}]
    /\ accounts \subseteq Identities \X Logins
    /\ came \subseteq Login!Doors \X Logins
    /\ \A a, b \in accounts : a[1] = b[1] => a = b
    /\ creds \subseteq {u \in Logins : Login!Exists(u)}
    /\ links \subseteq People
SignupsTyped ==
    /\ su \in [Signups -> SignupRecord]
    /\ \A s \in Signups : su[s].pc = "creds" => su[s].user \in Logins
CallbacksKnow == cb \in [Callbacks -> Callback] /\ \A c \in Callbacks : Knows(cb[c])
HerEmail == \A x \in came \cup accounts : Hers(x)
OneRowEach == \A u, v \in Logins : Login!Exists(u) /\ email[u] = email[v] => u = v
NoEmailOneDoor == \A x, y \in Claimed : x[2] = y[2] /\ ~Known(x) => x[1] = y[1]

AccountInv ==
    RowsTyped /\ SignupsTyped /\ CallbacksKnow /\ HerEmail /\ OneRowEach /\ NoEmailOneDoor

-----------------------------------------------------------------------------
(* Pairs, emails and records *)

LEMMA PairsAre ==
    ASSUME Login!AccountConstants, NEW x \in Login!Doors \X Logins
    PROVE  x[1] \in Login!Doors /\ x[2] \in Logins /\ x = <<x[1], x[2]>> /\ x[2] # None
<1>1. x[1] \in Login!Doors /\ x[2] \in Logins /\ x = <<x[1], x[2]>>
    OBVIOUS
<1>2. None \notin Logins
    BY DEF Login!AccountConstants
<1> QED
    BY <1>1, <1>2

LEMMA Emails ==
    ASSUME Login!AccountConstants, NEW d \in Login!Doors
    PROVE  /\ Login!EmailOf(d) \in People \cup {""} /\ Login!EmailOf(d) \notin {None, "gone"}
           /\ Login!EmailOf(d) # "" => Login!EmailOf(d) = Login!PersonAt(d)
           /\ d \in People => Login!EmailOf(d) = d /\ Login!EmailOf(d) # ""
    BY DEF Login!AccountConstants, Login!Doors, Login!EmailOf, Login!PersonAt

\* A callback that goes on is as it was but for where it is.
LEMMA GoesOn ==
    ASSUME NEW r \in Callback, r.pc # "idle", NEW pc \in CallbackPcs
    PROVE  LET q == [r EXCEPT !.pc = pc]
           IN  /\ q \in Callback /\ q.pc = pc /\ q.door = r.door /\ q.user = r.user
               /\ r \in WithOther => q \in WithOther /\ q.other = r.other
               /\ r.door \in Login!Doors /\ r.user \in Logins \cup {None}
    BY DEF Callback, PlainCallback, WithOther, Login!Idle, CallbackPcs

LEMMA GoesOnAs ==
    ASSUME NEW r \in Callback, r.pc # "idle", NEW pc \in CallbackPcs, NEW u \in Logins \cup {None}
    PROVE  LET q == [[r EXCEPT !.pc = pc] EXCEPT !.user = u]
           IN  /\ q \in Callback /\ q.pc = pc /\ q.door = r.door /\ q.user = u
               /\ r.door \in Login!Doors /\ r.user \in Logins \cup {None}
<1> DEFINE q == [[r EXCEPT !.pc = pc] EXCEPT !.user = u]
<1>1. CASE r \in PlainCallback
    <2> DEFINE p == [pc |-> pc, door |-> r.door, user |-> r.user]
    <2>2. [r EXCEPT !.pc = pc] = p
        BY <1>1 DEF PlainCallback
    <2>3. [p EXCEPT !.user = u] = [pc |-> pc, door |-> r.door, user |-> u]
        OBVIOUS
    <2>1. q = [pc |-> pc, door |-> r.door, user |-> u]
        BY <2>2, <2>3
    <2> QED
        BY <1>1, <2>1 DEF Callback, PlainCallback
<1>2. CASE r \in WithOther
    <2> DEFINE p == [pc |-> pc, door |-> r.door, user |-> r.user, other |-> r.other]
    <2>2. [r EXCEPT !.pc = pc] = p
        BY <1>2 DEF WithOther
    <2>3. [p EXCEPT !.user = u] = [pc |-> pc, door |-> r.door, user |-> u, other |-> r.other]
        OBVIOUS
    <2>1. q = [pc |-> pc, door |-> r.door, user |-> u, other |-> r.other]
        BY <2>2, <2>3
    <2> QED
        BY <1>2, <2>1 DEF Callback, WithOther
<1> QED
    BY <1>1, <1>2 DEF Callback, Login!Idle

LEMMA GoAtFields ==
    ASSUME CallbacksKnow, NEW c \in Callbacks, cb[c].pc # "idle", NEW pc \in CallbackPcs, Login!Go(c, pc)
    PROVE  /\ cb' \in [Callbacks -> Callback]
           /\ \A d \in Callbacks : d # c => cb'[d] = cb[d]
           /\ cb'[c].pc = pc /\ cb'[c].door = cb[c].door /\ cb'[c].user = cb[c].user
           /\ cb[c].door \in Login!Doors /\ cb[c].user \in Logins \cup {None}
<1>1. cb[c] \in Callback /\ cb' = [cb EXCEPT ![c] = [cb[c] EXCEPT !.pc = pc]]
    BY DEF CallbacksKnow, Login!Go
<1> QED
    BY <1>1, GoesOn DEF CallbacksKnow

LEMMA GoAsFields ==
    ASSUME CallbacksKnow, NEW c \in Callbacks, cb[c].pc # "idle", NEW pc \in CallbackPcs,
           NEW u \in Logins \cup {None}, Login!GoAs(c, pc, u)
    PROVE  /\ cb' \in [Callbacks -> Callback]
           /\ \A d \in Callbacks : d # c => cb'[d] = cb[d]
           /\ cb'[c].pc = pc /\ cb'[c].door = cb[c].door /\ cb'[c].user = u
           /\ cb[c].door \in Login!Doors /\ cb[c].user \in Logins \cup {None}
<1>1. cb[c] \in Callback /\ cb' = [cb EXCEPT ![c] = [[cb[c] EXCEPT !.pc = pc] EXCEPT !.user = u]]
    BY DEF CallbacksKnow, Login!GoAs
<1>2. cb \in [Callbacks -> Callback]
    BY DEF CallbacksKnow
<1> DEFINE q == [[cb[c] EXCEPT !.pc = pc] EXCEPT !.user = u]
<1>3. /\ q \in Callback /\ q.pc = pc /\ q.door = cb[c].door /\ q.user = u
      /\ cb[c].door \in Login!Doors /\ cb[c].user \in Logins \cup {None}
    BY <1>1, GoesOnAs
<1>4. cb' = [cb EXCEPT ![c] = q]
    BY <1>1
<1> HIDE DEF q
<1> QED
    BY <1>2, <1>3, <1>4

\* A callback that is left is idle.
LEMMA IdleFields ==
    ASSUME CallbacksKnow, NEW c \in Callbacks, cb' = [cb EXCEPT ![c] = Login!Idle]
    PROVE  /\ cb' \in [Callbacks -> Callback] /\ cb'[c].pc = "idle"
           /\ \A d \in Callbacks : d # c => cb'[d] = cb[d]
    BY DEF CallbacksKnow, Callback, Login!Idle

-----------------------------------------------------------------------------
(* Steps that leave the users alone *)

\* A sign-in that knows what it does, for somebody claimed by its door or who has
\* an email.
Goes(r) ==
    /\ Knows(r)
    /\ r.user # None => <<r.door, r.user>> \in Claimed \/ Known(<<r.door, r.user>>)

\* The callbacks go on so, and who comes in or is linked is claimed or known.
LEMMA KeptAlone ==
    ASSUME Login!AccountConstants, AccountInv, email' = email, cb' \in [Callbacks -> Callback],
           \A d \in Callbacks : cb'[d] = cb[d] \/ cb'[d].pc = "idle" \/ Goes(cb'[d]),
           \A x \in came' \cup accounts' :
                \/ x \in came \cup accounts
                \/ x \in Login!Doors \X Logins /\ Hers(x) /\ (x \in Claimed \/ Known(x))
    PROVE  CallbacksKnow' /\ HerEmail' /\ OneRowEach' /\ NoEmailOneDoor'
<1>1. \A x \in Claimed' : x \in Claimed \/ Known(x)
    <2> SUFFICES ASSUME NEW x \in Claimed' PROVE x \in Claimed \/ Known(x)
        OBVIOUS
    <2>0. x \in Login!Doors \X Logins
        BY DEF Claimed
    <2>1. x \in Login!Doors \X Logins /\ x = <<x[1], x[2]>> /\ x[2] # None
        BY <2>0, PairsAre
    <2>2. CASE x \in came' \cup accounts'
        <3>1. x \in came \cup accounts => x \in Claimed
            BY <2>1 DEF Claimed
        <3> QED
            BY <2>2, <3>1
    <2>3. ASSUME NEW d \in Callbacks, cb'[d].pc # "idle", cb'[d].door = x[1], cb'[d].user = x[2]
          PROVE  x \in Claimed \/ Known(x)
        <3>1. CASE cb'[d] = cb[d]
            BY <2>1, <2>3, <3>1 DEF Claimed
        <3>2. CASE Goes(cb'[d])
            BY <2>1, <2>3, <3>2 DEF Goes
        <3> QED
            BY <2>3, <3>1, <3>2
    <2> QED
        BY <2>2, <2>3 DEF Claimed
<1>2. ASSUME NEW d \in Callbacks PROVE Knows(cb[d])'
    <2>1. CASE cb'[d] = cb[d]
        BY <2>1 DEF AccountInv, CallbacksKnow, Knows
    <2>2. CASE cb'[d].pc = "idle"
        BY <2>2 DEF Knows
    <2>3. CASE Goes(cb'[d])
        BY <2>3 DEF Goes, Knows
    <2> QED
        BY <2>1, <2>2, <2>3
<1>3. CallbacksKnow'
    BY <1>2 DEF CallbacksKnow
<1>4. HerEmail' /\ OneRowEach'
    BY DEF AccountInv, HerEmail, Hers, OneRowEach, Login!Exists
<1>5. NoEmailOneDoor'
    <2> SUFFICES ASSUME NEW x \in Claimed', NEW y \in Claimed', x[2] = y[2], ~Known(x)
                 PROVE  x[1] = y[1]
        BY DEF NoEmailOneDoor, Known
    <2>1. ~Known(y)
        BY DEF Known
    <2> QED
        BY <1>1, <2>1 DEF AccountInv, NoEmailOneDoor
<1> QED
    BY <1>3, <1>4, <1>5

\* One of them goes on, and nobody comes in or is linked.
LEMMA KeptQuiet ==
    ASSUME Login!AccountConstants, AccountInv, UNCHANGED <<email, accounts, creds, su, came>>,
           links' \subseteq links,
           NEW c \in Callbacks, cb' \in [Callbacks -> Callback],
           \A d \in Callbacks : d # c => cb'[d] = cb[d],
           cb'[c].pc = "idle" \/ Goes(cb'[c])
    PROVE  AccountInv'
<1>1. CallbacksKnow' /\ HerEmail' /\ OneRowEach' /\ NoEmailOneDoor'
    BY KeptAlone
<1>2. RowsTyped' /\ SignupsTyped'
    BY DEF AccountInv, RowsTyped, SignupsTyped, Login!Exists
<1> QED
    BY <1>1, <1>2 DEF AccountInv

\* The user an identity is linked to has its email, and is claimed by it.
LEMMA LinkedIsHers ==
    ASSUME Login!AccountConstants, AccountInv, NEW c \in Callbacks, cb[c].pc # "idle",
           cb[c].door \in Login!Doors, NEW u \in Login!AccountOf(cb[c].door)
    PROVE  /\ u \in Logins /\ <<cb[c].door, u>> \in accounts /\ <<cb[c].door, u>> \in Claimed
           /\ email[u] = Login!EmailOf(cb[c].door) /\ Hers(<<cb[c].door, u>>)
<1>1. u \in Logins /\ <<cb[c].door, u>> \in accounts
    BY DEF Login!AccountOf
<1>2. <<cb[c].door, u>> \in Claimed
    BY <1>1 DEF Claimed
<1>3. Hers(<<cb[c].door, u>>)
    BY <1>1 DEF AccountInv, HerEmail
<1> QED
    BY <1>1, <1>2, <1>3 DEF Hers

\* Who a sign-in is for is claimed by its door.
LEMMA PendingIsClaimed ==
    ASSUME Login!AccountConstants, AccountInv, NEW c \in Callbacks, cb[c].pc # "idle",
           cb[c].door \in Login!Doors, cb[c].user \in Logins \cup {None}, cb[c].user # None
    PROVE  <<cb[c].door, cb[c].user>> \in Claimed
    BY DEF Claimed

LEMMA CallbackFields ==
    ASSUME AccountInv, NEW c \in Callbacks, cb[c].pc # "idle"
    PROVE  /\ cb[c] \in Callback /\ cb[c].door \in Login!Doors /\ cb[c].user \in Logins \cup {None}
           /\ Knows(cb[c]) /\ CallbacksKnow
<1>1. cb[c] \in Callback /\ Knows(cb[c]) /\ CallbacksKnow
    BY DEF AccountInv, CallbacksKnow
<1> QED
    BY <1>1 DEF Callback, PlainCallback, WithOther, Login!Idle

-----------------------------------------------------------------------------
(* The callback of a provider *)

LEMMA KeptByBegin ==
    ASSUME Login!AccountConstants, AccountInv, NEW c \in Callbacks,
           (\E i \in Identities : Login!Begin(c, i)) \/ (\E p \in People : Login!FollowLink(c, p))
    PROVE  AccountInv'
<1>1. /\ UNCHANGED <<email, accounts, creds, links, su, came>>
      /\ \E d \in Login!Doors, pc \in {"find", "used"} :
            /\ cb' = [cb EXCEPT ![c] = [pc |-> pc, door |-> d, user |-> None]]
            /\ pc = "find" => d \in Identities
            /\ pc = "used" => d \in People
    BY DEF Login!Begin, Login!FollowLink, Login!tables, Login!Doors
<1>2. PICK d \in Login!Doors, pc \in {"find", "used"} :
            /\ cb' = [cb EXCEPT ![c] = [pc |-> pc, door |-> d, user |-> None]]
            /\ pc = "find" => d \in Identities
            /\ pc = "used" => d \in People
    BY <1>1
<1> DEFINE q == [pc |-> pc, door |-> d, user |-> None]
<1>3. q \in Callback /\ q.pc = pc /\ q.door = d /\ q.user = None
    BY DEF Callback, PlainCallback, CallbackPcs
<1>4. cb \in [Callbacks -> Callback]
    BY DEF AccountInv, CallbacksKnow
<1> HIDE DEF q
<1>5. /\ cb' \in [Callbacks -> Callback] /\ cb'[c] = q
      /\ \A e \in Callbacks : e # c => cb'[e] = cb[e]
    BY <1>2, <1>3, <1>4 DEF q
<1>6. Goes(q)
    BY <1>2, <1>3 DEF Goes, Knows
<1> QED
    BY <1>1, <1>5, <1>6, KeptQuiet

LEMMA KeptByFind ==
    ASSUME Login!AccountConstants, AccountInv, NEW c \in Callbacks, Login!Find(c) \/ Login!Adopt(c)
    PROVE  AccountInv'
<1>1. cb[c].pc \in {"find", "adopt"} /\ UNCHANGED <<email, accounts, creds, links, su, came>>
    BY DEF Login!Find, Login!Adopt, Login!At, Login!tables
<1>2. Knows(cb[c]) /\ CallbacksKnow /\ cb[c].door \in Login!Doors /\ cb[c].user \in Logins \cup {None}
    BY <1>1, CallbackFields
<1>3. cb[c].door \in Identities
    BY <1>1, <1>2 DEF Knows
<1>4. CASE Login!GoAs(c, "match", None) \/ Login!Go(c, "stamp")
    <2>1. /\ cb' \in [Callbacks -> Callback] /\ \A d \in Callbacks : d # c => cb'[d] = cb[d]
          /\ cb'[c].pc \in {"match", "stamp"} /\ cb'[c].door = cb[c].door
          /\ cb'[c].user = None \/ cb'[c].user = cb[c].user
        BY <1>1, <1>2, <1>4, GoAsFields, GoAtFields DEF CallbackPcs
    <2>2. Goes(cb'[c])
        BY <1>1, <1>2, <1>3, <2>1, PendingIsClaimed DEF Goes, Knows
    <2> QED
        BY <1>1, <2>1, <2>2, KeptQuiet
<1>5. ASSUME NEW u \in Login!AccountOf(cb[c].door), Login!GoAs(c, "match", u) \/ Login!GoAs(c, "stamp", u)
      PROVE  AccountInv'
    <2>1. /\ u \in Logins /\ <<cb[c].door, u>> \in Claimed /\ email[u] = Login!EmailOf(cb[c].door)
        BY <1>1, <1>2, LinkedIsHers
    <2>2. /\ cb' \in [Callbacks -> Callback] /\ \A d \in Callbacks : d # c => cb'[d] = cb[d]
          /\ cb'[c].pc \in {"match", "stamp"} /\ cb'[c].door = cb[c].door /\ cb'[c].user = u
        BY <1>1, <1>2, <1>5, <2>1, GoAsFields DEF CallbackPcs
    <2>3. Goes(cb'[c])
        BY <1>3, <2>1, <2>2 DEF Goes, Knows
    <2> QED
        BY <1>1, <2>2, <2>3, KeptQuiet
<1> QED
    BY <1>4, <1>5 DEF Login!Find, Login!Adopt

LEMMA KeptByMatch ==
    ASSUME Login!AccountConstants, AccountInv, NEW c \in Callbacks, Login!Match(c)
    PROVE  AccountInv'
<1>1. cb[c].pc = "match" /\ UNCHANGED <<email, accounts, creds, links, su, came>>
    BY DEF Login!Match, Login!At, Login!tables
<1>2. Knows(cb[c]) /\ CallbacksKnow /\ cb[c].door \in Login!Doors /\ cb[c].user \in Logins \cup {None}
    BY <1>1, CallbackFields
<1>3. cb[c].door \in Identities
    BY <1>1, <1>2 DEF Knows
<1>4. CASE Login!Go(c, "adopt") \/ Login!Go(c, "stamp")
    <2>1. /\ cb' \in [Callbacks -> Callback] /\ \A d \in Callbacks : d # c => cb'[d] = cb[d]
          /\ cb'[c].pc \in {"adopt", "stamp"} /\ cb'[c].door = cb[c].door /\ cb'[c].user = cb[c].user
        BY <1>1, <1>2, <1>4, GoAtFields DEF CallbackPcs
    <2>2. Goes(cb'[c])
        BY <1>1, <1>2, <1>3, <2>1, PendingIsClaimed DEF Goes, Knows
    <2> QED
        BY <1>1, <2>1, <2>2, KeptQuiet
<1>5. ASSUME NEW u \in Login!Having(Login!EmailOf(cb[c].door)), Login!EmailOf(cb[c].door) # "",
             cb' = [cb EXCEPT ![c] = [pc |-> "count", door |-> cb[c].door, user |-> cb[c].user, other |-> u]]
      PROVE  AccountInv'
    <2> DEFINE q == [pc |-> "count", door |-> cb[c].door, user |-> cb[c].user, other |-> u]
    <2>1. u \in Logins /\ email[u] = Login!EmailOf(cb[c].door)
        BY <1>5 DEF Login!Having
    <2>2. /\ q \in WithOther /\ q \in Callback
          /\ q.pc = "count" /\ q.door = cb[c].door /\ q.user = cb[c].user /\ q.other = u
        BY <1>2, <2>1 DEF WithOther, Callback, CallbackPcs
    <2> HIDE DEF q
    <2>3. /\ cb' \in [Callbacks -> Callback] /\ \A d \in Callbacks : d # c => cb'[d] = cb[d]
          /\ cb'[c] = q
        BY <1>2, <1>5, <2>2 DEF q, CallbacksKnow
    <2>4. Goes(q)
        BY <1>1, <1>2, <1>3, <1>5, <2>1, <2>2, PendingIsClaimed DEF Goes, Knows
    <2> QED
        BY <1>1, <2>3, <2>4, KeptQuiet
<1> QED
    BY <1>4, <1>5 DEF Login!Match

LEMMA KeptByCount ==
    ASSUME Login!AccountConstants, AccountInv, NEW c \in Callbacks, Login!CountAccounts(c)
    PROVE  AccountInv'
<1>1. cb[c].pc = "count" /\ UNCHANGED <<email, accounts, creds, links, su, came>>
    BY DEF Login!CountAccounts, Login!At, Login!tables
<1>2. Knows(cb[c]) /\ CallbacksKnow /\ cb[c].door \in Login!Doors /\ cb[c].user \in Logins \cup {None}
    BY <1>1, CallbackFields
<1>3. /\ cb[c].door \in Identities /\ Login!EmailOf(cb[c].door) # ""
      /\ cb[c].other \in Logins /\ email[cb[c].other] \in {Login!EmailOf(cb[c].door), "gone"}
    BY <1>1, <1>2 DEF Knows, WithOther
<1>4. CASE Login!Go(c, "stamp")
    <2>1. /\ cb' \in [Callbacks -> Callback] /\ \A d \in Callbacks : d # c => cb'[d] = cb[d]
          /\ cb'[c].pc = "stamp" /\ cb'[c].door = cb[c].door /\ cb'[c].user = cb[c].user
        BY <1>1, <1>2, <1>4, GoAtFields DEF CallbackPcs
    <2>2. Goes(cb'[c])
        BY <1>1, <1>2, <1>3, <2>1, PendingIsClaimed DEF Goes, Knows
    <2> QED
        BY <1>1, <2>1, <2>2, KeptQuiet
<1>5. CASE Login!GoAs(c, "attach", cb[c].other)
    <2>1. PICK w \in Logins : w = cb[c].other
        BY <1>3
    <2>2. CallbacksKnow /\ cb[c].pc # "idle" /\ "attach" \in CallbackPcs
        BY <1>1, <1>2 DEF CallbackPcs
    <2>3. Login!GoAs(c, "attach", w)
        BY <1>5, <2>1
    <2>4. /\ cb' \in [Callbacks -> Callback] /\ \A d \in Callbacks : d # c => cb'[d] = cb[d]
          /\ cb'[c].pc = "attach" /\ cb'[c].door = cb[c].door /\ cb'[c].user = cb[c].other
        BY <2>1, <2>2, <2>3, GoAsFields
    <2>5. Known(<<cb'[c].door, cb'[c].user>>)
        BY <1>3, <2>4 DEF Known
    <2>6. Goes(cb'[c])
        BY <1>3, <2>4, <2>5 DEF Goes, Knows
    <2> QED
        BY <1>1, <2>4, <2>6, KeptQuiet
<1> QED
    BY <1>4, <1>5 DEF Login!CountAccounts

\* An identity that nobody has is linked to the user who is claimed by it, if she
\* is there.
LEMMA KeptByLinking ==
    ASSUME Login!AccountConstants, AccountInv, UNCHANGED <<email, creds, links, su>>,
           NEW d \in Identities, NEW u \in Logins, <<d, u>> \in Claimed,
           email[u] \in {Login!EmailOf(d), "gone"}, Login!AccountOf(d) = {}, Login!Exists(u),
           accounts' = accounts \cup {<<d, u>>}, came' \subseteq came \cup {<<d, u>>},
           cb' \in [Callbacks -> Callback],
           \A c \in Callbacks : cb'[c] = cb[c] \/ cb'[c].pc = "idle" \/ Goes(cb'[c])
    PROVE  AccountInv'
<1>1. Hers(<<d, u>>) /\ <<d, u>> \in Login!Doors \X Logins
    BY DEF Login!Exists, Hers, Login!Doors
<1>2. CallbacksKnow' /\ HerEmail' /\ OneRowEach' /\ NoEmailOneDoor'
    BY <1>1, KeptAlone
<1>3. \A a, b \in accounts' : a[1] = b[1] => a = b
    <2>1. ASSUME NEW a \in accounts PROVE a[1] # d
        <3>1. a \in Identities \X Logins
            BY DEF AccountInv, RowsTyped
        <3>2. a = <<a[1], a[2]>> /\ a[2] \in Logins
            BY <3>1
        <3> QED
            BY <3>2, <2>1 DEF Login!AccountOf
    <2>2. <<d, u>>[1] = d
        OBVIOUS
    <2> QED
        BY <2>1, <2>2 DEF AccountInv, RowsTyped
<1>4. RowsTyped'
    <2>1. <<d, u>> \in Identities \X Logins
        OBVIOUS
    <2>2. accounts \subseteq Identities \X Logins /\ came \subseteq Login!Doors \X Logins
        BY DEF AccountInv, RowsTyped
    <2>3. accounts' \subseteq Identities \X Logins /\ came' \subseteq Login!Doors \X Logins
        BY <1>1, <2>1, <2>2
    <2>4. creds' \subseteq {v \in Logins : Login!Exists(v)'}
        BY DEF AccountInv, RowsTyped, Login!Exists
    <2> QED
        BY <1>3, <2>3, <2>4 DEF AccountInv, RowsTyped
<1>5. SignupsTyped'
    BY DEF AccountInv, SignupsTyped
<1> QED
    BY <1>2, <1>4, <1>5 DEF AccountInv

\* Fewer are linked.
LEMMA KeptByUnlinking ==
    ASSUME Login!AccountConstants, AccountInv, UNCHANGED <<email, creds, links, su>>,
           accounts' \subseteq accounts, came' \subseteq came,
           cb' \in [Callbacks -> Callback],
           \A c \in Callbacks : cb'[c] = cb[c] \/ cb'[c].pc = "idle" \/ Goes(cb'[c])
    PROVE  AccountInv'
<1>1. CallbacksKnow' /\ HerEmail' /\ OneRowEach' /\ NoEmailOneDoor'
    BY KeptAlone
<1>2. RowsTyped' /\ SignupsTyped'
    BY DEF AccountInv, RowsTyped, SignupsTyped, Login!Exists
<1> QED
    BY <1>1, <1>2 DEF AccountInv

LEMMA KeptByAttach ==
    ASSUME Login!AccountConstants, AccountInv, NEW c \in Callbacks, Login!AttachAccount(c) \/ Login!Unlink(c) \/ Login!Link(c)
    PROVE  AccountInv'
<1>1. cb[c].pc \in {"attach", "unlink", "link"} /\ UNCHANGED <<email, creds, links, su>>
    BY DEF Login!AttachAccount, Login!Unlink, Login!Link, Login!At
<1>2. Knows(cb[c]) /\ CallbacksKnow /\ cb[c].door \in Login!Doors /\ cb[c].user \in Logins \cup {None}
    BY <1>1, CallbackFields
<1>3. /\ cb[c].door \in Identities /\ cb[c].user \in Logins /\ cb[c].user # None
      /\ email[cb[c].user] \in {Login!EmailOf(cb[c].door), "gone"}
    BY <1>1, <1>2 DEF Knows, Login!AccountConstants
<1>4. <<cb[c].door, cb[c].user>> \in Claimed
    BY <1>1, <1>2, <1>3, PendingIsClaimed
<1>5. ASSUME NEW pc \in {"stamp", "link"}, Login!Go(c, pc)
      PROVE  /\ cb' \in [Callbacks -> Callback]
             /\ \A d \in Callbacks : cb'[d] = cb[d] \/ Goes(cb'[d])
    <2>1. /\ cb' \in [Callbacks -> Callback] /\ \A d \in Callbacks : d # c => cb'[d] = cb[d]
          /\ cb'[c].pc = pc /\ cb'[c].door = cb[c].door /\ cb'[c].user = cb[c].user
        BY <1>1, <1>2, <1>5, GoAtFields DEF CallbackPcs
    <2>2. Goes(cb'[c])
        BY <1>3, <1>4, <2>1 DEF Goes, Knows
    <2> QED
        BY <2>1, <2>2
<1>6. CASE Login!AttachAccount(c)
    <2>1. Login!Go(c, "stamp") /\ came' = came
        BY <1>6 DEF Login!AttachAccount
    <2>2. CASE Login!AccountOf(cb[c].door) = {} /\ Login!Exists(cb[c].user)
        <3>1. accounts' = accounts \cup {<<cb[c].door, cb[c].user>>}
            BY <1>6, <2>2 DEF Login!AttachAccount
        <3> QED
            BY <1>1, <1>3, <1>4, <1>5, <2>1, <2>2, <3>1, KeptByLinking
    <2>3. CASE accounts' = accounts
        BY <1>1, <1>5, <2>1, <2>3, KeptByUnlinking
    <2> QED
        BY <1>6, <2>2, <2>3 DEF Login!AttachAccount
<1>7. CASE Login!Unlink(c)
    <2>1. Login!Go(c, "link") /\ came' = came /\ accounts' \subseteq accounts
        BY <1>7 DEF Login!Unlink
    <2> QED
        BY <1>1, <1>5, <2>1, KeptByUnlinking
<1>8. CASE Login!Link(c)
    <2>1. cb' = [cb EXCEPT ![c] = Login!Idle]
        BY <1>8 DEF Login!Link, Login!In
    <2>2. /\ cb' \in [Callbacks -> Callback]
          /\ \A d \in Callbacks : cb'[d] = cb[d] \/ cb'[d].pc = "idle"
        BY <1>2, <2>1, IdleFields
    <2>3. CASE Login!AccountOf(cb[c].door) = {} /\ Login!Exists(cb[c].user)
        <3>1. /\ accounts' = accounts \cup {<<cb[c].door, cb[c].user>>}
              /\ came' = came \cup {<<cb[c].door, cb[c].user>>}
            BY <1>8, <2>3 DEF Login!Link, Login!In
        <3> QED
            BY <1>1, <1>3, <1>4, <2>2, <2>3, <3>1, KeptByLinking
    <2>4. CASE accounts' = accounts /\ came' = came
        BY <1>1, <2>2, <2>4, KeptByUnlinking
    <2> QED
        BY <1>8, <2>3, <2>4 DEF Login!Link
<1> QED
    BY <1>6, <1>7, <1>8

\* Nobody's email is stamped: who has none was shown none.
LEMMA KeptByStamp ==
    ASSUME Login!AccountConstants, AccountInv, NEW c \in Callbacks, Login!Stamp(c)
    PROVE  AccountInv'
<1>1. cb[c].pc = "stamp" /\ UNCHANGED <<accounts, creds, links, su, came>> /\ Login!Go(c, "login")
    BY DEF Login!Stamp, Login!At
<1>2. Knows(cb[c]) /\ CallbacksKnow /\ cb[c].door \in Login!Doors /\ cb[c].user \in Logins \cup {None}
    BY <1>1, CallbackFields
<1>3. cb[c].door \in Identities
    BY <1>1, <1>2 DEF Knows
<1>4. email' = email
    <2>1. email \in [Logins -> People \cup {"", None, "gone"}]
        BY DEF AccountInv, RowsTyped
    <2>2. ASSUME NEW v \in Logins, v = cb[c].user, email[v] = "", Login!Having(Login!EmailOf(cb[c].door)) = {}
          PROVE  FALSE
        <3>1. v # None
            BY DEF Login!AccountConstants
        <3>2. email[v] = Login!EmailOf(cb[c].door)
            BY <1>1, <1>2, <2>2, <3>1 DEF Knows
        <3> QED
            BY <2>2, <3>2 DEF Login!Having
    <2>3. email' = [v \in Logins |-> IF v = cb[c].user /\ email[v] = "" /\ Login!Having(Login!EmailOf(cb[c].door)) = {}
                                    THEN Login!EmailOf(cb[c].door) ELSE email[v]]
        BY DEF Login!Stamp
    <2>4. \A v \in Logins : email'[v] = email[v]
        BY <2>2, <2>3
    <2>5. email' = [v \in Logins |-> email'[v]] /\ email = [v \in Logins |-> email[v]]
        BY <2>1, <2>3
    <2> QED
        BY <2>4, <2>5
<1>5. /\ cb' \in [Callbacks -> Callback] /\ \A d \in Callbacks : d # c => cb'[d] = cb[d]
      /\ cb'[c].pc = "login" /\ cb'[c].door = cb[c].door /\ cb'[c].user = cb[c].user
    BY <1>1, <1>2, GoAtFields DEF CallbackPcs
<1>6. Goes(cb'[c])
    BY <1>1, <1>2, <1>3, <1>5, PendingIsClaimed DEF Goes, Knows
<1> QED
    BY <1>1, <1>4, <1>5, <1>6, KeptQuiet

\* Somebody comes in by a door whose email is hers.
LEMMA KeptByComingIn ==
    ASSUME Login!AccountConstants, AccountInv, UNCHANGED <<Login!tables, su>>,
           NEW d \in Login!Doors, NEW u \in Logins, Hers(<<d, u>>),
           <<d, u>> \in Claimed \/ Known(<<d, u>>),
           came' = came \cup {<<d, u>>}, cb' \in [Callbacks -> Callback],
           \A c \in Callbacks : cb'[c] = cb[c] \/ cb'[c].pc = "idle"
    PROVE  AccountInv'
<1>0. UNCHANGED <<email, accounts, creds, links>> /\ <<d, u>> \in Login!Doors \X Logins
    BY DEF Login!tables
<1>1. CallbacksKnow' /\ HerEmail' /\ OneRowEach' /\ NoEmailOneDoor'
    BY <1>0, KeptAlone
<1>2. RowsTyped' /\ SignupsTyped'
    BY <1>0 DEF AccountInv, RowsTyped, SignupsTyped, Login!Exists
<1> QED
    BY <1>1, <1>2 DEF AccountInv

LEMMA KeptByLogin ==
    ASSUME Login!AccountConstants, AccountInv, NEW c \in Callbacks, Login!Login(c)
    PROVE  AccountInv'
<1>1. cb[c].pc = "login" /\ UNCHANGED <<Login!tables, su>>
    BY DEF Login!Login, Login!At
<1>2. Knows(cb[c]) /\ CallbacksKnow /\ cb[c].door \in Login!Doors /\ cb[c].user \in Logins \cup {None}
    BY <1>1, CallbackFields
<1>3. CASE Login!Go(c, "create") /\ UNCHANGED came
    <2>1. /\ cb' \in [Callbacks -> Callback] /\ \A d \in Callbacks : d # c => cb'[d] = cb[d]
          /\ cb'[c].pc = "create" /\ cb'[c].door = cb[c].door /\ cb'[c].user = cb[c].user
        BY <1>1, <1>2, <1>3, GoAtFields DEF CallbackPcs
    <2>2. Goes(cb'[c])
        BY <1>1, <1>2, <2>1, PendingIsClaimed DEF Goes, Knows
    <2> QED
        BY <1>1, <1>3, <2>1, <2>2, KeptQuiet DEF Login!tables
<1>4. ASSUME NEW u \in Login!AccountOf(cb[c].door), Login!In(c, u) PROVE AccountInv'
    <2>1. /\ u \in Logins /\ <<cb[c].door, u>> \in Claimed /\ Hers(<<cb[c].door, u>>)
        BY <1>1, <1>2, LinkedIsHers
    <2>2. came' = came \cup {<<cb[c].door, u>>} /\ cb' = [cb EXCEPT ![c] = Login!Idle]
        BY <1>4 DEF Login!In
    <2>3. /\ cb' \in [Callbacks -> Callback]
          /\ \A d \in Callbacks : cb'[d] = cb[d] \/ cb'[d].pc = "idle"
        BY <1>2, <2>2, IdleFields
    <2> QED
        BY <1>1, <1>2, <2>1, <2>2, <2>3, KeptByComingIn
<1> QED
    BY <1>3, <1>4 DEF Login!Login

LEMMA KeptByCreate ==
    ASSUME Login!AccountConstants, AccountInv, NEW c \in Callbacks, Login!Create(c)
    PROVE  AccountInv'
<1>1. cb[c].pc = "create" /\ UNCHANGED <<Login!tables, su>>
    BY DEF Login!Create, Login!At
<1>2. Knows(cb[c]) /\ CallbacksKnow /\ cb[c].door \in Login!Doors /\ cb[c].user \in Logins \cup {None}
    BY <1>1, CallbackFields
<1>3. CASE Login!Go(c, "insert") /\ UNCHANGED came
    <2>1. /\ cb' \in [Callbacks -> Callback] /\ \A d \in Callbacks : d # c => cb'[d] = cb[d]
          /\ cb'[c].pc = "insert" /\ cb'[c].door = cb[c].door /\ cb'[c].user = cb[c].user
        BY <1>1, <1>2, <1>3, GoAtFields DEF CallbackPcs
    <2>2. Goes(cb'[c])
        BY <1>1, <1>2, <2>1, PendingIsClaimed DEF Goes, Knows
    <2> QED
        BY <1>1, <1>3, <2>1, <2>2, KeptQuiet DEF Login!tables
<1>4. ASSUME NEW u \in Login!Having(Login!EmailOf(cb[c].door)), Login!EmailOf(cb[c].door) # "",
             \/ cb[c].door \in Identities /\ Login!GoAs(c, "unlink", u) /\ UNCHANGED came
             \/ Login!In(c, u)
      PROVE  AccountInv'
    <2>1. u \in Logins /\ email[u] = Login!EmailOf(cb[c].door)
        BY <1>4 DEF Login!Having
    <2>2. Hers(<<cb[c].door, u>>) /\ Known(<<cb[c].door, u>>)
        BY <1>4, <2>1 DEF Hers, Known
    <2>3. CASE cb[c].door \in Identities /\ Login!GoAs(c, "unlink", u) /\ UNCHANGED came
        <3>1. /\ cb' \in [Callbacks -> Callback] /\ \A d \in Callbacks : d # c => cb'[d] = cb[d]
              /\ cb'[c].pc = "unlink" /\ cb'[c].door = cb[c].door /\ cb'[c].user = u
            BY <1>1, <1>2, <2>1, <2>3, GoAsFields DEF CallbackPcs
        <3>2. Goes(cb'[c])
            BY <2>1, <2>2, <2>3, <3>1 DEF Goes, Knows
        <3> QED
            BY <1>1, <2>3, <3>1, <3>2, KeptQuiet DEF Login!tables
    <2>4. CASE Login!In(c, u)
        <3>1. came' = came \cup {<<cb[c].door, u>>} /\ cb' = [cb EXCEPT ![c] = Login!Idle]
            BY <2>4 DEF Login!In
        <3>2. /\ cb' \in [Callbacks -> Callback]
              /\ \A d \in Callbacks : cb'[d] = cb[d] \/ cb'[d].pc = "idle"
            BY <1>2, <3>1, IdleFields
        <3> QED
            BY <1>1, <1>2, <2>1, <2>2, <3>1, <3>2, KeptByComingIn
    <2> QED
        BY <1>4, <2>3, <2>4
<1> QED
    BY <1>3, <1>4 DEF Login!Create, Login!LooksUp

-----------------------------------------------------------------------------
(* Users are made and erased *)

\* A row that was never there is nobody's.
LEMMA UnusedIsUnclaimed ==
    ASSUME Login!AccountConstants, AccountInv, NEW u \in Logins, email[u] = None
    PROVE  /\ \A x \in Claimed : x[2] # u
           /\ \A x \in came \cup accounts : x[2] # u
           /\ \A c \in Callbacks : cb[c].pc # "idle" => cb[c].user # u
           /\ \A c \in Callbacks : cb[c].pc = "count" => cb[c].other # u
<1>1. ASSUME NEW x \in came \cup accounts PROVE x[2] # u
    <2>1. x \in Login!Doors \X Logins
        BY DEF AccountInv, RowsTyped, Login!Doors
    <2>2. x[1] \in Login!Doors /\ Hers(x)
        BY <2>1, PairsAre DEF AccountInv, HerEmail
    <2> QED
        BY <2>2, Emails DEF Hers
<1>2. ASSUME NEW c \in Callbacks, cb[c].pc # "idle"
      PROVE  cb[c].user # u /\ (cb[c].pc = "count" => cb[c].other # u)
    <2>1. Knows(cb[c]) /\ cb[c].door \in Login!Doors /\ cb[c].user \in Logins \cup {None}
        BY <1>2, CallbackFields
    <2>2. Login!EmailOf(cb[c].door) # None /\ None # "gone" /\ u # None
        BY <2>1, Emails DEF Login!AccountConstants
    <2> QED
        BY <1>2, <2>1, <2>2 DEF Knows
<1>3. ASSUME NEW x \in Claimed PROVE x[2] # u
    BY <1>1, <1>2 DEF Claimed
<1> QED
    BY <1>1, <1>2, <1>3

\* A user is made with an email that nobody has, by one door at most.
LEMMA KeptByMaking ==
    ASSUME Login!AccountConstants, AccountInv, UNCHANGED <<accounts, creds, links>>, SignupsTyped',
           NEW u \in Logins, email[u] = None, NEW p \in Login!Doors, Login!Having(Login!EmailOf(p)) = {},
           email' = [email EXCEPT ![u] = Login!EmailOf(p)],
           came' \subseteq came \cup {<<p, u>>}, cb' \in [Callbacks -> Callback],
           \A c \in Callbacks :
                \/ cb'[c] = cb[c]
                \/ cb'[c].pc = "idle"
                \/ cb'[c].pc = "unlink" /\ cb'[c].door = p /\ cb'[c].user = u /\ p \in Identities
    PROVE  AccountInv'
<1>1. /\ email'[u] = Login!EmailOf(p) /\ \A v \in Logins : v # u => email'[v] = email[v]
      /\ Login!EmailOf(p) \in People \cup {""} /\ Login!EmailOf(p) \notin {None, "gone"}
      /\ email' \in [Logins -> People \cup {"", None, "gone"}]
      /\ \A v \in Logins : email[v] # Login!EmailOf(p)
    <2>1. Login!EmailOf(p) \in People \cup {""} /\ Login!EmailOf(p) \notin {None, "gone"}
        BY Emails
    <2>2. email \in [Logins -> People \cup {"", None, "gone"}]
        BY DEF AccountInv, RowsTyped
    <2>3. \A v \in Logins : email[v] # Login!EmailOf(p)
        BY DEF Login!Having
    <2> QED
        BY <2>1, <2>2, <2>3
<1>2. <<p, u>> \in Login!Doors \X Logins /\ <<p, u>>[1] = p /\ <<p, u>>[2] = u
    OBVIOUS
<1>3. RowsTyped'
    <2>1. came' \subseteq Login!Doors \X Logins
        BY <1>2 DEF AccountInv, RowsTyped
    <2>2. \A v \in Logins : Login!Exists(v) => Login!Exists(v)'
        BY <1>1 DEF Login!Exists
    <2> QED
        BY <1>1, <2>1, <2>2 DEF AccountInv, RowsTyped
<1>4. OneRowEach'
    <2> SUFFICES ASSUME NEW v \in Logins, NEW w \in Logins, Login!Exists(v)', email'[v] = email'[w] PROVE v = w
        BY DEF OneRowEach
    <2> QED
        BY <1>1 DEF AccountInv, OneRowEach, Login!Exists
<1>5. HerEmail'
    <2> SUFFICES ASSUME NEW x \in came' \cup accounts' PROVE Hers(x)'
        BY DEF HerEmail
    <2>1. CASE x \in came \cup accounts
        <3>1. x[2] # u /\ Hers(x)
            BY <2>1, UnusedIsUnclaimed DEF AccountInv, HerEmail
        <3>2. x \in Login!Doors \X Logins
            BY <2>1 DEF AccountInv, RowsTyped, Login!Doors
        <3>3. x[2] \in Logins
            BY <3>2, PairsAre
        <3> QED
            BY <1>1, <3>1, <3>3 DEF Hers
    <2>2. CASE x = <<p, u>>
        BY <1>1, <1>2, <2>2 DEF Hers
    <2> QED
        BY <2>1, <2>2
<1>6. CallbacksKnow'
    <2> SUFFICES ASSUME NEW c \in Callbacks PROVE Knows(cb[c])'
        BY DEF CallbacksKnow
    <2>1. CASE cb'[c] = cb[c]
        <3>1. CASE cb[c].pc = "idle"
            BY <2>1, <3>1 DEF Knows
        <3>2. CASE cb[c].pc # "idle"
            <4>1. Knows(cb[c]) /\ cb[c].user \in Logins \cup {None}
                BY <3>2, CallbackFields
            <4>2. cb[c].user # u /\ (cb[c].pc = "count" => cb[c].other # u)
                BY <3>2, UnusedIsUnclaimed
            <4>3. cb[c].pc = "count" => cb[c].other \in Logins
                BY <4>1 DEF Knows, WithOther
            <4> QED
                BY <1>1, <2>1, <4>1, <4>2, <4>3 DEF Knows
        <3> QED
            BY <3>1, <3>2
    <2>2. CASE cb'[c].pc = "idle"
        BY <2>2 DEF Knows
    <2>3. CASE cb'[c].pc = "unlink" /\ cb'[c].door = p /\ cb'[c].user = u /\ p \in Identities
        BY <1>1, <2>3 DEF Knows
    <2> QED
        BY <2>1, <2>2, <2>3
<1>7. NoEmailOneDoor'
    <2>1. ASSUME NEW x \in Claimed' PROVE x \in Claimed \/ (x[1] = p /\ x[2] = u)
        <3>1. x \in Login!Doors \X Logins
            BY DEF Claimed
        <3>2. x = <<x[1], x[2]>>
            BY <3>1, PairsAre
        <3>3. CASE x \in came' \cup accounts'
            BY <1>2, <3>1, <3>3 DEF Claimed
        <3>4. ASSUME NEW c \in Callbacks, cb'[c].pc # "idle", cb'[c].door = x[1], cb'[c].user = x[2]
              PROVE  x \in Claimed \/ (x[1] = p /\ x[2] = u)
            BY <3>1, <3>4 DEF Claimed
        <3> QED
            BY <3>3, <3>4 DEF Claimed
    <2> SUFFICES ASSUME NEW x \in Claimed', NEW y \in Claimed', x[2] = y[2], ~Known(x)'
                 PROVE  x[1] = y[1]
        BY DEF NoEmailOneDoor
    <2>2. CASE x[2] = u
        BY <2>1, <2>2, UnusedIsUnclaimed
    <2>3. CASE x[2] # u
        <3>1. x \in Claimed /\ y \in Claimed
            BY <2>1, <2>3
        <3>2. x[2] \in Logins
            BY <3>1, PairsAre DEF Claimed
        <3>3. ~Known(x)
            BY <1>1, <2>3, <3>2 DEF Known
        <3> QED
            BY <3>1, <3>3 DEF AccountInv, NoEmailOneDoor
    <2> QED
        BY <2>2, <2>3
<1> QED
    BY <1>3, <1>4, <1>5, <1>6, <1>7 DEF AccountInv

LEMMA KeptByInsertUser ==
    ASSUME Login!AccountConstants, AccountInv, NEW c \in Callbacks, Login!InsertUser(c)
    PROVE  AccountInv'
<1>1. cb[c].pc = "insert" /\ UNCHANGED <<accounts, creds, links, su>> /\ Login!Having(Login!EmailOf(cb[c].door)) = {}
    BY DEF Login!InsertUser, Login!At, Login!Free
<1>2. Knows(cb[c]) /\ CallbacksKnow /\ cb[c].door \in Login!Doors /\ cb[c].user \in Logins \cup {None}
    BY <1>1, CallbackFields
<1>3. PICK u \in Login!Unused :
            /\ email' = [email EXCEPT ![u] = Login!EmailOf(cb[c].door)]
            /\ IF cb[c].door \in Identities THEN Login!GoAs(c, "unlink", u) /\ UNCHANGED came ELSE Login!In(c, u)
    BY DEF Login!InsertUser
<1>4. u \in Logins /\ email[u] = None
    BY DEF Login!Unused
<1>5. SignupsTyped'
    BY <1>1 DEF AccountInv, SignupsTyped
<1>6. CASE cb[c].door \in Identities
    <2>1. /\ cb' \in [Callbacks -> Callback] /\ \A d \in Callbacks : d # c => cb'[d] = cb[d]
          /\ cb'[c].pc = "unlink" /\ cb'[c].door = cb[c].door /\ cb'[c].user = u /\ came' = came
        BY <1>1, <1>2, <1>3, <1>4, <1>6, GoAsFields DEF CallbackPcs
    <2> QED
        BY <1>1, <1>2, <1>3, <1>4, <1>5, <1>6, <2>1, KeptByMaking
<1>7. CASE cb[c].door \notin Identities
    <2>1. cb' = [cb EXCEPT ![c] = Login!Idle] /\ came' = came \cup {<<cb[c].door, u>>}
        BY <1>3, <1>7 DEF Login!In
    <2>2. /\ cb' \in [Callbacks -> Callback]
          /\ \A d \in Callbacks : cb'[d] = cb[d] \/ cb'[d].pc = "idle"
        BY <1>2, <2>1, IdleFields
    <2> QED
        BY <1>1, <1>2, <1>3, <1>4, <1>5, <2>1, <2>2, KeptByMaking
<1> QED
    BY <1>6, <1>7

LEMMA KeptByRefusing ==
    ASSUME Login!AccountConstants, AccountInv, NEW c \in Callbacks, Login!InsertRefused(c) \/ Login!UseLink(c)
    PROVE  AccountInv'
<1>1. CASE Login!InsertRefused(c)
    <2>1. cb' = [cb EXCEPT ![c] = Login!Idle] /\ UNCHANGED <<email, accounts, creds, links, su, came>>
        BY <1>1 DEF Login!InsertRefused, Login!tables
    <2>2. /\ cb' \in [Callbacks -> Callback] /\ cb'[c].pc = "idle"
          /\ \A d \in Callbacks : d # c => cb'[d] = cb[d]
        BY <2>1, IdleFields DEF AccountInv
    <2> QED
        BY <2>1, <2>2, KeptQuiet
<1>2. CASE Login!UseLink(c)
    <2>1. /\ cb[c].pc = "used" /\ Login!Go(c, "create") /\ links' \subseteq links
          /\ UNCHANGED <<email, accounts, creds, su, came>>
        BY <1>2 DEF Login!UseLink, Login!At
    <2>2. Knows(cb[c]) /\ CallbacksKnow /\ cb[c].door \in Login!Doors /\ cb[c].user \in Logins \cup {None}
        BY <2>1, CallbackFields
    <2>3. /\ cb' \in [Callbacks -> Callback] /\ \A d \in Callbacks : d # c => cb'[d] = cb[d]
          /\ cb'[c].pc = "create" /\ cb'[c].door = cb[c].door /\ cb'[c].user = cb[c].user
        BY <2>1, <2>2, GoAtFields DEF CallbackPcs
    <2>4. Goes(cb'[c])
        BY <2>1, <2>2, <2>3, PendingIsClaimed DEF Goes, Knows
    <2> QED
        BY <2>1, <2>3, <2>4, KeptQuiet
<1> QED
    BY <1>1, <1>2

\* A link is sent; somebody comes in by her password.
LEMMA KeptByPassword ==
    ASSUME Login!AccountConstants, AccountInv, NEW p \in People, Login!SendLink(p) \/ Login!Password(p)
    PROVE  AccountInv'
<1>1. CASE Login!SendLink(p)
    <2>1. UNCHANGED <<email, accounts, creds, cb, su, came>> /\ links' = links \cup {p}
        BY <1>1 DEF Login!SendLink
    <2>2. CallbacksKnow' /\ HerEmail' /\ OneRowEach' /\ NoEmailOneDoor'
        <3>1. cb' \in [Callbacks -> Callback]
            BY <2>1 DEF AccountInv, CallbacksKnow
        <3> QED
            BY <2>1, <3>1, KeptAlone
    <2>3. RowsTyped' /\ SignupsTyped'
        BY <2>1 DEF AccountInv, RowsTyped, SignupsTyped, Login!Exists
    <2> QED
        BY <2>2, <2>3 DEF AccountInv
<1>2. CASE Login!Password(p)
    <2>1. PICK u \in Login!Having(p) \cap creds : came' = came \cup {<<p, u>>}
        BY <1>2 DEF Login!Password
    <2>2. p \in Login!Doors /\ Login!EmailOf(p) = p /\ Login!EmailOf(p) # "" /\ u \in Logins /\ email[u] = p
        BY <2>1, Emails DEF Login!Having, Login!Doors
    <2>3. Hers(<<p, u>>) /\ Known(<<p, u>>)
        BY <2>2 DEF Hers, Known
    <2>4. UNCHANGED <<Login!tables, su>> /\ cb' \in [Callbacks -> Callback] /\ cb' = cb
        BY <1>2 DEF Login!Password, AccountInv, CallbacksKnow
    <2> QED
        BY <2>1, <2>2, <2>3, <2>4, KeptByComingIn
<1> QED
    BY <1>1, <1>2

LEMMA KeptBySignUp ==
    ASSUME Login!AccountConstants, AccountInv, NEW s \in Signups,
           (\E p \in People : Login!SignUp(s, p)) \/ Login!SignUpCheck(s) \/ Login!SignUpCreds(s)
    PROVE  AccountInv'
<1>1. UNCHANGED <<email, accounts, links, cb, came>>
    BY DEF Login!SignUp, Login!SignUpCheck, Login!SignUpCreds, Login!tables
<1>2. CallbacksKnow' /\ HerEmail' /\ OneRowEach' /\ NoEmailOneDoor'
    <2>1. cb' \in [Callbacks -> Callback]
        BY <1>1 DEF AccountInv, CallbacksKnow
    <2> QED
        BY <1>1, <2>1, KeptAlone
<1>3. su \in [Signups -> SignupRecord] /\ su[s] \in SignupRecord
      /\ \A r \in Signups : su[r].pc = "creds" => su[r].user \in Logins
    BY DEF AccountInv, SignupsTyped
<1>4. SignupsTyped'
    <2>1. ASSUME NEW q, su' = [su EXCEPT ![s] = q], q \in SignupRecord, q.pc # "creds" PROVE SignupsTyped'
        BY <1>3, <2>1 DEF SignupsTyped
    <2>2. CASE \E p \in People : Login!SignUp(s, p)
        <3>1. PICK p \in People : su' = [su EXCEPT ![s] = [pc |-> "check", person |-> p, user |-> None]]
            BY <2>2 DEF Login!SignUp
        <3>2. /\ [pc |-> "check", person |-> p, user |-> None] \in SignupRecord
              /\ [pc |-> "check", person |-> p, user |-> None].pc = "check"
            BY DEF SignupRecord
        <3> QED
            BY <2>1, <3>1, <3>2
    <2>3. CASE Login!SignUpCheck(s)
        <3>1. su[s].pc = "check" /\ su[s] \in [pc : {"check", "insert", "creds"}, person : People, user : Logins \cup {None}]
            BY <1>3, <2>3 DEF Login!SignUpCheck, SignupRecord, Login!Idle
        <3>2. /\ [su[s] EXCEPT !.pc = "insert"] \in SignupRecord /\ [su[s] EXCEPT !.pc = "insert"].pc = "insert"
              /\ Login!Idle \in SignupRecord /\ Login!Idle.pc = "idle"
            BY <3>1 DEF SignupRecord, Login!Idle
        <3>3. \/ su' = [su EXCEPT ![s] = [su[s] EXCEPT !.pc = "insert"]]
              \/ su' = [su EXCEPT ![s] = Login!Idle]
            BY <1>3, <2>3 DEF Login!SignUpCheck
        <3> QED
            BY <2>1, <3>2, <3>3
    <2>4. CASE Login!SignUpCreds(s)
        <3>1. su' = [su EXCEPT ![s] = Login!Idle]
            BY <2>4 DEF Login!SignUpCreds
        <3>2. Login!Idle \in SignupRecord /\ Login!Idle.pc = "idle"
            BY DEF SignupRecord, Login!Idle
        <3> QED
            BY <2>1, <3>1, <3>2
    <2> QED
        BY <2>2, <2>3, <2>4
<1>5. creds' \subseteq {u \in Logins : Login!Exists(u)'}
    <2>1. CASE creds' = creds
        BY <1>1, <2>1 DEF AccountInv, RowsTyped, Login!Exists
    <2>2. CASE su[s].pc = "creds" /\ Login!Exists(su[s].user) /\ creds' = creds \cup {su[s].user}
        BY <1>1, <1>3, <2>2 DEF AccountInv, RowsTyped, Login!Exists
    <2> QED
        BY <2>1, <2>2 DEF Login!SignUp, Login!SignUpCheck, Login!SignUpCreds, Login!tables
<1>6. RowsTyped'
    BY <1>1, <1>5 DEF AccountInv, RowsTyped
<1> QED
    BY <1>2, <1>4, <1>6 DEF AccountInv

LEMMA KeptBySignUpInsert ==
    ASSUME Login!AccountConstants, AccountInv, NEW s \in Signups, Login!SignUpInsert(s)
    PROVE  AccountInv'
<1>1. su[s].pc = "insert" /\ UNCHANGED <<accounts, creds, links, cb, came>>
    BY DEF Login!SignUpInsert
<1>2. /\ su \in [Signups -> SignupRecord]
      /\ su[s] \in [pc : {"check", "insert", "creds"}, person : People, user : Logins \cup {None}]
      /\ \A r \in Signups : su[r].pc = "creds" => su[r].user \in Logins
    BY <1>1 DEF AccountInv, SignupsTyped, SignupRecord, Login!Idle
<1>3. cb' \in [Callbacks -> Callback]
    BY <1>1 DEF AccountInv, CallbacksKnow
<1>4. CASE Login!Free(su[s].person)
    <2>1. PICK u \in Login!Unused :
                /\ email' = [email EXCEPT ![u] = su[s].person]
                /\ su' = [su EXCEPT ![s] = [su[s] EXCEPT !.pc = "creds", !.user = u]]
        BY <1>2, <1>4 DEF Login!SignUpInsert
    <2>2. u \in Logins /\ email[u] = None
        BY DEF Login!Unused
    <2>3. SignupsTyped'
        <3> DEFINE q == [pc |-> "creds", person |-> su[s].person, user |-> u]
        <3> DEFINE r == [pc |-> "creds", person |-> su[s].person, user |-> su[s].user]
        <3>4. [su[s] EXCEPT !.pc = "creds"] = r
            BY <1>2
        <3>5. [r EXCEPT !.user = u] = q
            OBVIOUS
        <3>1. [su[s] EXCEPT !.pc = "creds", !.user = u] = q
            BY <3>4, <3>5
        <3>2. q \in SignupRecord /\ q.user \in Logins
            BY <1>2, <2>2 DEF SignupRecord
        <3>3. su' = [su EXCEPT ![s] = q]
            BY <2>1, <3>1
        <3> HIDE DEF q
        <3> QED
            BY <1>2, <3>2, <3>3 DEF SignupsTyped
    <2>4. su[s].person \in Login!Doors /\ Login!EmailOf(su[s].person) = su[s].person
        BY <1>2, Emails DEF Login!Doors
    <2> QED
        BY <1>1, <1>3, <1>4, <2>1, <2>2, <2>3, <2>4, KeptByMaking DEF Login!Free
<1>5. CASE su' = [su EXCEPT ![s] = Login!Idle] /\ UNCHANGED email
    <2>1. CallbacksKnow' /\ HerEmail' /\ OneRowEach' /\ NoEmailOneDoor'
        BY <1>1, <1>3, <1>5, KeptAlone
    <2>2. SignupsTyped'
        BY <1>2, <1>5 DEF SignupsTyped, SignupRecord, Login!Idle
    <2>3. RowsTyped'
        BY <1>1, <1>5 DEF AccountInv, RowsTyped, Login!Exists
    <2> QED
        BY <2>1, <2>2, <2>3 DEF AccountInv
<1> QED
    BY <1>4, <1>5 DEF Login!SignUpInsert

LEMMA KeptByErase ==
    ASSUME Login!AccountConstants, AccountInv, NEW u \in Logins, Login!Erase(u)
    PROVE  AccountInv'
<1>1. /\ email' = [email EXCEPT ![u] = "gone"] /\ UNCHANGED <<links, cb, su>>
      /\ accounts' = {a \in accounts : a[2] # u} /\ creds' = creds \ {u}
      /\ came' = {x \in came : x[2] # u}
    BY DEF Login!Erase
<1>2. /\ email'[u] = "gone" /\ \A v \in Logins : v # u => email'[v] = email[v]
      /\ email' \in [Logins -> People \cup {"", None, "gone"}]
    BY <1>1 DEF AccountInv, RowsTyped
<1>3. RowsTyped'
    <2>1. creds' \subseteq {v \in Logins : Login!Exists(v)'}
        BY <1>1, <1>2 DEF AccountInv, RowsTyped, Login!Exists
    <2> QED
        BY <1>1, <1>2, <2>1 DEF AccountInv, RowsTyped
<1>4. SignupsTyped'
    BY <1>1 DEF AccountInv, SignupsTyped
<1>5. OneRowEach'
    BY <1>2 DEF AccountInv, OneRowEach, Login!Exists
<1>6. HerEmail'
    <2> SUFFICES ASSUME NEW x \in came' \cup accounts' PROVE Hers(x)'
        BY DEF HerEmail
    <2>1. x \in came \cup accounts /\ x[2] # u
        BY <1>1
    <2>2. x \in Login!Doors \X Logins
        BY <2>1 DEF AccountInv, RowsTyped, Login!Doors
    <2>3. x[2] \in Logins
        BY <2>2, PairsAre
    <2> QED
        BY <1>2, <2>1, <2>3 DEF AccountInv, HerEmail, Hers
<1>7. CallbacksKnow'
    <2> SUFFICES ASSUME NEW c \in Callbacks PROVE Knows(cb[c])'
        BY <1>1 DEF AccountInv, CallbacksKnow
    <2>1. cb'[c] = cb[c]
        BY <1>1
    <2>2. CASE cb[c].pc = "idle"
        BY <2>1, <2>2 DEF Knows
    <2>3. CASE cb[c].pc # "idle"
        <3>1. Knows(cb[c]) /\ cb[c].user \in Logins \cup {None}
            BY <2>3, CallbackFields
        <3>2. cb[c].pc = "count" => cb[c].other \in Logins
            BY <3>1 DEF Knows, WithOther
        <3> QED
            BY <1>2, <2>1, <3>1, <3>2 DEF Knows
    <2> QED
        BY <2>2, <2>3
<1>8. NoEmailOneDoor'
    <2>1. ASSUME NEW x \in Claimed' PROVE x \in Claimed /\ x[2] \in Logins
        BY <1>1, PairsAre DEF Claimed
    <2> SUFFICES ASSUME NEW x \in Claimed', NEW y \in Claimed', x[2] = y[2], ~Known(x)'
                 PROVE  x[1] = y[1]
        BY DEF NoEmailOneDoor
    <2>2. ~Known(x)
        BY <1>2, <2>1 DEF Known
    <2> QED
        BY <2>1, <2>2 DEF AccountInv, NoEmailOneDoor
<1> QED
    BY <1>3, <1>4, <1>5, <1>6, <1>7, <1>8 DEF AccountInv

LEMMA KeptByDies ==
    ASSUME Login!AccountConstants, AccountInv, Login!Dies
    PROVE  AccountInv'
<1>1. UNCHANGED <<email, accounts, creds, links, came>>
    BY DEF Login!Dies, Login!tables
<1>2. CASE \E c \in Callbacks : cb' = [cb EXCEPT ![c] = Login!Idle] /\ UNCHANGED su
    <2>1. PICK c \in Callbacks : cb' = [cb EXCEPT ![c] = Login!Idle] /\ UNCHANGED su
        BY <1>2
    <2>2. /\ cb' \in [Callbacks -> Callback] /\ cb'[c].pc = "idle"
          /\ \A d \in Callbacks : d # c => cb'[d] = cb[d]
        BY <2>1, IdleFields DEF AccountInv
    <2> QED
        BY <1>1, <2>1, <2>2, KeptQuiet
<1>3. CASE \E s \in Signups : su' = [su EXCEPT ![s] = Login!Idle] /\ UNCHANGED cb
    <2>0. cb' \in [Callbacks -> Callback] /\ cb' = cb
        BY <1>3 DEF AccountInv, CallbacksKnow
    <2>1. CallbacksKnow' /\ HerEmail' /\ OneRowEach' /\ NoEmailOneDoor'
        BY <1>1, <2>0, KeptAlone
    <2>2. SignupsTyped'
        BY <1>3 DEF AccountInv, SignupsTyped, SignupRecord, Login!Idle
    <2>3. RowsTyped'
        BY <1>1 DEF AccountInv, RowsTyped, Login!Exists
    <2> QED
        BY <2>1, <2>2, <2>3 DEF AccountInv
<1> QED
    BY <1>2, <1>3 DEF Login!Dies

-----------------------------------------------------------------------------
(* Always *)

LEMMA NobodyYet == Login!AccountConstants /\ Login!Init => AccountInv
<1> SUFFICES ASSUME Login!AccountConstants, Login!Init PROVE AccountInv
    OBVIOUS
<1>1. RowsTyped /\ SignupsTyped
    BY DEF Login!Init, RowsTyped, SignupsTyped, SignupRecord, Login!Idle
<1>2. CallbacksKnow /\ HerEmail /\ Claimed = {}
    BY DEF Login!Init, CallbacksKnow, Callback, Login!Idle, Knows, HerEmail, Claimed
<1>3. OneRowEach
    BY DEF Login!Init, OneRowEach, Login!Exists
<1> QED
    BY <1>1, <1>2, <1>3 DEF AccountInv, NoEmailOneDoor

LEMMA AccountSteps == Login!AccountConstants /\ AccountInv /\ [Login!Next]_Login!accountVars => AccountInv'
<1> SUFFICES ASSUME Login!AccountConstants, AccountInv, [Login!Next]_Login!accountVars PROVE AccountInv'
    OBVIOUS
<1>1. CASE UNCHANGED Login!accountVars
    <2>1. UNCHANGED <<email, accounts, creds, links, cb, su, came>>
        BY <1>1 DEF Login!accountVars
    <2>2. CallbacksKnow' /\ HerEmail' /\ OneRowEach' /\ NoEmailOneDoor'
        <3>1. cb' \in [Callbacks -> Callback]
            BY <2>1 DEF AccountInv, CallbacksKnow
        <3> QED
            BY <2>1, <3>1, KeptAlone
    <2>3. RowsTyped' /\ SignupsTyped'
        BY <2>1 DEF AccountInv, RowsTyped, SignupsTyped, Login!Exists
    <2> QED
        BY <2>2, <2>3 DEF AccountInv
<1>2. CASE Login!Next
    BY <1>2, KeptByBegin, KeptByFind, KeptByMatch, KeptByCount, KeptByAttach, KeptByStamp, KeptByLogin,
       KeptByCreate, KeptByInsertUser, KeptByRefusing, KeptByPassword, KeptBySignUp, KeptBySignUpInsert,
       KeptByErase, KeptByDies DEF Login!Next
<1> QED
    BY <1>1, <1>2

\* Two doors to one user are one woman's; and her email leads to one user.
LEMMA AccountsSafe == Login!AccountConstants /\ AccountInv => Login!TypeOK /\ Login!OnePersonOneUser
<1> SUFFICES ASSUME Login!AccountConstants, AccountInv PROVE Login!TypeOK /\ Login!OnePersonOneUser
    OBVIOUS
<1>1. ASSUME NEW x \in came \cup accounts
      PROVE  x[1] \in Login!Doors /\ x[2] \in Logins /\ email[x[2]] = Login!EmailOf(x[1]) /\ x \in Claimed /\ Login!Exists(x[2])
    <2>1. x \in Login!Doors \X Logins
        BY DEF AccountInv, RowsTyped, Login!Doors
    <2>2. x[1] \in Login!Doors /\ x[2] \in Logins /\ x \in Claimed
        BY <2>1, PairsAre DEF Claimed
    <2>3. email[x[2]] = Login!EmailOf(x[1])
        BY DEF AccountInv, HerEmail, Hers
    <2> QED
        BY <2>2, <2>3, Emails DEF Login!Exists
<1>2. ASSUME NEW x \in came \cup accounts, NEW y \in came \cup accounts, x[2] = y[2]
      PROVE  Login!PersonAt(x[1]) = Login!PersonAt(y[1])
    <2>0. Login!EmailOf(x[1]) = Login!EmailOf(y[1]) /\ x[1] \in Login!Doors /\ y[1] \in Login!Doors
        BY <1>1, <1>2
    <2>1. CASE Login!EmailOf(x[1]) # ""
        <3>1. Login!EmailOf(x[1]) = Login!PersonAt(x[1])
            BY <2>0, <2>1, Emails
        <3>2. Login!EmailOf(y[1]) = Login!PersonAt(y[1])
            BY <2>0, <2>1, Emails
        <3> QED
            BY <2>0, <3>1, <3>2
    <2>2. CASE Login!EmailOf(x[1]) = ""
        BY <1>1, <1>2, <2>2 DEF AccountInv, NoEmailOneDoor, Known
    <2> QED
        BY <2>1, <2>2
<1>3. ASSUME NEW x \in came \cup accounts, NEW y \in came \cup accounts, Login!EmailOf(x[1]) = Login!EmailOf(y[1])
      PROVE  x[2] = y[2]
    BY <1>1, <1>3 DEF AccountInv, OneRowEach
<1>4. Login!OnePersonOneUser
    BY <1>2, <1>3 DEF Login!OnePersonOneUser
<1>5. accounts \subseteq Identities \X {u \in Logins : Login!Exists(u)}
    <2> SUFFICES ASSUME NEW a \in accounts PROVE a \in Identities \X {u \in Logins : Login!Exists(u)}
        OBVIOUS
    <2>1. a \in Identities \X Logins
        BY DEF AccountInv, RowsTyped
    <2>2. Login!Exists(a[2])
        BY <1>1
    <2> HIDE DEF Login!Exists
    <2> QED
        BY <2>1, <2>2
<1>6. Login!TypeOK
    <2>1. \A c \in Callbacks : cb[c].pc \in CallbackPcs \cup {"idle"}
        BY DEF AccountInv, CallbacksKnow, Callback, PlainCallback, WithOther, Login!Idle
    <2>2. \A s \in Signups : su[s].pc \in {"idle", "check", "insert", "creds"}
        BY DEF AccountInv, SignupsTyped, SignupRecord, Login!Idle
    <2>3. /\ email \in [Logins -> People \cup {"", None, "gone"}]
          /\ \A a, b \in accounts : a[1] = b[1] => a = b
          /\ creds \subseteq {u \in Logins : Login!Exists(u)} /\ links \subseteq People
        BY DEF AccountInv, RowsTyped
    <2> QED
        BY <1>5, <2>1, <2>2, <2>3 DEF Login!TypeOK, CallbackPcs
<1> QED
    BY <1>4, <1>6

\* Sign-in and sign-up (auth, authAdapter.ts, signup.ts): for any people, emails,
\* doors and requests that cross or die between two statements, two people never
\* come in as one user, and the doors that know an email lead to one user.
THEOREM OneUserEach == ASSUME Login!AccountConstants PROVE Login!Spec => [](Login!TypeOK /\ Login!OnePersonOneUser)
<1>1. Login!Init => AccountInv
    BY NobodyYet
<1>2. AccountInv /\ [Login!Next]_Login!accountVars => AccountInv'
    BY AccountSteps
<1>3. AccountInv => Login!TypeOK /\ Login!OnePersonOneUser
    BY AccountsSafe
<1> QED
    BY <1>1, <1>2, <1>3, PTL DEF Login!Spec

\* Sign-in as the part of MCOffice: one person, one user ([...auth].ts, signup.ts),
\* in the run office's composition.
THEOREM OneUserEachThere == Spec => []OnePersonOneUser
<1> DEFINE Inv == part = "logins" => AccountInv
<1>1. Init => Inv
    BY OfficeConstants, NobodyYet DEF Init, OfficeConstants
<1>2. Inv /\ [Next]_vars => Inv'
    <2> SUFFICES ASSUME Inv, [Next]_vars, part' = "logins"
                 PROVE  AccountInv'
        OBVIOUS
    <2>1. CASE Next
        <3>1. part = "logins" /\ Login!Next
            BY <2>1 DEF Next, Moves
        <3> QED
            BY <3>1, OfficeConstants, AccountSteps DEF OfficeConstants
    <2>2. CASE UNCHANGED vars
        BY <2>2, OfficeConstants, AccountSteps
        DEF OfficeConstants, vars, logins, Login!accountVars
    <2> QED
        BY <2>1, <2>2
<1>3. Inv => OnePersonOneUser
    BY OfficeConstants, AccountsSafe DEF OnePersonOneUser, OfficeConstants
<1> QED
    BY <1>1, <1>2, <1>3, PTL DEF Spec

-----------------------------------------------------------------------------
(* Doorway                                                                   *)

\* She has been somebody in one programme at most, and no redemption died half way.
OneDoor == failures = 0 /\ \A g, h \in role \union member : g = h

TabRecord == [pc : {"shown", "asked"}, page : Door!Pages \union {"other"}, next : Door!Pages, had : Door!Cookies,
              trail : SUBSET (Door!Pages \X Door!Cookies)]

DoorTyped ==
    /\ role \subseteq Tenants /\ member \subseteq Tenants /\ seated \subseteq member
    /\ activeTenant \in Tenants \union {None} /\ pointing \in Tenants \union {None}
    /\ cookies \in Door!Cookies
    /\ tab \in [Tabs -> TabRecord]
    /\ \A t \in Tabs : tab[t].pc = "asked" => tab[t].page \in Door!Pages
    /\ chosen \in BOOLEAN
    /\ failures \in Nat

\* What points to a programme points to one she is, or was to be, somebody in.
Belongs ==
    /\ activeTenant \in role \union member \union {None}
    /\ pointing \in role \union member \union {None}
    /\ cookies.session \in role \union member \union {None, "out"}

\* Who is an operator comes in as one, once a redemption is through.
PointsHome == pointing = None /\ role # {} => activeTenant \in role

AtHome == Belongs /\ (OneDoor => PointsHome)

\* How far a page is, with these cookies, from one that is shown.
Rank(p, c) ==
    CASE p \in {"home", "login"} -> 0
      [] p \in {"circles", "circle"} -> 3
      [] p = "lobby" -> IF c.demo \/ role # {} THEN 4 ELSE 2
      [] p \in {"new", "admin", "security", "card", "vouch", "join", "link", "onboarding"} -> 5
      [] p = "dashboard" -> 6
      [] p \in {"signup", "logout", "demoEnd", "geoAllow"} -> 7
      [] p = "demoStart" -> IF Door!User(c) THEN 10 ELSE 8
      [] OTHER -> 9

\* Page p with the cookies c is further down than the page and cookies e, unless
\* with those she was astray; and she has not come to be so on the way.
Below(p, c, e) ==
    /\ Door!Astray(c) => Door!Astray(e[2])
    /\ Door!Astray(e[2]) \/ Rank(p, c) < Rank(e[1], e[2])

Downward(t) ==
    tab[t].pc = "asked" => \A e \in tab[t].trail : Below(tab[t].page, tab[t].had, e)

Trails == \A t \in Tabs : Downward(t)

DoorInv == DoorTyped /\ (cookies.demo => chosen) /\ Trails /\ AtHome

-----------------------------------------------------------------------------
(* Pages *)

LEMMA RankIs ==
    ASSUME NEW p \in Door!Pages, NEW c
    PROVE  Rank(p, c) \in Nat
    BY DEF Rank, Door!Pages, Door!Public, Door!Inside

LEMMA TargetsArePages ==
    ASSUME NEW p \in Door!Pages, NEW c, NEW q \in Door!Targets(p, c)
    PROVE  q \in Door!Pages
<1>1. Door!circleGateTarget(p, c) \in Door!Pages /\ Door!LobbyTarget(c) \in Door!Pages
    BY DEF Door!circleGateTarget, Door!LobbyTarget, Door!Pages, Door!Public, Door!Inside
<1>2. Door!Guard(p, c) \subseteq Door!Pages
    BY <1>1 DEF Door!Guard, Door!Pages, Door!Public, Door!Inside
<1> QED
    BY <1>2 DEF Door!Targets, Door!Pages, Door!Public, Door!Inside

LEMMA AfterIs ==
    ASSUME DoorTyped, NEW p \in Door!Pages, NEW c \in Door!Cookies
    PROVE  /\ Door!After(p, c) \in Door!Cookies
           /\ Door!After(p, c).session = IF p \in {"logout", "logoutToDemo"} THEN "out" ELSE cookies.session
           /\ Door!After(p, c).demo = (IF p = "demoStart" /\ ~Door!User(c) THEN TRUE
                                  ELSE IF Door!ClearsDemo(p, c) THEN FALSE ELSE cookies.demo)
    BY DEF Door!After, Door!Cookies, DoorTyped

\* Whom the circle's pages send to the lobby, the lobby does not send back, unless
\* she is astray ...
LEMMA LobbyKeeps ==
    ASSUME NEW p \in {"circles", "circle"}, NEW c, Door!circleGateTarget(p, c) = "lobby", ~Door!Astray(c)
    PROVE  Door!User(c) /\ role = {}
    BY DEF Door!circleGateTarget, Door!TenantOf, Door!hasCircleAccess, Door!Astray

\* ... which she is not with one programme.
LEMMA HomeIsOpen ==
    ASSUME Door!DoorwayConstants, DoorTyped, AtHome, OneDoor, pointing = None
    PROVE  ~Door!Astray(cookies)
<1> SUFFICES ASSUME Door!User(cookies), role # {}
             PROVE  Door!circleGateTarget("circles", cookies) # "lobby"
    BY DEF Door!Astray
<1>1. activeTenant \in role /\ activeTenant # None /\ role \subseteq Tenants
    BY DEF AtHome, PointsHome, DoorTyped, Door!DoorwayConstants
<1>2. Door!TenantOf(cookies) \in role
    <2>1. CASE cookies.session = None
        BY <1>1, <2>1 DEF Door!TenantOf
    <2>2. CASE cookies.session # None
        <3>1. cookies.session \in role \union member
            BY <2>2 DEF AtHome, Belongs, Door!User
        <3>2. cookies.session = activeTenant
            BY <1>1, <3>1 DEF OneDoor
        <3> QED
            BY <1>1, <2>2, <3>2 DEF Door!TenantOf
    <2> QED
        BY <2>1, <2>2
<1>3. Door!TenantOf(cookies) # None
    BY <1>1, <1>2 DEF Door!DoorwayConstants
<1> QED
    BY <1>2, <1>3 DEF Door!circleGateTarget, Door!hasCircleAccess

\* A redirect leads nearer to a page that is shown.
LEMMA Downhill ==
    ASSUME DoorTyped, ~Door!Astray(cookies),
           NEW p \in Door!Pages, NEW q \in Door!Targets(p, cookies), q # p
    PROVE  Rank(q, Door!After(p, cookies)) < Rank(p, cookies)
<1> DEFINE c == cookies
           d == Door!After(p, cookies)
<1>1. c \in Door!Cookies /\ q \in Door!Pages /\ ~Door!Astray(c)
    BY TargetsArePages DEF DoorTyped
<1>2. /\ d \in Door!Cookies
      /\ d.session = IF p \in {"logout", "logoutToDemo"} THEN "out" ELSE c.session
      /\ d.demo = (IF p = "demoStart" /\ ~Door!User(c) THEN TRUE ELSE IF Door!ClearsDemo(p, c) THEN FALSE ELSE c.demo)
    BY <1>1, AfterIs
<1> HIDE DEF d, c
<1> SUFFICES Rank(q, d) < Rank(p, c)
    BY DEF d, c
<1>3. q \in Door!Targets(p, c)
    BY DEF c
<1>4. CASE p \in {"circles", "circle"}
    <2>1. Rank(p, c) = 3
        BY <1>4 DEF Rank
    <2>2. q = "login" \/ (q = "lobby" /\ Door!circleGateTarget(p, c) = "lobby")
        BY <1>3, <1>4 DEF Door!Targets, Door!Public, Door!Guard, Door!circleGateTarget
    <2>3. CASE q = "login"
        BY <2>1, <2>3 DEF Rank
    <2>4. CASE q = "lobby" /\ Door!circleGateTarget(p, c) = "lobby"
        <3>1. Door!User(c) /\ role = {}
            BY <1>1, <1>4, <2>4, LobbyKeeps
        <3>2. d.demo = FALSE
            BY <1>1, <1>2, <1>4, <3>1 DEF Door!ClearsDemo, Door!Public, Door!Cookies
        <3>3. Rank(q, d) = 2
            BY <2>4, <3>1, <3>2 DEF Rank
        <3> QED
            BY <2>1, <3>3
    <2> QED
        BY <2>2, <2>3, <2>4
<1>5. CASE p = "lobby"
    <2>1. q = "login" \/ (q = "circles" /\ (c.demo \/ role # {}))
        BY <1>3, <1>5 DEF Door!Targets, Door!Public, Door!Guard, Door!LobbyTarget
    <2>2. CASE q = "login"
        BY <1>5, <2>2 DEF Rank
    <2>3. CASE q = "circles" /\ (c.demo \/ role # {})
        BY <1>5, <2>3 DEF Rank
    <2> QED
        BY <2>1, <2>2, <2>3
<1>6. CASE p \in {"new", "admin", "security", "card", "vouch", "join", "link", "onboarding"}
    <2>1. q \in {"login", "lobby", "circles"}
        BY <1>3, <1>6 DEF Door!Targets, Door!Public, Door!Guard
    <2>2. Rank(q, d) \in 0..4
        BY <2>1 DEF Rank
    <2>3. Rank(p, c) = 5
        BY <1>6 DEF Rank
    <2> QED
        BY <2>2, <2>3
<1>7. CASE p = "dashboard"
    <2>1. q \in {"login", "lobby", "admin"}
        BY <1>3, <1>7 DEF Door!Targets, Door!Public, Door!Guard
    <2> QED
        BY <1>7, <2>1 DEF Rank
<1>8. CASE p \in {"signup", "logout", "demoEnd", "geoAllow"}
    <2>1. q \in {"dashboard", "login", "home"}
        BY <1>3, <1>8 DEF Door!Targets, Door!Public, Door!Guard
    <2> QED
        BY <1>8, <2>1 DEF Rank
<1>9. CASE p = "demoStart"
    <2>1. q = IF Door!User(c) THEN "logoutToDemo" ELSE "circles"
        BY <1>3, <1>9 DEF Door!Targets, Door!Public, Door!Guard
    <2> QED
        BY <1>9, <2>1 DEF Rank
<1>10. CASE p = "logoutToDemo"
    <2>1. q = "demoStart" /\ ~Door!User(d)
        BY <1>2, <1>3, <1>10 DEF Door!Targets, Door!Public, Door!Guard, Door!User
    <2> QED
        BY <1>10, <2>1 DEF Rank
<1>11. CASE p \in {"home", "login"}
    BY <1>3, <1>11 DEF Door!Targets, Door!Public, Door!Guard
<1> QED
    BY <1>4, <1>5, <1>6, <1>7, <1>8, <1>9, <1>10, <1>11 DEF Door!Pages, Door!Public, Door!Inside

-----------------------------------------------------------------------------
(* Tabs *)

LEMMA NothingKnown == Door!NoCookies \in Door!Cookies
    BY DEF Door!NoCookies, Door!Cookies

LEMMA AtIs ==
    ASSUME NEW p \in Door!Pages \union {"other"}, NEW next \in Door!Pages
    PROVE  /\ Door!At(p, next) \in TabRecord
           /\ Door!At(p, next).pc = "shown" /\ Door!At(p, next).trail = {}
    BY NothingKnown DEF Door!At, TabRecord, Door!Pages, Door!Public, Door!Inside

LEMMA UnsettledIs ==
    ASSUME DoorTyped
    PROVE  /\ Door!Unsettled \in [Tabs -> TabRecord]
           /\ \A t \in Tabs : /\ Door!Unsettled[t].trail = {}
                              /\ Door!Unsettled[t].pc = tab[t].pc /\ Door!Unsettled[t].page = tab[t].page
                              /\ Door!Unsettled[t].next = tab[t].next /\ Door!Unsettled[t].had = tab[t].had
<1>1. ASSUME NEW t \in Tabs
      PROVE  /\ Door!Unsettled[t] \in TabRecord /\ Door!Unsettled[t].trail = {}
             /\ Door!Unsettled[t].pc = tab[t].pc /\ Door!Unsettled[t].page = tab[t].page
             /\ Door!Unsettled[t].next = tab[t].next /\ Door!Unsettled[t].had = tab[t].had
    <2>1. tab[t] \in TabRecord
        BY DEF DoorTyped
    <2>2. Door!Unsettled[t] = [tab[t] EXCEPT !.trail = {}]
        BY DEF Door!Unsettled
    <2> QED
        BY <2>1, <2>2 DEF TabRecord
<1>2. Door!Unsettled = [t \in Tabs |-> Door!Unsettled[t]]
    BY DEF Door!Unsettled
<1> QED
    BY <1>1, <1>2

LEMMA ElsewhereIs ==
    ASSUME DoorTyped, NEW c
    PROVE  /\ Door!Elsewhere(c) \in [Tabs -> TabRecord]
           /\ \A t \in Tabs : /\ Door!Elsewhere(c)[t] = tab[t] \/ Door!Elsewhere(c)[t].trail = {}
                              /\ Door!Elsewhere(c)[t].pc = tab[t].pc /\ Door!Elsewhere(c)[t].page = tab[t].page
                              /\ Door!Elsewhere(c)[t].next = tab[t].next
<1>1. tab \in [Tabs -> TabRecord]
    BY DEF DoorTyped
<1>2. CASE c = cookies
    BY <1>1, <1>2 DEF Door!Elsewhere
<1>3. CASE c # cookies
    BY <1>3, UnsettledIs DEF Door!Elsewhere
<1> QED
    BY <1>2, <1>3

LEMMA BelowKeeps ==
    ASSUME UNCHANGED Door!server, NEW p, NEW c, NEW e
    PROVE  Below(p, c, e)' = Below(p, c, e)
<1>1. role' = role /\ activeTenant' = activeTenant /\ seated' = seated
    BY DEF Door!server
<1>2. \A x, k : Rank(x, k)' = Rank(x, k)
    BY <1>1 DEF Rank
<1>3. \A k : Door!Astray(k)' = Door!Astray(k)
    BY <1>1 DEF Door!Astray, Door!circleGateTarget, Door!TenantOf, Door!hasCircleAccess
<1> QED
    BY <1>2, <1>3 DEF Below

\* A tab that has been through nothing is in no loop, ...
LEMMA EmptyTrail ==
    ASSUME NEW t, tab'[t].trail = {}
    PROVE  Downward(t)'
    BY DEF Downward

\* ... and a tab is where it was, if nothing happens to it.
LEMMA SameTrail ==
    ASSUME UNCHANGED Door!server, NEW t, tab'[t] = tab[t], Downward(t)
    PROVE  Downward(t)'
<1>1. PICK p, c : p = tab[t].page /\ c = tab[t].had
    OBVIOUS
<1>2. tab'[t].pc = "asked" => tab[t].pc = "asked" /\ p = tab'[t].page /\ c = tab'[t].had
    BY <1>1
<1>3. ASSUME NEW e, e \in tab'[t].trail, tab'[t].pc = "asked"
      PROVE  Below(p, c, e)'
    <2>1. Below(p, c, e)
        BY <1>1, <1>3 DEF Downward
    <2> QED
        BY <2>1, BelowKeeps
<1> QED
    BY <1>2, <1>3 DEF Downward

\* The door is as it was while nothing behind the pages changes, and the session at
\* most ends.
LEMMA HomeStays ==
    ASSUME AtHome, UNCHANGED <<Door!server, failures>>,
           cookies'.session = cookies.session \/ cookies'.session = "out"
    PROVE  AtHome'
<1>1. /\ role' = role /\ member' = member /\ activeTenant' = activeTenant /\ pointing' = pointing
      /\ failures' = failures
    BY DEF Door!server
<1>2. Belongs'
    BY <1>1 DEF AtHome, Belongs
<1>3. OneDoor' => PointsHome'
    BY <1>1 DEF AtHome, OneDoor, PointsHome
<1> QED
    BY <1>2, <1>3 DEF AtHome

\* All tabs unsettled: what is left to show is the rest.
LEMMA AllUnsettled ==
    ASSUME DoorTyped, tab' = Door!Unsettled
    PROVE  /\ tab' \in [Tabs -> TabRecord]
           /\ \A t \in Tabs : tab'[t].pc = "asked" => tab'[t].page \in Door!Pages
           /\ Trails'
<1>1. \A t \in Tabs : Downward(t)'
    BY UnsettledIs, EmptyTrail
<1> QED
    BY <1>1, UnsettledIs DEF DoorTyped, Trails

-----------------------------------------------------------------------------
(* Steps behind the pages *)

LEMMA InviteRedeemedKeeps ==
    ASSUME Door!DoorwayConstants, DoorInv, NEW g \in Tenants, Door!InviteRedeemed(g)
    PROVE  DoorInv'
<1>1. DoorTyped /\ tab' = Door!Unsettled
    BY DEF DoorInv, Door!InviteRedeemed, Door!Changed
<1>2. DoorTyped'
    BY <1>1, AllUnsettled DEF DoorTyped, Door!InviteRedeemed, Door!Changed
<1>3. AtHome'
    BY DEF DoorInv, AtHome, Belongs, PointsHome, Door!InviteRedeemed, Door!Changed, Door!DoorwayConstants
<1> QED
    BY <1>1, <1>2, <1>3, AllUnsettled DEF DoorInv, Door!InviteRedeemed, Door!Changed

LEMMA ClaimRedeemedKeeps ==
    ASSUME Door!DoorwayConstants, DoorInv, NEW g \in Tenants, NEW placed \in BOOLEAN,
           Door!ClaimRedeemed(g, placed)
    PROVE  DoorInv'
<1>1. DoorTyped /\ tab' = Door!Unsettled
    BY DEF DoorInv, Door!ClaimRedeemed, Door!Changed
<1>2. DoorTyped'
    BY <1>1, AllUnsettled DEF DoorTyped, Door!ClaimRedeemed, Door!Changed
<1>3. AtHome'
    BY DEF DoorInv, AtHome, Belongs, PointsHome, Door!ClaimRedeemed, Door!Changed, Door!DoorwayConstants
<1> QED
    BY <1>1, <1>2, <1>3, AllUnsettled DEF DoorInv, Door!ClaimRedeemed, Door!Changed

LEMMA PointedKeeps ==
    ASSUME DoorInv, Door!Pointed
    PROVE  DoorInv'
<1>1. DoorTyped /\ tab' = Door!Unsettled
    BY DEF DoorInv, Door!Pointed
<1>2. DoorTyped'
    BY <1>1, AllUnsettled DEF DoorTyped, Door!Pointed
<1>3. AtHome'
    <2>1. Belongs'
        BY DEF DoorInv, AtHome, Belongs, Door!Pointed
    <2>2. OneDoor' => PointsHome'
        BY DEF DoorInv, AtHome, Belongs, OneDoor, PointsHome, Door!Pointed
    <2> QED
        BY <2>1, <2>2 DEF AtHome
<1> QED
    BY <1>1, <1>2, <1>3, AllUnsettled DEF DoorInv, Door!Pointed

LEMMA PointLostKeeps ==
    ASSUME DoorInv, Door!PointLost
    PROVE  DoorInv'
<1>1. DoorTyped /\ tab' = Door!Unsettled
    BY DEF DoorInv, Door!PointLost
<1>2. DoorTyped'
    BY <1>1, AllUnsettled DEF DoorTyped, Door!PointLost
<1>3. AtHome'
    <2>1. Belongs'
        BY DEF DoorInv, AtHome, Belongs, Door!PointLost
    <2>2. ~OneDoor'
        BY <1>1 DEF OneDoor, DoorTyped, Door!PointLost
    <2> QED
        BY <2>1, <2>2 DEF AtHome
<1> QED
    BY <1>1, <1>2, <1>3, AllUnsettled DEF DoorInv, Door!PointLost

LEMMA JoinRequestedKeeps ==
    ASSUME DoorInv, NEW g \in Tenants, Door!JoinRequested(g)
    PROVE  DoorInv'
<1>1. DoorTyped /\ tab' = Door!Unsettled
    BY DEF DoorInv, Door!JoinRequested, Door!Changed
<1>2. DoorTyped'
    BY <1>1, AllUnsettled DEF DoorTyped, Door!JoinRequested, Door!Changed
<1>3. AtHome'
    <2>1. Belongs'
        BY DEF DoorInv, AtHome, Belongs, Door!JoinRequested, Door!Changed
    <2>2. OneDoor' => PointsHome'
        BY DEF DoorInv, AtHome, OneDoor, PointsHome, Door!JoinRequested, Door!Changed
    <2> QED
        BY <2>1, <2>2 DEF AtHome
<1> QED
    BY <1>1, <1>2, <1>3, AllUnsettled DEF DoorInv, Door!JoinRequested, Door!Changed

LEMMA AdmittedKeeps ==
    ASSUME Door!DoorwayConstants, DoorInv, NEW g \in Tenants, Door!Admitted(g)
    PROVE  DoorInv'
<1>1. DoorTyped /\ tab' = Door!Unsettled
    BY DEF DoorInv, Door!Admitted, Door!Changed
<1>2. DoorTyped'
    BY <1>1, AllUnsettled DEF DoorTyped, Door!Admitted, Door!Changed
<1>3. AtHome'
    <2>1. Belongs'
        BY DEF DoorInv, AtHome, Belongs, Door!Admitted, Door!Changed
    <2>2. OneDoor' => PointsHome'
        BY <1>1 DEF DoorInv, AtHome, OneDoor, PointsHome, Door!Admitted, Door!Changed, DoorTyped,
                    Door!DoorwayConstants
    <2> QED
        BY <2>1, <2>2 DEF AtHome
<1> QED
    BY <1>1, <1>2, <1>3, AllUnsettled DEF DoorInv, Door!Admitted, Door!Changed

LEMMA ExpelledKeeps ==
    ASSUME DoorInv, NEW g \in Tenants, Door!Expelled(g)
    PROVE  DoorInv'
<1>1. DoorTyped /\ tab' = Door!Unsettled
    BY DEF DoorInv, Door!Expelled, Door!Changed
<1>2. DoorTyped'
    BY <1>1, AllUnsettled DEF DoorTyped, Door!Expelled, Door!Changed
<1>3. AtHome'
    <2>1. Belongs'
        BY DEF DoorInv, AtHome, Belongs, Door!Expelled, Door!Changed
    <2>2. OneDoor' => PointsHome'
        BY DEF DoorInv, AtHome, OneDoor, PointsHome, Door!Expelled, Door!Changed
    <2> QED
        BY <2>1, <2>2 DEF AtHome
<1> QED
    BY <1>1, <1>2, <1>3, AllUnsettled DEF DoorInv, Door!Expelled, Door!Changed

LEMMA SessionExpiresKeeps ==
    ASSUME DoorInv, Door!SessionExpires
    PROVE  DoorInv'
<1>1. DoorTyped /\ tab' = Door!Unsettled
    BY DEF DoorInv, Door!SessionExpires
<1>2. cookies' \in Door!Cookies /\ cookies'.demo = cookies.demo /\ cookies'.session = "out"
    BY <1>1 DEF DoorTyped, Door!SessionExpires, Door!Cookies
<1>3. DoorTyped'
    BY <1>1, <1>2, AllUnsettled DEF DoorTyped, Door!SessionExpires, Door!server
<1>4. AtHome'
    BY <1>2, HomeStays DEF DoorInv, Door!SessionExpires
<1> QED
    BY <1>1, <1>2, <1>3, <1>4, AllUnsettled DEF DoorInv, Door!SessionExpires

LEMMA DemoExpiresKeeps ==
    ASSUME DoorInv, Door!DemoExpires
    PROVE  DoorInv'
<1>1. DoorTyped /\ tab' = Door!Unsettled
    BY DEF DoorInv, Door!DemoExpires
<1>2. cookies' \in Door!Cookies /\ cookies'.demo = FALSE /\ cookies'.session = cookies.session
    BY <1>1 DEF DoorTyped, Door!DemoExpires, Door!Cookies
<1>3. DoorTyped'
    BY <1>1, <1>2, AllUnsettled DEF DoorTyped, Door!DemoExpires, Door!server
<1>4. AtHome'
    BY <1>2, HomeStays DEF DoorInv, Door!DemoExpires
<1> QED
    BY <1>1, <1>2, <1>3, <1>4, AllUnsettled DEF DoorInv, Door!DemoExpires

-----------------------------------------------------------------------------
(* Steps of a tab *)

LEMMA AskKeeps ==
    ASSUME DoorInv, NEW t \in Tabs, NEW p \in Door!Pages, Door!Ask(t, p)
    PROVE  DoorInv'
<1>1. DoorTyped /\ tab[t] \in TabRecord /\ cookies \in Door!Cookies
    BY DEF DoorInv, DoorTyped
<1>2. PICK x \in TabRecord : x.page = p /\ x.trail = {} /\ tab' = [tab EXCEPT ![t] = x]
    <2>1. [tab[t] EXCEPT !.pc = "asked", !.page = p, !.had = cookies, !.trail = {}] \in TabRecord
        BY <1>1 DEF TabRecord
    <2>2. /\ [tab[t] EXCEPT !.pc = "asked", !.page = p, !.had = cookies, !.trail = {}].page = p
          /\ [tab[t] EXCEPT !.pc = "asked", !.page = p, !.had = cookies, !.trail = {}].trail = {}
        BY <1>1 DEF TabRecord
    <2>3. tab' = [tab EXCEPT ![t] = [tab[t] EXCEPT !.pc = "asked", !.page = p, !.had = cookies, !.trail = {}]]
        BY DEF Door!Ask
    <2> QED
        BY <2>1, <2>2, <2>3
<1>3. DoorTyped'
    BY <1>1, <1>2 DEF Door!Ask, Door!server, DoorTyped
<1>4. ASSUME NEW u \in Tabs
      PROVE  Downward(u)'
    <2>1. CASE u = t
        <3>1. tab'[u].trail = {}
            BY <1>1, <1>2, <2>1 DEF DoorTyped
        <3> QED
            BY <3>1, EmptyTrail
    <2>2. CASE u # t
        <3>1. tab'[u] = tab[u] /\ Downward(u) /\ UNCHANGED Door!server
            BY <1>1, <1>2, <1>4, <2>2 DEF DoorTyped, DoorInv, Door!Ask, Trails
        <3> QED
            BY <3>1, SameTrail
    <2> QED
        BY <2>1, <2>2
<1>5. AtHome' /\ (cookies'.demo => chosen')
    BY HomeStays DEF DoorInv, Door!Ask
<1> QED
    BY <1>3, <1>4, <1>5 DEF DoorInv, Trails

LEMMA RefusedKeeps ==
    ASSUME DoorInv, NEW t \in Tabs, Door!Refused(t)
    PROVE  DoorInv'
<1>1. DoorTyped /\ tab[t] \in TabRecord /\ cookies \in Door!Cookies
    BY DEF DoorInv, DoorTyped
<1>2. PICK x \in TabRecord : x.pc = "shown" /\ x.trail = {} /\ tab' = [tab EXCEPT ![t] = x]
    <2>1. tab[t].next \in Door!Pages
        BY <1>1 DEF TabRecord
    <2>2. tab' = [tab EXCEPT ![t] = Door!At("other", tab[t].next)]
        BY DEF Door!Refused
    <2> QED
        BY <2>1, <2>2, AtIs
<1>3. DoorTyped'
    BY <1>1, <1>2 DEF Door!Refused, Door!server, DoorTyped
<1>4. ASSUME NEW u \in Tabs
      PROVE  Downward(u)'
    <2>1. CASE u = t
        <3>1. tab'[u].trail = {}
            BY <1>1, <1>2, <2>1 DEF DoorTyped
        <3> QED
            BY <3>1, EmptyTrail
    <2>2. CASE u # t
        <3>1. tab'[u] = tab[u] /\ Downward(u) /\ UNCHANGED Door!server
            BY <1>1, <1>2, <1>4, <2>2 DEF DoorTyped, DoorInv, Door!Refused, Trails
        <3> QED
            BY <3>1, SameTrail
    <2> QED
        BY <2>1, <2>2
<1>5. AtHome' /\ (cookies'.demo => chosen')
    BY HomeStays DEF DoorInv, Door!Refused
<1> QED
    BY <1>3, <1>4, <1>5 DEF DoorInv, Trails

LEMMA ShownKeeps ==
    ASSUME DoorInv, NEW t \in Tabs, Door!Shown(t)
    PROVE  DoorInv'
<1>1. DoorTyped /\ tab[t] \in TabRecord /\ cookies \in Door!Cookies
    BY DEF DoorInv, DoorTyped
<1>2. PICK p \in Door!Pages, had \in Door!Cookies :
          /\ p = tab[t].page /\ had = tab[t].had /\ p \in Door!Targets(p, had)
          /\ cookies' = Door!After(p, had)
    BY <1>1 DEF Door!Shown, DoorInv, DoorTyped, TabRecord
<1>3. p # "demoStart" /\ (p = "onboarding" => ~Door!User(had))
    BY <1>2 DEF Door!Targets, Door!Guard, Door!Public
<1>4. cookies' \in Door!Cookies
    BY <1>1, <1>2, AfterIs
<1>5. cookies'.demo => chosen'
    <2>1. SUFFICES ASSUME cookies'.demo
                   PROVE  chosen'
        OBVIOUS
    <2>2. cookies.demo /\ ~Door!ClearsDemo(p, had)
        BY <1>1, <1>2, <1>3, <2>1, AfterIs
    <2>3. chosen
        BY <2>2 DEF DoorInv
    <2>4. ~Door!AsHerself(t)
        BY <1>2, <1>3, <2>2 DEF Door!AsHerself, Door!ClearsDemo
    <2> QED
        BY <2>3, <2>4 DEF Door!Shown
<1>6. PICK c : c = cookies'
    OBVIOUS
<1>7. PICK x \in TabRecord : x.pc = "shown" /\ x.trail = {} /\ tab' = [Door!Elsewhere(c) EXCEPT ![t] = x]
    <2>1. Door!Elsewhere(c)[t].next \in Door!Pages
        BY <1>1, ElsewhereIs DEF TabRecord
    <2>2. tab' = [Door!Elsewhere(c) EXCEPT ![t] = Door!At(p, Door!Elsewhere(c)[t].next)]
        BY <1>2, <1>6 DEF Door!Shown
    <2> QED
        BY <2>1, <2>2, AtIs
<1>8. Door!Elsewhere(c) \in [Tabs -> TabRecord]
    BY <1>1, ElsewhereIs
<1>9. DoorTyped'
    <2>1. tab' \in [Tabs -> TabRecord]
        BY <1>7, <1>8
    <2>2. ASSUME NEW u \in Tabs, tab'[u].pc = "asked"
          PROVE  tab'[u].page \in Door!Pages
        <3>1. u # t
            BY <1>7, <1>8, <2>2
        <3>2. tab'[u] = Door!Elsewhere(c)[u]
            BY <1>7, <1>8, <3>1
        <3>3. tab'[u].pc = tab[u].pc /\ tab'[u].page = tab[u].page
            BY <1>1, <3>2, ElsewhereIs
        <3> QED
            BY <1>1, <2>2, <3>3 DEF DoorTyped
    <2>3. chosen' \in BOOLEAN
        BY DEF Door!Shown
    <2> QED
        BY <1>1, <1>4, <2>1, <2>2, <2>3 DEF DoorTyped, Door!Shown, Door!server
<1>10. ASSUME NEW u \in Tabs
       PROVE  Downward(u)'
    <2>1. CASE u = t
        <3>1. tab'[u].trail = {}
            BY <1>7, <1>8, <2>1
        <3> QED
            BY <3>1, EmptyTrail
    <2>2. CASE u # t
        <3>1. tab'[u] = Door!Elsewhere(c)[u]
            BY <1>7, <1>8, <2>2
        <3>2. Downward(u) /\ UNCHANGED Door!server
            BY <1>10 DEF Door!Shown, DoorInv, Trails
        <3>3. tab'[u] = tab[u] \/ tab'[u].trail = {}
            BY <1>1, <3>1, ElsewhereIs
        <3> QED
            BY <3>2, <3>3, SameTrail, EmptyTrail
    <2> QED
        BY <2>1, <2>2
<1>11. AtHome'
    <2>1. cookies'.session = cookies.session \/ cookies'.session = "out"
        BY <1>1, <1>2, AfterIs
    <2> QED
        BY <2>1, HomeStays DEF DoorInv, Door!Shown
<1> QED
    BY <1>5, <1>9, <1>10, <1>11 DEF DoorInv, Trails

LEMMA RedirectedKeeps ==
    ASSUME Door!DoorwayConstants, DoorInv, NEW t \in Tabs, Door!Redirected(t)
    PROVE  DoorInv'
<1>1. DoorTyped /\ tab[t] \in TabRecord /\ cookies \in Door!Cookies
    BY DEF DoorInv, DoorTyped
<1>2. PICK p \in Door!Pages, had \in Door!Cookies : p = tab[t].page /\ had = tab[t].had
    BY <1>1 DEF Door!Redirected, DoorInv, DoorTyped, TabRecord
<1>3. PICK c : c = cookies'
    OBVIOUS
<1>4. c = Door!After(p, had)
    BY <1>2, <1>3 DEF Door!Redirected
<1>5. c \in Door!Cookies /\ (c.session = cookies.session \/ c.session = "out")
    <2>1. /\ Door!After(p, had) \in Door!Cookies
          /\ Door!After(p, had).session = cookies.session \/ Door!After(p, had).session = "out"
        BY <1>1, AfterIs
    <2> QED
        BY <1>4, <2>1
<1>6. PICK q \in Door!Targets(p, had) \ {p} :
          tab' = [Door!Elsewhere(c) EXCEPT ![t] = Door!Onward(t, q)]
    BY <1>2, <1>3 DEF Door!Redirected
<1>7. q \in Door!Pages
    BY <1>6, TargetsArePages
<1>8. PICK x \in TabRecord :
          /\ x.page = q /\ x.had = c
          /\ x.trail = IF had = cookies THEN tab[t].trail \union {<<p, had>>} ELSE {}
          /\ tab' = [Door!Elsewhere(c) EXCEPT ![t] = x]
    <2> DEFINE next == IF q = "login" THEN Door!NextOf(p, had) ELSE "lobby"
               trail == IF had = cookies THEN tab[t].trail \union {<<p, had>>} ELSE {}
               y == [tab[t] EXCEPT !.page = q, !.had = c, !.next = next, !.trail = trail]
    <2>1. next \in Door!Pages
        BY DEF Door!NextOf, Door!Pages, Door!Public, Door!Inside
    <2>2. trail \in SUBSET (Door!Pages \X Door!Cookies)
        BY <1>1 DEF TabRecord
    <2>3. tab' = [Door!Elsewhere(c) EXCEPT ![t] = y]
        <3>1. Door!Onward(t, q) = y
            BY <1>2, <1>3 DEF Door!Onward
        <3> QED
            BY <1>6, <3>1
    <2> HIDE DEF next, trail
    <2>4. y \in TabRecord /\ y.page = q /\ y.had = c /\ y.trail = trail
        BY <1>1, <1>5, <1>7, <2>1, <2>2 DEF TabRecord
    <2> HIDE DEF y
    <2>5. y.trail = IF had = cookies THEN tab[t].trail \union {<<p, had>>} ELSE {}
        BY <2>4 DEF trail
    <2> QED
        BY <2>3, <2>4, <2>5
<1>9. Door!Elsewhere(c) \in [Tabs -> TabRecord]
    BY <1>1, ElsewhereIs
<1>10. cookies'.demo => chosen'
    <2>1. ASSUME c.demo
          PROVE  (p = "demoStart" /\ ~Door!User(had)) \/ cookies.demo
        BY <1>1, <1>4, <2>1, AfterIs
    <2> QED
        BY <1>2, <1>3, <2>1 DEF DoorInv, Door!Redirected
<1>11. DoorTyped'
    <2>1. tab' \in [Tabs -> TabRecord]
        BY <1>8, <1>9
    <2>2. ASSUME NEW u \in Tabs, tab'[u].pc = "asked"
          PROVE  tab'[u].page \in Door!Pages
        <3>1. CASE u = t
            BY <1>7, <1>8, <1>9, <3>1
        <3>2. CASE u # t
            <4>1. tab'[u] = Door!Elsewhere(c)[u]
                BY <1>8, <1>9, <3>2
            <4>2. tab'[u].pc = tab[u].pc /\ tab'[u].page = tab[u].page
                BY <1>1, <4>1, ElsewhereIs
            <4> QED
                BY <1>1, <2>2, <4>2 DEF DoorTyped
        <3> QED
            BY <3>1, <3>2
    <2>3. chosen' \in BOOLEAN
        BY <1>1 DEF Door!Redirected, DoorTyped
    <2> QED
        BY <1>1, <1>3, <1>5, <2>1, <2>2, <2>3 DEF DoorTyped, Door!Redirected, Door!server
<1>12. ASSUME NEW u \in Tabs
       PROVE  Downward(u)'
    <2>0. Downward(u) /\ Downward(t) /\ UNCHANGED Door!server
        BY <1>12 DEF Door!Redirected, Trails, DoorInv
    <2>1. CASE u = t
        <3>1. tab'[u] = x
            BY <1>8, <1>9, <2>1
        <3>2. CASE had # cookies
            BY <1>8, <3>1, <3>2, EmptyTrail
        <3>3. CASE had = cookies
            <4>1. Door!Astray(c) => Door!Astray(had)
                <5>1. c.session = had.session \/ c.session = "out"
                    BY <1>5, <3>3
                <5>2. ASSUME Door!User(c), Door!circleGateTarget("circles", c) = "lobby"
                      PROVE  Door!User(had) /\ Door!circleGateTarget("circles", had) = "lobby"
                    BY <5>1, <5>2 DEF Door!User, Door!TenantOf, Door!circleGateTarget
                <5> QED
                    BY <5>2 DEF Door!Astray
            <4>2. Door!Astray(had) \/ Rank(q, c) < Rank(p, had)
                BY <1>1, <1>4, <1>6, <3>3, Downhill
            <4>3. ASSUME NEW e \in x.trail
                  PROVE  Below(q, c, e)
                <5>1. CASE e \in tab[t].trail
                    <6>1. Below(p, had, e)
                        BY <1>2, <2>0, <5>1 DEF Downward, Door!Redirected
                    <6>2. e[1] \in Door!Pages
                        BY <1>1, <5>1 DEF TabRecord
                    <6>3. Rank(q, c) \in Nat /\ Rank(p, had) \in Nat /\ Rank(e[1], e[2]) \in Nat
                        BY <1>7, <6>2, RankIs
                    <6> QED
                        BY <4>1, <4>2, <6>1, <6>3 DEF Below
                <5>2. CASE e = <<p, had>>
                    BY <4>1, <4>2, <5>2 DEF Below
                <5> QED
                    BY <1>8, <3>3, <5>1, <5>2
            <4>4. \A e \in x.trail : Below(q, c, e)'
                BY <2>0, <4>3, BelowKeeps
            <4> QED
                BY <1>8, <3>1, <4>4 DEF Downward
        <3> QED
            BY <3>2, <3>3
    <2>2. CASE u # t
        <3>1. tab'[u] = Door!Elsewhere(c)[u]
            BY <1>8, <1>9, <2>2
        <3>2. tab'[u] = tab[u] \/ tab'[u].trail = {}
            BY <1>1, <3>1, ElsewhereIs
        <3> QED
            BY <2>0, <3>2, SameTrail, EmptyTrail
    <2> QED
        BY <2>1, <2>2
<1>13. AtHome'
    <2>1. cookies'.session = cookies.session \/ cookies'.session = "out"
        BY <1>3, <1>5
    <2> QED
        BY <2>1, HomeStays DEF DoorInv, Door!Redirected
<1> QED
    BY <1>10, <1>11, <1>12, <1>13 DEF DoorInv, Trails

LEMMA SignInKeeps ==
    ASSUME Door!DoorwayConstants, DoorInv, NEW t \in Tabs, Door!SignIn(t)
    PROVE  DoorInv'
<1>1. DoorTyped /\ tab[t] \in TabRecord /\ cookies \in Door!Cookies
    BY DEF DoorInv, DoorTyped
<1>2. PICK g : /\ g \in IF activeTenant # None THEN {activeTenant} ELSE IF role # {} THEN role ELSE {None}
               /\ activeTenant' = g
               /\ cookies' = [cookies EXCEPT !.session = g]
    BY DEF Door!SignIn
<1>3. g \in Tenants \union {None}
    BY <1>1, <1>2 DEF DoorTyped
<1>4. cookies' \in Door!Cookies /\ cookies'.demo = cookies.demo
    BY <1>1, <1>2, <1>3 DEF Door!Cookies
<1>5. PICK c : c = cookies'
    OBVIOUS
<1>6. PICK x \in TabRecord : x.page \in Door!Pages /\ x.trail = {} /\ tab' = [Door!Unsettled EXCEPT ![t] = x]
    <2>1. Door!Unsettled[t] \in TabRecord /\ Door!Unsettled[t].trail = {} /\ tab[t].next \in Door!Pages
        BY <1>1, UnsettledIs DEF TabRecord
    <2> DEFINE y == [Door!Unsettled[t] EXCEPT !.pc = "asked", !.page = tab[t].next,
                                         !.next = "lobby", !.had = c]
    <2>2. tab' = [Door!Unsettled EXCEPT ![t] = y]
        BY <1>5 DEF Door!SignIn
    <2>3. "lobby" \in Door!Pages
        BY DEF Door!Pages, Door!Inside
    <2>4. y \in TabRecord /\ y.page = tab[t].next /\ y.trail = {}
        BY <1>4, <1>5, <2>1, <2>3 DEF TabRecord
    <2> HIDE DEF y
    <2> QED
        BY <2>1, <2>2, <2>4
<1>7. Door!Unsettled \in [Tabs -> TabRecord]
    BY <1>1, UnsettledIs
<1>8. DoorTyped'
    <2>1. tab' \in [Tabs -> TabRecord]
        BY <1>6, <1>7
    <2>2. ASSUME NEW u \in Tabs, tab'[u].pc = "asked"
          PROVE  tab'[u].page \in Door!Pages
        <3>1. CASE u = t
            BY <1>6, <1>7, <3>1
        <3>2. CASE u # t
            <4>1. tab'[u] = Door!Unsettled[u]
                BY <1>6, <1>7, <3>2
            <4>2. tab'[u].pc = tab[u].pc /\ tab'[u].page = tab[u].page
                BY <1>1, <4>1, UnsettledIs
            <4> QED
                BY <1>1, <2>2, <4>2 DEF DoorTyped
        <3> QED
            BY <3>1, <3>2
    <2> QED
        BY <1>1, <1>2, <1>3, <1>4, <2>1, <2>2 DEF DoorTyped, Door!SignIn
<1>9. ASSUME NEW u \in Tabs
      PROVE  Downward(u)'
    <2>1. tab'[u].trail = {}
        <3>1. CASE u = t
            BY <1>6, <1>7, <3>1
        <3>2. CASE u # t
            BY <1>1, <1>6, <1>7, <3>2, UnsettledIs
        <3> QED
            BY <3>1, <3>2
    <2> QED
        BY <2>1, EmptyTrail
<1>10. AtHome'
    <2>1. cookies'.session = g
        BY <1>1, <1>2 DEF Door!Cookies
    <2>2. Belongs'
        BY <1>2, <2>1 DEF DoorInv, AtHome, Belongs, Door!SignIn
    <2>3. OneDoor' => PointsHome'
        BY <1>1, <1>2 DEF DoorInv, AtHome, OneDoor, PointsHome, Door!SignIn, DoorTyped,
                          Door!DoorwayConstants
    <2> QED
        BY <2>2, <2>3 DEF AtHome
<1>11. cookies'.demo => chosen'
    BY <1>4 DEF DoorInv, Door!SignIn
<1> QED
    BY <1>8, <1>9, <1>10, <1>11 DEF DoorInv, Trails

-----------------------------------------------------------------------------

LEMMA DoorInit ==
    ASSUME Door!Init
    PROVE  DoorInv
<1>1. Door!At("home", "lobby") \in TabRecord
    BY AtIs DEF Door!Pages, Door!Public, Door!Inside
<1>2. \A t \in Tabs : tab[t] = Door!At("home", "lobby")
    BY DEF Door!Init
<1>3. tab \in [Tabs -> TabRecord]
    BY <1>1 DEF Door!Init
<1>4. DoorTyped
    <2>1. \A t \in Tabs : tab[t].pc = "asked" => tab[t].page \in Door!Pages
        BY <1>2 DEF Door!At
    <2> QED
        BY <1>3, <2>1, NothingKnown DEF DoorTyped, Door!Init
<1>5. AtHome /\ ~cookies.demo
    BY DEF AtHome, Belongs, PointsHome, Door!Init, Door!NoCookies
<1>6. Trails
    BY <1>2 DEF Trails, Downward, Door!At
<1> QED
    BY <1>4, <1>5, <1>6 DEF DoorInv

LEMMA DoorStutters ==
    ASSUME DoorInv, UNCHANGED Door!doorVars
    PROVE  DoorInv'
<1>1. DoorTyped' /\ AtHome' /\ (cookies'.demo => chosen')
    BY HomeStays DEF DoorInv, DoorTyped, Door!doorVars, Door!server
<1>2. ASSUME NEW u \in Tabs
      PROVE  Downward(u)'
    BY <1>2, SameTrail DEF DoorInv, Door!doorVars, Door!server, Trails
<1> QED
    BY <1>1, <1>2 DEF DoorInv, Trails

LEMMA DoorStep ==
    ASSUME Door!DoorwayConstants, DoorInv, [Door!Next]_Door!doorVars
    PROVE  DoorInv'
<1>1. ASSUME NEW g \in Tenants,
             Door!InviteRedeemed(g) \/ Door!JoinRequested(g) \/ Door!Admitted(g) \/ Door!Expelled(g)
                 \/ \E placed \in BOOLEAN : Door!ClaimRedeemed(g, placed)
      PROVE  DoorInv'
    BY <1>1, InviteRedeemedKeeps, JoinRequestedKeeps, AdmittedKeeps, ExpelledKeeps, ClaimRedeemedKeeps
<1>2. ASSUME Door!Pointed \/ Door!PointLost \/ Door!SessionExpires \/ Door!DemoExpires
      PROVE  DoorInv'
    BY <1>2, PointedKeeps, PointLostKeeps, SessionExpiresKeeps, DemoExpiresKeeps
<1>3. ASSUME NEW t \in Tabs,
             (\E p \in Door!Pages : Door!Ask(t, p)) \/ Door!Refused(t) \/ Door!Shown(t) \/ Door!Redirected(t) \/ Door!SignIn(t)
      PROVE  DoorInv'
    BY <1>3, AskKeeps, RefusedKeeps, ShownKeeps, RedirectedKeeps, SignInKeeps
<1> QED
    BY <1>1, <1>2, <1>3, DoorStutters DEF Door!Next

LEMMA DoorSafe ==
    ASSUME Door!DoorwayConstants, DoorInv
    PROVE  Door!TypeOK /\ Door!NoRedirectLoop /\ Door!StaysHome /\ Door!DemoByChoice
<1>1. ASSUME NEW t \in Tabs, tab[t].pc = "asked",
             <<tab[t].page, tab[t].had>> \in tab[t].trail, ~Door!Astray(tab[t].had)
      PROVE  FALSE
    <2>1. Rank(tab[t].page, tab[t].had) < Rank(tab[t].page, tab[t].had)
        BY <1>1 DEF DoorInv, Trails, Downward, Below
    <2>2. Rank(tab[t].page, tab[t].had) \in Nat
        BY <1>1, RankIs DEF DoorInv, DoorTyped
    <2> QED
        BY <2>1, <2>2
<1>2. Door!NoRedirectLoop /\ Door!StaysHome
    BY <1>1, HomeIsOpen DEF DoorInv, Door!NoRedirectLoop, Door!StaysHome, OneDoor
<1>3. Door!DemoByChoice
    BY DEF DoorInv, Door!DemoByChoice
<1>4. ASSUME NEW t \in Tabs
      PROVE  /\ tab[t].pc \in {"shown", "asked"}
             /\ tab[t].page \in Door!Pages \union {"other"} /\ tab[t].next \in Door!Pages
             /\ tab[t].had \in Door!Cookies
             /\ tab[t].trail \subseteq Door!Pages \X Door!Cookies
    BY DEF DoorInv, DoorTyped, TabRecord
<1>5. Door!TypeOK
    BY <1>4 DEF Door!TypeOK, DoorInv, DoorTyped
<1> QED
    BY <1>2, <1>3, <1>5

\* Doors (middleware/app.ts, circleAccess.ts, lobby.astro, demo/start.ts): for any
\* tabs and programmes, no tab is sent round in a circle but that of an operator
\* astray, whom a redemption that stopped half way or a second programme has made
\* so; and in demo mode is only who chose it.
THEOREM DoorsLeadHome ==
    ASSUME Door!DoorwayConstants
    PROVE  Door!Spec =>
               [](Door!TypeOK /\ Door!NoRedirectLoop /\ Door!StaysHome /\ Door!DemoByChoice)
<1>1. Door!Init => DoorInv
    BY DoorInit
<1>2. DoorInv /\ [Door!Next]_Door!doorVars => DoorInv'
    BY DoorStep
<1>3. DoorInv => Door!TypeOK /\ Door!NoRedirectLoop /\ Door!StaysHome /\ Door!DemoByChoice
    BY DoorSafe
<1> QED
    BY <1>1, <1>2, <1>3, PTL DEF Door!Spec

\* The property of MCOffice that the run office checks, for any number of tabs, of
\* programmes and of redemptions that die half way.
THEOREM NoWrongDoorThere == Spec => []NoWrongDoor
<1> DEFINE Inv == part = "doorway" => DoorInv
<1>1. Init => Inv
    BY OfficeConstants, DoorInit DEF Init, OfficeConstants
<1>2. Inv /\ [Next]_vars => Inv'
    <2> SUFFICES ASSUME Inv, [Next]_vars, part' = "doorway"
                 PROVE  DoorInv'
        OBVIOUS
    <2>1. CASE Next
        <3>1. part = "doorway" /\ Door!Next
            BY <2>1 DEF Next, Moves
        <3> QED
            BY <3>1, OfficeConstants, DoorStep DEF OfficeConstants
    <2>2. CASE UNCHANGED vars
        BY <2>2, OfficeConstants, DoorStep
        DEF OfficeConstants, vars, doorway, Door!doorVars
    <2> QED
        BY <2>1, <2>2
<1>3. Inv => NoWrongDoor
    BY OfficeConstants, DoorSafe DEF NoWrongDoor, OfficeConstants
<1> QED
    BY <1>1, <1>2, <1>3, PTL DEF Spec

-----------------------------------------------------------------------------
(* Programmes: the seats                                                     *)

Seat == [tenant : SignIns \union {None}, user : Users \union {None}]

\* A row that is not there is nobody's, and nobody has two in a programme.
SeatsTyped ==
    /\ exists \subseteq Users
    /\ seed \in [Seeds -> Seat]
    /\ \A s \in Seeds : seed[s].tenant = None => seed[s].user = None
    /\ \A s, q \in Seeds : seed[s].user # None /\ seed[s] = seed[q] => s = q

\* Who undoes a programme has said so before.
SignsKnown ==
    /\ DOMAIN sign = SignIns
    /\ \A r \in SignIns : /\ DOMAIN sign[r] = {"pc", "user", "goal"}
                          /\ sign[r].pc # "idle" => sign[r].user \in Users
                          /\ sign[r].pc = "undoTenant" => r \in gone

VisitsKnown ==
    /\ DOMAIN visit = Visits
    /\ \A v \in Visits : /\ DOMAIN visit[v] = {"pc", "user", "token", "tenant"}
                         /\ visit[v].pc # "idle" => visit[v].user \in Users

SeatInv == SeatsTyped /\ SignsKnown /\ VisitsKnown

\* What a step does to the seats.
Emptied(s) == seed[s].tenant \in gone' \/ seed[s].user \in Users \ exists'

SeatMoves ==
    \/ seed' = seed
    \/ \E s \in Seeds, t \in SignIns : seed[s].tenant = None /\ seed' = [seed EXCEPT ![s].tenant = t]
    \/ \E s \in Seeds, u \in Users : /\ seed[s].tenant # None /\ seed[s].user = None
                                     /\ \A q \in Seeds : seed[q] # [tenant |-> seed[s].tenant, user |-> u]
                                     /\ seed' = [seed EXCEPT ![s].user = u]
    \/ /\ seed' \in [Seeds -> Seat]
       /\ \A s \in Seeds : seed'[s] = seed[s] \/ (Emptied(s) /\ seed'[s].user = None)

-----------------------------------------------------------------------------

LEMMA SeatsMove ==
    ASSUME Membership!ProgrammesConstants, SeatsTyped, SeatMoves, exists' \subseteq Users
    PROVE  SeatsTyped' /\ Membership!SeatsStayHers
<1>0. None \notin Users /\ None \notin SignIns /\ seed \in [Seeds -> Seat]
    BY DEF Membership!ProgrammesConstants, SeatsTyped
<1>1. CASE seed' = seed
    BY <1>1 DEF SeatsTyped, Membership!SeatsStayHers
<1>2. CASE \E s \in Seeds, t \in SignIns : seed[s].tenant = None /\ seed' = [seed EXCEPT ![s].tenant = t]
    <2>1. PICK s \in Seeds, t \in SignIns : seed[s].tenant = None /\ seed' = [seed EXCEPT ![s].tenant = t]
        BY <1>2
    <2>2. seed[s] \in Seat /\ seed[s].user = None
        BY <1>0, <2>1 DEF SeatsTyped
    <2>3. /\ seed' \in [Seeds -> Seat] /\ seed'[s].user = None
          /\ \A q \in Seeds \ {s} : seed'[q] = seed[q]
        BY <1>0, <2>1, <2>2 DEF Seat
    <2>4. \A q \in Seeds : /\ seed'[q].user # None => seed'[q] = seed[q]
                           /\ seed[q].user \in exists' => seed'[q] = seed[q]
        BY <1>0, <2>2, <2>3
    <2>5. \A q, o \in Seeds : seed'[q].user # None /\ seed'[q] = seed'[o] => q = o
        BY <2>4 DEF SeatsTyped
    <2>6. \A q \in Seeds : seed'[q].tenant = None => seed'[q].user = None
        BY <2>3 DEF SeatsTyped
    <2> QED
        BY <2>3, <2>4, <2>5, <2>6 DEF SeatsTyped, Membership!SeatsStayHers
<1>3. CASE \E s \in Seeds, u \in Users : /\ seed[s].tenant # None /\ seed[s].user = None
                                         /\ \A q \in Seeds : seed[q] # [tenant |-> seed[s].tenant, user |-> u]
                                         /\ seed' = [seed EXCEPT ![s].user = u]
    <2>1. PICK s \in Seeds, u \in Users : /\ seed[s].tenant # None /\ seed[s].user = None
                                          /\ \A q \in Seeds : seed[q] # [tenant |-> seed[s].tenant, user |-> u]
                                          /\ seed' = [seed EXCEPT ![s].user = u]
        BY <1>3
    <2>2. seed[s] \in Seat
        BY <1>0
    <2>3. /\ seed' \in [Seeds -> Seat]
          /\ seed'[s] = [tenant |-> seed[s].tenant, user |-> u]
          /\ seed'[s].tenant = seed[s].tenant
          /\ \A q \in Seeds \ {s} : seed'[q] = seed[q]
        BY <1>0, <2>1, <2>2 DEF Seat
    <2>4. \A q \in Seeds : seed[q].user \in exists' => seed'[q] = seed[q]
        BY <1>0, <2>1, <2>3
    <2>5. \A q \in Seeds \ {s} : seed'[q] # seed'[s]
        BY <2>1, <2>3
    <2>6. \A q, o \in Seeds : seed'[q].user # None /\ seed'[q] = seed'[o] => q = o
        BY <2>3, <2>5 DEF SeatsTyped
    <2>7. \A q \in Seeds : seed'[q].tenant = None => seed'[q].user = None
        BY <2>1, <2>3 DEF SeatsTyped
    <2> QED
        BY <2>3, <2>4, <2>6, <2>7 DEF SeatsTyped, Membership!SeatsStayHers
<1>4. CASE /\ seed' \in [Seeds -> Seat]
           /\ \A s \in Seeds : seed'[s] = seed[s] \/ (Emptied(s) /\ seed'[s].user = None)
    <2>1. \A q \in Seeds : seed[q].user \in exists' /\ seed[q].tenant \notin gone' => seed'[q] = seed[q]
        BY <1>4 DEF Emptied
    <2>2. \A q, o \in Seeds : seed'[q].user # None /\ seed'[q] = seed'[o] => q = o
        BY <1>4 DEF SeatsTyped
    <2>3. \A q \in Seeds : seed'[q].tenant = None => seed'[q].user = None
        BY <1>4 DEF SeatsTyped
    <2> QED
        BY <1>4, <2>1, <2>2, <2>3 DEF SeatsTyped, Membership!SeatsStayHers
<1> QED
    BY <1>1, <1>2, <1>3, <1>4 DEF SeatMoves

\* A request to sign in takes a step.
LEMMA SignGoes ==
    ASSUME SignsKnown, NEW r \in SignIns, NEW y, sign' = [sign EXCEPT ![r] = y],
           DOMAIN y = {"pc", "user", "goal"}, y.user \in Users,
           y.pc = "undoTenant" => r \in gone', gone \subseteq gone'
    PROVE  SignsKnown'
<1>1. DOMAIN sign' = SignIns /\ sign'[r] = y /\ \A q \in SignIns \ {r} : sign'[q] = sign[q]
    BY DEF SignsKnown
<1> QED
    BY <1>1 DEF SignsKnown

\* It goes somewhere, with the same user and perhaps another goal.
SignWalks(r) ==
    \/ \E x : sign' = [sign EXCEPT ![r].pc = x] /\ (x = "undoTenant" => r \in gone')
    \/ \E x, g : /\ sign' = [sign EXCEPT ![r].pc = x, ![r].goal = g]
                 /\ x = "undoTenant" => r \in gone'

LEMMA SignMoves ==
    ASSUME Membership!ProgrammesConstants, SeatInv, NEW r \in SignIns, sign[r].pc # "idle",
           SignWalks(r),
           gone \subseteq gone', visit' = visit, SeatMoves, exists' \subseteq Users
    PROVE  SeatInv' /\ Membership!SeatsStayHers
<1>1. PICK x, g : /\ \/ sign' = [sign EXCEPT ![r].pc = x]
                     \/ sign' = [sign EXCEPT ![r].pc = x, ![r].goal = g]
                  /\ x = "undoTenant" => r \in gone'
    BY DEF SignWalks
<1>2. /\ DOMAIN sign = SignIns /\ DOMAIN sign[r] = {"pc", "user", "goal"}
      /\ sign[r].user \in Users
    BY DEF SeatInv, SignsKnown
<1>3. PICK y : /\ sign' = [sign EXCEPT ![r] = y] /\ DOMAIN y = {"pc", "user", "goal"}
               /\ y.pc = x /\ y.user = sign[r].user
    <2>1. CASE sign' = [sign EXCEPT ![r].pc = x]
        <3>1. sign' = [sign EXCEPT ![r] = [sign[r] EXCEPT !.pc = x]]
            BY <1>2, <2>1
        <3>2. /\ DOMAIN [sign[r] EXCEPT !.pc = x] = {"pc", "user", "goal"}
              /\ [sign[r] EXCEPT !.pc = x].pc = x /\ [sign[r] EXCEPT !.pc = x].user = sign[r].user
            BY <1>2
        <3> QED
            BY <3>1, <3>2
    <2>2. CASE sign' = [sign EXCEPT ![r].pc = x, ![r].goal = g]
        <3>1. sign' = [sign EXCEPT ![r] = [sign[r] EXCEPT !.pc = x, !.goal = g]]
            BY <1>2, <2>2
        <3>2. /\ DOMAIN [sign[r] EXCEPT !.pc = x, !.goal = g] = {"pc", "user", "goal"}
              /\ [sign[r] EXCEPT !.pc = x, !.goal = g].pc = x
              /\ [sign[r] EXCEPT !.pc = x, !.goal = g].user = sign[r].user
            BY <1>2
        <3> QED
            BY <3>1, <3>2
    <2> QED
        BY <1>1, <2>1, <2>2
<1>4. SignsKnown'
    BY <1>1, <1>2, <1>3, SignGoes DEF SeatInv
<1>5. VisitsKnown'
    BY DEF SeatInv, VisitsKnown
<1> QED
    BY <1>4, <1>5, SeatsMove DEF SeatInv

\* A visit takes a step.
LEMMA VisitMoves ==
    ASSUME Membership!ProgrammesConstants, SeatInv, NEW v \in Visits, NEW x,
           visit[v].pc # "idle", visit' = [visit EXCEPT ![v].pc = x],
           UNCHANGED <<exists, gone, sign>>, SeatMoves
    PROVE  SeatInv' /\ Membership!SeatsStayHers
<1>1. /\ DOMAIN visit = Visits /\ DOMAIN visit[v] = {"pc", "user", "token", "tenant"}
      /\ visit[v].user \in Users
    BY DEF SeatInv, VisitsKnown
<1>2. PICK y : /\ visit' = [visit EXCEPT ![v] = y] /\ DOMAIN y = {"pc", "user", "token", "tenant"}
               /\ y.user = visit[v].user
    <2>1. visit' = [visit EXCEPT ![v] = [visit[v] EXCEPT !.pc = x]]
        BY <1>1
    <2>2. /\ DOMAIN [visit[v] EXCEPT !.pc = x] = {"pc", "user", "token", "tenant"}
          /\ [visit[v] EXCEPT !.pc = x].user = visit[v].user
        BY <1>1
    <2> QED
        BY <2>1, <2>2
<1>3. DOMAIN visit' = Visits /\ visit'[v] = y /\ \A w \in Visits \ {v} : visit'[w] = visit[w]
    BY <1>1, <1>2
<1>4. VisitsKnown'
    BY <1>1, <1>2, <1>3 DEF SeatInv, VisitsKnown
<1>5. SignsKnown' /\ exists' \subseteq Users
    BY DEF SeatInv, SignsKnown, SeatsTyped
<1> QED
    BY <1>4, <1>5, SeatsMove DEF SeatInv

\* No request and no visit is touched.
LEMMA OthersMove ==
    ASSUME Membership!ProgrammesConstants, SeatInv, UNCHANGED <<sign, visit>>, gone \subseteq gone',
           SeatMoves, exists' \subseteq Users
    PROVE  SeatInv' /\ Membership!SeatsStayHers
<1>1. SignsKnown' /\ VisitsKnown'
    BY DEF SeatInv, SignsKnown, VisitsKnown
<1> QED
    BY <1>1, SeatsMove DEF SeatInv

-----------------------------------------------------------------------------
(* Sign-ins *)

LEMMA SignInBegins ==
    ASSUME Membership!ProgrammesConstants, SeatInv, NEW r \in SignIns, NEW u \in Users,
           Membership!SignIn(r, u)
    PROVE  SeatInv' /\ Membership!SeatsStayHers
<1> DEFINE y == [pc |-> "find", user |-> u, goal |-> None]
<1>1. DOMAIN y = {"pc", "user", "goal"} /\ y.user \in Users /\ y.pc = "find"
    OBVIOUS
<1>2. sign' = [sign EXCEPT ![r] = y] /\ UNCHANGED <<exists, gone, seed, visit>>
    BY DEF Membership!SignIn, Membership!people, Membership!others
<1> HIDE DEF y
<1>3. SignsKnown'
    BY <1>1, <1>2, SignGoes DEF SeatInv
<1>4. VisitsKnown' /\ exists' \subseteq Users
    BY <1>2 DEF SeatInv, VisitsKnown, SeatsTyped
<1> QED
    BY <1>2, <1>3, <1>4, SeatsMove DEF SeatInv, SeatMoves

\* The statements that touch no seat.
LEMMA Walks ==
    ASSUME NEW r, NEW x, Membership!Go(r, x), x = "undoTenant" => r \in gone'
    PROVE  SignWalks(r)
BY DEF Membership!Go, SignWalks

LEMMA WalksOn ==
    ASSUME NEW r, NEW x, NEW g, Membership!Aim(r, x, g), x = "undoTenant" => r \in gone'
    PROVE  SignWalks(r)
BY DEF Membership!Aim, SignWalks

LEMMA SignStepKeeps ==
    ASSUME Membership!ProgrammesConstants, SeatInv, NEW r \in SignIns,
           \/ Membership!FindUser(r) \/ Membership!CreateUser(r) \/ Membership!ReadActive(r) \/ Membership!OwnMembership(r) \/ Membership!Founders(r)
           \/ Membership!Join(r) \/ Membership!Mint(r) \/ Membership!FirstOwner(r) \/ Membership!Attach(r) \/ Membership!Settle(r) \/ Membership!UndoRow(r)
           \/ Membership!SignInFails(r)
    PROVE  SeatInv' /\ Membership!SeatsStayHers
<1>1. sign[r].pc # "idle" /\ gone \subseteq gone' /\ UNCHANGED <<seed, visit>> /\ exists' \subseteq Users
    <2>0. exists \subseteq Users /\ (sign[r].pc # "idle" => sign[r].user \in Users)
        BY DEF SeatInv, SeatsTyped, SignsKnown
    <2>1. CASE Membership!FindUser(r) \/ Membership!CreateUser(r) \/ Membership!ReadActive(r) \/ Membership!OwnMembership(r) \/ Membership!Founders(r)
        BY <2>0, <2>1 DEF Membership!FindUser, Membership!CreateUser, Membership!ReadActive,
                          Membership!OwnMembership, Membership!Founders, Membership!people, Membership!others
    <2>2. CASE Membership!Join(r) \/ Membership!Mint(r) \/ Membership!FirstOwner(r) \/ Membership!Attach(r) \/ Membership!Settle(r) \/ Membership!UndoRow(r) \/ Membership!SignInFails(r)
        BY <2>0, <2>2 DEF Membership!Join, Membership!Mint, Membership!FirstOwner,
                          Membership!Attach, Membership!Settle, Membership!UndoRow, Membership!SignInFails, Membership!people, Membership!others
    <2> QED
        BY <2>1, <2>2
<1>2. SignWalks(r)
    <2>1. CASE Membership!FindUser(r) \/ Membership!CreateUser(r) \/ Membership!Join(r) \/ Membership!Mint(r) \/ Membership!FirstOwner(r) \/ Membership!SignInFails(r)
        <3>1. Membership!Go(r, "read") \/ Membership!Go(r, "create") \/ Membership!Go(r, "refused") \/ Membership!Go(r, "attach") \/ Membership!Go(r, "owner")
            BY <2>1 DEF Membership!FindUser, Membership!CreateUser, Membership!Join,
                        Membership!Mint, Membership!FirstOwner, Membership!SignInFails
        <3> QED
            BY <3>1, Walks
    <2>2. CASE Membership!ReadActive(r) \/ Membership!Attach(r)
        <3>1. Membership!Go(r, "done") \/ Membership!Go(r, "own") \/ Membership!Go(r, "settle")
            BY <2>2 DEF Membership!ReadActive, Membership!Attach, Membership!SignedIn
        <3> QED
            BY <3>1, Walks
    <2>3. CASE Membership!OwnMembership(r)
        <3>1. CASE Membership!Go(r, "founders")
            BY <3>1, Walks
        <3>2. CASE \E m \in memberships : Membership!Aim(r, "attach", m.tenant)
            <4>1. PICK m : Membership!Aim(r, "attach", m.tenant)
                BY <3>2
            <4> QED
                BY <4>1, WalksOn
        <3> QED
            BY <2>3, <3>1, <3>2 DEF Membership!OwnMembership, Membership!Eldest
    <2>4. CASE Membership!Founders(r)
        <3>1. CASE Membership!Go(r, "done")
            BY <3>1, Walks
        <3>2. CASE Membership!Aim(r, "mint", r)
            BY <3>2, WalksOn
        <3>3. CASE \E m \in memberships : Membership!Aim(r, "join", m.tenant)
            <4>1. PICK m : Membership!Aim(r, "join", m.tenant)
                BY <3>3
            <4> QED
                BY <4>1, WalksOn
        <3> QED
            BY <2>4, <3>1, <3>2, <3>3 DEF Membership!Founders, Membership!SignedIn,
                                          Membership!Eldest
    <2>5. CASE Membership!Settle(r)
        <3>1. CASE Membership!Go(r, "done") \/ Membership!Go(r, "refused")
            BY <3>1, Walks
        <3>2. CASE Membership!Aim(r, "undoRow", active[sign[r].user])
            BY <3>2, WalksOn
        <3> QED
            BY <2>5, <3>1, <3>2 DEF Membership!Settle, Membership!SignedIn
    <2>6. CASE Membership!UndoRow(r)
        <3>1. Membership!Go(r, "undoTenant") /\ r \in gone'
            BY <2>6 DEF Membership!UndoRow
        <3> QED
            BY <3>1, Walks
    <2> QED
        BY <2>1, <2>2, <2>3, <2>4, <2>5, <2>6
<1> QED
    BY <1>1, <1>2, SignMoves DEF SeatMoves

\* A programme is undone with the seats in it.
LEMMA UndoTenantKeeps ==
    ASSUME Membership!ProgrammesConstants, SeatInv, NEW r \in SignIns, Membership!UndoTenant(r)
    PROVE  SeatInv' /\ Membership!SeatsStayHers
<1>1. /\ sign[r].pc = "undoTenant" /\ UNCHANGED <<exists, gone, visit>>
      /\ Membership!Go(r, "done") \/ Membership!Go(r, "refused")
      /\ seed' = [s \in Seeds |-> IF seed[s].tenant = r THEN [tenant |-> None, user |-> None] ELSE seed[s]]
    BY DEF Membership!UndoTenant, Membership!DropTenant, Membership!SignedIn
<1>2. r \in gone /\ exists \subseteq Users /\ seed \in [Seeds -> Seat]
    BY <1>1 DEF SeatInv, SignsKnown, SeatsTyped
<1> DEFINE vacant == [tenant |-> None, user |-> None]
<1>3. vacant \in Seat /\ vacant.user = None
    BY DEF Seat
<1>4. seed' = [s \in Seeds |-> IF seed[s].tenant = r THEN vacant ELSE seed[s]]
    BY <1>1
<1> HIDE DEF vacant
<1>5. \A s \in Seeds : seed'[s] = seed[s] \/ (Emptied(s) /\ seed'[s].user = None)
    BY <1>1, <1>2, <1>3, <1>4 DEF Emptied
<1>6. SeatMoves
    BY <1>2, <1>3, <1>4, <1>5 DEF SeatMoves
<1>7. SignWalks(r)
    BY <1>1, Walks
<1> QED
    BY <1>1, <1>2, <1>6, <1>7, SignMoves

-----------------------------------------------------------------------------
(* Links and visits *)

LEMMA LinkKeeps ==
    ASSUME Membership!ProgrammesConstants, SeatInv, NEW l, NEW u, NEW s,
           Membership!MakeInvite(l, u) \/ Membership!MakeClaim(l, u, s) \/ Membership!Expire(l)
    PROVE  SeatInv' /\ Membership!SeatsStayHers
<1>1. UNCHANGED <<sign, visit, seed, gone, exists>>
    BY DEF Membership!MakeInvite, Membership!MakeClaim, Membership!Make, Membership!Expire,
           Membership!people
<1> QED
    BY <1>1, OthersMove DEF SeatMoves, SeatInv, SeatsTyped

LEMMA SeedMemberKeeps ==
    ASSUME Membership!ProgrammesConstants, SeatInv, NEW s \in Seeds, NEW t \in SignIns,
           Membership!SeedMember(s, t)
    PROVE  SeatInv' /\ Membership!SeatsStayHers
<1>1. /\ UNCHANGED <<sign, visit, gone, exists>>
      /\ seed[s].tenant = None /\ seed' = [seed EXCEPT ![s].tenant = t]
    BY DEF Membership!SeedMember, Membership!people
<1> QED
    BY <1>1, OthersMove DEF SeatMoves, SeatInv, SeatsTyped

LEMMA RedeemKeeps ==
    ASSUME Membership!ProgrammesConstants, SeatInv, NEW v \in Visits, NEW u \in Users, NEW l,
           Membership!Redeem(v, u, l) \/ Membership!RedeemClaim(v, u, l)
    PROVE  SeatInv' /\ Membership!SeatsStayHers
<1>1. PICK pc, g : visit' = [visit EXCEPT ![v] = [pc |-> pc, user |-> u, token |-> l, tenant |-> g]]
    BY DEF Membership!Redeem, Membership!RedeemClaim, Membership!Spend
<1>2. UNCHANGED <<sign, seed, gone, exists>>
    BY DEF Membership!Redeem, Membership!RedeemClaim, Membership!Spend, Membership!people
<1> DEFINE y == [pc |-> pc, user |-> u, token |-> l, tenant |-> g]
<1>3. DOMAIN y = {"pc", "user", "token", "tenant"} /\ y.user = u
    OBVIOUS
<1>4. visit' = [visit EXCEPT ![v] = y]
    BY <1>1
<1> HIDE DEF y
<1>5. DOMAIN visit' = Visits /\ visit'[v] = y /\ \A w \in Visits \ {v} : visit'[w] = visit[w]
    BY <1>4 DEF SeatInv, VisitsKnown
<1>6. VisitsKnown'
    BY <1>3, <1>5 DEF SeatInv, VisitsKnown
<1>7. SignsKnown' /\ exists' \subseteq Users
    BY <1>2 DEF SeatInv, SignsKnown, SeatsTyped
<1> QED
    BY <1>2, <1>6, <1>7, SeatsMove DEF SeatInv, SeatMoves

LEMMA VisitStepKeeps ==
    ASSUME Membership!ProgrammesConstants, SeatInv, NEW v \in Visits,
           Membership!CheckMember(v) \/ Membership!InsertAdmin(v) \/ Membership!Point(v) \/ Membership!CheckMine(v) \/ Membership!VisitFails(v)
    PROVE  SeatInv' /\ Membership!SeatsStayHers
<1>1. /\ visit[v].pc # "idle" /\ UNCHANGED <<sign, seed, gone, exists>>
      /\ \E x : visit' = [visit EXCEPT ![v].pc = x]
    <2>1. CASE Membership!CheckMember(v)
        BY <2>1 DEF Membership!CheckMember, Membership!Here, Membership!people
    <2>2. CASE Membership!InsertAdmin(v)
        BY <2>2 DEF Membership!InsertAdmin, Membership!Here
    <2>3. CASE Membership!Point(v)
        BY <2>3 DEF Membership!Point, Membership!Here
    <2>4. CASE Membership!CheckMine(v)
        BY <2>4 DEF Membership!CheckMine, Membership!Here, Membership!people
    <2>5. CASE Membership!VisitFails(v)
        BY <2>5 DEF Membership!VisitFails, Membership!people
    <2> QED
        BY <2>1, <2>2, <2>3, <2>4, <2>5
<1> QED
    BY <1>1, VisitMoves DEF SeatMoves

\* The seat is free, and the login has none in the programme.
LEMMA BindKeeps ==
    ASSUME Membership!ProgrammesConstants, SeatInv, NEW v \in Visits, Membership!Bind(v)
    PROVE  SeatInv' /\ Membership!SeatsStayHers
<1>1. /\ visit[v].pc # "idle" /\ UNCHANGED <<sign, gone, exists>>
      /\ \E x : visit' = [visit EXCEPT ![v].pc = x]
    BY DEF Membership!Bind, Membership!Here, Membership!people
<1>2. PICK u \in Users : u = visit[v].user
    BY <1>1 DEF SeatInv, VisitsKnown
<1>3. SeatMoves
    <2>1. CASE seed' = seed
        BY <2>1 DEF SeatMoves
    <2>2. CASE seed' # seed
        <3>1. PICK s, t : /\ t # None /\ seed[s] = [tenant |-> t, user |-> None]
                          /\ \A q \in Seeds : seed[q] # [tenant |-> t, user |-> u]
                          /\ seed' = [seed EXCEPT ![s].user = u]
            BY <1>2, <2>2 DEF Membership!Bind, Membership!Bindable, Membership!HasSeat
        <3>2. seed[s].tenant = t /\ seed[s].user = None
            BY <3>1
        <3>3. s \in Seeds
            BY <2>2, <3>1 DEF SeatInv, SeatsTyped
        <3> QED
            BY <3>1, <3>2, <3>3 DEF SeatMoves
    <2> QED
        BY <2>1, <2>2
<1> QED
    BY <1>1, <1>3, VisitMoves

-----------------------------------------------------------------------------
(* Deletions *)

LEMMA EraseKeeps ==
    ASSUME Membership!ProgrammesConstants, SeatInv, NEW u \in Users,
           Membership!EraseStart(u) \/ Membership!EraseCount(u) \/ Membership!EraseMemberships(u)
    PROVE  SeatInv' /\ Membership!SeatsStayHers
<1>1. UNCHANGED <<sign, visit, seed, exists>> /\ gone \subseteq gone'
    BY DEF Membership!EraseStart, Membership!EraseCount, Membership!EraseMemberships,
           Membership!EraseGo, Membership!people
<1> QED
    BY <1>1, OthersMove DEF SeatMoves, SeatInv, SeatsTyped

\* Her seats are free again, and she is no more.
LEMMA EraseUserKeeps ==
    ASSUME Membership!ProgrammesConstants, SeatInv, NEW u \in Users, Membership!EraseUser(u)
    PROVE  SeatInv' /\ Membership!SeatsStayHers
<1>1. UNCHANGED <<sign, visit, gone>>
    BY DEF Membership!EraseUser, Membership!EraseGo
<1>2. exists \subseteq Users /\ seed \in [Seeds -> Seat]
    BY DEF SeatInv, SeatsTyped
<1>3. CASE UNCHANGED <<exists, seed>>
    BY <1>1, <1>2, <1>3, OthersMove DEF SeatMoves
<1>4. CASE /\ exists' = exists \ {u}
           /\ seed' = [s \in Seeds |-> IF seed[s].user = u THEN [seed[s] EXCEPT !.user = None] ELSE seed[s]]
    <2>1. ASSUME NEW s \in Seeds
          PROVE  /\ seed'[s] \in Seat
                 /\ seed'[s] = seed[s] \/ (Emptied(s) /\ seed'[s].user = None)
        <3>1. CASE seed[s].user = u
            <4>1. seed[s] \in Seat
                BY <1>2
            <4>2. [seed[s] EXCEPT !.user = None] \in Seat /\ [seed[s] EXCEPT !.user = None].user = None
                BY <4>1 DEF Seat
            <4>3. seed'[s] = [seed[s] EXCEPT !.user = None]
                BY <1>4, <3>1
            <4>4. Emptied(s)
                BY <1>4, <3>1 DEF Emptied
            <4> QED
                BY <4>2, <4>3, <4>4
        <3>2. CASE seed[s].user # u
            BY <1>2, <1>4, <3>2
        <3> QED
            BY <3>1, <3>2
    <2>2. seed' = [s \in Seeds |-> seed'[s]]
        BY <1>4
    <2>3. SeatMoves
        BY <2>1, <2>2 DEF SeatMoves
    <2> QED
        BY <1>1, <1>2, <1>4, <2>3, OthersMove
<1> QED
    BY <1>3, <1>4 DEF Membership!EraseUser, Membership!DropUser

-----------------------------------------------------------------------------

LEMMA SeatsStart ==
    ASSUME Membership!Init
    PROVE  SeatInv
<1>1. SignsKnown
    BY DEF Membership!Init, SignsKnown
<1>2. VisitsKnown
    BY DEF Membership!Init, VisitsKnown
<1>3. SeatsTyped
    BY DEF Membership!Init, SeatsTyped, Seat
<1> QED
    BY <1>1, <1>2, <1>3 DEF SeatInv

LEMMA SeatSteps ==
    ASSUME Membership!ProgrammesConstants, SeatInv, [Membership!Next]_Membership!vars
    PROVE  SeatInv' /\ Membership!SeatsStayHers
<1>1. CASE UNCHANGED Membership!vars
    BY <1>1, OthersMove DEF Membership!vars, SeatMoves, SeatInv, SeatsTyped
<1>2. ASSUME NEW r \in SignIns,
             (\E u \in Users : Membership!SignIn(r, u)) \/ Membership!SignInStep(r) \/ Membership!SignInFails(r)
      PROVE  SeatInv' /\ Membership!SeatsStayHers
    BY <1>2, SignInBegins, SignStepKeeps, UndoTenantKeeps DEF Membership!SignInStep
<1>3. ASSUME NEW u \in Users, NEW l \in Links,
             \/ Membership!MakeInvite(l, u) \/ \E s \in Seeds : Membership!MakeClaim(l, u, s)
             \/ \E v \in Visits : Membership!Redeem(v, u, l) \/ Membership!RedeemClaim(v, u, l)
      PROVE  SeatInv' /\ Membership!SeatsStayHers
    BY <1>3, LinkKeeps, RedeemKeeps
<1>4. ASSUME NEW u \in Users, Membership!EraseStart(u) \/ Membership!EraseStep(u)
      PROVE  SeatInv' /\ Membership!SeatsStayHers
    BY <1>4, EraseKeeps, EraseUserKeeps DEF Membership!EraseStep
<1>5. ASSUME NEW v \in Visits, Membership!VisitStep(v) \/ Membership!VisitFails(v)
      PROVE  SeatInv' /\ Membership!SeatsStayHers
    BY <1>5, VisitStepKeeps, BindKeeps DEF Membership!VisitStep
<1>6. ASSUME (\E s \in Seeds, t \in SignIns : Membership!SeedMember(s, t)) \/ (\E l \in Links : Membership!Expire(l))
      PROVE  SeatInv' /\ Membership!SeatsStayHers
    BY <1>6, SeedMemberKeeps, LinkKeeps
<1> QED
    BY <1>1, <1>2, <1>3, <1>4, <1>5, <1>6 DEF Membership!Next

\* Claims (claim/[token].astro, account/delete.ts): for any people, sign-ins, links,
\* seats and failures, a seat is claimed once and stays hers.
THEOREM SeatsAreClaimedOnce == ASSUME Membership!ProgrammesConstants PROVE Membership!Spec => Membership!SeatClaimedOnce
<1>1. Membership!Init => SeatInv
    BY SeatsStart
<1>2. SeatInv /\ [Membership!Next]_Membership!vars => SeatInv'
    BY SeatSteps
<1>3. SeatInv /\ [Membership!Next]_Membership!vars => [Membership!SeatsStayHers]_Membership!vars
    BY SeatSteps
<1> QED
    BY <1>1, <1>2, <1>3, PTL DEF Membership!Spec, Membership!SeatClaimedOnce

\* The property of MCOffice that the run office checks.
THEOREM SeatClaimedOnceThere == Spec => SeatClaimedOnce
<1> DEFINE Inv == part = "people" => SeatInv
<1>1. Init => Inv
    BY OfficeConstants, SeatsStart DEF Init, OfficeConstants
<1>2. Inv /\ [Next]_vars => Inv' /\ (part = "people" => Membership!SeatsStayHers)
    <2> SUFFICES ASSUME Inv, [Next]_vars
                 PROVE  /\ part' = "people" => SeatInv'
                        /\ part = "people" => Membership!SeatsStayHers
        OBVIOUS
    <2>1. part' = part
        BY DEF Next, Moves, vars
    <2>2. part = "people" => Membership!Next \/ UNCHANGED Membership!vars
        BY DEF Next, Moves, vars, people, Membership!vars
    <2> QED
        BY <2>1, <2>2, OfficeConstants, SeatSteps DEF OfficeConstants
<1>3. Inv /\ [Next]_vars => [part = "people" => Membership!SeatsStayHers]_vars
    BY <1>2
<1>4. Inv /\ [Next]_vars => Inv'
    BY <1>2
<1> QED
    BY <1>1, <1>3, <1>4, PTL DEF Spec, SeatClaimedOnce


-----------------------------------------------------------------------------
(* Programmes: who is where                                                  *)

SignRecord ==
    [pc : {"idle", "find", "create", "read", "own", "founders", "join", "mint", "owner", "attach",
           "settle", "undoRow", "undoTenant", "done", "refused"},
     user : Users \union {None}, goal : SignIns \union {None}]
VisitRecord ==
    [pc : {"idle", "check", "insert", "mine", "bind", "point", "in", "done", "failed"},
     user : Users \union {None}, token : Links \union {None}, tenant : SignIns \union {None}]
EraseRecord == [pc : {"no", "count", "wipe", "row", "erased"}, tenant : SignIns \union {None}]
LinkRecord ==
    [state : {"unused", "live", "spent", "dead"}, tenant : SignIns \union {None},
     seed : Seeds \union {None}, by : Users \union {None}]

RightTyped ==
    /\ tenants \subseteq SignIns /\ gone \subseteq SignIns
    /\ active \in [Users -> SignIns \union {None}]
    /\ cookie \in [Users -> SignIns \union {None, "out"}]
    /\ link \in [Links -> LinkRecord]
    /\ sign \in [SignIns -> SignRecord]
    /\ visit \in [Visits -> VisitRecord]
    /\ erase \in [Users -> EraseRecord]
    /\ \A u \in Users : erase[u].pc # "no" => erase[u].tenant \in SignIns
    /\ \A r \in SignIns : /\ sign[r].pc \in {"mint", "owner"} => sign[r].goal = r
                          /\ sign[r].pc = "owner" => r \in tenants
    /\ failures \in 0..MaxFailures

\* Whose programme has its first owner; and a programme that is, or is gone.
Late == {"attach", "settle", "undoRow", "undoTenant", "done", "refused"}
Begun(t) == t \in SignIns /\ sign[t].pc \in Late
HasBeen(t) == t \in tenants \/ t \in gone

\* Who is absent has gone for good.
Registered(u) == u \in Users /\ (u \in exists \/ erase[u].pc = "erased")

RowsRight ==
    /\ memberships \subseteq [tenant : tenants, user : exists, role : {"owner", "admin"}, age : Nat]
    /\ \A m, k \in memberships : m.tenant = k.tenant /\ m.user = k.user => m = k
    /\ \A m \in memberships : Begun(m.tenant)

LinksRight ==
    \A l \in Links :
        /\ link[l].state = "unused" => link[l].tenant = None /\ link[l].by = None
        /\ link[l].state # "unused" => Begun(link[l].tenant) /\ HasBeen(link[l].tenant)

\* What a sign-in knows of whom it is about to attach where.
SignRight(x) ==
    /\ x.pc \notin {"idle", "find", "create", "refused"} => Registered(x.user)
    /\ x.pc = "join" => Begun(x.goal)
    /\ x.pc = "attach" => /\ x.goal \in SignIns
                          /\ x.user \in exists => Membership!HasMembership(x.user, x.goal) \/ x.goal \in gone

Pointed(u) ==
    \E w \in Visits : visit[w].pc = "in" /\ visit[w].user = u /\ active[u] = visit[w].tenant

\* What a visit knows of its link and of whom it lets in.
VisitRight(x) ==
    x.pc # "idle" =>
        /\ Registered(x.user) /\ Begun(x.tenant) /\ HasBeen(x.tenant)
        /\ x.token \in Links /\ link[x.token].state # "unused"
        /\ x.pc \in {"check", "insert"} => link[x.token].seed = None
        /\ x.pc \in {"mine", "bind"} => link[x.token].seed # None
        /\ x.user \in exists /\ x.tenant \notin gone =>
            /\ x.pc \in {"point", "in", "done"} /\ link[x.token].seed = None
                => Membership!HasMembership(x.user, x.tenant)
            /\ x.pc \in {"point", "in"} => Membership!Backed(x.user, x.tenant)

ActiveRight ==
    \A u \in Users :
        /\ u \notin exists => active[u] = None
        /\ active[u] # None => Membership!Backed(u, active[u]) \/ active[u] \in gone

\* Whom a visit has let in, a visit of hers has pointed.
PointedRight ==
    \A v \in Visits :
        visit[v].pc = "in" /\ visit[v].user \in exists /\ visit[v].tenant \notin gone => Pointed(visit[v].user)

RightInv ==
    /\ SeatInv /\ RightTyped /\ RowsRight /\ LinksRight /\ ActiveRight /\ PointedRight
    /\ \A r \in SignIns : SignRight(sign[r])
    /\ \A v \in Visits : VisitRight(visit[v])

-----------------------------------------------------------------------------
(* What a step leaves true *)

RowsStay ==
    \A u, t : Membership!HasMembership(u, t) /\ u \in exists' /\ t \notin gone' => Membership!HasMembership(u, t)'
SeatsStay ==
    \A u, t : Membership!HasSeat(u, t) /\ u \in exists' /\ t \notin gone' => Membership!HasSeat(u, t)'
PeopleStay == \A u : Registered(u) => Registered(u)' /\ (u \in exists' => u \in exists)
BegunStays == \A t : Begun(t) => Begun(t)' /\ (HasBeen(t) => HasBeen(t)')
LinksStay ==
    \A l \in Links : link[l].state # "unused" =>
        /\ link'[l].state # "unused"
        /\ link'[l].seed = link[l].seed /\ link'[l].tenant = link[l].tenant

Stays == gone \subseteq gone' /\ RowsStay /\ SeatsStay /\ PeopleStay /\ BegunStays /\ LinksStay

LEMMA SeatsAreKept ==
    ASSUME Membership!SeatsStayHers
    PROVE  SeatsStay
<1> SUFFICES ASSUME NEW u, NEW t, Membership!HasSeat(u, t), u \in exists', t \notin gone'
             PROVE  Membership!HasSeat(u, t)'
    BY DEF SeatsStay
<1>1. PICK s \in Seeds : seed[s] = [tenant |-> t, user |-> u]
    BY DEF Membership!HasSeat
<1>2. seed[s].user = u /\ seed[s].tenant = t
    BY <1>1
<1>3. seed'[s] = [tenant |-> t, user |-> u]
    BY <1>1, <1>2 DEF Membership!SeatsStayHers
<1> QED
    BY <1>3 DEF Membership!HasSeat

\* Rows go only with their programme or their user.
LEMMA RowsGo ==
    ASSUME RowsRight, BegunStays, memberships' \subseteq memberships,
           \A m \in memberships' : m.tenant \in tenants' /\ m.user \in exists',
           \A m \in memberships \ memberships' : m.tenant \in gone' \/ m.user \notin exists'
    PROVE  RowsRight' /\ RowsStay
<1>1. RowsStay
    BY DEF RowsStay, Membership!HasMembership
<1>2. memberships' \subseteq [tenant : tenants', user : exists', role : {"owner", "admin"}, age : Nat]
    BY DEF RowsRight
<1>3. \A m \in memberships' : Begun(m.tenant)'
    BY DEF RowsRight, BegunStays
<1> QED
    BY <1>1, <1>2, <1>3 DEF RowsRight

\* A row comes, and there is one of it.
LEMMA RowComes ==
    ASSUME RowsRight, BegunStays, UNCHANGED <<tenants, exists>>,
           NEW u \in exists, NEW t \in tenants, NEW kind \in {"owner", "admin"},
           Membership!AddMembership(u, t, kind), Begun(t)'
    PROVE  RowsRight' /\ RowsStay /\ Membership!HasMembership(u, t)'
<1>1. CASE Membership!HasMembership(u, t)
    <2>1. memberships' = memberships
        BY <1>1 DEF Membership!AddMembership
    <2>2. Membership!HasMembership(u, t)'
        BY <1>1, <2>1 DEF Membership!HasMembership
    <2>3. \A m \in memberships' : m.tenant \in tenants' /\ m.user \in exists'
        BY <2>1 DEF RowsRight
    <2> QED
        BY <2>1, <2>2, <2>3, RowsGo
<1>2. CASE ~Membership!HasMembership(u, t)
    <2> DEFINE older(m) == [m EXCEPT !.age = @ + 1]
               new == Membership!Membership(t, u, kind)
    <2>1. memberships' = {older(m) : m \in memberships} \union {new}
        BY <1>2 DEF Membership!AddMembership
    <2>2. ASSUME NEW m \in memberships
          PROVE  /\ older(m) \in [tenant : tenants, user : exists, role : {"owner", "admin"}, age : Nat]
                 /\ older(m).tenant = m.tenant /\ older(m).user = m.user
        BY DEF RowsRight
    <2>3. /\ new \in [tenant : tenants, user : exists, role : {"owner", "admin"}, age : Nat]
          /\ new.tenant = t /\ new.user = u
        BY DEF Membership!Membership
    <2>4. \A m \in memberships : m.tenant # t \/ m.user # u
        BY <1>2 DEF Membership!HasMembership
    <2> HIDE DEF older, new
    <2>5. memberships' \subseteq [tenant : tenants', user : exists', role : {"owner", "admin"}, age : Nat]
        BY <2>1, <2>2, <2>3
    <2>6. \A m, k \in memberships' : m.tenant = k.tenant /\ m.user = k.user => m = k
        <3> SUFFICES ASSUME NEW m \in memberships', NEW k \in memberships', m.tenant = k.tenant,
                            m.user = k.user
                     PROVE  m = k
            OBVIOUS
        <3>1. CASE m = new
            BY <2>1, <2>2, <2>3, <2>4, <3>1
        <3>2. CASE k = new
            BY <2>1, <2>2, <2>3, <2>4, <3>2
        <3>3. CASE m # new /\ k # new
            <4>1. PICK a \in memberships : m = older(a)
                BY <2>1, <3>3
            <4>2. PICK b \in memberships : k = older(b)
                BY <2>1, <3>3
            <4>3. a = b
                BY <2>2, <4>1, <4>2 DEF RowsRight
            <4> QED
                BY <4>1, <4>2, <4>3
        <3> QED
            BY <3>1, <3>2, <3>3
    <2>7. \A m \in memberships' : Begun(m.tenant)'
        BY <2>1, <2>2, <2>3 DEF RowsRight, BegunStays
    <2>8. RowsStay
        BY <2>1, <2>2 DEF RowsStay, Membership!HasMembership
    <2>9. Membership!HasMembership(u, t)'
        BY <2>1, <2>3 DEF Membership!HasMembership
    <2> QED
        BY <2>5, <2>6, <2>7, <2>8, <2>9 DEF RowsRight
<1> QED
    BY <1>1, <1>2

-----------------------------------------------------------------------------
(* What requests know *)

LEMMA SignKept ==
    ASSUME Stays, NEW x, SignRight(x)
    PROVE  SignRight(x)'
BY DEF Stays, RowsStay, PeopleStay, BegunStays, SignRight

LEMMA VisitKept ==
    ASSUME Stays, NEW x, VisitRight(x)
    PROVE  VisitRight(x)'
BY DEF Stays, RowsStay, SeatsStay, PeopleStay, BegunStays, LinksStay, VisitRight, Membership!Backed

LEMMA LinksKept ==
    ASSUME Stays, LinksRight,
           \A l \in Links : link'[l] = link[l] \/ (link[l].state # "unused" /\ link'[l].state # "unused")
    PROVE  LinksRight'
BY DEF Stays, BegunStays, LinksStay, LinksRight

LEMMA BackedKept ==
    ASSUME Stays, NEW u, NEW t, Membership!Backed(u, t), u \in exists', t \notin gone'
    PROVE  Membership!Backed(u, t)'
<1>1. Membership!HasMembership(u, t)' \/ Membership!HasSeat(u, t)'
    BY DEF Stays, RowsStay, SeatsStay, Membership!Backed
<1> QED
    BY <1>1 DEF Membership!Backed

\* Nobody is pointed anew.
LEMMA ActiveKept ==
    ASSUME Stays, ActiveRight,
           \A u \in Users : \/ active'[u] = active[u] /\ (u \notin exists' => u \notin exists)
                            \/ active'[u] = None
    PROVE  ActiveRight'
<1>1. ASSUME NEW u \in Users, NEW t, t = active'[u], t # None
      PROVE  u \in exists' /\ (Membership!Backed(u, t)' \/ t \in gone')
    <2>1. active[u] = t /\ u \in exists /\ u \in exists'
        BY <1>1 DEF ActiveRight
    <2>2. Membership!Backed(u, t) \/ t \in gone
        BY <1>1, <2>1 DEF ActiveRight
    <2>3. CASE t \in gone
        BY <2>1, <2>3 DEF Stays
    <2>4. CASE t \notin gone'
        BY <2>1, <2>2, <2>4, BackedKept DEF Stays
    <2> QED
        BY <2>1, <2>3, <2>4
<1> QED
    BY <1>1 DEF ActiveRight

LEMMA PointedKept ==
    ASSUME Membership!ProgrammesConstants, RightInv, PeopleStay, gone \subseteq gone',
           \A v \in Visits : visit[v].pc = "in" \/ visit'[v].pc = "in" => visit'[v] = visit[v],
           \A u \in exists' : active[u] # None => active'[u] = active[u]
    PROVE  PointedRight'
<1> SUFFICES ASSUME NEW v \in Visits, visit'[v].pc = "in", visit'[v].user \in exists',
                    visit'[v].tenant \notin gone'
             PROVE  \E w \in Visits : /\ visit'[w].pc = "in" /\ visit'[w].user = visit'[v].user
                                      /\ active'[visit'[v].user] = visit'[w].tenant
    BY DEF PointedRight, Pointed
<1> DEFINE u == visit[v].user
<1>1. visit'[v] = visit[v] /\ u \in exists' /\ visit[v].tenant \notin gone /\ visit[v].pc = "in"
    OBVIOUS
<1>2. u \in exists
    BY <1>1 DEF RightInv, VisitRight, PeopleStay
<1>3. PICK w \in Visits : visit[w].pc = "in" /\ visit[w].user = u /\ active[u] = visit[w].tenant
    BY <1>1, <1>2 DEF RightInv, PointedRight, Pointed
<1>4. active[u] # None
    BY <1>3 DEF RightInv, VisitRight, Begun, Membership!ProgrammesConstants
<1> QED
    BY <1>1, <1>3, <1>4

-----------------------------------------------------------------------------
(* A sign-in takes a step *)

LEMMA SignsFrame ==
    ASSUME RightTyped, NEW r \in SignIns, NEW y, sign' = [sign EXCEPT ![r] = y],
           sign[r].pc \in Late => y.pc \in Late, gone \subseteq gone',
           \A t \in tenants \ tenants' : t \in gone' \/ (t = r /\ sign[r].pc \notin Late)
    PROVE  BegunStays
<1>1. sign'[r] = y /\ \A q \in SignIns \ {r} : sign'[q] = sign[q]
    BY DEF RightTyped
<1>2. ASSUME NEW t, Begun(t)
      PROVE  Begun(t)' /\ (HasBeen(t) => HasBeen(t)')
    BY <1>1, <1>2 DEF Begun, HasBeen
<1> QED
    BY <1>2 DEF BegunStays

\* Nobody goes, and nobody comes who was deleted.
LEMMA PeopleFrame ==
    ASSUME exists \subseteq exists', erase' = erase,
           \A u \in exists' \ exists : erase[u].pc # "erased"
    PROVE  PeopleStay
BY DEF PeopleStay, Registered

LEMMA LinksFrame ==
    ASSUME UNCHANGED link
    PROVE  LinksStay
BY DEF LinksStay

LEMMA RowsFrame ==
    ASSUME RowsRight, BegunStays, UNCHANGED <<memberships, exists>>,
           tenants \subseteq tenants' \/ \E r \in SignIns : tenants \ {r} \subseteq tenants' /\ sign[r].pc \notin Late
    PROVE  RowsRight' /\ RowsStay
<1>1. \A m \in memberships : m.tenant \in tenants'
    BY DEF RowsRight, Begun
<1> QED
    BY <1>1, RowsGo DEF RowsRight

\* What is the same for all of them.
LEMMA SignCarries ==
    ASSUME Membership!ProgrammesConstants, RightInv, NEW r \in SignIns, NEW y \in SignRecord,
           sign' = [sign EXCEPT ![r] = y], UNCHANGED <<visit, erase>>,
           y.pc \in {"mint", "owner"} => y.goal = r,
           y.pc = "owner" => r \in tenants', tenants \ {r} \subseteq tenants',
           tenants' \subseteq SignIns, gone' \subseteq SignIns,
           active' \in [Users -> SignIns \union {None}],
           cookie' \in [Users -> SignIns \union {None, "out"}],
           link' \in [Links -> LinkRecord], failures' \in 0..MaxFailures,
           \A l \in Links : link'[l] = link[l] \/ (link[l].state # "unused" /\ link'[l].state # "unused"),
           Stays, SeatInv', RowsRight', ActiveRight', PointedRight', SignRight(y)'
    PROVE  RightInv'
<1>1. sign' \in [SignIns -> SignRecord] /\ sign'[r] = y /\ \A q \in SignIns \ {r} : sign'[q] = sign[q]
    BY DEF RightInv, RightTyped
<1>2. RightTyped'
    BY <1>1 DEF RightInv, RightTyped
<1>3. LinksRight'
    BY LinksKept DEF RightInv
<1>4. ASSUME NEW q \in SignIns, NEW x, x = sign'[q]
      PROVE  SignRight(x)'
    <2>1. CASE q = r
        BY <1>1, <1>4, <2>1
    <2>2. CASE q # r
        <3>1. SignRight(x)
            BY <1>1, <1>4, <2>2 DEF RightInv
        <3> QED
            BY <3>1, SignKept
    <2> QED
        BY <2>1, <2>2
<1>5. ASSUME NEW v \in Visits, NEW x, x = visit'[v]
      PROVE  VisitRight(x)'
    <2>1. VisitRight(x)
        BY <1>5 DEF RightInv
    <2> QED
        BY <2>1, VisitKept
<1>6. \A q \in SignIns : SignRight(sign[q])'
    BY <1>4 DEF SignRight
<1>7. \A v \in Visits : VisitRight(visit[v])'
    BY <1>5 DEF VisitRight
<1> QED
    BY <1>2, <1>3, <1>6, <1>7 DEF RightInv

\* Only the request changes, and perhaps the programme it is making.
SignOnly(r) ==
    /\ UNCHANGED <<memberships, exists, active, gone, link, visit, erase>>
    /\ tenants' \subseteq SignIns
    /\ \A t \in tenants \ tenants' : t = r /\ sign[r].pc \notin Late
    /\ cookie' \in [Users -> SignIns \union {None, "out"}]
    /\ failures' \in 0..MaxFailures

LEMMA SignOnlyCarries ==
    ASSUME Membership!ProgrammesConstants, RightInv, NEW r \in SignIns, NEW y \in SignRecord,
           sign' = [sign EXCEPT ![r] = y], SignOnly(r), sign[r].pc \in Late => y.pc \in Late,
           y.pc \in {"mint", "owner"} => y.goal = r, y.pc = "owner" => r \in tenants',
           SeatInv', Membership!SeatsStayHers, SignRight(y)
    PROVE  RightInv'
<1>1. BegunStays /\ LinksStay
    BY SignsFrame, LinksFrame DEF RightInv, SignOnly
<1>2. RowsRight' /\ RowsStay
    BY <1>1, RowsFrame DEF RightInv, SignOnly, RightTyped
<1>3. PeopleStay
    BY PeopleFrame DEF SignOnly
<1>4. Stays
    BY <1>1, <1>2, <1>3, SeatsAreKept DEF Stays, SignOnly
<1>5. ActiveRight'
    BY <1>4, ActiveKept DEF RightInv, SignOnly
<1>6. PointedRight'
    BY <1>3, PointedKept DEF SignOnly
<1>7. SignRight(y)'
    BY <1>4, SignKept
<1>8. /\ active' \in [Users -> SignIns \union {None}] /\ gone' \subseteq SignIns
      /\ link' \in [Links -> LinkRecord]
    BY DEF RightInv, RightTyped, SignOnly
<1> QED
    BY <1>2, <1>4, <1>5, <1>6, <1>7, <1>8, SignCarries DEF SignOnly

\* The record of a request that goes on.
LEMMA SignGone ==
    ASSUME RightTyped, NEW r \in SignIns, NEW x, Membership!Go(r, x),
           x \in {"idle", "find", "create", "read", "own", "founders", "join", "mint", "owner",
                  "attach", "settle", "undoRow", "undoTenant", "done", "refused"}
    PROVE  \E y \in SignRecord : /\ sign' = [sign EXCEPT ![r] = y]
                                 /\ y.pc = x /\ y.user = sign[r].user /\ y.goal = sign[r].goal
<1> DEFINE y == [sign[r] EXCEPT !.pc = x]
<1>1. sign[r] \in SignRecord
    BY DEF RightTyped
<1>2. y \in SignRecord /\ y.pc = x /\ y.user = sign[r].user /\ y.goal = sign[r].goal
    BY <1>1 DEF SignRecord
<1>3. sign' = [sign EXCEPT ![r] = y]
    BY DEF Membership!Go, RightTyped
<1> QED
    BY <1>2, <1>3

LEMMA SignAimed ==
    ASSUME RightTyped, NEW r \in SignIns, NEW x, NEW t \in SignIns \union {None},
           Membership!Aim(r, x, t),
           x \in {"idle", "find", "create", "read", "own", "founders", "join", "mint", "owner",
                  "attach", "settle", "undoRow", "undoTenant", "done", "refused"}
    PROVE  \E y \in SignRecord : /\ sign' = [sign EXCEPT ![r] = y]
                                 /\ y.pc = x /\ y.user = sign[r].user /\ y.goal = t
<1> DEFINE y == [sign[r] EXCEPT !.pc = x, !.goal = t]
<1>1. sign[r] \in SignRecord
    BY DEF RightTyped
<1>2. y \in SignRecord /\ y.pc = x /\ y.user = sign[r].user /\ y.goal = t
    BY <1>1 DEF SignRecord
<1>3. sign' = [sign EXCEPT ![r] = y]
    BY DEF Membership!Aim, RightTyped
<1> QED
    BY <1>2, <1>3

\* A request that knows its user goes on, with no programme in hand.
LEMMA SignGoesOn ==
    ASSUME Membership!ProgrammesConstants, RightInv, NEW r \in SignIns, NEW x, Membership!Go(r, x),
           SignOnly(r),
           x \in {"find", "create", "read", "own", "founders", "owner", "settle", "done", "refused"},
           sign[r].pc \in Late => x \in Late,
           x = "owner" => sign[r].goal = r /\ r \in tenants',
           Registered(sign[r].user) \/ x \in {"find", "create", "refused"},
           SeatInv', Membership!SeatsStayHers
    PROVE  RightInv'
<1>1. PICK y \in SignRecord : /\ sign' = [sign EXCEPT ![r] = y]
                              /\ y.pc = x /\ y.user = sign[r].user /\ y.goal = sign[r].goal
    BY SignGone DEF RightInv
<1>2. SignRight(y)
    BY <1>1 DEF SignRight
<1> QED
    BY <1>1, <1>2, SignOnlyCarries

LEMMA SignAims ==
    ASSUME Membership!ProgrammesConstants, RightInv, NEW r \in SignIns, NEW x,
           NEW t \in SignIns \union {None},
           Membership!Aim(r, x, t), SignOnly(r),
           x \in {"attach", "join", "mint", "undoRow"}, Registered(sign[r].user),
           sign[r].pc \in Late => x \in Late,
           x = "mint" => t = r,
           x = "join" => Begun(t),
           x = "attach" => t \in SignIns /\ Membership!HasMembership(sign[r].user, t),
           SeatInv', Membership!SeatsStayHers
    PROVE  RightInv'
<1>1. PICK y \in SignRecord : /\ sign' = [sign EXCEPT ![r] = y]
                              /\ y.pc = x /\ y.user = sign[r].user /\ y.goal = t
    BY SignAimed DEF RightInv
<1>2. SignRight(y)
    BY <1>1 DEF SignRight
<1> QED
    BY <1>1, <1>2, SignOnlyCarries

-----------------------------------------------------------------------------
(* Signing in *)

LEMMA SignInRight ==
    ASSUME Membership!ProgrammesConstants, RightInv, NEW r \in SignIns, NEW u \in Users,
           Membership!SignIn(r, u)
    PROVE  RightInv'
<1> DEFINE y == [pc |-> "find", user |-> u, goal |-> None]
<1>1. y \in SignRecord /\ y.pc = "find"
    BY DEF SignRecord
<1>2. sign' = [sign EXCEPT ![r] = y] /\ sign[r].pc = "idle"
    BY DEF Membership!SignIn
<1>3. SignOnly(r)
    BY DEF Membership!SignIn, SignOnly, Membership!people, Membership!others, RightInv, RightTyped
<1>4. SeatInv' /\ Membership!SeatsStayHers
    BY SignInBegins DEF RightInv
<1> HIDE DEF y
<1>5. SignRight(y)
    BY <1>1 DEF SignRight
<1> QED
    BY <1>1, <1>2, <1>3, <1>4, <1>5, SignOnlyCarries DEF Late

\* The statements that change nothing but the request and the cookie.
LEMMA ReadsRight ==
    ASSUME Membership!ProgrammesConstants, RightInv, NEW r \in SignIns,
           Membership!FindUser(r) \/ Membership!ReadActive(r) \/ Membership!OwnMembership(r) \/ Membership!Founders(r) \/ Membership!Settle(r)
    PROVE  RightInv'
<1>1. UNCHANGED <<Membership!people, link, visit, erase, failures>> /\ sign[r].pc \notin {"idle", "refused"}
    BY DEF Membership!FindUser, Membership!ReadActive, Membership!OwnMembership,
           Membership!Founders, Membership!Settle, Membership!others
<1>2. SeatInv' /\ Membership!SeatsStayHers
    BY SignStepKeeps DEF RightInv
<1>3. /\ sign[r].user \in Users /\ (sign[r].pc \notin {"find", "create"} => Registered(sign[r].user))
      /\ active \in [Users -> SignIns \union {None}]
    BY <1>1 DEF RightInv, SignRight, RightTyped, SeatInv, SignsKnown
<1>4. cookie' \in [Users -> SignIns \union {None, "out"}]
    <2>1. CASE cookie' = cookie
        BY <2>1 DEF RightInv, RightTyped
    <2>2. CASE \E t \in SignIns \union {None} : cookie' = [cookie EXCEPT ![sign[r].user] = t]
        BY <2>2 DEF RightInv, RightTyped
    <2> QED
        BY <1>3, <2>1, <2>2 DEF Membership!FindUser, Membership!ReadActive,
                                Membership!OwnMembership, Membership!Founders, Membership!Settle, Membership!SignedIn
<1>5. SignOnly(r)
    BY <1>1, <1>4 DEF SignOnly, Membership!people, RightInv, RightTyped
<1>6. CASE Membership!FindUser(r)
    <2>1. sign[r].pc = "find" /\ (Membership!Go(r, "create") \/ (Membership!Go(r, "read") /\ sign[r].user \in exists))
        BY <1>6 DEF Membership!FindUser
    <2>2. sign[r].user \in exists => Registered(sign[r].user)
        BY <1>3 DEF Registered
    <2> QED
        BY <1>2, <1>5, <2>1, <2>2, SignGoesOn DEF Late
<1>7. CASE Membership!ReadActive(r)
    <2>1. sign[r].pc = "read" /\ (Membership!Go(r, "own") \/ Membership!Go(r, "done"))
        BY <1>7 DEF Membership!ReadActive, Membership!SignedIn
    <2> QED
        BY <1>2, <1>3, <1>5, <2>1, SignGoesOn DEF Late
<1>8. CASE Membership!OwnMembership(r)
    <2>1. CASE sign[r].pc = "own" /\ Membership!Go(r, "founders")
        BY <1>2, <1>3, <1>5, <2>1, SignGoesOn DEF Late
    <2>2. CASE sign[r].pc = "own" /\ \E m \in memberships : m.user = sign[r].user /\ Membership!Aim(r, "attach", m.tenant)
        <3>1. PICK m \in memberships : m.user = sign[r].user /\ Membership!Aim(r, "attach", m.tenant)
            BY <2>2
        <3>2. m.tenant \in SignIns /\ Membership!HasMembership(sign[r].user, m.tenant)
            BY <3>1 DEF RightInv, RowsRight, Begun, Membership!HasMembership
        <3>3. Registered(sign[r].user) /\ sign[r].pc = "own"
            BY <1>3, <2>2
        <3> QED
            BY <1>2, <1>5, <3>1, <3>2, <3>3, SignAims DEF Late
    <2> QED
        BY <1>8, <2>1, <2>2 DEF Membership!OwnMembership, Membership!Eldest
<1>9. CASE Membership!Founders(r)
    <2>0. sign[r].pc = "founders" /\ Registered(sign[r].user)
        BY <1>3, <1>9 DEF Membership!Founders
    <2>1. CASE Membership!Go(r, "done")
        BY <1>2, <1>5, <2>0, <2>1, SignGoesOn DEF Late
    <2>2. CASE Membership!Aim(r, "mint", r)
        BY <1>2, <1>5, <2>0, <2>2, SignAims DEF Late
    <2>3. CASE \E m \in memberships : Membership!Aim(r, "join", m.tenant)
        <3>1. PICK m \in memberships : Membership!Aim(r, "join", m.tenant)
            BY <2>3
        <3>2. m.tenant \in SignIns /\ Begun(m.tenant)
            BY <3>1 DEF RightInv, RowsRight, Begun
        <3> QED
            BY <1>2, <1>5, <2>0, <3>1, <3>2, SignAims DEF Late
    <2> QED
        BY <1>9, <2>1, <2>2, <2>3 DEF Membership!Founders, Membership!SignedIn, Membership!Eldest
<1>10. CASE Membership!Settle(r)
    <2>0. sign[r].pc = "settle" /\ Registered(sign[r].user) /\ active[sign[r].user] \in SignIns \union {None}
        BY <1>3, <1>10 DEF Membership!Settle
    <2>1. CASE Membership!Go(r, "done") \/ Membership!Go(r, "refused")
        BY <1>2, <1>5, <2>0, <2>1, SignGoesOn DEF Late
    <2>2. CASE Membership!Aim(r, "undoRow", active[sign[r].user])
        <3>1. PICK t \in SignIns \union {None} : Membership!Aim(r, "undoRow", t)
            BY <2>0, <2>2
        <3> QED
            BY <1>2, <1>5, <2>0, <3>1, SignAims DEF Late
    <2> QED
        BY <1>10, <2>1, <2>2 DEF Membership!Settle, Membership!SignedIn
<1> QED
    BY <1>6, <1>7, <1>8, <1>9, <1>10

LEMMA FailuresCounted ==
    ASSUME RightInv, Membership!ProgrammesConstants, Membership!Fail
    PROVE  failures' \in 0..MaxFailures
BY DEF RightInv, RightTyped, Membership!Fail, Membership!ProgrammesConstants

\* A programme comes, or one that has no owner yet goes.
LEMMA MintsRight ==
    ASSUME Membership!ProgrammesConstants, RightInv, NEW r \in SignIns,
           Membership!Mint(r) \/ Membership!SignInFails(r)
    PROVE  RightInv'
<1>1. SeatInv' /\ Membership!SeatsStayHers
    BY SignStepKeeps DEF RightInv
<1>2. CASE Membership!Mint(r)
    <2>1. SignOnly(r) /\ sign[r].pc = "mint" /\ Membership!Go(r, "owner") /\ r \in tenants'
        BY <1>2 DEF Membership!Mint, SignOnly, Membership!others, RightInv, RightTyped
    <2>2. Registered(sign[r].user) /\ sign[r].goal = r
        BY <2>1 DEF RightInv, SignRight, RightTyped
    <2> QED
        BY <1>1, <2>1, <2>2, SignGoesOn DEF Late
<1>3. CASE Membership!SignInFails(r)
    <2>1. failures' \in 0..MaxFailures
        BY <1>3, FailuresCounted DEF Membership!SignInFails
    <2>2. SignOnly(r) /\ Membership!Go(r, "refused")
        BY <1>3, <2>1 DEF Membership!SignInFails, SignOnly, Late, RightInv, RightTyped
    <2> QED
        BY <1>1, <2>2, SignGoesOn DEF Late
<1> QED
    BY <1>2, <1>3

LEMMA CreateUserRight ==
    ASSUME Membership!ProgrammesConstants, RightInv, NEW r \in SignIns, Membership!CreateUser(r)
    PROVE  RightInv'
<1>1. SeatInv' /\ Membership!SeatsStayHers
    BY SignStepKeeps DEF RightInv
<1>2. PICK u \in Users : u = sign[r].user
    BY DEF Membership!CreateUser, RightInv, SeatInv, SignsKnown
<1>3. /\ sign[r].pc = "create" /\ (Membership!Go(r, "refused") \/ (Membership!Go(r, "read") /\ erase[u].pc # "erased"))
      /\ exists' = IF erase[u].pc = "erased" THEN exists ELSE exists \union {u}
      /\ UNCHANGED <<tenants, memberships, active, gone, cookie, link, seed, visit, erase, failures>>
    BY <1>2 DEF Membership!CreateUser, Membership!others
<1>4. PICK y \in SignRecord : /\ sign' = [sign EXCEPT ![r] = y] /\ y.user = u
                              /\ y.pc = "refused" \/ (y.pc = "read" /\ erase[u].pc # "erased")
    BY <1>2, <1>3, SignGone DEF RightInv
<1>5. BegunStays /\ LinksStay
    BY <1>3, <1>4, SignsFrame, LinksFrame DEF RightInv, Late
<1>6. RowsRight' /\ RowsStay
    BY <1>3, <1>5, RowsGo DEF RightInv, RowsRight
<1>7. PeopleStay
    BY <1>3, PeopleFrame
<1>8. Stays
    BY <1>1, <1>3, <1>5, <1>6, <1>7, SeatsAreKept DEF Stays
<1>9. ActiveRight'
    BY <1>3, <1>8, ActiveKept DEF RightInv
<1>10. PointedRight'
    BY <1>3, <1>7, PointedKept
<1>11. SignRight(y)'
    BY <1>3, <1>4 DEF SignRight, Registered
<1>12. /\ tenants' \subseteq SignIns /\ gone' \subseteq SignIns
       /\ active' \in [Users -> SignIns \union {None}] /\ cookie' \in [Users -> SignIns \union {None, "out"}]
       /\ link' \in [Links -> LinkRecord] /\ failures' \in 0..MaxFailures
    BY <1>3 DEF RightInv, RightTyped
<1> QED
    BY <1>1, <1>3, <1>4, <1>6, <1>8, <1>9, <1>10, <1>11, <1>12, SignCarries

\* The row of a co-owner, or of the first owner, comes; without it the request ends.
LEMMA RowsComeRight ==
    ASSUME Membership!ProgrammesConstants, RightInv, NEW r \in SignIns,
           Membership!Join(r) \/ Membership!FirstOwner(r)
    PROVE  RightInv'
<1>1. SeatInv' /\ Membership!SeatsStayHers
    BY SignStepKeeps DEF RightInv
<1>2. PICK u, t : u = sign[r].user /\ t = sign[r].goal
    OBVIOUS
<1>3. /\ UNCHANGED <<exists, active, gone, cookie, link, seed, visit, erase, failures>>
      /\ sign[r].pc \in {"join", "owner"} /\ Registered(u)
      /\ sign[r].pc = "owner" => t = r
    BY <1>2 DEF Membership!Join, Membership!FirstOwner, Membership!others, RightInv, RightTyped,
                SignRight
<1>4. CASE Membership!Go(r, "refused") /\ memberships' = memberships /\ (tenants' = tenants \/ (tenants' = tenants \ {r} /\ sign[r].pc = "owner"))
    <2>1. SignOnly(r)
        BY <1>3, <1>4 DEF SignOnly, Late, RightInv, RightTyped
    <2> QED
        BY <1>1, <1>3, <1>4, <2>1, SignGoesOn DEF Late
<1>5. CASE /\ Membership!Go(r, "attach") /\ u \in exists /\ t \in SignIns /\ Membership!AddMembership(u, t, "owner")
           /\ tenants' = tenants /\ (t = r \/ Begun(t)) /\ t \in tenants
    <2>1. PICK y \in SignRecord : /\ sign' = [sign EXCEPT ![r] = y]
                                  /\ y.user = u /\ y.goal = t /\ y.pc = "attach"
        BY <1>2, <1>5, SignGone DEF RightInv
    <2>2. BegunStays /\ LinksStay
        BY <1>3, <1>5, <2>1, SignsFrame, LinksFrame DEF RightInv, Late
    <2>3. Begun(t)'
        <3>1. CASE t = r
            BY <2>1, <3>1 DEF Begun, Late, RightInv, RightTyped
        <3>2. CASE Begun(t)
            BY <2>2, <3>2 DEF BegunStays
        <3> QED
            BY <1>5, <3>1, <3>2
    <2>4. RowsRight' /\ RowsStay /\ Membership!HasMembership(u, t)'
        BY <1>3, <1>5, <2>2, <2>3, RowComes DEF RightInv
    <2>5. PeopleStay
        BY <1>3, PeopleFrame
    <2>6. Stays
        BY <1>1, <1>3, <2>2, <2>4, <2>5, SeatsAreKept DEF Stays
    <2>7. ActiveRight'
        BY <1>3, <2>6, ActiveKept DEF RightInv
    <2>8. PointedRight'
        BY <1>3, <2>5, PointedKept
    <2>9. Registered(u)'
        BY <1>3, <2>5 DEF PeopleStay
    <2>10. SignRight(y)'
        BY <1>5, <2>1, <2>4, <2>9 DEF SignRight
    <2>11. /\ tenants' \subseteq SignIns /\ gone' \subseteq SignIns
           /\ active' \in [Users -> SignIns \union {None}] /\ cookie' \in [Users -> SignIns \union {None, "out"}]
           /\ link' \in [Links -> LinkRecord] /\ failures' \in 0..MaxFailures
        BY <1>3, <1>5 DEF RightInv, RightTyped
    <2> QED
        BY <1>1, <1>3, <1>5, <2>1, <2>4, <2>6, <2>7, <2>8, <2>10, <2>11, SignCarries
<1>6. CASE Membership!Join(r)
    <2>1. sign[r].pc = "join" /\ Begun(t) /\ t \in SignIns /\ tenants' = tenants
        BY <1>2, <1>6 DEF Membership!Join, RightInv, SignRight, Begun
    <2> QED
        BY <1>2, <1>4, <1>5, <1>6, <2>1 DEF Membership!Join
<1>7. CASE Membership!FirstOwner(r)
    <2>1. sign[r].pc = "owner" /\ t = r /\ r \in tenants
        BY <1>3, <1>7 DEF Membership!FirstOwner, RightInv, RightTyped
    <2> QED
        BY <1>2, <1>4, <1>5, <1>7, <2>1 DEF Membership!FirstOwner
<1> QED
    BY <1>6, <1>7

\* Whoever is attached has the membership.
LEMMA AttachRight ==
    ASSUME Membership!ProgrammesConstants, RightInv, NEW r \in SignIns, Membership!Attach(r)
    PROVE  RightInv'
<1>1. SeatInv' /\ Membership!SeatsStayHers
    BY SignStepKeeps DEF RightInv
<1>2. PICK u, t : u = sign[r].user /\ t = sign[r].goal
    OBVIOUS
<1>3. /\ UNCHANGED <<tenants, memberships, exists, gone, link, seed, visit, erase, failures>>
      /\ sign[r].pc = "attach" /\ Registered(u) /\ u \in Users /\ t \in SignIns
      /\ u \in exists => Membership!HasMembership(u, t) \/ t \in gone
    BY <1>2 DEF Membership!Attach, Membership!others, RightInv, SignRight, Registered
<1>4. CASE Membership!Go(r, "settle") /\ UNCHANGED <<active, cookie>>
    <2>1. SignOnly(r)
        BY <1>3, <1>4 DEF SignOnly, RightInv, RightTyped
    <2> QED
        BY <1>1, <1>2, <1>3, <1>4, <2>1, SignGoesOn DEF Late
<1>5. CASE /\ u \in exists /\ active[u] = None /\ active' = [active EXCEPT ![u] = t]
           /\ Membership!Go(r, "done") /\ cookie' = [cookie EXCEPT ![u] = t]
    <2>1. PICK y \in SignRecord : sign' = [sign EXCEPT ![r] = y] /\ y.user = u /\ y.pc = "done"
        BY <1>2, <1>5, SignGone DEF RightInv
    <2>2. BegunStays /\ LinksStay
        BY <1>3, <2>1, SignsFrame, LinksFrame DEF RightInv, Late
    <2>3. RowsRight' /\ RowsStay
        BY <1>3, <2>2, RowsFrame DEF RightInv
    <2>4. PeopleStay
        BY <1>3, PeopleFrame
    <2>5. Stays
        BY <1>1, <1>3, <2>2, <2>3, <2>4, SeatsAreKept DEF Stays
    <2>6. ActiveRight'
        <3>0. active \in [Users -> SignIns \union {None}]
            BY DEF RightInv, RightTyped
        <3>1. ASSUME NEW q \in Users, NEW g, g = active'[q], g # None
              PROVE  q \in exists' /\ (Membership!Backed(q, g)' \/ g \in gone')
            <4>1. CASE q = u
                <5>1. g = t
                    BY <1>5, <3>0, <3>1, <4>1
                <5> QED
                    BY <1>3, <1>5, <4>1, <5>1 DEF Membership!Backed, Membership!HasMembership
            <4>2. CASE q # u
                <5>1. g = active[q] /\ q \in exists
                    BY <1>5, <3>0, <3>1, <4>2 DEF RightInv, ActiveRight
                <5>2. Membership!Backed(q, g) \/ g \in gone
                    BY <3>1, <5>1 DEF RightInv, ActiveRight
                <5> QED
                    BY <1>3, <2>5, <5>1, <5>2, BackedKept
            <4> QED
                BY <4>1, <4>2
        <3> QED
            BY <3>1 DEF ActiveRight
    <2>7. PointedRight'
        <3>1. \A q \in exists' : active[q] # None => active'[q] = active[q]
            BY <1>3, <1>5 DEF RightInv, RightTyped, SeatInv, SeatsTyped
        <3> QED
            BY <1>3, <2>4, <3>1, PointedKept
    <2>8. SignRight(y)'
        BY <1>3, <2>1, <2>4 DEF SignRight, PeopleStay
    <2>9. /\ tenants' \subseteq SignIns /\ gone' \subseteq SignIns /\ tenants' = tenants
          /\ active' \in [Users -> SignIns \union {None}] /\ cookie' \in [Users -> SignIns \union {None, "out"}]
          /\ link' \in [Links -> LinkRecord] /\ failures' \in 0..MaxFailures
        BY <1>3, <1>5 DEF RightInv, RightTyped
    <2> QED
        BY <1>1, <1>3, <2>1, <2>3, <2>5, <2>6, <2>7, <2>8, <2>9, SignCarries
<1> QED
    BY <1>2, <1>4, <1>5 DEF Membership!Attach, Membership!SignedIn

\* A programme is undone: its rows go with it.
LEMMA UndoRowRight ==
    ASSUME Membership!ProgrammesConstants, RightInv, NEW r \in SignIns, Membership!UndoRow(r)
    PROVE  RightInv'
<1>1. SeatInv' /\ Membership!SeatsStayHers
    BY SignStepKeeps DEF RightInv
<1>2. PICK u : u = sign[r].user
    OBVIOUS
<1>3. /\ UNCHANGED <<tenants, exists, active, cookie, link, seed, visit, erase, failures>>
      /\ sign[r].pc = "undoRow" /\ Membership!Go(r, "undoTenant") /\ Registered(u) /\ gone' = gone \union {r}
      /\ memberships' = {m \in memberships : m.tenant # r \/ m.user # u}
    BY <1>2 DEF Membership!UndoRow, Membership!others, RightInv, SignRight
<1>4. PICK y \in SignRecord : sign' = [sign EXCEPT ![r] = y] /\ y.user = u /\ y.pc = "undoTenant"
    BY <1>2, <1>3, SignGone DEF RightInv
<1>5. BegunStays /\ LinksStay
    BY <1>3, <1>4, SignsFrame, LinksFrame DEF RightInv, Late
<1>6. RowsRight' /\ RowsStay
    <2>1. /\ memberships' \subseteq memberships
          /\ \A m \in memberships' : m.tenant \in tenants' /\ m.user \in exists'
          /\ \A m \in memberships \ memberships' : m.tenant \in gone'
        BY <1>3 DEF RightInv, RowsRight
    <2> QED
        BY <1>5, <2>1, RowsGo DEF RightInv
<1>7. PeopleStay
    BY <1>3, PeopleFrame
<1>8. Stays
    BY <1>1, <1>3, <1>5, <1>6, <1>7, SeatsAreKept DEF Stays
<1>9. ActiveRight'
    BY <1>3, <1>8, ActiveKept DEF RightInv
<1>10. PointedRight'
    BY <1>3, <1>7, PointedKept
<1>11. SignRight(y)'
    BY <1>3, <1>4, <1>7 DEF SignRight, PeopleStay
<1>12. /\ tenants' \subseteq SignIns /\ gone' \subseteq SignIns
       /\ active' \in [Users -> SignIns \union {None}] /\ cookie' \in [Users -> SignIns \union {None, "out"}]
       /\ link' \in [Links -> LinkRecord] /\ failures' \in 0..MaxFailures
    BY <1>3 DEF RightInv, RightTyped
<1> QED
    BY <1>1, <1>3, <1>4, <1>6, <1>8, <1>9, <1>10, <1>11, <1>12, SignCarries

LEMMA UndoTenantRight ==
    ASSUME Membership!ProgrammesConstants, RightInv, NEW r \in SignIns, Membership!UndoTenant(r)
    PROVE  RightInv'
<1>1. SeatInv' /\ Membership!SeatsStayHers
    BY UndoTenantKeeps DEF RightInv
<1>2. PICK u, t : u = sign[r].user /\ t = sign[r].goal
    OBVIOUS
<1>3. /\ UNCHANGED <<exists, active, gone, visit, erase, failures>>
      /\ sign[r].pc = "undoTenant" /\ Registered(u) /\ u \in Users /\ r \in gone /\ t \in SignIns \union {None}
      /\ tenants' = tenants \ {r} /\ memberships' = {m \in memberships : m.tenant # r}
      /\ Membership!Go(r, "done") \/ Membership!Go(r, "refused")
      /\ cookie' = cookie \/ cookie' = [cookie EXCEPT ![u] = t]
    BY <1>2 DEF Membership!UndoTenant, Membership!DropTenant, Membership!SignedIn, RightInv,
                RightTyped, SignRight, SignRecord, Registered, SeatInv, SignsKnown
<1>4. PICK y \in SignRecord : sign' = [sign EXCEPT ![r] = y] /\ y.user = u /\ y.pc \in {"done", "refused"}
    BY <1>2, <1>3, SignGone DEF RightInv
<1>5. ASSUME NEW l \in Links
      PROVE  /\ link'[l] \in LinkRecord
             /\ link'[l].seed = link[l].seed /\ link'[l].tenant = link[l].tenant
             /\ link'[l] = link[l] \/ (link[l].state # "unused" /\ link'[l].state # "unused")
    <2>1. link[l] \in LinkRecord /\ (link[l].state = "unused" => link[l].tenant # r)
        BY DEF RightInv, RightTyped, LinksRight, Membership!ProgrammesConstants
    <2>2. link'[l] = IF link[l].tenant = r THEN [link[l] EXCEPT !.state = "dead"] ELSE link[l]
        BY DEF Membership!UndoTenant, Membership!DropTenant
    <2> QED
        BY <2>1, <2>2 DEF LinkRecord
<1>6. link' \in [Links -> LinkRecord]
    BY <1>5 DEF Membership!UndoTenant, Membership!DropTenant
<1>7. BegunStays
    BY <1>3, <1>4, SignsFrame DEF RightInv, Late
<1>8. LinksStay
    BY <1>5 DEF LinksStay
<1>9. RowsRight' /\ RowsStay
    <2>1. /\ memberships' \subseteq memberships
          /\ \A m \in memberships' : m.tenant \in tenants' /\ m.user \in exists'
          /\ \A m \in memberships \ memberships' : m.tenant \in gone'
        BY <1>3 DEF RightInv, RowsRight
    <2> QED
        BY <1>7, <2>1, RowsGo DEF RightInv
<1>10. PeopleStay
    BY <1>3, PeopleFrame
<1>11. Stays
    BY <1>1, <1>3, <1>7, <1>8, <1>9, <1>10, SeatsAreKept DEF Stays
<1>12. ActiveRight'
    BY <1>3, <1>11, ActiveKept DEF RightInv
<1>13. PointedRight'
    BY <1>3, <1>10, PointedKept
<1>14. SignRight(y)'
    BY <1>3, <1>4, <1>10 DEF SignRight, PeopleStay
<1>15. /\ tenants' \subseteq SignIns /\ gone' \subseteq SignIns
       /\ active' \in [Users -> SignIns \union {None}] /\ cookie' \in [Users -> SignIns \union {None, "out"}]
       /\ failures' \in 0..MaxFailures
    BY <1>3 DEF RightInv, RightTyped
<1> QED
    BY <1>1, <1>3, <1>4, <1>5, <1>6, <1>9, <1>11, <1>12, <1>13, <1>14, <1>15, SignCarries

-----------------------------------------------------------------------------
(* A visit takes a step *)

LEMMA VisitStays ==
    ASSUME UNCHANGED <<tenants, exists, gone, sign, erase>>, RowsStay, LinksStay,
           Membership!SeatsStayHers
    PROVE  Stays
<1>1. PeopleStay /\ BegunStays
    BY DEF PeopleStay, BegunStays, Registered, Begun, HasBeen
<1> QED
    BY <1>1, SeatsAreKept DEF Stays

LEMMA VisitCarries ==
    ASSUME Membership!ProgrammesConstants, RightInv, NEW v \in Visits, NEW y \in VisitRecord,
           visit' = [visit EXCEPT ![v] = y], UNCHANGED <<tenants, exists, gone, cookie, sign, erase>>,
           active' \in [Users -> SignIns \union {None}], link' \in [Links -> LinkRecord],
           failures' \in 0..MaxFailures,
           \A l \in Links : link'[l] = link[l] \/ (link[l].state # "unused" /\ link'[l].state # "unused"),
           Stays, SeatInv', RowsRight', ActiveRight', PointedRight', VisitRight(y)'
    PROVE  RightInv'
<1>1. visit' \in [Visits -> VisitRecord] /\ visit'[v] = y /\ \A w \in Visits \ {v} : visit'[w] = visit[w]
    BY DEF RightInv, RightTyped
<1>2. RightTyped'
    BY <1>1 DEF RightInv, RightTyped
<1>3. LinksRight'
    BY LinksKept DEF RightInv
<1>4. ASSUME NEW w \in Visits, NEW x, x = visit'[w]
      PROVE  VisitRight(x)'
    <2>1. CASE w = v
        BY <1>1, <1>4, <2>1
    <2>2. CASE w # v
        <3>1. VisitRight(x)
            BY <1>1, <1>4, <2>2 DEF RightInv
        <3> QED
            BY <3>1, VisitKept
    <2> QED
        BY <2>1, <2>2
<1>5. ASSUME NEW r \in SignIns, NEW x, x = sign'[r]
      PROVE  SignRight(x)'
    <2>1. SignRight(x)
        BY <1>5 DEF RightInv
    <2> QED
        BY <2>1, SignKept
<1>6. \A w \in Visits : VisitRight(visit[w])'
    BY <1>4 DEF VisitRight
<1>7. \A r \in SignIns : SignRight(sign[r])'
    BY <1>5 DEF SignRight
<1> QED
    BY <1>2, <1>3, <1>6, <1>7 DEF RightInv

\* Nobody is pointed by it, and no visit of hers that was in is another now.
LEMMA VisitLeavesActive ==
    ASSUME Membership!ProgrammesConstants, RightInv, NEW v \in Visits, NEW y \in VisitRecord,
           visit' = [visit EXCEPT ![v] = y], y.pc # "in", visit[v].pc # "in",
           UNCHANGED <<exists, active, gone>>, Stays
    PROVE  ActiveRight' /\ PointedRight'
<1>1. ActiveRight'
    BY ActiveKept DEF RightInv
<1>2. \A w \in Visits : visit[w].pc = "in" \/ visit'[w].pc = "in" => visit'[w] = visit[w]
    BY DEF RightInv, RightTyped
<1>3. PointedRight'
    BY <1>2, PointedKept DEF Stays
<1> QED
    BY <1>1, <1>3

\* Only the visit changes.
LEMMA VisitOnlyCarries ==
    ASSUME Membership!ProgrammesConstants, RightInv, NEW v \in Visits, NEW y \in VisitRecord,
           visit' = [visit EXCEPT ![v] = y], y.pc # "in", visit[v].pc # "in",
           UNCHANGED <<Membership!people, cookie, sign, link, erase>>, failures' \in 0..MaxFailures,
           SeatInv', Membership!SeatsStayHers, VisitRight(y)
    PROVE  RightInv'
<1>1. RowsRight' /\ RowsStay
    BY DEF Membership!people, RightInv, RowsRight, RowsStay, Begun, Membership!HasMembership
<1>2. Stays
    BY <1>1, VisitStays, LinksFrame DEF Membership!people
<1>3. VisitRight(y)'
    BY <1>2, VisitKept
<1>4. active' \in [Users -> SignIns \union {None}] /\ link' \in [Links -> LinkRecord]
    BY DEF Membership!people, RightInv, RightTyped
<1>5. ActiveRight' /\ PointedRight'
    BY <1>2, VisitLeavesActive DEF Membership!people
<1> QED
    BY <1>1, <1>2, <1>3, <1>4, <1>5, VisitCarries DEF Membership!people

VisitGoes(v, x) == visit' = [visit EXCEPT ![v].pc = x]

LEMMA VisitGone ==
    ASSUME RightTyped, NEW v \in Visits, NEW x, VisitGoes(v, x),
           x \in {"idle", "check", "insert", "mine", "bind", "point", "in", "done", "failed"}
    PROVE  \E y \in VisitRecord : /\ visit' = [visit EXCEPT ![v] = y] /\ y.pc = x
                                  /\ y.user = visit[v].user /\ y.token = visit[v].token
                                  /\ y.tenant = visit[v].tenant
<1> DEFINE y == [visit[v] EXCEPT !.pc = x]
<1>1. visit[v] \in VisitRecord
    BY DEF RightTyped
<1>2. /\ y \in VisitRecord /\ y.pc = x /\ y.user = visit[v].user
      /\ y.token = visit[v].token /\ y.tenant = visit[v].tenant
    BY <1>1 DEF VisitRecord
<1>3. visit' = [visit EXCEPT ![v] = y]
    BY DEF VisitGoes, RightTyped
<1> QED
    BY <1>2, <1>3

\* The link was there, and is spent.
LEMMA RedeemRight ==
    ASSUME Membership!ProgrammesConstants, RightInv, NEW v \in Visits, NEW u \in Users,
           NEW l \in Links,
           Membership!Redeem(v, u, l) \/ Membership!RedeemClaim(v, u, l)
    PROVE  RightInv'
<1>1. SeatInv' /\ Membership!SeatsStayHers
    BY RedeemKeeps DEF RightInv
<1>2. PICK pc, t, s :
        /\ t = link[l].tenant /\ s = link[l].seed
        /\ (pc = "check" /\ s = None) \/ (pc = "mine" /\ s # None)
        /\ visit' = [visit EXCEPT ![v] = [pc |-> pc, user |-> u, token |-> l, tenant |-> t]]
        /\ visit[v].pc = "idle" /\ u \in exists /\ link[l].state = "live"
        /\ link' = [link EXCEPT ![l].state = "spent"]
        /\ UNCHANGED <<Membership!people, cookie, sign, seed, erase, failures>>
    BY DEF Membership!Redeem, Membership!RedeemClaim, Membership!Spend
<1>3. link[l] \in LinkRecord /\ link \in [Links -> LinkRecord] /\ t \in SignIns /\ Begun(t) /\ HasBeen(t)
    BY <1>2 DEF RightInv, RightTyped, LinksRight, Begun
<1> DEFINE y == [pc |-> pc, user |-> u, token |-> l, tenant |-> t]
<1>4. y \in VisitRecord /\ y.pc = pc /\ y.user = u /\ y.token = l /\ y.tenant = t
    BY <1>2, <1>3 DEF VisitRecord
<1>5. visit' = [visit EXCEPT ![v] = y]
    BY <1>2
<1> HIDE DEF y
<1>6. /\ link' \in [Links -> LinkRecord] /\ link'[l].state = "spent"
      /\ link'[l].seed = s /\ link'[l].tenant = t
      /\ \A k \in Links \ {l} : link'[k] = link[k]
    BY <1>2, <1>3 DEF LinkRecord
<1>7. \A k \in Links : link'[k] = link[k] \/ (link[k].state # "unused" /\ link'[k].state # "unused")
    BY <1>2, <1>6
<1>8. LinksStay
    BY <1>2, <1>3, <1>6 DEF LinksStay
<1>9. RowsRight' /\ RowsStay
    BY <1>2 DEF Membership!people, RightInv, RowsRight, RowsStay, Begun, Membership!HasMembership
<1>10. Stays
    BY <1>1, <1>2, <1>8, <1>9, VisitStays DEF Membership!people
<1>11. VisitRight(y)'
    <2>1. Registered(u)' /\ Begun(t)' /\ HasBeen(t)'
        BY <1>2, <1>3 DEF Membership!people, Registered, Begun, HasBeen
    <2> QED
        BY <1>2, <1>4, <1>6, <2>1 DEF VisitRight
<1>12. ActiveRight' /\ PointedRight'
    BY <1>2, <1>4, <1>5, <1>10, VisitLeavesActive DEF Membership!people
<1>13. active' \in [Users -> SignIns \union {None}] /\ failures' \in 0..MaxFailures
    BY <1>2 DEF Membership!people, RightInv, RightTyped
<1> QED
    BY <1>1, <1>2, <1>4, <1>5, <1>6, <1>7, <1>9, <1>10, <1>11, <1>12, <1>13, VisitCarries
    DEF Membership!people

LEMMA ChecksRight ==
    ASSUME Membership!ProgrammesConstants, RightInv, NEW v \in Visits,
           Membership!CheckMember(v) \/ Membership!CheckMine(v) \/ Membership!VisitFails(v)
    PROVE  RightInv'
<1>1. SeatInv' /\ Membership!SeatsStayHers
    BY VisitStepKeeps DEF RightInv
<1>2. PICK u, t, l : u = visit[v].user /\ t = visit[v].tenant /\ l = visit[v].token
    OBVIOUS
<1>3. VisitRight(visit[v])
    BY DEF RightInv
<1>4. failures' \in 0..MaxFailures
    <2>1. CASE Membership!VisitFails(v)
        BY <2>1, FailuresCounted DEF Membership!VisitFails
    <2>2. CASE Membership!CheckMember(v) \/ Membership!CheckMine(v)
        BY <2>2 DEF Membership!CheckMember, Membership!CheckMine, RightInv, RightTyped
    <2> QED
        BY <2>1, <2>2
<1>5. /\ UNCHANGED <<Membership!people, cookie, sign, link, erase>>
      /\ visit[v].pc \in {"check", "insert", "mine", "bind", "point"}
    BY DEF Membership!CheckMember, Membership!CheckMine, Membership!VisitFails, Membership!Here
<1>6. /\ Registered(u) /\ Begun(t) /\ HasBeen(t) /\ l \in Links /\ link[l].state # "unused"
      /\ visit[v].pc = "check" => link[l].seed = None
      /\ visit[v].pc = "mine" => link[l].seed # None
    BY <1>2, <1>3, <1>5 DEF VisitRight
<1>7. ASSUME NEW x, VisitGoes(v, x),
             \/ x = "failed"
             \/ x = "insert" /\ visit[v].pc = "check"
             \/ x = "point" /\ visit[v].pc = "check" /\ Membership!HasMembership(u, t)
             \/ x \in {"done", "bind"} /\ visit[v].pc = "mine"
      PROVE  RightInv'
    <2>0. x \in {"idle", "check", "insert", "mine", "bind", "point", "in", "done", "failed"}
        BY <1>7
    <2>1. PICK y \in VisitRecord : /\ visit' = [visit EXCEPT ![v] = y] /\ y.pc = x
                                   /\ y.user = u /\ y.token = l /\ y.tenant = t
        BY <1>2, <1>7, <2>0, VisitGone DEF RightInv
    <2>2. VisitRight(y)
        BY <1>6, <1>7, <2>1 DEF VisitRight, Membership!Backed
    <2>3. y.pc # "in" /\ visit[v].pc # "in"
        BY <1>5, <1>7, <2>1
    <2> QED
        BY <1>1, <1>4, <1>5, <2>1, <2>2, <2>3, VisitOnlyCarries
<1>8. CASE Membership!CheckMember(v)
    BY <1>2, <1>7, <1>8 DEF Membership!CheckMember, Membership!Here, VisitGoes
<1>9. CASE Membership!CheckMine(v)
    BY <1>2, <1>7, <1>9 DEF Membership!CheckMine, Membership!Here, VisitGoes
<1>10. CASE Membership!VisitFails(v)
    BY <1>7, <1>10 DEF Membership!VisitFails, VisitGoes
<1> QED
    BY <1>8, <1>9, <1>10

\* The redeemer of an invite has her row, or had it.
LEMMA InsertAdminRight ==
    ASSUME Membership!ProgrammesConstants, RightInv, NEW v \in Visits, Membership!InsertAdmin(v)
    PROVE  RightInv'
<1>1. SeatInv' /\ Membership!SeatsStayHers
    BY VisitStepKeeps DEF RightInv
<1>2. PICK u, t, l : u = visit[v].user /\ t = visit[v].tenant /\ l = visit[v].token
    OBVIOUS
<1>3. VisitRight(visit[v])
    BY DEF RightInv
<1>4. /\ visit[v].pc = "insert"
      /\ UNCHANGED <<tenants, exists, active, gone, cookie, sign, link, seed, erase, failures>>
      /\ \/ /\ u \in exists /\ t \in tenants /\ Membership!AddMembership(u, t, "admin") /\ VisitGoes(v, "point")
         \/ /\ u \notin exists \/ t \notin tenants \/ Membership!HasMembership(u, t)
            /\ memberships' = memberships /\ VisitGoes(v, "done")
    BY <1>2 DEF Membership!InsertAdmin, Membership!Here, VisitGoes
<1>5. /\ Registered(u) /\ Begun(t) /\ HasBeen(t) /\ l \in Links /\ link[l].state # "unused"
      /\ link[l].seed = None
    BY <1>2, <1>3, <1>4 DEF VisitRight
<1>6. CASE memberships' = memberships /\ VisitGoes(v, "done") /\ (u \notin exists \/ t \notin tenants \/ Membership!HasMembership(u, t))
    <2>1. PICK y \in VisitRecord : /\ visit' = [visit EXCEPT ![v] = y] /\ y.pc = "done"
                                   /\ y.user = u /\ y.token = l /\ y.tenant = t
        BY <1>2, <1>6, VisitGone DEF RightInv
    <2>2. VisitRight(y)
        BY <1>5, <1>6, <2>1 DEF VisitRight, HasBeen
    <2>3. UNCHANGED Membership!people /\ failures' \in 0..MaxFailures
        BY <1>4, <1>6 DEF Membership!people, RightInv, RightTyped
    <2> QED
        BY <1>1, <1>4, <2>1, <2>2, <2>3, VisitOnlyCarries
<1>7. CASE u \in exists /\ t \in tenants /\ Membership!AddMembership(u, t, "admin") /\ VisitGoes(v, "point")
    <2>1. PICK y \in VisitRecord : /\ visit' = [visit EXCEPT ![v] = y] /\ y.pc = "point"
                                   /\ y.user = u /\ y.token = l /\ y.tenant = t
        BY <1>2, <1>7, VisitGone DEF RightInv
    <2>2. BegunStays /\ Begun(t)' /\ LinksStay
        BY <1>4, <1>5, LinksFrame DEF BegunStays, Begun, HasBeen
    <2>3. RowsRight' /\ RowsStay /\ Membership!HasMembership(u, t)'
        BY <1>4, <1>7, <2>2, RowComes DEF RightInv
    <2>4. Stays
        BY <1>1, <1>4, <2>2, <2>3, VisitStays
    <2>5. ActiveRight' /\ PointedRight'
        BY <1>4, <2>1, <2>4, VisitLeavesActive
    <2>6. VisitRight(y)'
        BY <1>4, <1>5, <2>1, <2>2, <2>3, <2>4 DEF VisitRight, Membership!Backed, Stays, PeopleStay,
                                                  HasBeen
    <2>7. active' \in [Users -> SignIns \union {None}] /\ link' \in [Links -> LinkRecord] /\ failures' \in 0..MaxFailures
        BY <1>4 DEF RightInv, RightTyped
    <2> QED
        BY <1>1, <1>4, <2>1, <2>3, <2>4, <2>5, <2>6, <2>7, VisitCarries
<1> QED
    BY <1>4, <1>6, <1>7

\* The claimer has the seat, or the claim was for nothing.
LEMMA BindRight ==
    ASSUME Membership!ProgrammesConstants, RightInv, NEW v \in Visits, Membership!Bind(v)
    PROVE  RightInv'
<1>1. SeatInv' /\ Membership!SeatsStayHers
    BY BindKeeps DEF RightInv
<1>2. PICK u, t, l : u = visit[v].user /\ t = visit[v].tenant /\ l = visit[v].token
    OBVIOUS
<1>3. VisitRight(visit[v])
    BY DEF RightInv
<1>4. /\ visit[v].pc = "bind" /\ UNCHANGED <<Membership!people, cookie, sign, link, erase, failures>>
      /\ \/ /\ seed[link[l].seed] = [tenant |-> t, user |-> None]
            /\ seed' = [seed EXCEPT ![link[l].seed].user = u] /\ VisitGoes(v, "point")
         \/ VisitGoes(v, "done")
    BY <1>2 DEF Membership!Bind, Membership!Bindable, Membership!Here, VisitGoes
<1>5. /\ Registered(u) /\ Begun(t) /\ HasBeen(t) /\ l \in Links /\ link[l].state # "unused"
      /\ link[l].seed # None
    BY <1>2, <1>3, <1>4 DEF VisitRight
<1>6. failures' \in 0..MaxFailures
    BY <1>4 DEF RightInv, RightTyped
<1>7. CASE VisitGoes(v, "done")
    <2>1. PICK y \in VisitRecord : /\ visit' = [visit EXCEPT ![v] = y] /\ y.pc = "done"
                                   /\ y.user = u /\ y.token = l /\ y.tenant = t
        BY <1>2, <1>7, VisitGone DEF RightInv
    <2>2. VisitRight(y)
        BY <1>5, <2>1 DEF VisitRight
    <2> QED
        BY <1>1, <1>4, <1>6, <2>1, <2>2, VisitOnlyCarries
<1>8. CASE /\ seed[link[l].seed] = [tenant |-> t, user |-> None]
           /\ seed' = [seed EXCEPT ![link[l].seed].user = u] /\ VisitGoes(v, "point")
    <2>1. PICK y \in VisitRecord : /\ visit' = [visit EXCEPT ![v] = y] /\ y.pc = "point"
                                   /\ y.user = u /\ y.token = l /\ y.tenant = t
        BY <1>2, <1>8, VisitGone DEF RightInv
    <2>2. link[l].seed \in Seeds
        BY <1>5 DEF RightInv, RightTyped, LinkRecord
    <2>3. Membership!HasSeat(u, t)'
        <3>1. PICK s \in Seeds : s = link[l].seed
            BY <2>2
        <3>2. seed \in [Seeds -> Seat] /\ seed[s] = [tenant |-> t, user |-> None]
              /\ seed' = [seed EXCEPT ![s].user = u]
            BY <1>8, <3>1 DEF RightInv, SeatInv, SeatsTyped
        <3>3. seed'[s] = [tenant |-> t, user |-> u]
            BY <3>2
        <3> QED
            BY <3>3 DEF Membership!HasSeat
    <2>4. RowsRight' /\ RowsStay
        BY <1>4 DEF Membership!people, RightInv, RowsRight, RowsStay, Begun,
                    Membership!HasMembership
    <2>5. Stays
        BY <1>1, <1>4, <2>4, VisitStays, LinksFrame DEF Membership!people
    <2>6. ActiveRight' /\ PointedRight'
        BY <1>4, <2>1, <2>5, VisitLeavesActive DEF Membership!people
    <2>7. Registered(u)' /\ Begun(t)' /\ HasBeen(t)'
        BY <1>4, <1>5 DEF Membership!people, Registered, Begun, HasBeen
    <2>8. VisitRight(y)'
        BY <1>4, <1>5, <2>1, <2>3, <2>7 DEF VisitRight, Membership!Backed
    <2>9. active' \in [Users -> SignIns \union {None}] /\ link' \in [Links -> LinkRecord]
        BY <1>4 DEF Membership!people, RightInv, RightTyped
    <2> QED
        BY <1>1, <1>4, <1>6, <2>1, <2>4, <2>5, <2>6, <2>8, <2>9, VisitCarries DEF Membership!people
<1> QED
    BY <1>4, <1>7, <1>8

\* Her active programme is the one she was let into.
LEMMA PointRight ==
    ASSUME Membership!ProgrammesConstants, RightInv, NEW v \in Visits, Membership!Point(v)
    PROVE  RightInv'
<1>1. SeatInv' /\ Membership!SeatsStayHers
    BY VisitStepKeeps DEF RightInv
<1>2. PICK u, t, l : u = visit[v].user /\ t = visit[v].tenant /\ l = visit[v].token
    OBVIOUS
<1>3. VisitRight(visit[v])
    BY DEF RightInv
<1>4. /\ visit[v].pc = "point" /\ VisitGoes(v, "in")
      /\ active' = IF u \in exists THEN [active EXCEPT ![u] = t] ELSE active
      /\ UNCHANGED <<tenants, memberships, exists, gone, cookie, sign, link, seed, erase, failures>>
    BY <1>2 DEF Membership!Point, Membership!Here, VisitGoes
<1>5. /\ Registered(u) /\ Begun(t) /\ HasBeen(t) /\ l \in Links /\ link[l].state # "unused"
      /\ u \in exists /\ t \notin gone => /\ link[l].seed = None => Membership!HasMembership(u, t)
                                          /\ Membership!Backed(u, t)
    BY <1>2, <1>3, <1>4 DEF VisitRight
<1>6. u \in Users /\ t \in SignIns /\ active \in [Users -> SignIns \union {None}]
    BY <1>5 DEF Registered, Begun, RightInv, RightTyped
<1>7. PICK y \in VisitRecord : /\ visit' = [visit EXCEPT ![v] = y] /\ y.pc = "in"
                               /\ y.user = u /\ y.token = l /\ y.tenant = t
    BY <1>2, <1>4, VisitGone DEF RightInv
<1>8. RowsRight' /\ RowsStay
    BY <1>4 DEF RightInv, RowsRight, RowsStay, Begun, Membership!HasMembership
<1>9. Stays
    BY <1>1, <1>4, <1>8, VisitStays, LinksFrame
<1>10. VisitRight(y)'
    BY <1>4, <1>5, <1>7 DEF VisitRight, Registered, Begun, HasBeen, Membership!HasMembership,
                            Membership!Backed, Membership!HasSeat
<1>11. ActiveRight'
    <2>1. ASSUME NEW q \in Users, NEW g, g = active'[q], g # None
          PROVE  q \in exists' /\ (Membership!Backed(q, g)' \/ g \in gone')
        <3>1. CASE q = u /\ u \in exists
            <4>1. g = t
                BY <1>4, <1>6, <2>1, <3>1
            <4> QED
                BY <1>4, <1>5, <1>9, <3>1, <4>1, BackedKept
        <3>2. CASE q # u \/ u \notin exists
            <4>1. g = active[q] /\ q \in exists
                BY <1>4, <1>6, <2>1, <3>2 DEF RightInv, ActiveRight
            <4>2. Membership!Backed(q, g) \/ g \in gone
                BY <2>1, <4>1 DEF RightInv, ActiveRight
            <4> QED
                BY <1>4, <1>9, <4>1, <4>2, BackedKept
        <3> QED
            BY <3>1, <3>2
    <2> QED
        BY <2>1 DEF ActiveRight
<1>12. PointedRight'
    <2>0. visit \in [Visits -> VisitRecord] /\ exists \subseteq Users
        BY DEF RightInv, RightTyped, SeatInv, SeatsTyped
    <2>1. ASSUME NEW w \in Visits, NEW q, q = visit'[w].user,
                 visit'[w].pc = "in", q \in exists', visit'[w].tenant \notin gone'
          PROVE  \E x \in Visits : visit'[x].pc = "in" /\ visit'[x].user = q /\ active'[q] = visit'[x].tenant
        <3>1. CASE q = u
            BY <1>4, <1>6, <1>7, <2>0, <2>1, <3>1
        <3>2. CASE q # u
            <4>1. visit'[w] = visit[w] /\ active'[q] = active[q]
                BY <1>4, <1>6, <1>7, <2>0, <2>1, <3>2
            <4>2. PICK x \in Visits : visit[x].pc = "in" /\ visit[x].user = q /\ active[q] = visit[x].tenant
                BY <1>4, <2>1, <4>1 DEF RightInv, PointedRight, Pointed
            <4>3. visit'[x] = visit[x]
                BY <1>2, <1>7, <2>0, <3>2, <4>2
            <4> QED
                BY <4>1, <4>2, <4>3
        <3> QED
            BY <3>1, <3>2
    <2> QED
        BY <2>1 DEF PointedRight, Pointed
<1>13. /\ active' \in [Users -> SignIns \union {None}] /\ link' \in [Links -> LinkRecord]
       /\ failures' \in 0..MaxFailures
    BY <1>4, <1>6 DEF RightInv, RightTyped
<1> QED
    BY <1>1, <1>4, <1>7, <1>8, <1>9, <1>10, <1>11, <1>12, <1>13, VisitCarries

-----------------------------------------------------------------------------
(* Links, seats and deletions *)

LEMMA OthersCarry ==
    ASSUME Membership!ProgrammesConstants, RightInv, UNCHANGED <<sign, visit>>,
           RightTyped', Stays, SeatInv', RowsRight', LinksRight', ActiveRight', PointedRight'
    PROVE  RightInv'
<1>1. ASSUME NEW r \in SignIns, NEW x, x = sign'[r]
      PROVE  SignRight(x)'
    <2>1. SignRight(x)
        BY <1>1 DEF RightInv
    <2> QED
        BY <2>1, SignKept
<1>2. ASSUME NEW v \in Visits, NEW x, x = visit'[v]
      PROVE  VisitRight(x)'
    <2>1. VisitRight(x)
        BY <1>2 DEF RightInv
    <2> QED
        BY <2>1, VisitKept
<1>3. \A r \in SignIns : SignRight(sign[r])'
    BY <1>1 DEF SignRight
<1>4. \A v \in Visits : VisitRight(visit[v])'
    BY <1>2 DEF VisitRight
<1> QED
    BY <1>3, <1>4 DEF RightInv

\* A link or a seat, and nothing else.
LEMMA LinkCarries ==
    ASSUME Membership!ProgrammesConstants, RightInv, UNCHANGED <<Membership!people, cookie, sign,
           visit, erase, failures>>,
           SeatInv', Membership!SeatsStayHers, link' \in [Links -> LinkRecord], LinksStay, LinksRight'
    PROVE  RightInv'
<1>1. RightTyped'
    BY DEF Membership!people, RightInv, RightTyped
<1>2. RowsRight' /\ RowsStay
    BY DEF Membership!people, RightInv, RowsRight, RowsStay, Begun, Membership!HasMembership
<1>3. Stays
    BY <1>2, VisitStays DEF Membership!people
<1>4. ActiveRight'
    BY <1>3, ActiveKept DEF Membership!people, RightInv
<1>5. PointedRight'
    BY <1>3, PointedKept DEF Membership!people, Stays
<1> QED
    BY <1>1, <1>2, <1>3, <1>4, <1>5, OthersCarry

LEMMA MakeRight ==
    ASSUME Membership!ProgrammesConstants, RightInv, NEW l \in Links, NEW u \in Users,
           NEW s \in Seeds \union {None},
           (Membership!MakeInvite(l, u) /\ s = None) \/ Membership!MakeClaim(l, u, s)
    PROVE  RightInv'
<1>1. SeatInv' /\ Membership!SeatsStayHers
    BY LinkKeeps DEF RightInv
<1>2. Membership!Make(l, u, s)
    BY DEF Membership!MakeInvite, Membership!MakeClaim
<1>3. PICK t : t = Membership!SessionTenant(u)
    OBVIOUS
<1>4. /\ link[l].state = "unused" /\ Membership!IsOwner(u, t)
      /\ link' = [link EXCEPT ![l] = [state |-> "live", tenant |-> t, seed |-> s, by |-> u]]
      /\ UNCHANGED <<Membership!people, cookie, sign, visit, erase, failures>>
    BY <1>2, <1>3 DEF Membership!Make
<1>5. t \in SignIns /\ Begun(t) /\ HasBeen(t)
    BY <1>4 DEF Membership!IsOwner, RightInv, RowsRight, Begun, HasBeen
<1> DEFINE new == [state |-> "live", tenant |-> t, seed |-> s, by |-> u]
<1>6. new \in LinkRecord /\ new.state = "live" /\ new.tenant = t
    BY <1>5 DEF LinkRecord
<1>7. link' = [link EXCEPT ![l] = new]
    BY <1>4
<1> HIDE DEF new
<1>8. /\ link' \in [Links -> LinkRecord] /\ link'[l] = new
      /\ \A k \in Links \ {l} : link'[k] = link[k]
    BY <1>6, <1>7 DEF RightInv, RightTyped
<1>9. LinksStay
    BY <1>4, <1>8 DEF LinksStay
<1>10. LinksRight'
    <2>1. Begun(t)' /\ HasBeen(t)'
        BY <1>4, <1>5 DEF Membership!people, Begun, HasBeen
    <2> QED
        BY <1>4, <1>6, <1>8, <2>1 DEF Membership!people, RightInv, LinksRight, Begun, HasBeen
<1> QED
    BY <1>1, <1>4, <1>8, <1>9, <1>10, LinkCarries

LEMMA ExpireRight ==
    ASSUME Membership!ProgrammesConstants, RightInv, NEW l \in Links, Membership!Expire(l)
    PROVE  RightInv'
<1>1. SeatInv' /\ Membership!SeatsStayHers
    BY LinkKeeps DEF RightInv
<1>2. /\ link[l].state = "live" /\ link' = [link EXCEPT ![l].state = "dead"]
      /\ UNCHANGED <<Membership!people, cookie, sign, visit, erase, failures>>
    BY DEF Membership!Expire
<1>3. link \in [Links -> LinkRecord] /\ link[l] \in LinkRecord
    BY DEF RightInv, RightTyped
<1>4. /\ link' \in [Links -> LinkRecord] /\ link'[l].state = "dead"
      /\ link'[l].seed = link[l].seed /\ link'[l].tenant = link[l].tenant
      /\ \A k \in Links \ {l} : link'[k] = link[k]
    BY <1>2, <1>3 DEF LinkRecord
<1>5. LinksStay
    BY <1>2, <1>4 DEF LinksStay
<1>6. LinksRight'
    BY <1>2, <1>4 DEF Membership!people, RightInv, LinksRight, Begun, HasBeen
<1> QED
    BY <1>1, <1>2, <1>4, <1>5, <1>6, LinkCarries

LEMMA SeedMemberRight ==
    ASSUME Membership!ProgrammesConstants, RightInv, NEW s \in Seeds, NEW t \in SignIns,
           Membership!SeedMember(s, t)
    PROVE  RightInv'
<1>1. SeatInv' /\ Membership!SeatsStayHers
    BY SeedMemberKeeps DEF RightInv
<1>2. UNCHANGED <<Membership!people, cookie, sign, link, visit, erase, failures>>
    BY DEF Membership!SeedMember
<1>3. link' \in [Links -> LinkRecord] /\ LinksRight'
    BY <1>2 DEF Membership!people, RightInv, RightTyped, LinksRight, Begun, HasBeen
<1> QED
    BY <1>1, <1>2, <1>3, LinksFrame, LinkCarries

\* A deletion is on its way; the rows of a programme go with it.
LEMMA EraseRight ==
    ASSUME Membership!ProgrammesConstants, RightInv, NEW u \in Users,
           Membership!EraseStart(u) \/ Membership!EraseCount(u) \/ Membership!EraseMemberships(u)
    PROVE  RightInv'
<1>1. SeatInv' /\ Membership!SeatsStayHers
    BY EraseKeeps DEF RightInv
<1>2. UNCHANGED <<tenants, exists, active, cookie, sign, link, seed, visit>>
    BY DEF Membership!EraseStart, Membership!EraseCount, Membership!EraseMemberships,
           Membership!EraseGo, Membership!people
<1>3. PICK y \in EraseRecord : /\ erase' = [erase EXCEPT ![u] = y]
                               /\ y.pc # "no" => y.tenant \in SignIns
                               /\ y.pc # "erased" /\ erase[u].pc # "erased"
    <2>0. erase \in [Users -> EraseRecord] /\ erase[u] \in EraseRecord
          /\ (erase[u].pc # "no" => erase[u].tenant \in SignIns)
        BY DEF RightInv, RightTyped
    <2>1. CASE Membership!EraseStart(u)
        <3>1. PICK m \in memberships : erase' = [erase EXCEPT ![u] = [pc |-> "count", tenant |-> m.tenant]]
            BY <2>1 DEF Membership!EraseStart
        <3>2. m.tenant \in SignIns /\ erase[u].pc = "no"
            BY <2>1 DEF Membership!EraseStart, RightInv, RowsRight, Begun
        <3> DEFINE y == [pc |-> "count", tenant |-> m.tenant]
        <3>3. y \in EraseRecord /\ y.pc = "count" /\ y.tenant = m.tenant
            BY <3>2 DEF EraseRecord
        <3>4. erase' = [erase EXCEPT ![u] = y]
            BY <3>1
        <3> HIDE DEF y
        <3> QED
            BY <3>2, <3>3, <3>4
    <2>2. CASE Membership!EraseCount(u) \/ Membership!EraseMemberships(u)
        <3>1. PICK x \in {"no", "wipe", "row"} :
                erase' = [erase EXCEPT ![u].pc = x] /\ erase[u].pc \in {"count", "wipe"}
            BY <2>2 DEF Membership!EraseCount, Membership!EraseMemberships, Membership!EraseGo
        <3> DEFINE y == [erase[u] EXCEPT !.pc = x]
        <3>2. y \in EraseRecord /\ y.pc = x /\ y.tenant = erase[u].tenant
            BY <2>0 DEF EraseRecord
        <3>3. erase' = [erase EXCEPT ![u] = y]
            BY <2>0, <3>1
        <3> HIDE DEF y
        <3> QED
            BY <2>0, <3>1, <3>2, <3>3
    <2> QED
        BY <2>1, <2>2
<1>4. erase' \in [Users -> EraseRecord] /\ erase'[u] = y /\ \A q \in Users \ {u} : erase'[q] = erase[q]
    BY <1>3 DEF RightInv, RightTyped
<1>5. failures' \in 0..MaxFailures
    <2>1. failures' = failures \/ Membership!Fail
        BY DEF Membership!EraseStart, Membership!EraseCount, Membership!EraseMemberships
    <2> QED
        BY <2>1, FailuresCounted DEF RightInv, RightTyped
<1>6. /\ gone \subseteq gone' /\ gone' \subseteq SignIns /\ memberships' \subseteq memberships
      /\ \A m \in memberships \ memberships' : m.tenant \in gone'
    <2>1. CASE UNCHANGED <<memberships, gone>>
        BY <2>1 DEF RightInv, RightTyped
    <2>2. CASE Membership!EraseMemberships(u) /\ memberships' = {m \in memberships : m.tenant # erase[u].tenant}
                                              /\ gone' = gone \union {erase[u].tenant}
        BY <2>2 DEF Membership!EraseMemberships, Membership!EraseGo, RightInv, RightTyped
    <2> QED
        BY <2>1, <2>2 DEF Membership!EraseStart, Membership!EraseCount,
                          Membership!EraseMemberships, Membership!people
<1>7. RightTyped'
    BY <1>2, <1>3, <1>4, <1>5, <1>6 DEF RightInv, RightTyped
<1>8. BegunStays
    BY <1>2, <1>6 DEF BegunStays, Begun, HasBeen
<1>9. RowsRight' /\ RowsStay
    <2>1. \A m \in memberships' : m.tenant \in tenants' /\ m.user \in exists'
        BY <1>2, <1>6 DEF RightInv, RowsRight
    <2> QED
        BY <1>6, <1>8, <2>1, RowsGo DEF RightInv
<1>10. PeopleStay
    BY <1>2, <1>3, <1>4 DEF PeopleStay, Registered
<1>11. Stays
    BY <1>1, <1>2, <1>6, <1>8, <1>9, <1>10, SeatsAreKept, LinksFrame DEF Stays
<1>12. LinksRight'
    BY <1>2, <1>11, LinksKept DEF RightInv
<1>13. ActiveRight'
    BY <1>2, <1>11, ActiveKept DEF RightInv
<1>14. PointedRight'
    BY <1>2, <1>6, <1>10, PointedKept
<1> QED
    BY <1>1, <1>2, <1>7, <1>9, <1>11, <1>12, <1>13, <1>14, OthersCarry

\* The account goes, or only the cookie.
LEMMA EraseUserRight ==
    ASSUME Membership!ProgrammesConstants, RightInv, NEW u \in Users, Membership!EraseUser(u)
    PROVE  RightInv'
<1>1. SeatInv' /\ Membership!SeatsStayHers
    BY EraseUserKeeps DEF RightInv
<1>2. /\ UNCHANGED <<tenants, sign, visit, gone>> /\ erase[u].pc = "row"
      /\ erase' = [erase EXCEPT ![u].pc = "erased"] /\ cookie' = [cookie EXCEPT ![u] = "out"]
      /\ \/ Membership!DropUser(u) /\ failures' = failures
         \/ Membership!Fail /\ UNCHANGED <<exists, active, memberships, link, seed>>
    BY DEF Membership!EraseUser, Membership!EraseGo
<1>3. /\ active \in [Users -> SignIns \union {None}] /\ cookie \in [Users -> SignIns \union {None, "out"}]
      /\ link \in [Links -> LinkRecord] /\ erase \in [Users -> EraseRecord]
    BY DEF RightInv, RightTyped
<1>4. /\ erase' \in [Users -> EraseRecord] /\ erase'[u].pc = "erased" /\ erase'[u].tenant = erase[u].tenant
      /\ \A q \in Users \ {u} : erase'[q] = erase[q]
    <2>1. erase[u] \in EraseRecord
        BY <1>3
    <2> QED
        BY <1>2, <1>3, <2>1 DEF EraseRecord
<1>5. failures' \in 0..MaxFailures
    BY <1>2, FailuresCounted DEF RightInv, RightTyped
<1>6. cookie' \in [Users -> SignIns \union {None, "out"}]
    BY <1>2, <1>3
<1>7. /\ exists' \subseteq exists /\ exists \ exists' \subseteq {u}
      /\ active' \in [Users -> SignIns \union {None}]
      /\ \A q \in Users : active'[q] = None \/ (active'[q] = active[q] /\ (q \notin exists' => q \notin exists))
      /\ \A q \in exists' : active'[q] = active[q]
      /\ memberships' \subseteq memberships
      /\ \A m \in memberships' : m.user \in exists'
      /\ \A m \in memberships \ memberships' : m.user \notin exists'
    <2>0. /\ \A m \in memberships : m.user \in exists
          /\ exists \subseteq Users /\ \A q \in Users : q \notin exists => active[q] = None
        BY DEF RightInv, RowsRight, ActiveRight, SeatInv, SeatsTyped
    <2>1. CASE Membership!DropUser(u)
        BY <1>3, <2>0, <2>1 DEF Membership!DropUser
    <2>2. CASE UNCHANGED <<exists, active, memberships>>
        BY <1>3, <2>0, <2>2
    <2> QED
        BY <1>2, <2>1, <2>2
<1>8. ASSUME NEW l \in Links
      PROVE  /\ link'[l] \in LinkRecord
             /\ link'[l].seed = link[l].seed /\ link'[l].tenant = link[l].tenant
             /\ link'[l] = link[l] \/ (link[l].state # "unused" /\ link'[l].state # "unused")
    <2>1. link[l] \in LinkRecord /\ (link[l].state = "unused" => link[l].by # u)
        BY <1>3 DEF RightInv, LinksRight, Membership!ProgrammesConstants
    <2>2. link'[l] = link[l] \/ (link[l].by = u /\ link'[l] = [link[l] EXCEPT !.state = "dead"])
        BY <1>2, <1>3 DEF Membership!DropUser
    <2> QED
        BY <2>1, <2>2 DEF LinkRecord
<1>9. link' \in [Links -> LinkRecord]
    BY <1>2, <1>3, <1>8 DEF Membership!DropUser
<1>10. RightTyped'
    BY <1>2, <1>4, <1>5, <1>6, <1>7, <1>9 DEF RightInv, RightTyped
<1>11. BegunStays
    BY <1>2 DEF BegunStays, Begun, HasBeen
<1>12. RowsRight' /\ RowsStay
    <2>1. \A m \in memberships' : m.tenant \in tenants' /\ m.user \in exists'
        BY <1>2, <1>7 DEF RightInv, RowsRight
    <2> QED
        BY <1>7, <1>11, <2>1, RowsGo DEF RightInv
<1>13. PeopleStay
    BY <1>4, <1>7 DEF PeopleStay, Registered
<1>14. LinksStay
    BY <1>8 DEF LinksStay
<1>15. Stays
    BY <1>1, <1>2, <1>11, <1>12, <1>13, <1>14, SeatsAreKept DEF Stays
<1>16. LinksRight'
    BY <1>8, <1>15, LinksKept DEF RightInv
<1>17. ActiveRight'
    BY <1>7, <1>15, ActiveKept DEF RightInv
<1>18. PointedRight'
    BY <1>2, <1>7, <1>13, PointedKept
<1> QED
    BY <1>1, <1>2, <1>10, <1>12, <1>15, <1>16, <1>17, <1>18, OthersCarry

-----------------------------------------------------------------------------

LEMMA RightStarts ==
    ASSUME Membership!ProgrammesConstants, Membership!Init
    PROVE  RightInv
<1>1. SeatInv
    BY SeatsStart
<1>2. RightTyped
    <2>1. /\ active \in [Users -> SignIns \union {None}] /\ cookie \in [Users -> SignIns \union {None, "out"}]
          /\ tenants \subseteq SignIns /\ gone \subseteq SignIns /\ failures \in 0..MaxFailures
        BY DEF Membership!Init, Membership!ProgrammesConstants
    <2>2. link \in [Links -> LinkRecord]
        BY DEF Membership!Init, LinkRecord
    <2>3. sign \in [SignIns -> SignRecord] /\ \A r \in SignIns : sign[r].pc = "idle"
        BY DEF Membership!Init, SignRecord
    <2>4. visit \in [Visits -> VisitRecord]
        BY DEF Membership!Init, VisitRecord
    <2>5. erase \in [Users -> EraseRecord] /\ \A u \in Users : erase[u].pc = "no"
        BY DEF Membership!Init, EraseRecord
    <2> QED
        BY <2>1, <2>2, <2>3, <2>4, <2>5 DEF RightTyped
<1>3. RowsRight /\ LinksRight /\ ActiveRight
    BY DEF Membership!Init, RowsRight, LinksRight, ActiveRight
<1>4. PointedRight /\ \A v \in Visits : VisitRight(visit[v])
    BY DEF Membership!Init, PointedRight, VisitRight
<1>5. \A r \in SignIns : SignRight(sign[r])
    BY DEF Membership!Init, SignRight
<1> QED
    BY <1>1, <1>2, <1>3, <1>4, <1>5 DEF RightInv

LEMMA RightSteps ==
    ASSUME Membership!ProgrammesConstants, RightInv, [Membership!Next]_Membership!vars
    PROVE  RightInv'
<1>1. ASSUME NEW r \in SignIns, NEW u \in Users, Membership!SignIn(r, u)
      PROVE  RightInv'
    BY <1>1, SignInRight
<1>2. ASSUME NEW r \in SignIns, Membership!SignInStep(r) \/ Membership!SignInFails(r)
      PROVE  RightInv'
    BY <1>2, ReadsRight, MintsRight, CreateUserRight, RowsComeRight, AttachRight, UndoRowRight,
       UndoTenantRight DEF Membership!SignInStep
<1>3. ASSUME NEW u \in Users, NEW l \in Links, Membership!MakeInvite(l, u)
      PROVE  RightInv'
    BY <1>3, MakeRight
<1>4. ASSUME NEW u \in Users, NEW l \in Links, NEW s \in Seeds, Membership!MakeClaim(l, u, s)
      PROVE  RightInv'
    BY <1>4, MakeRight
<1>5. ASSUME NEW u \in Users, NEW l \in Links, NEW v \in Visits,
             Membership!Redeem(v, u, l) \/ Membership!RedeemClaim(v, u, l)
      PROVE  RightInv'
    BY <1>5, RedeemRight
<1>6. ASSUME NEW u \in Users, Membership!EraseStart(u) \/ Membership!EraseStep(u)
      PROVE  RightInv'
    BY <1>6, EraseRight, EraseUserRight DEF Membership!EraseStep
<1>7. ASSUME NEW s \in Seeds, NEW t \in SignIns, Membership!SeedMember(s, t)
      PROVE  RightInv'
    BY <1>7, SeedMemberRight
<1>8. ASSUME NEW l \in Links, Membership!Expire(l)
      PROVE  RightInv'
    BY <1>8, ExpireRight
<1>9. ASSUME NEW v \in Visits, Membership!VisitStep(v) \/ Membership!VisitFails(v)
      PROVE  RightInv'
    BY <1>9, ChecksRight, InsertAdminRight, BindRight, PointRight DEF Membership!VisitStep
<1>10. CASE UNCHANGED Membership!vars
    <2>1. UNCHANGED <<Membership!people, cookie, sign, visit, erase, failures, seed, link>>
        BY <1>10 DEF Membership!vars, Membership!people
    <2>2. SeatInv' /\ Membership!SeatsStayHers
        BY <2>1 DEF RightInv, SeatInv, SeatsTyped, SignsKnown, VisitsKnown,
                    Membership!SeatsStayHers, Membership!people
    <2>3. link' \in [Links -> LinkRecord] /\ LinksRight'
        BY <2>1 DEF Membership!people, RightInv, RightTyped, LinksRight, Begun, HasBeen
    <2> QED
        BY <2>1, <2>2, <2>3, LinksFrame, LinkCarries
<1> QED
    BY <1>1, <1>2, <1>3, <1>4, <1>5, <1>6, <1>7, <1>8, <1>9, <1>10 DEF Membership!Next

LEMMA RightSafe ==
    ASSUME RightInv
    PROVE  Membership!TypeOK /\ Membership!ActiveIsBacked /\ Membership!InvitedGetIn
<1>1. Membership!TypeOK
    <2>1. \A r \in SignIns : sign[r] \in SignRecord
        BY DEF RightInv, RightTyped
    <2>2. \A v \in Visits : visit[v] \in VisitRecord
        BY DEF RightInv, RightTyped
    <2>3. \A u \in Users : erase[u] \in EraseRecord
        BY DEF RightInv, RightTyped
    <2>4. link \in [Links -> [state : {"unused", "live", "spent", "dead"},
                              tenant : SignIns \union {None}, seed : Seeds \union {None},
                              by : Users \union {None}]]
        BY DEF RightInv, RightTyped, LinkRecord
    <2>5. seed \in [Seeds -> [tenant : SignIns \union {None}, user : Users \union {None}]]
        BY DEF RightInv, SeatInv, SeatsTyped, Seat
    <2>6. \A r \in SignIns : sign[r].pc \in
            {"idle", "find", "create", "read", "own", "founders", "join", "mint", "owner", "attach",
             "settle", "undoRow", "undoTenant", "done", "refused"}
        BY <2>1 DEF SignRecord
    <2>7. \A v \in Visits : visit[v].pc \in
            {"idle", "check", "insert", "mine", "bind", "point", "in", "done", "failed"}
        BY <2>2 DEF VisitRecord
    <2>8. \A u \in Users : erase[u].pc \in {"no", "count", "wipe", "row", "erased"}
        BY <2>3 DEF EraseRecord
    <2> QED
        BY <2>4, <2>5, <2>6, <2>7, <2>8 DEF Membership!TypeOK, RightInv, RightTyped, RowsRight,
                                            SeatInv, SeatsTyped
<1>2. Membership!ActiveIsBacked
    BY DEF RightInv, ActiveRight, Membership!ActiveIsBacked, SeatInv, SeatsTyped
<1>3. Membership!InvitedGetIn
    BY DEF RightInv, VisitRight, PointedRight, Pointed, Membership!InvitedGetIn
<1> QED
    BY <1>1, <1>2, <1>3

\* Programmes (tenants.ts, invite, claim, account/delete.ts): for any people,
\* sign-ins, links, visits and failures, the active programme is one she belongs to,
\* and a visit of an invite that ended has brought its redeemer in.
THEOREM RightProgrammeHolds ==
    ASSUME Membership!ProgrammesConstants
    PROVE  Membership!Spec => [](Membership!TypeOK /\ Membership!ActiveIsBacked /\ Membership!InvitedGetIn)
<1>1. Membership!Init => RightInv
    BY RightStarts
<1>2. RightInv /\ [Membership!Next]_Membership!vars => RightInv'
    BY RightSteps
<1>3. RightInv => Membership!TypeOK /\ Membership!ActiveIsBacked /\ Membership!InvitedGetIn
    BY RightSafe
<1> QED
    BY <1>1, <1>2, <1>3, PTL DEF Membership!Spec

\* The property of MCOffice that the run office checks.
THEOREM RightProgrammeThere == Spec => []RightProgramme
<1> DEFINE Inv == part = "people" => RightInv
<1>1. Init => Inv
    BY OfficeConstants, RightStarts DEF Init, OfficeConstants
<1>2. Inv /\ [Next]_vars => Inv'
    <2> SUFFICES ASSUME Inv, [Next]_vars, part' = "people"
                 PROVE  RightInv'
        OBVIOUS
    <2>1. CASE Next
        <3>1. part = "people" /\ Membership!Next
            BY <2>1 DEF Next, Moves
        <3> QED
            BY <3>1, OfficeConstants, RightSteps DEF OfficeConstants
    <2>2. CASE UNCHANGED vars
        BY <2>2, OfficeConstants, RightSteps
        DEF OfficeConstants, vars, people, Membership!vars
    <2> QED
        BY <2>1, <2>2
<1>3. Inv => RightProgramme
    BY OfficeConstants, RightSafe DEF RightProgramme, OfficeConstants
<1> QED
    BY <1>1, <1>2, <1>3, PTL DEF Spec

=============================================================================
