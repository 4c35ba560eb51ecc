---------------------------- MODULE PaymentsProofs ----------------------------
(* Theorems about Notices and Payments, for any number of members, rounds,  *)
(* overlapping passes, transfers and failures.                              *)
EXTENDS Payments, SequenceTheorems, WellFoundedInduction, TLAPS

(* Part one: notify, whoever calls it.                                      *)

SameEvent(n, o) == n.kind = o.kind /\ n.key = o.key
Mails(m, n) == m[<<n.kind, n.key>>]

\* What a call relies on between its statements: the row it claimed is there,
\* no mail of that event has left before its own, and one has after, unless it
\* was skipped.
CallKnows(c, rows, m, d) ==
    /\ c.pc \in {"send", "mark"} => c.notice \in rows
    /\ c.pc = "send" => Mails(m, c.notice) = 0
    /\ c.pc = "mark" => Mails(m, c.notice) >= 1 \/ c.notice \in d

CallsKnow == \A t \in Callers : CallKnows(call[t], email, mails, dropped)

\* A mail that was skipped has not left, and no call is about to send it.
SkippedForGood ==
    \A n \in dropped :
        /\ n \in email /\ Mails(mails, n) = 0
        /\ \A t \in Callers : call[t].pc = "send" => ~ SameEvent(call[t].notice, n)

\* The claim lets one call at a time through to the mail of an event,
SendAlone ==
    \A t, u \in Callers : call[t].pc = "send" /\ call[u].pc = "send"
                          /\ SameEvent(call[t].notice, call[u].notice) => t = u

\* and what left was claimed first.
MailsClaimed ==
    \A k \in Kinds \X EventKeys : mails[k] > 0 => \E n \in email : n.kind = k[1] /\ n.key = k[2]

EmailInv ==
    /\ NoticesTypeOK
    /\ CallsKnow
    /\ SkippedForGood
    /\ SendAlone
    /\ MailsClaimed
    /\ EmailOncePerEvent
    /\ SentMeansSent

\* A notice's event is one of those the mails are counted by.
LEMMA NoticeFields ==
    ASSUME NEW n \in Notice
    PROVE  n.kind \in Kinds /\ n.key \in EventKeys /\ n.to \in Members
    BY DEF Notice

\* A call is resting, or in the midst of a notice.
LEMMA CallFields ==
    ASSUME NEW c \in CallRecord \cup {Idle}
    PROVE  /\ c = Idle => c.pc = "idle"
           /\ c.pc = "idle" \/ c \in CallRecord
           /\ c.pc # "idle" => /\ c # Idle /\ c.notice \in Notice /\ c.optIn \in BOOLEAN
                               /\ c.pc \in {"in_app", "email", "send", "mark"}
    BY DEF CallRecord, Idle

\* A call moves on with the notice it came with.
LEMMA CallMoves ==
    ASSUME NEW c \in CallRecord, NEW pc \in {"email", "send", "mark"}
    PROVE  /\ [c EXCEPT !.pc = pc] \in CallRecord
           /\ [c EXCEPT !.pc = pc].pc = pc
           /\ [c EXCEPT !.pc = pc].notice = c.notice
    BY DEF CallRecord

\* A caller that moves leaves the others where they are.
LEMMA OneCallMoves ==
    ASSUME NoticesTypeOK, NEW t \in Callers, NEW r \in CallRecord \cup {Idle}, Goto(t, r)
    PROVE  /\ call' \in [Callers -> CallRecord \cup {Idle}]
           /\ call'[t] = r
           /\ \A u \in Callers : u # t => call'[u] = call[u]
    BY DEF NoticesTypeOK, Goto

\* A call that is not about to send keeps the invariant while it moves, if no
\* row, no mail and no mark is touched but the in-app rows.
LEMMA CallRests ==
    ASSUME EmailInv, NEW t \in Callers, NEW r \in CallRecord \cup {Idle}, Goto(t, r),
           r.pc \notin {"send", "mark"}, UNCHANGED <<email, mails, sentAt, dropped>>, NoticesTypeOK'
    PROVE  EmailInv'
<1> USE OneCallMoves DEF EmailInv
<1>1. CallsKnow'
    BY DEF CallsKnow, CallKnows
<1>2. SendAlone'
    BY DEF SendAlone
<1>3. MailsClaimed' /\ EmailOncePerEvent' /\ SentMeansSent'
    BY DEF MailsClaimed, EmailOncePerEvent, SentMeansSent
<1>4. SkippedForGood'
    BY DEF SkippedForGood
<1> QED
    BY <1>1, <1>2, <1>3, <1>4

LEMMA KeptByNotifyRead ==
    ASSUME EmailInv, NEW t \in Callers, NotifyRead(t)
    PROVE  EmailInv'
<1> USE DEF EmailInv
<1>1. PICK n \in queue[t] :
        /\ queue' = [queue EXCEPT ![t] = @ \ {n}]
        /\ Goto(t, IF Wanted(n) THEN [pc |-> "in_app", notice |-> n, optIn |-> pref[n.to].optIn]
                                ELSE Idle)
    BY DEF NotifyRead
<1>2. n \in Notice /\ pref[n.to].optIn \in BOOLEAN
    BY NoticeFields DEF NoticesTypeOK, Pref
<1> DEFINE r == IF Wanted(n) THEN [pc |-> "in_app", notice |-> n, optIn |-> pref[n.to].optIn]
                             ELSE Idle
<1>3. r \in CallRecord \cup {Idle} /\ r.pc \notin {"send", "mark"}
    BY <1>2 DEF CallRecord, Idle
<1>4. Goto(t, r)
    BY <1>1
<1> HIDE DEF r
<1>5. NoticesTypeOK' /\ UNCHANGED <<email, mails, sentAt, dropped>>
    BY <1>1, <1>3, <1>4, OneCallMoves DEF NotifyRead, NoticesTypeOK, written, prefs
<1> QED
    BY <1>3, <1>4, <1>5, CallRests

LEMMA KeptByClaimInApp ==
    ASSUME EmailInv, NEW t \in Callers, ClaimInApp(t)
    PROVE  EmailInv'
<1> USE DEF EmailInv
<1> DEFINE r == IF call[t].optIn THEN [call[t] EXCEPT !.pc = "email"] ELSE Idle
<1>1. call[t] \in CallRecord /\ call[t].notice \in Notice
    BY CallFields DEF ClaimInApp, NoticesTypeOK
<1>2. r \in CallRecord \cup {Idle} /\ r.pc \notin {"send", "mark"}
    BY <1>1, CallMoves DEF Idle
<1>3. Goto(t, r) /\ UNCHANGED <<email, mails, sentAt, dropped, pref, saving, queue, failures>>
    BY DEF ClaimInApp, prefs
<1> HIDE DEF r
<1>4. inApp' \subseteq Notice
    BY <1>1 DEF ClaimInApp, NoticesTypeOK
<1>5. NoticesTypeOK'
    BY <1>2, <1>3, <1>4, OneCallMoves DEF NoticesTypeOK
<1> QED
    BY <1>2, <1>3, <1>5, CallRests

LEMMA KeptByClaimEmail ==
    ASSUME EmailInv, NEW t \in Callers, ClaimEmail(t)
    PROVE  EmailInv'
<1> USE DEF EmailInv
<1> DEFINE n == call[t].notice
           r == [call[t] EXCEPT !.pc = "send"]
<1>1. call[t] \in CallRecord /\ n \in Notice
    BY CallFields DEF ClaimEmail, NoticesTypeOK
<1>2. UNCHANGED <<inApp, sentAt, mails, dropped, pref, saving, queue, failures>>
    BY DEF ClaimEmail, prefs
<1>3. CASE ~ Claims(email, n)
    <2>1. Goto(t, Idle) /\ UNCHANGED email
        BY <1>3 DEF ClaimEmail
    <2>2. Idle \in CallRecord \cup {Idle} /\ Idle.pc \notin {"send", "mark"}
        BY DEF Idle
    <2>3. NoticesTypeOK'
        BY <1>2, <2>1, <2>2, OneCallMoves DEF NoticesTypeOK
    <2> QED
        BY <1>2, <2>1, <2>2, <2>3, CallRests
<1>4. CASE Claims(email, n)
    <2>1. Goto(t, r) /\ email' = email \cup {n}
        BY <1>4 DEF ClaimEmail
    <2>2. r \in CallRecord \cup {Idle} /\ r.pc = "send" /\ r.notice = n
        BY <1>1, CallMoves
    <2> HIDE DEF r
    <2>3. /\ call' \in [Callers -> CallRecord \cup {Idle}]
          /\ call'[t] = r
          /\ \A u \in Callers : u # t => call'[u] = call[u]
        BY <2>1, <2>2, OneCallMoves
    <2>4. NoticesTypeOK'
        BY <1>1, <1>2, <2>1, <2>3 DEF NoticesTypeOK
    <2>5. Mails(mails, n) = 0
        <3>1. <<n.kind, n.key>> \in Kinds \X EventKeys /\ mails[<<n.kind, n.key>>] \in Nat
            BY <1>1, NoticeFields DEF NoticesTypeOK
        <3>2. ~ (mails[<<n.kind, n.key>>] > 0)
            BY <1>4, <3>1 DEF MailsClaimed, Claims
        <3> QED
            BY <3>1, <3>2 DEF Mails
    <2>6. CallsKnow'
        BY <1>2, <2>1, <2>2, <2>3, <2>5 DEF CallsKnow, CallKnows
    <2>7. \A u \in Callers : u # t /\ call[u].pc = "send" => ~ SameEvent(call[u].notice, n)
        BY <1>4 DEF Claims, CallsKnow, CallKnows, SameEvent
    <2>8. SendAlone'
        BY <2>2, <2>3, <2>7 DEF SendAlone, SameEvent
    <2>9. MailsClaimed' /\ EmailOncePerEvent' /\ SentMeansSent'
        BY <1>2, <2>1 DEF MailsClaimed, EmailOncePerEvent, SentMeansSent
    <2>10. SkippedForGood'
        <3>1. \A d \in dropped : ~ SameEvent(n, d)
            BY <1>4 DEF SkippedForGood, Claims, SameEvent
        <3> QED
            BY <1>2, <2>1, <2>2, <2>3, <3>1 DEF SkippedForGood
    <2> QED
        BY <2>4, <2>6, <2>8, <2>9, <2>10
<1> QED
    BY <1>3, <1>4

\* One more mail of the event a call was about to send is the first of it.
LEMMA OneMail ==
    ASSUME EmailInv, NEW t \in Callers, call[t].pc = "send", MailLeaves(t), UNCHANGED dropped
    PROVE  /\ mails' \in [Kinds \X EventKeys -> Nat]
           /\ Mails(mails', call[t].notice) = 1
           /\ \A n \in Notice : /\ Mails(mails', n) >= Mails(mails, n)
                                /\ ~ SameEvent(call[t].notice, n) => Mails(mails', n) = Mails(mails, n)
           /\ MailsClaimed' \/ email' # email
           /\ EmailOncePerEvent'
           /\ SentMeansSent' \/ sentAt' # sentAt
<1> USE DEF EmailInv
<1> DEFINE n == call[t].notice
           e == <<n.kind, n.key>>
<1>1. n \in Notice /\ n \in email /\ e \in Kinds \X EventKeys
    BY CallFields, NoticeFields DEF NoticesTypeOK, CallsKnow, CallKnows
<1>2. mails[e] = 0
    BY DEF CallsKnow, CallKnows, Mails
<1>3. mails' \in [Kinds \X EventKeys -> Nat] /\ mails' = [mails EXCEPT ![e] = mails[e] + 1]
    BY <1>1 DEF MailLeaves, NoticesTypeOK
<1>4. mails'[e] = 1 /\ \A k \in Kinds \X EventKeys : k # e => mails'[k] = mails[k]
    BY <1>1, <1>2, <1>3 DEF NoticesTypeOK
<1>5. \A o \in Notice : <<o.kind, o.key>> \in Kinds \X EventKeys /\ mails[<<o.kind, o.key>>] \in Nat
    BY NoticeFields DEF NoticesTypeOK
<1>6. \A o \in Notice : /\ Mails(mails', o) >= Mails(mails, o)
                        /\ ~ SameEvent(n, o) => Mails(mails', o) = Mails(mails, o)
    <2> SUFFICES ASSUME NEW o \in Notice
                 PROVE  /\ Mails(mails', o) >= Mails(mails, o)
                        /\ ~ SameEvent(n, o) => Mails(mails', o) = Mails(mails, o)
        OBVIOUS
    <2>1. CASE SameEvent(n, o)
        BY <1>2, <1>4, <2>1 DEF SameEvent, Mails
    <2>2. CASE ~ SameEvent(n, o)
        <3>1. <<o.kind, o.key>> # e
            BY <2>2 DEF SameEvent
        <3> QED
            BY <1>4, <1>5, <2>2, <3>1 DEF Mails
    <2> QED
        BY <2>1, <2>2
<1>7. MailsClaimed' \/ email' # email
    BY <1>1, <1>4 DEF MailsClaimed
<1>8. EmailOncePerEvent'
    BY <1>4 DEF EmailOncePerEvent
<1>9. SentMeansSent' \/ sentAt' # sentAt
    <2> SUFFICES ASSUME sentAt' = sentAt, NEW o \in sentAt
                 PROVE  IF o \in dropped THEN mails'[<<o.kind, o.key>>] = 0
                                          ELSE mails'[<<o.kind, o.key>>] >= 1
        BY DEF SentMeansSent
    <2>1. o \in Notice /\ mails'[<<o.kind, o.key>>] \in Nat
        BY <1>3, <1>5 DEF NoticesTypeOK
    <2>2. CASE o \in dropped
        <3>1. Mails(mails, o) = 0 /\ ~ SameEvent(n, o)
            BY <2>2 DEF SkippedForGood
        <3> QED
            BY <1>6, <2>1, <2>2, <3>1 DEF Mails
    <2>3. CASE o \notin dropped
        <3>1. mails[<<o.kind, o.key>>] >= 1
            BY <2>3 DEF SentMeansSent
        <3> QED
            BY <1>5, <1>6, <2>1, <2>3, <3>1 DEF Mails
    <2> QED
        BY <2>2, <2>3
<1> QED
    BY <1>3, <1>4, <1>6, <1>7, <1>8, <1>9 DEF Mails

\* The other calls lose nothing by it: none is about to mail the same event.
LEMMA OthersKnow ==
    ASSUME EmailInv, NEW t \in Callers, call[t].pc = "send", MailLeaves(t),
           UNCHANGED <<email, dropped>>, NEW u \in Callers, u # t
    PROVE  CallKnows(call[u], email', mails', dropped')
<1> USE DEF EmailInv
<1>1. CallKnows(call[u], email, mails, dropped)
    BY DEF CallsKnow
<1>2. CASE call[u].pc = "send"
    <2>1. call[u].notice \in Notice /\ ~ SameEvent(call[t].notice, call[u].notice)
        BY <1>2, CallFields DEF NoticesTypeOK, SendAlone
    <2> QED
        BY <1>1, <1>2, <2>1, OneMail DEF CallKnows
<1>3. CASE call[u].pc = "mark"
    <2>1. call[u].notice \in Notice
        BY <1>3, CallFields DEF NoticesTypeOK
    <2>2. <<call[u].notice.kind, call[u].notice.key>> \in Kinds \X EventKeys
        BY <2>1, NoticeFields
    <2>3. Mails(mails, call[u].notice) \in Nat /\ Mails(mails', call[u].notice) \in Nat
        BY <2>2, OneMail DEF Mails, NoticesTypeOK
    <2> QED
        BY <1>1, <1>3, <2>1, <2>3, OneMail DEF CallKnows
<1> QED
    BY <1>1, <1>2, <1>3 DEF CallKnows

\* What was skipped before is skipped still, whatever mail leaves.
LEMMA SkippedStill ==
    ASSUME EmailInv, NEW t \in Callers, call[t].pc = "send", MailLeaves(t),
           UNCHANGED <<email, dropped>>, call'[t].pc # "send",
           \A u \in Callers : u # t => call'[u] = call[u]
    PROVE  SkippedForGood'
<1> USE DEF EmailInv
<1> SUFFICES ASSUME NEW n \in dropped
             PROVE  /\ Mails(mails', n) = 0
                    /\ \A u \in Callers : call'[u].pc = "send" => ~ SameEvent(call'[u].notice, n)
    BY DEF SkippedForGood
<1>1. n \in Notice /\ Mails(mails, n) = 0 /\ ~ SameEvent(call[t].notice, n)
    BY DEF SkippedForGood, NoticesTypeOK
<1> QED
    BY <1>1, OneMail DEF SkippedForGood

\* Without EMAIL_SERVER the call goes on as if it had sent.
LEMMA KeptBySkip ==
    ASSUME EmailInv, NEW t \in Callers, call[t].pc = "send", MailSkipped(t),
           NEW r \in CallRecord, r.pc = "mark", r.notice = call[t].notice, Goto(t, r),
           UNCHANGED <<inApp, email, sentAt, mails, pref, saving, queue, failures>>
    PROVE  EmailInv'
<1> USE DEF EmailInv
<1> DEFINE n == call[t].notice
<1>1. n \in Notice /\ n \in email /\ Mails(mails, n) = 0
    BY CallFields DEF NoticesTypeOK, CallsKnow, CallKnows
<1>2. /\ call' \in [Callers -> CallRecord \cup {Idle}]
      /\ call'[t] = r
      /\ \A u \in Callers : u # t => call'[u] = call[u]
    BY OneCallMoves
<1>3. dropped' = dropped \cup {n}
    BY DEF MailSkipped
<1>4. NoticesTypeOK'
    BY <1>1, <1>2, <1>3 DEF NoticesTypeOK
<1>5. CallsKnow'
    BY <1>1, <1>2, <1>3 DEF CallsKnow, CallKnows
<1>6. \A u \in Callers : u # t /\ call[u].pc = "send" => ~ SameEvent(call[u].notice, n)
    BY DEF SendAlone
<1>7. SkippedForGood'
    BY <1>1, <1>2, <1>3, <1>6 DEF SkippedForGood
<1>8. SendAlone'
    BY <1>2 DEF SendAlone
<1>9. MailsClaimed' /\ EmailOncePerEvent'
    BY DEF MailsClaimed, EmailOncePerEvent
<1>10. SentMeansSent'
    BY <1>1, <1>3 DEF SentMeansSent, Mails
<1> QED
    BY <1>4, <1>5, <1>7, <1>8, <1>9, <1>10

LEMMA KeptBySend ==
    ASSUME EmailInv, NEW t \in Callers, Send(t)
    PROVE  EmailInv'
<1> USE DEF EmailInv
<1> DEFINE r == [call[t] EXCEPT !.pc = "mark"]
<1>1. call[t].pc = "send" /\ Goto(t, r)
      /\ UNCHANGED <<inApp, email, sentAt, pref, saving, queue, failures>>
    BY DEF Send, prefs
<1>2. call[t] \in CallRecord /\ call[t].notice \in Notice
    BY <1>1, CallFields DEF NoticesTypeOK
<1>3. r \in CallRecord /\ r.pc = "mark" /\ r.notice = call[t].notice
    BY <1>2, CallMoves
<1> HIDE DEF r
<1>4. /\ call' \in [Callers -> CallRecord \cup {Idle}]
      /\ call'[t] = r
      /\ \A u \in Callers : u # t => call'[u] = call[u]
    BY <1>1, <1>3, OneCallMoves
<1>5. CASE MailLeaves(t) /\ UNCHANGED dropped
    <2>1. /\ mails' \in [Kinds \X EventKeys -> Nat]
          /\ Mails(mails', call[t].notice) = 1
          /\ MailsClaimed' /\ EmailOncePerEvent' /\ SentMeansSent'
        BY <1>1, <1>5, OneMail
    <2>2. NoticesTypeOK'
        BY <1>1, <1>4, <1>5, <2>1 DEF NoticesTypeOK
    <2>3. CallKnows(r, email', mails', dropped')
        BY <1>1, <1>3, <1>5, <2>1 DEF CallsKnow, CallKnows
    <2>4. CallsKnow'
        BY <1>1, <1>4, <1>5, <2>3, OthersKnow DEF CallsKnow
    <2>5. SendAlone'
        BY <1>3, <1>4 DEF SendAlone
    <2>6. SkippedForGood'
        BY <1>1, <1>3, <1>4, <1>5, SkippedStill
    <2> QED
        BY <2>1, <2>2, <2>4, <2>5, <2>6
<1>6. CASE MailSkipped(t) /\ UNCHANGED mails
    BY <1>1, <1>3, <1>6, KeptBySkip
<1> QED
    BY <1>5, <1>6 DEF Send

LEMMA KeptBySendFails ==
    ASSUME EmailInv, NEW t \in Callers, SendFails(t)
    PROVE  EmailInv'
<1> USE DEF EmailInv
<1>1. /\ call[t].pc = "send" /\ Goto(t, Idle) /\ failures' \in 0..MaxFailures
      /\ UNCHANGED <<inApp, email, sentAt, dropped, pref, saving, queue>>
    BY FailureAssumption DEF SendFails, LeftUnsent, Fails, prefs, NoticesTypeOK
<1>2. Idle \in CallRecord \cup {Idle} /\ Idle.pc = "idle"
    BY DEF Idle
<1>3. /\ call' \in [Callers -> CallRecord \cup {Idle}]
      /\ call'[t] = Idle
      /\ \A u \in Callers : u # t => call'[u] = call[u]
    BY <1>1, <1>2, OneCallMoves
<1>4. CASE UNCHANGED mails
    <2>1. NoticesTypeOK'
        BY <1>1, <1>3, <1>4 DEF NoticesTypeOK
    <2> QED
        BY <1>1, <1>2, <1>4, <2>1, CallRests
<1>5. CASE MailLeaves(t)
    <2>1. /\ mails' \in [Kinds \X EventKeys -> Nat]
          /\ MailsClaimed' /\ EmailOncePerEvent' /\ SentMeansSent'
        BY <1>1, <1>5, OneMail
    <2>2. NoticesTypeOK'
        BY <1>1, <1>3, <2>1 DEF NoticesTypeOK
    <2>3. CallKnows(Idle, email', mails', dropped')
        BY <1>2 DEF CallKnows
    <2>4. CallsKnow'
        BY <1>1, <1>3, <1>5, <2>3, OthersKnow DEF CallsKnow
    <2>5. SendAlone'
        BY <1>2, <1>3 DEF SendAlone
    <2>6. SkippedForGood'
        BY <1>1, <1>2, <1>3, <1>5, SkippedStill
    <2> QED
        BY <2>1, <2>2, <2>4, <2>5, <2>6
<1> QED
    BY <1>4, <1>5 DEF SendFails

LEMMA KeptByMarkSent ==
    ASSUME EmailInv, NEW t \in Callers, MarkSent(t)
    PROVE  EmailInv'
<1> USE DEF EmailInv
<1>1. /\ call[t].pc = "mark" /\ Goto(t, Idle) /\ sentAt' = sentAt \cup {call[t].notice}
      /\ UNCHANGED <<inApp, email, mails, dropped, pref, saving, queue, failures>>
    BY DEF MarkSent, prefs
<1>2. Idle \in CallRecord \cup {Idle} /\ Idle.pc = "idle"
    BY DEF Idle
<1>3. /\ call' \in [Callers -> CallRecord \cup {Idle}]
      /\ call'[t] = Idle
      /\ \A u \in Callers : u # t => call'[u] = call[u]
    BY <1>1, <1>2, OneCallMoves
<1>4. /\ call[t].notice \in email
      /\ Mails(mails, call[t].notice) >= 1 \/ call[t].notice \in dropped
    BY <1>1 DEF CallsKnow, CallKnows
<1>5. NoticesTypeOK'
    BY <1>1, <1>3, <1>4 DEF NoticesTypeOK
<1>6. CallsKnow'
    BY <1>1, <1>2, <1>3 DEF CallsKnow, CallKnows
<1>7. SendAlone'
    BY <1>2, <1>3 DEF SendAlone
<1>8. SkippedForGood'
    BY <1>1, <1>2, <1>3 DEF SkippedForGood
<1>9. MailsClaimed' /\ EmailOncePerEvent'
    BY <1>1 DEF MailsClaimed, EmailOncePerEvent
<1>10. SentMeansSent'
    BY <1>1, <1>4 DEF SentMeansSent, SkippedForGood, Mails
<1> QED
    BY <1>5, <1>6, <1>7, <1>8, <1>9, <1>10

\* Steps that touch neither the rows nor the mails: what is asked of a caller,
\* a failing statement, preferences, a crash.
LEMMA KeptByTheRest ==
    ASSUME EmailInv, UNCHANGED written, NoticesTypeOK',
           \A t \in Callers : call'[t] = call[t] \/ call'[t] = Idle
    PROVE  EmailInv'
<1> USE DEF EmailInv
<1>1. UNCHANGED <<inApp, email, sentAt, mails, dropped>> /\ Idle.pc = "idle"
    BY DEF written, Idle
<1>2. CallsKnow'
    BY <1>1 DEF CallsKnow, CallKnows
<1>3. SendAlone'
    BY <1>1 DEF SendAlone
<1>4. MailsClaimed' /\ EmailOncePerEvent' /\ SentMeansSent'
    BY <1>1 DEF MailsClaimed, EmailOncePerEvent, SentMeansSent
<1>5. SkippedForGood'
    BY <1>1 DEF SkippedForGood
<1> QED
    BY <1>2, <1>3, <1>4, <1>5

LEMMA KeptByNotifyFails ==
    ASSUME EmailInv, NEW t \in Callers, NotifyFails(t)
    PROVE  EmailInv'
<1> USE DEF EmailInv
<1>1. /\ Goto(t, Idle) /\ failures' \in 0..MaxFailures
      /\ queue' = [queue EXCEPT ![t] = IF t \in Tolerant THEN @ ELSE {}]
      /\ UNCHANGED <<inApp, email, sentAt, mails, dropped, pref, saving>>
    BY FailureAssumption DEF NotifyFails, Fails, NoticesTypeOK, written, prefs
<1>2. /\ call' \in [Callers -> CallRecord \cup {Idle}]
      /\ \A u \in Callers : call'[u] = call[u] \/ call'[u] = Idle
    BY <1>1, OneCallMoves DEF Idle
<1>3. NoticesTypeOK'
    BY <1>1, <1>2 DEF NoticesTypeOK
<1> QED
    BY <1>1, <1>2, <1>3, KeptByTheRest DEF written

\* A preference saved is one of those there are.
LEMMA KeptByPrefStep ==
    ASSUME EmailInv, PrefStep
    PROVE  EmailInv'
<1> USE DEF EmailInv
<1>1. UNCHANGED <<inApp, email, sentAt, mails, dropped, queue, call, failures>>
    BY DEF PrefStep, PrefRead, PrefWrite, written
<1>2. PICK q \in PrefRequests : PrefWrite(q) \/ \E m \in Members : PrefRead(q, m)
    BY DEF PrefStep
<1>3. pref' \in [Members -> Pref] /\ saving' \in [PrefRequests -> SaveRecord \cup {Idle}]
    <2>1. CASE PrefWrite(q)
        <3>1. saving[q] \in SaveRecord
            BY <2>1 DEF PrefWrite, NoticesTypeOK, Idle
        <3> QED
            BY <2>1, <3>1 DEF PrefWrite, NoticesTypeOK, SaveRecord
    <2>2. CASE \E m \in Members : PrefRead(q, m)
        <3>1. PICK m \in Members : PrefRead(q, m)
            BY <2>2
        <3>2. PICK s \in Switches :
                saving' = [saving EXCEPT ![q] = [pc |-> "save", member |-> m,
                                                 pref |-> [pref[m] EXCEPT ![s] = ~ pref[m][s]]]]
            BY <3>1 DEF PrefRead
        <3>3. [pref[m] EXCEPT ![s] = ~ pref[m][s]] \in Pref
            BY <3>2, PrefAssumption DEF Pref, NoticesTypeOK
        <3> QED
            BY <3>1, <3>2, <3>3 DEF PrefRead, NoticesTypeOK, SaveRecord
    <2> QED
        BY <1>2, <2>1, <2>2
<1>4. NoticesTypeOK'
    BY <1>1, <1>3 DEF NoticesTypeOK
<1> QED
    BY <1>1, <1>4, KeptByTheRest DEF written

LEMMA KeptByCrash ==
    ASSUME EmailInv, Crash
    PROVE  EmailInv'
<1> USE DEF EmailInv
<1>1. /\ failures' \in 0..MaxFailures
      /\ queue' = [t \in Callers |-> {}] /\ call' = [t \in Callers |-> Idle]
      /\ UNCHANGED <<inApp, email, sentAt, mails, dropped, pref, saving>>
    BY FailureAssumption DEF Crash, Fails, AllCallersDie, NoticesTypeOK, written, prefs
<1>2. NoticesTypeOK'
    BY <1>1 DEF NoticesTypeOK
<1> QED
    BY <1>1, <1>2, KeptByTheRest DEF written

\* Whatever a caller does in notify keeps the invariant.
LEMMA KeptByNotify ==
    ASSUME EmailInv, NEW t \in Callers, NotifyStep(t)
    PROVE  EmailInv'
    BY KeptByNotifyRead, KeptByClaimInApp, KeptByClaimEmail, KeptBySend, KeptBySendFails,
       KeptByMarkSent DEF NotifyStep

LEMMA EmailInvAtFirst ==
    ASSUME NoticesInit
    PROVE  EmailInv
<1>1. NoticesTypeOK
    BY PrefAssumption, FailureAssumption DEF NoticesInit, NoticesTypeOK
<1>2. \A t \in Callers : call[t].pc = "idle"
    BY DEF NoticesInit, Idle
<1>3. CallsKnow /\ SendAlone
    BY <1>2 DEF CallsKnow, CallKnows, SendAlone
<1>4. MailsClaimed /\ EmailOncePerEvent /\ SentMeansSent /\ SkippedForGood
    BY DEF NoticesInit, MailsClaimed, EmailOncePerEvent, SentMeansSent, SkippedForGood
<1> QED
    BY <1>1, <1>3, <1>4 DEF EmailInv
-----------------------------------------------------------------------------
(* Part two: what the chain says, and what is read of it.                   *)

PassRecord == ObserveRecord \cup RemindRecord \cup {Idle}

\* A pass at a statement of the observation carries its list.
LEMMA PassFields ==
    ASSUME NEW p \in PassRecord
    PROVE  /\ p.pc \in {"payer", "match", "confirm"} => p \in ObserveRecord
           /\ p.pc \in {"idle", "late", "payer", "match", "confirm"}
           /\ p = Idle => p.pc = "idle"
           /\ p \in ObserveRecord => /\ p.rest \subseteq Item /\ p.mine \subseteq Item
                                     /\ p.seen \in 0..MaxTransfers
                                     /\ p.confirm \subseteq Contributions
    BY DEF PassRecord, ObserveRecord, RemindRecord, Idle

\* A pass that reads, or ends its list, carries what it carried.
LEMMA PassMoves ==
    ASSUME NEW p \in ObserveRecord
    PROVE  /\ NextPayer(p) \in ObserveRecord
           /\ NextPayer(p).rest = p.rest /\ NextPayer(p).mine = p.mine
           /\ NextPayer(p).seen = p.seen /\ NextPayer(p).confirm = p.confirm
    BY DEF NextPayer, ObserveRecord

\* Among some of the first n transfers one is the newest.
LEMMA NewestExists ==
    ASSUME NEW n \in Nat, NEW S \in SUBSET (1..n), S # {}
    PROVE  \E k \in S : \A j \in S : j <= k
<1> DEFINE T == {n - k : k \in S}
<1>1. T \subseteq Nat /\ T # {}
    <2>1. \A k \in S : k \in 1..n
        OBVIOUS
    <2>2. \A k \in S : n - k \in Nat
        BY <2>1
    <2> QED
        BY <2>2
<1>2. PICK x \in T : \A y \in T : ~ (<<y, x>> \in OpToRel(<, Nat))
    BY <1>1, NatLessThanWellFounded, WFMin, Zenon
<1>3. \A y \in T : ~ (y < x)
    BY <1>1, <1>2 DEF OpToRel
<1>4. PICK k \in S : x = n - k
    OBVIOUS
<1>5. \A j \in S : n - j \in T /\ j \in Int
    OBVIOUS
<1> HIDE DEF T
<1>6. \A j \in S : ~ (n - j < n - k)
    BY <1>3, <1>4, <1>5
<1>7. \A j \in S : j <= k
    BY <1>5, <1>6
<1> QED
    BY <1>7

\* So what is taken for her payment is a transfer of hers that was seen.
LEMMA NewestMatches ==
    ASSUME NEW i \in Item, NEW n \in Nat
    PROVE  Newest(i, n) = 0 \/ (Newest(i, n) \in 1..n /\ Matches(i, Newest(i, n)))
<1> DEFINE hits == {k \in 1..n : Matches(i, k)}
<1>1. CASE hits = {}
    BY <1>1 DEF Newest
<1>2. CASE hits # {}
    <2>1. hits \in SUBSET (1..n)
        OBVIOUS
    <2>2. \E k \in hits : \A j \in hits : j <= k
        <3> HIDE DEF hits
        <3> QED
            BY <1>2, <2>1, NewestExists
    <2>3. Newest(i, n) = CHOOSE k \in hits : \A j \in hits : j <= k
        BY <1>2 DEF Newest
    <2>4. Newest(i, n) \in hits
        <3> HIDE DEF hits
        <3> QED
            BY <2>2, <2>3
    <2> QED
        BY <2>4
<1> QED
    BY <1>1, <1>2

\* The full amount went from an address she has had to the round's.
PaidInFull(c, frozen, had, transfers) ==
    \E k \in 1..Len(transfers) : /\ transfers[k].to = frozen[c[1]]
                                 /\ transfers[k].from \in had[c[2]]
                                 /\ transfers[k].amount = "enough"

\* A round has a frozen destination from its opening on,
DestFrozen == \A r \in Rounds : dest[r] = NoWallet <=> roundState[r] = "scheduled"

\* and the books of the model know each address a member has.
WalletHeld == \A m \in Members : wallet[m] \in held[m] \cup {NoWallet}

\* What a pass listed earlier: the frozen destination, and an address she had.
ItemKnown(i, frozen, had) == i.dest = frozen[i.key[1]] /\ i.payer \in had[i.key[2]]

\* What a pass relies on between its statements.
PassKnows(p, frozen, had, transfers) ==
    p \in ObserveRecord =>
        /\ \A i \in p.rest \cup p.mine : ItemKnown(i, frozen, had)
        /\ p.seen <= Len(transfers)
        /\ \A c \in p.confirm : PaidInFull(c, frozen, had, transfers)

PassesKnow == \A t \in Callers : PassKnows(pass[t], dest, held, chain)

\* A confirmation on its way to a member, wherever it is, is about money sent.
NoticeBacked(n, frozen, had, transfers) ==
    n.kind = "payment_confirmed" => PaidInFull(n.key, frozen, had, transfers)

QueueBacked ==
    \A t \in Callers : \A n \in queue[t] : NoticeBacked(n, dest, held, chain)
CallBacked ==
    \A t \in Callers : call[t] # Idle => NoticeBacked(call[t].notice, dest, held, chain)

\* A mark is of a transfer that is on the chain.
MarksKnown == \A c \in Contributions : contrib[c].tx > 0 => contrib[c].tx <= Len(chain)

LedgerInv ==
    /\ TypeOK
    /\ EmailInv
    /\ DestFrozen
    /\ WalletHeld
    /\ PassesKnow
    /\ QueueBacked
    /\ CallBacked
    /\ MarksKnown
    /\ MarkedByATransfer
    /\ ConfirmedWasPaid

\* A destination once frozen stays, no address she had is forgotten, and the
\* chain is only appended to.
Grows ==
    /\ \A r \in Rounds : dest[r] # NoWallet => dest'[r] = dest[r]
    /\ \A m \in Members : held[m] \subseteq held'[m]
    /\ Len(chain) <= Len(chain')
    /\ \A k \in 1..Len(chain) : chain'[k] = chain[k]

LEMMA TransferFields ==
    ASSUME TypeOK, NEW k \in 1..Len(chain)
    PROVE  /\ Len(chain) \in Nat
           /\ chain[k].from \in Wallets /\ chain[k].to \in Wallets
           /\ chain[k].amount \in {"enough", "short"}
<1>1. chain[k] \in Transfer /\ Len(chain) \in Nat
    BY DEF TypeOK
<1> QED
    BY <1>1 DEF Transfer

LEMMA ContributionFields ==
    ASSUME NEW c \in Contributions
    PROVE  c = <<c[1], c[2]>> /\ c[1] \in Rounds /\ c[2] \in Members
    BY DEF Contributions

\* So a payment in full is one for good.
LEMMA PaidStays ==
    ASSUME TypeOK, TypeOK', Grows, NEW c \in Contributions, PaidInFull(c, dest, held, chain)
    PROVE  PaidInFull(c, dest', held', chain')
<1>1. PICK k \in 1..Len(chain) : /\ chain[k].to = dest[c[1]]
                                 /\ chain[k].from \in held[c[2]]
                                 /\ chain[k].amount = "enough"
    BY DEF PaidInFull
<1>2. dest[c[1]] # NoWallet
    BY <1>1, TransferFields, WalletAssumption
<1>3. k \in 1..Len(chain') /\ chain'[k] = chain[k]
    BY DEF Grows, TypeOK
<1>4. dest'[c[1]] = dest[c[1]] /\ chain[k].from \in held'[c[2]]
    BY <1>1, <1>2, ContributionFields DEF Grows
<1> QED
    BY <1>1, <1>3, <1>4 DEF PaidInFull

\* What a pass relies on stays true while others write.
LEMMA PassKnowsStays ==
    ASSUME TypeOK, TypeOK', Grows, NEW p \in PassRecord, PassKnows(p, dest, held, chain)
    PROVE  PassKnows(p, dest', held', chain')
<1> SUFFICES ASSUME p \in ObserveRecord
             PROVE  /\ \A i \in p.rest \cup p.mine : ItemKnown(i, dest', held')
                    /\ p.seen <= Len(chain')
                    /\ \A c \in p.confirm : PaidInFull(c, dest', held', chain')
    BY DEF PassKnows
<1>1. /\ p.rest \subseteq Item /\ p.mine \subseteq Item /\ p.seen \in Nat
      /\ p.confirm \subseteq Contributions
    BY PassFields, PassAssumption
<1>2. ASSUME NEW i \in p.rest \cup p.mine
      PROVE  ItemKnown(i, dest', held')
    <2>1. i.key \in Contributions /\ i.dest \in Wallets
        BY <1>1 DEF Item
    <2>2. ItemKnown(i, dest, held)
        BY DEF PassKnows
    <2> QED
        BY <2>1, <2>2, ContributionFields, WalletAssumption DEF ItemKnown, Grows
<1>3. p.seen <= Len(chain')
    BY <1>1 DEF PassKnows, Grows, TypeOK
<1>4. \A c \in p.confirm : PaidInFull(c, dest', held', chain')
    BY <1>1, PaidStays DEF PassKnows
<1> QED
    BY <1>2, <1>3, <1>4

\* So is a confirmation backed wherever it gets to.
LEMMA BackedStays ==
    ASSUME TypeOK, TypeOK', Grows, NEW n \in Notice, NoticeBacked(n, dest, held, chain)
    PROVE  NoticeBacked(n, dest', held', chain')
<1>1. n.key \in Contributions
    BY NoticeFields, PassAssumption
<1> QED
    BY <1>1, PaidStays DEF NoticeBacked

LEMMA RowFields ==
    ASSUME TypeOK, NEW c \in Contributions
    PROVE  /\ contrib[c].tx \in Nat
           /\ contrib[c].tx > 0 => contrib[c].tx \in 1..MaxTransfers
           /\ contrib[c] = Pending => contrib[c].tx = 0
           /\ contrib[c] = Unwritten => contrib[c].tx = 0
<1>1. contrib[c] \in {Unwritten, Pending} \cup [status : {"paid", "partial"}, tx : 1..MaxTransfers]
    BY DEF TypeOK
<1> QED
    BY <1>1, PassAssumption DEF Unwritten, Pending

\* A mark is of a transfer on the chain, from an address she has had to the
\* round's, and as much as it says.
MarkTrue(row, c, frozen, had, transfers) ==
    /\ row.tx <= Len(transfers)
    /\ transfers[row.tx].to = frozen[c[1]]
    /\ transfers[row.tx].from \in had[c[2]]
    /\ row.status = "paid" => transfers[row.tx].amount = "enough"

\* A mark that was true stays so.
LEMMA MarkStays ==
    ASSUME TypeOK, TypeOK', Grows, NEW c \in Contributions, NEW row, row.tx \in Nat, row.tx > 0,
           MarkTrue(row, c, dest, held, chain)
    PROVE  MarkTrue(row, c, dest', held', chain')
<1>1. row.tx \in 1..Len(chain)
    BY DEF MarkTrue, TypeOK
<1>2. dest[c[1]] # NoWallet
    BY <1>1, TransferFields, WalletAssumption DEF MarkTrue
<1>3. /\ row.tx <= Len(chain') /\ chain'[row.tx] = chain[row.tx]
      /\ dest'[c[1]] = dest[c[1]] /\ held[c[2]] \subseteq held'[c[2]]
    BY <1>1, <1>2, ContributionFields DEF Grows, TypeOK
<1> QED
    BY <1>3 DEF MarkTrue

\* What is known of the ledger, the passes and the callers, told by the chain
\* and the addresses as they are before a step.
LEMMA KnownBefore ==
    ASSUME LedgerInv
    PROVE  /\ \A t \in Callers : PassKnows(pass[t], dest, held, chain)
           /\ \A t \in Callers : \A n \in queue[t] : NoticeBacked(n, dest, held, chain)
           /\ \A t \in Callers : call[t] # Idle => NoticeBacked(call[t].notice, dest, held, chain)
           /\ \A c \in Contributions : contrib[c].tx > 0 => MarkTrue(contrib[c], c, dest, held, chain)
           /\ \A n \in inApp : NoticeBacked(n, dest, held, chain)
<1> USE DEF LedgerInv
<1>1. \A n \in inApp : NoticeBacked(n, dest, held, chain)
    BY DEF ConfirmedWasPaid, NoticeBacked, PaidInFull
<1>2. \A c \in Contributions : contrib[c].tx > 0 => MarkTrue(contrib[c], c, dest, held, chain)
    BY DEF MarksKnown, MarkedByATransfer, MarkTrue
<1> QED
    BY <1>1, <1>2 DEF PassesKnow, QueueBacked, CallBacked

\* What a step writes it must know by the chain and the addresses before it.
KnownStep ==
    /\ \A t \in Callers : PassKnows(pass'[t], dest, held, chain)
    /\ \A t \in Callers : \A n \in queue'[t] : NoticeBacked(n, dest, held, chain)
    /\ \A t \in Callers : call'[t] # Idle => NoticeBacked(call'[t].notice, dest, held, chain)
    /\ \A c \in Contributions : contrib'[c].tx > 0 => MarkTrue(contrib'[c], c, dest, held, chain)
    /\ \A n \in inApp' : NoticeBacked(n, dest, held, chain)

\* Then it is known after it.
LEMMA LedgerStep ==
    ASSUME LedgerInv, TypeOK', EmailInv', DestFrozen', WalletHeld', Grows, KnownStep
    PROVE  LedgerInv'
<1> USE DEF LedgerInv
<1>1. PassesKnow'
    BY PassKnowsStays DEF PassesKnow, KnownStep, TypeOK, PassRecord
<1>2. QueueBacked'
    <2>1. \A t \in Callers : \A n \in queue'[t] : n \in Notice
        BY DEF TypeOK, NoticesTypeOK
    <2> QED
        BY <2>1, BackedStays DEF QueueBacked, KnownStep
<1>3. CallBacked'
    <2>1. \A t \in Callers : call'[t] # Idle => call'[t].notice \in Notice
        BY DEF TypeOK, NoticesTypeOK, CallRecord
    <2> QED
        BY <2>1, BackedStays DEF CallBacked, KnownStep
<1>4. \A c \in Contributions : contrib'[c].tx > 0 => MarkTrue(contrib'[c], c, dest', held', chain')
    <2>1. \A c \in Contributions : contrib'[c].tx \in Nat
        <3>1. \A c \in Contributions : contrib'[c] \in {Unwritten, Pending}
                                           \cup [status : {"paid", "partial"}, tx : 1..MaxTransfers]
            BY DEF TypeOK
        <3> QED
            BY <3>1, PassAssumption DEF Unwritten, Pending
    <2> QED
        BY <2>1, MarkStays DEF KnownStep
<1>5. MarksKnown' /\ MarkedByATransfer'
    BY <1>4 DEF MarksKnown, MarkedByATransfer, MarkTrue
<1>6. ConfirmedWasPaid'
    <2>1. \A n \in inApp' : NoticeBacked(n, dest', held', chain')
        BY BackedStays DEF KnownStep, TypeOK, NoticesTypeOK
    <2> QED
        BY <2>1 DEF ConfirmedWasPaid, NoticeBacked, PaidInFull
<1> QED
    BY <1>1, <1>2, <1>3, <1>5, <1>6

-----------------------------------------------------------------------------
(* The rounds and the chain.                                                *)

\* A step that leaves the callers alone, and what they say.
LEMMA NoticesStand ==
    ASSUME LedgerInv, UNCHANGED noticeVars
    PROVE  /\ EmailInv' /\ NoticesTypeOK'
           /\ \A t \in Callers : \A n \in queue'[t] : NoticeBacked(n, dest, held, chain)
           /\ \A t \in Callers : call'[t] # Idle => NoticeBacked(call'[t].notice, dest, held, chain)
           /\ \A n \in inApp' : NoticeBacked(n, dest, held, chain)
<1>1. UNCHANGED <<written, queue, call, inApp, email, sentAt, mails, dropped, pref, saving, failures>>
    BY DEF noticeVars, written, prefs
<1>2. NoticesTypeOK'
    BY <1>1 DEF LedgerInv, EmailInv, NoticesTypeOK
<1>3. EmailInv'
    BY <1>1, <1>2, KeptByTheRest DEF LedgerInv
<1> QED
    BY <1>1, <1>2, <1>3, KnownBefore

LEMMA KeptByRoundOpens ==
    ASSUME LedgerInv, NEW r \in Rounds, RoundOpens(r)
    PROVE  LedgerInv'
<1> USE DEF LedgerInv
<1> DEFINE a == wallet[Recipient[r]]
<1>1. /\ roundState[r] = "scheduled" /\ a # NoWallet
      /\ dest' = [dest EXCEPT ![r] = a]
      /\ roundState' = [q \in Rounds |->
                          IF q = r THEN "open"
                          ELSE IF q \in Siblings(r) /\ roundState[q] = "open" THEN "completed"
                          ELSE roundState[q]]
      /\ openedAt' = [openedAt EXCEPT ![r] = Len(chain)]
      /\ UNCHANGED <<noticeVars, late, contrib, wallet, held, chain, pass>>
    BY DEF RoundOpens, wallets
<1>2. a \in Wallets
    BY <1>1, RoundAssumption DEF TypeOK
<1>3. NoticesTypeOK' /\ EmailInv'
    BY <1>1, NoticesStand
<1>4. TypeOK'
    <2>1. roundState' \in [Rounds -> {"scheduled", "open", "completed"}]
        BY <1>1 DEF TypeOK
    <2>2. openedAt' \in [Rounds -> 0..MaxTransfers]
        BY <1>1, PassAssumption DEF TypeOK
    <2> QED
        BY <1>1, <1>2, <1>3, <2>1, <2>2 DEF TypeOK
<1>5. dest'[r] = a /\ \A q \in Rounds : q # r => dest'[q] = dest[q]
    BY <1>1 DEF TypeOK
<1>6. DestFrozen'
    BY <1>1, <1>5 DEF DestFrozen
<1>7. WalletHeld'
    BY <1>1 DEF WalletHeld
<1>8. Grows
    <2>1. dest[r] = NoWallet
        BY <1>1 DEF DestFrozen
    <2> QED
        BY <1>1, <1>5, <2>1 DEF Grows, TypeOK
<1>9. KnownStep
    BY <1>1, NoticesStand, KnownBefore DEF KnownStep
<1> QED
    BY <1>3, <1>4, <1>6, <1>7, <1>8, <1>9, LedgerStep

LEMMA KeptByDuesComeDue ==
    ASSUME LedgerInv, NEW r \in Rounds, DuesComeDue(r)
    PROVE  LedgerInv'
<1> USE DEF LedgerInv
<1>1. /\ contrib' = [c \in Contributions |-> IF c[1] = r /\ c[2] # Recipient[r]
                                             THEN Pending ELSE contrib[c]]
      /\ UNCHANGED <<noticeVars, roundState, dest, openedAt, late, wallet, held, chain, pass>>
    BY DEF DuesComeDue, rounds, wallets
<1>2. NoticesTypeOK' /\ EmailInv'
    BY <1>1, NoticesStand
<1>3. TypeOK'
    BY <1>1, <1>2 DEF TypeOK
<1>4. DestFrozen' /\ WalletHeld' /\ Grows
    BY <1>1 DEF DestFrozen, WalletHeld, Grows, TypeOK
<1>5. \A c \in Contributions : contrib'[c].tx > 0 => contrib'[c] = contrib[c]
    BY <1>1 DEF Pending
<1>6. KnownStep
    BY <1>1, <1>5, NoticesStand, KnownBefore DEF KnownStep
<1> QED
    BY <1>2, <1>3, <1>4, <1>6, LedgerStep

LEMMA KeptByRoundCloses ==
    ASSUME LedgerInv, NEW r \in Rounds, RoundCloses(r)
    PROVE  LedgerInv'
<1> USE DEF LedgerInv
<1>1. /\ roundState[r] = "open"
      /\ roundState' = [roundState EXCEPT ![r] = "completed"]
      /\ UNCHANGED <<noticeVars, dest, openedAt, late, contrib, wallet, held, chain, pass>>
    BY DEF RoundCloses, wallets
<1>2. NoticesTypeOK' /\ EmailInv'
    BY <1>1, NoticesStand
<1>3. TypeOK'
    BY <1>1, <1>2 DEF TypeOK
<1>4. DestFrozen' /\ WalletHeld' /\ Grows
    BY <1>1 DEF DestFrozen, WalletHeld, Grows, TypeOK
<1>5. KnownStep
    BY <1>1, NoticesStand, KnownBefore DEF KnownStep
<1> QED
    BY <1>2, <1>3, <1>4, <1>5, LedgerStep

LEMMA KeptByGraceEnds ==
    ASSUME LedgerInv, NEW r \in Rounds, GraceEnds(r)
    PROVE  LedgerInv'
<1> USE DEF LedgerInv
<1>1. /\ late' = late \cup {r}
      /\ UNCHANGED <<noticeVars, roundState, dest, openedAt, contrib, wallet, held, chain, pass>>
    BY DEF GraceEnds, wallets
<1>2. NoticesTypeOK' /\ EmailInv'
    BY <1>1, NoticesStand
<1>3. TypeOK'
    BY <1>1, <1>2 DEF TypeOK
<1>4. DestFrozen' /\ WalletHeld' /\ Grows
    BY <1>1 DEF DestFrozen, WalletHeld, Grows, TypeOK
<1>5. KnownStep
    BY <1>1, NoticesStand, KnownBefore DEF KnownStep
<1> QED
    BY <1>2, <1>3, <1>4, <1>5, LedgerStep

LEMMA KeptBySetAddress ==
    ASSUME LedgerInv, NEW m \in Members, NEW a \in Wallets \cup {NoWallet}, SetAddress(m, a)
    PROVE  LedgerInv'
<1> USE DEF LedgerInv
<1>1. /\ wallet' = [wallet EXCEPT ![m] = a]
      /\ held' = [held EXCEPT ![m] = @ \cup ({a} \cap Wallets)]
      /\ UNCHANGED <<noticeVars, roundState, dest, openedAt, late, contrib, chain, pass>>
    BY DEF SetAddress, rounds
<1>2. NoticesTypeOK' /\ EmailInv'
    BY <1>1, NoticesStand
<1>3. TypeOK'
    BY <1>1, <1>2 DEF TypeOK
<1>4. /\ wallet'[m] = a /\ held'[m] = held[m] \cup ({a} \cap Wallets)
      /\ \A n \in Members : n # m => wallet'[n] = wallet[n] /\ held'[n] = held[n]
    BY <1>1 DEF TypeOK
<1>5. DestFrozen' /\ WalletHeld' /\ Grows
    BY <1>1, <1>4 DEF DestFrozen, WalletHeld, Grows, TypeOK
<1>6. KnownStep
    BY <1>1, NoticesStand, KnownBefore DEF KnownStep
<1> QED
    BY <1>2, <1>3, <1>5, <1>6, LedgerStep

LEMMA KeptByTokensMove ==
    ASSUME LedgerInv, NEW a \in Wallets, NEW b \in Wallets, NEW n \in {"enough", "short"},
           TokensMove(a, b, n)
    PROVE  LedgerInv'
<1> USE DEF LedgerInv
<1> DEFINE new == [from |-> a, to |-> b, amount |-> n]
<1>1. /\ Len(chain) < MaxTransfers
      /\ chain' = Append(chain, new)
      /\ UNCHANGED <<noticeVars, roundState, dest, openedAt, late, contrib, wallet, held, pass>>
    BY DEF TokensMove, rounds, wallets
<1>2. /\ chain \in Seq(Transfer) /\ Len(chain) \in Nat /\ new \in Transfer
    BY DEF TypeOK, Transfer
<1>3. /\ chain' \in Seq(Transfer) /\ Len(chain') = Len(chain) + 1
      /\ \A k \in 1..Len(chain) : chain'[k] = chain[k]
    <2> HIDE DEF new
    <2> QED
        BY <1>1, <1>2, AppendProperties
<1>4. NoticesTypeOK' /\ EmailInv'
    BY <1>1, NoticesStand
<1>5. TypeOK'
    BY <1>1, <1>2, <1>3, <1>4, PassAssumption DEF TypeOK
<1>6. DestFrozen' /\ WalletHeld' /\ Grows
    BY <1>1, <1>2, <1>3 DEF DestFrozen, WalletHeld, Grows
<1>7. KnownStep
    BY <1>1, NoticesStand, KnownBefore DEF KnownStep
<1> QED
    BY <1>4, <1>5, <1>6, <1>7, LedgerStep

-----------------------------------------------------------------------------
(* The passes.                                                              *)

\* One pass moves; the ledger's rows, the callers and the chain stand.
LEMMA PassStep ==
    ASSUME LedgerInv, NEW t \in Callers, NEW p \in PassRecord, Proceed(t, p),
           PassKnows(p, dest, held, chain), NoticesTypeOK', EmailInv',
           UNCHANGED <<written, call, rounds, contrib, wallets, chain>>,
           \A u \in Callers : \A n \in queue'[u] : NoticeBacked(n, dest, held, chain)
    PROVE  LedgerInv'
<1> USE DEF LedgerInv
<1>1. /\ pass' = [pass EXCEPT ![t] = p]
      /\ UNCHANGED <<call, inApp, roundState, dest, openedAt, late, contrib, wallet, held, chain>>
    BY DEF Proceed, rounds, wallets, written
<1>2. TypeOK'
    BY <1>1 DEF TypeOK, PassRecord
<1>3. DestFrozen' /\ WalletHeld' /\ Grows
    BY <1>1 DEF DestFrozen, WalletHeld, Grows, TypeOK
<1>4. pass'[t] = p /\ \A u \in Callers : u # t => pass'[u] = pass[u]
    BY <1>1 DEF TypeOK
<1>5. KnownStep
    BY <1>1, <1>4, KnownBefore DEF KnownStep
<1> QED
    BY <1>2, <1>3, <1>5, LedgerStep

LEMMA Observing ==
    ASSUME LedgerInv, NEW t \in Callers, pass[t].pc \in {"payer", "match", "confirm"}
    PROVE  /\ pass[t] \in ObserveRecord
           /\ pass[t].rest \subseteq Item /\ pass[t].mine \subseteq Item
           /\ pass[t].seen \in 0..MaxTransfers /\ pass[t].confirm \subseteq Contributions
           /\ \A i \in pass[t].rest \cup pass[t].mine : ItemKnown(i, dest, held)
           /\ pass[t].seen <= Len(chain)
           /\ \A c \in pass[t].confirm : PaidInFull(c, dest, held, chain)
    BY PassFields DEF LedgerInv, TypeOK, PassRecord, PassesKnow, PassKnows

LEMMA KeptByObserveList ==
    ASSUME LedgerInv, NEW t \in Callers, ObserveList(t)
    PROVE  LedgerInv'
<1>1. PICK S \in SUBSET Contributions :
        /\ Listed(S)
        /\ Proceed(t, [pc |-> "payer", rest |-> {Asked(c) : c \in S}, mine |-> {},
                       seen |-> 0, confirm |-> {}])
    BY DEF ObserveList
<1> DEFINE p == [pc |-> "payer", rest |-> {Asked(c) : c \in S}, mine |-> {},
                 seen |-> 0, confirm |-> {}]
<1>2. \A c \in S : Asked(c) \in Item /\ ItemKnown(Asked(c), dest, held)
    <2> SUFFICES ASSUME NEW c \in S
                 PROVE  Asked(c) \in Item /\ ItemKnown(Asked(c), dest, held)
        OBVIOUS
    <2>1. c \in Contributions /\ c[1] \in Rounds /\ c[2] \in Members
        BY ContributionFields
    <2>2. roundState[c[1]] = "open" /\ wallet[c[2]] # NoWallet
        BY <1>1 DEF Listed, Listable
    <2>3. dest[c[1]] \in Wallets /\ wallet[c[2]] \in Wallets /\ wallet[c[2]] \in held[c[2]]
        BY <2>1, <2>2 DEF LedgerInv, TypeOK, DestFrozen, WalletHeld
    <2> QED
        BY <2>1, <2>3 DEF Asked, FrozenAddress, Item, ItemKnown
<1>3. {Asked(c) : c \in S} \subseteq Item /\ \A i \in {Asked(c) : c \in S} : ItemKnown(i, dest, held)
    BY <1>2
<1>4. p \in PassRecord
    BY <1>3, PassAssumption DEF PassRecord, ObserveRecord
<1>5. PassKnows(p, dest, held, chain)
    BY <1>3 DEF PassKnows, LedgerInv, TypeOK
<1>6. Proceed(t, p)
    BY <1>1
<1> HIDE DEF p
<1> QED
    BY <1>4, <1>5, <1>6, NoticesStand, PassStep DEF ObserveList, noticeVars

\* A pass that goes on with less, and with what it now has seen.
LEMMA LessToDo ==
    ASSUME LedgerInv, NEW t \in Callers, pass[t].pc = "payer",
           NEW hers \in SUBSET pass[t].rest
    PROVE  LET read == [pass[t] EXCEPT !.pc = "match", !.mine = hers,
                                       !.rest = pass[t].rest \ hers, !.seen = Len(chain)]
               left == NextPayer([pass[t] EXCEPT !.rest = pass[t].rest \ hers])
           IN  /\ read \in PassRecord /\ PassKnows(read, dest, held, chain)
               /\ left \in PassRecord /\ PassKnows(left, dest, held, chain)
<1> DEFINE read == [pass[t] EXCEPT !.pc = "match", !.mine = hers,
                                   !.rest = pass[t].rest \ hers, !.seen = Len(chain)]
           less == [pass[t] EXCEPT !.rest = pass[t].rest \ hers]
           left == NextPayer(less)
<1>1. /\ pass[t] \in ObserveRecord /\ pass[t].rest \subseteq Item /\ hers \subseteq Item
      /\ Len(chain) \in 0..MaxTransfers /\ Len(chain) <= Len(chain)
    BY Observing, PassAssumption DEF LedgerInv, TypeOK
<1>2. read \in ObserveRecord /\ read.rest = pass[t].rest \ hers /\ read.mine = hers
      /\ read.seen = Len(chain) /\ read.confirm = pass[t].confirm
    BY <1>1 DEF ObserveRecord
<1>3. less \in ObserveRecord /\ less.rest = pass[t].rest \ hers /\ less.mine = pass[t].mine
      /\ less.seen = pass[t].seen /\ less.confirm = pass[t].confirm
    BY <1>1 DEF ObserveRecord
<1> HIDE DEF read, less
<1>4. PassKnows(read, dest, held, chain)
    BY <1>1, <1>2, Observing DEF PassKnows
<1>5. left \in ObserveRecord /\ PassKnows(left, dest, held, chain)
    BY <1>3, PassMoves, Observing DEF PassKnows
<1> QED
    BY <1>2, <1>4, <1>5 DEF PassRecord, read, less

LEMMA KeptByObserveLookup ==
    ASSUME LedgerInv, NEW t \in Callers, NEW w \in Wallets, ObserveLookup(t, w)
    PROVE  LedgerInv'
<1> DEFINE hers == {i \in pass[t].rest : i.payer = w}
           read == [pass[t] EXCEPT !.pc = "match", !.mine = hers,
                                   !.rest = pass[t].rest \ hers, !.seen = Len(chain)]
<1>1. pass[t].pc = "payer" /\ Proceed(t, read)
    BY DEF ObserveLookup
<1>2. read \in PassRecord /\ PassKnows(read, dest, held, chain)
    BY <1>1, LessToDo
<1> HIDE DEF read
<1> QED
    BY <1>1, <1>2, NoticesStand, PassStep DEF ObserveLookup, noticeVars

\* A failure of a lookup or of a statement of the ledger leaves the callers be.
LEMMA FailureCounted ==
    ASSUME LedgerInv, Fails, UNCHANGED <<written, prefs, queue, call>>
    PROVE  /\ EmailInv' /\ NoticesTypeOK'
           /\ \A t \in Callers : \A n \in queue'[t] : NoticeBacked(n, dest, held, chain)
<1>1. failures' \in 0..MaxFailures
    BY FailureAssumption DEF Fails, LedgerInv, TypeOK, NoticesTypeOK
<1>2. UNCHANGED <<inApp, email, sentAt, mails, dropped, pref, saving, queue, call>>
    BY DEF written, prefs
<1>3. NoticesTypeOK'
    BY <1>1, <1>2 DEF LedgerInv, TypeOK, NoticesTypeOK
<1>4. EmailInv'
    BY <1>2, <1>3, KeptByTheRest DEF LedgerInv
<1> QED
    BY <1>2, <1>3, <1>4, KnownBefore

LEMMA KeptByLookupFails ==
    ASSUME LedgerInv, NEW t \in Callers, NEW w \in Wallets, LookupFails(t, w)
    PROVE  LedgerInv'
<1> DEFINE hers == {i \in pass[t].rest : i.payer = w}
           left == NextPayer([pass[t] EXCEPT !.rest = pass[t].rest \ hers])
<1>1. pass[t].pc = "payer" /\ Proceed(t, left)
    BY DEF LookupFails
<1>2. left \in PassRecord /\ PassKnows(left, dest, held, chain)
    BY <1>1, LessToDo
<1> HIDE DEF left
<1> QED
    BY <1>1, <1>2, FailureCounted, PassStep DEF LookupFails

LEMMA KeptByObserveDies ==
    ASSUME LedgerInv, NEW t \in Callers, ObserveDies(t)
    PROVE  LedgerInv'
<1>1. Idle \in PassRecord /\ PassKnows(Idle, dest, held, chain)
    BY DEF PassRecord, PassKnows, Idle, ObserveRecord
<1> QED
    BY <1>1, FailureCounted, PassStep DEF ObserveDies

LEMMA KeptByObserveItem ==
    ASSUME LedgerInv, NEW t \in Callers, ObserveItem(t)
    PROVE  LedgerInv'
<1> USE DEF LedgerInv
<1>1. PICK i \in pass[t].mine :
        LET k == Newest(i, pass[t].seen)
            left == [pass[t] EXCEPT !.mine = pass[t].mine \ {i},
                                    !.confirm = IF Found(k) /\ Confirmed(k)
                                                THEN pass[t].confirm \cup {i.key}
                                                ELSE pass[t].confirm]
        IN  /\ contrib' = IF Found(k) /\ StillPending(i.key)
                          THEN [contrib EXCEPT ![i.key] = [status |-> Verdict(k), tx |-> k]]
                          ELSE contrib
            /\ Proceed(t, IF left.mine = {} THEN NextPayer(left) ELSE left)
    BY DEF ObserveItem
<1> DEFINE k == Newest(i, pass[t].seen)
           confirm == IF Found(k) /\ Confirmed(k) THEN pass[t].confirm \cup {i.key}
                                                  ELSE pass[t].confirm
           left == [pass[t] EXCEPT !.mine = pass[t].mine \ {i}, !.confirm = confirm]
           p == IF left.mine = {} THEN NextPayer(left) ELSE left
           row == [status |-> Verdict(k), tx |-> k]
<1>2. pass[t].pc = "match" /\ UNCHANGED <<noticeVars, roundState, dest, openedAt, late, wallet, held, chain>>
    BY DEF ObserveItem, rounds, wallets
<1>3. /\ pass[t] \in ObserveRecord /\ i \in Item /\ ItemKnown(i, dest, held)
      /\ pass[t].seen \in Nat /\ pass[t].seen <= Len(chain) /\ Len(chain) \in Nat
    BY <1>2, Observing, PassAssumption DEF TypeOK
<1>4. i.key \in Contributions
    BY <1>3 DEF Item
<1>5. k = 0 \/ (k \in 1..pass[t].seen /\ Matches(i, k))
    BY <1>3, NewestMatches
<1>6. /\ contrib' = IF Found(k) /\ StillPending(i.key)
                    THEN [contrib EXCEPT ![i.key] = row] ELSE contrib
      /\ Proceed(t, p)
    BY <1>1
<1> HIDE DEF k, p
<1>7. Found(k) => /\ k \in 1..Len(chain) /\ k \in 1..MaxTransfers
                  /\ chain[k].to = dest[i.key[1]] /\ chain[k].from \in held[i.key[2]]
    BY <1>3, <1>5, PassAssumption DEF Found, Matches, ItemKnown, TypeOK
<1>8. Verdict(k) \in {"paid", "partial"}
      /\ (Verdict(k) = "paid" => chain[k].amount = "enough")
    BY DEF Verdict
<1>9. Found(k) => MarkTrue(row, i.key, dest, held, chain)
    BY <1>3, <1>7, <1>8 DEF MarkTrue
<1>10. Found(k) /\ Confirmed(k) => PaidInFull(i.key, dest, held, chain)
    BY <1>7, <1>8 DEF Confirmed, PaidInFull
<1>11. confirm \subseteq Contributions /\ \A c \in confirm : PaidInFull(c, dest, held, chain)
    BY <1>2, <1>4, <1>10, Observing
<1> HIDE DEF confirm
<1>12. /\ left \in ObserveRecord
       /\ left.rest = pass[t].rest /\ left.mine \subseteq pass[t].mine
       /\ left.seen = pass[t].seen /\ left.confirm = confirm
    BY <1>3, <1>11 DEF ObserveRecord
<1> HIDE DEF left
<1>13. /\ p \in ObserveRecord
       /\ p.rest = left.rest /\ p.mine = left.mine /\ p.seen = left.seen /\ p.confirm = left.confirm
    BY <1>12, PassMoves DEF p
<1>14. PassKnows(p, dest, held, chain)
    BY <1>2, <1>11, <1>12, <1>13, Observing DEF PassKnows
<1>15. NoticesTypeOK' /\ EmailInv'
    BY <1>2, NoticesStand
<1>16. pass' = [pass EXCEPT ![t] = p] /\ p \in PassRecord
    BY <1>6, <1>13 DEF Proceed, PassRecord
<1>17. TypeOK'
    <2>1. contrib' \in [Contributions -> {Unwritten, Pending}
                           \cup [status : {"paid", "partial"}, tx : 1..MaxTransfers]]
        <3>1. CASE Found(k) /\ StillPending(i.key)
            BY <1>6, <1>7, <1>8, <3>1 DEF TypeOK
        <3>2. CASE ~ (Found(k) /\ StillPending(i.key))
            BY <1>6, <3>2 DEF TypeOK
        <3> QED
            BY <3>1, <3>2
    <2>2. pass' \in [Callers -> ObserveRecord \cup RemindRecord \cup {Idle}]
        BY <1>16 DEF TypeOK, PassRecord
    <2> QED
        BY <1>2, <1>15, <2>1, <2>2 DEF TypeOK
<1>18. DestFrozen' /\ WalletHeld' /\ Grows
    BY <1>2 DEF DestFrozen, WalletHeld, Grows, TypeOK
<1>19. \A c \in Contributions : contrib'[c].tx > 0 => MarkTrue(contrib'[c], c, dest, held, chain)
    <2> SUFFICES ASSUME NEW c \in Contributions, contrib'[c].tx > 0
                 PROVE  MarkTrue(contrib'[c], c, dest, held, chain)
        OBVIOUS
    <2>1. CASE contrib'[c] = contrib[c]
        BY <2>1, KnownBefore
    <2>2. CASE contrib'[c] # contrib[c]
        <3>1. Found(k) /\ c = i.key /\ contrib'[c] = row
            BY <1>4, <1>6, <2>2 DEF TypeOK
        <3> QED
            BY <1>9, <3>1
    <2> QED
        BY <2>1, <2>2
<1>20. \A u \in Callers : PassKnows(pass'[u], dest, held, chain)
    <2>1. pass'[t] = p /\ \A u \in Callers : u # t => pass'[u] = pass[u]
        BY <1>16 DEF TypeOK
    <2> QED
        BY <1>14, <2>1, KnownBefore
<1>21. KnownStep
    BY <1>2, <1>19, <1>20, NoticesStand DEF KnownStep
<1> QED
    BY <1>15, <1>17, <1>18, <1>21, LedgerStep

\* What a pass hands over is typed, and touches nothing else of the callers.
LEMMA Handing ==
    ASSUME LedgerInv, NEW t \in Callers, NEW kind \in Kinds, NEW S \in SUBSET Contributions,
           kind = "payment_confirmed" => \A c \in S : PaidInFull(c, dest, held, chain),
           Handed(t, Batch(kind, S)), UNCHANGED <<written, prefs, call, failures>>
    PROVE  /\ EmailInv' /\ NoticesTypeOK'
           /\ \A u \in Callers : \A n \in queue'[u] : NoticeBacked(n, dest, held, chain)
<1>1. \A c \in S : c \in EventKeys /\ c[2] \in Members
    BY ContributionFields, PassAssumption
<1>2. Batch(kind, S) \subseteq Notice
    BY <1>1 DEF Batch, Notice
<1>3. \A n \in Batch(kind, S) : NoticeBacked(n, dest, held, chain)
    BY DEF Batch, NoticeBacked
<1>4. queue' = [queue EXCEPT ![t] = Batch(kind, S)]
    BY DEF Handed
<1> HIDE DEF Batch
<1>5. UNCHANGED <<inApp, email, sentAt, mails, dropped, pref, saving>>
    BY DEF written, prefs
<1>6. NoticesTypeOK'
    BY <1>2, <1>4, <1>5 DEF LedgerInv, TypeOK, NoticesTypeOK
<1>7. EmailInv'
    BY <1>6, KeptByTheRest DEF LedgerInv
<1>8. \A u \in Callers : queue'[u] = IF u = t THEN Batch(kind, S) ELSE queue[u]
    BY <1>4 DEF LedgerInv, TypeOK, NoticesTypeOK
<1> QED
    BY <1>3, <1>6, <1>7, <1>8, KnownBefore

LEMMA KeptByObserveConfirm ==
    ASSUME LedgerInv, NEW t \in Callers, ObserveConfirm(t)
    PROVE  LedgerInv'
<1>1. Idle \in PassRecord /\ PassKnows(Idle, dest, held, chain) /\ "payment_confirmed" \in Kinds
    BY DEF PassRecord, PassKnows, Idle, ObserveRecord, Kinds
<1>2. pass[t].confirm \in SUBSET Contributions
      /\ \A c \in pass[t].confirm : PaidInFull(c, dest, held, chain)
    BY Observing DEF ObserveConfirm
<1>3. /\ EmailInv' /\ NoticesTypeOK'
      /\ \A u \in Callers : \A n \in queue'[u] : NoticeBacked(n, dest, held, chain)
    BY <1>1, <1>2, Handing DEF ObserveConfirm
<1> QED
    BY <1>1, <1>3, PassStep DEF ObserveConfirm

LEMMA KeptByReminders ==
    ASSUME LedgerInv, NEW t \in Callers, RemindDue(t) \/ RemindLate(t)
    PROVE  LedgerInv'
<1>1. /\ Idle \in PassRecord /\ PassKnows(Idle, dest, held, chain)
      /\ [pc |-> "late"] \in PassRecord /\ PassKnows([pc |-> "late"], dest, held, chain)
      /\ {"reminder", "gentle_late"} \subseteq Kinds
    BY DEF PassRecord, RemindRecord, PassKnows, Idle, ObserveRecord, Kinds
<1>2. \A R : Owed(R) \in SUBSET Contributions
    BY DEF Owed
<1>3. /\ EmailInv' /\ NoticesTypeOK'
      /\ \A u \in Callers : \A n \in queue'[u] : NoticeBacked(n, dest, held, chain)
    <2>1. CASE RemindDue(t)
        BY <1>1, <1>2, <2>1, Handing DEF RemindDue
    <2>2. CASE RemindLate(t)
        BY <1>1, <1>2, <2>2, Handing DEF RemindLate
    <2> QED
        BY <2>1, <2>2
<1> QED
    BY <1>1, <1>3, PassStep DEF RemindDue, RemindLate

-----------------------------------------------------------------------------
(* The callers.                                                             *)

\* In notify nothing is said that was not asked for: a call takes its notice
\* from the queue, and writes that one.
PassedOn ==
    /\ \A u \in Callers : queue'[u] \subseteq queue[u]
    /\ \A u \in Callers : \/ call'[u] = Idle
                          \/ call[u] # Idle /\ call'[u].notice = call[u].notice
                          \/ call'[u].notice \in queue[u]
    /\ \A n \in inApp' : n \in inApp \/ \E u \in Callers : call[u] # Idle /\ n = call[u].notice

LEMMA NotifyPassesOn ==
    ASSUME EmailInv, NEW t \in Callers, NotifyStep(t) \/ NotifyFails(t)
    PROVE  PassedOn
<1> USE DEF EmailInv
<1>1. CASE NotifyRead(t)
    <2>1. PICK n \in queue[t] :
            /\ queue' = [queue EXCEPT ![t] = @ \ {n}]
            /\ call' = [call EXCEPT ![t] =
                          IF Wanted(n) THEN [pc |-> "in_app", notice |-> n, optIn |-> pref[n.to].optIn]
                                       ELSE Idle]
        BY <1>1 DEF NotifyRead, Goto
    <2>2. \A u \in Callers : queue'[u] \subseteq queue[u]
        BY <2>1 DEF NoticesTypeOK
    <2>3. call'[t] = Idle \/ call'[t].notice = n
        BY <2>1 DEF NoticesTypeOK
    <2>4. \A u \in Callers : u # t => call'[u] = call[u]
        BY <2>1 DEF NoticesTypeOK
    <2>5. inApp' = inApp
        BY <1>1 DEF NotifyRead, written
    <2> QED
        BY <2>2, <2>3, <2>4, <2>5 DEF PassedOn
<1>2. CASE ClaimInApp(t)
    <2>1. call[t] \in CallRecord /\ call[t] # Idle
        BY <1>2, CallFields DEF ClaimInApp, NoticesTypeOK
    <2>2. call' = [call EXCEPT ![t] = IF call[t].optIn THEN [call[t] EXCEPT !.pc = "email"] ELSE Idle]
        BY <1>2 DEF ClaimInApp, Goto
    <2>3. call'[t] = Idle \/ call'[t].notice = call[t].notice
        BY <2>1, <2>2, CallMoves DEF NoticesTypeOK
    <2>4. \A u \in Callers : u # t => call'[u] = call[u]
        BY <2>2 DEF NoticesTypeOK
    <2>5. queue' = queue /\ inApp' \subseteq inApp \cup {call[t].notice}
        BY <1>2 DEF ClaimInApp
    <2> QED
        BY <2>1, <2>3, <2>4, <2>5 DEF PassedOn
<1>3. CASE ClaimEmail(t) \/ Send(t)
    <2>1. call[t] \in CallRecord /\ call[t] # Idle
        BY <1>3, CallFields DEF ClaimEmail, Send, NoticesTypeOK
    <2>2. PICK r \in {Idle, [call[t] EXCEPT !.pc = "send"], [call[t] EXCEPT !.pc = "mark"]} :
            call' = [call EXCEPT ![t] = r]
        BY <1>3 DEF ClaimEmail, Send, Goto
    <2>3. r = Idle \/ r.notice = call[t].notice
        <3>1. /\ [call[t] EXCEPT !.pc = "send"].notice = call[t].notice
              /\ [call[t] EXCEPT !.pc = "mark"].notice = call[t].notice
            BY <2>1, CallMoves
        <3> QED
            BY <3>1
    <2>4. call'[t] = r /\ \A u \in Callers : u # t => call'[u] = call[u]
        BY <2>2 DEF NoticesTypeOK
    <2>5. queue' = queue /\ inApp' = inApp
        BY <1>3 DEF ClaimEmail, Send
    <2> QED
        BY <2>1, <2>3, <2>4, <2>5 DEF PassedOn
<1>4. CASE SendFails(t) \/ MarkSent(t) \/ NotifyFails(t)
    <2>1. call' = [call EXCEPT ![t] = Idle]
        BY <1>4 DEF SendFails, LeftUnsent, MarkSent, NotifyFails, Goto
    <2>2. call'[t] = Idle /\ \A u \in Callers : u # t => call'[u] = call[u]
        BY <2>1 DEF NoticesTypeOK
    <2>3. inApp' = inApp /\ \A u \in Callers : queue'[u] \subseteq queue[u]
        BY <1>4 DEF SendFails, MarkSent, NotifyFails, written, NoticesTypeOK
    <2> QED
        BY <2>2, <2>3 DEF PassedOn
<1> QED
    BY <1>1, <1>2, <1>3, <1>4 DEF NotifyStep

\* So what is said stays backed by the chain.
LEMMA KeptByCallers ==
    ASSUME LedgerInv, EmailInv', PassedOn, UNCHANGED <<rounds, contrib, wallets, chain>>,
           \A u \in Callers : pass'[u] = pass[u] \/ pass'[u] = Idle,
           pass' \in [Callers -> PassRecord]
    PROVE  LedgerInv'
<1> USE DEF LedgerInv
<1>1. UNCHANGED <<roundState, dest, openedAt, late, contrib, wallet, held, chain>>
    BY DEF rounds, wallets
<1>2. TypeOK'
    BY <1>1 DEF TypeOK, EmailInv, PassRecord
<1>3. DestFrozen' /\ WalletHeld' /\ Grows
    BY <1>1 DEF DestFrozen, WalletHeld, Grows, TypeOK
<1>4. PassKnows(Idle, dest, held, chain)
    BY DEF PassKnows, Idle, ObserveRecord
<1>5. \A u \in Callers : PassKnows(pass'[u], dest, held, chain)
    BY <1>4, KnownBefore
<1>6. \A u \in Callers : call'[u] # Idle => NoticeBacked(call'[u].notice, dest, held, chain)
    BY KnownBefore DEF PassedOn
<1>7. \A n \in inApp' : NoticeBacked(n, dest, held, chain)
    BY KnownBefore DEF PassedOn
<1>8. KnownStep
    BY <1>1, <1>5, <1>6, <1>7, KnownBefore DEF KnownStep, PassedOn
<1> QED
    BY <1>2, <1>3, <1>8, LedgerStep

\* The other steps of the callers: preferences saved, and a crash.
LEMMA NothingSaid ==
    ASSUME PrefStep \/ Crash
    PROVE  PassedOn
<1>1. CASE PrefStep
    BY <1>1 DEF PrefStep, PrefRead, PrefWrite, written, PassedOn
<1>2. CASE Crash
    BY <1>2 DEF Crash, AllCallersDie, written, PassedOn
<1> QED
    BY <1>1, <1>2

-----------------------------------------------------------------------------
(* The theorems.                                                            *)

LEMMA LedgerAtFirst == Init => LedgerInv
<1> SUFFICES ASSUME Init
             PROVE  LedgerInv
    OBVIOUS
<1>1. EmailInv
    BY EmailInvAtFirst DEF Init
<1>2. TypeOK
    <2>1. chain \in Seq(Transfer) /\ Len(chain) = 0
        BY DEF Init
    <2>2. contrib \in [Contributions -> {Unwritten, Pending}
                          \cup [status : {"paid", "partial"}, tx : 1..MaxTransfers]]
        BY DEF Init
    <2>3. held \in [Members -> SUBSET Wallets] /\ wallet \in [Members -> Wallets \cup {NoWallet}]
        BY WalletAssumption DEF Init
    <2> QED
        BY <1>1, <2>1, <2>2, <2>3, PassAssumption DEF Init, TypeOK, EmailInv
<1>3. DestFrozen /\ WalletHeld
    BY WalletAssumption DEF Init, DestFrozen, WalletHeld
<1>4. PassesKnow
    BY DEF Init, PassesKnow, PassKnows, Idle, ObserveRecord
<1>5. QueueBacked /\ CallBacked /\ ConfirmedWasPaid
    BY DEF Init, NoticesInit, QueueBacked, CallBacked, ConfirmedWasPaid
<1>6. MarksKnown /\ MarkedByATransfer
    BY DEF Init, MarksKnown, MarkedByATransfer, Unwritten
<1> QED
    BY <1>1, <1>2, <1>3, <1>4, <1>5, <1>6 DEF LedgerInv

LEMMA LedgerKept == LedgerInv /\ [NextPayment]_vars => LedgerInv'
<1> SUFFICES ASSUME LedgerInv, [NextPayment]_vars
             PROVE  LedgerInv'
    OBVIOUS
<1> USE DEF LedgerInv
<1>0. pass \in [Callers -> PassRecord] /\ Observers \subseteq Callers /\ Reminders \subseteq Callers
    BY PassAssumption DEF TypeOK, PassRecord
<1>1. CASE \E r \in Rounds : RoundOpens(r) \/ DuesComeDue(r) \/ RoundCloses(r) \/ GraceEnds(r)
    BY <1>1, KeptByRoundOpens, KeptByDuesComeDue, KeptByRoundCloses, KeptByGraceEnds
<1>2. CASE \E m \in Members : \E a \in Wallets \cup {NoWallet} : SetAddress(m, a)
    BY <1>2, KeptBySetAddress
<1>3. CASE \E a, b \in Wallets : \E n \in {"enough", "short"} : TokensMove(a, b, n)
    BY <1>3, KeptByTokensMove
<1>4. CASE \E t \in Observers : ObserveList(t) \/ ObserveStep(t) \/ ObserveDies(t)
    BY <1>0, <1>4, KeptByObserveList, KeptByObserveLookup, KeptByLookupFails, KeptByObserveItem,
       KeptByObserveConfirm, KeptByObserveDies DEF ObserveStep
<1>5. CASE \E t \in Reminders : RemindDue(t) \/ RemindLate(t)
    BY <1>0, <1>5, KeptByReminders
<1>6. CASE \E t \in Callers : CallerStep(t) \/ CallerFails(t)
    BY <1>0, <1>6, KeptByNotify, KeptByNotifyFails, NotifyPassesOn, KeptByCallers
       DEF CallerStep, CallerFails
<1>7. CASE SavePref
    BY <1>0, <1>7, KeptByPrefStep, NothingSaid, KeptByCallers DEF SavePref
<1>8. CASE ServerDies
    <2>1. pass' \in [Callers -> PassRecord] /\ \A u \in Callers : pass'[u] = Idle
        BY <1>8 DEF ServerDies, PassRecord
    <2> QED
        BY <1>8, <2>1, KeptByCrash, NothingSaid, KeptByCallers DEF ServerDies
<1>9. CASE UNCHANGED vars
    <2>1. UNCHANGED <<noticeVars, rounds, contrib, wallets, chain, pass>>
        BY <1>9 DEF vars
    <2>2. PassedOn
        BY <2>1 DEF PassedOn, noticeVars, written
    <2> QED
        BY <1>0, <2>1, <2>2, NoticesStand, KeptByCallers
<1> QED
    BY <1>1, <1>2, <1>3, <1>4, <1>5, <1>6, <1>7, <1>8, <1>9 DEF NextPayment

LEMMA LedgerAlways == Spec => []LedgerInv
    BY LedgerAtFirst, LedgerKept, PTL DEF Spec

\* Every variable keeps its type: among them, no email is marked sent that was
\* not claimed, and no mark is of a transfer beyond the chain.
THEOREM PaymentsTyped == Spec => []TypeOK
<1>1. LedgerInv => TypeOK
    BY DEF LedgerInv
<1> QED
    BY <1>1, LedgerAlways, PTL

\* notifications.ts, "a retry never double-sends": however many cron runs
\* overlap, fail or are started again, one event emails one member once.
THEOREM OneMailPerEvent == Spec => []EmailOncePerEvent
<1>1. LedgerInv => EmailOncePerEvent
    BY DEF LedgerInv, EmailInv
<1> QED
    BY <1>1, LedgerAlways, PTL

\* A row whose sent_at is set is of a mail that did leave; or of one that was
\* skipped where EMAIL_SERVER is unset, and then it never leaves.  Whether it is
\* set may differ from caller to caller, as it does while a deployment changes it.
THEOREM SentDidLeave == Spec => []SentMeansSent
<1>1. LedgerInv => SentMeansSent
    BY DEF LedgerInv, EmailInv
<1> QED
    BY <1>1, LedgerAlways, PTL

\* observePayments.ts: paid is what a transfer in full says, from an address of
\* hers to the frozen one, and so is each confirmation, whatever has changed
\* between the listing, the lookup and the two writes.
THEOREM LedgerIsBacked == Spec => []BackedByATransfer
<1>1. LedgerInv => BackedByATransfer
    BY DEF LedgerInv, BackedByATransfer
<1> QED
    BY <1>1, LedgerAlways, PTL

\* The guarded UPDATE (status = 'pending') and the guarded INSERT of the dues
\* leave a mark as the first pass made it.
LEMMA MarksStand ==
    ASSUME LedgerInv, [NextPayment]_vars, NEW c \in Contributions, contrib[c].tx > 0
    PROVE  contrib'[c] = contrib[c]
<1> USE DEF LedgerInv
<1>1. contrib[c] # Unwritten /\ contrib[c] # Pending
    BY DEF Unwritten, Pending
<1>2. CASE \E r \in Rounds : DuesComeDue(r)
    <2>1. PICK r \in Rounds : DuesComeDue(r)
        BY <1>2
    <2>2. c[1] # r
        <3>1. \A m \in Members : contrib[<<r, m>>] = Unwritten
            BY <2>1 DEF DuesComeDue
        <3> QED
            BY <1>1, <3>1, ContributionFields
    <2> QED
        BY <2>1, <2>2 DEF DuesComeDue
<1>3. CASE \E t \in Observers : ObserveItem(t)
    <2>1. PICK t \in Observers : ObserveItem(t)
        BY <1>3
    <2>2. PICK i \in pass[t].mine :
            contrib' = contrib \/ (StillPending(i.key) /\ \E row : contrib' = [contrib EXCEPT ![i.key] = row])
        BY <2>1 DEF ObserveItem
    <2> QED
        BY <1>1, <2>2 DEF StillPending, TypeOK
<1>4. CASE ~ (\E r \in Rounds : DuesComeDue(r)) /\ ~ (\E t \in Observers : ObserveItem(t))
    BY <1>4 DEF NextPayment, vars, RoundOpens, RoundCloses, GraceEnds, SetAddress, TokensMove,
        ObserveList, ObserveStep, ObserveLookup, LookupFails, ObserveConfirm, ObserveDies,
        RemindDue, RemindLate, CallerStep, CallerFails, SavePref, ServerDies
<1> QED
    BY <1>2, <1>3, <1>4

\* Overlapping passes never rewrite what one of them has marked.
THEOREM MarkedForGood == Spec => MarkedOnce
<1>1. LedgerInv /\ [NextPayment]_vars
        => [\A c \in Contributions : contrib[c].tx > 0 => contrib'[c] = contrib[c]]_vars
    BY MarksStand
<1> QED
    BY <1>1, LedgerAlways, PTL DEF Spec, MarkedOnce
===============================================================================
