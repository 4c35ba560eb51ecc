------------------------------- MODULE Notices -------------------------------
(***************************************************************************)
(* The notification center (src/src/lib/circles/notifications.ts): one     *)
(* `notify` call writes an in-app notice and, for a member who opted in,   *)
(* claims and sends one email.  A caller is a cron run or a request that   *)
(* works through a list of notices; callers overlap, a statement may fail  *)
(* and the server may go down between two of them.                         *)
(*                                                                         *)
(* Payments extends this module with the callers the cron jobs are; its    *)
(* own Next hands a caller any of the constant Batches.                    *)
(*                                                                         *)
(* Left out: wording, locale and discreet mode, read_at, and members       *)
(* without an email address.                                               *)
(***************************************************************************)
EXTENDS Naturals, FiniteSets

CONSTANTS
    Members,
    EventKeys,      \* what notices are about: contributions, rounds, contracts
    Callers,        \* cron runs and requests that call notify
    Tolerant,       \* those that catch each failing call and go on with the next
    Batches,        \* the lists of notices a caller may be handed
    PrefRequests,   \* concurrent saves of preferences
    Savers,         \* bound: members who change theirs during a run
    Switches,       \* bound: the switches they flip, of {"reminders", "optIn"}
    MailServers,    \* whether EMAIL_SERVER is set where a caller runs: both, while
                    \* a deployment that changes it takes over
    MaxFailures,    \* bound: failed statements, lookups, sends and crashes in a run
    InitPref        \* the preferences a run starts from

Kinds == {"reminder", "gentle_late", "payment_confirmed", "your_turn",
          "payout_observed", "cycle_complete"}
Notice == [kind : Kinds, key : EventKeys, to : Members]
Pref == [reminders : BOOLEAN, optIn : BOOLEAN]

ASSUME CallerAssumption == Tolerant \subseteq Callers
ASSUME BatchAssumption == Batches \subseteq SUBSET Notice
ASSUME FailureAssumption == MaxFailures \in Nat
ASSUME ServerAssumption == MailServers \subseteq BOOLEAN
ASSUME PrefAssumption ==
    /\ InitPref \in [Members -> Pref]
    /\ Switches \subseteq {"reminders", "optIn"}

VARIABLES
    inApp,      \* notifications with channel in_app
    email,      \* notifications with channel email
    sentAt,     \* those of them whose sent_at is set
    mails,      \* how many emails left, by kind and event key (external)
    dropped,    \* history: the emails that were not sent for want of EMAIL_SERVER
    pref,       \* members.notify_pref
    saving,     \* the preference requests in flight
    queue,      \* the notices a caller has still to write
    call,       \* the notify call a caller is in
    failures    \* how many there were

written == <<inApp, email, sentAt, mails, dropped>>
prefs == <<pref, saving>>
noticeVars == <<written, prefs, queue, call, failures>>

Idle == [pc |-> "idle"]
CallRecord == [pc : {"in_app", "email", "send", "mark"}, notice : Notice, optIn : BOOLEAN]
SaveRecord == [pc : {"save"}, member : Members, pref : Pref]

\* One row per dedupe key, `kind:channel:eventKey`; no email of a row that is
\* not there, and none is marked sent that was not claimed.
NoticesTypeOK ==
    /\ inApp \subseteq Notice
    /\ email \subseteq Notice
    /\ sentAt \subseteq email
    /\ dropped \subseteq email
    /\ mails \in [Kinds \X EventKeys -> Nat]
    /\ pref \in [Members -> Pref]
    /\ saving \in [PrefRequests -> SaveRecord \cup {Idle}]
    /\ queue \in [Callers -> SUBSET Notice]
    /\ call \in [Callers -> CallRecord \cup {Idle}]
    /\ failures \in 0..MaxFailures

NoticesInit ==
    /\ inApp = {}
    /\ email = {}
    /\ sentAt = {}
    /\ dropped = {}
    /\ mails = [k \in Kinds \X EventKeys |-> 0]
    /\ pref = InitPref
    /\ saving = [q \in PrefRequests |-> Idle]
    /\ queue = [t \in Callers |-> {}]
    /\ call = [t \in Callers |-> Idle]
    /\ failures = 0

Goto(t, r) == call' = [call EXCEPT ![t] = r]
Resting(t) == call[t] = Idle /\ queue[t] = {}
Fails == failures < MaxFailures /\ failures' = failures + 1

-----------------------------------------------------------------------------
(* notify.                                                                 *)

\* The `reminders` preference gates only the nudges.
Gated == {"reminder", "gentle_late"}
Wanted(n) == n.kind \in Gated => pref[n.to].reminders

\* The member row is read once; what follows goes by the preferences it held.
NotifyRead(t) ==
    /\ call[t] = Idle
    /\ \E n \in queue[t] :
        /\ queue' = [queue EXCEPT ![t] = @ \ {n}]
        /\ Goto(t, IF Wanted(n) THEN [pc |-> "in_app", notice |-> n, optIn |-> pref[n.to].optIn]
                                ELSE Idle)
    /\ UNCHANGED <<written, prefs, failures>>

\* ON CONFLICT (dedupe_key) DO NOTHING: whom the notice is to is not in the key.
AnyClaim(rows, n) == TRUE
Claims(rows, n) == \A o \in rows : o.kind # n.kind \/ o.key # n.key

ClaimInApp(t) ==
    /\ call[t].pc = "in_app"
    /\ LET n == call[t].notice IN
        inApp' = IF Claims(inApp, n) THEN inApp \cup {n} ELSE inApp
    /\ Goto(t, IF call[t].optIn THEN [call[t] EXCEPT !.pc = "email"] ELSE Idle)
    /\ UNCHANGED <<email, sentAt, mails, dropped, prefs, queue, failures>>

\* Only the call that claimed the email row goes on to send it.
ClaimEmail(t) ==
    /\ call[t].pc = "email"
    /\ LET n == call[t].notice IN
        IF Claims(email, n)
        THEN /\ email' = email \cup {n}
             /\ Goto(t, [call[t] EXCEPT !.pc = "send"])
        ELSE /\ Goto(t, Idle)
             /\ UNCHANGED email
    /\ UNCHANGED <<inApp, sentAt, mails, dropped, prefs, queue, failures>>

MailLeaves(t) == mails' = [mails EXCEPT ![<<call[t].notice.kind, call[t].notice.key>>] = @ + 1]

\* Without EMAIL_SERVER sendMail returns as if it had sent.
MailSkipped(t) == dropped' = dropped \cup {call[t].notice}

Send(t) ==
    /\ call[t].pc = "send"
    /\ \/ TRUE \in MailServers /\ MailLeaves(t) /\ UNCHANGED dropped
       \/ FALSE \in MailServers /\ MailSkipped(t) /\ UNCHANGED mails
    /\ Goto(t, [call[t] EXCEPT !.pc = "mark"])
    /\ UNCHANGED <<inApp, email, sentAt, prefs, queue, failures>>

\* A send that throws ends the call quietly; the relay may have taken the mail.
MarkedAnyway(t) == [call[t] EXCEPT !.pc = "mark"]
LeftUnsent(t) == Idle

SendFails(t) ==
    /\ call[t].pc = "send"
    /\ TRUE \in MailServers
    /\ Fails
    /\ MailLeaves(t) \/ UNCHANGED mails
    /\ Goto(t, LeftUnsent(t))
    /\ UNCHANGED <<inApp, email, sentAt, dropped, prefs, queue>>

MarkSent(t) ==
    /\ call[t].pc = "mark"
    /\ sentAt' = sentAt \cup {call[t].notice}
    /\ Goto(t, Idle)
    /\ UNCHANGED <<inApp, email, mails, dropped, prefs, queue, failures>>

NotifyStep(t) ==
    NotifyRead(t) \/ ClaimInApp(t) \/ ClaimEmail(t) \/ Send(t) \/ SendFails(t) \/ MarkSent(t)

\* A failing statement ends the call.  The cron loops catch it and go on with
\* the next notice; open-round gives up on the rest of its list.
NotifyFails(t) ==
    /\ call[t] # Idle
    /\ Fails
    /\ Goto(t, Idle)
    /\ queue' = [queue EXCEPT ![t] = IF t \in Tolerant THEN @ ELSE {}]
    /\ UNCHANGED <<written, prefs>>

-----------------------------------------------------------------------------
(* POST /api/me/preferences: read the row, merge, write it back whole.     *)

PrefRead(q, m) ==
    /\ m \in Savers
    /\ saving[q] = Idle
    /\ \E s \in Switches :
        saving' = [saving EXCEPT ![q] = [pc |-> "save", member |-> m,
                                         pref |-> [pref[m] EXCEPT ![s] = ~ pref[m][s]]]]
    /\ UNCHANGED <<written, pref, queue, call, failures>>

PrefWrite(q) ==
    /\ saving[q].pc = "save"
    /\ pref' = [pref EXCEPT ![saving[q].member] = saving[q].pref]
    /\ saving' = [saving EXCEPT ![q] = Idle]
    /\ UNCHANGED <<written, queue, call, failures>>

PrefStep == \E q \in PrefRequests : PrefWrite(q) \/ \E m \in Members : PrefRead(q, m)

-----------------------------------------------------------------------------
(* A caller is handed its list; a crash takes every caller with it.        *)

Handed(t, batch) == queue' = [queue EXCEPT ![t] = batch]
AllCallersDie ==
    /\ queue' = [t \in Callers |-> {}]
    /\ call' = [t \in Callers |-> Idle]

Hand(t, batch) ==
    /\ Resting(t)
    /\ Handed(t, batch)
    /\ UNCHANGED <<written, prefs, call, failures>>

Crash ==
    /\ Fails
    /\ AllCallersDie
    /\ UNCHANGED <<written, prefs>>

Next ==
    \/ \E t \in Callers : NotifyStep(t) \/ NotifyFails(t)
    \/ \E t \in Callers : \E batch \in Batches : Hand(t, batch)
    \/ PrefStep
    \/ Crash

NoticesFairness == \A t \in Callers : WF_noticeVars(NotifyStep(t))
NoticesSpec == NoticesInit /\ [][Next]_noticeVars /\ NoticesFairness

-----------------------------------------------------------------------------
(* What a member is owed.                                                  *)

\* However many cron runs overlap or are retried, one event emails her once:
\* "the cron claims the row first and only sends email if the claim was new,
\* so a retry never double-sends".
EmailOncePerEvent == \A k \in Kinds \X EventKeys : mails[k] <= 1

\* What the ops view shows as sent did leave.  The exception is the code's own:
\* where EMAIL_SERVER is unset (email.ts:33-36) nothing leaves and the row is
\* marked sent all the same, and that email never leaves later either.
SentMeansSent ==
    \A n \in sentAt : IF n \in dropped THEN mails[<<n.kind, n.key>>] = 0
                                     ELSE mails[<<n.kind, n.key>>] >= 1
=============================================================================
