-------------------------------- MODULE Support --------------------------------
(***************************************************************************)
(* The support thread: one per user, written by her from the drawer        *)
(* (layouts/Layout.astro, api/support) and answered by an operator at one  *)
(* screen for everybody (pages/admin/support.astro, api/admin/support).    *)
(* Which conversation the screen shows by now, and the read marks that     *)
(* loading one leaves, change nothing that is sent and are left out.       *)
(*                                                                         *)
(* created_at is text, 'YYYY-MM-DD HH24:MI:SS'; the limit's `since` is an  *)
(* ISO string with a T after the date.  As text a message of the same date *)
(* as `since` comes before it, so that what counts is the calendar day.    *)
(***************************************************************************)
EXTENDS Integers, FiniteSets

CONSTANTS
    Users, None,
    Windows,        \* in which a user has the drawer open, as <<user, number>>
    RATE_LIMIT_COUNT,
    MaxDay, MaxMessages, MaxFailures    \* bounds

SupportConstants ==
    /\ None \notin Users
    /\ Windows \subseteq Users \X Nat /\ IsFiniteSet(Windows)
    /\ RATE_LIMIT_COUNT \in Nat \ {0}
    /\ MaxDay \in Nat \ {0} /\ MaxMessages \in Nat

VARIABLES
    today,
    thread,         \* support_messages: [id, user, admin, day, meant]; meant is the
                    \* user under whose name a reply was typed
    post,           \* a drawer's request to send
    active,         \* activeUserId, whose name is over the conversation
    draft,          \* for whom the reply in the textarea was typed, None if it is empty
    reply,          \* the reply being sent
    made, failures

supportVars == <<today, thread, post, active, draft, reply, made, failures>>

NoReply == [pc |-> "idle", user |-> None, meant |-> None]

TypeOK ==
    /\ today \in 1..MaxDay
    /\ thread \subseteq [id : 1..made, user : Users, admin : BOOLEAN, day : 1..today,
                         meant : Users \union {None}]
    /\ \A m, n \in thread : m.id = n.id => m = n
    /\ post \in [Windows -> {"idle", "insert", "answer"}]
    /\ active \in Users \union {None} /\ draft \in Users \union {None}
    /\ reply.pc \in {"idle", "insert", "answer"}
    /\ made \in 0..MaxMessages

Init ==
    /\ today = 1
    /\ thread = {}
    /\ post = [t \in Windows |-> "idle"]
    /\ active = None /\ draft = None
    /\ reply = NoReply
    /\ made = 0 /\ failures = 0

screen == <<active, draft, reply>>

Store(u, admin, meant) ==
    /\ made < MaxMessages
    /\ made' = made + 1
    /\ thread' = thread \union
        {[id |-> made + 1, user |-> u, admin |-> admin, day |-> today, meant |-> meant]}

Midnight ==
    /\ today < MaxDay
    /\ today' = today + 1
    /\ UNCHANGED <<thread, post, screen, made, failures>>

-----------------------------------------------------------------------------
(* The drawer.  Its send button is disabled while a message is under way,   *)
(* so that she sends several at once only from several windows.             *)

Recent(u) == {m \in thread : m.user = u /\ ~m.admin /\ m.day = today}

\* Mutant: one message over the limit.
UnderLimitByOne(u) == Cardinality(Recent(u)) <= RATE_LIMIT_COUNT

UnderLimit(u) == Cardinality(Recent(u)) < RATE_LIMIT_COUNT

\* POST: the messages of today are counted ...
PostCount(t) ==
    /\ post[t] = "idle"
    /\ UnderLimit(t[1])
    /\ post' = [post EXCEPT ![t] = "insert"]
    /\ UNCHANGED <<today, thread, screen, made, failures>>

\* ... and hers is inserted, by another statement ...
PostInsert(t) ==
    /\ post[t] = "insert"
    /\ Store(t[1], FALSE, None)
    /\ post' = [post EXCEPT ![t] = "answer"]
    /\ UNCHANGED <<today, screen, failures>>

PostAnswer(t) ==
    /\ post[t] = "answer"
    /\ post' = [post EXCEPT ![t] = "idle"]
    /\ UNCHANGED <<today, thread, screen, made, failures>>

\* ... unless it fails, and she may try again: her text is still there.
PostFails(t) ==
    /\ post[t] = "insert"
    /\ failures < MaxFailures
    /\ failures' = failures + 1
    /\ post' = [post EXCEPT ![t] = "idle"]
    /\ UNCHANGED <<today, thread, screen, made>>

-----------------------------------------------------------------------------
(* The operator's screen: one textarea, below whichever thread is open.     *)

\* Mutant: what was typed for another stays in the textarea.
OpenedKeeps(was) == was

OpenedEmpty(was) == None

OpenThread(u) ==
    /\ active' = u
    /\ draft' = OpenedEmpty(draft)
    /\ UNCHANGED <<today, thread, post, reply, made, failures>>

Close ==
    /\ active # None
    /\ active' = None
    /\ UNCHANGED <<today, thread, post, draft, reply, made, failures>>

Type ==
    /\ active # None
    /\ draft' = active
    /\ UNCHANGED <<today, thread, post, active, reply, made, failures>>

\* The button is disabled until the answer comes, whatever is opened meanwhile.
Send ==
    /\ reply.pc = "idle"
    /\ active # None /\ draft # None
    /\ reply' = [pc |-> "insert", user |-> active, meant |-> draft]
    /\ UNCHANGED <<today, thread, post, active, draft, made, failures>>

ReplyInsert ==
    /\ reply.pc = "insert"
    /\ Store(reply.user, TRUE, reply.meant)
    /\ reply' = [reply EXCEPT !.pc = "answer"]
    /\ UNCHANGED <<today, post, active, draft, failures>>

\* The textarea is emptied, whoever it is for by now.
ReplyAnswer ==
    /\ reply.pc = "answer"
    /\ reply' = NoReply
    /\ draft' = None
    /\ UNCHANGED <<today, thread, post, active, made, failures>>

\* The statement fails or its answer is lost: the text stays, to be sent again.
ReplyFails ==
    /\ reply.pc # "idle"
    /\ failures < MaxFailures
    /\ failures' = failures + 1
    /\ reply' = NoReply
    /\ UNCHANGED <<today, thread, post, active, draft, made>>

\* The button beside a message.
Delete(m) ==
    /\ thread' = thread \ {m}
    /\ UNCHANGED <<today, post, screen, made, failures>>

Next ==
    \/ Midnight
    \/ \E t \in Windows : PostCount(t) \/ PostInsert(t) \/ PostAnswer(t) \/ PostFails(t)
    \/ \E u \in Users : OpenThread(u)
    \/ Close \/ Type \/ Send \/ ReplyInsert \/ ReplyAnswer \/ ReplyFails
    \/ \E m \in thread : Delete(m)

Spec == Init /\ [][Next]_supportVars

-----------------------------------------------------------------------------
(* Properties *)

\* A reply reaches the user under whose name it was typed and nobody else,
\* however threads are opened and closed while an earlier one is still under
\* way.
RepliesWhereWritten == \A m \in thread : m.admin => m.user = m.meant

\* A user's messages of one day are as many as the limit allows, and one more
\* for every further window she was sending from.
WithinTheDay ==
    \A u \in Users : \A d \in 1..MaxDay :
        Cardinality({m \in thread : m.user = u /\ ~m.admin /\ m.day = d})
            < RATE_LIMIT_COUNT + Cardinality({w \in Windows : w[1] = u})

=============================================================================
