------------------------------ MODULE Mailboxes ------------------------------
(***************************************************************************)
(* lib/mailboxes.ts and the handlers that begin work on a mailbox: the     *)
(* quarter-hourly cron/sync-mail.ts, the "Check now" button of             *)
(* admin/mail/refresh.ts with its cooldown in memory, and the requests of  *)
(* admin/mail/index.ts and draft.ts.  What a poll does to the copy of a    *)
(* mailbox is the subject of MailSync; here it only takes time.            *)
(***************************************************************************)
EXTENDS Integers, Sequences

CONSTANTS
    Slots,        \* the MAILBOX_n_* of the environment, in order; a slot may be unset
    Identity,     \* [admin -> [email, userId]], NoName where the session has none
    NoName,
    Presses, CronRuns, Asks,   \* requests: of the button, of the cron, about letters
    COOLDOWN,     \* COOLDOWN_MS, in ticks
    MaxTime, MaxRestarts          \* bounds

Admins == DOMAIN Identity
Callers == Presses \union CronRuns

\* getMailboxes, by their numbers. Slots may be sparse: a gap does not stop the
\* ones after it.
getMailboxes == {i \in 1..Len(Slots) : Slots[i].set}

AllBoxes == {Slots[i].address : i \in getMailboxes}

MailboxConstants ==
    /\ COOLDOWN \in Nat \ {0} /\ MaxTime \in Nat /\ COOLDOWN <= MaxTime /\ MaxRestarts \in Nat
    /\ Presses \intersect CronRuns = {}
    /\ \A i \in 1..Len(Slots) : Slots[i].canSend \in BOOLEAN /\ NoName \notin Slots[i].owners

VARIABLES
    clock,
    lastPoll,    \* refresh.ts keeps it in memory: [address -> Date.now() of a press]
    call,        \* [Callers -> where the request is]
    begun,       \* presses that began a poll: [by, box, now], since the last start
    letter,      \* [Asks -> what came of the request: kind, who, box]
    restarts

boxVars == <<clock, lastPoll, call, begun, letter, restarts>>

Unborn == [pc |-> "idle", now |-> 0, todo |-> {}]
Unsent == [kind |-> "none", who |-> NoName, box |-> NoName]
Kinds == {"send", "draft", "discard", "mark"}

TypeOK ==
    /\ clock \in COOLDOWN..MaxTime /\ restarts \in 0..MaxRestarts
    /\ \A b \in AllBoxes : lastPoll[b] \in {0} \union COOLDOWN..clock
    /\ \A r \in Callers : /\ call[r].pc \in {"idle", "next", "poll", "done"}
                          /\ call[r].todo \subseteq getMailboxes
    /\ \A l \in Asks : letter[l].kind \in Kinds \union {"none"}

Init ==
    /\ clock = COOLDOWN      \* long after the epoch
    /\ lastPoll = [b \in AllBoxes |-> 0]
    /\ call = [r \in Callers |-> Unborn]
    /\ begun = {}
    /\ letter = [l \in Asks |-> Unsent]
    /\ restarts = 0

-----------------------------------------------------------------------------
(* lib/mailboxes.ts *)

\* Nobody named: shared with every admin.
getMailboxesForAdmin(who) ==
    {i \in getMailboxes :
        \/ Slots[i].owners = {}
        \/ {Identity[who].email, Identity[who].userId} \intersect Slots[i].owners # {}}

\* Mutant: any mailbox there is.
findAnyMailbox(address, who) == {i \in getMailboxes : Slots[i].address = address}

findMailboxForAdmin(address, who) ==
    {i \in getMailboxesForAdmin(who) : Slots[i].address = address}

-----------------------------------------------------------------------------
(* Polling *)

Begins(r, boxes) ==
    /\ call[r].pc = "idle"
    /\ call' = [call EXCEPT ![r] = [pc |-> "next", now |-> clock, todo |-> boxes]]
    /\ UNCHANGED <<clock, lastPoll, begun, letter, restarts>>

CronStart(r) == Begins(r, getMailboxes)

\* One mailbox if asked for and his to see, otherwise every one he can see.
PressStart(r) ==
    \E who \in Admins :
        \/ Begins(r, getMailboxesForAdmin(who))
        \/ \E address \in AllBoxes : \E i \in findMailboxForAdmin(address, who) :
                Begins(r, {i})

\* In the order of the environment.
Leads(r, i) == i \in call[r].todo /\ \A j \in call[r].todo : i <= j

Ended(r) ==
    /\ call[r].pc = "next" /\ call[r].todo = {}
    /\ call' = [call EXCEPT ![r].pc = "done"]
    /\ UNCHANGED <<clock, lastPoll, begun, letter, restarts>>

\* Mutant: against the clock, as it reads now.
CoolingByTheClock(r, b) == clock - lastPoll[b] < COOLDOWN

\* Against the time the request came in, read once before the loop.
Cooling(r, b) == call[r].now - lastPoll[b] < COOLDOWN

\* The stamp and the check are one step: no await lies between them.
PressNext(r) ==
    /\ call[r].pc = "next"
    /\ \E i \in call[r].todo :
        LET b == Slots[i].address IN
        /\ Leads(r, i)
        /\ IF Cooling(r, b)
           THEN /\ call' = [call EXCEPT ![r].todo = @ \ {i}]      \* throttled
                /\ UNCHANGED <<lastPoll, begun>>
           ELSE /\ lastPoll' = [lastPoll EXCEPT ![b] = call[r].now]
                /\ begun' = begun \union {[by |-> r, box |-> b, now |-> call[r].now]}
                /\ call' = [call EXCEPT ![r].pc = "poll"]
    /\ UNCHANGED <<clock, letter, restarts>>

\* In sequence, never in parallel; the cron asks nobody.
CronNext(r) ==
    /\ call[r].pc = "next" /\ call[r].todo # {}
    /\ call' = [call EXCEPT ![r].pc = "poll"]
    /\ UNCHANGED <<clock, lastPoll, begun, letter, restarts>>

\* pollMailbox answers: an error of one mailbox is a result like any other.
PollEnds(r) ==
    /\ call[r].pc = "poll"
    /\ \E i \in call[r].todo :
        /\ Leads(r, i)
        /\ call' = [call EXCEPT ![r] = [pc |-> "next", now |-> @.now, todo |-> @.todo \ {i}]]
    /\ UNCHANGED <<clock, lastPoll, begun, letter, restarts>>

-----------------------------------------------------------------------------
(* Letters and marks: every handler asks findMailboxForAdmin for the mailbox *)

\* Refused, a request changes nothing. The handlers neither read nor write what
\* polling does, so they come last: any other order has the same letters.
Answered(l, kind, who, address, ok) ==
    /\ letter[l] = Unsent /\ ok
    /\ \A r \in Callers : call[r].pc = "done"
    /\ letter' = [letter EXCEPT ![l] = [kind |-> kind, who |-> who, box |-> address]]
    /\ UNCHANGED <<clock, lastPoll, call, begun, restarts>>

\* POST: a mailbox that is read-only refuses.
SendReq(l, who, address) ==
    Answered(l, "send", who, address, \E i \in findMailboxForAdmin(address, who) : Slots[i].canSend)

\* PATCH: marks are ours, and reading needs no leave to send.
MarkReq(l, who, address) ==
    Answered(l, "mark", who, address, findMailboxForAdmin(address, who) # {})

\* "Composing is the first half of sending."
DraftReq(l, who, address) ==
    Answered(l, "draft", who, address, \E i \in findMailboxForAdmin(address, who) : Slots[i].canSend)

DiscardReq(l, who, address) ==
    Answered(l, "discard", who, address, findMailboxForAdmin(address, who) # {})

-----------------------------------------------------------------------------
Tick ==
    /\ clock < MaxTime
    /\ clock' = clock + 1
    /\ UNCHANGED <<lastPoll, call, begun, letter, restarts>>

\* A deploy: the map is gone, and so are the requests under way.
Restart ==
    /\ restarts < MaxRestarts
    /\ restarts' = restarts + 1
    /\ lastPoll' = [b \in AllBoxes |-> 0]
    /\ call' = [r \in Callers |-> IF call[r].pc = "idle" THEN Unborn ELSE [Unborn EXCEPT !.pc = "done"]]
    /\ begun' = {}
    /\ UNCHANGED <<clock, letter>>

Next ==
    \/ Tick \/ Restart
    \/ \E r \in Presses : PressStart(r) \/ PressNext(r)
    \/ \E r \in CronRuns : CronStart(r) \/ CronNext(r)
    \/ \E r \in Callers : PollEnds(r) \/ Ended(r)
    \/ \E l \in Asks, who \in Admins, address \in AllBoxes :
        \/ SendReq(l, who, address) \/ MarkReq(l, who, address)
        \/ DraftReq(l, who, address) \/ DiscardReq(l, who, address)

Spec == Init /\ [][Next]_boxVars

-----------------------------------------------------------------------------
(* Properties *)

\* "A held-down button should not be the thing that gets the account
\* rate-limited": of two presses within the cooldown, by whichever admin and
\* however long their polls take, at most one polls a given mailbox.
HeldButton ==
    \A a, b \in begun : a # b /\ a.box = b.box =>
        a.now - b.now >= COOLDOWN \/ b.now - a.now >= COOLDOWN

\* Nobody writes in the name of a mailbox that is not theirs, or read-only.
InTheirName ==
    \A l \in Asks : letter[l].kind \in {"send", "draft"} =>
        \E i \in 1..Len(Slots) :
            /\ Slots[i].address = letter[l].box /\ Slots[i].set /\ Slots[i].canSend
            /\ Slots[i].owners # {} =>
                 \E n \in Slots[i].owners \ {NoName} :
                    n \in {Identity[letter[l].who].email, Identity[letter[l].who].userId}

=============================================================================
