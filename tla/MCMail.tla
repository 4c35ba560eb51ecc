------------------------------- MODULE MCMail -------------------------------
(***************************************************************************)
(* The operators' mail for TLC: the mailbox and its copy, the composer,    *)
(* the desk, the threat scan, the check of an address it asks for, and the *)
(* requests that begin work on a mailbox.  In the models they share no     *)
(* state (each takes from the others only that a message, a draft or a     *)
(* verdict exists), so one of them moves in each behaviour: every          *)
(* interleaving of two of them would only add states that differ in        *)
(* nothing a property reads.                                               *)
(***************************************************************************)
EXTENDS Naturals, Sequences, TLC

CONSTANTS
    a1, s1, m1, m2, m3, ann, ben, aa, bb,
    None, MaxFailures,
    \* MailSync
    Arriving, Outgoing, SelfCopied, FolderOrder, Filed, Ancestors, RuleTargets,
    Pollers, Operators, MaxPerPoll, MaxRequests, MaxResets, Overlap,
    \* Composer
    Letters, Drafts, MaxCopies,
    \* MailDesk
    Filable, Sender, Start, Tabs, InboxTab, TrashTab, Gone,
    MaxLoads, MaxActs, MaxPolls, MaxElsewhere,
    \* MailThreats
    Scannable, Addresses, Text, Links, Ours, Primary, OnFile, ListsReady, PerMessage, Budget,
    TTL, MaxDay, MaxRuns,
    \* WalletCheck
    Chains, Keys, Reports, MaxTokens, MaxErrors,
    \* Mailboxes
    don, afr, Slots, Identity, NoName, Presses, CronRuns, Asks, COOLDOWN, MaxTime, MaxRestarts

VARIABLES
    part,       \* the one that moves
    failures,
    server, uidNext, epoch, rows, cursor, rule, arrived, poll, org, send, requests, resets,
    overlapped,
    form, shown, drafts, copies, draftUid, save, drop, told, hurried,
    place, tab, bar, list, load, act, offer, rules, filed, taken, loads, acts, polls, elsewhere,
    day, reported, cache, left, scan, threats, level, scanned, seen, runs,
    chain, asked, flags, fetching, errors, result, heard,
    clock, lastPoll, call, begun, letter, restarts

Sync == INSTANCE MailSync
Pen == INSTANCE Composer WITH rows <- drafts, uidNext <- draftUid
Desk == INSTANCE MailDesk
    WITH Messages <- Filable, Folders <- Tabs, INBOX <- InboxTab, Trash <- TrashTab
Threats == INSTANCE MailThreats WITH rows <- threats, Messages <- Scannable, Outgoing <- Ours
Wallet == INSTANCE WalletCheck WITH MaxFailures <- MaxErrors
Boxes == INSTANCE Mailboxes

syncVars == <<server, uidNext, epoch, rows, cursor, rule, arrived, poll, org, send, requests, resets,
              overlapped>>
penVars == <<form, shown, drafts, copies, draftUid, save, drop, told, hurried>>
deskVars == <<place, tab, bar, list, load, act, offer, rules, filed, taken, loads, acts, polls,
             elsewhere>>
threatVars == <<day, reported, cache, left, scan, threats, level, scanned, seen, runs>>
walletVars == <<chain, asked, flags, fetching, errors, result, heard>>
boxVars == <<clock, lastPoll, call, begun, letter, restarts>>
vars == <<part, failures, syncVars, penVars, deskVars, threatVars, walletVars, boxVars>>

Init ==
    /\ part \in {"sync", "composer", "desk", "threats", "wallet", "boxes"}
    /\ Sync!Init /\ Pen!Init /\ Desk!Init /\ Threats!Init /\ Wallet!Init /\ Boxes!Init
    /\ part # "sync" => rule = None

Moves(p, step) == part = p /\ part' = part /\ step

Next ==
    \/ /\ Moves("sync", Sync!Next)
       /\ UNCHANGED <<penVars, deskVars, threatVars, walletVars, boxVars>>
    \/ /\ Moves("composer", Pen!Next)
       /\ UNCHANGED <<syncVars, deskVars, threatVars, walletVars, boxVars>>
    \/ /\ Moves("desk", Desk!Next)
       /\ UNCHANGED <<syncVars, penVars, threatVars, walletVars, boxVars>>
    \/ /\ Moves("threats", Threats!Next)
       /\ UNCHANGED <<syncVars, penVars, deskVars, walletVars, boxVars>>
    \/ /\ Moves("wallet", Wallet!Next)
       /\ UNCHANGED <<syncVars, penVars, deskVars, threatVars, boxVars>>
    \/ /\ Moves("boxes", Boxes!Next)
       /\ UNCHANGED <<failures, syncVars, penVars, deskVars, threatVars, walletVars>>

Spec == Init /\ [][Next]_vars

\* Bound: of the composer, the behaviours in which she works on some letter in
\* turn; of the other letters its properties say nothing.
SomeLetterUnhurried == hurried # Letters

\* INBOX.Nairobi is a folder for filing, and a1 answers s1.
Four == <<"INBOX", "INBOX.Sent", "INBOX.Nairobi", "INBOX.Trash">>
ReplyToSent == a1 :> <<s1>> @@ s1 :> <<>>

\* Two messages of two senders.
TwoSenders == m1 :> ann @@ m2 :> ben
BothInbox == m1 :> InboxTab @@ m2 :> InboxTab

\* The second message repeats an address of the first; the third is ours.
Texts == m1 :> <<aa, bb>> @@ m2 :> <<aa>> @@ m3 :> <<bb>>
LinksIn == m1 :> "none" @@ m2 :> "listed" @@ m3 :> "corrected"
Unproven == aa :> "unverified" @@ bb :> "no"
Days == "danger" :> 3 @@ "caution" :> 2 @@ "clean" :> 1

\* What GoPlus may find: nothing, one flag, or enough for the worst level.
Findings == {{}, {"mixer"}, {"sanctioned", "blacklisted", "phishing", "cybercrime"}}

\* A shared mailbox that is read-only, an unset slot, and one of afr's own.
TwoBoxes ==
    << [address |-> "admin", set |-> TRUE, owners |-> {}, canSend |-> FALSE],
       [address |-> "gap", set |-> FALSE, owners |-> {}, canSend |-> FALSE],
       [address |-> "own", set |-> TRUE, owners |-> {"afrMail"}, canSend |-> TRUE] >>
TwoAdmins == don :> [email |-> "donMail", userId |-> "donId"]
             @@ afr :> [email |-> "afrMail", userId |-> "afrId"]

ASSUME MailConstants ==
    /\ Sync!SyncConstants /\ Pen!ComposerConstants /\ Desk!DeskConstants
    /\ Threats!ThreatConstants /\ Wallet!WalletConstants /\ Boxes!MailboxConstants

-----------------------------------------------------------------------------
(* Each property is its part's, where that part moves, with its TypeOK. *)

\* MailSync (lib/mailSync.ts): the copy is the mailbox's. No failed, repeated or
\* overtaken poll moves a cursor past a message it has not filed, a row has its
\* attachments once and its scan when the poll lets go of it, and when all rest
\* the rows are the messages of the server, each in its folder, none twice, unless
\* something failed, was renumbered, or began while another was at work.
MailboxCopied ==
    part = "sync" =>
        Sync!TypeOK /\ Sync!NothingSkipped /\ Sync!WholeMessages /\ Sync!PanelIsMailbox

\* Composer (mailboxWindows.client.ts, saveDraft, deleteDraft): a letter she was
\* told is in Drafts stays in the mailbox until she sends or discards it, and
\* the panel's drafts and the mailbox's agree when all is quiet; of the letters
\* whose saves and deletes she never worked around.
DraftKept == part = "composer" => Pen!TypeOK /\ Pen!DraftKept /\ Pen!DraftsAgree

\* MailDesk (organize.ts): a standing rule names a folder that mail of its
\* sender was filed in, unless some was taken away under the request.
RuleFromAMove == part = "desk" => Desk!TypeOK /\ Desk!RuleFromAMove

\* MailDesk (organize.ts): the one action with no undo reaches only what is in Trash.
DestroyOnlyFromTrash == Desk!DestroyOnlyFromTrash

\* MailThreats and WalletCheck (lib/mailThreats.ts, lib/walletChecker.ts): a
\* replayed clean is recent, an outage keeps its caveat, a row's colour is its
\* worst finding; and a clean that is not called partial was answered by every
\* source that can raise a flag.
VerdictsHold ==
    /\ part = "threats" => /\ Threats!TypeOK /\ Threats!CleanIsRecent
                           /\ Threats!CaveatSurvives /\ Threats!ColouredByTheWorst
    /\ part = "wallet" => Wallet!TypeOK /\ Wallet!CleanIsAnswered

\* Mailboxes (refresh.ts, mailboxes.ts): of two presses within the cooldown at
\* most one polls a mailbox, however long the polls take; and nobody writes in
\* the name of a mailbox that is not theirs, or read-only.
HeldButton == part = "boxes" => Boxes!TypeOK /\ Boxes!HeldButton /\ Boxes!InTheirName

=============================================================================
