----------------------------- MODULE MailThreats -----------------------------
(***************************************************************************)
(* Each stored message is scanned for wallet addresses and links: the      *)
(* members' payout addresses, a cache of verdicts in the database, and a   *)
(* limited number of live checks, which may find their source down.        *)
(* lib/mailThreats.ts, lib/walletChecker.ts checkWallet,                   *)
(* lib/threatLists.ts lookupDomainThreats (what fills the lists is called  *)
(* by nothing and left out).  The cache of the process that scanAndRecord  *)
(* asks first (getCached) is always empty, since nothing calls             *)
(* walletChecker's setCache (walletChecker.ts:169).                        *)
(***************************************************************************)
EXTENDS Integers, Sequences

CONSTANTS
    Messages,
    Addresses,    \* each message names some of them, in order
    Text,         \* [Messages -> Seq(Addresses)]
    Links,        \* [Messages -> {"none", "listed", "corrected"}]: a domain on a
                  \* blocklist, one that MetaMask's whitelist takes back
    Outgoing,     \* the messages we sent: danger only
    Primary,      \* addresses on chains that the primary source covers
    OnFile,       \* [Addresses -> {"no", "unverified", "verified"}]
    ListsReady,   \* whether the blocklists have been loaded
    PerMessage,   \* addresses put through the check, per message
    Budget,       \* live checks per poll run
    TTL,          \* [level -> days]
    MaxDay, MaxRuns, MaxFailures   \* bounds

\* What the constants are.
ThreatConstants ==
    /\ Text \in [Messages -> Seq(Addresses)]
    /\ OnFile \in [Addresses -> {"no", "unverified", "verified"}]
    /\ Outgoing \subseteq Messages /\ Primary \subseteq Addresses
    /\ PerMessage \in Nat /\ Budget \in Nat /\ MaxDay \in Nat
    /\ TTL \in [{"danger", "caution", "clean"} -> Nat \ {0}]

VARIABLES
    day,
    reported,     \* [Primary -> 0..2]: not, with one flag, with many
    cache,        \* wallet_verdict_cache
    left,         \* the run's budget.addressChecksLeft; None between runs
    scan,         \* scanAndRecord under way
    rows,         \* mail_threats: [msg, item, severity]
    level,        \* mail_messages.threat_level
    scanned,      \* "new"; "open": its only scan began; "done": scanned_at is set
    seen,         \* history: the verdicts that scans went by, how old they were
                  \* and (as ran) whether the primary source had answered
    runs, failures

vars == <<day, reported, cache, left, scan, rows, level, scanned, seen, runs, failures>>

Levels == {"clean", "caution", "danger"}
NoVerdict == [level |-> "none", flagged |-> FALSE, partial |-> FALSE, ran |-> FALSE,
              at |-> 0, till |-> -1]
NoRun == -1
Idle == [pc |-> "idle", msg |-> CHOOSE m \in Messages : TRUE, todo |-> <<>>, found |-> <<>>]
Item(i, s) == [item |-> i, severity |-> s]

TypeOK ==
    /\ day \in 0..MaxDay
    /\ reported \in [Primary -> 0..2]
    /\ \A a \in Addresses : cache[a] = NoVerdict \/ cache[a].level \in Levels
    /\ left \in -1..Budget
    /\ scan.pc \in {"idle", "known", "verdict", "live", "insert", "stamp"}
    /\ \A r, q \in rows : r.msg = q.msg /\ r.item = q.item => r = q
    /\ level \in [Messages -> {"none", "warning", "danger"}]
    /\ \A m \in Messages : level[m] # "none" => scanned[m] = "done"

Init ==
    /\ day = 0
    /\ reported = [a \in Primary |-> 0]
    /\ cache = [a \in Addresses |-> NoVerdict]
    /\ left = NoRun /\ scan = Idle
    /\ rows = {} /\ level = [m \in Messages |-> "none"] /\ scanned = [m \in Messages |-> "new"]
    /\ seen = {} /\ runs = 0 /\ failures = 0

Fail == failures < MaxFailures /\ failures' = failures + 1

-----------------------------------------------------------------------------
(* The world *)

Tomorrow ==
    /\ day < MaxDay /\ day' = day + 1
    /\ UNCHANGED <<reported, cache, left, scan, rows, level, scanned, seen, runs, failures>>

\* Reports accumulate; none is taken back.
Report(a) ==
    /\ reported[a] < 2
    /\ reported' = [reported EXCEPT ![a] = @ + 1]
    /\ UNCHANGED <<day, cache, left, scan, rows, level, scanned, seen, runs, failures>>

\* pollMailbox: a fresh budget, and expired verdicts swept.
RunStarts ==
    /\ left = NoRun /\ runs < MaxRuns
    /\ left' = Budget /\ runs' = runs + 1
    /\ cache' = [a \in Addresses |-> IF cache[a].till < day THEN NoVerdict ELSE cache[a]]
    /\ UNCHANGED <<day, reported, scan, rows, level, scanned, seen, failures>>

RunEnds ==
    /\ left # NoRun /\ scan.pc = "idle"
    /\ left' = NoRun
    /\ UNCHANGED <<day, reported, cache, scan, rows, level, scanned, seen, runs, failures>>

-----------------------------------------------------------------------------
(* scanMessage *)

\* Links first: they cost nothing. No list, or a correction, says nothing.
LinkFindings(m) ==
    IF ListsReady /\ Links[m] = "listed" THEN <<Item("link", "danger")>> ELSE <<>>

ScanStarts(m) ==
    LET n == IF Len(Text[m]) < PerMessage THEN Len(Text[m]) ELSE PerMessage
        todo == SubSeq(Text[m], 1, n) IN
    /\ left # NoRun /\ scan.pc = "idle" /\ scanned[m] = "new"
    /\ scanned' = [scanned EXCEPT ![m] = "open"]
    /\ scan' = [pc |-> IF n = 0 THEN "insert" ELSE "known", msg |-> m, todo |-> todo,
                found |-> LinkFindings(m)]
    /\ UNCHANGED <<day, reported, cache, left, rows, level, seen, runs, failures>>

\* With these findings more, on to the next address, or to recording.
NextAddress(more) ==
    scan' = [scan EXCEPT !.todo = Tail(@), !.found = @ \o more,
                         !.pc = IF Len(scan.todo) = 1 THEN "insert" ELSE "known"]

\* lookupKnownAddress; a failing query says nothing.
Known ==
    /\ scan.pc = "known"
    /\ \/ /\ scan' = [scan EXCEPT !.pc = "verdict", !.found = @ \o
                CASE OnFile[Head(scan.todo)] = "verified" -> <<Item(Head(scan.todo), "known")>>
                  [] OnFile[Head(scan.todo)] = "unverified" -> <<Item(Head(scan.todo), "warning")>>
                  [] OnFile[Head(scan.todo)] = "no" -> <<>>]
          /\ failures' = failures
       \/ scan' = [scan EXCEPT !.pc = "verdict"] /\ Fail
    /\ UNCHANGED <<day, reported, cache, left, rows, level, scanned, seen, runs>>

\* What a verdict says of an address. Every flag has a reason, so any flag is
\* danger, whatever the score; clean without its source says nothing.
Says(a, v) ==
    IF v.level = "danger" \/ v.flagged THEN <<Item(a, "danger")>>
    ELSE IF v.level = "caution" /\ scan.msg \notin Outgoing THEN <<Item(a, "warning")>>
    ELSE <<>>

GoBy(a, v) ==
    /\ NextAddress(Says(a, v))
    /\ seen' = seen \union {[msg |-> scan.msg, level |-> v.level, flagged |-> v.flagged,
                            partial |-> v.partial, ran |-> v.ran, age |-> day - v.at]}

\* readCachedVerdict: expires_at > now().
Cached ==
    LET a == Head(scan.todo) IN
    /\ scan.pc = "verdict"
    /\ cache[a].till > day
    /\ GoBy(a, cache[a])
    /\ UNCHANGED <<day, reported, cache, left, rows, level, scanned, runs, failures>>

\* A miss, or a failing query: one of the run's checks, if it has any left.
NotCached ==
    LET a == Head(scan.todo) IN
    /\ scan.pc = "verdict"
    /\ \/ cache[a].till <= day /\ failures' = failures
       \/ cache[a].till > day /\ Fail
    /\ IF left > 0 THEN left' = left - 1 /\ scan' = [scan EXCEPT !.pc = "live"]
       ELSE left' = left /\ NextAddress(<<>>)
    /\ UNCHANGED <<day, reported, cache, rows, level, scanned, seen, runs>>

\* calculateScamScore: each weight over the sum of all, so that one flag alone,
\* a sanction too, is caution.
LevelOf(flags) == CASE flags = 0 -> "clean" [] flags = 1 -> "caution" [] flags = 2 -> "danger"

\* checkWallet. A chain it knows but has no data for: a stub, caution. A source
\* that is down adds no flags, and leaves the coverage partial.
Answers(a) ==
    IF a \in Primary
    THEN [level |-> LevelOf(reported[a]), flagged |-> reported[a] > 0, partial |-> FALSE, ran |-> TRUE]
    ELSE [level |-> "caution", flagged |-> FALSE, partial |-> TRUE, ran |-> FALSE]

\* Some of its flags may have come: GoPlus is asked for several chains at once.
OutageAnswer(a, flags) ==
    [level |-> IF a \in Primary THEN LevelOf(flags) ELSE "caution",
     flagged |-> flags > 0, partial |-> TRUE, ran |-> FALSE]

\* Mutant: every verdict is kept as long as the worst.
KeptAlike(v) == [v EXCEPT !.till = day + TTL["danger"]]

\* Mutant: the caveat is not stored.
KeptBare(v) == [v EXCEPT !.till = day + TTL[v.level], !.partial = FALSE]

\* writeCachedVerdict: a verdict lasts by how bad it is.
Kept(v) == [v EXCEPT !.till = day + TTL[v.level]]

Checked(a, ans) ==
    LET v == [level |-> ans.level, flagged |-> ans.flagged, partial |-> ans.partial,
              ran |-> ans.ran, at |-> day, till |-> day] IN
    /\ GoBy(a, v)
    /\ \/ cache' = [cache EXCEPT ![a] = Kept(v)]
       \/ cache' = cache

Live ==
    LET a == Head(scan.todo) IN
    /\ scan.pc = "live"
    /\ Checked(a, Answers(a))
    /\ UNCHANGED <<day, reported, left, rows, level, scanned, runs, failures>>

\* The sources time out.
LiveDown ==
    LET a == Head(scan.todo) IN
    /\ scan.pc = "live"
    /\ \E flags \in 0..(IF a \in Primary THEN reported[a] ELSE 0) : Checked(a, OutageAnswer(a, flags))
    /\ Fail
    /\ UNCHANGED <<day, reported, left, rows, level, scanned, runs>>

-----------------------------------------------------------------------------
(* scanAndRecord: the rows, and last the message *)

\* ON CONFLICT (message_id, kind, value) DO NOTHING
Insert ==
    LET done == {r.item : r \in {r \in rows : r.msg = scan.msg}}
        fresh == {i \in DOMAIN scan.found : scan.found[i].item \notin done /\
                    \A j \in 1..(i - 1) : scan.found[j].item # scan.found[i].item} IN
    /\ scan.pc = "insert"
    /\ rows' = rows \union {[msg |-> scan.msg, item |-> scan.found[i].item,
                             severity |-> scan.found[i].severity] : i \in fresh}
    /\ scan' = [scan EXCEPT !.pc = "stamp"]
    /\ UNCHANGED <<day, reported, cache, left, level, scanned, seen, runs, failures>>

Severities == {scan.found[i].severity : i \in DOMAIN scan.found}

\* Mutant: the first finding decides.
FirstLevel == IF scan.found = <<>> \/ scan.found[1].severity = "known" THEN "none"
              ELSE scan.found[1].severity

\* 'known' does not colour the row.
WorstLevel == IF "danger" \in Severities THEN "danger"
              ELSE IF "warning" \in Severities THEN "warning" ELSE "none"

Stamp ==
    /\ scan.pc = "stamp"
    /\ level' = [level EXCEPT ![scan.msg] = WorstLevel]
    /\ scanned' = [scanned EXCEPT ![scan.msg] = "done"]
    /\ scan' = Idle
    /\ UNCHANGED <<day, reported, cache, left, rows, seen, runs, failures>>

\* A statement fails, and the message stays unstamped; or the process dies.
ScanFails ==
    /\ Fail
    /\ scan.pc # "idle"
    /\ scan' = Idle
    /\ left' \in {left, NoRun}
    /\ left' = left => scan.pc \in {"insert", "stamp"}
    /\ UNCHANGED <<day, reported, cache, rows, level, scanned, seen, runs>>

-----------------------------------------------------------------------------
Next ==
    \/ Tomorrow \/ RunStarts \/ RunEnds
    \/ \E a \in Primary : Report(a)
    \/ \E m \in Messages : ScanStarts(m)
    \/ Known \/ Cached \/ NotCached \/ Live \/ LiveDown \/ Insert \/ Stamp \/ ScanFails

Spec == Init /\ [][Next]_vars

-----------------------------------------------------------------------------
(* Properties *)

\* mailThreats.ts:33-40: a stale clean is the dangerous direction to be wrong in.
\* Whatever the cache, the sweeps and the days between do, no message is passed
\* on a clean verdict older than a clean verdict may be.
CleanIsRecent ==
    \A s \in seen : s.level = "clean" => s.age < TTL["clean"]

\* Migration 0031: a clean with partial coverage must never be replayed as a
\* confident clean. A clean verdict that carries no caveat, cached or not, was
\* made when its source answered.
CaveatSurvives ==
    \A s \in seen : s.level = "clean" /\ ~s.partial => s.ran

\* A scanned message has the colour of the worst that its scan went by, though
\* an address may be a member's own and found before it was found dangerous.
ColouredByTheWorst ==
    \A s \in seen : scanned[s.msg] = "done" /\ s.flagged => level[s.msg] = "danger"

=============================================================================
