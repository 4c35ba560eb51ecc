------------------------------ MODULE WalletCheck ------------------------------
(***************************************************************************)
(* lib/walletChecker.ts: checkWallet asks GoPlus (a query for each of      *)
(* three EVM chains, all into one set of flags and one list of errors) and *)
(* seven other fetchers, and settles for what came.  MailThreats takes the *)
(* verdict: its level, its flags, and whether it is a partial one.         *)
(*                                                                         *)
(* The fetchers share nothing and all are waited for, so that beside       *)
(* GoPlus's queries they take turns.  A fetcher is its requests in order,  *)
(* and what a failing one of them does.                                    *)
(***************************************************************************)
EXTENDS Integers, Sequences

CONSTANTS
    Chains,       \* those looked at, of detectChain's
    Keys,         \* the API keys that are configured
    Reports,      \* the sets of flags an answer of GoPlus may raise
    MaxTokens,    \* bound: balances whose metadata is asked for
    MaxFailures   \* bound

\* FLAG_WEIGHTS
Weight == [sanctioned |-> 100, blacklisted |-> 90, phishing |-> 80, stealingAttack |-> 80,
           honeypotRelated |-> 70, cybercrime |-> 70, financialCrime |-> 65,
           moneyLaundering |-> 60, darkwebTransactions |-> 60, blackmail |-> 50, mixer |-> 40]
Flags == DOMAIN Weight

WalletConstants ==
    /\ Keys \subseteq {"etherscan", "alchemy", "chainabuse"}
    /\ Reports \subseteq SUBSET Flags
    /\ "none" \notin Chains

VARIABLES
    chain,        \* of the address; "none" before the check
    asked,        \* GoPlus's queries under way
    flags,        \* raised so far
    fetching,     \* of each of the other fetchers, the requests it has left
    errors,       \* what result.errors names: a request, or GoPlus's chain
    result,       \* NoResult before the check has settled
    heard,        \* history: the queries and requests that were answered, with the flags
    failures

checkVars == <<chain, asked, flags, fetching, errors, result, heard, failures>>

NoResult == [level |-> "none"]
AllIn == asked = {} /\ \A f \in DOMAIN fetching : fetching[f] = <<>>

TypeOK ==
    /\ chain \in Chains \union {"none"}
    /\ flags \subseteq Flags
    /\ result # NoResult => /\ result.level \in {"clean", "caution", "danger"}
                        /\ result.score \in 0..100
                        /\ AllIn

Init ==
    /\ chain = "none" /\ asked = {} /\ flags = {} /\ fetching = <<>> /\ errors = {}
    /\ result = NoResult /\ heard = {} /\ failures = 0

-----------------------------------------------------------------------------
(* The fetchers *)

\* A request: whether an answer that is no success, and no answer in time, are
\* named in the errors; and whether the fetcher goes on after either.
Request(ask, refusal, silence, goesOn) ==
    [ask |-> ask, refusal |-> refusal, silence |-> silence, goesOn |-> goesOn]

Said(ask) == Request(ask, TRUE, TRUE, FALSE)
Optional(ask) == Request(ask, FALSE, FALSE, TRUE)

\* Neither a chain nor a key for it: no request.
With(key, requests) == IF key \in Keys THEN requests ELSE <<>>

GoPlusIds(c) == CASE c = "evm" -> {"1", "56", "137"}
                  [] c = "solana" -> {"solana"}
                  [] c = "tron" -> {"tron"}
                  [] OTHER -> {}

EtherscanActivity ==
    With("etherscan", <<Request("firstTx", FALSE, TRUE, TRUE), Request("lastTx", FALSE, TRUE, TRUE),
                        Request("balance", FALSE, TRUE, TRUE)>>)

TokenBalances ==
    With("alchemy", <<Said("tokens")>> \o [i \in 1..MaxTokens |-> Optional("metadata")])

HoneypotCheck == <<Said("honeypot")>>
MultiSigCheck == With("etherscan", <<Request("abi", FALSE, TRUE, FALSE)>>)
SuiHoldings == <<Said("suiBalances"), Optional("suiPrice")>>
SuiActivity == <<Said("suiTransactions"), Said("suiBalance")>>
TronActivity == <<Said("tronAccount")>>
TronHoldings == <<Said("tronTokens"), Optional("tronPrice"), Optional("tronNative")>>
\* An address of the registry is labelled at once; the label decides nothing.
EntityLabel(known) == IF known THEN <<>> ELSE With("etherscan", <<Optional("sourceCode")>>)
ENSName == With("alchemy", <<Optional("ens")>>)

ChainabuseReports(c) ==
    IF c \in {"evm", "solana", "bitcoin", "litecoin", "tron"}
    THEN With("chainabuse", <<Said("chainabuse")>>) ELSE <<>>

Fetchers(c, known) ==
    CASE c = "evm" -> <<EtherscanActivity, TokenBalances, HoneypotCheck, MultiSigCheck,
                        EntityLabel(known), ENSName, ChainabuseReports(c)>>
      [] c = "sui" -> <<SuiActivity, SuiHoldings, ChainabuseReports(c)>>
      [] c = "tron" -> <<TronActivity, TronHoldings, ChainabuseReports(c)>>
      [] OTHER -> <<ChainabuseReports(c)>>

\* What they name without asking anybody.
SaidAtOnce(c) ==
    CASE c = "evm" -> {k \in {"etherscan", "alchemy"} : k \notin Keys}
      [] c \in {"sui", "tron"} -> {}
      [] OTHER -> {"activity", "holdings"}

-----------------------------------------------------------------------------
(* checkWallet *)

Supported == {"evm", "sui", "solana", "bitcoin", "litecoin", "tron"}

\* A chain it knows, and has no data for: no question is asked.
Stub == [level |-> "caution", score |-> 0, flags |-> {}, partial |-> TRUE,
         coverage |-> [goplus |-> "skipped", honeypot |-> "skipped", chainabuse |-> "skipped"]]

Check(c, known) ==
    /\ chain = "none"
    /\ chain' = c
    /\ IF c \in Supported
       THEN /\ asked' = GoPlusIds(c) /\ fetching' = Fetchers(c, known)
            /\ errors' = SaidAtOnce(c)
            /\ result' = result
       ELSE result' = Stub /\ UNCHANGED <<asked, fetching, errors>>
    /\ UNCHANGED <<flags, heard, failures>>

Fail == failures < MaxFailures /\ failures' = failures + 1

\* One of GoPlus's chains answers: a flag once raised stays.
GoPlusAnswers(id, report) ==
    /\ id \in asked
    /\ asked' = asked \ {id}
    /\ flags' = flags \union report
    /\ heard' = heard \union {<<id, report>>}
    /\ UNCHANGED <<chain, fetching, errors, result, failures>>

GoPlusFails(id) ==
    /\ id \in asked
    /\ Fail
    /\ asked' = asked \ {id}
    /\ errors' = errors \union {id}
    /\ UNCHANGED <<chain, flags, fetching, result, heard>>

\* The next request of one that has any left.
Turn == CHOOSE f \in DOMAIN fetching : fetching[f] # <<>>
Now == Head(fetching[Turn])

Answered ==
    /\ fetching' = [fetching EXCEPT ![Turn] = Tail(@)]
    /\ heard' = heard \union {<<Now.ask, {}>>}
    /\ UNCHANGED <<chain, asked, flags, errors, result, failures>>

\* An answer that is no success, or none within fetchWithTimeout's 8 seconds.
Failed(named) ==
    /\ Fail
    /\ errors' = IF named THEN errors \union {Now.ask} ELSE errors
    /\ fetching' = [fetching EXCEPT ![Turn] = IF Now.goesOn THEN Tail(@) ELSE <<>>]
    /\ UNCHANGED <<chain, asked, flags, result, heard>>

Fetching ==
    /\ \E f \in DOMAIN fetching : fetching[f] # <<>>
    /\ Answered \/ Failed(Now.refusal) \/ Failed(Now.silence)

\* The weights of these, added up.
Total(raised) ==
    LET w(f) == IF f \in raised THEN Weight[f] ELSE 0 IN
    w("sanctioned") + w("blacklisted") + w("phishing") + w("stealingAttack")
    + w("honeypotRelated") + w("cybercrime") + w("financialCrime") + w("moneyLaundering")
    + w("darkwebTransactions") + w("blackmail") + w("mixer")

\* Math.round of the share of the whole, in percent.
Score(raised) ==
    LET rounded == (200 * Total(raised) + Total(Flags)) \div (2 * Total(Flags)) IN
    IF rounded > 100 THEN 100 ELSE rounded

\* calculateScamScore
Level(score) == IF score = 0 THEN "clean" ELSE IF score < 40 THEN "caution" ELSE "danger"

\* Mutant: GoPlus has run if one of its chains has answered.
GoPlusAllErrored(c) == GoPlusIds(c) \subseteq errors

GoPlusErrored(c) == GoPlusIds(c) \intersect errors # {}

Coverage(c) ==
    [goplus |-> IF GoPlusIds(c) = {} THEN "skipped" ELSE IF GoPlusErrored(c) THEN "error" ELSE "ran",
     honeypot |-> IF c # "evm" THEN "skipped" ELSE IF "honeypot" \in errors THEN "error" ELSE "ran",
     chainabuse |-> IF "chainabuse" \in errors THEN "error" ELSE "ran"]

Settle ==
    /\ chain # "none" /\ result = NoResult
    /\ AllIn
    /\ result' = [level |-> Level(Score(flags)), score |-> Score(flags), flags |-> flags,
                  coverage |-> Coverage(chain),
                  partial |-> Coverage(chain).goplus # "ran"]
    /\ UNCHANGED <<chain, asked, flags, fetching, errors, heard, failures>>

Next ==
    \/ \E c \in Chains, known \in BOOLEAN : Check(c, known)
    \/ \E id \in asked : GoPlusFails(id) \/ \E r \in Reports : GoPlusAnswers(id, r)
    \/ Fetching
    \/ Settle

Spec == Init /\ [][Next]_checkVars

-----------------------------------------------------------------------------
(* Properties *)

\* "A clean verdict where the primary source could not run must NOT be shown as a
\* confident green": whichever chains and sources answer, in whatever order, a
\* flag that any of them raised is in the verdict and keeps it from being clean,
\* and a clean one that is not partial has the answer of every chain.
CleanIsAnswered ==
    result \notin {NoResult, Stub} =>
        /\ \A h \in heard : h[2] \subseteq result.flags
        /\ result.level = "clean" <=> result.flags = {}
        /\ ~result.partial => /\ GoPlusIds(chain) # {}
                              /\ GoPlusIds(chain) \subseteq {h[1] : h \in heard}
        /\ result.coverage.honeypot = "ran" => <<"honeypot", {}>> \in heard

=============================================================================
