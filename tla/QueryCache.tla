----------------------------- MODULE QueryCache -----------------------------
(***************************************************************************)
(* The browser's cache of API answers: the query and mutation hooks of     *)
(* frontend/src/app/hooks/useApi.ts over TanStack Query, whose client is   *)
(* configured by QueryProvider.  The library is external; it is modelled   *)
(* by what these hooks rely on: prefix-matched keys, invalidation that     *)
(* restarts a running fetch, cancellation that drops one, setQueryData     *)
(* that marks the entry fresh.                                             *)
(*                                                                         *)
(* What an endpoint answers is a number: a version of the resource, or for *)
(* the two pool figures the amount itself.  Steps are the stretches        *)
(* between awaits.                                                         *)
(***************************************************************************)
EXTENDS Integers, Sequences, FiniteSets, SequencesExt

CONSTANTS
    Wallet, LoanId, DisputeId,   \* the identifiers this session uses
    UsedQueries, UsedMutations,  \* hooks of this instance, by name
    Pages,                       \* the sets of hooks that are on screen together
    MaxCalls,                    \* mutation calls the user makes
    Amount,                      \* of a deposit or withdrawal
    NoData, NoAnswer,
    MaxFailures, MaxVisits, MaxForeignWrites

ASSUME QueryConstants ==
    /\ Amount \in Nat \ {0} /\ MaxCalls \in Nat
    /\ MaxFailures \in Nat /\ MaxVisits \in Nat /\ MaxForeignWrites \in Nat

------------------------------------------------------------------------------
Calls == 1..MaxCalls

(* The query hooks: key and resource read.  An argument the key ends in    *)
(* (a page, a range of days) is left out: only prefixes are ever matched.  *)

Query(key, resource) == [key |-> key, resource |-> resource]

LoanQueries ==
    [useLoans |-> Query(<<"loans">>, "loans"),
     useLoan |-> Query(<<"loans", LoanId>>, "loans"),
     useLoanAmortizationSchedule |-> Query(<<"loans", LoanId, "amortization">>, "loans"),
     useLoanAmortizationPreview |-> Query(<<"loans", "amortization-preview">>, "terms")]

LoanListQueries ==
    [useLiquidatableLoans |-> Query(<<"loans", "liquidatable">>, "loans"),
     useLoanEvents |-> Query(<<"loans", LoanId, "events">>, "loans"),
     useMinimumScore |-> Query(<<"loans", "config">>, "config")]

RemittanceQueries ==
    [useRemittances |-> Query(<<"remittances">>, "remittances"),
     useRemittancesPage |-> Query(<<"remittances", "page">>, "remittances")]

UserQueries ==
    [useUserProfile |-> Query(<<"user", "profile">>, "profile"),
     useUserBalance |-> Query(<<"user", "balance">>, "balance"),
     useCreditScoreHistory |-> Query(<<"creditScoreHistory", Wallet>>, "score"),
     useScoreBreakdown |-> Query(<<"scoreBreakdown", Wallet>>, "score"),
     useRemittanceNft |-> Query(<<"remittanceNft", Wallet>>, "nft")]

ScoreQueries == [useCreditScore |-> Query(<<"creditScore", Wallet>>, "score")]

YieldQueries == [useYieldHistory |-> Query(<<"yieldHistory", Wallet>>, "yield")]

BorrowerQueries ==
    [useBorrowerLoans |-> Query(<<"borrowerLoans", Wallet>>, "loans"),
     useBorrowerLoansPage |-> Query(<<"loans", "borrower", Wallet>>, "loans")]

PoolQueries ==
    [usePoolStats |-> Query(<<"pool", "stats">>, "totalDeposits"),
     useDepositorPortfolio |-> Query(<<"pool", "depositor", Wallet>>, "depositAmount")]

PreferenceQueries ==
    [useNotificationPreferences |-> Query(<<"notificationPreferences">>, "preferences")]

SessionQueries == [useVerifySession |-> Query(<<"auth", "verify">>, "session")]

DisputeQueries ==
    [useAdminDisputes |-> Query(<<"admin", "disputes">>, "disputes"),
     useAdminDispute |-> Query(<<"admin", "disputes", DisputeId>>, "disputes")]

OverviewQueries ==
    [useMyTransactions |-> Query(<<"transactions", "me">>, "transactions"),
     useAdminGovernancePending |-> Query(<<"admin", "governance", "pending">>, "proposals")]

QueryTables ==
    {LoanQueries, LoanListQueries, RemittanceQueries, UserQueries, ScoreQueries, YieldQueries,
     BorrowerQueries, PoolQueries, PreferenceQueries, SessionQueries, DisputeQueries, OverviewQueries}

AllQueries ==
    [q \in UNION {DOMAIN table : table \in QueryTables} |->
        (CHOOSE table \in QueryTables : q \in DOMAIN table)[q]]

KeyOf(q) == AllQueries[q].key
ResourceOf(q) == AllQueries[q].resource
Resources == {ResourceOf(q) : q \in UsedQueries}

------------------------------------------------------------------------------
(* The mutation hooks: the resources the endpoint writes, the keys         *)
(* invalidated on success and when settled, and the optimistic change of   *)
(* the pool figures (0 for none).                                          *)

Mutation(writes, onSuccess, onSettled, step) ==
    [writes |-> writes, onSuccess |-> onSuccess, onSettled |-> onSettled, step |-> step]

useCreateLoan == Mutation({"loans"}, {<<"loans">>, <<"borrowerLoans", Wallet>>}, {}, 0)

useCreateRemittance == Mutation({"remittances"}, {<<"remittances">>}, {}, 0)

useUpdateNotificationPreferences ==
    Mutation({"preferences"}, {<<"notificationPreferences">>}, {}, 0)

useResolveAdminDispute_Faulty ==
    Mutation({"disputes"}, {<<"admin", "disputes", DisputeId>>}, {}, 0)

useResolveAdminDispute ==
    Mutation({"disputes"},
             {<<"admin", "disputes">>, <<"admin", "disputes", DisputeId>>}, {}, 0)

(* Only builds a transaction.                                              *)
useRepayLoan == Mutation({}, {}, {}, 0)

PoolKeys == {<<"pool", "stats">>, <<"pool", "depositor", Wallet>>}

useDepositToPool_Faulty == Mutation({}, PoolKeys, {}, Amount)

useDepositToPool == Mutation({}, {}, PoolKeys, Amount)

useWithdrawFromPool == Mutation({}, {}, PoolKeys, -Amount)

(* Build, sign and submit in one mutation; nothing is invalidated.         *)
useDepositCollateral == Mutation({"loans"}, {}, {}, 0)

useReleaseCollateral == Mutation({"loans"}, {}, {}, 0)

AllMutations ==
    [useCreateLoan |-> useCreateLoan, useCreateRemittance |-> useCreateRemittance,
     useUpdateNotificationPreferences |-> useUpdateNotificationPreferences,
     useResolveAdminDispute |-> useResolveAdminDispute, useRepayLoan |-> useRepayLoan,
     useDepositToPool |-> useDepositToPool, useWithdrawFromPool |-> useWithdrawFromPool,
     useDepositCollateral |-> useDepositCollateral, useReleaseCollateral |-> useReleaseCollateral]

ASSUME HookNames ==
    UsedQueries \subseteq DOMAIN AllQueries /\ UsedMutations \subseteq DOMAIN AllMutations

------------------------------------------------------------------------------
VARIABLES
    server,       \* resource -> what the API answers now
    entry,        \* query -> its cache entry
    call,         \* mutation call -> its progress
    announced,    \* resource -> the version whose write the hooks announced
    scoreStream,  \* useCreditScore's connection
    scoreEvents,  \* score events on their way on that connection
    failures, visits, foreignWrites

cacheVars == <<server, entry, call, announced, scoreStream, scoreEvents,
               failures, visits, foreignWrites>>
rest == <<server, call, announced, scoreStream, scoreEvents, foreignWrites>>

(* fetch is "none", "sent", or "read" with the answer on its way; guess    *)
(* says that setQueryData wrote the data, overtaken that the entry was     *)
(* invalidated while a fetch of an unmounted hook was running.             *)
Empty == [data |-> NoData, stale |-> TRUE, mounted |-> FALSE, fetch |-> "none",
          answer |-> NoAnswer, failed |-> FALSE, guess |-> FALSE, overtaken |-> FALSE]
NotCalled == [hook |-> "none", pc |-> "ready", wrote |-> FALSE, snapshot |-> [q \in {} |-> NoData]]

Sent(e) ==
    [e EXCEPT !.fetch = "sent", !.answer = NoAnswer, !.failed = FALSE, !.overtaken = FALSE]
Dropped(e) == [e EXCEPT !.fetch = "none", !.answer = NoAnswer]

Matches(q, keys) == \E k \in keys : IsPrefix(k, KeyOf(q))

(* invalidateQueries: stale, and a mounted query starts over.  The fetch   *)
(* of an unmounted one (no queryFn takes the abort signal) runs on, and    *)
(* its answer will count as fresh.                                         *)
Invalidated(entries, keys) ==
    [q \in UsedQueries |->
        IF ~Matches(q, keys) THEN entries[q]
        ELSE IF entries[q].mounted THEN Sent([entries[q] EXCEPT !.stale = TRUE])
        ELSE [entries[q] EXCEPT !.stale = TRUE, !.overtaken = @ \/ entries[q].fetch # "none"]]

------------------------------------------------------------------------------
(* Queries.                                                                *)

(* A component with the hook appears; fresh data is shown as it is.        *)
MountQuery(q) ==
    /\ ~entry[q].mounted /\ visits < MaxVisits
    /\ \E page \in Pages : {q} \cup {o \in UsedQueries : entry[o].mounted} \subseteq page
    /\ visits' = visits + 1
    /\ LET e == [entry[q] EXCEPT !.mounted = TRUE]
       IN  entry' = [entry EXCEPT ![q] = IF e.stale /\ e.fetch = "none" THEN Sent(e) ELSE e]
    /\ UNCHANGED <<rest, failures>>

UnmountQuery(q) ==
    /\ entry[q].mounted
    /\ entry' = [entry EXCEPT ![q].mounted = FALSE]
    /\ UNCHANGED <<rest, failures, visits>>

(* staleTime passes.                                                       *)
GoesStale(q) ==
    /\ ~entry[q].stale /\ visits < MaxVisits
    /\ visits' = visits + 1
    /\ entry' = [entry EXCEPT ![q].stale = TRUE]
    /\ UNCHANGED <<rest, failures>>

(* The window regains focus, the network returns or the interval fires.    *)
Refetch(q) ==
    /\ entry[q].mounted /\ entry[q].stale /\ entry[q].fetch = "none"
    /\ visits < MaxVisits
    /\ visits' = visits + 1
    /\ entry' = [entry EXCEPT ![q] = Sent(@)]
    /\ UNCHANGED <<rest, failures>>

ReadAtServer(q) ==
    /\ entry[q].fetch = "sent"
    /\ entry' = [entry EXCEPT ![q].fetch = "read", ![q].answer = server[ResourceOf(q)]]
    /\ UNCHANGED <<rest, failures, visits>>

FetchAnswered(q) ==
    /\ entry[q].fetch = "read"
    /\ entry' = [entry EXCEPT ![q] =
           [Dropped(@) EXCEPT !.data = entry[q].answer, !.stale = FALSE, !.guess = FALSE]]
    /\ UNCHANGED <<rest, failures, visits>>

(* The request and its two retries fail.                                   *)
FetchFailed(q) ==
    /\ entry[q].fetch # "none" /\ failures < MaxFailures
    /\ failures' = failures + 1
    /\ entry' = [entry EXCEPT ![q] = [Dropped(@) EXCEPT !.failed = TRUE]]
    /\ UNCHANGED <<rest, visits>>

(* apiFetch finds the token expired, or is answered 401: logoutUser        *)
(* reloads the page, and the cache with it.                                *)
SessionEnds ==
    /\ failures < MaxFailures
    /\ \/ \E q \in UsedQueries : entry[q].fetch # "none"
       \/ \E c \in Calls : call[c].pc = "requested"
    /\ failures' = failures + 1
    /\ entry' = [q \in UsedQueries |-> Empty]
    /\ call' = [c \in Calls |-> IF call[c].pc = "ready" THEN call[c]
                                ELSE [call[c] EXCEPT !.pc = "settled"]]
    /\ scoreStream' = "off" /\ scoreEvents' = 0
    /\ UNCHANGED <<server, announced, visits, foreignWrites>>

------------------------------------------------------------------------------
(* Mutations.                                                              *)

Rule(c) == AllMutations[call[c].hook]
Running(c) == call[c].pc \notin {"ready", "settled"}
PoolEntries == {q \in UsedQueries : KeyOf(q) \in PoolKeys}

(* mutate, up to the first await of onMutate: the fetch of the statistics  *)
(* is cancelled.                                                           *)
Mutate(c, hook) ==
    /\ call[c].pc = "ready" /\ \A d \in Calls : d < c => call[d].pc # "ready"
    /\ LET optimistic == AllMutations[hook].step # 0
       IN  /\ call' = [call EXCEPT ![c] =
                  [NotCalled EXCEPT !.hook = hook,
                                    !.pc = IF optimistic THEN "cancelling" ELSE "requested"]]
           /\ entry' = [q \in UsedQueries |->
                  IF optimistic /\ q = "usePoolStats" THEN Dropped(entry[q]) ELSE entry[q]]
    /\ UNCHANGED <<server, announced, scoreStream, scoreEvents, failures, visits, foreignWrites>>

NotBelowZero(n) == IF n < 0 THEN 0 ELSE n

(* The rest of onMutate: cancel the portfolio's fetch, remember both       *)
(* figures, move both.                                                     *)
onMutate(c) ==
    /\ call[c].pc = "cancelling"
    /\ call' = [call EXCEPT ![c].pc = "requested",
                            ![c].snapshot = [q \in PoolEntries |-> entry[q].data]]
    /\ entry' = [q \in UsedQueries |->
           IF q \notin PoolEntries THEN entry[q]
           ELSE LET e == IF q = "useDepositorPortfolio" THEN Dropped(entry[q]) ELSE entry[q]
                IN  IF e.data = NoData THEN e
                    ELSE [e EXCEPT !.data = NotBelowZero(@ + Rule(c).step),
                                   !.stale = FALSE, !.guess = TRUE]]
    /\ UNCHANGED <<server, announced, scoreStream, scoreEvents, failures, visits, foreignWrites>>

(* The server does what was asked.                                         *)
ServerWrites(c) ==
    /\ call[c].pc = "requested" /\ ~call[c].wrote /\ Rule(c).writes # {}
    /\ call' = [call EXCEPT ![c].wrote = TRUE]
    /\ server' = [r \in Resources |->
           IF r \in Rule(c).writes THEN server[r] + 1 ELSE server[r]]
    /\ UNCHANGED <<entry, announced, scoreStream, scoreEvents, failures, visits, foreignWrites>>

(* onSuccess and onSettled run with the answer.                            *)
Succeed(c) ==
    /\ call[c].pc = "requested" /\ (call[c].wrote \/ Rule(c).writes = {})
    /\ entry' = Invalidated(entry, Rule(c).onSuccess \cup Rule(c).onSettled)
    /\ announced' = [r \in Resources |->
           IF Rule(c).onSuccess # {} /\ r \in Rule(c).writes THEN server[r] ELSE announced[r]]
    /\ call' = [call EXCEPT ![c].pc = "settled"]
    /\ UNCHANGED <<server, scoreStream, scoreEvents, failures, visits, foreignWrites>>

(* onError restores what onMutate remembered, then onSettled runs; the     *)
(* request may have been carried out all the same.                         *)
Err(c) ==
    LET restored == [q \in UsedQueries |->
            IF q \in DOMAIN call[c].snapshot /\ call[c].snapshot[q] # NoData
            THEN [entry[q] EXCEPT !.data = call[c].snapshot[q], !.stale = FALSE, !.guess = TRUE]
            ELSE entry[q]]
    IN  /\ call[c].pc = "requested" /\ failures < MaxFailures
        /\ failures' = failures + 1
        /\ entry' = Invalidated(restored, Rule(c).onSettled)
        /\ call' = [call EXCEPT ![c].pc = "settled"]
        /\ UNCHANGED <<server, announced, scoreStream, scoreEvents, visits, foreignWrites>>

------------------------------------------------------------------------------
(* useCreditScore's own event stream, and the rest of the world.           *)

(* connect: an error backs off and tries again; a stream that ends does    *)
(* not.                                                                    *)
ConnectScoreStream ==
    /\ "useCreditScore" \in UsedQueries /\ entry["useCreditScore"].mounted
    /\ scoreStream \in {"off", "backoff"}
    /\ scoreStream' = "open"
    /\ UNCHANGED <<server, entry, call, announced, scoreEvents, failures, visits, foreignWrites>>

ScoreStreamLost ==
    /\ scoreStream = "open" /\ failures < MaxFailures
    /\ failures' = failures + 1
    /\ scoreStream' \in {"backoff", "ended"}
    /\ scoreEvents' = 0
    /\ UNCHANGED <<server, entry, call, announced, visits, foreignWrites>>

(* LoanRepaid or LoanDefaulted of this borrower arrives.                   *)
ScoreEventArrives ==
    /\ scoreStream = "open" /\ scoreEvents > 0
    /\ scoreEvents' = scoreEvents - 1
    /\ entry' = Invalidated(entry, {<<"creditScore", Wallet>>})
    /\ UNCHANGED <<server, call, announced, scoreStream, failures, visits, foreignWrites>>

(* Another session or the indexer changes a resource; a change of the      *)
(* score is an event on the stream.                                        *)
ForeignWrite(r) ==
    /\ foreignWrites < MaxForeignWrites
    /\ foreignWrites' = foreignWrites + 1
    /\ server' = [server EXCEPT ![r] = @ + 1]
    /\ scoreEvents' = IF r = "score" /\ scoreStream = "open" THEN scoreEvents + 1 ELSE scoreEvents
    /\ UNCHANGED <<entry, call, announced, scoreStream, failures, visits>>

CacheInit ==
    /\ server = [r \in Resources |-> 1]
    /\ entry = [q \in UsedQueries |-> Empty]
    /\ call = [c \in Calls |-> NotCalled]
    /\ announced = [r \in Resources |-> 0]
    /\ scoreStream = "off" /\ scoreEvents = 0
    /\ failures = 0 /\ visits = 0 /\ foreignWrites = 0

CacheNext ==
    \/ \E q \in UsedQueries :
          MountQuery(q) \/ UnmountQuery(q) \/ GoesStale(q) \/ Refetch(q)
              \/ ReadAtServer(q) \/ FetchAnswered(q) \/ FetchFailed(q)
    \/ \E c \in Calls : onMutate(c) \/ ServerWrites(c) \/ Succeed(c) \/ Err(c)
                            \/ \E hook \in UsedMutations : Mutate(c, hook)
    \/ SessionEnds \/ ConnectScoreStream \/ ScoreStreamLost \/ ScoreEventArrives
    \/ \E r \in Resources : ForeignWrite(r)

CacheSpec == CacheInit /\ [][CacheNext]_cacheVars

------------------------------------------------------------------------------
(* Correctness.                                                            *)

Optimistic(c) == Running(c) /\ Rule(c).step # 0

(* An optimistic figure is provisional: once no deposit or withdrawal is   *)
(* being built, a figure that was written by hand (moved ahead, or put     *)
(* back from a snapshot that may itself be another call's guess) is marked *)
(* for reading again, and is being read if it is on screen and the last    *)
(* read did not fail - however calls overlapped, failed, or cancelled each *)
(* other's fetches.                                                        *)
GuessesAreProvisional ==
    \A q \in UsedQueries :
        entry[q].guess /\ (\A c \in Calls : ~Optimistic(c)) =>
            /\ entry[q].stale
            /\ entry[q].mounted => entry[q].fetch # "none" \/ entry[q].failed

(* A write the hooks announced reaches every screen: a mounted query over  *)
(* the resource has data no older than the write, or is being read again   *)
(* by a fetch the server has not answered from before the write.  Not      *)
(* covered: a hook that was remounted over a fetch its absence let run on. *)
WritesReachScreens ==
    \A q \in UsedQueries :
        LET e == entry[q] IN
        e.mounted /\ e.data # NoData /\ ~e.guess /\ e.data < announced[ResourceOf(q)] =>
            \/ e.failed \/ e.overtaken
            \/ e.fetch = "sent"
            \/ e.fetch = "read" /\ e.answer >= announced[ResourceOf(q)]
==============================================================================
