----------------------------- MODULE ClientProofs -----------------------------
(***************************************************************************)
(* The browser, proved for every number of accounts, synchronisations,     *)
(* runs of a flow, dialogs, queries, mutations and faults: the wallet that *)
(* is shown is one account's, what a flow shows as done was applied, and   *)
(* the cache of answers keeps guesses apart and misses no announced write. *)
(***************************************************************************)
EXTENDS QueryCache, ClientFlows, WalletSession, ArithmeticFacts

------------------------------------------------------------------------------
(* The wallet.                                                             *)

Session == [pc : {"none", "address", "network", "balances"}, interactive : BOOLEAN,
            address : Accounts \cup {NoAccount}, supported : BOOLEAN]

Store == [status : {"disconnected", "connecting", "connected", "error"},
          address : Accounts \cup {NoAccount}, supported : BOOLEAN,
          balances : Accounts \cup {NoAccount}, loading : BOOLEAN, auto : BOOLEAN]

(* What is shown of one account: its own balances, nothing loading, and    *)
(* "connected" beside a supported network only.                            *)
ShownIsOne ==
    store.address # NoAccount =>
        /\ store.balances \in {NoAccount, store.address}
        /\ ~store.loading
        /\ store.status = "connected" => store.supported

(* What a sync that waits for balances has put into the store stays there  *)
(* until they arrive, or until a disconnect clears it.                     *)
WaitsFor(s) ==
    store.address # NoAccount =>
        /\ store.address = sync[s].address
        /\ store.supported = sync[s].supported
        /\ store.status = "connected" => store.supported

OneSync == \A s, t \in Syncs : sync[s].pc # "none" /\ sync[t].pc # "none" => s = t

WalletInv ==
    /\ sync \in [Syncs -> Session]
    /\ store \in Store
    /\ extension \in [account : Accounts \cup {NoAccount}, supported : BOOLEAN]
    /\ OneSync
    /\ \A s \in Syncs : sync[s].pc = "balances" => WaitsFor(s)
    /\ cutShort \/ (\E s \in Syncs : sync[s].pc = "balances") \/ ShownIsOne

LEMMA WalletStarts == WalletInit => WalletInv
<1> SUFFICES ASSUME WalletInit PROVE WalletInv
  OBVIOUS
<1>1. NoSync \in Session /\ NoSync.pc = "none"
  BY DEF NoSync, Session
<1>2. \A s \in Syncs : sync[s] = NoSync
  BY DEF WalletInit
<1>3. extension \in [account : Accounts \cup {NoAccount}, supported : BOOLEAN]
  BY WalletConstants DEF WalletInit
<1> QED BY <1>1, <1>2, <1>3 DEF WalletInit, WalletInv, OneSync, ShownIsOne, WaitsFor, initialState, Store

(* Nothing but the start of a sync that is not the second.                 *)
LEMMA SyncStarts ==
    ASSUME WalletInv, NEW interactive \in BOOLEAN, syncWallet(interactive)
    PROVE  /\ sync' \in [Syncs -> Session]
           /\ OneSync'
           /\ \A s \in Syncs : sync'[s].pc = "balances" <=> sync[s].pc = "balances"
           /\ \A s \in Syncs : sync[s].pc = "balances" => sync'[s] = sync[s]
<1>1. CASE UNCHANGED sync
  BY <1>1 DEF WalletInv, OneSync
<1>2. ASSUME NEW s \in Syncs, MaySync(s),
             sync' = [sync EXCEPT ![s] = [NoSync EXCEPT !.pc = "address", !.interactive = interactive]]
      PROVE  /\ sync' \in [Syncs -> Session]
             /\ OneSync'
             /\ \A t \in Syncs : sync'[t].pc = "balances" <=> sync[t].pc = "balances"
             /\ \A t \in Syncs : sync[t].pc = "balances" => sync'[t] = sync[t]
  <2>1. PICK new : new = [NoSync EXCEPT !.pc = "address", !.interactive = interactive]
    OBVIOUS
  <2>2. new \in Session /\ new.pc = "address"
    BY <2>1 DEF NoSync, Session
  <2>3. \A t \in Syncs : sync[t].pc = "none"
    BY <1>2 DEF MaySync
  <2>4. sync' \in [Syncs -> Session] /\ sync'[s] = new /\ \A t \in Syncs \ {s} : sync'[t] = sync[t]
    BY <1>2, <2>1, <2>2 DEF WalletInv
  <2> QED BY <2>2, <2>3, <2>4 DEF OneSync
<1> QED BY <1>1, <1>2 DEF syncWallet

LEMMA RefreshStarts ==
    ASSUME WalletInv, refreshWallet
    PROVE  /\ sync' \in [Syncs -> Session]
           /\ OneSync'
           /\ \A s \in Syncs : sync'[s].pc = "balances" <=> sync[s].pc = "balances"
           /\ \A s \in Syncs : sync[s].pc = "balances" => sync'[s] = sync[s]
<1>1. CASE UNCHANGED sync
  BY <1>1 DEF WalletInv, OneSync
<1>2. CASE syncWallet(FALSE)
  BY <1>2, SyncStarts
<1> QED BY <1>1, <1>2 DEF refreshWallet

(* Steps that end a sync before it reached the store, or start none.       *)
LEMMA SyncEnds ==
    ASSUME WalletInv, NEW s \in Syncs, sync' = [sync EXCEPT ![s] = NoSync]
    PROVE  /\ sync' \in [Syncs -> Session]
           /\ OneSync'
           /\ sync'[s].pc = "none"
           /\ \A t \in Syncs \ {s} : sync'[t] = sync[t]
<1>1. NoSync \in Session /\ NoSync.pc = "none"
  BY DEF NoSync, Session
<1>2. sync'[s] = NoSync /\ \A t \in Syncs \ {s} : sync'[t] = sync[t]
  BY DEF WalletInv
<1> QED BY <1>1, <1>2 DEF WalletInv, OneSync

LEMMA WalletStep == WalletInv /\ [WalletNext]_walletVars => WalletInv'
<1> SUFFICES ASSUME WalletInv, [WalletNext]_walletVars PROVE WalletInv'
  OBVIOUS
<1>0. initialState \in Store /\ initialState.address = NoAccount
  BY DEF initialState, Store
<1>0a. PICK failed : failed = [initialState EXCEPT !.status = "error"]
  OBVIOUS
<1>0b. failed \in Store /\ failed.address = NoAccount
  BY <1>0a DEF initialState, Store
<1>1. ASSUME NEW s \in Syncs, syncAddress(s) PROVE WalletInv'
  <2>0. sync[s].pc = "address" /\ UNCHANGED <<extension, cutShort>>
    BY <1>1 DEF syncAddress
  <2>1. CASE extension.account = NoAccount
    <3>1. sync' = [sync EXCEPT ![s] = NoSync] /\ (store' = initialState \/ store' = failed)
      BY <1>1, <1>0a, <2>1 DEF syncAddress
    <3>2. store'.address = NoAccount /\ store' \in Store
      BY <1>0, <1>0b, <3>1
    <3> QED BY <2>0, <3>1, <3>2, SyncEnds DEF WalletInv, ShownIsOne, WaitsFor
  <2>2. CASE extension.account # NoAccount
    <3>1. /\ sync' = [sync EXCEPT ![s].pc = "network", ![s].address = extension.account]
          /\ UNCHANGED store
      BY <1>1, <2>2 DEF syncAddress
    <3>2. sync'[s] \in Session /\ sync'[s].pc = "network" /\ \A t \in Syncs \ {s} : sync'[t] = sync[t]
      BY <3>1 DEF WalletInv, Session
    <3>3. sync' \in [Syncs -> Session]
      BY <3>1, <3>2 DEF WalletInv
    <3> QED BY <2>0, <3>1, <3>2, <3>3 DEF WalletInv, OneSync, ShownIsOne, WaitsFor
  <2> QED BY <2>1, <2>2
<1>2. ASSUME NEW s \in Syncs, syncNetwork(s) PROVE WalletInv'
  <2>0. sync[s].pc = "network" /\ UNCHANGED <<extension, cutShort>>
    BY <1>2 DEF syncNetwork
  <2>1. sync' = [sync EXCEPT ![s].pc = "balances", ![s].supported = extension.supported]
    BY <1>2 DEF syncNetwork
  <2>2. /\ sync'[s] \in Session /\ sync'[s].pc = "balances" /\ sync'[s].address = sync[s].address
        /\ sync'[s].supported = extension.supported
        /\ \A t \in Syncs \ {s} : sync'[t] = sync[t]
    BY <2>1 DEF WalletInv, Session
  <2>3. sync' \in [Syncs -> Session]
    BY <2>1, <2>2 DEF WalletInv
  <2>4. /\ store' \in Store /\ store'.address = sync[s].address
        /\ store'.supported = extension.supported
        /\ store'.status = IF extension.supported THEN "connected" ELSE "error"
    BY <1>2 DEF syncNetwork, WalletInv, Session, Store
  <2>5. \A t \in Syncs \ {s} : sync[t].pc = "none"
    BY <2>0 DEF WalletInv, OneSync
  <2> QED BY <2>0, <2>2, <2>3, <2>4, <2>5 DEF WalletInv, OneSync, ShownIsOne, WaitsFor
<1>3. ASSUME NEW s \in Syncs, refreshBalances(s) PROVE WalletInv'
  <2>0. /\ sync[s].pc = "balances" /\ UNCHANGED extension
        /\ sync' = [sync EXCEPT ![s] = NoSync] /\ cutShort' = FALSE
    BY <1>3 DEF refreshBalances, EndSync
  <2>1. PICK answer \in {"balances", "404", "error"} :
          store' = [store EXCEPT
              !.balances = IF answer = "balances" THEN sync[s].address ELSE NoAccount,
              !.loading = FALSE,
              !.status = IF answer = "404" THEN @
                         ELSE IF sync[s].supported THEN "connected" ELSE "error"]
    BY <1>3 DEF refreshBalances
  <2>2. /\ store' \in Store /\ store'.address = store.address /\ store'.supported = store.supported
        /\ store'.loading = FALSE /\ store'.balances \in {NoAccount, sync[s].address}
        /\ store'.status \in {store.status, IF sync[s].supported THEN "connected" ELSE "error"}
    BY <2>1 DEF WalletInv, Session, Store
  <2>3. WaitsFor(s)
    BY <2>0 DEF WalletInv
  <2>4. \A t \in Syncs \ {s} : sync[t].pc = "none"
    BY <2>0 DEF WalletInv, OneSync
  <2>5. ShownIsOne'
    BY <2>2, <2>3 DEF ShownIsOne, WaitsFor
  <2> QED BY <2>0, <2>2, <2>4, <2>5, SyncEnds DEF WalletInv
<1>4. ASSUME NEW s \in Syncs, syncFails(s) PROVE WalletInv'
  <2>0. /\ sync[s].pc \in {"address", "network"} /\ UNCHANGED <<extension, cutShort>>
        /\ sync' = [sync EXCEPT ![s] = NoSync] /\ (store' = failed \/ store' = store)
    BY <1>4, <1>0a DEF syncFails
  <2>1. \A t \in Syncs : sync'[t].pc = "balances" => sync'[t] = sync[t]
    BY <2>0, SyncEnds
  <2>2. CASE store' = failed
    BY <1>0b, <2>0, <2>1, <2>2, SyncEnds DEF WalletInv, ShownIsOne, WaitsFor
  <2>3. CASE store' = store
    <3>1. \A t \in Syncs : sync[t].pc = "balances" => sync'[t] = sync[t]
      BY <2>0, SyncEnds
    <3> QED BY <2>0, <2>1, <2>3, <3>1, SyncEnds DEF WalletInv, ShownIsOne, WaitsFor
  <2> QED BY <2>0, <2>2, <2>3
<1>5. CASE connectWallet
  <2>1. /\ store' = [store EXCEPT !.status = "connecting", !.loading = FALSE]
        /\ syncWallet(TRUE) /\ UNCHANGED <<extension, cutShort>>
    BY <1>5 DEF connectWallet
  <2>2. /\ store' \in Store /\ store'.address = store.address /\ store'.supported = store.supported
        /\ store'.loading = FALSE /\ store'.balances = store.balances
        /\ store'.status = "connecting"
    BY <2>1 DEF WalletInv, Store
  <2> QED BY <2>1, <2>2, SyncStarts, ZenonT(40) DEF WalletInv, ShownIsOne, WaitsFor
<1>6. CASE disconnectWallet
  BY <1>6, <1>0 DEF disconnectWallet, WalletInv, OneSync, ShownIsOne, WaitsFor
<1>7. ASSUME NEW a \in Accounts \cup {NoAccount}, accountChanges(a) PROVE WalletInv'
  <2>0. /\ extension' = [extension EXCEPT !.account = a] /\ UNCHANGED cutShort
    BY <1>7 DEF accountChanges
  <2>1. extension' \in [account : Accounts \cup {NoAccount}, supported : BOOLEAN]
    BY <2>0 DEF WalletInv
  <2>2. CASE store' = initialState /\ UNCHANGED sync
    BY <1>0, <2>0, <2>1, <2>2 DEF WalletInv, OneSync, ShownIsOne, WaitsFor
  <2>3. CASE UNCHANGED store /\ refreshWallet
    BY <2>0, <2>1, <2>3, RefreshStarts DEF WalletInv, ShownIsOne, WaitsFor
  <2>4. CASE UNCHANGED <<store, sync>>
    BY <2>0, <2>1, <2>4 DEF WalletInv, OneSync, ShownIsOne, WaitsFor
  <2> QED BY <1>7, <2>2, <2>3, <2>4 DEF accountChanges
<1>8. CASE networkChanges
  <2>1. /\ extension' = [extension EXCEPT !.supported = ~@] /\ UNCHANGED <<store, cutShort>>
        /\ refreshWallet
    BY <1>8 DEF networkChanges
  <2>2. extension' \in [account : Accounts \cup {NoAccount}, supported : BOOLEAN]
    BY <2>1 DEF WalletInv
  <2> QED BY <2>1, <2>2, RefreshStarts DEF WalletInv, ShownIsOne, WaitsFor
<1>9. CASE autoReconnect
  BY <1>9, RefreshStarts DEF autoReconnect, WalletInv, ShownIsOne, WaitsFor
<1>10. CASE reload
  <2>1. /\ store' = [store EXCEPT !.loading = FALSE] /\ UNCHANGED extension
        /\ cutShort' = (cutShort \/ \E s \in Syncs : sync[s].pc # "none")
        /\ sync' = [s \in Syncs |-> NoSync]
    BY <1>10 DEF reload
  <2>2. NoSync \in Session /\ NoSync.pc = "none"
    BY DEF NoSync, Session
  <2>3. /\ store' \in Store /\ store'.address = store.address /\ store'.supported = store.supported
        /\ store'.loading = FALSE /\ store'.balances = store.balances
        /\ store'.status = store.status
    BY <2>1 DEF WalletInv, Store
  <2>4. sync' \in [Syncs -> Session] /\ \A s \in Syncs : sync'[s].pc = "none"
    BY <2>1, <2>2
  <2>5. cutShort' \/ ShownIsOne'
    BY <2>1, <2>3 DEF WalletInv, ShownIsOne
  <2> QED BY <2>1, <2>3, <2>4, <2>5 DEF WalletInv, OneSync
<1>11. CASE logoutUser
  <2>2. NoSync \in Session /\ NoSync.pc = "none"
    BY DEF NoSync, Session
  <2> QED BY <1>11, <1>0, <2>2 DEF logoutUser, WalletInv, OneSync, ShownIsOne
<1>12. CASE UNCHANGED walletVars
  BY <1>12 DEF walletVars, WalletInv, OneSync, ShownIsOne, WaitsFor
<1> HIDE DEF WalletInv
<1> QED
  BY <1>1, <1>2, <1>3, <1>4, <1>5, <1>6, <1>7, <1>8, <1>9, <1>10, <1>11, <1>12
  DEF WalletNext, logout

(* With no sync under way the wallet that is shown is one account's: the   *)
(* balances are its own, nothing is loading, and "connected" stands beside *)
(* a supported network, whatever happened while a sync was waiting.        *)
THEOREM WalletShownIsOne == WalletSpec => []ShownWalletIsOne
<1>1. WalletInit => WalletInv
  BY WalletStarts
<1>2. WalletInv /\ [WalletNext]_walletVars => WalletInv'
  BY WalletStep
<1>3. WalletInv => ShownWalletIsOne
  BY DEF WalletInv, ShownWalletIsOne, ShownIsOne
<1> QED BY <1>1, <1>2, <1>3, PTL DEF WalletSpec

------------------------------------------------------------------------------
(* The flows.                                                              *)

RunRecords == [flow : DOMAIN FlowTable \cup {"none"},
               pc : {"unused", "building", "signing", "submitting", "polling", "invalidating", "ended"},
               answer : {"none"}, outcome : {"none", "success", "error", "cancelled"}]

(* A success of a flow that demands a status is the ledger's.              *)
OutcomesConfirmed ==
    \A i \in FlowRuns : run[i].outcome = "success" /\ FlowOf(i).checks = "status" =>
        onChain[i] = "applied"

DisplaysConfirmed ==
    \A f \in UsedFlows : shown[f] = "success" /\ FlowTable[f].checks = "status" =>
        \E i \in FlowRuns : run[i].flow = f /\ onChain[i] = "applied"

(* The ref of an exclusive flow is set as long as a run of it goes on, and *)
(* so there is one at most.                                                *)
RefHeld ==
    \A i \in FlowRuns : ~Ended(i) /\ FlowOf(i).exclusive => run[i].flow \in executing

OneRun ==
    \A i, j \in FlowRuns :
        ~Ended(i) /\ ~Ended(j) /\ run[i].flow = run[j].flow /\ FlowOf(i).exclusive => i = j

FlowInv ==
    /\ run \in [FlowRuns -> RunRecords]
    /\ onChain \in [FlowRuns -> {"none", "pending", "applied", "failed"}]
    /\ shown \in [UsedFlows -> InProgress \cup {"none", "success", "error", "cancelled"}]
    /\ \A i \in FlowRuns :
          /\ run[i].pc = "unused" => run[i] = NotStarted /\ onChain[i] = "none"
          /\ run[i].pc # "unused" => run[i].flow \in UsedFlows
          /\ run[i].pc = "polling" => FlowOf(i).checks = "poll"
    /\ OutcomesConfirmed /\ DisplaysConfirmed /\ RefHeld /\ OneRun

(* What the table says of a flow: only the one behind a dialog is          *)
(* exclusive.                                                              *)
LEMMA Tabled ==
    ASSUME NEW f \in UsedFlows
    PROVE  /\ f \in DOMAIN FlowTable /\ f # "none"
           /\ FlowTable[f].checks \in {"status", "nothing", "poll"}
           /\ FlowTable[f].exclusive => FlowTable[f].review
<1>1. f \in DOMAIN FlowTable
  BY FlowNames
<1>2. f \in {"repaymentForm", "useDepositOperation", "useWithdrawalOperation", "repayPage",
             "refinanceModal", "extensionModal", "handleLiquidate", "loanWizard",
             "remittanceForm"}
  BY <1>1 DEF FlowTable
<1> QED
  BY <1>1, <1>2 DEF FlowTable, Flow, repaymentForm, useDepositOperation,
     useWithdrawalOperation, repayPage, refinanceModal, extensionModal, handleLiquidate,
     loanWizard, remittanceForm

LEMMA FlowsStart == FlowInit => FlowInv
<1> SUFFICES ASSUME FlowInit PROVE FlowInv
  OBVIOUS
<1>1. NotStarted \in RunRecords /\ NotStarted.pc = "unused" /\ NotStarted.outcome = "none"
  BY DEF NotStarted, RunRecords
<1>2. \A i \in FlowRuns : run[i] = NotStarted
  BY DEF FlowInit
<1>3. \A i \in FlowRuns : Ended(i)
  BY <1>1, <1>2 DEF Ended
<1> QED
  BY <1>1, <1>2, <1>3 DEF FlowInit, FlowInv, OutcomesConfirmed, DisplaysConfirmed, RefHeld, OneRun

(* Steps of the dialog, and of nothing else.                               *)
LEMMA DialogMoves ==
    ASSUME FlowInv, UNCHANGED <<run, onChain, executing>>,
           shown' \in [UsedFlows -> InProgress \cup {"none", "success", "error", "cancelled"}],
           \A f \in UsedFlows : shown'[f] = "success" => shown[f] = "success"
    PROVE  FlowInv'
BY DEF FlowInv, OutcomesConfirmed, DisplaysConfirmed, RefHeld, OneRun, Ended, FlowOf

(* The network and the ledger change a transaction that is not applied.    *)
LEMMA ChainMoves ==
    ASSUME FlowInv, NEW i \in FlowRuns, onChain[i] # "applied", run[i].pc # "unused",
           NEW status \in {"pending", "applied", "failed"},
           onChain' = [onChain EXCEPT ![i] = status], UNCHANGED <<run, shown, executing>>
    PROVE  FlowInv'
BY DEF FlowInv, OutcomesConfirmed, DisplaysConfirmed, RefHeld, OneRun, Ended, FlowOf

LEMMA RunStarts ==
    ASSUME FlowInv, NEW f \in UsedFlows, NEW i \in FlowRuns, StartRun(f, i), UNCHANGED onChain,
           FlowTable[f].exclusive => f \notin executing
    PROVE  FlowInv'
<1>1. PICK new : new = [NotStarted EXCEPT !.flow = f, !.pc = FirstStep(f)]
  OBVIOUS
<1>2. /\ new \in RunRecords /\ new.flow = f /\ new.outcome = "none"
      /\ new.pc \in {"building", "signing", "submitting"}
  BY <1>1, Tabled DEF NotStarted, RunRecords, FirstStep
<1>3. /\ run[i].pc = "unused" /\ run' = [run EXCEPT ![i] = new]
      /\ shown' = [shown EXCEPT ![f] = "pending"]
      /\ executing' = IF FlowTable[f].exclusive THEN executing \cup {f} ELSE executing
  BY <1>1 DEF StartRun
<1>4. /\ run' \in [FlowRuns -> RunRecords] /\ run'[i] = new
      /\ \A j \in FlowRuns \ {i} : run'[j] = run[j]
  BY <1>2, <1>3 DEF FlowInv
<1>5. run[i] = NotStarted /\ onChain[i] = "none"
  BY <1>3 DEF FlowInv
<1>6. /\ shown' \in [UsedFlows -> InProgress \cup {"none", "success", "error", "cancelled"}]
      /\ \A g \in UsedFlows : shown'[g] = "success" => shown[g] = "success"
  BY <1>3 DEF FlowInv, InProgress
<1>7. OutcomesConfirmed'
  BY <1>2, <1>4 DEF FlowInv, OutcomesConfirmed, FlowOf
<1>8. DisplaysConfirmed'
  BY <1>4, <1>5, <1>6 DEF FlowInv, DisplaysConfirmed
<1>9. RefHeld'
  BY <1>2, <1>3, <1>4 DEF FlowInv, RefHeld, Ended, FlowOf
<1>10. OneRun'
  BY <1>2, <1>3, <1>4 DEF FlowInv, RefHeld, OneRun, Ended, FlowOf
<1>11. \A j \in FlowRuns :
          /\ run'[j].pc = "unused" => run'[j] = NotStarted /\ onChain'[j] = "none"
          /\ run'[j].pc # "unused" => run'[j].flow \in UsedFlows
          /\ run'[j].pc = "polling" => FlowOf(j)'.checks = "poll"
  BY <1>2, <1>4 DEF FlowInv, FlowOf
<1> QED BY <1>4, <1>6, <1>7, <1>8, <1>9, <1>10, <1>11 DEF FlowInv

(* A run goes on to its next step.                                         *)
LEMMA RunGoesOn ==
    ASSUME FlowInv, NEW i \in FlowRuns, ~Ended(i), NEW pc \in {"signing", "submitting", "polling"},
           NEW display \in InProgress, GoesOn(i, pc, display), UNCHANGED <<onChain, executing>>,
           pc = "polling" => FlowOf(i).checks = "poll"
    PROVE  FlowInv'
<1>1. /\ run' = [run EXCEPT ![i].pc = pc] /\ run[i].flow \in UsedFlows
      /\ shown' = [shown EXCEPT ![run[i].flow] = display]
  BY DEF GoesOn, FlowInv, Ended
<1>2. /\ run'[i] \in RunRecords /\ run'[i].flow = run[i].flow /\ run'[i].pc = pc
      /\ run'[i].outcome = run[i].outcome
      /\ \A j \in FlowRuns \ {i} : run'[j] = run[j]
  BY <1>1 DEF FlowInv, RunRecords
<1>3. run' \in [FlowRuns -> RunRecords]
  BY <1>1, <1>2 DEF FlowInv
<1>4. /\ shown' \in [UsedFlows -> InProgress \cup {"none", "success", "error", "cancelled"}]
      /\ \A g \in UsedFlows : shown'[g] = "success" => shown[g] = "success"
  BY <1>1 DEF FlowInv, InProgress
<1>5. \A j \in FlowRuns : FlowOf(j)' = FlowOf(j) /\ (Ended(j)' <=> Ended(j))
  BY <1>2 DEF FlowOf, Ended
<1>6. /\ OutcomesConfirmed' /\ DisplaysConfirmed'
  BY <1>2, <1>4, <1>5 DEF FlowInv, OutcomesConfirmed, DisplaysConfirmed
<1>7. RefHeld' /\ OneRun'
  BY <1>2, <1>5 DEF FlowInv, RefHeld, OneRun
<1>8. \A j \in FlowRuns :
          /\ run'[j].pc = "unused" => run'[j] = NotStarted /\ onChain'[j] = "none"
          /\ run'[j].pc # "unused" => run'[j].flow \in UsedFlows
          /\ run'[j].pc = "polling" => FlowOf(j)'.checks = "poll"
  BY <1>1, <1>2, <1>5 DEF FlowInv
<1> QED BY <1>3, <1>4, <1>6, <1>7, <1>8 DEF FlowInv

(* A run ends; a success is shown only over an applied transaction where   *)
(* the flow demands one.                                                   *)
LEMMA RunEnds ==
    ASSUME FlowInv, NEW i \in FlowRuns, ~Ended(i), NEW outcome \in {"success", "error", "cancelled"},
           NEW rejects \in BOOLEAN, EndRun(i, outcome, rejects), UNCHANGED onChain,
           outcome = "success" /\ FlowOf(i).checks = "status" => onChain[i] = "applied"
    PROVE  FlowInv'
<1>1. /\ run' = [run EXCEPT ![i].pc = "ended", ![i].outcome = outcome] /\ run[i].flow \in UsedFlows
      /\ shown' = [shown EXCEPT ![run[i].flow] = outcome]
      /\ executing' = executing \ {run[i].flow}
  BY DEF EndRun, FinishRun, HandlerReturns, FlowInv, Ended
<1>2. /\ run'[i] \in RunRecords /\ run'[i].flow = run[i].flow /\ run'[i].pc = "ended"
      /\ run'[i].outcome = outcome
      /\ \A j \in FlowRuns \ {i} : run'[j] = run[j]
  <2>1. run \in [FlowRuns -> RunRecords]
    BY DEF FlowInv
  <2>2. PICK old \in RunRecords : old = run[i]
    BY <2>1
  <2>3. PICK new : new = [old EXCEPT !.pc = "ended", !.outcome = outcome]
    OBVIOUS
  <2>4. new \in RunRecords /\ new.flow = old.flow /\ new.pc = "ended" /\ new.outcome = outcome
    BY <2>3 DEF RunRecords
  <2>5. run' = [run EXCEPT ![i] = new]
    BY <1>1, <2>1, <2>2, <2>3
  <2> QED BY <2>1, <2>2, <2>4, <2>5
<1>3. run' \in [FlowRuns -> RunRecords]
  BY <1>1, <1>2 DEF FlowInv
<1>4. /\ shown' \in [UsedFlows -> InProgress \cup {"none", "success", "error", "cancelled"}]
      /\ shown'[run[i].flow] = outcome
      /\ \A g \in UsedFlows : g # run[i].flow => shown'[g] = shown[g]
  BY <1>1 DEF FlowInv
<1>5. \A j \in FlowRuns : FlowOf(j)' = FlowOf(j) /\ (~Ended(j)' => ~Ended(j) /\ j # i)
  BY <1>2 DEF FlowOf, Ended
<1>6. OutcomesConfirmed'
  BY <1>2, <1>5 DEF FlowInv, OutcomesConfirmed
<1>7. DisplaysConfirmed'
  <2> SUFFICES ASSUME NEW f \in UsedFlows, shown'[f] = "success", FlowTable[f].checks = "status"
               PROVE  \E j \in FlowRuns : run'[j].flow = f /\ onChain'[j] = "applied"
    BY DEF DisplaysConfirmed
  <2>1. CASE f = run[i].flow
    BY <1>2, <1>4, <2>1 DEF FlowOf
  <2>2. CASE f # run[i].flow
    BY <1>2, <1>4, <2>2 DEF FlowInv, DisplaysConfirmed
  <2> QED BY <2>1, <2>2
<1>8. OneRun'
  BY <1>2, <1>5 DEF FlowInv, OneRun
<1>9. RefHeld'
  <2> SUFFICES ASSUME NEW j \in FlowRuns, ~Ended(j)', FlowOf(j)'.exclusive
               PROVE  run'[j].flow \in executing'
    BY DEF RefHeld
  <2>1. j # i /\ ~Ended(j) /\ FlowOf(j).exclusive /\ run'[j].flow = run[j].flow
    BY <1>2, <1>5
  <2>2. run[j].flow \in executing /\ run[j].flow # run[i].flow
    BY <2>1 DEF FlowInv, RefHeld, OneRun
  <2> QED BY <1>1, <2>1, <2>2
<1>10. \A j \in FlowRuns :
          /\ run'[j].pc = "unused" => run'[j] = NotStarted /\ onChain'[j] = "none"
          /\ run'[j].pc # "unused" => run'[j].flow \in UsedFlows
          /\ run'[j].pc = "polling" => FlowOf(j)'.checks = "poll"
  BY <1>1, <1>2, <1>5 DEF FlowInv
<1> QED BY <1>3, <1>4, <1>6, <1>7, <1>8, <1>9, <1>10 DEF FlowInv

(* A repayment shows its success; it goes on until its queries are         *)
(* invalidated.                                                            *)
LEMMA RunShows ==
    ASSUME FlowInv, NEW i \in FlowRuns, ~Ended(i), ShowSuccess(i), UNCHANGED onChain,
           FlowOf(i).checks = "status" => onChain[i] = "applied"
    PROVE  FlowInv'
<1>1. /\ run' = [run EXCEPT ![i].pc = "invalidating", ![i].outcome = "success"]
      /\ run[i].flow \in UsedFlows /\ executing' = executing
      /\ shown' = [shown EXCEPT ![run[i].flow] = "success"]
  BY DEF ShowSuccess, FlowInv, Ended
<1>2. /\ run'[i] \in RunRecords /\ run'[i].flow = run[i].flow /\ run'[i].pc = "invalidating"
      /\ run'[i].outcome = "success"
      /\ \A j \in FlowRuns \ {i} : run'[j] = run[j]
  <2>1. run \in [FlowRuns -> RunRecords]
    BY DEF FlowInv
  <2>2. PICK old \in RunRecords : old = run[i]
    BY <2>1
  <2>3. PICK new : new = [old EXCEPT !.pc = "invalidating", !.outcome = "success"]
    OBVIOUS
  <2>4. /\ new \in RunRecords /\ new.flow = old.flow
        /\ new.pc = "invalidating" /\ new.outcome = "success"
    BY <2>3 DEF RunRecords
  <2>5. run' = [run EXCEPT ![i] = new]
    BY <1>1, <2>1, <2>2, <2>3
  <2> QED BY <2>1, <2>2, <2>4, <2>5
<1>3. run' \in [FlowRuns -> RunRecords]
  BY <1>1, <1>2 DEF FlowInv
<1>4. /\ shown' \in [UsedFlows -> InProgress \cup {"none", "success", "error", "cancelled"}]
      /\ \A g \in UsedFlows : g # run[i].flow => shown'[g] = shown[g]
  BY <1>1 DEF FlowInv
<1>5. \A j \in FlowRuns : FlowOf(j)' = FlowOf(j) /\ (Ended(j)' <=> Ended(j))
  BY <1>2 DEF FlowOf, Ended
<1>6. OutcomesConfirmed'
  BY <1>2, <1>5 DEF FlowInv, OutcomesConfirmed
<1>7. DisplaysConfirmed'
  <2> SUFFICES ASSUME NEW f \in UsedFlows, shown'[f] = "success", FlowTable[f].checks = "status"
               PROVE  \E j \in FlowRuns : run'[j].flow = f /\ onChain'[j] = "applied"
    BY DEF DisplaysConfirmed
  <2>1. CASE f = run[i].flow
    BY <1>2, <2>1 DEF FlowOf
  <2>2. CASE f # run[i].flow
    BY <1>2, <1>4, <2>2 DEF FlowInv, DisplaysConfirmed
  <2> QED BY <2>1, <2>2
<1>8. RefHeld' /\ OneRun'
  BY <1>1, <1>2, <1>5 DEF FlowInv, RefHeld, OneRun
<1>9. \A j \in FlowRuns :
          /\ run'[j].pc = "unused" => run'[j] = NotStarted /\ onChain'[j] = "none"
          /\ run'[j].pc # "unused" => run'[j].flow \in UsedFlows
          /\ run'[j].pc = "polling" => FlowOf(j)'.checks = "poll"
  BY <1>1, <1>2, <1>5 DEF FlowInv
<1> QED BY <1>3, <1>4, <1>6, <1>7, <1>8, <1>9 DEF FlowInv

(* ... and returns, which gives its ref back.                              *)
LEMMA RunSettles ==
    ASSUME FlowInv, NEW i \in FlowRuns, InvalidationsSettle(i)
    PROVE  FlowInv'
<1>1. /\ run' = [run EXCEPT ![i].pc = "ended"] /\ UNCHANGED <<shown, onChain>>
      /\ run[i].pc = "invalidating" /\ run[i].flow \in UsedFlows
      /\ executing' = executing \ {run[i].flow}
  BY DEF InvalidationsSettle, HandlerReturns, FlowInv
<1>2. /\ run'[i] \in RunRecords /\ run'[i].flow = run[i].flow /\ run'[i].pc = "ended"
      /\ run'[i].outcome = run[i].outcome
      /\ \A j \in FlowRuns \ {i} : run'[j] = run[j]
  BY <1>1 DEF FlowInv, RunRecords
<1>3. run' \in [FlowRuns -> RunRecords]
  BY <1>1, <1>2 DEF FlowInv
<1>4. \A j \in FlowRuns : FlowOf(j)' = FlowOf(j) /\ (~Ended(j)' => ~Ended(j) /\ j # i)
  BY <1>1, <1>2 DEF FlowOf, Ended
<1>5. OutcomesConfirmed' /\ DisplaysConfirmed'
  BY <1>1, <1>2, <1>4 DEF FlowInv, OutcomesConfirmed, DisplaysConfirmed
<1>6. OneRun'
  BY <1>2, <1>4 DEF FlowInv, OneRun
<1>7. RefHeld'
  <2> SUFFICES ASSUME NEW j \in FlowRuns, ~Ended(j)', FlowOf(j)'.exclusive
               PROVE  run'[j].flow \in executing'
    BY DEF RefHeld
  <2>1. j # i /\ ~Ended(j) /\ FlowOf(j).exclusive /\ run'[j].flow = run[j].flow
    BY <1>2, <1>4
  <2>2. ~Ended(i)
    BY <1>1 DEF Ended
  <2>3. run[j].flow \in executing /\ run[j].flow # run[i].flow
    BY <2>1, <2>2 DEF FlowInv, RefHeld, OneRun
  <2> QED BY <1>1, <2>1, <2>3
<1>8. \A j \in FlowRuns :
          /\ run'[j].pc = "unused" => run'[j] = NotStarted /\ onChain'[j] = "none"
          /\ run'[j].pc # "unused" => run'[j].flow \in UsedFlows
          /\ run'[j].pc = "polling" => FlowOf(j)'.checks = "poll"
  BY <1>1, <1>2, <1>4 DEF FlowInv
<1>9. /\ shown' \in [UsedFlows -> InProgress \cup {"none", "success", "error", "cancelled"}]
      /\ onChain' \in [FlowRuns -> {"none", "pending", "applied", "failed"}]
  BY <1>1 DEF FlowInv
<1> QED BY <1>3, <1>5, <1>6, <1>7, <1>8, <1>9 DEF FlowInv

LEMMA FlowStep == FlowInv /\ [FlowNext]_flowVars => FlowInv'
<1> SUFFICES ASSUME FlowInv, [FlowNext]_flowVars PROVE FlowInv'
  OBVIOUS
<1>0. \A g : Rethrows(g) \in BOOLEAN
  BY DEF Rethrows
<1>1. ASSUME NEW f \in UsedFlows, ShowPreview(f) \/ ClosePreview(f) \/ ClearPreview(f)
      PROVE  FlowInv'
  <2>1. UNCHANGED <<run, onChain, executing, shown>>
    BY <1>1 DEF ShowPreview, ClosePreview, ClearPreview
  <2>2. shown' \in [UsedFlows -> InProgress \cup {"none", "success", "error", "cancelled"}]
    BY <2>1 DEF FlowInv
  <2> QED BY <2>1, <2>2, DialogMoves
<1>2. ASSUME NEW f \in UsedFlows, CancelFlow(f) PROVE FlowInv'
  <2> DEFINE polling == {i \in RunsOf(f) : run[i].pc = "polling"}
  <2>1. CASE polling = {}
    <3>1. /\ UNCHANGED <<run, onChain, executing>> /\ shown' = [shown EXCEPT ![f] = "cancelled"]
      BY <1>2, <2>1 DEF CancelFlow
    <3>2. /\ shown' \in [UsedFlows -> InProgress \cup {"none", "success", "error", "cancelled"}]
          /\ \A g \in UsedFlows : shown'[g] = "success" => shown[g] = "success"
      BY <3>1 DEF FlowInv
    <3> QED BY <3>1, <3>2, DialogMoves
  <2>2. CASE polling # {}
    <3>1. EndRun(Max(polling), "cancelled", FALSE) /\ UNCHANGED onChain
      BY <1>2, <2>2 DEF CancelFlow
    <3>2. polling \in SUBSET (0..MaxRuns)
      BY FlowConstants DEF RunsOf, FlowRuns
    <3>3. \E n \in polling : \A m \in polling : m <= n
      BY <2>2, <3>2, FlowConstants, GreatestNatural
    <3>4. \E n \in polling : \A m \in polling : n >= m
      <4>1. PICK n \in polling : \A m \in polling : m <= n
        BY <3>3
      <4>2. \A m \in polling : m \in Int
        BY <3>2
      <4> QED BY <4>1, <4>2
    <3>5. Max(polling) \in polling
      BY <3>4, Zenon DEF Max
    <3>6. PICK i \in FlowRuns : i = Max(polling) /\ run[i].pc = "polling"
      BY <3>5 DEF RunsOf
    <3>7. EndRun(i, "cancelled", FALSE) /\ ~Ended(i)
      BY <3>1, <3>6 DEF Ended
    <3> QED BY <3>1, <3>7, RunEnds
  <2> QED BY <2>1, <2>2
<1>3. ASSUME NEW f \in UsedFlows, NEW i \in FlowRuns, ConfirmPreview(f, i) PROVE FlowInv'
  BY <1>3, RunStarts DEF ConfirmPreview, MayExecute
<1>4. ASSUME NEW f \in UsedFlows, NEW i \in FlowRuns, ClickButton(f, i) PROVE FlowInv'
  BY <1>4, RunStarts, Tabled DEF ClickButton
<1>5. ASSUME NEW i \in FlowRuns, BuildAnswered(i) PROVE FlowInv'
  BY <1>5, RunGoesOn DEF BuildAnswered, Ended, InProgress
<1>6. ASSUME NEW i \in FlowRuns, WalletSigns(i) PROVE FlowInv'
  BY <1>6, RunGoesOn DEF WalletSigns, Ended, InProgress
<1>7. ASSUME NEW i \in FlowRuns, WalletRefuses(i) PROVE FlowInv'
  <2>1. ~Ended(i) /\ UNCHANGED onChain
    BY <1>7 DEF WalletRefuses, Ended
  <2>2. EndRun(i, "cancelled", FALSE) \/ EndRun(i, "error", Rethrows(run[i].flow))
    BY <1>7 DEF WalletRefuses, FailRun
  <2> QED BY <1>0, <2>1, <2>2, RunEnds
<1>8. ASSUME NEW i \in FlowRuns, ReachesNetwork(i) PROVE FlowInv'
  BY <1>8, ChainMoves DEF ReachesNetwork
<1>9. ASSUME NEW i \in FlowRuns, ledgerDecides(i) PROVE FlowInv'
  <2>1. onChain[i] = "pending" /\ run[i].pc # "unused"
    BY <1>9 DEF ledgerDecides, FlowInv
  <2> QED BY <1>9, <2>1, ChainMoves DEF ledgerDecides
<1>10. ASSUME NEW i \in FlowRuns, SubmitAnswered(i) PROVE FlowInv'
  <2>1. ~Ended(i) /\ UNCHANGED onChain
    BY <1>10 DEF SubmitAnswered, Ended
  <2>2. PICK answer \in Answers(i) :
           IF ~Accepts(i, answer) THEN FailRun(i)
           ELSE IF run[i].flow = "repaymentForm" THEN ShowSuccess(i)
           ELSE EndRun(i, "success", FALSE)
    BY <1>10 DEF SubmitAnswered
  <2>3. CASE Accepts(i, answer)
    <3>1. FlowOf(i).checks = "status" => onChain[i] = "applied"
      BY <2>2, <2>3 DEF Accepts, Answers
    <3> QED BY <2>1, <2>2, <2>3, <3>1, RunEnds, RunShows
  <2>4. CASE ~Accepts(i, answer)
    BY <1>0, <2>1, <2>2, <2>4, RunEnds DEF FailRun
  <2> QED BY <2>3, <2>4
<1>11. ASSUME NEW i \in FlowRuns, RequestFails(i) PROVE FlowInv'
  BY <1>0, <1>11, RunEnds DEF RequestFails, FailRun, Ended
<1>12. ASSUME NEW i \in FlowRuns, RequestRecorded(i) PROVE FlowInv'
  <2>1. ~Ended(i) /\ UNCHANGED onChain /\ FlowOf(i).checks = "poll"
    BY <1>12 DEF RequestRecorded, Ended
  <2>2. CASE GoesOn(i, "polling", "confirming") /\ UNCHANGED executing
    BY <2>1, <2>2, RunGoesOn DEF InProgress
  <2>3. CASE EndRun(i, "success", FALSE)
    BY <2>1, <2>3, RunEnds
  <2> QED BY <1>12, <2>2, <2>3 DEF RequestRecorded
<1>13. ASSUME NEW i \in FlowRuns, pollTransactionStatus(i) PROVE FlowInv'
  <2>1. ~Ended(i) /\ UNCHANGED onChain
    BY <1>13 DEF pollTransactionStatus, Ended
  <2> QED BY <1>13, <2>1, RunEnds DEF pollTransactionStatus
<1>14. CASE UNCHANGED flowVars
  <2>1. shown' \in [UsedFlows -> InProgress \cup {"none", "success", "error", "cancelled"}]
    BY <1>14 DEF flowVars, FlowInv
  <2> QED BY <1>14, <2>1, DialogMoves DEF flowVars
<1>15. ASSUME NEW i \in FlowRuns, InvalidationsSettle(i) PROVE FlowInv'
  BY <1>15, RunSettles
<1>16. ASSUME NEW f \in UsedFlows, DismissConfirmed(f) PROVE FlowInv'
  <2>1. UNCHANGED <<run, onChain, executing>> /\ shown' = [shown EXCEPT ![f] = "none"]
    BY <1>16 DEF DismissConfirmed
  <2>2. /\ shown' \in [UsedFlows -> InProgress \cup {"none", "success", "error", "cancelled"}]
        /\ \A g \in UsedFlows : shown'[g] = "success" => shown[g] = "success"
    BY <2>1 DEF FlowInv
  <2> QED BY <2>1, <2>2, DialogMoves
<1> HIDE DEF FlowInv
<1> QED
  BY <1>1, <1>2, <1>3, <1>4, <1>5, <1>6, <1>7, <1>8, <1>9, <1>10, <1>11, <1>12, <1>13, <1>14,
     <1>15, <1>16
  DEF FlowNext, RunStep

(* A repayment, refinancing or extension is shown as done only when its    *)
(* own transaction was applied, and a repayment form has at most one       *)
(* repayment in the works: for any number of runs, dialogs opened and      *)
(* closed over them, refused signatures, late and lost answers.            *)
THEOREM SuccessAlwaysConfirmed == FlowSpec => []SuccessWasConfirmed
<1>1. FlowInit => FlowInv
  BY FlowsStart
<1>2. FlowInv /\ [FlowNext]_flowVars => FlowInv'
  BY FlowStep
<1>3. FlowInv => SuccessWasConfirmed
  <2> SUFFICES ASSUME FlowInv PROVE SuccessWasConfirmed
    OBVIOUS
  <2>1. ASSUME NEW f \in UsedFlows, FlowTable[f].exclusive
        PROVE  Cardinality({i \in RunsOf(f) : ~Ended(i)}) <= 1
    <3> DEFINE live == {i \in RunsOf(f) : ~Ended(i)}
    <3>1. \A i, j \in live : i = j
      BY <2>1 DEF FlowInv, OneRun, RunsOf, FlowOf
    <3> HIDE DEF live
    <3>2. CASE live = {}
      <4>1. Cardinality(live) = 0
        BY <3>2, FS_EmptySet
      <4> QED BY <4>1 DEF live
    <3>3. ASSUME NEW i \in live PROVE Cardinality(live) <= 1
      <4>1. live = {i}
        BY <3>1
      <4>2. Cardinality({i}) = 1
        BY FS_Singleton
      <4> QED BY <4>1, <4>2
    <3> QED BY <3>2, <3>3 DEF live
  <2>2. \A f \in UsedFlows : shown[f] = "success" /\ FlowTable[f].checks = "status" =>
           \E i \in RunsOf(f) : onChain[i] = "applied"
    BY DEF FlowInv, DisplaysConfirmed, RunsOf
  <2> QED BY <2>1, <2>2 DEF FlowInv, SuccessWasConfirmed, OutcomesConfirmed
<1> QED BY <1>1, <1>2, <1>3, PTL DEF FlowSpec

------------------------------------------------------------------------------
(* The query cache.                                                        *)

(* A query's row is in one of the tables.                                  *)
LEMMA QueryRow ==
    ASSUME NEW q \in UsedQueries
    PROVE  \E table \in QueryTables : q \in DOMAIN table /\ AllQueries[q] = table[q]
<1>1. q \in UNION {DOMAIN table : table \in QueryTables}
  BY HookNames DEF AllQueries
<1> DEFINE table == CHOOSE t \in QueryTables : q \in DOMAIN t
<1>2. \E t \in QueryTables : q \in DOMAIN t
  BY <1>1
<1>3. table \in QueryTables /\ q \in DOMAIN table
  BY <1>2
<1>4. AllQueries[q] = table[q]
  BY <1>1 DEF AllQueries
<1> QED BY <1>3, <1>4

(* Every hook that moves a pool figure ahead invalidates both figures when *)
(* it is settled.                                                          *)
LEMMA GuessesInvalidate ==
    ASSUME NEW hook \in UsedMutations, AllMutations[hook].step # 0
    PROVE  AllMutations[hook].onSettled = PoolKeys
<1>1. hook \in DOMAIN AllMutations
  BY HookNames
<1> QED
  BY <1>1
  DEF AllMutations, Mutation, useCreateLoan, useCreateRemittance, useUpdateNotificationPreferences,
      useResolveAdminDispute, useRepayLoan, useDepositToPool, useWithdrawFromPool,
      useDepositCollateral, useReleaseCollateral

(* A hook that announces a write announces one of these.                   *)
LEMMA AnnouncedWrites ==
    ASSUME NEW hook \in UsedMutations, AllMutations[hook].onSuccess # {}
    PROVE  \/ AllMutations[hook] = useCreateLoan
           \/ AllMutations[hook] = useCreateRemittance
           \/ AllMutations[hook] = useUpdateNotificationPreferences
           \/ AllMutations[hook] = useResolveAdminDispute
<1>1. hook \in DOMAIN AllMutations
  BY HookNames
<1> QED
  BY <1>1
  DEF AllMutations, Mutation, useRepayLoan, useDepositToPool, useWithdrawFromPool,
      useDepositCollateral, useReleaseCollateral

(* Which keys the queries over an announced resource begin with.           *)
LEMMA TablesMatch ==
    ASSUME NEW table \in QueryTables, NEW q \in DOMAIN table
    PROVE  /\ table[q].resource = "loans" =>
                IsPrefix(<<"loans">>, table[q].key) \/ IsPrefix(<<"borrowerLoans", Wallet>>, table[q].key)
           /\ table[q].resource = "remittances" => IsPrefix(<<"remittances">>, table[q].key)
           /\ table[q].resource = "preferences" => IsPrefix(<<"notificationPreferences">>, table[q].key)
           /\ table[q].resource = "disputes" => IsPrefix(<<"admin", "disputes">>, table[q].key)
           /\ q = "usePoolStats" => table[q].resource = "totalDeposits"
           /\ q = "useDepositorPortfolio" => table[q].resource = "depositAmount"
<1> USE DEF IsPrefix, Query
<1>1. CASE table = LoanQueries
  BY <1>1 DEF LoanQueries
<1>2. CASE table = LoanListQueries
  BY <1>2 DEF LoanListQueries
<1>3. CASE table = RemittanceQueries
  BY <1>3 DEF RemittanceQueries
<1>4. CASE table = UserQueries
  BY <1>4 DEF UserQueries
<1>5. CASE table = ScoreQueries
  BY <1>5 DEF ScoreQueries
<1>6. CASE table = YieldQueries
  BY <1>6 DEF YieldQueries
<1>7. CASE table = BorrowerQueries
  BY <1>7 DEF BorrowerQueries
<1>8. CASE table = PoolQueries
  BY <1>8 DEF PoolQueries
<1>9. CASE table = PreferenceQueries
  BY <1>9 DEF PreferenceQueries
<1>10. CASE table = SessionQueries
  BY <1>10 DEF SessionQueries
<1>11. CASE table = DisputeQueries
  BY <1>11 DEF DisputeQueries
<1>12. CASE table = OverviewQueries
  BY <1>12 DEF OverviewQueries
<1> QED
  BY <1>1, <1>2, <1>3, <1>4, <1>5, <1>6, <1>7, <1>8, <1>9, <1>10, <1>11, <1>12 DEF QueryTables

Figures == Nat \cup {NoData}

CacheEntries ==
    [data : Figures, stale : BOOLEAN, mounted : BOOLEAN, fetch : {"none", "sent", "read"},
     answer : Nat \cup {NoAnswer}, failed : BOOLEAN, guess : BOOLEAN, overtaken : BOOLEAN]

Snapshots == UNION {[S -> Figures] : S \in SUBSET UsedQueries}

MutationCalls ==
    [hook : UsedMutations \cup {"none"}, pc : {"ready", "cancelling", "requested", "settled"},
     wrote : BOOLEAN, snapshot : Snapshots]

CacheTyped ==
    /\ server \in [Resources -> Nat]
    /\ announced \in [Resources -> Nat]
    /\ entry \in [UsedQueries -> CacheEntries]
    /\ call \in [Calls -> MutationCalls]

Waiting(k) == k.pc \notin {"ready", "settled"}
Moving(k) == Waiting(k) /\ AllMutations[k.hook].step # 0

(* A call that waits has its hook, and only one that moves figures ahead   *)
(* cancels fetches and remembers figures, those of the pool.               *)
CallSound(k) ==
    /\ Waiting(k) => k.hook \in UsedMutations
    /\ k.pc = "cancelling" => Moving(k)
    /\ DOMAIN k.snapshot \subseteq PoolEntries
    /\ Waiting(k) /\ DOMAIN k.snapshot # {} => Moving(k)

OptimisticRuns == \E c \in Calls : Optimistic(c)

(* A guess is a figure of the pool.                                        *)
GuessSound(q, e, moving) ==
    e.guess =>
        /\ q \in PoolEntries
        /\ \/ moving
           \/ e.stale /\ (e.mounted => e.fetch # "none" \/ e.failed)

(* An answer on its way is no older than the last write announced, unless  *)
(* the announcement found the hook off the screen; and data that is older  *)
(* is stale, so that it is read when the hook returns to the screen.       *)
AnswerSound(e, version) ==
    e.fetch = "read" => e.answer \in Nat /\ (e.overtaken \/ e.answer >= version)

DataSound(e, version) ==
    e.data # NoData /\ ~e.guess /\ e.data < version =>
        \/ e.overtaken
        \/ e.stale /\ (e.mounted => e.failed \/ e.fetch # "none")

EntrySound(q, e, version, moving) ==
    GuessSound(q, e, moving) /\ AnswerSound(e, version) /\ DataSound(e, version)

(* No announcement is about the figures whose fetches are cancelled.       *)
CancelledFigures == {"usePoolStats", "useDepositorPortfolio"}

CacheInv ==
    /\ CacheTyped
    /\ \A r \in Resources : announced[r] <= server[r]
    /\ \A q \in UsedQueries \cap CancelledFigures : announced[ResourceOf(q)] = 0
    /\ \A c \in Calls : CallSound(call[c])
    /\ \A q \in UsedQueries : EntrySound(q, entry[q], announced[ResourceOf(q)], OptimisticRuns)

(* What the invariant says of what is on screen.                           *)
LEMMA CacheInvGives == CacheInv => GuessesAreProvisional /\ WritesReachScreens
<1> SUFFICES ASSUME CacheInv PROVE GuessesAreProvisional /\ WritesReachScreens
  OBVIOUS
<1>1. GuessesAreProvisional
  BY DEF GuessesAreProvisional, CacheInv, EntrySound, GuessSound, OptimisticRuns
<1>2. WritesReachScreens
  <2> SUFFICES ASSUME NEW q \in UsedQueries, entry[q].mounted, entry[q].data # NoData, ~entry[q].guess,
                      entry[q].data < announced[ResourceOf(q)]
               PROVE  \/ entry[q].failed \/ entry[q].overtaken
                      \/ entry[q].fetch = "sent"
                      \/ entry[q].fetch = "read" /\ entry[q].answer >= announced[ResourceOf(q)]
    BY DEF WritesReachScreens
  <2>1. entry[q] \in CacheEntries
    BY DEF CacheInv, CacheTyped
  <2>2. entry[q].fetch \in {"none", "sent", "read"}
    BY <2>1 DEF CacheEntries
  <2> QED BY <2>2 DEF CacheInv, EntrySound, AnswerSound, DataSound
<1> QED BY <1>1, <1>2

(* A fetch that starts, and one that is dropped.                           *)
LEMMA SentFields ==
    ASSUME NEW e \in CacheEntries
    PROVE  /\ Sent(e) \in CacheEntries
           /\ Sent(e).fetch = "sent" /\ Sent(e).data = e.data /\ Sent(e).stale = e.stale
           /\ Sent(e).mounted = e.mounted /\ Sent(e).guess = e.guess
BY DEF CacheEntries, Sent

LEMMA DroppedFields ==
    ASSUME NEW e \in CacheEntries
    PROVE  /\ Dropped(e) \in CacheEntries
           /\ Dropped(e).fetch = "none" /\ Dropped(e).data = e.data /\ Dropped(e).stale = e.stale
           /\ Dropped(e).mounted = e.mounted /\ Dropped(e).guess = e.guess
           /\ Dropped(e).failed = e.failed /\ Dropped(e).overtaken = e.overtaken
BY DEF CacheEntries, Dropped

(* An invalidated entry is untouched, or stale, and being read if it is on *)
(* the screen.                                                             *)
LEMMA InvalidatedFields ==
    ASSUME NEW entries \in [UsedQueries -> CacheEntries], NEW keys, NEW q \in UsedQueries
    PROVE  LET e == entries[q]
               i == Invalidated(entries, keys)[q]
           IN  /\ i \in CacheEntries
               /\ i.data = e.data /\ i.guess = e.guess /\ i.mounted = e.mounted
               /\ ~Matches(q, keys) => i = e
               /\ Matches(q, keys) => i.stale
               /\ Matches(q, keys) /\ e.mounted => i.fetch = "sent"
               /\ Matches(q, keys) /\ ~e.mounted =>
                      /\ i.fetch = e.fetch /\ i.answer = e.answer
                      /\ e.overtaken \/ e.fetch # "none" => i.overtaken
<1> DEFINE e == entries[q]
           i == Invalidated(entries, keys)[q]
<1>1. e \in CacheEntries
  OBVIOUS
<1>2. i = IF ~Matches(q, keys) THEN e
          ELSE IF e.mounted THEN Sent([e EXCEPT !.stale = TRUE])
          ELSE [e EXCEPT !.stale = TRUE, !.overtaken = @ \/ e.fetch # "none"]
  BY DEF Invalidated
<1>3. CASE ~Matches(q, keys)
  BY <1>1, <1>2, <1>3
<1>4. CASE Matches(q, keys) /\ e.mounted
  <2> DEFINE s == [e EXCEPT !.stale = TRUE]
  <2>1. s \in CacheEntries /\ s.stale /\ s.data = e.data /\ s.guess = e.guess /\ s.mounted = e.mounted
    BY <1>1 DEF CacheEntries
  <2>2. i = Sent(s)
    BY <1>2, <1>4
  <2> HIDE DEF s
  <2> QED BY <1>4, <2>1, <2>2, SentFields
<1>5. CASE Matches(q, keys) /\ ~e.mounted
  <2>1. PICK o \in BOOLEAN : o = (e.overtaken \/ e.fetch # "none")
    OBVIOUS
  <2>2. i = [e EXCEPT !.stale = TRUE, !.overtaken = o]
    BY <1>2, <1>5, <2>1
  <2> HIDE DEF e, i
  <2>3. i \in CacheEntries
    BY <1>1, <2>2 DEF CacheEntries
  <2>4. /\ i.data = e.data /\ i.guess = e.guess /\ i.mounted = e.mounted /\ i.fetch = e.fetch
        /\ i.answer = e.answer /\ i.stale /\ i.overtaken = o
    BY <1>1, <2>2 DEF CacheEntries
  <2> QED BY <1>5, <2>1, <2>3, <2>4 DEF e, i
<1> QED BY <1>3, <1>4, <1>5

(* A new cache is empty.                                                   *)
LEMMA CacheStarts == CacheInit => CacheInv
<1> SUFFICES ASSUME CacheInit PROVE CacheInv
  OBVIOUS
<1>1. Empty \in CacheEntries
  BY DEF Empty, CacheEntries, Figures
<1>2. NotCalled \in MutationCalls /\ DOMAIN NotCalled.snapshot = {} /\ NotCalled.pc = "ready"
  <2>1. [q \in {} |-> NoData] \in Snapshots
    BY DEF Snapshots, Figures
  <2> QED BY <2>1 DEF NotCalled, MutationCalls
<1>3. CacheTyped /\ \A r \in Resources : announced[r] <= server[r]
  BY <1>1, <1>2 DEF CacheInit, CacheTyped
<1>4. \A c \in Calls : CallSound(call[c])
  BY <1>2 DEF CacheInit, CallSound, Waiting, Moving
<1>5. \A q \in UsedQueries : EntrySound(q, entry[q], announced[ResourceOf(q)], OptimisticRuns)
  BY DEF CacheInit, EntrySound, GuessSound, AnswerSound, DataSound, Empty
<1>6. \A q \in UsedQueries : announced[ResourceOf(q)] = 0
  BY DEF CacheInit, Resources
<1> QED BY <1>3, <1>4, <1>5, <1>6 DEF CacheInv

(* Steps that touch one entry and nothing else.                            *)
LEMMA OneEntry ==
    ASSUME CacheInv, NEW q \in UsedQueries, NEW e \in CacheEntries,
           EntrySound(q, e, announced[ResourceOf(q)], OptimisticRuns),
           entry' = [entry EXCEPT ![q] = e], UNCHANGED <<server, call, announced>>
    PROVE  CacheInv'
<1>1. CacheTyped'
  BY DEF CacheInv, CacheTyped
<1>2. OptimisticRuns' <=> OptimisticRuns
  BY DEF OptimisticRuns, Optimistic, Running, Rule
<1>3. \A c \in Calls : CallSound(call'[c])
  BY DEF CacheInv
<1>4. \A p \in UsedQueries : EntrySound(p, entry'[p], announced[ResourceOf(p)], OptimisticRuns)
  BY DEF CacheInv, CacheTyped
<1>5. \A p \in UsedQueries : EntrySound(p, entry'[p], announced'[ResourceOf(p)], OptimisticRuns')
  BY <1>2, <1>4 DEF EntrySound, GuessSound
<1> QED BY <1>1, <1>3, <1>5 DEF CacheInv

(* The steps of one query.                                                 *)
LEMMA QuerySteps ==
    ASSUME CacheInv, NEW q \in UsedQueries,
           \/ MountQuery(q) \/ UnmountQuery(q) \/ GoesStale(q) \/ Refetch(q)
           \/ ReadAtServer(q) \/ FetchAnswered(q) \/ FetchFailed(q)
    PROVE  CacheInv'
<1> DEFINE o == entry[q]
           version == announced[ResourceOf(q)]
<1>1. o \in CacheEntries /\ version \in Nat /\ server[ResourceOf(q)] \in Nat /\ version <= server[ResourceOf(q)]
  BY DEF CacheInv, CacheTyped, Resources
<1>2. EntrySound(q, o, version, OptimisticRuns)
  BY DEF CacheInv
<1>3. entry = [entry EXCEPT ![q] = o] /\ DOMAIN entry = UsedQueries
  BY DEF CacheInv, CacheTyped
<1>4. /\ o.data \in Figures /\ o.stale \in BOOLEAN /\ o.mounted \in BOOLEAN
      /\ o.fetch \in {"none", "sent", "read"} /\ o.answer \in Nat \cup {NoAnswer}
      /\ o.failed \in BOOLEAN /\ o.guess \in BOOLEAN /\ o.overtaken \in BOOLEAN
  BY <1>1 DEF CacheEntries
<1> HIDE DEF o, version
<1>5. CASE MountQuery(q)
  <2> DEFINE e == [o EXCEPT !.mounted = TRUE]
  <2>1. /\ e \in CacheEntries /\ e.data = o.data /\ e.stale = o.stale /\ e.fetch = o.fetch
        /\ e.answer = o.answer /\ e.failed = o.failed /\ e.guess = o.guess /\ e.overtaken = o.overtaken
    BY <1>1 DEF CacheEntries
  <2>2. UNCHANGED <<server, call, announced>>
    BY <1>5 DEF MountQuery, rest
  <2>3. entry' = [entry EXCEPT ![q] = IF e.stale /\ e.fetch = "none" THEN Sent(e) ELSE e]
    BY <1>5 DEF MountQuery, o
  <2> HIDE DEF e
  <2>4. CASE e.stale /\ e.fetch = "none"
    <3>1. EntrySound(q, Sent(e), version, OptimisticRuns)
      BY <1>2, <2>1, <2>4, SentFields DEF EntrySound, GuessSound, AnswerSound, DataSound
    <3> QED BY <2>1, <2>2, <2>3, <2>4, <3>1, SentFields, OneEntry DEF version
  <2>5. CASE ~(e.stale /\ e.fetch = "none")
    <3>1. EntrySound(q, e, version, OptimisticRuns)
      <4>1. GuessSound(q, e, OptimisticRuns)
        BY <1>2, <2>1, <2>5 DEF EntrySound, GuessSound
      <4>2. AnswerSound(e, version)
        BY <1>2, <2>1 DEF EntrySound, AnswerSound
      <4>3. DataSound(e, version)
        BY <1>2, <2>1, <2>5 DEF EntrySound, DataSound
      <4> QED BY <4>1, <4>2, <4>3 DEF EntrySound
    <3> QED BY <2>1, <2>2, <2>3, <2>5, <3>1, OneEntry DEF version
  <2> QED BY <2>4, <2>5
<1>6. CASE UnmountQuery(q)
  <2>1. PICK e : e = [o EXCEPT !.mounted = FALSE]
    OBVIOUS
  <2>2. /\ e \in CacheEntries /\ e.data = o.data /\ e.stale = o.stale /\ e.fetch = o.fetch /\ ~e.mounted
        /\ e.answer = o.answer /\ e.failed = o.failed /\ e.guess = o.guess /\ e.overtaken = o.overtaken
    BY <1>1, <2>1 DEF CacheEntries
  <2>3. EntrySound(q, e, version, OptimisticRuns)
    BY <1>2, <2>2 DEF EntrySound, GuessSound, AnswerSound, DataSound
  <2>4. entry' = [entry EXCEPT ![q] = e] /\ UNCHANGED <<server, call, announced>>
    BY <1>6, <2>1 DEF UnmountQuery, rest, o
  <2> QED BY <2>2, <2>3, <2>4, OneEntry DEF version
<1>7. CASE GoesStale(q)
  <2>1. PICK e : e = [o EXCEPT !.stale = TRUE]
    OBVIOUS
  <2>2. /\ e \in CacheEntries /\ e.data = o.data /\ e.stale /\ e.fetch = o.fetch /\ e.mounted = o.mounted
        /\ e.answer = o.answer /\ e.failed = o.failed /\ e.guess = o.guess /\ e.overtaken = o.overtaken
    BY <1>1, <2>1 DEF CacheEntries
  <2>3. EntrySound(q, e, version, OptimisticRuns)
    BY <1>2, <2>2 DEF EntrySound, GuessSound, AnswerSound, DataSound
  <2>4. entry' = [entry EXCEPT ![q] = e] /\ UNCHANGED <<server, call, announced>>
    BY <1>7, <2>1 DEF GoesStale, rest, o
  <2> QED BY <2>2, <2>3, <2>4, OneEntry DEF version
<1>8. CASE Refetch(q)
  <2>1. o.mounted /\ o.stale /\ UNCHANGED <<server, call, announced>>
    BY <1>8 DEF Refetch, rest, o
  <2>2. entry' = [entry EXCEPT ![q] = Sent(o)]
    BY <1>8 DEF Refetch, o
  <2>3. EntrySound(q, Sent(o), version, OptimisticRuns)
    BY <1>1, <1>2, <2>1, SentFields DEF EntrySound, GuessSound, AnswerSound, DataSound
  <2> QED BY <1>1, <2>1, <2>2, <2>3, SentFields, OneEntry DEF version
<1>9. CASE ReadAtServer(q)
  <2>1. PICK a \in Nat : a = server[ResourceOf(q)]
    BY <1>1
  <2>2. PICK e : e = [o EXCEPT !.fetch = "read", !.answer = a]
    OBVIOUS
  <2>3. /\ e \in CacheEntries /\ e.data = o.data /\ e.stale = o.stale /\ e.fetch = "read" /\ e.mounted = o.mounted
        /\ e.answer = a /\ e.failed = o.failed /\ e.guess = o.guess /\ e.overtaken = o.overtaken
    BY <1>1, <2>2 DEF CacheEntries
  <2>4. EntrySound(q, e, version, OptimisticRuns)
    BY <1>1, <1>2, <2>1, <2>3 DEF EntrySound, GuessSound, AnswerSound, DataSound
  <2>5. entry' = [entry EXCEPT ![q] = e] /\ UNCHANGED <<server, call, announced>>
    BY <1>9, <2>1, <2>2 DEF ReadAtServer, rest, o
  <2> QED BY <2>3, <2>4, <2>5, OneEntry DEF version
<1>10. CASE FetchAnswered(q)
  <2>1. o.fetch = "read" /\ UNCHANGED <<server, call, announced>>
    BY <1>10 DEF FetchAnswered, rest, o
  <2>2. PICK d : d = Dropped(o)
    OBVIOUS
  <2>3. PICK a : a = o.answer
    OBVIOUS
  <2>4. PICK e : e = [d EXCEPT !.data = a, !.stale = FALSE, !.guess = FALSE]
    OBVIOUS
  <2>5. d \in CacheEntries /\ d.fetch = "none" /\ d.mounted = o.mounted /\ d.overtaken = o.overtaken
    BY <1>1, <2>2, DroppedFields
  <2>6. a \in Nat /\ (o.overtaken \/ a >= version)
    BY <1>2, <2>1, <2>3 DEF EntrySound, AnswerSound
  <2>7. /\ e \in CacheEntries /\ e.data = a /\ ~e.stale /\ e.fetch = "none" /\ ~e.guess
        /\ e.overtaken = o.overtaken
    BY <2>4, <2>5, <2>6 DEF CacheEntries, Figures
  <2>8. EntrySound(q, e, version, OptimisticRuns)
    BY <1>1, <2>6, <2>7 DEF EntrySound, GuessSound, AnswerSound, DataSound
  <2>9. entry' = [entry EXCEPT ![q] = e]
    BY <1>10, <2>2, <2>3, <2>4 DEF FetchAnswered, o
  <2> QED BY <2>1, <2>7, <2>8, <2>9, OneEntry DEF version
<1>11. CASE FetchFailed(q)
  <2>1. PICK d : d = Dropped(o)
    OBVIOUS
  <2>2. PICK e : e = [d EXCEPT !.failed = TRUE]
    OBVIOUS
  <2>3. d \in CacheEntries /\ d.fetch = "none" /\ d.data = o.data /\ d.stale = o.stale
        /\ d.mounted = o.mounted /\ d.guess = o.guess /\ d.overtaken = o.overtaken
    BY <1>1, <2>1, DroppedFields
  <2>4. /\ e \in CacheEntries /\ e.data = o.data /\ e.stale = o.stale /\ e.fetch = "none" /\ e.mounted = o.mounted
        /\ e.failed /\ e.guess = o.guess /\ e.overtaken = o.overtaken
    BY <2>2, <2>3 DEF CacheEntries
  <2>5. EntrySound(q, e, version, OptimisticRuns)
    BY <1>2, <2>4 DEF EntrySound, GuessSound, AnswerSound, DataSound
  <2>6. entry' = [entry EXCEPT ![q] = e] /\ UNCHANGED <<server, call, announced>>
    BY <1>11, <2>1, <2>2 DEF FetchFailed, rest, o
  <2> QED BY <2>4, <2>5, <2>6, OneEntry DEF version
<1> QED BY <1>5, <1>6, <1>7, <1>8, <1>9, <1>10, <1>11

(* An optimistic change is an amount or none.                              *)
LEMMA StepsAreNumbers ==
    ASSUME NEW hook \in UsedMutations
    PROVE  AllMutations[hook].step \in Int
<1>1. hook \in DOMAIN AllMutations
  BY HookNames
<1>2. Amount \in Int /\ -Amount \in Int
  BY QueryConstants
<1> QED
  BY <1>1, <1>2
  DEF AllMutations, Mutation, useCreateLoan, useCreateRemittance, useUpdateNotificationPreferences,
      useResolveAdminDispute, useRepayLoan, useDepositToPool, useWithdrawFromPool,
      useDepositCollateral, useReleaseCollateral

(* The figures of the pool are in what a deposit or withdrawal invalidates. *)
LEMMA FiguresMatch ==
    ASSUME NEW q \in PoolEntries, NEW keys, PoolKeys \subseteq keys
    PROVE  Matches(q, keys)
<1>1. KeyOf(q) \in keys
  BY DEF PoolEntries
<1>2. KeyOf(q) \in PoolKeys
  BY DEF PoolEntries
<1>3. IsPrefix(KeyOf(q), KeyOf(q))
  BY <1>2 DEF PoolKeys, IsPrefix
<1> QED BY <1>1, <1>3 DEF Matches

(* Whatever reads a resource that a hook announces is invalidated by it;   *)
(* and no hook announces a figure whose fetches are cancelled.             *)
LEMMA AnnouncedMatch ==
    ASSUME NEW hook \in UsedMutations, NEW q \in UsedQueries,
           AllMutations[hook].onSuccess # {}, ResourceOf(q) \in AllMutations[hook].writes
    PROVE  /\ Matches(q, AllMutations[hook].onSuccess \cup AllMutations[hook].onSettled)
           /\ q \notin CancelledFigures
<1> DEFINE m == AllMutations[hook]
<1>1. PICK table \in QueryTables : q \in DOMAIN table /\ AllQueries[q] = table[q]
  BY QueryRow
<1>2. table[q].resource \in m.writes
  BY <1>1 DEF ResourceOf
<1>3. KeyOf(q) = table[q].key
  BY <1>1 DEF KeyOf
<1>4. \/ m = useCreateLoan \/ m = useCreateRemittance
      \/ m = useUpdateNotificationPreferences \/ m = useResolveAdminDispute
  BY AnnouncedWrites
<1>5. \/ m.writes = {"loans"} /\ m.onSuccess = {<<"loans">>, <<"borrowerLoans", Wallet>>}
      \/ m.writes = {"remittances"} /\ m.onSuccess = {<<"remittances">>}
      \/ m.writes = {"preferences"} /\ m.onSuccess = {<<"notificationPreferences">>}
      \/ /\ m.writes = {"disputes"}
         /\ m.onSuccess = {<<"admin", "disputes">>, <<"admin", "disputes", DisputeId>>}
  BY <1>4
  DEF Mutation, useCreateLoan, useCreateRemittance, useUpdateNotificationPreferences,
      useResolveAdminDispute
<1> HIDE DEF m
<1>6. \E k \in m.onSuccess : IsPrefix(k, KeyOf(q))
  <2>1. CASE m.writes = {"loans"} /\ m.onSuccess = {<<"loans">>, <<"borrowerLoans", Wallet>>}
    BY <1>1, <1>2, <1>3, <2>1, TablesMatch
  <2>2. CASE m.writes = {"remittances"} /\ m.onSuccess = {<<"remittances">>}
    BY <1>1, <1>2, <1>3, <2>2, TablesMatch
  <2>3. CASE m.writes = {"preferences"} /\ m.onSuccess = {<<"notificationPreferences">>}
    BY <1>1, <1>2, <1>3, <2>3, TablesMatch
  <2>4. CASE /\ m.writes = {"disputes"}
             /\ m.onSuccess = {<<"admin", "disputes">>, <<"admin", "disputes", DisputeId>>}
    BY <1>1, <1>2, <1>3, <2>4, TablesMatch
  <2> QED BY <1>5, <2>1, <2>2, <2>3, <2>4
<1>7. q \notin CancelledFigures
  BY <1>1, <1>2, <1>5, TablesMatch DEF CancelledFigures
<1> QED BY <1>6, <1>7 DEF m, Matches

(* A step of one call, and what it may do to the entries.                  *)
LEMMA OneCall ==
    ASSUME CacheInv, NEW c \in Calls, NEW k \in MutationCalls, CallSound(k),
           call' = [call EXCEPT ![c] = k],
           server' \in [Resources -> Nat], announced' \in [Resources -> Nat],
           \A r \in Resources : announced'[r] <= server'[r],
           \A q \in UsedQueries \cap CancelledFigures : announced'[ResourceOf(q)] = 0,
           entry' \in [UsedQueries -> CacheEntries],
           \A q \in UsedQueries :
               EntrySound(q, entry'[q], announced'[ResourceOf(q)],
                          Moving(k) \/ \E d \in Calls \ {c} : Optimistic(d))
    PROVE  CacheInv'
<1>1. CacheTyped'
  BY DEF CacheInv, CacheTyped
<1>2. \A d \in Calls : CallSound(call'[d])
  BY DEF CacheInv, CacheTyped
<1>3. OptimisticRuns' <=> (Moving(k) \/ \E d \in Calls \ {c} : Optimistic(d))
  BY DEF OptimisticRuns, Optimistic, Running, Rule, Moving, Waiting, CacheInv, CacheTyped
<1>4. \A q \in UsedQueries : EntrySound(q, entry'[q], announced'[ResourceOf(q)], OptimisticRuns')
  BY <1>3 DEF EntrySound, GuessSound
<1> QED BY <1>1, <1>2, <1>4 DEF CacheInv

(* What is known of a call, and of an entry.                               *)
LEMMA WaitingCall ==
    ASSUME CacheInv, NEW c \in Calls
    PROVE  /\ call[c] \in MutationCalls
           /\ CallSound(call[c])
           /\ Optimistic(c) <=> Moving(call[c])
           /\ OptimisticRuns <=> (Moving(call[c]) \/ \E d \in Calls \ {c} : Optimistic(d))
BY DEF CacheInv, CacheTyped, OptimisticRuns, Optimistic, Running, Rule, Moving, Waiting

LEMMA EntryFacts ==
    ASSUME CacheInv, NEW q \in UsedQueries
    PROVE  /\ entry[q] \in CacheEntries
           /\ announced[ResourceOf(q)] \in Nat
           /\ EntrySound(q, entry[q], announced[ResourceOf(q)], OptimisticRuns)
BY DEF CacheInv, CacheTyped, Resources

(* The steps of a call.                                                    *)
LEMMA MutateStep ==
    ASSUME CacheInv, NEW c \in Calls, NEW hook \in UsedMutations, Mutate(c, hook)
    PROVE  CacheInv'
<1> DEFINE optimistic == AllMutations[hook].step # 0
<1>1. PICK pc : pc = IF optimistic THEN "cancelling" ELSE "requested"
  OBVIOUS
<1>2. PICK k : k = [NotCalled EXCEPT !.hook = hook, !.pc = pc]
  OBVIOUS
<1>3. [q \in {} |-> NoData] \in Snapshots
  BY SMTT(30) DEF Snapshots, Figures
<1>4. k \in MutationCalls /\ k.hook = hook /\ k.pc = pc /\ DOMAIN k.snapshot = {}
  BY <1>1, <1>2, <1>3 DEF NotCalled, MutationCalls
<1>5. CallSound(k) /\ (Moving(k) <=> optimistic)
  BY <1>1, <1>4 DEF CallSound, Moving, Waiting
<1>6. call' = [call EXCEPT ![c] = k]
  BY <1>1, <1>2 DEF Mutate
<1>7. UNCHANGED <<server, announced>> /\ call[c].pc = "ready"
  BY DEF Mutate
<1>8. ~Moving(call[c])
  BY <1>7 DEF Moving, Waiting
<1>9. ASSUME NEW q \in UsedQueries
      PROVE  /\ entry'[q] \in CacheEntries
             /\ EntrySound(q, entry'[q], announced[ResourceOf(q)],
                           Moving(k) \/ \E d \in Calls \ {c} : Optimistic(d))
  <2>1. CASE optimistic /\ q = "usePoolStats"
    <3>1. entry'[q] = Dropped(entry[q])
      BY <2>1 DEF Mutate
    <3>2. announced[ResourceOf(q)] = 0
      BY <2>1 DEF CacheInv, CancelledFigures
    <3>3. Dropped(entry[q]).data \in Figures
      BY EntryFacts, DroppedFields DEF CacheEntries
    <3>4. DataSound(Dropped(entry[q]), 0)
      BY <3>3 DEF DataSound, Figures
    <3>5. AnswerSound(Dropped(entry[q]), 0)
      BY EntryFacts, DroppedFields DEF AnswerSound
    <3>6. GuessSound(q, Dropped(entry[q]), Moving(k) \/ \E d \in Calls \ {c} : Optimistic(d))
      BY <1>5, <2>1, EntryFacts, DroppedFields DEF EntrySound, GuessSound
    <3> QED BY <3>1, <3>2, <3>4, <3>5, <3>6, EntryFacts, DroppedFields DEF EntrySound
  <2>2. CASE ~(optimistic /\ q = "usePoolStats")
    <3>1. entry'[q] = entry[q]
      BY <2>2 DEF Mutate
    <3> QED BY <1>8, <3>1, EntryFacts, WaitingCall DEF EntrySound, GuessSound
  <2> QED BY <2>1, <2>2
<1>10. entry' \in [UsedQueries -> CacheEntries]
  BY <1>9 DEF Mutate
<1> QED BY <1>4, <1>5, <1>6, <1>7, <1>9, <1>10, OneCall DEF CacheInv, CacheTyped

LEMMA onMutateStep ==
    ASSUME CacheInv, NEW c \in Calls, onMutate(c)
    PROVE  CacheInv'
<1>1. PICK s : s = [q \in PoolEntries |-> entry[q].data]
  OBVIOUS
<1>2. PICK k : k = [call[c] EXCEPT !.pc = "requested", !.snapshot = s]
  OBVIOUS
<1>3. s \in Snapshots /\ DOMAIN s = PoolEntries
  <2>1. PoolEntries \in SUBSET UsedQueries
    BY DEF PoolEntries
  <2>2. \A q \in UsedQueries : entry[q].data \in Figures
    BY EntryFacts DEF CacheEntries
  <2>3. s \in [PoolEntries -> Figures]
    BY <1>1, <2>1, <2>2
  <2> QED BY <2>1, <2>3 DEF Snapshots
<1>4. k \in MutationCalls /\ k.hook = call[c].hook /\ k.pc = "requested" /\ k.snapshot = s
  BY <1>2, <1>3, WaitingCall DEF MutationCalls
<1>5. Moving(call[c]) /\ call[c].hook \in UsedMutations
  BY WaitingCall DEF onMutate, CallSound, Waiting
<1>6. Moving(k) /\ CallSound(k)
  BY <1>3, <1>4, <1>5 DEF CallSound, Moving, Waiting
<1>7. call' = [call EXCEPT ![c] = k] /\ UNCHANGED <<server, announced>>
  BY <1>1, <1>2 DEF onMutate, CacheInv, CacheTyped
<1>8. PICK step \in Int : step = Rule(c).step
  BY <1>5, StepsAreNumbers DEF Rule
<1>9. ASSUME NEW q \in UsedQueries
      PROVE  /\ entry'[q] \in CacheEntries
             /\ EntrySound(q, entry'[q], announced[ResourceOf(q)],
                           Moving(k) \/ \E d \in Calls \ {c} : Optimistic(d))
  <2>1. CASE q \notin PoolEntries
    <3>1. entry'[q] = entry[q]
      BY <2>1 DEF onMutate
    <3> QED BY <1>6, <2>1, <3>1, EntryFacts DEF EntrySound, GuessSound
  <2>2. CASE q \in PoolEntries
    <3>1. PICK e : e = IF q = "useDepositorPortfolio" THEN Dropped(entry[q]) ELSE entry[q]
      OBVIOUS
    <3>2. /\ e \in CacheEntries /\ e.data \in Figures
          /\ AnswerSound(e, announced[ResourceOf(q)])
      BY <3>1, EntryFacts, DroppedFields DEF CacheEntries, AnswerSound, EntrySound
    <3>3. CASE e.data = NoData
      <4>1. entry'[q] = e
        BY <2>2, <3>1, <3>3 DEF onMutate
      <4> QED BY <1>6, <2>2, <3>2, <3>3, <4>1 DEF EntrySound, GuessSound, DataSound
    <3>4. CASE e.data # NoData
      <4>1. PICK n \in Nat : n = NotBelowZero(e.data + step)
        BY <3>2, <3>4 DEF NotBelowZero, Figures
      <4>2. PICK f : f = [e EXCEPT !.data = n, !.stale = FALSE, !.guess = TRUE]
        OBVIOUS
      <4>3. entry'[q] = f
        BY <1>8, <2>2, <3>1, <3>4, <4>1, <4>2 DEF onMutate
      <4>4. f \in CacheEntries /\ f.guess /\ f.fetch = e.fetch /\ f.answer = e.answer
            /\ f.overtaken = e.overtaken
        BY <3>2, <4>2 DEF CacheEntries, Figures
      <4>5. AnswerSound(f, announced[ResourceOf(q)]) /\ DataSound(f, announced[ResourceOf(q)])
        BY <3>2, <4>4 DEF AnswerSound, DataSound
      <4> QED BY <1>6, <2>2, <4>3, <4>4, <4>5 DEF EntrySound, GuessSound
    <3> QED BY <3>3, <3>4
  <2> QED BY <2>1, <2>2
<1>10. entry' \in [UsedQueries -> CacheEntries]
  BY <1>9 DEF onMutate
<1> QED BY <1>4, <1>6, <1>7, <1>9, <1>10, OneCall DEF CacheInv, CacheTyped

LEMMA ServerWritesStep ==
    ASSUME CacheInv, NEW c \in Calls, ServerWrites(c)
    PROVE  CacheInv'
<1>1. PICK k : k = [call[c] EXCEPT !.wrote = TRUE]
  OBVIOUS
<1>2. /\ k \in MutationCalls /\ k.hook = call[c].hook /\ k.pc = call[c].pc
      /\ k.snapshot = call[c].snapshot
  BY <1>1, WaitingCall DEF MutationCalls
<1>3. CallSound(k) /\ (Moving(k) <=> Moving(call[c]))
  BY <1>2, WaitingCall DEF CallSound, Moving, Waiting
<1>4. call' = [call EXCEPT ![c] = k] /\ UNCHANGED <<entry, announced>>
  BY <1>1 DEF ServerWrites
<1>5. server' \in [Resources -> Nat] /\ \A r \in Resources : announced[r] <= server'[r]
  BY DEF ServerWrites, CacheInv, CacheTyped
<1>6. \A q \in UsedQueries :
          EntrySound(q, entry[q], announced[ResourceOf(q)],
                     Moving(k) \/ \E d \in Calls \ {c} : Optimistic(d))
  BY <1>3, EntryFacts, WaitingCall DEF EntrySound, GuessSound
<1> QED BY <1>2, <1>3, <1>4, <1>5, <1>6, OneCall DEF CacheInv, CacheTyped

(* What is invalidated is stale, and read again if it is on screen.        *)
LEMMA InvalidatedSound ==
    ASSUME CacheInv, NEW q \in UsedQueries, NEW keys, NEW moving \in BOOLEAN,
           NEW before \in [UsedQueries -> CacheEntries],
           before[q] = entry[q] \/ Matches(q, keys),
           before[q].fetch = entry[q].fetch /\ before[q].answer = entry[q].answer,
           before[q].overtaken = entry[q].overtaken,
           before[q].guess => q \in PoolEntries,
           OptimisticRuns => moving \/ PoolKeys \subseteq keys,
           NEW version, version = announced[ResourceOf(q)] \/ Matches(q, keys)
    PROVE  /\ Invalidated(before, keys)[q] \in CacheEntries
           /\ EntrySound(q, Invalidated(before, keys)[q], version, moving)
<1>1. PICK i : i = Invalidated(before, keys)[q]
  OBVIOUS
<1>2. /\ i \in CacheEntries /\ i.data = before[q].data /\ i.guess = before[q].guess
      /\ i.mounted = before[q].mounted
  BY <1>1, InvalidatedFields
<1>3. CASE Matches(q, keys)
  <2>1. i.stale /\ (before[q].mounted => i.fetch = "sent")
    BY <1>1, <1>3, InvalidatedFields
  <2>2. ~before[q].mounted => /\ i.fetch = before[q].fetch /\ i.answer = before[q].answer
                              /\ before[q].fetch # "none" => i.overtaken
    BY <1>1, <1>3, InvalidatedFields
  <2>3. GuessSound(q, i, moving)
    BY <1>2, <2>1 DEF GuessSound
  <2>4. AnswerSound(i, version)
    BY <1>2, <2>1, <2>2, EntryFacts DEF EntrySound, AnswerSound
  <2>5. DataSound(i, version)
    BY <1>2, <2>1 DEF DataSound
  <2> QED BY <1>1, <1>2, <2>3, <2>4, <2>5 DEF EntrySound
<1>4. CASE ~Matches(q, keys)
  <2>1. i = entry[q]
    BY <1>1, <1>4, InvalidatedFields
  <2>2. OptimisticRuns => moving \/ ~i.guess
    BY <1>2, <1>4, FiguresMatch
  <2> QED BY <1>1, <1>4, <2>1, <2>2, EntryFacts DEF EntrySound, GuessSound
<1> QED BY <1>3, <1>4

(* A settled call moves no figure.                                         *)
LEMMA CallEnds ==
    ASSUME CacheInv, NEW c \in Calls, NEW k, k = [call[c] EXCEPT !.pc = "settled"]
    PROVE  k \in MutationCalls /\ CallSound(k) /\ ~Moving(k)
<1>1. k \in MutationCalls /\ k.pc = "settled" /\ k.snapshot = call[c].snapshot
  BY WaitingCall DEF MutationCalls
<1> QED BY <1>1, WaitingCall DEF CallSound, Moving, Waiting

LEMMA SucceedStep ==
    ASSUME CacheInv, NEW c \in Calls, Succeed(c)
    PROVE  CacheInv'
<1> DEFINE m == AllMutations[call[c].hook]
           keys == m.onSuccess \cup m.onSettled
<1>1. PICK k : k = [call[c] EXCEPT !.pc = "settled"]
  OBVIOUS
<1>2. k \in MutationCalls /\ CallSound(k) /\ ~Moving(k)
  BY <1>1, CallEnds
<1>3. Waiting(call[c]) /\ call[c].hook \in UsedMutations
  BY WaitingCall DEF Succeed, Waiting, CallSound
<1>4. /\ entry' = Invalidated(entry, keys) /\ call' = [call EXCEPT ![c] = k] /\ server' = server
      /\ announced' = [r \in Resources |->
             IF m.onSuccess # {} /\ r \in m.writes THEN server[r] ELSE announced[r]]
  BY <1>1 DEF Succeed, Rule
<1>5. announced' \in [Resources -> Nat] /\ \A r \in Resources : announced'[r] <= server[r]
  BY <1>4 DEF CacheInv, CacheTyped
<1>6. OptimisticRuns => (\E d \in Calls \ {c} : Optimistic(d)) \/ PoolKeys \subseteq keys
  BY <1>3, GuessesInvalidate, WaitingCall DEF Moving
<1>7. ASSUME NEW q \in UsedQueries
      PROVE  /\ announced'[ResourceOf(q)] = announced[ResourceOf(q)] \/ Matches(q, keys)
             /\ q \in CancelledFigures => announced'[ResourceOf(q)] = 0
  <2>1. ResourceOf(q) \in Resources
    BY DEF Resources
  <2>2. CASE m.onSuccess # {} /\ ResourceOf(q) \in m.writes
    BY <1>3, <2>2, AnnouncedMatch
  <2>3. CASE ~(m.onSuccess # {} /\ ResourceOf(q) \in m.writes)
    BY <1>4, <2>1, <2>3 DEF CacheInv
  <2> QED BY <2>2, <2>3
<1> HIDE DEF m, keys
<1>8. entry \in [UsedQueries -> CacheEntries] /\ \A q \in UsedQueries : entry[q].guess => q \in PoolEntries
  BY DEF CacheInv, CacheTyped, EntrySound, GuessSound
<1>9. ASSUME NEW q \in UsedQueries
      PROVE  /\ entry'[q] \in CacheEntries
             /\ EntrySound(q, entry'[q], announced'[ResourceOf(q)], \E d \in Calls \ {c} : Optimistic(d))
  <2>1. PICK v : v = announced'[ResourceOf(q)]
    OBVIOUS
  <2>2. v = announced[ResourceOf(q)] \/ Matches(q, keys)
    BY <1>7, <2>1
  <2>3. entry[q].guess => q \in PoolEntries
    BY <1>8
  <2>4. /\ Invalidated(entry, keys)[q] \in CacheEntries
        /\ EntrySound(q, Invalidated(entry, keys)[q], v, \E d \in Calls \ {c} : Optimistic(d))
    BY <1>6, <1>8, <2>2, <2>3, InvalidatedSound
  <2> QED BY <1>4, <2>1, <2>4
<1>10. ASSUME NEW q \in UsedQueries
       PROVE  EntrySound(q, entry'[q], announced'[ResourceOf(q)],
                         Moving(k) \/ \E d \in Calls \ {c} : Optimistic(d))
  BY <1>2, <1>9
<1>11. entry' \in [UsedQueries -> CacheEntries]
  BY <1>4, <1>9 DEF Invalidated
<1> QED BY <1>2, <1>4, <1>5, <1>7, <1>10, <1>11, OneCall DEF CacheInv, CacheTyped

LEMMA ErrStep ==
    ASSUME CacheInv, NEW c \in Calls, Err(c)
    PROVE  CacheInv'
<1> DEFINE s == call[c].snapshot
           keys == AllMutations[call[c].hook].onSettled
<1>1. PICK restored : restored = [q \in UsedQueries |->
            IF q \in DOMAIN s /\ s[q] # NoData
            THEN [entry[q] EXCEPT !.data = s[q], !.stale = FALSE, !.guess = TRUE]
            ELSE entry[q]]
  OBVIOUS
<1>2. PICK k : k = [call[c] EXCEPT !.pc = "settled"]
  OBVIOUS
<1>3. k \in MutationCalls /\ CallSound(k) /\ ~Moving(k)
  BY <1>2, CallEnds
<1>4. Waiting(call[c]) /\ call[c].hook \in UsedMutations
  BY WaitingCall DEF Err, Waiting, CallSound
<1>5. /\ entry' = Invalidated(restored, keys) /\ call' = [call EXCEPT ![c] = k]
      /\ UNCHANGED <<server, announced>>
  BY <1>1, <1>2 DEF Err, Rule
<1>6. Moving(call[c]) => PoolKeys \subseteq keys
  BY <1>4, GuessesInvalidate DEF Moving
<1>7. DOMAIN s # {} => Moving(call[c])
  BY <1>4, WaitingCall DEF CallSound
<1>8. \A q \in DOMAIN s : s[q] \in Figures /\ q \in PoolEntries
  BY WaitingCall DEF CallSound, MutationCalls, Snapshots
<1> HIDE DEF s, keys
<1>9. ASSUME NEW q \in UsedQueries
      PROVE  /\ restored[q] \in CacheEntries
             /\ restored[q] = entry[q] \/ Matches(q, keys)
             /\ restored[q].fetch = entry[q].fetch /\ restored[q].answer = entry[q].answer
             /\ restored[q].overtaken = entry[q].overtaken
             /\ restored[q].guess => q \in PoolEntries
  <2>1. CASE q \in DOMAIN s /\ s[q] # NoData
    <3>1. PICK n \in Figures : n = s[q]
      BY <1>8, <2>1
    <3>2. restored[q] = [entry[q] EXCEPT !.data = n, !.stale = FALSE, !.guess = TRUE]
      BY <1>1, <2>1, <3>1
    <3>3. Matches(q, keys) /\ q \in PoolEntries
      BY <1>6, <1>7, <1>8, <2>1, FiguresMatch
    <3>4. /\ restored[q] \in CacheEntries /\ restored[q].fetch = entry[q].fetch
          /\ restored[q].answer = entry[q].answer /\ restored[q].overtaken = entry[q].overtaken
      BY <3>2, EntryFacts DEF CacheEntries
    <3> QED BY <3>3, <3>4
  <2>2. CASE ~(q \in DOMAIN s /\ s[q] # NoData)
    <3>1. restored[q] = entry[q]
      BY <1>1, <2>2
    <3> QED BY <3>1, EntryFacts DEF EntrySound, GuessSound
  <2> QED BY <2>1, <2>2
<1>10. restored \in [UsedQueries -> CacheEntries]
  BY <1>1, <1>9
<1>11. ASSUME NEW q \in UsedQueries
       PROVE  /\ entry'[q] \in CacheEntries
              /\ EntrySound(q, entry'[q], announced[ResourceOf(q)], \E d \in Calls \ {c} : Optimistic(d))
  <2>1. OptimisticRuns => (\E d \in Calls \ {c} : Optimistic(d)) \/ PoolKeys \subseteq keys
    BY <1>6, WaitingCall
  <2> QED BY <1>5, <1>9, <1>10, <2>1, InvalidatedSound
<1>12. ASSUME NEW q \in UsedQueries
       PROVE  EntrySound(q, entry'[q], announced[ResourceOf(q)],
                         Moving(k) \/ \E d \in Calls \ {c} : Optimistic(d))
  BY <1>3, <1>11
<1>13. entry' \in [UsedQueries -> CacheEntries]
  BY <1>5, <1>11 DEF Invalidated
<1> QED BY <1>3, <1>5, <1>12, <1>13, OneCall DEF CacheInv, CacheTyped

(* The page is reloaded.                                                   *)
LEMMA SessionEndsStep == ASSUME CacheInv, SessionEnds PROVE CacheInv'
<1>1. Empty \in CacheEntries
  BY DEF Empty, CacheEntries, Figures
<1>2. entry' = [q \in UsedQueries |-> Empty] /\ UNCHANGED <<server, announced>>
  BY DEF SessionEnds
<1>3. ASSUME NEW c \in Calls PROVE call'[c] \in MutationCalls /\ CallSound(call'[c])
  <2>1. CASE call[c].pc = "ready"
    <3>1. call'[c] = call[c]
      BY <2>1 DEF SessionEnds
    <3> QED BY <3>1, WaitingCall
  <2>2. CASE call[c].pc # "ready"
    <3>1. call'[c] = [call[c] EXCEPT !.pc = "settled"]
      BY <2>2 DEF SessionEnds
    <3> QED BY <3>1, CallEnds
  <2> QED BY <2>1, <2>2
<1>4. call' \in [Calls -> MutationCalls]
  BY <1>3 DEF SessionEnds
<1>5. \A q \in UsedQueries : EntrySound(q, entry'[q], announced'[ResourceOf(q)], OptimisticRuns')
  BY <1>2 DEF Empty, EntrySound, GuessSound, AnswerSound, DataSound
<1> QED BY <1>1, <1>2, <1>3, <1>4, <1>5 DEF CacheInv, CacheTyped

(* The invariant is inductive.                                             *)
LEMMA CacheInvHolds == CacheSpec => []CacheInv
<1>1. ASSUME CacheInv, [CacheNext]_cacheVars PROVE CacheInv'
  <2>1. ASSUME UNCHANGED <<server, entry, call, announced>> PROVE CacheInv'
    <3>1. OptimisticRuns' <=> OptimisticRuns
      BY <2>1 DEF OptimisticRuns, Optimistic, Running, Rule
    <3> QED BY <1>1, <2>1, <3>1 DEF CacheInv, CacheTyped, EntrySound, GuessSound
  <2>2. ASSUME NEW q \in UsedQueries,
               \/ MountQuery(q) \/ UnmountQuery(q) \/ GoesStale(q) \/ Refetch(q)
               \/ ReadAtServer(q) \/ FetchAnswered(q) \/ FetchFailed(q)
        PROVE  CacheInv'
    BY <1>1, <2>2, QuerySteps
  <2>3. ASSUME NEW c \in Calls,
               \/ onMutate(c) \/ ServerWrites(c) \/ Succeed(c) \/ Err(c)
               \/ \E hook \in UsedMutations : Mutate(c, hook)
        PROVE  CacheInv'
    BY <1>1, <2>3, onMutateStep, ServerWritesStep, SucceedStep, ErrStep, MutateStep
  <2>4. CASE SessionEnds
    BY <1>1, <2>4, SessionEndsStep
  <2>5. CASE ConnectScoreStream \/ ScoreStreamLost
    BY <2>1, <2>5 DEF ConnectScoreStream, ScoreStreamLost
  <2>6. CASE ScoreEventArrives
    <3> DEFINE keys == {<<"creditScore", Wallet>>}
    <3>1. entry' = Invalidated(entry, keys) /\ UNCHANGED <<server, call, announced>>
      BY <2>6 DEF ScoreEventArrives
    <3> HIDE DEF keys
    <3>2. entry \in [UsedQueries -> CacheEntries] /\ \A q \in UsedQueries : entry[q].guess => q \in PoolEntries
      BY <1>1 DEF CacheInv, CacheTyped, EntrySound, GuessSound
    <3>3. PICK moving \in BOOLEAN : moving <=> OptimisticRuns
      OBVIOUS
    <3>4. ASSUME NEW q \in UsedQueries
          PROVE  /\ entry'[q] \in CacheEntries
                 /\ EntrySound(q, entry'[q], announced[ResourceOf(q)], moving)
      BY <1>1, <3>1, <3>2, <3>3, InvalidatedSound
    <3>5. OptimisticRuns' <=> moving
      BY <3>1, <3>3 DEF OptimisticRuns, Optimistic, Running, Rule
    <3>6. entry' \in [UsedQueries -> CacheEntries]
      BY <3>1, <3>4 DEF Invalidated
    <3>7. \A q \in UsedQueries : EntrySound(q, entry'[q], announced[ResourceOf(q)], OptimisticRuns')
      BY <3>4, <3>5 DEF EntrySound, GuessSound
    <3> QED BY <1>1, <3>1, <3>6, <3>7 DEF CacheInv, CacheTyped
  <2>7. ASSUME NEW r \in Resources, ForeignWrite(r) PROVE CacheInv'
    <3>1. server' \in [Resources -> Nat] /\ \A s \in Resources : announced[s] <= server'[s]
      BY <1>1, <2>7 DEF ForeignWrite, CacheInv, CacheTyped
    <3>2. UNCHANGED <<entry, call, announced>>
      BY <2>7 DEF ForeignWrite
    <3>3. OptimisticRuns' <=> OptimisticRuns
      BY <3>2 DEF OptimisticRuns, Optimistic, Running, Rule
    <3> QED BY <1>1, <3>1, <3>2, <3>3 DEF CacheInv, CacheTyped, EntrySound, GuessSound
  <2>8. CASE UNCHANGED cacheVars
    BY <2>1, <2>8 DEF cacheVars
  <2> QED BY <1>1, <2>2, <2>3, <2>4, <2>5, <2>6, <2>7, <2>8 DEF CacheNext
<1> QED BY <1>1, CacheStarts, PTL DEF CacheSpec

(* GuessesAreProvisional for any hooks of the tables on any pages, and any *)
(* number of calls, failures, visits and writes of others.                 *)
THEOREM GuessesAlwaysProvisional == CacheSpec => []GuessesAreProvisional
BY CacheInvHolds, CacheInvGives, PTL

(* WritesReachScreens for the same: every query of the tables is matched   *)
(* by the invalidations of every hook that announces a write it shows.     *)
THEOREM WritesAlwaysReachScreens == CacheSpec => []WritesReachScreens
BY CacheInvHolds, CacheInvGives, PTL
==============================================================================
