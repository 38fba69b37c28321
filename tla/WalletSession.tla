--------------------------- MODULE WalletSession ----------------------------
(***************************************************************************)
(* The wallet of one browser tab: WalletProvider.tsx synchronises the      *)
(* Freighter extension with the persisted store of useWalletStore.ts in    *)
(* several awaited steps, while the user connects, disconnects, switches   *)
(* accounts or networks, logs out (useLogout.ts, lib/session.ts) or        *)
(* reloads the page.  Balances are named by the account they belong to.    *)
(***************************************************************************)
EXTENDS Naturals, FiniteSets

CONSTANTS
    Accounts, NoAccount,
    Syncs,              \* calls of syncWallet
    MaxWalletEvents     \* bounds what the user and the extension do

ASSUME WalletConstants == Accounts # {} /\ NoAccount \notin Accounts

VARIABLES
    store,              \* useWalletStore
    extension,          \* Freighter: [account, supported]
    sync,               \* call -> [pc, interactive, address, supported]
    cutShort,           \* a sync was lost in a reload, none has ended since
    walletEvents

walletVars == <<store, extension, sync, cutShort, walletEvents>>

initialState ==
    [status |-> "disconnected", address |-> NoAccount, supported |-> TRUE,
     balances |-> NoAccount, loading |-> FALSE, auto |-> FALSE]

NoSync == [pc |-> "none", interactive |-> FALSE, address |-> NoAccount, supported |-> TRUE]

WalletInit ==
    /\ store = initialState
    /\ extension = [account |-> CHOOSE a \in Accounts : TRUE, supported |-> TRUE]
    /\ sync = [s \in Syncs |-> NoSync]
    /\ cutShort = FALSE
    /\ walletEvents = 0

Happens == walletEvents < MaxWalletEvents /\ walletEvents' = walletEvents + 1

------------------------------------------------------------------------------
(* syncWallet: one at a time, later callers join the one under way.        *)

(* Fault: syncRef is not consulted.                                        *)
MaySync_Faulty(s) == sync[s].pc = "none"

MaySync(s) == \A t \in Syncs : sync[t].pc = "none"

(* A caller starts a sync, or joins the running one and starts nothing.    *)
syncWallet(interactive) ==
    \/ \E s \in Syncs :
          /\ MaySync(s)
          /\ sync' = [sync EXCEPT ![s] = [NoSync EXCEPT !.pc = "address", !.interactive = interactive]]
    \/ ~(\E s \in Syncs : MaySync(s)) /\ UNCHANGED sync

EndSync(s) == sync' = [sync EXCEPT ![s] = NoSync] /\ cutShort' = FALSE

(* An interactive caller is told and disconnected; a silent one is not.    *)
syncFails(s) ==
    /\ sync[s].pc \in {"address", "network"}
    /\ store' = IF sync[s].interactive THEN [initialState EXCEPT !.status = "error"] ELSE store
    /\ sync' = [sync EXCEPT ![s] = NoSync]
    /\ UNCHANGED <<extension, cutShort, walletEvents>>

(* requestAccess or getAddress answers; a locked extension has no address. *)
syncAddress(s) ==
    /\ sync[s].pc = "address"
    /\ IF extension.account = NoAccount
       THEN /\ store' = IF sync[s].interactive THEN [initialState EXCEPT !.status = "error"]
                        ELSE initialState
            /\ sync' = [sync EXCEPT ![s] = NoSync]
       ELSE /\ sync' = [sync EXCEPT ![s].pc = "network", ![s].address = extension.account]
            /\ UNCHANGED store
    /\ UNCHANGED <<extension, cutShort, walletEvents>>

(* setConnected, setNetwork, setStatus, setError, setLoadingBalances: the  *)
(* balances of the account shown before stay until the new ones arrive.    *)
syncNetwork(s) ==
    /\ sync[s].pc = "network"
    /\ store' = [store EXCEPT !.address = sync[s].address, !.supported = extension.supported,
                              !.status = IF extension.supported THEN "connected" ELSE "error",
                              !.auto = TRUE, !.loading = TRUE]
    /\ sync' = [sync EXCEPT ![s].pc = "balances", ![s].supported = extension.supported]
    /\ UNCHANGED <<extension, cutShort, walletEvents>>

(* Horizon answers, knows no such account, or fails.                       *)
refreshBalances(s) ==
    /\ sync[s].pc = "balances"
    /\ \E answer \in {"balances", "404", "error"} :
          store' = [store EXCEPT
              !.balances = IF answer = "balances" THEN sync[s].address ELSE NoAccount,
              !.loading = FALSE,
              !.status = IF answer = "404" THEN @
                         ELSE IF sync[s].supported THEN "connected" ELSE "error"]
    /\ EndSync(s)
    /\ UNCHANGED <<extension, walletEvents>>

------------------------------------------------------------------------------
(* The user and the extension.                                             *)

connectWallet ==
    /\ Happens
    /\ store' = [store EXCEPT !.status = "connecting", !.loading = FALSE]
    /\ syncWallet(TRUE)
    /\ UNCHANGED <<extension, cutShort>>

refreshWallet ==
    IF store.auto \/ store.address # NoAccount THEN syncWallet(FALSE) ELSE UNCHANGED sync

disconnectWallet ==
    /\ Happens
    /\ store' = initialState
    /\ UNCHANGED <<extension, sync, cutShort>>

(* useLogout: the router replaces the page, so a sync stays under way.     *)
logout == disconnectWallet

(* watchAddress: another account, or none.                                 *)
accountChanges(a) ==
    /\ Happens /\ a # extension.account
    /\ extension' = [extension EXCEPT !.account = a]
    /\ IF a = NoAccount /\ store.address # NoAccount THEN store' = initialState /\ UNCHANGED sync
       ELSE /\ UNCHANGED store
            /\ IF a # NoAccount /\ a # store.address THEN refreshWallet ELSE UNCHANGED sync
    /\ UNCHANGED cutShort

(* watchNetwork.                                                           *)
networkChanges ==
    /\ Happens
    /\ extension' = [extension EXCEPT !.supported = ~@]
    /\ refreshWallet
    /\ UNCHANGED <<store, cutShort>>

(* The effect that runs on mount, and again when shouldAutoReconnect       *)
(* changes.                                                                *)
autoReconnect ==
    /\ Happens /\ store.auto
    /\ refreshWallet
    /\ UNCHANGED <<store, extension, cutShort>>

(* The page is loaded anew: a sync is lost, the persisted fields are not.  *)
reload ==
    /\ Happens
    /\ store' = [store EXCEPT !.loading = FALSE]
    /\ cutShort' = (cutShort \/ \E s \in Syncs : sync[s].pc # "none")
    /\ sync' = [s \in Syncs |-> NoSync]
    /\ UNCHANGED extension

(* logoutUser: the stores are cleared and the location assigned.           *)
logoutUser ==
    /\ Happens
    /\ store' = initialState
    /\ sync' = [s \in Syncs |-> NoSync]
    /\ cutShort' = FALSE
    /\ UNCHANGED extension

WalletNext ==
    \/ \E s \in Syncs : syncAddress(s) \/ syncNetwork(s) \/ refreshBalances(s) \/ syncFails(s)
    \/ connectWallet
    \/ disconnectWallet
    \/ logout
    \/ \E a \in Accounts \cup {NoAccount} : accountChanges(a)
    \/ networkChanges
    \/ autoReconnect
    \/ reload
    \/ logoutUser

WalletSpec == WalletInit /\ [][WalletNext]_walletVars

------------------------------------------------------------------------------
(* With no sync under way, the balances beside an address are that         *)
(* account's own, nothing is shown as loading, and "connected" stands only *)
(* beside a network the application supports: whatever was connected,      *)
(* switched or disconnected while a sync was waiting, unless a reload      *)
(* interrupted one and none has ended since.                               *)
ShownWalletIsOne ==
    (/\ \A s \in Syncs : sync[s].pc = "none"
     /\ ~cutShort
     /\ store.address # NoAccount) =>
        /\ store.balances \in {NoAccount, store.address}
        /\ ~store.loading
        /\ store.status = "connected" => store.supported
==============================================================================
