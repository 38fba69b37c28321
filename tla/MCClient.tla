------------------------------ MODULE MCClient ------------------------------
(***************************************************************************)
(* A small instance of the browser side: the cache of API answers, the     *)
(* flows that spend money and the wallet.  They have no variable in common *)
(* (a flow's invalidations are mutation hooks of the cache, its signature  *)
(* is the extension's): a behaviour of this instance exercises one of      *)
(* them, which leaves out no behaviour of any.                             *)
(***************************************************************************)
EXTENDS QueryCache, ClientFlows, WalletSession

OneHookPages == {{q} : q \in UsedQueries}

Init == CacheInit /\ FlowInit /\ WalletInit

Next ==
    \/ FlowInit /\ WalletInit /\ CacheNext /\ UNCHANGED <<flowVars, walletVars>>
    \/ CacheInit /\ WalletInit /\ FlowNext /\ UNCHANGED <<cacheVars, walletVars>>
    \/ CacheInit /\ FlowInit /\ WalletNext /\ UNCHANGED <<cacheVars, flowVars>>

Spec == Init /\ [][Next]_<<cacheVars, flowVars, walletVars>> /\ FlowFairness
==============================================================================
