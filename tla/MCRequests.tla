----------------------------- MODULE MCRequests -----------------------------
(***************************************************************************)
(* A small instance of the API's request handling: limiters, access,       *)
(* idempotency keys, transactions, remittances, pages, loan and pool views *)
(* and the money policy.  The modules have no variable in common: a        *)
(* behaviour of this instance exercises one of them, which leaves out no   *)
(* behaviour of any.                                                       *)
(***************************************************************************)
EXTENDS RequestGates, Access, Idempotency, TransactionApi, Remittances, Paging, PoolView

OwnerOfChallenge == [c \in Challenges |-> "w1"]
RolesAtFirst == [w \in Wallets |-> IF w = "w1" THEN "admin" ELSE "borrower"]

(* Three calls under one key, two of them with the same body.              *)
OneKey == [c \in Calls |-> "k"]
Prints == [c \in Calls |-> IF c = "c3" THEN "q" ELSE "p"]

(* Two score updates of one user and an administrative job, all from one   *)
(* address.                                                                *)
Routes == [g1 |-> "scoreUpdate", g2 |-> "scoreUpdate", g3 |-> "adminJob"]
OneAddress == [r \in Gated |-> "ip"]
OneUser == [r \in Gated |-> "w1"]
Limits == [global |-> 2, scoreUpdate |-> 2, strict |-> 1]

Init ==
    /\ AccessInit /\ IdempotencyInit /\ ApiInit /\ RemittanceInit /\ PagingInit
    /\ LoanViewInit /\ PoolViewInit /\ MoneyInit /\ GatesInit

Next ==
    \/ /\ IdempotencyInit /\ ApiInit /\ RemittanceInit /\ PagingInit
       /\ LoanViewInit /\ PoolViewInit /\ MoneyInit /\ GatesInit
       /\ AccessNext
       /\ UNCHANGED <<idempotencyVars, apiVars, remittanceVars, pagingVars,
                      loanViewVars, poolViewVars, moneyVars, gateVars>>
    \/ /\ AccessInit /\ ApiInit /\ RemittanceInit /\ PagingInit
       /\ LoanViewInit /\ PoolViewInit /\ MoneyInit /\ GatesInit
       /\ IdempotencyNext
       /\ UNCHANGED <<accessVars, apiVars, remittanceVars, pagingVars,
                      loanViewVars, poolViewVars, moneyVars, gateVars>>
    \/ /\ AccessInit /\ IdempotencyInit /\ RemittanceInit /\ PagingInit
       /\ LoanViewInit /\ PoolViewInit /\ MoneyInit /\ GatesInit
       /\ ApiNext
       /\ UNCHANGED <<accessVars, idempotencyVars, remittanceVars, pagingVars,
                      loanViewVars, poolViewVars, moneyVars, gateVars>>
    \/ /\ AccessInit /\ IdempotencyInit /\ ApiInit /\ PagingInit
       /\ LoanViewInit /\ PoolViewInit /\ MoneyInit /\ GatesInit
       /\ RemittanceNext
       /\ UNCHANGED <<accessVars, idempotencyVars, apiVars, pagingVars,
                      loanViewVars, poolViewVars, moneyVars, gateVars>>
    \/ /\ AccessInit /\ IdempotencyInit /\ ApiInit /\ RemittanceInit
       /\ LoanViewInit /\ PoolViewInit /\ MoneyInit /\ GatesInit
       /\ PagingNext
       /\ UNCHANGED <<accessVars, idempotencyVars, apiVars, remittanceVars,
                      loanViewVars, poolViewVars, moneyVars, gateVars>>
    \/ /\ AccessInit /\ IdempotencyInit /\ ApiInit /\ RemittanceInit
       /\ PagingInit /\ PoolViewInit /\ MoneyInit /\ GatesInit
       /\ LoanViewNext
       /\ UNCHANGED <<accessVars, idempotencyVars, apiVars, remittanceVars,
                      pagingVars, poolViewVars, moneyVars, gateVars>>
    \/ /\ AccessInit /\ IdempotencyInit /\ ApiInit /\ RemittanceInit
       /\ PagingInit /\ LoanViewInit /\ MoneyInit /\ GatesInit
       /\ PoolViewNext
       /\ UNCHANGED <<accessVars, idempotencyVars, apiVars, remittanceVars,
                      pagingVars, loanViewVars, moneyVars, gateVars>>
    \/ /\ AccessInit /\ IdempotencyInit /\ ApiInit /\ RemittanceInit
       /\ PagingInit /\ LoanViewInit /\ PoolViewInit /\ GatesInit
       /\ MoneyNext
       /\ UNCHANGED <<accessVars, idempotencyVars, apiVars, remittanceVars,
                      pagingVars, loanViewVars, poolViewVars, gateVars>>
    \/ /\ AccessInit /\ IdempotencyInit /\ ApiInit /\ RemittanceInit
       /\ PagingInit /\ LoanViewInit /\ PoolViewInit /\ MoneyInit
       /\ GatesNext
       /\ UNCHANGED <<accessVars, idempotencyVars, apiVars, remittanceVars,
                      pagingVars, loanViewVars, poolViewVars, moneyVars>>

Spec ==
    /\ Init
    /\ [][Next]_<<accessVars, idempotencyVars, apiVars, remittanceVars, pagingVars,
                  loanViewVars, poolViewVars, moneyVars, gateVars>>
=============================================================================
