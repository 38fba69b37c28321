----------------------------- MODULE Reputation -----------------------------
(***************************************************************************)
(* The reputation that contracts/remittance_nft keeps for one address, and *)
(* what its entry points make of it.  RemittanceNFT is the contract that   *)
(* stores these records; LoanManager calls the contract and so applies the *)
(* same operators.                                                         *)
(*                                                                         *)
(*   active    the Metadata key (or the legacy Score key) is present       *)
(*   score     RemittanceMetadata::score, 0 when there is no NFT           *)
(*   seized    the Seized key is present                                   *)
(*   defaults  DefaultCount, 0 when absent                                 *)
(*   burned    the Burned key is present                                   *)
(*                                                                         *)
(* A legacy Score entry reads as metadata with empty documents and every   *)
(* entry point migrates it before use, so both are `active' here.          *)
(* An operator whose name ends in Faulty is a seeded fault no              *)
(* specification uses (see PROJECT.json, mutants).                         *)
(***************************************************************************)
EXTENDS Naturals, Integers

CONSTANTS MIN_CREDIT_SCORE, MAX_SCORE

ASSUME ScoreConstants ==
    /\ MIN_CREDIT_SCORE \in Nat \ {0}
    /\ MAX_SCORE \in Nat
    /\ MIN_CREDIT_SCORE <= MAX_SCORE

Reputations ==
    [active : BOOLEAN, score : 0..MAX_SCORE, seized : BOOLEAN,
     defaults : Nat, burned : BOOLEAN]

NoNFT == [active |-> FALSE, score |-> 0, seized |-> FALSE, defaults |-> 0,
          burned |-> FALSE]

clamp(x, low, high) == IF x < low THEN low ELSE IF x > high THEN high ELSE x

minted(initial_score) ==
    [NoNFT EXCEPT !.active = TRUE,
                  !.score = clamp(initial_score, MIN_CREDIT_SCORE, MAX_SCORE)]

get_score(r) == r.score

burn_internal(r) == [NoNFT EXCEPT !.burned = TRUE]

decrease_score(r, penalty_points) ==
    IF ~r.active THEN r
    ELSE [r EXCEPT !.score = clamp(@ - penalty_points, MIN_CREDIT_SCORE, MAX_SCORE)]

apply_score_delta(r, delta) == [r EXCEPT !.score = clamp(@ + delta, 0, MAX_SCORE)]

record_default(r, burn_threshold) ==
    IF ~r.active THEN r
    ELSE IF r.defaults + 1 >= burn_threshold THEN burn_internal(r)
    ELSE [r EXCEPT !.defaults = @ + 1, !.seized = TRUE]
=============================================================================
