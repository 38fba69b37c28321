----------------------------- MODULE MCGovernance -----------------------------
(* Small instances of Governance for TLC.                                  *)
EXTENDS Governance

CONSTANTS a1, a2, s1

(* A single signer, a pair, a list with a duplicate, and an empty one.     *)
MCSignerLists == {<<>>, <<s1>>, <<a1, s1>>, <<s1, s1>>}
==============================================================================
