-------------------------- MODULE MCRemittanceNFT --------------------------
(***************************************************************************)
(* A small instance of RemittanceNFT.  A behaviour belongs to one of two   *)
(* slices, chosen initially: the identities of two addresses, one of them  *)
(* with a version-1 score, over time and under one minter; or all score    *)
(* writers on one address while two minters come and go.                   *)
(***************************************************************************)
EXTENDS RemittanceNFT

CONSTANTS u1, u2, a1, a2

VARIABLE slice

UpAndDown == {-2, 1}

ScoreBlind ==
    \/ AdminNext \/ IdentityNext \/ CloseLedger
    \/ \E u \in Users :
          \/ \E n \in Penalties : DecreaseScore(u, n)
          \/ \E uri \in Uris : UpdateMetadataUri(u, uri)

SliceNext ==
    \/ /\ slice = "identities"
       /\ ScoreBlind
       /\ minters' \subseteq {a1} /\ admin' # a2 /\ proposedAdmin' = NoAddress
       /\ minRepaymentAmount' = 0
       /\ \A u \in Users : documents'[u].hash = ZeroHash
    \/ /\ slice = "scores"
       /\ AdminNext \/ IdentityNext \/ WriteNext
       /\ UNCHANGED <<burnThreshold, busy, nft[u2], documents[u2]>>
       /\ u2 \notin remintApproval'

SliceInit == Init /\ slice \in {"identities", "scores"}

SliceSpec == SliceInit /\ [][SliceNext /\ UNCHANGED slice]_<<vars, slice>>
============================================================================
