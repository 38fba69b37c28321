--------------------------- MODULE GovernanceProofs ---------------------------
(***************************************************************************)
(* The hand-over of the admin role, proved for any addresses, lists of     *)
(* signers, thresholds, delays and times.                                  *)
(***************************************************************************)
EXTENDS Governance, FiniteSetTheorems, TLAPS

(* What is stored of a live proposal: its number has a row of votes, the   *)
(* approvals counted are votes of its signers for this number, and its     *)
(* timelock was checked when it was proposed.                              *)
ProposalSound ==
    Active =>
        /\ pending.id \in 1..MaxProposals
        /\ IsFiniteSet(pending.signers)
        /\ pending.approvals \subseteq votes[pending.id] \cap pending.signers
        /\ pending.threshold \in Nat
        /\ pending.proposed_at \in Nat /\ pending.executable_after \in Nat
        /\ pending.executable_after >= pending.proposed_at + MIN_TIMELOCK_SECONDS
        /\ pending.proposed_admin # NoAddress

(* The counter is reset by initialize, which can only run before the first *)
(* proposal.                                                               *)
GovernanceInv ==
    /\ now \in Nat
    /\ proposalCount \in 0..MaxProposals
    /\ votes \in [1..MaxProposals -> SUBSET Addresses]
    /\ ProposalSound

LEMMA GovernanceStarts == Init => GovernanceInv
<1> SUFFICES ASSUME Init PROVE GovernanceInv
  OBVIOUS
<1>1. pending.status = "None"
  BY DEF Init, NoProposal
<1> QED BY <1>1, GovernanceConstants DEF Init, GovernanceInv, ProposalSound, Active

(* A step that leaves the proposal and the votes alone.                    *)
LEMMA ProposalKept ==
    ASSUME GovernanceInv, UNCHANGED <<pending, votes>>,
           now' \in Nat, proposalCount' \in 0..MaxProposals
    PROVE  GovernanceInv'
BY DEF GovernanceInv, ProposalSound, Active

(* A step that leaves no live proposal behind.                             *)
LEMMA ProposalGone ==
    ASSUME GovernanceInv, pending'.status # "Active", UNCHANGED <<now, proposalCount, votes>>
    PROVE  GovernanceInv'
BY DEF GovernanceInv, ProposalSound, Active

LEMMA ProposeSound ==
    ASSUME GovernanceInv, NEW a \in Addresses \cup {Self}, NEW list \in SignerLists,
           NEW threshold \in Thresholds, NEW delay \in Delays,
           ProposeAdminTransfer(a, list, threshold, delay)
    PROVE  GovernanceInv'
<1>1. list \in Seq(Addresses) /\ threshold \in Nat /\ delay \in Nat /\ a # NoAddress
  BY GovernanceConstants
<1>2. Listed(list) \subseteq Addresses
  BY <1>1 DEF Listed
<1>3. IsFiniteSet(Listed(list))
  BY <1>2, GovernanceConstants, FS_Subset
<1>4. /\ pending' = Proposal(a, list, threshold, delay)
      /\ proposalCount' = proposalCount + 1 /\ proposalCount < MaxProposals
      /\ UNCHANGED <<now, votes>> /\ delay >= MIN_TIMELOCK_SECONDS
  BY GovernanceConstants, <1>1 DEF ProposeAdminTransfer, DelayAllowed, MAX_TIMELOCK_SECONDS
<1>5. /\ pending'.id = proposalCount + 1 /\ pending'.signers = Listed(list)
      /\ pending'.approvals = {} /\ pending'.threshold = threshold
      /\ pending'.proposed_at = now /\ pending'.executable_after = now + delay
      /\ pending'.proposed_admin = a
  BY <1>4 DEF Proposal
<1>6. /\ now \in Nat /\ proposalCount \in Nat /\ MaxProposals \in Nat
      /\ MIN_TIMELOCK_SECONDS \in Nat
  BY GovernanceConstants DEF GovernanceInv
<1>7. now + delay >= now + MIN_TIMELOCK_SECONDS /\ now + delay \in Nat
  BY <1>1, <1>4, <1>6
<1>8. ProposalSound'
  BY <1>1, <1>3, <1>4, <1>5, <1>6, <1>7 DEF ProposalSound, Active
<1> QED BY <1>4, <1>6, <1>8 DEF GovernanceInv

LEMMA ApproveSound ==
    ASSUME GovernanceInv, NEW signer \in Addresses, ApproveTransfer(signer)
    PROVE  GovernanceInv'
<1>1. /\ Active /\ signer \in pending.signers
      /\ pending' = [pending EXCEPT !.approvals = @ \cup {signer}]
      /\ votes' = [votes EXCEPT ![pending.id] = @ \cup {signer}]
      /\ UNCHANGED <<now, proposalCount>>
  BY DEF ApproveTransfer
<1>2. /\ pending.id \in 1..MaxProposals
      /\ pending.approvals \subseteq votes[pending.id] \cap pending.signers
  BY <1>1 DEF GovernanceInv, ProposalSound
<1>3. votes' \in [1..MaxProposals -> SUBSET Addresses]
  BY <1>1, <1>2 DEF GovernanceInv
<1>4. votes'[pending.id] = votes[pending.id] \cup {signer}
  BY <1>1, <1>2 DEF GovernanceInv
<1>5. ProposalSound'
  <2> SUFFICES ASSUME Active' PROVE ProposalSound'
    BY DEF ProposalSound
  <2>1. /\ pending'.id = pending.id /\ pending'.signers = pending.signers
        /\ pending'.threshold = pending.threshold
        /\ pending'.proposed_at = pending.proposed_at
        /\ pending'.executable_after = pending.executable_after
        /\ pending'.proposed_admin = pending.proposed_admin
    BY <1>1
  <2>2. pending'.approvals \subseteq pending.approvals \cup {signer}
    BY <1>1
  <2> QED BY <1>1, <1>2, <1>4, <2>1, <2>2 DEF GovernanceInv, ProposalSound
<1> QED BY <1>1, <1>3, <1>5 DEF GovernanceInv

(* Every step keeps the invariant, and the role moves in                   *)
(* finalize_admin_transfer alone.                                          *)
LEMMA GovernanceStep == GovernanceInv /\ [Next]_vars => GovernanceInv' /\ [Mandated]_vars
<1> SUFFICES ASSUME GovernanceInv, [Next]_vars PROVE GovernanceInv' /\ [Mandated]_vars
  OBVIOUS
<1>1. ASSUME NEW a \in Addresses \cup {Self}, NEW list \in SignerLists,
             NEW threshold \in Thresholds, NEW delay \in Delays,
             ProposeAdminTransfer(a, list, threshold, delay)
      PROVE  GovernanceInv' /\ [Mandated]_vars
  BY <1>1, ProposeSound DEF ProposeAdminTransfer, Mandated, AdminHandedOver
<1>2. ASSUME NEW a \in Addresses, Initialize(a) PROVE GovernanceInv' /\ [Mandated]_vars
  <2>1. 0 \in 0..MaxProposals
    BY GovernanceConstants
  <2>2. now' \in Nat /\ proposalCount' \in 0..MaxProposals
    BY <1>2, <2>1 DEF Initialize, GovernanceInv
  <2> QED BY <1>2, <2>2, ProposalKept DEF Initialize, Mandated, AdminHandedOver
<1>3. ASSUME NEW a \in Addresses, ApproveTransfer(a) PROVE GovernanceInv' /\ [Mandated]_vars
  BY <1>3, ApproveSound DEF ApproveTransfer, Mandated, AdminHandedOver
<1>4. ASSUME NEW a \in Addresses, FinalizeAdminTransfer(a) PROVE GovernanceInv' /\ [Mandated]_vars
  <2>1. pending'.status # "Active"
    BY <1>4 DEF FinalizeAdminTransfer, NoProposal
  <2>2. GovernanceInv'
    BY <1>4, <2>1, ProposalGone DEF FinalizeAdminTransfer
  <2>3. /\ Active /\ now >= pending.executable_after /\ now < expiry_time
        /\ Cardinality(pending.approvals) >= pending.threshold
        /\ admin' = pending.proposed_admin /\ targetAdmin' = admin'
    BY <1>4 DEF FinalizeAdminTransfer, InWindow, QuorumMet
  <2>4. /\ pending.proposed_at \in Nat /\ pending.executable_after \in Nat
        /\ pending.executable_after >= pending.proposed_at + MIN_TIMELOCK_SECONDS
        /\ now \in Nat /\ pending.threshold \in Nat
        /\ IsFiniteSet(pending.signers)
        /\ pending.approvals \subseteq votes[pending.id] \cap pending.signers
    BY <2>3 DEF GovernanceInv, ProposalSound
  <2>5. MIN_TIMELOCK_SECONDS \in Nat /\ PROPOSAL_TTL_SECONDS \in Nat
    BY GovernanceConstants
  <2>6. now \in (pending.proposed_at + MIN_TIMELOCK_SECONDS)..(expiry_time - 1)
    BY <2>3, <2>4, <2>5 DEF expiry_time
  <2>7. PICK voted : voted = votes[pending.id] \cap pending.signers
    OBVIOUS
  <2>8. IsFiniteSet(voted)
    <3>1. voted \subseteq pending.signers
      BY <2>7
    <3> QED BY <2>4, <3>1, FS_Subset
  <2>9. /\ Cardinality(pending.approvals) <= Cardinality(voted)
        /\ Cardinality(pending.approvals) \in Nat /\ Cardinality(voted) \in Nat
    <3>1. pending.approvals \subseteq voted
      BY <2>4, <2>7
    <3>2. IsFiniteSet(pending.approvals) /\ Cardinality(pending.approvals) <= Cardinality(voted)
      BY <2>8, <3>1, FS_Subset
    <3> QED BY <2>8, <3>2, FS_CardinalityType
  <2>10. Cardinality(voted) >= pending.threshold
    BY <2>3, <2>4, <2>9
  <2> QED BY <2>2, <2>3, <2>6, <2>7, <2>10 DEF Mandated, Active
<1>5. ASSUME NEW a \in Addresses, TargetHandsOver(a) PROVE GovernanceInv' /\ [Mandated]_vars
  BY <1>5, ProposalKept DEF TargetHandsOver, GovernanceInv, Mandated, AdminHandedOver
<1>6. ASSUME MarkCancelled PROVE GovernanceInv' /\ [Mandated]_vars
  <2>1. Active /\ pending' = [pending EXCEPT !.status = "Cancelled"]
    BY <1>6 DEF MarkCancelled
  <2>2. pending'.status # "Active"
    BY <2>1 DEF Active
  <2> QED BY <1>6, <2>2, ProposalGone DEF MarkCancelled, Mandated, AdminHandedOver
<1>7. ASSUME ExpireProposal PROVE GovernanceInv' /\ [Mandated]_vars
  <2>1. pending'.status # "Active"
    BY <1>7 DEF ExpireProposal, NoProposal
  <2> QED BY <1>7, <2>1, ProposalGone DEF ExpireProposal, Mandated, AdminHandedOver
<1>8. ASSUME Tick PROVE GovernanceInv' /\ [Mandated]_vars
  BY <1>8, ProposalKept DEF Tick, GovernanceInv, Mandated, AdminHandedOver
<1>9. ASSUME UNCHANGED vars PROVE GovernanceInv' /\ [Mandated]_vars
  BY <1>9, ProposalKept DEF vars, GovernanceInv
<1> QED
  BY <1>1, <1>2, <1>3, <1>4, <1>5, <1>6, <1>7, <1>8, <1>9
  DEF Next, ProposerNext, CallerNext, CancelNext, CancelAdminTransfer, EmergencyCancelProposal

(* The admin role of the governance contract, once given, moves only to    *)
(* the address a live proposal names, inside its window of timelock and    *)
(* expiry, with the threshold of its own signers having voted for this     *)
(* proposal, and together with the target's.                               *)
THEOREM HandoversAreMandated == Spec => HandoverIsMandated
<1>1. Init => GovernanceInv
  BY GovernanceStarts
<1>2. GovernanceInv /\ [Next]_vars => GovernanceInv' /\ [Mandated]_vars
  BY GovernanceStep
<1> QED BY <1>1, <1>2, PTL DEF Spec, HandoverIsMandated
==============================================================================
