------------------------------ MODULE Governance ------------------------------
(***************************************************************************)
(* The contract contracts/multisig_governance: a time-locked, quorum-      *)
(* approved transfer of the admin role of a target contract.               *)
(*                                                                         *)
(* The target's set_admin (lending_pool, remittance_nft) is external: it   *)
(* needs the authorisation of the target's current admin, which this       *)
(* contract gives as the invoker when it is that admin, and which whoever  *)
(* signed the call of finalize_admin_transfer gives when that is the       *)
(* admin.                                                                  *)
(*                                                                         *)
(* `votes' is a history variable: the signers that ever approved a         *)
(* proposal id.  No action reads it.                                       *)
(***************************************************************************)
EXTENDS Integers, FiniteSets, Sequences

CONSTANTS
    Addresses,              \* admins, signers and callers
    Self,                   \* this contract's address
    NoAddress,
    SignerLists,            \* the lists of signers a proposer may pass
    Thresholds, Delays,     \* u32 thresholds and u64 delays it may pass
    MIN_TIMELOCK_SECONDS, PROPOSAL_TTL_SECONDS, MAX_SIGNERS,
    REPROPOSAL_COOLDOWN_SECONDS,
    MaxProposals,           \* bound on KEY_PROPOSAL_COUNT
    MaxTime                 \* bound on the ledger timestamp

MAX_TIMELOCK_SECONDS == PROPOSAL_TTL_SECONDS - 1

ASSUME GovernanceConstants ==
    /\ IsFiniteSet(Addresses) /\ NoAddress \notin Addresses /\ Self \notin Addresses
    /\ Self # NoAddress
    /\ SignerLists \subseteq Seq(Addresses)
    /\ Thresholds \subseteq Nat /\ Delays \subseteq Nat
    /\ MIN_TIMELOCK_SECONDS \in Nat /\ PROPOSAL_TTL_SECONDS \in Nat \ {0}
    /\ MIN_TIMELOCK_SECONDS < PROPOSAL_TTL_SECONDS
    /\ MAX_SIGNERS \in Nat /\ REPROPOSAL_COOLDOWN_SECONDS \in Nat
    /\ MaxProposals \in Nat /\ MaxTime \in Nat

VARIABLES
    now,                    \* the ledger timestamp
    admin,                  \* KEY_ADMIN
    pending,                \* KEY_PENDING, NoProposal when absent
    lastCancelledAt,        \* KEY_LAST_CANCELLED_AT, Never when absent
    proposalCount,          \* KEY_PROPOSAL_COUNT
    targetAdmin,            \* the admin key of the target contract
    votes                   \* history: proposal id -> who approved it

vars == <<now, admin, pending, lastCancelledAt, proposalCount, targetAdmin, votes>>

Never == -1

NoProposal == [id |-> 0, proposed_admin |-> NoAddress, signers |-> {}, threshold |-> 0,
               executable_after |-> 0, approvals |-> {}, proposed_at |-> 0,
               status |-> "None"]

Active == pending.status = "Active"

Listed(list) == {list[i] : i \in 1..Len(list)}

expiry_time == pending.proposed_at + PROPOSAL_TTL_SECONDS

------------------------------------------------------------------------------
Initialize(a) ==
    /\ admin = NoAddress
    /\ admin' = a
    /\ proposalCount' = 0
    /\ UNCHANGED <<now, pending, lastCancelledAt, targetAdmin, votes>>

(* read_admin and require_auth: this contract signs no call of its own, so *)
(* nobody acts for an admin that is this contract itself.                  *)
AdminSigns == admin \in Addresses

CooldownOver == lastCancelledAt # Never =>
                    now >= lastCancelledAt + REPROPOSAL_COOLDOWN_SECONDS

(* A non-empty list without duplicates, and a threshold it can reach.      *)
QuorumAllowed(list, threshold) ==
    /\ Len(list) \in 1..MAX_SIGNERS
    /\ Cardinality(Listed(list)) = Len(list)
    /\ threshold \in 1..Len(list)

DelayAllowed(delay) == delay \in MIN_TIMELOCK_SECONDS..MAX_TIMELOCK_SECONDS

Proposal(a, list, threshold, delay) ==
    [id |-> proposalCount + 1, proposed_admin |-> a, signers |-> Listed(list),
     threshold |-> threshold, executable_after |-> now + delay,
     approvals |-> {}, proposed_at |-> now, status |-> "Active"]

ProposeAdminTransfer(a, list, threshold, delay) ==
    /\ AdminSigns
    /\ ~Active
    /\ CooldownOver
    /\ QuorumAllowed(list, threshold)
    /\ DelayAllowed(delay)
    /\ proposalCount < MaxProposals
    /\ pending' = Proposal(a, list, threshold, delay)
    /\ proposalCount' = proposalCount + 1
    /\ UNCHANGED <<now, admin, lastCancelledAt, targetAdmin, votes>>

ApproveTransfer(signer) ==
    /\ Active
    /\ signer \in pending.signers
    /\ pending' = [pending EXCEPT !.approvals = @ \cup {signer}]
    /\ votes' = [votes EXCEPT ![pending.id] = @ \cup {signer}]
    /\ UNCHANGED <<now, admin, lastCancelledAt, proposalCount, targetAdmin>>

InWindow_Faulty == now >= pending.executable_after

InWindow == now >= pending.executable_after /\ now < expiry_time

QuorumMet == Cardinality(pending.approvals) >= pending.threshold

(* set_admin of the target accepts its current admin only.                 *)
TargetAccepts(caller) == targetAdmin \in {Self, caller}

FinalizeAdminTransfer(caller) ==
    /\ Active /\ InWindow /\ QuorumMet
    /\ TargetAccepts(caller)
    /\ targetAdmin' = pending.proposed_admin
    /\ pending' = NoProposal
    /\ admin' = pending.proposed_admin
    /\ lastCancelledAt' = now
    /\ UNCHANGED <<now, proposalCount, votes>>

(* Cancelling twice succeeds without effect, which is a stuttering step.   *)
MarkCancelled ==
    /\ Active
    /\ pending' = [pending EXCEPT !.status = "Cancelled"]
    /\ lastCancelledAt' = now
    /\ UNCHANGED <<now, admin, proposalCount, targetAdmin, votes>>

CancelAdminTransfer == AdminSigns /\ MarkCancelled

EmergencyCancelProposal(id) == AdminSigns /\ pending.id = id /\ MarkCancelled

ExpireProposal ==
    /\ Active
    /\ now >= expiry_time
    /\ pending' = NoProposal
    /\ UNCHANGED <<now, admin, lastCancelledAt, proposalCount, targetAdmin, votes>>

------------------------------------------------------------------------------
(* Surroundings: time passes, and an admin of the target that is not this  *)
(* contract may hand the target over by itself.                            *)

Tick ==
    /\ now < MaxTime
    /\ now' = now + 1
    /\ UNCHANGED <<admin, pending, lastCancelledAt, proposalCount, targetAdmin, votes>>

TargetHandsOver(a) ==
    /\ targetAdmin # Self
    /\ targetAdmin' = a
    /\ UNCHANGED <<now, admin, pending, lastCancelledAt, proposalCount, votes>>

Init ==
    /\ now = 0
    /\ admin = NoAddress
    /\ pending = NoProposal
    /\ lastCancelledAt = Never
    /\ proposalCount = 0
    /\ targetAdmin = Self
    /\ votes = [i \in 1..MaxProposals |-> {}]

ProposerNext ==
    \E a \in Addresses \cup {Self}, list \in SignerLists, threshold \in Thresholds, delay \in Delays :
        ProposeAdminTransfer(a, list, threshold, delay)

CallerNext ==
    \E a \in Addresses :
        \/ Initialize(a)
        \/ ApproveTransfer(a)
        \/ FinalizeAdminTransfer(a)
        \/ TargetHandsOver(a)

CancelNext ==
    \/ CancelAdminTransfer
    \/ \E id \in 1..MaxProposals : EmergencyCancelProposal(id)
    \/ ExpireProposal

Next == ProposerNext \/ CallerNext \/ CancelNext \/ Tick

Spec == Init /\ [][Next]_vars

------------------------------------------------------------------------------
(* Properties.                                                             *)

AdminHandedOver == admin # NoAddress /\ admin' # admin

Mandated ==
    AdminHandedOver =>
        /\ pending.status = "Active" /\ admin' = pending.proposed_admin
        /\ targetAdmin' = admin'
        /\ now \in (pending.proposed_at + MIN_TIMELOCK_SECONDS)..(expiry_time - 1)
        /\ Cardinality(votes[pending.id] \cap pending.signers) >= pending.threshold

(* The role moves only to the admin a live proposal named, after its full  *)
(* timelock, before it expired, and with enough of its signers having      *)
(* voted for this very proposal; a cancelled one never takes effect.  The   *)
(* governance contract and its target change hands together.               *)
HandoverIsMandated == [][Mandated]_vars
==============================================================================
