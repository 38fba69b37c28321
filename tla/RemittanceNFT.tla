---------------------------- MODULE RemittanceNFT ----------------------------
(***************************************************************************)
(* The Soroban contract contracts/remittance_nft: one reputation NFT per   *)
(* address, the minters that may write it, and the burn / remint cycle.    *)
(*                                                                         *)
(* Calls are atomic, so an action is a successful call.  The write entry   *)
(* points take `minter: Option<Address>': the admin signs when it is None, *)
(* an authorised minter otherwise, to the same effect, so MayWrite asks    *)
(* for an initialised contract that is not paused and leaves the signer    *)
(* out.  `busy' stands for the LoanManager's answer to the active-loan     *)
(* guard of transfer.                                                      *)
(***************************************************************************)
EXTENDS Reputation, Aggregates, FiniteSets, Sequences, SequencesExt

CONSTANTS
    Users,                \* addresses that may own an NFT
    Minters,              \* addresses that may be authorised or become admin
    LoanManager,          \* the address set_loan_manager registers
    NoAddress,            \* an absent Option<Address>
    Scores,               \* u32 initial scores
    Deltas,               \* i32 arguments of apply_score_delta
    Penalties,            \* u32 arguments of decrease_score
    Repayments,           \* i128 arguments of update_score, set_min_repayment_amount
    Hashes,               \* BytesN<32> history hashes other than ZeroHash
    ZeroHash,             \* default_history_hash
    Uris,                 \* metadata URIs of at least 8 characters
    EmptyUri,             \* default_metadata_uri
    Commitments,          \* recipient commitments
    NoCommitment,         \* an absent RecipientCommitment
    Thresholds,           \* u32 arguments of set_default_burn_threshold
    LegacyUsers,          \* users with a Score entry written by version 1
    MAX_SCORE_HISTORY_ENTRIES,
    MAX_AUTHORIZED_MINTERS,
    MAX_ALLOWED_BURN_THRESHOLD,
    DEFAULT_BURN_THRESHOLD,
    TRANSFER_COOLDOWN_LEDGERS,
    POINTS_DENOMINATOR,
    MaxLedger             \* bound on the ledger sequence

ASSUME NFTConstants ==
    /\ IsFiniteSet(Minters)
    /\ NoAddress \notin Minters \cup {LoanManager}
    /\ ZeroHash \notin Hashes /\ EmptyUri \notin Uris
    /\ NoCommitment \notin Commitments
    /\ LegacyUsers \subseteq Users
    /\ Scores \subseteq Nat /\ Penalties \subseteq Nat /\ Thresholds \subseteq Nat
    /\ Deltas \subseteq Int /\ Repayments \subseteq Int
    /\ MAX_SCORE_HISTORY_ENTRIES \in Nat \ {0}
    /\ MAX_AUTHORIZED_MINTERS \in Nat \ {0}
    /\ MAX_ALLOWED_BURN_THRESHOLD \in Nat \ {0}
    /\ DEFAULT_BURN_THRESHOLD \in 1..MAX_ALLOWED_BURN_THRESHOLD
    /\ TRANSFER_COOLDOWN_LEDGERS \in Nat
    /\ POINTS_DENOMINATOR \in Nat \ {0}
    /\ MaxLedger \in Nat

VARIABLES
    ledger,
    busy,                 \* external: users with a Pending or Approved loan
    admin, proposedAdmin, paused, burnThreshold, minRepaymentAmount, loanManager,
    minters,              \* addresses with an AuthorizedMinter flag
    minterList,           \* the AuthorizedMinters vector
    nft,                  \* user -> Reputations
    documents,            \* user -> [hash, uri, commitment]
    history,              \* user -> sequence of [old_score, new_score]
    transferCooldown,     \* user -> next allowed ledger, 0 when absent
    remintApproval        \* users with a RemintApproval key

environment == <<ledger, busy>>
governed    == <<admin, proposedAdmin, paused, burnThreshold, minRepaymentAmount,
                 loanManager>>
writers     == <<minters, minterList>>
identities  == <<nft, documents, history, transferCooldown, remintApproval>>
vars == <<environment, governed, writers, identities>>

NoDocuments == [hash |-> ZeroHash, uri |-> EmptyUri, commitment |-> NoCommitment]

------------------------------------------------------------------------------
MayWrite == admin # NoAddress /\ ~paused

append_score_history(h, old_score, new_score) ==
    LET keep == IF Len(h) < MAX_SCORE_HISTORY_ENTRIES
                THEN Len(h) ELSE MAX_SCORE_HISTORY_ENTRIES - 1
    IN  Append(SubSeq(h, Len(h) - keep + 1, Len(h)),
               [old_score |-> old_score, new_score |-> new_score])

(* The score of user changes and the change is logged.                     *)
WriteScore(user, r) ==
    /\ nft' = [nft EXCEPT ![user] = r]
    /\ history' = [history EXCEPT ![user] =
                       append_score_history(@, nft[user].score, r.score)]

(* burn_internal: every key of the user goes, only the Burned flag stays.  *)
EraseUser_HistoryFaulty(user) ==
    /\ nft' = [nft EXCEPT ![user] = burn_internal(@)]
    /\ documents' = [documents EXCEPT ![user] = NoDocuments]
    /\ transferCooldown' = [transferCooldown EXCEPT ![user] = 0]
    /\ remintApproval' = remintApproval \ {user}
    /\ UNCHANGED history

EraseUser(user) ==
    /\ nft' = [nft EXCEPT ![user] = burn_internal(@)]
    /\ documents' = [documents EXCEPT ![user] = NoDocuments]
    /\ history' = [history EXCEPT ![user] = <<>>]
    /\ transferCooldown' = [transferCooldown EXCEPT ![user] = 0]
    /\ remintApproval' = remintApproval \ {user}

------------------------------------------------------------------------------
(* Set-up, administration and minters.                                     *)

Initialize(a) ==
    /\ admin = NoAddress
    /\ admin' = a
    /\ burnThreshold' = DEFAULT_BURN_THRESHOLD
    /\ paused' = FALSE
    /\ minters' = minters \cup {a}
    /\ minterList' = <<a>>
    /\ UNCHANGED <<environment, proposedAdmin, minRepaymentAmount, loanManager,
                   identities>>

AuthorizeMinter(m) ==
    /\ admin # NoAddress
    /\ \/ /\ m \in minters
          /\ UNCHANGED writers
       \/ /\ m \notin minters
          /\ Len(minterList) < MAX_AUTHORIZED_MINTERS
          /\ minterList' = Append(minterList, m)
          /\ minters' = minters \cup {m}
    /\ UNCHANGED <<environment, governed, identities>>

RevokeMinter(m) ==
    /\ admin # NoAddress
    /\ minters' = minters \ {m}
    /\ minterList' = Without(minterList, m)
    /\ UNCHANGED <<environment, governed, identities>>

SetMinRepaymentAmount(amount) ==
    /\ admin # NoAddress
    /\ amount >= 0
    /\ minRepaymentAmount' = amount
    /\ UNCHANGED <<environment, admin, proposedAdmin, paused, burnThreshold,
                   loanManager, writers, identities>>

SetDefaultBurnThreshold(threshold) ==
    /\ threshold \in 1..MAX_ALLOWED_BURN_THRESHOLD
    /\ MayWrite
    /\ burnThreshold' = threshold
    /\ UNCHANGED <<environment, admin, proposedAdmin, paused, minRepaymentAmount,
                   loanManager, writers, identities>>

SetLoanManager ==
    /\ MayWrite
    /\ loanManager' = LoanManager
    /\ UNCHANGED <<environment, admin, proposedAdmin, paused, burnThreshold,
                   minRepaymentAmount, writers, identities>>

SetPaused(value) ==
    /\ admin # NoAddress
    /\ paused' = value
    /\ UNCHANGED <<environment, admin, proposedAdmin, burnThreshold,
                   minRepaymentAmount, loanManager, writers, identities>>

ProposeAdmin(a) ==
    /\ admin # NoAddress
    /\ proposedAdmin' = a
    /\ UNCHANGED <<environment, admin, paused, burnThreshold, minRepaymentAmount,
                   loanManager, writers, identities>>

AcceptAdmin ==
    /\ admin # NoAddress
    /\ proposedAdmin # NoAddress
    /\ admin' = proposedAdmin
    /\ proposedAdmin' = NoAddress
    /\ UNCHANGED <<environment, paused, burnThreshold, minRepaymentAmount,
                   loanManager, writers, identities>>

SetAdmin(a) ==
    /\ admin # NoAddress
    /\ admin' = a
    /\ proposedAdmin' = NoAddress
    /\ UNCHANGED <<environment, paused, burnThreshold, minRepaymentAmount,
                   loanManager, writers, identities>>

------------------------------------------------------------------------------
(* Minting, burning and the remint gate.                                   *)

Mint(user, initial_score, docs) ==
    /\ MayWrite
    /\ ~nft[user].active
    /\ ~nft[user].burned
    /\ nft' = [nft EXCEPT ![user] =
                   [minted(initial_score) EXCEPT !.seized = nft[user].seized,
                                                 !.defaults = nft[user].defaults]]
    /\ documents' = [documents EXCEPT ![user] = docs]
    /\ UNCHANGED <<environment, governed, writers, history, transferCooldown,
                   remintApproval>>

ApproveRemint(user) ==
    /\ MayWrite
    /\ remintApproval' = remintApproval \cup {user}
    /\ UNCHANGED <<environment, governed, writers, nft, documents, history,
                   transferCooldown>>

AdminRemint(user, initial_score, docs) ==
    /\ MayWrite
    /\ nft[user].burned
    /\ user \in remintApproval
    /\ ~nft[user].active
    /\ remintApproval' = remintApproval \ {user}
    /\ nft' = [nft EXCEPT ![user] = minted(initial_score)]
    /\ documents' = [documents EXCEPT ![user] = docs]
    /\ transferCooldown' = [transferCooldown EXCEPT ![user] = 0]
    /\ UNCHANGED <<environment, governed, writers, history>>

Burn(user) ==
    /\ MayWrite
    /\ nft[user].active
    /\ EraseUser(user)
    /\ UNCHANGED <<environment, governed, writers>>

------------------------------------------------------------------------------
(* Writing an NFT.                                                         *)

UpdateMetadataUri(user, uri) ==
    /\ MayWrite
    /\ nft[user].active
    /\ documents' = [documents EXCEPT ![user].uri = uri]
    /\ UNCHANGED <<environment, governed, writers, nft, history, transferCooldown,
                   remintApproval>>

UpdateHistoryHash(user, hash) ==
    /\ MayWrite
    /\ hash # ZeroHash
    /\ nft[user].active
    /\ documents[user].hash # hash
    /\ documents' = [documents EXCEPT ![user].hash = hash]
    /\ UNCHANGED <<environment, governed, writers, nft, history, transferCooldown,
                   remintApproval>>

UpdateScore(user, repayment_amount) ==
    /\ repayment_amount >= minRepaymentAmount
    /\ repayment_amount >= POINTS_DENOMINATOR
    /\ MayWrite
    /\ nft[user].active
    /\ WriteScore(user, apply_score_delta(nft[user],
                            clamp(repayment_amount \div POINTS_DENOMINATOR, 0, MAX_SCORE)))
    /\ UNCHANGED <<environment, governed, writers, documents, transferCooldown,
                   remintApproval>>

(* decrease_score and apply_score_delta write nothing when the score stays. *)
RewriteScore(user, r) ==
    /\ MayWrite
    /\ IF r.score = nft[user].score THEN UNCHANGED <<nft, history>>
                                    ELSE WriteScore(user, r)
    /\ UNCHANGED <<environment, governed, writers, documents, transferCooldown,
                   remintApproval>>

DecreaseScore(user, penalty_points) ==
    RewriteScore(user, decrease_score(nft[user], penalty_points))

ApplyScoreDelta(user, delta) ==
    /\ nft[user].active
    /\ RewriteScore(user, apply_score_delta(nft[user], delta))

SeizeCollateral(user) ==
    /\ MayWrite
    /\ nft[user].active
    /\ ~nft[user].seized
    /\ nft' = [nft EXCEPT ![user].seized = TRUE]
    /\ UNCHANGED <<environment, governed, writers, documents, history,
                   transferCooldown, remintApproval>>

RecordDefault(user) ==
    LET r == record_default(nft[user], burnThreshold)
    IN  /\ MayWrite
        /\ IF nft[user].active /\ r.burned
           THEN EraseUser(user)
           ELSE /\ nft' = [nft EXCEPT ![user] = r]
                /\ UNCHANGED <<documents, history, transferCooldown, remintApproval>>
        /\ UNCHANGED <<environment, governed, writers>>

------------------------------------------------------------------------------
(* Moving an NFT to another address of the same person.                    *)

TransferAllowed(from, to) ==
    /\ from # to
    /\ loanManager # NoAddress => from \notin busy
    /\ transferCooldown[from] <= ledger
    /\ nft[from].active
    /\ ~nft[to].burned
    /\ ~nft[to].active /\ documents[to].commitment = NoCommitment

(* What the two addresses hold afterwards: `to' takes the metadata, and of *)
(* default count, seizure, history and commitment what `from' has.         *)
MoveIdentity_Faulty(from, to) ==
    /\ nft' = [nft EXCEPT ![to] = minted(nft[from].score), ![from] = NoNFT]
    /\ history' = [history EXCEPT ![to] = history[from], ![from] = <<>>]
    /\ documents' = [documents EXCEPT ![to] = documents[from], ![from] = NoDocuments]

MoveIdentity(from, to) ==
    LET moved == nft[from]
    IN  /\ nft' = [nft EXCEPT
                ![to] = [moved EXCEPT
                    !.burned = nft[to].burned,
                    !.seized = moved.seized \/ nft[to].seized,
                    !.defaults = IF moved.defaults > 0 THEN @ ELSE nft[to].defaults],
                ![from] = [NoNFT EXCEPT !.burned = moved.burned]]
        /\ history' = IF history[from] = <<>> THEN history
                      ELSE [history EXCEPT ![to] = history[from], ![from] = <<>>]
        /\ documents' = [documents EXCEPT ![to] = documents[from],
                                          ![from] = NoDocuments]

Transfer(from, to) ==
    /\ MayWrite
    /\ TransferAllowed(from, to)
    /\ MoveIdentity(from, to)
    /\ remintApproval' = remintApproval \ {from}
    /\ transferCooldown' = [transferCooldown EXCEPT
           ![from] = 0, ![to] = ledger + TRANSFER_COOLDOWN_LEDGERS]
    /\ UNCHANGED <<environment, governed, writers>>

------------------------------------------------------------------------------
(* Surroundings: ledgers close, and loans open and close elsewhere.        *)

CloseLedger ==
    /\ ledger < MaxLedger
    /\ ledger' = ledger + 1
    /\ UNCHANGED <<busy, governed, writers, identities>>

LoansChange(user) ==
    /\ busy' = IF user \in busy THEN busy \ {user} ELSE busy \cup {user}
    /\ UNCHANGED <<ledger, governed, writers, identities>>

------------------------------------------------------------------------------
NewDocuments == [hash : Hashes \cup {ZeroHash}, uri : Uris, commitment : Commitments]

Init ==
    /\ ledger = 0
    /\ busy = {}
    /\ admin = NoAddress
    /\ proposedAdmin = NoAddress
    /\ paused = FALSE
    /\ burnThreshold = DEFAULT_BURN_THRESHOLD
    /\ minRepaymentAmount = 0
    /\ loanManager = NoAddress
    /\ minters = {}
    /\ minterList = <<>>
    /\ nft = [u \in Users |-> IF u \in LegacyUsers THEN minted(MAX_SCORE) ELSE NoNFT]
    /\ documents = [u \in Users |-> NoDocuments]
    /\ history = [u \in Users |-> <<>>]
    /\ transferCooldown = [u \in Users |-> 0]
    /\ remintApproval = {}

AdminNext ==
    \/ \E a \in Minters : \/ Initialize(a) \/ ProposeAdmin(a) \/ SetAdmin(a)
                          \/ AuthorizeMinter(a) \/ RevokeMinter(a)
    \/ AcceptAdmin
    \/ SetLoanManager
    \/ \E b \in BOOLEAN : SetPaused(b)
    \/ \E n \in Repayments : SetMinRepaymentAmount(n)
    \/ \E n \in Thresholds : SetDefaultBurnThreshold(n)

IdentityNext ==
    \E u \in Users :
        \/ \E s \in Scores, d \in NewDocuments : Mint(u, s, d) \/ AdminRemint(u, s, d)
        \/ ApproveRemint(u)
        \/ Burn(u)
        \/ SeizeCollateral(u)
        \/ RecordDefault(u)
        \/ \E v \in Users : Transfer(u, v)
        \/ LoansChange(u)

WriteNext ==
    \E u \in Users :
        \/ \E n \in Repayments : UpdateScore(u, n)
        \/ \E n \in Penalties : DecreaseScore(u, n)
        \/ \E n \in Deltas : ApplyScoreDelta(u, n)
        \/ \E uri \in Uris : UpdateMetadataUri(u, uri)
        \/ \E h \in Hashes \cup {ZeroHash} : UpdateHistoryHash(u, h)

Next == AdminNext \/ IdentityNext \/ WriteNext \/ CloseLedger

Spec == Init /\ [][Next]_vars

------------------------------------------------------------------------------
(* Correctness.                                                            *)

(* An address without an NFT carries nothing of a former one: no seizure,  *)
(* default count, score log, commitment or cooldown survives a burn or a   *)
(* transfer, so a later mint or transfer to it cannot inherit any of it.   *)
NoResidue ==
    \A u \in Users : ~nft[u].active =>
        /\ ~nft[u].seized /\ nft[u].defaults = 0 /\ nft[u].score = 0
        /\ history[u] = <<>>
        /\ documents[u] = NoDocuments
        /\ transferCooldown[u] = 0

(* The score log is a chain that ends in the current score: whichever      *)
(* entry points wrote it, and however often it was cut to its maximum      *)
(* length or moved to another address, no change is missing from its end.  *)
HistoryChains ==
    \A u \in Users :
        LET h == history[u]
        IN  /\ Len(h) <= MAX_SCORE_HISTORY_ENTRIES
            /\ h # <<>> => h[Len(h)].new_score = nft[u].score
            /\ \A i \in 1..Len(h) - 1 : h[i].new_score = h[i + 1].old_score

(* The enumerated list that carries the limit names each flagged minter    *)
(* exactly once, across authorisation, revocation and initialisation.      *)
MinterListAgrees ==
    /\ ToSet(minterList) = minters
    /\ Len(minterList) = Cardinality(minters)
    /\ Len(minterList) <= MAX_AUTHORIZED_MINTERS

(* The keys the entry points update by hand agree with one another: no     *)
(* residue of an erased identity, a score log that is a chain ending in    *)
(* the score, and a minter list that matches the flags.                    *)
RecordsAgree == NoResidue /\ HistoryChains /\ MinterListAgrees

(* A blemish is never washed off: a seizure leaves an address only when    *)
(* its NFT is burned or moves, blemish and default count included, to an   *)
(* address that had none.                                                  *)
BlemishStays ==
    \A u \in Users : nft[u].seized /\ ~nft'[u].seized =>
        \/ nft'[u].burned
        \/ \E v \in Users \ {u} : ~nft[v].active /\ nft'[v] = nft[u]

(* A burned address revives only on an approval, and an approval given     *)
(* before a burn (by default or by hand) does not outlive it.              *)
ApprovalIsFresh ==
    \A u \in Users :
        /\ ~nft[u].burned /\ nft'[u].burned => u \notin remintApproval'
        /\ nft[u].burned /\ ~nft'[u].burned => u \in remintApproval

(* Bad credit cannot be shed: neither by moving or reminting an identity,  *)
(* nor with an approval given before the burn.                             *)
BadCreditSticks == [][BlemishStays /\ ApprovalIsFresh]_vars
==============================================================================
