------------------------ MODULE RemittanceNFTProofs ------------------------
(***************************************************************************)
(* Proofs about RemittanceNFT: the keys that its entry points update by    *)
(* hand agree with one another (RecordsAgree), and bad credit cannot be    *)
(* shed (BadCreditSticks).                                                 *)
(*                                                                         *)
(* The inductive invariant has one half per identity and one for the       *)
(* minters.  An identity (UserOK) is a typed reputation with its           *)
(* documents, log and cooldown; an active one is not burned, an inactive   *)
(* one is empty.  The minter list repeats nobody and is empty before       *)
(* initialize, which overwrites it.                                        *)
(***************************************************************************)
EXTENDS RemittanceNFT, ArithmeticFacts, SequenceTheorems

Points == 0 .. MAX_SCORE
ScoreEntry == [old_score : Points, new_score : Points]
AnyDocuments == [hash : Hashes \cup {ZeroHash}, uri : Uris \cup {EmptyUri},
                 commitment : Commitments \cup {NoCommitment}]

Chains(h, score) ==
    /\ Len(h) <= MAX_SCORE_HISTORY_ENTRIES
    /\ h # <<>> => h[Len(h)].new_score = score
    /\ \A i \in 1 .. Len(h) - 1 : h[i].new_score = h[i + 1].old_score

Empty(r, d, h, c) ==
    /\ ~r.seized /\ r.defaults = 0 /\ r.score = 0
    /\ h = <<>> /\ d = NoDocuments /\ c = 0

UserOK(r, d, h, c) ==
    /\ r \in Reputations /\ d \in AnyDocuments /\ h \in Seq(ScoreEntry) /\ c \in Nat
    /\ Chains(h, r.score)
    /\ r.active => ~r.burned
    /\ ~r.active => Empty(r, d, h, c)

IdentityInv ==
    /\ nft \in [Users -> Reputations]
    /\ documents \in [Users -> AnyDocuments]
    /\ history \in [Users -> Seq(ScoreEntry)]
    /\ transferCooldown \in [Users -> Nat]
    /\ remintApproval \subseteq Users
    /\ ledger \in Nat /\ burnThreshold \in Nat \ {0} /\ minRepaymentAmount \in Nat
    /\ \A u \in Users : UserOK(nft[u], documents[u], history[u], transferCooldown[u])

MinterInv ==
    /\ admin \in Minters \cup {NoAddress} /\ proposedAdmin \in Minters \cup {NoAddress}
    /\ minterList \in Seq(Minters) /\ NoRepeats(minterList)
    /\ Entries(minterList) = minters
    /\ Len(minterList) <= MAX_AUTHORIZED_MINTERS
    /\ admin = NoAddress => minterList = <<>>

Sticks == BlemishStays /\ ApprovalIsFresh

------------------------------------------------------------------------------
(* What the operators of Reputation make of a record.                      *)

LEMMA ClampBounds ==
    ASSUME NEW x \in Int, NEW low \in Nat, NEW high \in Nat, low <= high
    PROVE  clamp(x, low, high) \in low .. high
BY DEF clamp

LEMMA NoNFTRecord ==
    /\ NoNFT \in Reputations /\ ~NoNFT.active /\ NoNFT.score = 0 /\ ~NoNFT.seized
    /\ NoNFT.defaults = 0 /\ ~NoNFT.burned
BY ScoreConstants DEF NoNFT, Reputations

LEMMA MintedRecord ==
    ASSUME NEW n \in Int
    PROVE  LET r == minted(n)
           IN  /\ r \in Reputations /\ r.active /\ ~r.seized
               /\ r.defaults = 0 /\ ~r.burned
<1>1. PICK s \in Points : s = clamp(n, MIN_CREDIT_SCORE, MAX_SCORE)
  BY ScoreConstants, ClampBounds DEF Points
<1>2. PICK r1 : r1 = [NoNFT EXCEPT !.active = TRUE]
  OBVIOUS
<1>3. /\ r1 \in Reputations /\ r1.active = TRUE /\ r1.seized = FALSE /\ r1.defaults = 0 /\ r1.burned = FALSE
  BY <1>2, NoNFTRecord DEF Reputations
<1>4. PICK r : r = [r1 EXCEPT !.score = s]
  OBVIOUS
<1>5. /\ r \in Reputations /\ r.active = TRUE /\ r.seized = FALSE /\ r.defaults = 0 /\ r.burned = FALSE
  BY <1>1, <1>3, <1>4 DEF Reputations, Points
<1>6. r = minted(n)
  BY <1>1, <1>2, <1>4, Zenon DEF minted
<1> QED BY <1>5, <1>6

LEMMA BurnedRecord ==
    ASSUME NEW r
    PROVE  LET b == burn_internal(r)
           IN  /\ b \in Reputations /\ ~b.active /\ b.score = 0 /\ ~b.seized
               /\ b.defaults = 0 /\ b.burned
<1>1. PICK b : b = [NoNFT EXCEPT !.burned = TRUE]
  OBVIOUS
<1>2. /\ b \in Reputations /\ b.active = FALSE /\ b.score = 0 /\ b.seized = FALSE
      /\ b.defaults = 0 /\ b.burned = TRUE
  BY <1>1, NoNFTRecord DEF Reputations
<1>3. b = burn_internal(r)
  BY <1>1, Zenon DEF burn_internal
<1> QED BY <1>2, <1>3

(* Only the score of a record changes.                                     *)
SameButScore(r, s) ==
    /\ s \in Reputations /\ s.active = r.active /\ s.seized = r.seized
    /\ s.defaults = r.defaults /\ s.burned = r.burned

LEMMA ScoredRecord ==
    ASSUME NEW r \in Reputations, NEW n \in Int
    PROVE  /\ SameButScore(r, apply_score_delta(r, n))
           /\ n >= 0 => SameButScore(r, decrease_score(r, n))
           /\ n >= 0 /\ ~r.active => decrease_score(r, n) = r
<1>1. r.score \in Int
  BY DEF Reputations
<1>2. PICK s \in Points : s = clamp(r.score + n, 0, MAX_SCORE)
  BY <1>1, ScoreConstants, ClampBounds, SMTT(30) DEF Points
<1>3. apply_score_delta(r, n) = [r EXCEPT !.score = s]
  BY <1>2, Zenon DEF apply_score_delta
<1>4. SameButScore(r, apply_score_delta(r, n))
  BY <1>2, <1>3 DEF SameButScore, Reputations, Points
<1>5. PICK t \in Points : t = clamp(r.score - n, MIN_CREDIT_SCORE, MAX_SCORE)
  <2>1. r.score - n \in Int
    BY <1>1
  <2>2. clamp(r.score - n, MIN_CREDIT_SCORE, MAX_SCORE) \in MIN_CREDIT_SCORE .. MAX_SCORE
    BY <2>1, ScoreConstants, ClampBounds
  <2> QED BY <2>2, ScoreConstants DEF Points
<1>6. r.active => decrease_score(r, n) = [r EXCEPT !.score = t]
  BY <1>5, Zenon DEF decrease_score
<1>7. ~r.active => decrease_score(r, n) = r
  BY Zenon DEF decrease_score
<1>8. SameButScore(r, decrease_score(r, n))
  <2>1. CASE r.active
    BY <1>5, <1>6, <2>1 DEF SameButScore, Reputations, Points
  <2>2. CASE ~r.active
    BY <1>7, <2>2 DEF SameButScore
  <2> QED BY <2>1, <2>2
<1> QED BY <1>4, <1>7, <1>8

LEMMA DefaultedRecord ==
    ASSUME NEW r \in Reputations, NEW t \in Nat
    PROVE  LET d == record_default(r, t)
           IN  /\ d \in Reputations
               /\ ~r.active => d = r
               /\ r.active /\ ~r.burned /\ ~d.burned =>
                      d.active /\ d.seized /\ d.score = r.score
<1>1. CASE ~r.active
  <2>1. record_default(r, t) = r
    BY <1>1, Zenon DEF record_default
  <2> QED BY <1>1, <2>1
<1>2. CASE r.active /\ r.defaults + 1 >= t
  <2>1. record_default(r, t) = burn_internal(r)
    BY <1>2, Zenon DEF record_default
  <2> QED BY <1>2, <2>1, BurnedRecord
<1>3. CASE r.active /\ ~(r.defaults + 1 >= t)
  <2>1. PICK r1 : r1 = [r EXCEPT !.defaults = r.defaults + 1]
    OBVIOUS
  <2>2. r1 \in Reputations /\ r1.active = r.active /\ r1.score = r.score /\ r1.burned = r.burned
    BY <2>1 DEF Reputations
  <2>3. PICK d : d = [r1 EXCEPT !.seized = TRUE]
    OBVIOUS
  <2>4. d \in Reputations /\ d.active = r.active /\ d.score = r.score /\ d.seized = TRUE
    BY <2>2, <2>3 DEF Reputations
  <2>5. d = record_default(r, t)
    BY <1>3, <2>1, <2>3, Zenon DEF record_default
  <2> QED BY <1>3, <2>4, <2>5
<1> QED BY <1>1, <1>2, <1>3

------------------------------------------------------------------------------
(* The log: cutting it and appending the change keeps it a chain.          *)

LEMMA AppendChains ==
    ASSUME NEW h \in Seq(ScoreEntry), NEW old \in Points, NEW new \in Points, Chains(h, old)
    PROVE  /\ append_score_history(h, old, new) \in Seq(ScoreEntry)
           /\ Chains(append_score_history(h, old, new), new)
           /\ append_score_history(h, old, new) # <<>>
<1>1. PICK n \in Nat : n = Len(h) /\ DOMAIN h = 1 .. n
  OBVIOUS
<1>2. PICK keep : keep = IF n < MAX_SCORE_HISTORY_ENTRIES THEN n ELSE MAX_SCORE_HISTORY_ENTRIES - 1
  OBVIOUS
<1>3. keep \in 0 .. n /\ keep + 1 <= MAX_SCORE_HISTORY_ENTRIES /\ keep \in Nat
  BY <1>2, NFTConstants
<1>4. PICK e \in ScoreEntry : e = [old_score |-> old, new_score |-> new]
  BY DEF ScoreEntry
<1>5. PICK cut : cut = SubSeq(h, n - keep + 1, n)
  OBVIOUS
<1>6. /\ cut \in Seq(ScoreEntry) /\ Len(cut) = keep
      /\ \A i \in 1 .. keep : cut[i] = h[n - keep + i]
  <2>1. n - keep + 1 \in Int /\ \A i \in (n - keep + 1) .. n : h[i] \in ScoreEntry
    BY <1>1, <1>3
  <2>2. /\ cut \in Seq(ScoreEntry)
        /\ Len(cut) = IF n - keep + 1 <= n THEN n - (n - keep + 1) + 1 ELSE 0
        /\ \A i \in 1 .. n - (n - keep + 1) + 1 : cut[i] = h[(n - keep + 1) + i - 1]
    BY <1>5, <2>1, SubSeqProperties
  <2> QED BY <1>3, <2>2
<1>7. PICK g : g = Append(cut, e)
  OBVIOUS
<1>8. /\ g \in Seq(ScoreEntry) /\ Len(g) = keep + 1 /\ g[keep + 1] = e
      /\ \A i \in 1 .. keep : g[i] = h[n - keep + i]
  BY <1>3, <1>6, <1>7
<1>9. g = append_score_history(h, old, new)
  BY <1>1, <1>2, <1>4, <1>5, <1>7, Zenon DEF append_score_history
<1>10. Chains(g, new)
  <2>1. Len(g) <= MAX_SCORE_HISTORY_ENTRIES /\ g[Len(g)].new_score = new
    BY <1>3, <1>4, <1>8
  <2>2. ASSUME NEW i \in 1 .. keep PROVE g[i].new_score = g[i + 1].old_score
    <3>1. CASE i = keep
      <4>1. g[i] = h[n] /\ n # 0
        BY <1>3, <1>8, <3>1
      <4> QED BY <1>1, <1>4, <1>8, <3>1, <4>1 DEF Chains
    <3>2. CASE i < keep
      <4>1. /\ g[i] = h[n - keep + i] /\ g[i + 1] = h[n - keep + (i + 1)]
            /\ n - keep + i \in 1 .. n - 1 /\ n - keep + (i + 1) = (n - keep + i) + 1
        <5>1. i + 1 \in 1 .. keep
          BY <1>3, <3>2
        <5>2. n - keep + i \in 1 .. n - 1 /\ n - keep + (i + 1) = (n - keep + i) + 1
          BY <1>3, <3>2
        <5> QED BY <1>8, <5>1, <5>2
      <4> QED BY <1>1, <4>1 DEF Chains
    <3> QED BY <1>3, <3>1, <3>2
  <2> QED BY <1>3, <1>8, <2>1, <2>2 DEF Chains
<1> QED BY <1>3, <1>8, <1>9, <1>10

------------------------------------------------------------------------------
(* Steps on one identity.                                                  *)

LEMMA NoDocumentsTyped == NoDocuments \in AnyDocuments
BY DEF NoDocuments, AnyDocuments

LEMMA SameFunction ==
    ASSUME NEW T, NEW f \in [Users -> T], NEW u \in Users
    PROVE  f = [f EXCEPT ![u] = f[u]]
OBVIOUS

(* An entry point that leaves the identity of u in order leaves all in     *)
(* order.                                                                  *)
LEMMA OneUserChanges ==
    ASSUME IdentityInv, NEW u \in Users, NEW r, NEW d, NEW h, NEW c, UserOK(r, d, h, c),
           nft' = [nft EXCEPT ![u] = r], documents' = [documents EXCEPT ![u] = d],
           history' = [history EXCEPT ![u] = h],
           transferCooldown' = [transferCooldown EXCEPT ![u] = c],
           remintApproval' \subseteq Users,
           UNCHANGED <<ledger, burnThreshold, minRepaymentAmount>>
    PROVE  IdentityInv'
<1>1. r \in Reputations /\ d \in AnyDocuments /\ h \in Seq(ScoreEntry) /\ c \in Nat
  BY DEF UserOK
<1>2. /\ nft' \in [Users -> Reputations] /\ documents' \in [Users -> AnyDocuments]
      /\ history' \in [Users -> Seq(ScoreEntry)] /\ transferCooldown' \in [Users -> Nat]
  BY <1>1 DEF IdentityInv
<1>3. ASSUME NEW v \in Users
      PROVE  UserOK(nft'[v], documents'[v], history'[v], transferCooldown'[v])
  <2>1. CASE v = u
    <3>1. nft'[v] = r /\ documents'[v] = d /\ history'[v] = h /\ transferCooldown'[v] = c
      BY <2>1 DEF IdentityInv
    <3> QED BY <3>1
  <2>2. CASE v # u
    <3>1. /\ nft'[v] = nft[v] /\ documents'[v] = documents[v]
          /\ history'[v] = history[v] /\ transferCooldown'[v] = transferCooldown[v]
      BY <2>2 DEF IdentityInv
    <3>2. UserOK(nft[v], documents[v], history[v], transferCooldown[v])
      BY DEF IdentityInv
    <3> QED BY <3>1, <3>2
  <2> QED BY <2>1, <2>2
<1> QED BY <1>2, <1>3 DEF IdentityInv

LEMMA OneRecordChanges ==
    ASSUME IdentityInv, NEW u \in Users, NEW r, nft' = [nft EXCEPT ![u] = r],
           UserOK(r, documents[u], history[u], transferCooldown[u]),
           UNCHANGED <<documents, history, transferCooldown, remintApproval, ledger, burnThreshold,
                       minRepaymentAmount>>
    PROVE  IdentityInv'
<1>1. PICK d : d = documents[u]
  OBVIOUS
<1>2. PICK h : h = history[u]
  OBVIOUS
<1>3. PICK c : c = transferCooldown[u]
  OBVIOUS
<1>4. documents' = [documents EXCEPT ![u] = d]
  BY <1>1, SameFunction DEF IdentityInv
<1>5. history' = [history EXCEPT ![u] = h]
  BY <1>2, SameFunction DEF IdentityInv
<1>6. transferCooldown' = [transferCooldown EXCEPT ![u] = c]
  BY <1>3, SameFunction DEF IdentityInv
<1>7. UserOK(r, d, h, c) /\ remintApproval' \subseteq Users
  BY <1>1, <1>2, <1>3 DEF IdentityInv
<1> QED BY <1>4, <1>5, <1>6, <1>7, OneUserChanges

(* What a change of one record means for the action properties.            *)
LEMMA OneRecordSticks ==
    ASSUME nft \in [Users -> Reputations], NEW u \in Users, NEW r, nft' = [nft EXCEPT ![u] = r],
           nft[u].seized => r.seized \/ r.burned,
           ~nft[u].burned /\ r.burned => u \notin remintApproval',
           nft[u].burned /\ ~r.burned => u \in remintApproval
    PROVE  Sticks
<1>1. nft'[u] = r /\ \A v \in Users : v # u => nft'[v] = nft[v]
  OBVIOUS
<1> QED BY <1>1 DEF Sticks, BlemishStays, ApprovalIsFresh

LEMMA ErasedUser ==
    ASSUME IdentityInv, NEW u \in Users, EraseUser(u),
           UNCHANGED <<ledger, burnThreshold, minRepaymentAmount>>
    PROVE  IdentityInv' /\ Sticks
<1>1. PICK b : b = burn_internal(nft[u])
  OBVIOUS
<1>2. b \in Reputations /\ ~b.active /\ b.score = 0 /\ ~b.seized /\ b.defaults = 0 /\ b.burned
  BY <1>1, BurnedRecord
<1>3. UserOK(b, NoDocuments, <<>>, 0)
  BY <1>2, NoDocumentsTyped, NFTConstants DEF UserOK, Empty, Chains
<1>4. /\ nft' = [nft EXCEPT ![u] = b]
      /\ documents' = [documents EXCEPT ![u] = NoDocuments]
      /\ history' = [history EXCEPT ![u] = <<>>]
      /\ transferCooldown' = [transferCooldown EXCEPT ![u] = 0]
      /\ remintApproval' = remintApproval \ {u}
  BY <1>1 DEF EraseUser
<1>5. IdentityInv'
  <2>1. remintApproval' \subseteq Users
    BY <1>4 DEF IdentityInv
  <2> QED BY <1>3, <1>4, <2>1, OneUserChanges
<1>6. Sticks
  BY <1>2, <1>4, OneRecordSticks DEF IdentityInv
<1> QED BY <1>5, <1>6

LEMMA BurnStep ==
    ASSUME IdentityInv, NEW u \in Users, Burn(u)
    PROVE  IdentityInv' /\ Sticks
BY ErasedUser DEF Burn, environment, governed

LEMMA MintStep ==
    ASSUME IdentityInv, NEW u \in Users, NEW n \in Scores, NEW d \in NewDocuments, Mint(u, n, d)
    PROVE  IdentityInv' /\ Sticks
<1>1. PICK m : m = minted(n)
  OBVIOUS
<1>2. m \in Reputations /\ m.active /\ ~m.seized /\ m.defaults = 0 /\ ~m.burned
  <2>1. n \in Int
    BY NFTConstants
  <2> QED BY <1>1, <2>1, MintedRecord
<1>3. UserOK(nft[u], documents[u], history[u], transferCooldown[u]) /\ nft[u] \in Reputations
  BY DEF IdentityInv
<1>4. /\ ~nft[u].active /\ ~nft[u].burned /\ ~nft[u].seized /\ nft[u].defaults = 0
      /\ history[u] = <<>> /\ transferCooldown[u] = 0
  BY <1>3 DEF Mint, UserOK, Empty
<1>5. PICK m1 : m1 = [m EXCEPT !.seized = nft[u].seized]
  OBVIOUS
<1>6. m1 \in Reputations /\ m1.active = m.active /\ m1.burned = m.burned
  BY <1>2, <1>3, <1>5 DEF Reputations
<1>7. PICK r : r = [m1 EXCEPT !.defaults = nft[u].defaults]
  OBVIOUS
<1>8. r \in Reputations /\ r.active = m.active /\ r.burned = m.burned
  BY <1>3, <1>6, <1>7 DEF Reputations
<1>9. nft' = [nft EXCEPT ![u] = r]
  BY <1>1, <1>5, <1>7, Zenon DEF Mint
<1>10. d \in AnyDocuments
  BY DEF NewDocuments, AnyDocuments
<1>11. UserOK(r, d, <<>>, 0)
  BY <1>2, <1>8, <1>10, NFTConstants DEF UserOK, Chains
<1>12. /\ documents' = [documents EXCEPT ![u] = d] /\ history' = history
       /\ transferCooldown' = transferCooldown /\ remintApproval' = remintApproval
       /\ UNCHANGED <<ledger, burnThreshold, minRepaymentAmount>>
  BY DEF Mint, environment, governed
<1>13. IdentityInv'
  <2>1. /\ history' = [history EXCEPT ![u] = <<>>]
        /\ transferCooldown' = [transferCooldown EXCEPT ![u] = 0]
    BY <1>4, <1>12, SameFunction DEF IdentityInv
  <2>2. remintApproval' \subseteq Users
    BY <1>12 DEF IdentityInv
  <2> QED BY <1>9, <1>11, <1>12, <2>1, <2>2, OneUserChanges
<1>14. Sticks
  BY <1>2, <1>4, <1>8, <1>9, OneRecordSticks DEF IdentityInv
<1> QED BY <1>13, <1>14

LEMMA RemintStep ==
    ASSUME IdentityInv, NEW u \in Users, NEW n \in Scores, NEW d \in NewDocuments, AdminRemint(u, n, d)
    PROVE  IdentityInv' /\ Sticks
<1>1. PICK m : m = minted(n)
  OBVIOUS
<1>2. m \in Reputations /\ m.active /\ ~m.seized /\ m.defaults = 0 /\ ~m.burned
  <2>1. n \in Int
    BY NFTConstants
  <2> QED BY <1>1, <2>1, MintedRecord
<1>3. UserOK(nft[u], documents[u], history[u], transferCooldown[u])
  BY DEF IdentityInv
<1>4. ~nft[u].active /\ ~nft[u].seized /\ history[u] = <<>> /\ u \in remintApproval
  BY <1>3 DEF AdminRemint, UserOK, Empty
<1>5. d \in AnyDocuments
  BY DEF NewDocuments, AnyDocuments
<1>6. UserOK(m, d, <<>>, 0)
  BY <1>2, <1>5, NFTConstants DEF UserOK, Chains
<1>7. /\ nft' = [nft EXCEPT ![u] = m] /\ documents' = [documents EXCEPT ![u] = d]
      /\ history' = history /\ transferCooldown' = [transferCooldown EXCEPT ![u] = 0]
      /\ remintApproval' = remintApproval \ {u}
      /\ UNCHANGED <<ledger, burnThreshold, minRepaymentAmount>>
  BY <1>1 DEF AdminRemint, environment, governed
<1>8. IdentityInv'
  <2>1. history' = [history EXCEPT ![u] = <<>>]
    BY <1>4, <1>7, SameFunction DEF IdentityInv
  <2>2. remintApproval' \subseteq Users
    BY <1>7 DEF IdentityInv
  <2> QED BY <1>6, <1>7, <2>1, <2>2, OneUserChanges
<1>9. Sticks
  BY <1>2, <1>4, <1>7, OneRecordSticks DEF IdentityInv
<1> QED BY <1>8, <1>9

LEMMA ApproveStep ==
    ASSUME IdentityInv, NEW u \in Users, ApproveRemint(u)
    PROVE  IdentityInv' /\ Sticks
<1>1. /\ UNCHANGED <<nft, documents, history, transferCooldown, ledger, burnThreshold, minRepaymentAmount>>
      /\ remintApproval' = remintApproval \cup {u}
  BY DEF ApproveRemint, environment, governed
<1>2. IdentityInv'
  BY <1>1 DEF IdentityInv
<1> QED BY <1>1, <1>2 DEF Sticks, BlemishStays, ApprovalIsFresh

LEMMA DocumentStep ==
    ASSUME IdentityInv, NEW u \in Users,
           \/ \E uri \in Uris : UpdateMetadataUri(u, uri)
           \/ \E hash \in Hashes \cup {ZeroHash} : UpdateHistoryHash(u, hash)
    PROVE  IdentityInv' /\ Sticks
<1>1. /\ nft[u].active
      /\ UNCHANGED <<nft, history, transferCooldown, remintApproval, ledger, burnThreshold,
                     minRepaymentAmount>>
  BY DEF UpdateMetadataUri, UpdateHistoryHash, environment, governed
<1>2. PICK d \in AnyDocuments : documents' = [documents EXCEPT ![u] = d]
  <2>1. documents[u] \in AnyDocuments
    BY DEF IdentityInv
  <2>2. ASSUME NEW uri \in Uris, UpdateMetadataUri(u, uri)
        PROVE  \E d \in AnyDocuments : documents' = [documents EXCEPT ![u] = d]
    <3>1. PICK d : d = [documents[u] EXCEPT !.uri = uri]
      OBVIOUS
    <3>2. d \in AnyDocuments
      BY <2>1, <3>1 DEF AnyDocuments
    <3>3. documents' = [documents EXCEPT ![u] = d]
      BY <2>2, <3>1, Zenon DEF UpdateMetadataUri
    <3> QED BY <3>2, <3>3
  <2>3. ASSUME NEW hash \in Hashes \cup {ZeroHash}, UpdateHistoryHash(u, hash)
        PROVE  \E d \in AnyDocuments : documents' = [documents EXCEPT ![u] = d]
    <3>1. PICK d : d = [documents[u] EXCEPT !.hash = hash]
      OBVIOUS
    <3>2. d \in AnyDocuments
      BY <2>1, <3>1 DEF AnyDocuments
    <3>3. documents' = [documents EXCEPT ![u] = d]
      BY <2>3, <3>1, Zenon DEF UpdateHistoryHash
    <3> QED BY <3>2, <3>3
  <2> QED BY <2>2, <2>3
<1>3. UserOK(nft[u], documents[u], history[u], transferCooldown[u])
  BY DEF IdentityInv
<1>4. UserOK(nft[u], d, history[u], transferCooldown[u])
  BY <1>1, <1>3 DEF UserOK
<1>5. IdentityInv'
  <2>1. PICK r : r = nft[u]
    OBVIOUS
  <2>2. PICK h : h = history[u]
    OBVIOUS
  <2>3. PICK c : c = transferCooldown[u]
    OBVIOUS
  <2>4. nft' = [nft EXCEPT ![u] = r]
    BY <1>1, <2>1, SameFunction DEF IdentityInv
  <2>5. history' = [history EXCEPT ![u] = h]
    BY <1>1, <2>2, SameFunction DEF IdentityInv
  <2>6. transferCooldown' = [transferCooldown EXCEPT ![u] = c]
    BY <1>1, <2>3, SameFunction DEF IdentityInv
  <2>7. UserOK(r, d, h, c) /\ remintApproval' \subseteq Users
    BY <1>1, <1>4, <2>1, <2>2, <2>3 DEF IdentityInv
  <2> QED BY <1>1, <1>2, <2>4, <2>5, <2>6, <2>7, OneUserChanges
<1> QED BY <1>1, <1>5 DEF Sticks, BlemishStays, ApprovalIsFresh

(* A score is written with its log entry, for an active NFT.               *)
LEMMA ScoreStep ==
    ASSUME IdentityInv, NEW u \in Users, NEW r, SameButScore(nft[u], r), nft[u].active,
           WriteScore(u, r),
           UNCHANGED <<documents, transferCooldown, remintApproval, ledger, burnThreshold,
                       minRepaymentAmount>>
    PROVE  IdentityInv' /\ Sticks
<1>1. UserOK(nft[u], documents[u], history[u], transferCooldown[u]) /\ nft[u] \in Reputations
  BY DEF IdentityInv
<1>2. r \in Reputations /\ r.active /\ r.burned = nft[u].burned /\ r.seized = nft[u].seized
  BY DEF SameButScore
<1>3. nft[u].score \in Points /\ r.score \in Points
  BY <1>1, <1>2 DEF Reputations, Points
<1>4. PICK h : h = append_score_history(history[u], nft[u].score, r.score)
  OBVIOUS
<1>5. h \in Seq(ScoreEntry) /\ Chains(h, r.score)
  BY <1>1, <1>3, <1>4, AppendChains DEF UserOK
<1>6. UserOK(r, documents[u], h, transferCooldown[u])
  BY <1>1, <1>2, <1>5 DEF UserOK
<1>7. /\ nft' = [nft EXCEPT ![u] = r] /\ history' = [history EXCEPT ![u] = h]
      /\ documents' = documents /\ transferCooldown' = transferCooldown
      /\ remintApproval' = remintApproval
  BY <1>4 DEF WriteScore
<1>8. IdentityInv'
  <2>1. /\ documents' = [documents EXCEPT ![u] = documents[u]]
        /\ transferCooldown' = [transferCooldown EXCEPT ![u] = transferCooldown[u]]
        /\ remintApproval' \subseteq Users
    BY <1>7, SameFunction DEF IdentityInv
  <2> QED BY <1>6, <1>7, <2>1, OneUserChanges
<1>9. Sticks
  BY <1>2, <1>7, OneRecordSticks DEF IdentityInv
<1> QED BY <1>8, <1>9

LEMMA NothingWritten ==
    ASSUME IdentityInv, UNCHANGED identities, UNCHANGED <<ledger, burnThreshold, minRepaymentAmount>>
    PROVE  IdentityInv' /\ Sticks
<1>1. UNCHANGED <<nft, documents, history, transferCooldown, remintApproval>>
  BY DEF identities
<1>2. IdentityInv'
  BY <1>1 DEF IdentityInv
<1> QED BY <1>1, <1>2 DEF Sticks, BlemishStays, ApprovalIsFresh

LEMMA RewriteStep ==
    ASSUME IdentityInv, NEW u \in Users, NEW r, SameButScore(nft[u], r),
           nft[u].active \/ r = nft[u], RewriteScore(u, r)
    PROVE  IdentityInv' /\ Sticks
<1>1. UNCHANGED <<documents, transferCooldown, remintApproval, ledger, burnThreshold, minRepaymentAmount>>
  BY DEF RewriteScore, environment, governed
<1>2. CASE UNCHANGED <<nft, history>>
  <2>1. UNCHANGED identities
    BY <1>1, <1>2 DEF identities
  <2> QED BY <1>1, <2>1, NothingWritten
<1>3. CASE WriteScore(u, r) /\ r # nft[u]
  BY <1>1, <1>3, ScoreStep
<1> QED BY <1>2, <1>3 DEF RewriteScore

LEMMA WriteStep ==
    ASSUME IdentityInv, NEW u \in Users,
           \/ \E n \in Repayments : UpdateScore(u, n)
           \/ \E n \in Penalties : DecreaseScore(u, n)
           \/ \E n \in Deltas : ApplyScoreDelta(u, n)
    PROVE  IdentityInv' /\ Sticks
<1>0. nft[u] \in Reputations
  BY DEF IdentityInv
<1>1. ASSUME NEW n \in Repayments, UpdateScore(u, n) PROVE IdentityInv' /\ Sticks
  <2>1. PICK delta : delta = clamp(n \div POINTS_DENOMINATOR, 0, MAX_SCORE)
    OBVIOUS
  <2>2. n \div POINTS_DENOMINATOR \in Int
    BY NFTConstants
  <2>3. delta \in Int
    BY <2>1, <2>2, ScoreConstants, ClampBounds
  <2>4. PICK r : r = apply_score_delta(nft[u], delta)
    OBVIOUS
  <2>5. SameButScore(nft[u], r)
    BY <1>0, <2>3, <2>4, ScoredRecord
  <2>6. /\ nft[u].active /\ WriteScore(u, r)
        /\ UNCHANGED <<documents, transferCooldown, remintApproval, ledger, burnThreshold,
                       minRepaymentAmount>>
    BY <1>1, <2>1, <2>4 DEF UpdateScore, environment, governed
  <2> QED BY <2>5, <2>6, ScoreStep
<1>2. ASSUME NEW n \in Penalties, DecreaseScore(u, n) PROVE IdentityInv' /\ Sticks
  <2>1. n \in Int /\ n >= 0
    BY NFTConstants
  <2>2. PICK r : r = decrease_score(nft[u], n)
    OBVIOUS
  <2>3. SameButScore(nft[u], r) /\ (nft[u].active \/ r = nft[u])
    BY <1>0, <2>1, <2>2, ScoredRecord
  <2>4. RewriteScore(u, r)
    BY <1>2, <2>2 DEF DecreaseScore
  <2> QED BY <2>3, <2>4, RewriteStep
<1>3. ASSUME NEW n \in Deltas, ApplyScoreDelta(u, n) PROVE IdentityInv' /\ Sticks
  <2>1. n \in Int
    BY NFTConstants
  <2>2. PICK r : r = apply_score_delta(nft[u], n)
    OBVIOUS
  <2>3. SameButScore(nft[u], r)
    BY <1>0, <2>1, <2>2, ScoredRecord
  <2>4. nft[u].active /\ RewriteScore(u, r)
    BY <1>3, <2>2 DEF ApplyScoreDelta
  <2> QED BY <2>3, <2>4, RewriteStep
<1> QED BY <1>1, <1>2, <1>3

LEMMA SeizeStep ==
    ASSUME IdentityInv, NEW u \in Users, SeizeCollateral(u)
    PROVE  IdentityInv' /\ Sticks
<1>1. UserOK(nft[u], documents[u], history[u], transferCooldown[u]) /\ nft[u] \in Reputations
  BY DEF IdentityInv
<1>2. PICK r : r = [nft[u] EXCEPT !.seized = TRUE]
  OBVIOUS
<1>3. /\ r \in Reputations /\ r.active = nft[u].active /\ r.score = nft[u].score
      /\ r.burned = nft[u].burned /\ r.seized = TRUE
  BY <1>1, <1>2 DEF Reputations
<1>4. /\ nft[u].active
      /\ UNCHANGED <<documents, history, transferCooldown, remintApproval, ledger, burnThreshold,
                     minRepaymentAmount>>
  BY DEF SeizeCollateral, environment, governed
<1>5. nft' = [nft EXCEPT ![u] = r]
  BY <1>2, Zenon DEF SeizeCollateral
<1>6. UserOK(r, documents[u], history[u], transferCooldown[u])
  BY <1>1, <1>3, <1>4 DEF UserOK
<1>7. IdentityInv'
  BY <1>4, <1>5, <1>6, OneRecordChanges
<1>8. Sticks
  BY <1>3, <1>5, OneRecordSticks DEF IdentityInv
<1> QED BY <1>7, <1>8

LEMMA DefaultStep ==
    ASSUME IdentityInv, NEW u \in Users, RecordDefault(u)
    PROVE  IdentityInv' /\ Sticks
<1>1. UserOK(nft[u], documents[u], history[u], transferCooldown[u]) /\ nft[u] \in Reputations
  BY DEF IdentityInv
<1>2. PICK r : r = record_default(nft[u], burnThreshold)
  OBVIOUS
<1>3. /\ r \in Reputations /\ (~nft[u].active => r = nft[u])
      /\ nft[u].active /\ ~nft[u].burned /\ ~r.burned => r.active /\ r.seized /\ r.score = nft[u].score
  BY <1>1, <1>2, DefaultedRecord DEF IdentityInv
<1>4. UNCHANGED <<ledger, burnThreshold, minRepaymentAmount>>
  BY DEF RecordDefault, environment, governed
<1>5. CASE nft[u].active /\ r.burned
  BY <1>2, <1>4, <1>5, ErasedUser DEF RecordDefault
<1>6. CASE ~(nft[u].active /\ r.burned)
  <2>1. /\ nft' = [nft EXCEPT ![u] = r]
        /\ UNCHANGED <<documents, history, transferCooldown, remintApproval>>
    BY <1>2, <1>6 DEF RecordDefault
  <2>2. UserOK(r, documents[u], history[u], transferCooldown[u])
    BY <1>1, <1>3, <1>6 DEF UserOK
  <2>3. IdentityInv'
    BY <1>4, <2>1, <2>2, OneRecordChanges
  <2>4. Sticks
    BY <1>1, <1>3, <1>6, <2>1, OneRecordSticks DEF IdentityInv, UserOK
  <2> QED BY <2>3, <2>4
<1> QED BY <1>5, <1>6

(* A transfer moves the identity as it is: the address it goes to has      *)
(* nothing of its own to mix in, and the one it leaves keeps nothing.      *)
LEMMA MovedIdentity ==
    ASSUME IdentityInv, NEW from \in Users, NEW to \in Users,
           TransferAllowed(from, to), MoveIdentity(from, to)
    PROVE  /\ nft[from].active /\ ~nft[from].burned /\ from # to
           /\ ~nft[to].active /\ ~nft[to].burned /\ ~nft[to].seized
           /\ nft' = [nft EXCEPT ![to] = nft[from], ![from] = NoNFT]
           /\ history' = [history EXCEPT ![to] = history[from], ![from] = <<>>]
           /\ documents' = [documents EXCEPT ![to] = documents[from], ![from] = NoDocuments]
<1>1. PICK moved : moved = nft[from]
  OBVIOUS
<1>2. /\ UserOK(moved, documents[from], history[from], transferCooldown[from])
      /\ UserOK(nft[to], documents[to], history[to], transferCooldown[to])
  BY <1>1 DEF IdentityInv
<1>3. /\ from # to /\ moved \in Reputations /\ moved.active /\ moved.burned = FALSE
      /\ nft[to].active = FALSE /\ nft[to].burned = FALSE /\ nft[to].seized = FALSE
      /\ nft[to].defaults = 0 /\ history[to] = <<>>
  BY <1>1, <1>2 DEF TransferAllowed, UserOK, Empty, Reputations
<1>4. PICK m1 : m1 = [moved EXCEPT !.burned = nft[to].burned]
  OBVIOUS
<1>5. m1 = moved
  BY <1>3, <1>4 DEF Reputations
<1>6. PICK m2 : m2 = [m1 EXCEPT !.seized = moved.seized \/ nft[to].seized]
  OBVIOUS
<1>7. m2 = moved
  <2>1. (moved.seized \/ nft[to].seized) = moved.seized
    BY <1>3 DEF Reputations
  <2>2. m2 = [moved EXCEPT !.seized = moved.seized]
    BY <1>5, <1>6, <2>1
  <2> QED BY <1>3, <2>2 DEF Reputations
<1>8. PICK m3 : m3 = [m2 EXCEPT !.defaults = IF moved.defaults > 0 THEN m2.defaults ELSE nft[to].defaults]
  OBVIOUS
<1>9. m3 = moved
  BY <1>3, <1>7, <1>8 DEF Reputations
<1>10. PICK left : left = [NoNFT EXCEPT !.burned = moved.burned]
  OBVIOUS
<1>11. left = NoNFT
  BY <1>3, <1>10, NoNFTRecord DEF Reputations
<1>12. nft' = [nft EXCEPT ![to] = m3, ![from] = left]
  BY <1>1, <1>4, <1>6, <1>8, <1>10, Zenon DEF MoveIdentity
<1>13. nft' = [nft EXCEPT ![to] = nft[from], ![from] = NoNFT]
  BY <1>1, <1>9, <1>11, <1>12
<1>14. history' = [history EXCEPT ![to] = history[from], ![from] = <<>>]
  <2>1. CASE history[from] = <<>>
    <3>1. history' = history /\ history \in [Users -> Seq(ScoreEntry)]
      BY <2>1 DEF MoveIdentity, IdentityInv
    <3> QED BY <1>3, <2>1, <3>1
  <2>2. CASE history[from] # <<>>
    BY <2>2, Zenon DEF MoveIdentity
  <2> QED BY <2>1, <2>2
<1>15. documents' = [documents EXCEPT ![to] = documents[from], ![from] = NoDocuments]
  BY DEF MoveIdentity
<1> QED BY <1>1, <1>3, <1>13, <1>14, <1>15

LEMMA TransferStep ==
    ASSUME IdentityInv, NEW from \in Users, NEW to \in Users, Transfer(from, to)
    PROVE  IdentityInv' /\ Sticks
<1>1. /\ nft[from].active /\ ~nft[from].burned /\ from # to
      /\ ~nft[to].active /\ ~nft[to].burned /\ ~nft[to].seized
      /\ nft' = [nft EXCEPT ![to] = nft[from], ![from] = NoNFT]
      /\ history' = [history EXCEPT ![to] = history[from], ![from] = <<>>]
      /\ documents' = [documents EXCEPT ![to] = documents[from], ![from] = NoDocuments]
  BY MovedIdentity DEF Transfer
<1>2. /\ remintApproval' = remintApproval \ {from}
      /\ UNCHANGED <<ledger, burnThreshold, minRepaymentAmount>>
  BY DEF Transfer, environment, governed
<1>3. PICK c \in Nat : transferCooldown' = [transferCooldown EXCEPT ![from] = 0, ![to] = c]
  <2>1. ledger + TRANSFER_COOLDOWN_LEDGERS \in Nat
    BY NFTConstants DEF IdentityInv
  <2> QED BY <2>1 DEF Transfer
<1>4. /\ nft \in [Users -> Reputations] /\ documents \in [Users -> AnyDocuments]
      /\ history \in [Users -> Seq(ScoreEntry)] /\ transferCooldown \in [Users -> Nat]
      /\ remintApproval \subseteq Users
  BY DEF IdentityInv
<1>5. /\ nft' \in [Users -> Reputations] /\ documents' \in [Users -> AnyDocuments]
      /\ history' \in [Users -> Seq(ScoreEntry)] /\ transferCooldown' \in [Users -> Nat]
  <2>1. <<>> \in Seq(ScoreEntry)
    OBVIOUS
  <2> QED BY <1>1, <1>3, <1>4, <2>1, NoNFTRecord, NoDocumentsTyped
<1>6. /\ nft'[to] = nft[from] /\ nft'[from] = NoNFT
      /\ documents'[to] = documents[from] /\ documents'[from] = NoDocuments
      /\ history'[to] = history[from] /\ history'[from] = <<>>
      /\ transferCooldown'[to] = c /\ transferCooldown'[from] = 0
  BY <1>1, <1>3, <1>4
<1>7. \A v \in Users \ {from, to} :
          /\ nft'[v] = nft[v] /\ documents'[v] = documents[v]
          /\ history'[v] = history[v] /\ transferCooldown'[v] = transferCooldown[v]
  BY <1>1, <1>3, <1>4
<1>8. UserOK(NoNFT, NoDocuments, <<>>, 0)
  BY NoNFTRecord, NoDocumentsTyped, NFTConstants DEF UserOK, Empty, Chains
<1>9. UserOK(nft[from], documents[from], history[from], c)
  <2>1. UserOK(nft[from], documents[from], history[from], transferCooldown[from])
    BY DEF IdentityInv
  <2> QED BY <1>1, <2>1 DEF UserOK
<1>10. ASSUME NEW v \in Users
       PROVE  UserOK(nft'[v], documents'[v], history'[v], transferCooldown'[v])
  <2>1. CASE v = from
    BY <1>6, <1>8, <2>1
  <2>2. CASE v = to
    BY <1>6, <1>9, <2>2
  <2>3. CASE v \notin {from, to}
    <3>1. UserOK(nft[v], documents[v], history[v], transferCooldown[v])
      BY DEF IdentityInv
    <3> QED BY <1>7, <2>3, <3>1
  <2> QED BY <2>1, <2>2, <2>3
<1>11. IdentityInv'
  BY <1>2, <1>5, <1>10 DEF IdentityInv
<1>12. Sticks
  <2>1. BlemishStays
    BY <1>1, <1>6, <1>7 DEF BlemishStays
  <2>2. ApprovalIsFresh
    BY <1>1, <1>6, <1>7, NoNFTRecord DEF ApprovalIsFresh
  <2> QED BY <2>1, <2>2 DEF Sticks
<1> QED BY <1>11, <1>12

------------------------------------------------------------------------------
(* Minters and administration.                                             *)

LEMMA InitializeStep ==
    ASSUME MinterInv, IdentityInv, NEW a \in Minters, Initialize(a)
    PROVE  MinterInv' /\ IdentityInv' /\ Sticks
<1>1. /\ admin = NoAddress /\ admin' = a /\ proposedAdmin' = proposedAdmin
      /\ minters' = minters \cup {a} /\ minterList' = <<a>>
      /\ burnThreshold' = DEFAULT_BURN_THRESHOLD
      /\ UNCHANGED <<ledger, minRepaymentAmount, identities>>
  BY DEF Initialize, environment
<1>2. minters = {}
  BY <1>1 DEF MinterInv, Entries
<1>3. /\ <<a>> \in Seq(Minters) /\ Len(<<a>>) = 1
      /\ DOMAIN <<a>> = {1} /\ <<a>>[1] = a
  OBVIOUS
<1>4. NoRepeats(<<a>>) /\ Entries(<<a>>) = {a}
  BY <1>3 DEF NoRepeats, Entries
<1>5. MinterInv'
  <2>1. a # NoAddress /\ 1 <= MAX_AUTHORIZED_MINTERS
    BY NFTConstants
  <2> QED BY <1>1, <1>2, <1>3, <1>4, <2>1 DEF MinterInv
<1>6. UNCHANGED <<nft, documents, history, transferCooldown, remintApproval>>
  BY <1>1 DEF identities
<1>7. burnThreshold' \in Nat \ {0}
  BY <1>1, NFTConstants
<1>8. IdentityInv'
  BY <1>1, <1>6, <1>7 DEF IdentityInv
<1>9. Sticks
  BY <1>6 DEF Sticks, BlemishStays, ApprovalIsFresh
<1> QED BY <1>5, <1>8, <1>9

LEMMA MinterStep ==
    ASSUME MinterInv, NEW a \in Minters, AuthorizeMinter(a) \/ RevokeMinter(a)
    PROVE  MinterInv'
<1>1. admin # NoAddress /\ UNCHANGED <<admin, proposedAdmin>>
  BY DEF AuthorizeMinter, RevokeMinter, governed
<1>2. CASE UNCHANGED writers
  BY <1>1, <1>2 DEF MinterInv, writers
<1>3. CASE /\ a \notin minters /\ Len(minterList) < MAX_AUTHORIZED_MINTERS
           /\ minterList' = Append(minterList, a) /\ minters' = minters \cup {a}
  <2>1. PICK n \in Nat : n = Len(minterList) /\ DOMAIN minterList = 1 .. n
    BY DEF MinterInv
  <2>2. PICK list : list = Append(minterList, a)
    OBVIOUS
  <2>3. /\ list \in Seq(Minters) /\ Len(list) = n + 1 /\ DOMAIN list = 1 .. n + 1
        /\ list[n + 1] = a /\ \A i \in 1 .. n : list[i] = minterList[i]
    BY <2>1, <2>2 DEF MinterInv
  <2>4. \A i \in 1 .. n : minterList[i] # a
    BY <1>3, <2>1 DEF MinterInv, Entries
  <2>5. NoRepeats(list)
    BY <2>1, <2>3, <2>4 DEF MinterInv, NoRepeats
  <2>6. Entries(list) = minters \cup {a}
    <3>1. minters = {minterList[i] : i \in 1 .. n}
      BY <2>1 DEF MinterInv, Entries
    <3>2. 1 .. n + 1 = (1 .. n) \cup {n + 1}
      BY <2>1
    <3> QED BY <2>3, <3>1, <3>2 DEF Entries
  <2>7. Len(list) <= MAX_AUTHORIZED_MINTERS
    BY <1>3, <2>1, <2>3, NFTConstants
  <2> QED BY <1>1, <1>3, <2>2, <2>3, <2>5, <2>6, <2>7 DEF MinterInv
<1>4. CASE RevokeMinter(a)
  <2>1. minters' = minters \ {a} /\ minterList' = Without(minterList, a)
    BY <1>4 DEF RevokeMinter
  <2>2. PICK list : list = Without(minterList, a)
    OBVIOUS
  <2>3. /\ list \in Seq(Minters) /\ NoRepeats(list)
        /\ Entries(list) = Entries(minterList) \ {a} /\ Len(list) <= Len(minterList)
    BY <2>2, WithoutFacts DEF MinterInv
  <2>4. Len(list) <= MAX_AUTHORIZED_MINTERS
    BY <2>3, NFTConstants DEF MinterInv
  <2> QED BY <1>1, <2>1, <2>2, <2>3, <2>4 DEF MinterInv
<1> QED BY <1>2, <1>3, <1>4 DEF AuthorizeMinter

LEMMA AdminStep ==
    ASSUME MinterInv, IdentityInv, AdminNext
    PROVE  MinterInv' /\ IdentityInv' /\ Sticks
<1>1. CASE \E a \in Minters : Initialize(a)
  BY <1>1, InitializeStep
<1>2. CASE \E a \in Minters : AuthorizeMinter(a) \/ RevokeMinter(a)
  <2>1. MinterInv'
    BY <1>2, MinterStep
  <2>2. UNCHANGED identities /\ UNCHANGED <<ledger, burnThreshold, minRepaymentAmount>>
    BY <1>2 DEF AuthorizeMinter, RevokeMinter, environment, governed
  <2> QED BY <2>1, <2>2, NothingWritten
<1>3. CASE \/ \E a \in Minters : ProposeAdmin(a) \/ SetAdmin(a)
           \/ AcceptAdmin \/ SetLoanManager \/ \E b \in BOOLEAN : SetPaused(b)
  <2>1. /\ UNCHANGED identities /\ UNCHANGED <<ledger, burnThreshold, minRepaymentAmount>>
        /\ UNCHANGED <<minters, minterList>>
    BY <1>3 DEF ProposeAdmin, SetAdmin, AcceptAdmin, SetLoanManager, SetPaused, environment, writers
  <2>2. /\ admin' \in Minters \cup {NoAddress} /\ proposedAdmin' \in Minters \cup {NoAddress}
        /\ admin' = NoAddress => admin = NoAddress
    BY <1>3, NFTConstants DEF MinterInv, ProposeAdmin, SetAdmin, AcceptAdmin, SetLoanManager, SetPaused
  <2>3. MinterInv'
    BY <2>1, <2>2 DEF MinterInv
  <2> QED BY <2>1, <2>3, NothingWritten
<1>4. CASE \/ \E n \in Repayments : SetMinRepaymentAmount(n)
           \/ \E n \in Thresholds : SetDefaultBurnThreshold(n)
  <2>1. UNCHANGED <<identities, ledger, admin, proposedAdmin, minters, minterList>>
    BY <1>4 DEF SetMinRepaymentAmount, SetDefaultBurnThreshold, environment, writers
  <2>2. burnThreshold' \in Nat \ {0} /\ minRepaymentAmount' \in Nat
    BY <1>4, NFTConstants DEF IdentityInv, SetMinRepaymentAmount, SetDefaultBurnThreshold
  <2>3. UNCHANGED <<nft, documents, history, transferCooldown, remintApproval>>
    BY <2>1 DEF identities
  <2>4. IdentityInv'
    BY <2>1, <2>2, <2>3 DEF IdentityInv
  <2>5. MinterInv'
    BY <2>1 DEF MinterInv
  <2>6. Sticks
    BY <2>3 DEF Sticks, BlemishStays, ApprovalIsFresh
  <2> QED BY <2>4, <2>5, <2>6
<1> QED BY <1>1, <1>2, <1>3, <1>4 DEF AdminNext

------------------------------------------------------------------------------
LEMMA NFTInitial == Init => IdentityInv /\ MinterInv
<1> SUFFICES ASSUME Init PROVE IdentityInv /\ MinterInv
  OBVIOUS
<1>1. PICK m : m = minted(MAX_SCORE)
  OBVIOUS
<1>2. m \in Reputations /\ m.active /\ ~m.burned
  BY <1>1, ScoreConstants, MintedRecord
<1>3. \A u \in Users : nft[u] = m \/ nft[u] = NoNFT
  BY <1>1 DEF Init
<1>4. /\ nft \in [Users -> Reputations] /\ documents = [u \in Users |-> NoDocuments]
      /\ history = [u \in Users |-> <<>>] /\ transferCooldown = [u \in Users |-> 0]
      /\ remintApproval = {} /\ ledger = 0 /\ burnThreshold = DEFAULT_BURN_THRESHOLD
      /\ minRepaymentAmount = 0
  BY <1>1, <1>2, NoNFTRecord DEF Init
<1>5. UserOK(m, NoDocuments, <<>>, 0) /\ UserOK(NoNFT, NoDocuments, <<>>, 0)
  BY <1>2, NoNFTRecord, NoDocumentsTyped, NFTConstants DEF UserOK, Empty, Chains
<1>6. \A u \in Users : UserOK(nft[u], documents[u], history[u], transferCooldown[u])
  BY <1>3, <1>4, <1>5
<1>7. IdentityInv
  BY <1>4, <1>6, NoDocumentsTyped, NFTConstants DEF IdentityInv
<1>8. MinterInv
  <2>1. <<>> \in Seq(Minters) /\ Len(<<>>) = 0 /\ DOMAIN <<>> = {}
    OBVIOUS
  <2>2. NoRepeats(<<>>) /\ Entries(<<>>) = {}
    BY <2>1 DEF NoRepeats, Entries
  <2> QED BY <2>1, <2>2, NFTConstants DEF Init, MinterInv
<1> QED BY <1>7, <1>8

LEMMA NFTStep ==
    IdentityInv /\ MinterInv /\ [Next]_vars =>
        IdentityInv' /\ MinterInv' /\ [BlemishStays /\ ApprovalIsFresh]_vars
<1> SUFFICES ASSUME IdentityInv, MinterInv, [Next]_vars
             PROVE  IdentityInv' /\ MinterInv' /\ Sticks
  BY DEF Sticks
<1>1. CASE AdminNext
  BY <1>1, AdminStep
<1>2. ASSUME UNCHANGED <<governed, writers>> PROVE MinterInv'
  BY <1>2 DEF governed, writers, MinterInv
<1>3. CASE CloseLedger
  <2>1. /\ UNCHANGED <<nft, documents, history, transferCooldown, remintApproval>>
        /\ UNCHANGED <<burnThreshold, minRepaymentAmount>> /\ ledger' = ledger + 1
    BY <1>3 DEF CloseLedger, governed, identities
  <2>2. IdentityInv'
    BY <2>1 DEF IdentityInv
  <2>3. Sticks
    BY <2>1 DEF Sticks, BlemishStays, ApprovalIsFresh
  <2> QED BY <1>2, <1>3, <2>2, <2>3 DEF CloseLedger
<1>4. CASE UNCHANGED vars \/ \E u \in Users : LoansChange(u)
  <2>1. UNCHANGED <<governed, writers, identities, ledger>>
    BY <1>4 DEF vars, environment, LoansChange
  <2>2. UNCHANGED <<ledger, burnThreshold, minRepaymentAmount>>
    BY <2>1 DEF governed
  <2> QED BY <1>2, <2>1, <2>2, NothingWritten
<1>5. ASSUME NEW u \in Users,
             \/ \E n \in Scores, d \in NewDocuments : Mint(u, n, d) \/ AdminRemint(u, n, d)
             \/ ApproveRemint(u) \/ Burn(u) \/ SeizeCollateral(u) \/ RecordDefault(u)
             \/ \E v \in Users : Transfer(u, v)
      PROVE  IdentityInv' /\ MinterInv' /\ Sticks
  <2>1. UNCHANGED <<governed, writers>>
    BY <1>5 DEF Mint, AdminRemint, ApproveRemint, Burn, SeizeCollateral, RecordDefault, Transfer
  <2>2. MinterInv'
    BY <1>2, <2>1
  <2> HIDE DEF IdentityInv, Sticks, MinterInv
  <2> QED BY <1>5, <2>2, MintStep, RemintStep, ApproveStep, BurnStep, SeizeStep, DefaultStep, TransferStep
<1>6. CASE WriteNext
  <2>1. PICK u \in Users :
            \/ \E n \in Repayments : UpdateScore(u, n)
            \/ \E n \in Penalties : DecreaseScore(u, n)
            \/ \E n \in Deltas : ApplyScoreDelta(u, n)
            \/ \E uri \in Uris : UpdateMetadataUri(u, uri)
            \/ \E h \in Hashes \cup {ZeroHash} : UpdateHistoryHash(u, h)
    BY <1>6 DEF WriteNext
  <2>2. UNCHANGED <<governed, writers>>
    BY <2>1 DEF UpdateScore, DecreaseScore, ApplyScoreDelta, RewriteScore, UpdateMetadataUri,
                UpdateHistoryHash
  <2>3. MinterInv'
    BY <1>2, <2>2
  <2> HIDE DEF IdentityInv, Sticks, MinterInv
  <2>4. IdentityInv' /\ Sticks
    BY <2>1, WriteStep, DocumentStep
  <2> QED BY <2>3, <2>4
<1> HIDE DEF IdentityInv, Sticks, MinterInv
<1>7. CASE IdentityNext
  BY <1>4, <1>5, <1>7 DEF IdentityNext
<1> QED BY <1>1, <1>3, <1>4, <1>6, <1>7 DEF Next

LEMMA NFTInvariant == Spec => [](IdentityInv /\ MinterInv)
BY NFTInitial, NFTStep, PTL DEF Spec

(* The keys that remittance_nft's entry points update by hand agree, for   *)
(* any users, minters, scores, limits and order of calls: an address       *)
(* without an NFT keeps nothing of a former one, the score log is a chain  *)
(* that ends in the score, and the minter list names each flagged minter   *)
(* once.                                                                   *)
THEOREM RecordsAlwaysAgree == Spec => []RecordsAgree
<1>1. IdentityInv => NoResidue /\ HistoryChains
  BY DEF IdentityInv, UserOK, Empty, Chains, NoResidue, HistoryChains
<1>2. MinterInv => MinterListAgrees
  BY LengthCounts DEF MinterInv, MinterListAgrees, Entries, ToSet
<1> QED BY <1>1, <1>2, NFTInvariant, PTL DEF RecordsAgree

(* No sequence of calls of remittance_nft sheds bad credit: a seizure      *)
(* leaves an address only with a burn or with the identity itself, and a   *)
(* burned address revives only on an approval given after the burn.        *)
THEOREM BadCreditAlwaysSticks == Spec => BadCreditSticks
BY NFTInitial, NFTStep, PTL DEF Spec, BadCreditSticks

============================================================================
