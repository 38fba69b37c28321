---------------------------- MODULE RequestProofs ----------------------------
(***************************************************************************)
(* What becomes of a request, proved for every number of wallets, logins,  *)
(* requests, tokens, keys, records, releases, amounts and faults.          *)
(*   - Sign-in, the guards and the limiters: a challenge mints one token,  *)
(*     of its own wallet, what is served is within the rights of the       *)
(*     caller's role as of now, and a limiter admits no more than its      *)
(*     maximum in a window.                                                *)
(*   - The Idempotency-Key middleware: a replay is true because a cached   *)
(*     response belongs to its key and to a call that ran; the runs under  *)
(*     one key are bounded because every run but the holder of the         *)
(*     reservation is paid for by a reservation that expired under it.     *)
(*   - Submitted transactions: a completed remittance was paid, and a row  *)
(*     of transaction_submissions that reports a final result reports the  *)
(*     ledger's.                                                           *)
(*   - The paged lists: no row comes twice, because what a client has seen *)
(*     is behind its cursor, which forgets a row's microseconds only to    *)
(*     its own side.                                                       *)
(*   - The money policy: its rounding is the nearest, in every mode; what  *)
(*     is shown is the nearest multiple of the last digit; a split pays    *)
(*     out the total, in order of the weights, because the units left over *)
(*     are no more than the shares that lost something.                    *)
(*   - The views: the list, the detail and the breakdown of a loan agree   *)
(*     on what the log gives it, its schedules pay out, and the pool's     *)
(*     dashboard and rebuilt series are the contract's books, because      *)
(*     replaying the events up to a bucket is the run that the             *)
(*     contract itself made.                                               *)
(***************************************************************************)
EXTENDS Access, RequestGates, Idempotency, Remittances, TransactionApi, Paging, PoolView,
        ArithmeticFacts, SequenceTheorems, FiniteSetTheorems, TLAPS

------------------------------------------------------------------------------
(* Sign-in.                                                                *)

LoginRecord == [pc : {"client", "consume", "answered"}, wallet : Wallets \cup {NoWallet},
                challenge : Challenges \cup {NoWallet}]
Scopes == UNION {ROLE_SCOPES[role] : role \in USER_ROLES}
SessionRecord == [state : {"none", "valid", "expired"}, wallet : Wallets \cup {NoWallet},
                  scopes : SUBSET Scopes]

AccessTyped ==
    /\ roleOf \in [Wallets -> USER_ROLES]
    /\ challenge \in [Challenges -> {"new", "issued", "gone"}]
    /\ login \in [Logins -> LoginRecord]
    /\ session \in [Logins -> SessionRecord]
    /\ mintedFrom \in [Challenges -> SUBSET Logins]
    /\ \A l \in Logins :
           /\ login[l].pc = "consume" => login[l].wallet \in Wallets /\ login[l].challenge \in Challenges
           /\ session[l].state # "none" =>
                  session[l].wallet \in Wallets /\ login[l].pc = "answered"

(* A challenge that signed a login in is gone, for good: no second login   *)
(* can consume it, and the one that did is answered and never runs again.  *)
MintedOnce ==
    \A c \in Challenges :
        /\ mintedFrom[c] # {} => challenge[c] = "gone"
        /\ \A l, m \in mintedFrom[c] : l = m
        /\ \A l \in mintedFrom[c] :
               /\ login[l].pc = "answered"
               /\ session[l].wallet = ChallengeOwner[c]

SignInInv == AccessTyped /\ MintedOnce

signInVars == <<roleOf, challenge, login, session, mintedFrom>>

LEMMA SignInInitial == AccessInit => SignInInv
BY AccessConstants
DEF AccessInit, SignInInv, AccessTyped, MintedOnce, LoginRecord, SessionRecord,
    NoLogin, NoSession, USER_ROLES

(* The token a login mints is one of its wallet.                           *)
LEMMA TokenTyped ==
    ASSUME AccessTyped, NEW l \in Logins, login[l].pc = "consume"
    PROVE  /\ generateJwtToken(l) \in SessionRecord
           /\ generateJwtToken(l).wallet = login[l].wallet
<1>1. roleOf[login[l].wallet] \in USER_ROLES
  BY DEF AccessTyped
<1>2. resolveScopesForRole(roleOf[login[l].wallet]) \in SUBSET Scopes
  BY <1>1 DEF resolveScopesForRole, Scopes
<1>3. login[l].wallet \in Wallets
  BY DEF AccessTyped
<1> QED BY <1>2, <1>3 DEF generateJwtToken, SessionRecord

LEMMA SignInStep == SignInInv /\ [AccessNext]_accessVars => SignInInv'
<1> SUFFICES ASSUME SignInInv, [AccessNext]_accessVars PROVE SignInInv'
  OBVIOUS
<1> USE DEF SignInInv, AccessTyped, MintedOnce, LoginRecord, SessionRecord
<1>1. ASSUME NEW c \in Challenges, generateChallenge(c) \/ challengeExpires(c)
      PROVE  SignInInv'
  BY <1>1 DEF generateChallenge, challengeExpires
<1>2. ASSUME NEW l \in Logins, NEW w \in Wallets, NEW c \in Challenges, beginLogin(l, w, c)
      PROVE  SignInInv'
  BY <1>2 DEF beginLogin
<1>3. ASSUME NEW l \in Logins, signIn(l) PROVE SignInInv'
  <2> DEFINE c == login[l].challenge
  <2>1. /\ login[l].pc = "consume" /\ c \in Challenges
        /\ login' = [login EXCEPT ![l].pc = "answered"] /\ UNCHANGED roleOf
    BY <1>3 DEF signIn
  <2>2. CASE /\ verifyAndConsumeChallenge(l)
             /\ session' = [session EXCEPT ![l] = generateJwtToken(l)]
             /\ mintedFrom' = [mintedFrom EXCEPT ![login[l].challenge] = @ \cup {l}]
    <3>1. PICK token : token = generateJwtToken(l)
      OBVIOUS
    <3>2. token \in SessionRecord /\ token.wallet = login[l].wallet
      BY <2>1, <3>1, TokenTyped
    <3>3. session' = [session EXCEPT ![l] = token]
      BY <2>2, <3>1, Zenon
    <3>4. /\ challenge[c] = "issued" /\ ChallengeOwner[c] = login[l].wallet
          /\ challenge' = [challenge EXCEPT ![c] = "gone"]
          /\ mintedFrom' = [mintedFrom EXCEPT ![c] = @ \cup {l}]
      BY <2>2, Zenon DEF verifyAndConsumeChallenge, Consumes
    <3>5. AccessTyped'
      BY <2>1, <3>2, <3>3, <3>4, SMTT(30)
    <3>6. mintedFrom[c] = {}
      BY <2>1, <3>4
    <3>7. \A d \in Challenges : l \notin mintedFrom[d]
      BY <2>1
    <3>8. MintedOnce'
      BY <2>1, <3>2, <3>3, <3>4, <3>6, <3>7
    <3> QED BY <3>5, <3>8, Zenon
  <2>3. CASE UNCHANGED <<session, mintedFrom>>
    <3>1. challenge' \in {challenge, [challenge EXCEPT ![c] = "gone"]}
      BY <1>3, <2>1, <2>3 DEF signIn, verifyAndConsumeChallenge, Consumes
    <3>2. challenge' \in [Challenges -> {"new", "issued", "gone"}]
      BY <2>1, <3>1
    <3>3. \A d \in Challenges : challenge[d] = "gone" => challenge'[d] = "gone"
      BY <2>1, <3>1
    <3>4. AccessTyped'
      BY <2>1, <2>3, <3>2
    <3>5. MintedOnce'
      BY <2>1, <2>3, <3>2, <3>3
    <3> QED BY <3>4, <3>5, Zenon
  <2> HIDE DEF SignInInv
  <2> QED BY <1>3, <2>2, <2>3, Zenon DEF signIn
<1>4. ASSUME NEW l \in Logins, tokenExpires(l) PROVE SignInInv'
  <2>1. session[l] \in SessionRecord /\ session[l].state = "valid"
    BY <1>4 DEF tokenExpires
  <2>2. PICK token : token = [session[l] EXCEPT !.state = "expired"]
    OBVIOUS
  <2>3. /\ token \in SessionRecord
        /\ token.wallet = session[l].wallet
    BY <2>1, <2>2
  <2>4. session' = [session EXCEPT ![l] = token]
    BY <1>4, <2>2, Zenon DEF tokenExpires
  <2>5. UNCHANGED <<roleOf, challenge, login, mintedFrom>>
    BY <1>4 DEF tokenExpires
  <2> QED BY <2>1, <2>3, <2>4, <2>5
<1>5. CASE release
  BY <1>5 DEF release
<1>6. CASE UNCHANGED signInVars
  BY <1>6 DEF signInVars
<1> HIDE DEF SignInInv
<1> QED
  BY <1>1, <1>2, <1>3, <1>4, <1>5, <1>6
  DEF AccessNext, accessVars, signInVars, logout, beginVisit, checkRevocation, runGuards,
      visitWithKey, endVisit

(* Of any number of logins racing with one signed message, at most one     *)
(* gets a token, and the token is of the wallet the challenge was issued   *)
(* to: verifyAndConsumeChallenge matches and deletes in one step.          *)
THEOREM ChallengesMintOnce == AccessSpec => []OneTokenPerChallenge
<1>1. SignInInv => OneTokenPerChallenge
  <2> SUFFICES ASSUME SignInInv, NEW c \in Challenges
               PROVE  Cardinality(mintedFrom[c]) <= 1
    BY DEF SignInInv, MintedOnce, OneTokenPerChallenge
  <2>1. CASE mintedFrom[c] = {}
    BY <2>1, FS_EmptySet
  <2>2. CASE mintedFrom[c] # {}
    <3>1. PICK l \in mintedFrom[c] : TRUE
      BY <2>2
    <3>2. \A m \in mintedFrom[c] : m = l
      BY <3>1 DEF SignInInv, MintedOnce
    <3>3. mintedFrom[c] = {l}
      BY <3>1, <3>2
    <3>4. Cardinality({l}) = 1
      BY FS_Singleton
    <3> QED BY <3>3, <3>4
  <2> QED BY <2>1, <2>2
<1> QED
  BY <1>1, SignInInitial, SignInStep, PTL DEF AccessSpec

------------------------------------------------------------------------------
(* Guarded requests.                                                       *)

VisitSteps == {"none", "revocation", "guards", "served", "refused"}
VisitRecord ==
    [pc : VisitSteps, guard : {Open} \cup MountedGuards, token : Logins \cup {NoWallet},
     key : ApiKeys \cup {"none"}, owner : Wallets \cup {NoWallet}, wallet : Wallets \cup {NoWallet},
     role : USER_ROLES, scopes : SUBSET Scopes, loggedOut : BOOLEAN, unchecked : BOOLEAN]

VisitTyped ==
    /\ visit \in VisitRecord
    /\ revoked \subseteq Logins
    /\ visit.pc \in {"revocation", "guards"} =>
           visit.token \in Logins /\ session[visit.token].state # "none"

ByToken == visit.pc = "guards" \/ (visit.pc = "served" /\ visit.guard.auth = "jwt")

(* A revocation entry goes only with its token, so a logout that a request *)
(* has seen is still there when Redis is asked, or the token has expired.  *)
LogoutSeen ==
    visit.loggedOut =>
        /\ visit.pc = "revocation" =>
               visit.token \in revoked \/ session[visit.token].state = "expired"
        /\ ByToken => visit.token \in Logins
                      /\ (visit.unchecked \/ session[visit.token].state = "expired")

(* Between the cap and the guards, and from them to the answer, no release *)
(* changes the wallet's role under the request.                            *)
RightsCapped ==
    ByToken => /\ visit.wallet \in Wallets
               /\ visit.role = roleOf[visit.wallet]
               /\ visit.scopes \subseteq resolveScopesForRole(visit.role)

GuardsPassed == (visit.pc = "served" /\ visit.guard.auth = "jwt") => Admits(visit)

VisitInv == SignInInv /\ VisitTyped /\ LogoutSeen /\ RightsCapped /\ GuardsPassed

LEMMA NoVisitTyped ==
    /\ NoVisit \in VisitRecord /\ NoVisit.pc = "none" /\ NoVisit.loggedOut = FALSE
    /\ NoVisit.key = "none"
BY DEF NoVisit, VisitRecord, VisitSteps, USER_ROLES

LEMMA VisitInitial == AccessInit => VisitInv
<1> SUFFICES ASSUME AccessInit PROVE VisitInv
  OBVIOUS
<1>1. visit = NoVisit /\ revoked = {}
  BY DEF AccessInit
<1> QED
  BY <1>1, NoVisitTyped, SignInInitial
  DEF VisitInv, VisitTyped, LogoutSeen, RightsCapped, GuardsPassed, ByToken

(* What becomes of a request: the fields each step names, and no others.   *)
LEMMA VisitMoves ==
    ASSUME NEW v \in VisitRecord, NEW step \in VisitSteps
    PROVE  LET next == [v EXCEPT !.pc = step]
           IN  /\ next \in VisitRecord /\ next.pc = step
               /\ next.guard = v.guard /\ next.token = v.token /\ next.key = v.key
               /\ next.owner = v.owner /\ next.wallet = v.wallet /\ next.role = v.role
               /\ next.scopes = v.scopes /\ next.loggedOut = v.loggedOut
               /\ next.unchecked = v.unchecked
BY DEF VisitRecord, VisitSteps

LEMMA VisitBegins ==
    ASSUME NEW guard \in MountedGuards, NEW l \in Logins, NEW owner \in Wallets,
           NEW seen \in BOOLEAN,
           visit' = [NoVisit EXCEPT !.pc = "revocation", !.guard = guard, !.token = l,
                                  !.owner = owner, !.loggedOut = seen]
    PROVE  /\ visit' \in VisitRecord /\ visit'.pc = "revocation" /\ visit'.token = l
           /\ visit'.guard = guard /\ visit'.loggedOut = seen
<1>1. PICK a : a = [NoVisit EXCEPT !.pc = "revocation"]
  OBVIOUS
<1>2. a \in VisitRecord /\ a.pc = "revocation"
  BY <1>1, NoVisitTyped, VisitMoves DEF VisitSteps
<1>3. PICK b : b = [a EXCEPT !.guard = guard]
  OBVIOUS
<1>4. b \in VisitRecord /\ b.pc = "revocation" /\ b.guard = guard
  BY <1>2, <1>3 DEF VisitRecord
<1>5. PICK c : c = [b EXCEPT !.token = l]
  OBVIOUS
<1>6. c \in VisitRecord /\ c.pc = "revocation" /\ c.guard = guard /\ c.token = l
  BY <1>4, <1>5 DEF VisitRecord
<1>7. PICK d : d = [c EXCEPT !.owner = owner]
  OBVIOUS
<1>8. d \in VisitRecord /\ d.pc = "revocation" /\ d.guard = guard /\ d.token = l
  BY <1>6, <1>7 DEF VisitRecord
<1>9. PICK e : e = [d EXCEPT !.loggedOut = seen]
  OBVIOUS
<1>10. e \in VisitRecord /\ e.pc = "revocation" /\ e.guard = guard /\ e.token = l
       /\ e.loggedOut = seen
  BY <1>8, <1>9 DEF VisitRecord
<1> QED BY <1>1, <1>3, <1>5, <1>7, <1>9, <1>10, Zenon

LEMMA VisitKeyed ==
    ASSUME NEW guard \in MountedGuards, NEW key \in ApiKeys, NEW step \in VisitSteps,
           visit' = [NoVisit EXCEPT !.pc = step, !.guard = guard, !.key = key]
    PROVE  visit' \in VisitRecord /\ visit'.pc = step /\ visit'.guard = guard /\ ~visit'.loggedOut
<1>1. PICK a : a = [NoVisit EXCEPT !.pc = step]
  OBVIOUS
<1>2. a \in VisitRecord /\ a.pc = step /\ ~a.loggedOut
  BY <1>1, NoVisitTyped, VisitMoves
<1>3. PICK b : b = [a EXCEPT !.guard = guard]
  OBVIOUS
<1>4. b \in VisitRecord /\ b.pc = step /\ b.guard = guard /\ ~b.loggedOut
  BY <1>2, <1>3 DEF VisitRecord
<1>5. PICK c : c = [b EXCEPT !.key = key]
  OBVIOUS
<1>6. c \in VisitRecord /\ c.pc = step /\ c.guard = guard /\ ~c.loggedOut
  BY <1>4, <1>5 DEF VisitRecord
<1> QED BY <1>1, <1>3, <1>5, <1>6, Zenon

LEMMA VisitPasses ==
    ASSUME visit \in VisitRecord, NEW wallet \in Wallets, NEW role \in USER_ROLES,
           NEW scopes \in SUBSET Scopes, NEW unchecked \in BOOLEAN,
           visit' = [visit EXCEPT !.pc = "guards", !.wallet = wallet, !.role = role,
                            !.scopes = scopes, !.unchecked = unchecked]
    PROVE  /\ visit' \in VisitRecord /\ visit'.pc = "guards" /\ visit'.token = visit.token
           /\ visit'.wallet = wallet /\ visit'.role = role /\ visit'.scopes = scopes
           /\ visit'.loggedOut = visit.loggedOut /\ visit'.unchecked = unchecked
<1> DEFINE Kept(r) == r \in VisitRecord /\ r.pc = "guards" /\ r.token = visit.token
                      /\ r.loggedOut = visit.loggedOut
<1>1. PICK a : a = [visit EXCEPT !.pc = "guards"]
  OBVIOUS
<1>2. Kept(a)
  BY <1>1, VisitMoves DEF VisitSteps
<1>3. PICK b : b = [a EXCEPT !.wallet = wallet]
  OBVIOUS
<1>4. Kept(b) /\ b.wallet = wallet
  BY <1>2, <1>3 DEF VisitRecord
<1>5. PICK c : c = [b EXCEPT !.role = role]
  OBVIOUS
<1>6. Kept(c) /\ c.wallet = wallet /\ c.role = role
  BY <1>4, <1>5 DEF VisitRecord
<1>7. PICK d : d = [c EXCEPT !.scopes = scopes]
  OBVIOUS
<1>8. Kept(d) /\ d.wallet = wallet /\ d.role = role /\ d.scopes = scopes
  BY <1>6, <1>7 DEF VisitRecord
<1>9. PICK e : e = [d EXCEPT !.unchecked = unchecked]
  OBVIOUS
<1>10. Kept(e) /\ e.wallet = wallet /\ e.role = role /\ e.scopes = scopes
       /\ e.unchecked = unchecked
  BY <1>8, <1>9 DEF VisitRecord
<1> QED BY <1>1, <1>3, <1>5, <1>7, <1>9, <1>10, Zenon

(* A step of sign-in, expiry or logout beside the request that is guarded. *)
LEMMA VisitUndisturbed ==
    ASSUME VisitInv, SignInInv', UNCHANGED <<visit, roleOf>>, revoked' \subseteq Logins,
           \A l \in Logins :
               /\ session[l].state # "none" => session'[l].state # "none"
               /\ session[l].state = "expired" => session'[l].state = "expired"
               /\ l \in revoked => l \in revoked' \/ session'[l].state = "expired"
    PROVE  VisitInv'
<1> USE DEF VisitInv, VisitTyped
<1>1. VisitTyped'
  OBVIOUS
<1>2. LogoutSeen'
  BY DEF LogoutSeen, ByToken
<1>3. RightsCapped' /\ GuardsPassed'
  BY DEF RightsCapped, GuardsPassed, ByToken, Admits, HasScopes, OwnerAllowed
<1> QED BY <1>1, <1>2, <1>3

(* A request that is over, or refused, or let in by a key, has no rights   *)
(* of a token left to go wrong.                                            *)
LEMMA VisitWithoutToken ==
    ASSUME SignInInv', visit' \in VisitRecord, revoked' \subseteq Logins,
           \/ visit'.pc \in {"none", "refused"}
           \/ visit'.pc = "served" /\ visit'.guard.auth = "key"
    PROVE  VisitTyped' /\ LogoutSeen' /\ RightsCapped' /\ GuardsPassed'
BY DEF VisitTyped, LogoutSeen, RightsCapped, GuardsPassed, ByToken

LEMMA VisitStep == VisitInv /\ [AccessNext]_accessVars => VisitInv'
<1> SUFFICES ASSUME VisitInv, [AccessNext]_accessVars PROVE VisitInv'
  OBVIOUS
<1>0. SignInInv /\ SignInInv' /\ VisitTyped /\ revoked \subseteq Logins /\ visit \in VisitRecord
  BY SignInStep DEF VisitInv, VisitTyped
<1>1. ASSUME NEW c \in Challenges, generateChallenge(c) \/ challengeExpires(c)
      PROVE  VisitInv'
  BY <1>0, <1>1, VisitUndisturbed DEF generateChallenge, challengeExpires
<1>2. ASSUME NEW l \in Logins, NEW w \in Wallets, NEW c \in Challenges, beginLogin(l, w, c)
      PROVE  VisitInv'
  BY <1>0, <1>2, VisitUndisturbed DEF beginLogin
<1>3. ASSUME NEW l \in Logins, signIn(l) PROVE VisitInv'
  <2>1. login[l].pc = "consume" /\ UNCHANGED <<roleOf, revoked, visit>>
    BY <1>3 DEF signIn
  <2>2. session[l].state = "none"
    BY <1>0, <2>1 DEF SignInInv, AccessTyped, SessionRecord
  <2>3. \A m \in Logins \ {l} : session'[m] = session[m]
    BY <1>0, <1>3 DEF signIn, SignInInv, AccessTyped
  <2> QED BY <1>0, <2>1, <2>2, <2>3, VisitUndisturbed
<1>4. ASSUME NEW l \in Logins, tokenExpires(l) PROVE VisitInv'
  <2>1. session'[l].state = "expired"
    BY <1>0, <1>4 DEF tokenExpires, SignInInv, AccessTyped, SessionRecord
  <2>2. \A m \in Logins \ {l} : session'[m] = session[m]
    BY <1>0, <1>4 DEF tokenExpires, SignInInv, AccessTyped
  <2>3. UNCHANGED <<roleOf, visit>> /\ revoked' = revoked \ {l}
    BY <1>4 DEF tokenExpires
  <2> QED BY <1>0, <2>1, <2>2, <2>3, VisitUndisturbed
<1>5. ASSUME NEW l \in Logins, logout(l) PROVE VisitInv'
  <2>1. UNCHANGED <<roleOf, visit, session>> /\ revoked' \in {revoked, revoked \cup {l}}
    BY <1>5 DEF logout
  <2> QED BY <1>0, <2>1, VisitUndisturbed
<1>6. ASSUME NEW guard \in MountedGuards, NEW l \in Logins, NEW owner \in Wallets,
             beginVisit(guard, l, owner)
      PROVE  VisitInv'
  <2>1. /\ session[l].state = "valid" /\ UNCHANGED <<session, revoked>>
        /\ visit' = [NoVisit EXCEPT !.pc = "revocation", !.guard = guard, !.token = l,
                                    !.owner = owner, !.loggedOut = (l \in revoked)]
    BY <1>6, Zenon DEF beginVisit
  <2>2. (l \in revoked) \in BOOLEAN
    OBVIOUS
  <2>4. /\ visit' \in VisitRecord /\ visit'.pc = "revocation" /\ visit'.token = l
        /\ visit'.loggedOut = (l \in revoked)
    BY <2>1, <2>2, VisitBegins
  <2>5. UNCHANGED <<session, revoked>> /\ session[l].state = "valid"
    BY <2>1, Zenon
  <2> QED
    BY <1>0, <2>2, <2>4, <2>5
    DEF VisitInv, VisitTyped, LogoutSeen, RightsCapped, GuardsPassed, ByToken
<1>7. CASE checkRevocation
  <2> DEFINE l == visit.token
             wallet == session[l].wallet
             role == roleOf[wallet]
             scopes == session[l].scopes \cap resolveScopesForRole(role)
             Passed(unchecked) == visit' = [visit EXCEPT !.pc = "guards", !.wallet = wallet,
                                                         !.role = role, !.scopes = scopes,
                                                         !.unchecked = unchecked]
  <2>1. visit.pc = "revocation" /\ UNCHANGED <<roleOf, session, revoked>>
    BY <1>7, Zenon DEF checkRevocation
  <2>2. /\ l \in Logins /\ wallet \in Wallets /\ role \in USER_ROLES
        /\ scopes \in SUBSET Scopes /\ scopes \subseteq resolveScopesForRole(role)
    BY <1>0, <2>1 DEF VisitTyped, SignInInv, AccessTyped, SessionRecord
  <2>3. ASSUME visit' = [visit EXCEPT !.pc = "refused"] PROVE VisitInv'
    <3>1. visit' \in VisitRecord /\ visit'.pc = "refused"
      BY <1>0, <2>3, VisitMoves DEF VisitSteps
    <3> QED BY <1>0, <2>1, <3>1, VisitWithoutToken DEF VisitInv
  <2>4. ASSUME NEW unchecked \in BOOLEAN, Passed(unchecked),
               unchecked \/ l \notin revoked
        PROVE  VisitInv'
    <3> HIDE DEF scopes, role, wallet
    <3>1. /\ visit' \in VisitRecord /\ visit'.pc = "guards" /\ visit'.token = l
          /\ visit'.wallet = wallet /\ visit'.role = role /\ visit'.scopes = scopes
          /\ visit'.loggedOut = visit.loggedOut /\ visit'.unchecked = unchecked
      BY <1>0, <2>2, <2>4, VisitPasses
    <3>2. unchecked \/ l \notin revoked
      BY <2>4, Zenon
    <3> HIDE DEF Passed
    <3>3. VisitTyped'
      BY <1>0, <2>1, <2>2, <3>1 DEF VisitTyped
    <3>4. LogoutSeen'
      BY <2>1, <2>2, <3>1, <3>2 DEF VisitInv, LogoutSeen, ByToken
    <3>5. RightsCapped'
      BY <2>1, <2>2, <3>1 DEF RightsCapped, role
    <3>6. GuardsPassed'
      BY <3>1 DEF GuardsPassed
    <3> QED BY <1>0, <3>3, <3>4, <3>5, <3>6 DEF VisitInv
  <2>5. \/ visit' = [visit EXCEPT !.pc = "refused"]
        \/ l \notin revoked /\ Passed(FALSE)
        \/ Passed(TRUE)
    BY <1>7, Zenon DEF checkRevocation, capPayloadToCurrentRole, isTokenRevoked
  <2> HIDE DEF Passed
  <2> QED BY <2>3, <2>4, <2>5
<1>8. CASE runGuards
  <2> DEFINE step == IF Admits(visit) THEN "served" ELSE "refused"
  <2>1. /\ visit.pc = "guards" /\ UNCHANGED <<roleOf, session, revoked>>
        /\ visit' = [visit EXCEPT !.pc = step] /\ step \in VisitSteps
    BY <1>8 DEF runGuards, VisitSteps
  <2>2. /\ visit' \in VisitRecord /\ visit'.pc = step
        /\ visit'.guard = visit.guard /\ visit'.token = visit.token
        /\ visit'.owner = visit.owner /\ visit'.wallet = visit.wallet
        /\ visit'.role = visit.role /\ visit'.scopes = visit.scopes
        /\ visit'.loggedOut = visit.loggedOut /\ visit'.unchecked = visit.unchecked
    <3> HIDE DEF step
    <3> QED BY <1>0, <2>1, VisitMoves, Zenon
  <2>3. VisitTyped'
    BY <1>0, <2>1, <2>2 DEF VisitTyped
  <2>4. LogoutSeen' /\ RightsCapped'
    BY <2>1, <2>2 DEF VisitInv, LogoutSeen, RightsCapped, ByToken
  <2>5. GuardsPassed'
    BY <2>2 DEF GuardsPassed, Admits, HasScopes, OwnerAllowed
  <2> QED BY <1>0, <2>3, <2>4, <2>5 DEF VisitInv
<1>9. ASSUME NEW guard \in MountedGuards, NEW key \in ApiKeys, visitWithKey(guard, key)
      PROVE  VisitInv'
  <2> DEFINE step == IF keyMatches(guard, key) THEN "served" ELSE "refused"
  <2>1. guard.auth = "key" /\ UNCHANGED revoked /\ step \in VisitSteps /\ step \in {"served", "refused"}
    BY <1>9 DEF visitWithKey, VisitSteps
  <2>2. visit' = [NoVisit EXCEPT !.pc = step, !.guard = guard, !.key = key]
    BY <1>9, Zenon DEF visitWithKey
  <2> HIDE DEF step
  <2>3. visit' \in VisitRecord /\ visit'.pc = step /\ visit'.guard = guard
    BY <2>1, <2>2, VisitKeyed
  <2>4. \/ visit'.pc \in {"none", "refused"}
        \/ visit'.pc = "served" /\ visit'.guard.auth = "key"
    BY <2>1, <2>3
  <2> QED BY <1>0, <2>1, <2>3, <2>4, VisitWithoutToken DEF VisitInv
<1>10. CASE endVisit \/ release
  <2>1. visit' = NoVisit /\ UNCHANGED revoked
    BY <1>10 DEF endVisit, release
  <2> QED BY <1>0, <2>1, NoVisitTyped, VisitWithoutToken DEF VisitInv
<1>11. CASE UNCHANGED accessVars
  BY <1>0, <1>11, VisitUndisturbed DEF accessVars
<1> QED
  BY <1>1, <1>2, <1>3, <1>4, <1>5, <1>6, <1>7, <1>8, <1>9, <1>10, <1>11 DEF AccessNext

(* Only an administrator's rights hold the scope that opens every route.   *)
LEMMA AdminScope ==
    ASSUME NEW role \in USER_ROLES, "admin:all" \in resolveScopesForRole(role)
    PROVE  role = "admin"
BY DEF USER_ROLES, resolveScopesForRole, ROLE_SCOPES

(* Whatever release, logout, expiry or Redis failure comes between a       *)
(* request's checks, what it is served lies within its wallet's role as    *)
(* configured now: the cap of capPayloadToCurrentRole on tokens minted     *)
(* under an earlier release, and the guards of every mounted route.        *)
THEOREM RequestsServedWithinRole == AccessSpec => []ServedWithinRole
<1>1. VisitInv => ServedWithinRole
  <2> SUFFICES ASSUME VisitInv, visit.pc = "served", visit.guard.auth = "jwt"
               PROVE  /\ visit.loggedOut => visit.unchecked \/ session[visit.token].state = "expired"
                      /\ roleOf[visit.wallet] \in visit.guard.roles
                      /\ roleOf[visit.wallet] # "admin" =>
                             visit.guard.scopes \subseteq resolveScopesForRole(roleOf[visit.wallet])
                      /\ visit.guard.owner \in {"wallet", "loan"} => visit.owner = visit.wallet
    BY DEF ServedWithinRole
  <2>1. Admits(visit) /\ ByToken
    BY DEF VisitInv, GuardsPassed, ByToken
  <2>2. /\ visit.role = roleOf[visit.wallet] /\ visit.role \in USER_ROLES
        /\ visit.scopes \subseteq resolveScopesForRole(visit.role)
    BY <2>1 DEF VisitInv, RightsCapped, VisitTyped, VisitRecord
  <2>3. visit.loggedOut => visit.unchecked \/ session[visit.token].state = "expired"
    BY <2>1 DEF VisitInv, LogoutSeen
  <2>4. roleOf[visit.wallet] # "admin" =>
            visit.guard.scopes \subseteq resolveScopesForRole(roleOf[visit.wallet])
    BY <2>1, <2>2, AdminScope DEF Admits, HasScopes
  <2>5. visit.guard.owner \in {"wallet", "loan"} => visit.owner = visit.wallet
    BY <2>1 DEF Admits, OwnerAllowed
  <2> QED BY <2>1, <2>2, <2>3, <2>4, <2>5 DEF Admits
<1> QED
  BY <1>1, VisitInitial, VisitStep, PTL DEF AccessSpec

------------------------------------------------------------------------------
(* Limiters and the audit log.                                             *)

GateRecord == [pc : {"new", "gate", "handler", "done"}, gate : 1 .. 3,
               status : {0, 200, 429, 500, 503}]

Allowance(k) == MaxOf[k[1]] - (IF k[1] = "scoreUpdate" THEN 1 ELSE 0)

GatesTyped ==
    /\ hits \in [GateKeys -> Nat] /\ admitted \in [GateKeys -> Nat]
    /\ timed \subseteq GateKeys
    /\ gated \in [Gated -> GateRecord]
    /\ \A r \in Gated : gated[r].gate \in DOMAIN LimitersOf(RouteOf[r])

(* A limiter that Redis has answered every time has counted what it let    *)
(* through, so the count it compares with the maximum is not behind.       *)
CountedWithin ==
    \A k \in GateKeys \ blind : admitted[k] <= hits[k] /\ admitted[k] <= Allowance(k)

WindowsEnd == \A k \in GateKeys : hits[k] > 0 => k \in timed

(* A row is being written, or stands, only for a request whose handler     *)
(* has answered; a request is answered once.                               *)
RowsFollowHandlers ==
    \A r \in Gated :
        /\ gated[r].status # 0 => gated[r].pc = "done"
        /\ r \in auditing \cup audited => gated[r].pc = "done" /\ gated[r].status \notin {429, 503}
        /\ Audited(RouteOf[r]) /\ gated[r].status \in {200, 500} =>
               r \in auditing \cup audited \cup unaudited

GatesInv == GatesTyped /\ CountedWithin /\ WindowsEnd /\ RowsFollowHandlers

(* The limiters of a route, in order, and the keys they count under.       *)
LEMMA Limiters ==
    ASSUME NEW route
    PROVE  /\ Len(LimitersOf(route)) \in 1 .. 3
           /\ DOMAIN LimitersOf(route) = 1 .. Len(LimitersOf(route))
<1>1. CASE route = "scoreUpdate"
  BY <1>1 DEF LimitersOf
<1>2. CASE route = "login"
  BY <1>2 DEF LimitersOf
<1>3. CASE route = "challenge"
  BY <1>3 DEF LimitersOf
<1>4. CASE route = "simulate"
  BY <1>4 DEF LimitersOf
<1>5. CASE route = "adminJob"
  BY <1>5 DEF LimitersOf
<1>6. CASE /\ route # "scoreUpdate" /\ route # "login" /\ route # "challenge"
           /\ route # "simulate" /\ route # "adminJob"
  <2>1. LimitersOf(route) = <<"global">>
    BY <1>6, Zenon DEF LimitersOf
  <2> QED BY <2>1
<1> QED BY <1>1, <1>2, <1>3, <1>4, <1>5, <1>6

LEMMA KeysNameLimiters ==
    ASSUME NEW r \in Gated, NEW i \in DOMAIN LimitersOf(RouteOf[r])
    PROVE  LET limiter == LimitersOf(RouteOf[r])[i]
           IN  KeyOf(limiter, r) \in GateKeys /\ KeyOf(limiter, r)[1] = limiter
<1>1. PICK limiter : limiter = LimitersOf(RouteOf[r])[i]
  OBVIOUS
<1>2. KeyOf(limiter, r)[1] = limiter
  BY DEF KeyOf
<1>3. KeyOf(limiter, r) \in GateKeys
  BY <1>1 DEF GateKeys
<1> QED BY <1>1, <1>2, <1>3

LEMMA KeyAllows == ASSUME NEW k \in GateKeys PROVE Allowance(k) \in Nat
<1>1. PICK r \in Gated : \E i \in DOMAIN LimitersOf(RouteOf[r]) :
          k = KeyOf(LimitersOf(RouteOf[r])[i], r)
  BY DEF GateKeys
<1>2. PICK i \in DOMAIN LimitersOf(RouteOf[r]) : k = KeyOf(LimitersOf(RouteOf[r])[i], r)
  BY <1>1
<1>3. MaxOf[k[1]] \in Nat \ {0}
  BY <1>2, KeysNameLimiters, GateConstants
<1> QED BY <1>3 DEF Allowance

LEMMA GatesInitial == GatesInit => GatesInv
<1> SUFFICES ASSUME GatesInit PROVE GatesInv
  OBVIOUS
<1>1. \A r \in Gated : 1 \in DOMAIN LimitersOf(RouteOf[r])
  BY Limiters
<1>2. GatesTyped
  BY <1>1 DEF GatesInit, GatesTyped, GateRecord
<1>3. CountedWithin
  BY KeyAllows DEF GatesInit, CountedWithin
<1> QED
  BY <1>2, <1>3 DEF GatesInit, GatesInv, WindowsEnd, RowsFollowHandlers

(* A request that is answered: its step and its status change, no more.    *)
EndsWith(r, status) == gated' = [gated EXCEPT ![r].pc = "done", ![r].status = status]

LEMMA GateAnswers ==
    ASSUME gated \in [Gated -> GateRecord], NEW r \in Gated, NEW status \in {200, 429, 500, 503},
           EndsWith(r, status)
    PROVE  \E next \in GateRecord :
               /\ gated' = [gated EXCEPT ![r] = next]
               /\ next.pc = "done" /\ next.gate = gated[r].gate /\ next.status = status
<1>1. PICK a : a = [gated[r] EXCEPT !.pc = "done"]
  OBVIOUS
<1>2. a \in GateRecord /\ a.pc = "done" /\ a.gate = gated[r].gate
  BY <1>1 DEF GateRecord
<1>3. PICK b : b = [a EXCEPT !.status = status]
  OBVIOUS
<1>4. b \in GateRecord /\ b.pc = "done" /\ b.gate = gated[r].gate /\ b.status = status
  BY <1>2, <1>3 DEF GateRecord
<1>5. [a EXCEPT !.status = status] = [pc |-> "done", gate |-> gated[r].gate, status |-> status]
  BY <1>2 DEF GateRecord
<1>6. gated' = [gated EXCEPT ![r] = [pc |-> "done", gate |-> gated[r].gate, status |-> status]]
  BY <1>1, <1>5, ZenonT(40) DEF EndsWith
<1> QED BY <1>3, <1>4, <1>5, <1>6

(* Where a limiter leaves a request: at the next one, at the handler, or   *)
(* refused; it never answers for the handler.                              *)
LeavesGate(r) ==
    \E next \in GateRecord :
        /\ gated' = [gated EXCEPT ![r] = next]
        /\ next.gate \in DOMAIN LimitersOf(RouteOf[r])
        /\ \/ next.pc \in {"gate", "handler"} /\ next.status = gated[r].status
           \/ next.pc = "done" /\ next.status \in {429, 503}

LEMMA RefuseLeaves ==
    ASSUME GatesTyped, NEW r \in Gated, NEW kind \in {"rateLimit", "paused"}, Refuse(r, kind)
    PROVE  LeavesGate(r)
<1>1. PICK status \in {429, 503} : status = errorHandler(kind)
  BY DEF errorHandler
<1>2. EndsWith(r, status)
  BY <1>1, Zenon DEF Refuse, EndsWith
<1>3. PICK next \in GateRecord :
          /\ gated' = [gated EXCEPT ![r] = next]
          /\ next.pc = "done" /\ next.gate = gated[r].gate /\ next.status = status
  BY <1>2, GateAnswers DEF GatesTyped
<1> QED BY <1>3, ZenonT(40) DEF LeavesGate, GatesTyped

LEMMA PassLeaves ==
    ASSUME GatesTyped, NEW r \in Gated, NEW k, PassGate(r, k)
    PROVE  LeavesGate(r)
<1> DEFINE old == gated[r]
<1>0. PICK last \in 1 .. 3 : last = Len(LimitersOf(RouteOf[r]))
  BY Limiters
<1>1. /\ old \in GateRecord /\ old.gate \in 1 .. last
      /\ DOMAIN LimitersOf(RouteOf[r]) = 1 .. last
  BY <1>0, Limiters DEF GatesTyped
<1>2. CASE Refuse(r, "paused")
  BY <1>2, RefuseLeaves
<1>3. CASE gated' = [gated EXCEPT ![r] = PastGate(r)]
  <2>1. PICK next : next = PastGate(r)
    OBVIOUS
  <2>2. /\ next \in GateRecord /\ next.gate \in 1 .. last
        /\ next.pc \in {"gate", "handler"} /\ next.status = old.status
    <3>1. CASE old.gate < last
      <4> DEFINE n == old.gate + 1
      <4>1. n \in 1 .. last /\ n \in 1 .. 3
        BY <1>1, <3>1
      <4>2. next = [old EXCEPT !.gate = n, !.pc = "gate"]
        BY <1>0, <2>1, <3>1, Zenon DEF PastGate
      <4> HIDE DEF n
      <4>3. PICK a : a = [old EXCEPT !.gate = n]
        OBVIOUS
      <4>4. a \in GateRecord /\ a.gate = n /\ a.status = old.status
        BY <1>1, <4>1, <4>3 DEF GateRecord
      <4>5. next = [a EXCEPT !.pc = "gate"]
        BY <4>2, <4>3, Zenon
      <4>6. next \in GateRecord /\ next.pc = "gate" /\ next.gate = n /\ next.status = old.status
        BY <4>4, <4>5 DEF GateRecord
      <4> QED BY <4>1, <4>6
    <3>2. CASE ~(old.gate < last)
      <4>1. next = [old EXCEPT !.pc = "handler"]
        BY <1>0, <2>1, <3>2, Zenon DEF PastGate
      <4> QED BY <1>1, <4>1 DEF GateRecord
    <3> QED BY <3>1, <3>2
  <2>3. gated' = [gated EXCEPT ![r] = next]
    BY <1>3, <2>1
  <2> QED BY <1>1, <2>2, <2>3, ZenonT(40) DEF LeavesGate
<1> QED BY <1>2, <1>3 DEF PassGate

LEMMA GatesStep == GatesInv /\ [GatesNext]_gateVars => GatesInv'
<1> SUFFICES ASSUME GatesInv, [GatesNext]_gateVars PROVE GatesInv'
  OBVIOUS
<1> USE DEF GatesInv
<1>1. ASSUME NEW r \in Gated, checkRateLimit(r) PROVE GatesInv'
  <2> DEFINE limiter == LimitersOf(RouteOf[r])[gated[r].gate]
             k == KeyOf(limiter, r)
  <2>1. k \in GateKeys /\ k[1] = limiter
    BY KeysNameLimiters DEF GatesTyped
  <2>2. gated[r].pc \in {"new", "gate"} /\ UNCHANGED auditVars
    BY <1>1, Zenon DEF checkRateLimit
  <2>3. gated[r].status = 0 /\ r \notin auditing \cup audited
    BY <2>2 DEF RowsFollowHandlers, GatesTyped, GateRecord
  <2>4. LeavesGate(r)
    <3>1. PassGate(r, k) \/ Refuse(r, "rateLimit")
      BY <1>1, Zenon DEF checkRateLimit
    <3> QED BY <3>1, PassLeaves, RefuseLeaves
  <2>5. /\ gated' \in [Gated -> GateRecord]
        /\ \A q \in Gated : gated'[q].gate \in DOMAIN LimitersOf(RouteOf[q])
        /\ RowsFollowHandlers'
    <3>1. PICK next \in GateRecord :
              /\ gated' = [gated EXCEPT ![r] = next]
              /\ next.gate \in DOMAIN LimitersOf(RouteOf[r])
              /\ \/ next.pc \in {"gate", "handler"} /\ next.status = gated[r].status
                 \/ next.pc = "done" /\ next.status \in {429, 503}
      BY <2>4 DEF LeavesGate
    <3> QED BY <2>2, <2>3, <3>1 DEF GatesTyped, RowsFollowHandlers, auditVars
  <2>6. hits[k] \in Nat /\ admitted[k] \in Nat /\ Allowance(k) \in Nat
    BY <2>1, KeyAllows DEF GatesTyped
  <2>7. CASE /\ incrAndExpire(k)
             /\ IF Within(limiter, hits[k] + 1) THEN PassGate(r, k)
                ELSE Refuse(r, "rateLimit") /\ UNCHANGED admitted
             /\ UNCHANGED <<blind, gateFaults>>
    <3>1. /\ hits' = [hits EXCEPT ![k] = @ + 1] /\ UNCHANGED blind
          /\ timed' = IF hits[k] = 0 THEN timed \cup {k} ELSE timed
      BY <2>7, Zenon DEF incrAndExpire
    <3>2. \/ /\ Within(limiter, hits[k] + 1)
             /\ admitted' = [admitted EXCEPT ![k] = @ + 1]
          \/ UNCHANGED admitted
      BY <2>7, Zenon DEF PassGate
    <3>3. Within(limiter, hits[k] + 1) => hits[k] + 1 <= Allowance(k)
      <4>1. MaxOf[limiter] \in Nat
        BY GateConstants DEF GatesTyped
      <4> HIDE DEF limiter, k
      <4> QED BY <2>1, <2>6, <4>1 DEF Within, Allowance
    <3>4. hits' \in [GateKeys -> Nat] /\ admitted' \in [GateKeys -> Nat] /\ timed' \subseteq GateKeys
      BY <2>1, <3>1, <3>2 DEF GatesTyped
    <3>5. CountedWithin'
      BY <2>1, <2>6, <3>1, <3>2, <3>3 DEF CountedWithin, Allowance, GatesTyped
    <3>6. WindowsEnd'
      BY <2>1, <3>1 DEF WindowsEnd, GatesTyped
    <3> QED BY <2>5, <3>4, <3>5, <3>6 DEF GatesTyped
  <2>8. CASE blind' = blind \cup {k} /\ PassGate(r, k) /\ UNCHANGED <<hits, timed>>
    <3>1. admitted' = [admitted EXCEPT ![k] = @ + 1] /\ blind' = blind \cup {k} /\ UNCHANGED <<hits, timed>>
      BY <2>8, Zenon DEF PassGate
    <3>2. admitted' \in [GateKeys -> Nat]
      BY <2>1, <3>1 DEF GatesTyped
    <3>3. CountedWithin' /\ WindowsEnd'
      BY <2>1, <3>1 DEF CountedWithin, Allowance, WindowsEnd, GatesTyped
    <3> QED BY <2>5, <3>1, <3>2, <3>3 DEF GatesTyped
  <2> HIDE DEF GatesInv
  <2> QED BY <1>1, <2>7, <2>8, Zenon DEF checkRateLimit
<1>2. ASSUME NEW r \in Gated, handle(r) PROVE GatesInv'
  <2>1. /\ gated[r].pc = "handler" /\ UNCHANGED <<limiterVars, audited, unaudited>>
        /\ auditing' = IF Audited(RouteOf[r]) THEN auditing \cup {r} ELSE auditing
    BY <1>2, Zenon DEF handle
  <2>2. PICK status \in {200, 500} : EndsWith(r, status)
    BY <1>2, ZenonT(40) DEF handle, errorHandler, EndsWith
  <2>3. PICK next \in GateRecord :
            /\ gated' = [gated EXCEPT ![r] = next]
            /\ next.pc = "done" /\ next.gate = gated[r].gate /\ next.status = status
    BY <2>2, GateAnswers DEF GatesTyped
  <2>4. GatesTyped' /\ RowsFollowHandlers'
    BY <2>1, <2>3 DEF GatesTyped, GateRecord, RowsFollowHandlers, limiterVars
  <2> QED BY <2>1, <2>4 DEF limiterVars, CountedWithin, Allowance, WindowsEnd
<1>3. ASSUME NEW r \in Gated, insertAuditRow(r) PROVE GatesInv'
  BY <1>3 DEF insertAuditRow, limiterVars, GatesTyped, CountedWithin, Allowance, WindowsEnd,
              RowsFollowHandlers
<1>4. ASSUME NEW k \in GateKeys, windowEnds(k) PROVE GatesInv'
  BY <1>4, KeyAllows DEF windowEnds, auditVars, GatesTyped, CountedWithin, Allowance, WindowsEnd,
              RowsFollowHandlers
<1>5. CASE pauseChanges \/ UNCHANGED gateVars
  BY <1>5 DEF pauseChanges, gateVars, limiterVars, auditVars, GatesTyped, CountedWithin, Allowance,
              WindowsEnd, RowsFollowHandlers
<1>6. CASE instanceDies
  <2>1. /\ UNCHANGED <<limiterVars, audited>> /\ auditing' = {}
        /\ auditing \subseteq unaudited' /\ unaudited \subseteq unaudited'
    BY <1>6 DEF instanceDies
  <2>2. /\ gated' \in [Gated -> GateRecord]
        /\ \A r \in Gated : /\ gated'[r].gate = gated[r].gate
                            /\ gated'[r].status = gated[r].status
                            /\ gated[r].pc = "done" => gated'[r].pc = "done"
    BY <1>6 DEF instanceDies, GatesTyped, GateRecord
  <2>3. GatesTyped' /\ RowsFollowHandlers'
    BY <2>1, <2>2 DEF GatesTyped, RowsFollowHandlers, limiterVars
  <2> QED BY <2>1, <2>3 DEF limiterVars, CountedWithin, Allowance, WindowsEnd
<1> HIDE DEF GatesInv
<1> QED
  BY <1>1, <1>2, <1>3, <1>4, <1>5, <1>6 DEF GatesNext

(* However the counters' checks, windows, Redis failures, crashes and      *)
(* audit inserts interleave, a limiter that Redis answers admits no more   *)
(* than its maximum in a window, no key refuses callers without an expiry, *)
(* and audit rows follow the handlers that ran.                            *)
THEOREM LimitsAlwaysHold == GatesSpec => []LimitsHold
<1>1. GatesInv => LimitsHold
  BY KeyAllows
  DEF GatesInv, GatesTyped, GateRecord, CountedWithin, Allowance, WindowsEnd, RowsFollowHandlers,
      LimitsHold
<1> QED
  BY <1>1, GatesInitial, GatesStep, PTL DEF GatesSpec

------------------------------------------------------------------------------
(* The Idempotency-Key middleware.                                         *)

Places == {"client", "reserve", "handler", "release", "remember", "answered", "lost"}
Words == {"none", "fresh", "serverError", "conflict"}

CallsTyped ==
    /\ call \in [Calls -> Places]
    /\ outcome \in [Calls -> Calls \cup Words]
    /\ locks \in [Keys -> Calls \cup {NoCall}]
    /\ responses \in [Keys -> Calls \cup {NoCall}]
    /\ ran \subseteq Calls
    /\ lapses \in [Keys -> Nat]

(* What a call's place in the middleware says of its outcome.              *)
OutcomeFollowsPlace ==
    \A c \in Calls :
        /\ call[c] \in {"client", "reserve", "handler"} => outcome[c] = "none"
        /\ call[c] \in {"release", "remember"} => c \in ran /\ outcome[c] \in {"fresh", "serverError"}

CachedResponsesAreTrue ==
    \A k \in Keys : responses[k] # NoCall =>
        /\ CallKey[responses[k]] = k
        /\ responses[k] \in ran
        /\ outcome[responses[k]] = "fresh"

(* The runs of a key that do not hold its reservation.                     *)
Unreserved(k) == InFlight(k) \ {locks[k]}

UnreservedPaid == \A k \in Keys : Cardinality(Unreserved(k)) <= lapses[k]

KeyInv ==
    CallsTyped /\ OutcomeFollowsPlace /\ CachedResponsesAreTrue /\ ReplaysAreTrue /\ UnreservedPaid

------------------------------------------------------------------------------
(* Counting runs.                                                          *)

LEMMA RunsCounted ==
    ASSUME NEW k
    PROVE  /\ IsFiniteSet(InFlight(k)) /\ IsFiniteSet(Unreserved(k))
           /\ Cardinality(InFlight(k)) \in Nat /\ Cardinality(Unreserved(k)) \in Nat
BY IdempotencyConstants, FS_Subset, FS_CardinalityType DEF InFlight, Unreserved

(* A key's count is kept when the step adds no unreserved run and takes no *)
(* lapse back.                                                             *)
LEMMA FewerStillPaid ==
    ASSUME UnreservedPaid, NEW k \in Keys, Unreserved(k)' \subseteq Unreserved(k),
           lapses[k] \in Nat, lapses'[k] \in Nat, lapses'[k] >= lapses[k]
    PROVE  Cardinality(Unreserved(k)') <= lapses'[k]
<1>1. Cardinality(Unreserved(k)') <= Cardinality(Unreserved(k))
  BY RunsCounted, FS_Subset
<1>2. Cardinality(Unreserved(k)) \in Nat /\ Cardinality(Unreserved(k)') \in Nat
  BY RunsCounted, FS_Subset, FS_CardinalityType
<1> QED BY <1>1, <1>2 DEF UnreservedPaid

(* At most one run holds the reservation.                                  *)
LEMMA PaidBounds ==
    ASSUME CallsTyped, UnreservedPaid
    PROVE  InFlightBounded
<1> SUFFICES ASSUME NEW k \in Keys PROVE Cardinality(InFlight(k)) <= 1 + lapses[k]
  BY DEF InFlightBounded
<1>1. Cardinality(InFlight(k)) <= Cardinality(Unreserved(k)) + 1
  <2>1. CASE locks[k] \in InFlight(k)
    <3>1. Cardinality(InFlight(k) \ {locks[k]}) = Cardinality(InFlight(k)) - 1
      BY <2>1, RunsCounted, FS_RemoveElement
    <3>2. Cardinality(Unreserved(k)) = Cardinality(InFlight(k)) - 1
      BY <3>1 DEF Unreserved
    <3> QED BY <3>2, RunsCounted
  <2>2. CASE locks[k] \notin InFlight(k)
    <3>1. Unreserved(k) = InFlight(k)
      BY <2>2 DEF Unreserved
    <3> QED BY <3>1, RunsCounted
  <2> QED BY <2>1, <2>2
<1>2. Cardinality(Unreserved(k)) <= lapses[k] /\ lapses[k] \in Nat
  BY DEF UnreservedPaid, CallsTyped
<1> QED BY <1>1, <1>2, RunsCounted

------------------------------------------------------------------------------
(* The inductive invariant.                                                *)

LEMMA KeyInitial == IdempotencyInit => KeyInv
<1> SUFFICES ASSUME IdempotencyInit PROVE KeyInv
  OBVIOUS
<1>1. CallsTyped /\ OutcomeFollowsPlace /\ CachedResponsesAreTrue
  BY DEF IdempotencyInit, CallsTyped, Places, Words, OutcomeFollowsPlace, CachedResponsesAreTrue
<1>2. ReplaysAreTrue
  BY IdempotencyConstants DEF IdempotencyInit, ReplaysAreTrue
<1>3. UnreservedPaid
  <2> SUFFICES ASSUME NEW k \in Keys PROVE Cardinality(Unreserved(k)) <= lapses[k]
    BY DEF UnreservedPaid
  <2>1. Unreserved(k) = {}
    BY DEF IdempotencyInit, Unreserved, InFlight
  <2> QED BY <2>1, FS_EmptySet DEF IdempotencyInit
<1> QED BY <1>1, <1>2, <1>3 DEF KeyInv

(* Runs that go on, end or stay where they are: steps that hand out no     *)
(* reservation and take none away.                                         *)
LEMMA OtherRunsPaid ==
    ASSUME KeyInv, CallsTyped', UNCHANGED <<locks, lapses>>,
           \A c \in Calls : call'[c] \in {"handler", "release"} => call[c] \in {"handler", "release"}
    PROVE  UnreservedPaid'
<1> SUFFICES ASSUME NEW k \in Keys PROVE Cardinality(Unreserved(k)') <= lapses'[k]
  BY DEF UnreservedPaid
<1>1. Unreserved(k)' \subseteq Unreserved(k)
  BY DEF Unreserved, InFlight
<1>2. lapses[k] \in Nat /\ lapses'[k] = lapses[k]
  BY DEF KeyInv, CallsTyped
<1> QED BY <1>1, <1>2, FewerStillPaid DEF KeyInv

LEMMA LookupKeeps ==
    ASSUME KeyInv, NEW c \in Calls, lookup(c)
    PROVE  KeyInv'
<1> USE IdempotencyConstants DEF KeyInv, CallsTyped, Places, Words
<1>0. CallKey[c] \in Keys
  BY DEF Keys
<1>1. /\ call[c] = "client" /\ UNCHANGED <<locks, responses, ran, lapses>>
      /\ \/ call' = [call EXCEPT ![c] = "reserve"] /\ UNCHANGED outcome
         \/ /\ call' = [call EXCEPT ![c] = "answered"]
            /\ \/ outcome' = [outcome EXCEPT ![c] = "conflict"]
               \/ /\ responses[CallKey[c]] # NoCall
                  /\ CallPrint[responses[CallKey[c]]] = CallPrint[c]
                  /\ outcome' = [outcome EXCEPT ![c] = responses[CallKey[c]]]
  BY DEF lookup, Answer
<1>2. CallsTyped'
  BY <1>0, <1>1
<1>3. OutcomeFollowsPlace' /\ CachedResponsesAreTrue'
  BY <1>0, <1>1 DEF OutcomeFollowsPlace, CachedResponsesAreTrue
<1>4. ReplaysAreTrue'
  BY <1>0, <1>1 DEF OutcomeFollowsPlace, CachedResponsesAreTrue, ReplaysAreTrue
<1>5. UnreservedPaid'
  BY <1>1, <1>2, OtherRunsPaid
<1> QED BY <1>2, <1>3, <1>4, <1>5

LEMMA ReservationKeeps ==
    ASSUME KeyInv, NEW c \in Calls, setNotExists(c)
    PROVE  KeyInv'
<1> USE IdempotencyConstants DEF KeyInv, CallsTyped, Places, Words
<1>0. CallKey[c] \in Keys
  BY DEF Keys
<1>1. call[c] = "reserve" /\ outcome[c] = "none" /\ UNCHANGED <<responses, ran, lapses>>
  BY DEF setNotExists, OutcomeFollowsPlace
<1>2. CASE /\ locks[CallKey[c]] = NoCall /\ locks' = [locks EXCEPT ![CallKey[c]] = c]
           /\ call' = [call EXCEPT ![c] = "handler"] /\ UNCHANGED outcome
  <2>1. CallsTyped' /\ OutcomeFollowsPlace' /\ CachedResponsesAreTrue' /\ ReplaysAreTrue'
    BY <1>0, <1>1, <1>2 DEF OutcomeFollowsPlace, CachedResponsesAreTrue, ReplaysAreTrue
  <2>2. UnreservedPaid'
    <3> SUFFICES ASSUME NEW k \in Keys PROVE Cardinality(Unreserved(k)') <= lapses'[k]
      BY DEF UnreservedPaid
    <3>1. Unreserved(k)' \subseteq Unreserved(k)
      BY <1>0, <1>1, <1>2 DEF Unreserved, InFlight
    <3> QED BY <1>1, <3>1, FewerStillPaid
  <2> QED BY <2>1, <2>2
<1>3. CASE Answer(c, "conflict") /\ UNCHANGED locks
  <2>1. CallsTyped' /\ OutcomeFollowsPlace' /\ CachedResponsesAreTrue' /\ ReplaysAreTrue'
    BY <1>1, <1>3 DEF Answer, OutcomeFollowsPlace, CachedResponsesAreTrue, ReplaysAreTrue
  <2>2. UnreservedPaid'
    BY <1>1, <1>3, <2>1, OtherRunsPaid DEF Answer
  <2> QED BY <2>1, <2>2
<1> QED BY <1>2, <1>3 DEF setNotExists

LEMMA RunKeeps ==
    ASSUME KeyInv, NEW c \in Calls, runHandler(c)
    PROVE  KeyInv'
<1> USE IdempotencyConstants DEF KeyInv, CallsTyped, Places, Words
<1>1. call[c] = "handler" /\ outcome[c] = "none" /\ UNCHANGED <<locks, lapses>>
  BY DEF runHandler, OutcomeFollowsPlace
<1>2. CallsTyped' /\ OutcomeFollowsPlace' /\ CachedResponsesAreTrue'
  BY <1>1 DEF runHandler, OutcomeFollowsPlace, CachedResponsesAreTrue
<1>3. ReplaysAreTrue'
  BY <1>1 DEF runHandler, OutcomeFollowsPlace, ReplaysAreTrue
<1>4. UnreservedPaid'
  BY <1>1, <1>2, OtherRunsPaid DEF runHandler
<1> QED BY <1>2, <1>3, <1>4

(* The unfenced delete may free the reservation of another call: then the  *)
(* caller itself was unreserved, and leaves.                               *)
LEMMA ReleaseKeeps ==
    ASSUME KeyInv, NEW c \in Calls, releaseLock(c)
    PROVE  KeyInv'
<1> USE IdempotencyConstants DEF KeyInv, CallsTyped, Places, Words
<1>0. CallKey[c] \in Keys
  BY DEF Keys
<1>1. /\ call[c] = "release" /\ call' = [call EXCEPT ![c] = "remember"]
      /\ UNCHANGED <<outcome, responses, ran, lapses>>
  BY DEF releaseLock
<1>2. CallsTyped' /\ OutcomeFollowsPlace' /\ CachedResponsesAreTrue' /\ ReplaysAreTrue'
  BY <1>0, <1>1 DEF releaseLock, OutcomeFollowsPlace, CachedResponsesAreTrue, ReplaysAreTrue
<1>3. CASE UNCHANGED locks
  BY <1>1, <1>2, <1>3, OtherRunsPaid
<1>4. CASE locks' = [locks EXCEPT ![CallKey[c]] = NoCall]
  <2> SUFFICES ASSUME NEW k \in Keys PROVE Cardinality(Unreserved(k)') <= lapses'[k]
    BY <1>2 DEF UnreservedPaid
  <2>1. CASE k # CallKey[c]
    <3>1. Unreserved(k)' \subseteq Unreserved(k)
      BY <1>0, <1>1, <1>4, <2>1 DEF Unreserved, InFlight
    <3> QED BY <1>1, <3>1, FewerStillPaid
  <2>2. CASE k = CallKey[c]
    <3>1. Unreserved(k)' = InFlight(k) \ {c} /\ c \in InFlight(k)
      BY <1>0, <1>1, <1>4, <2>2 DEF Unreserved, InFlight
    <3>2. Cardinality(InFlight(k) \ {c}) = Cardinality(InFlight(k)) - 1
      BY <3>1, RunsCounted, FS_RemoveElement
    <3>3. Cardinality(InFlight(k)) <= 1 + lapses[k] /\ lapses[k] \in Nat
      BY PaidBounds DEF InFlightBounded
    <3> QED BY <1>1, <3>1, <3>2, <3>3, RunsCounted
  <2> QED BY <2>1, <2>2
<1> QED BY <1>3, <1>4 DEF releaseLock

LEMMA CachingKeeps ==
    ASSUME KeyInv, NEW c \in Calls, cacheResponse(c)
    PROVE  KeyInv'
<1> USE IdempotencyConstants DEF KeyInv, CallsTyped, Places, Words
<1>0. CallKey[c] \in Keys
  BY DEF Keys
<1>1. /\ call[c] = "remember" /\ c \in ran /\ UNCHANGED <<outcome, locks, ran, lapses>>
      /\ outcome[c] \in {"fresh", "serverError"}
  BY DEF cacheResponse, OutcomeFollowsPlace
<1>2. CallsTyped' /\ OutcomeFollowsPlace' /\ CachedResponsesAreTrue' /\ ReplaysAreTrue'
  BY <1>0, <1>1 DEF cacheResponse, OutcomeFollowsPlace, CachedResponsesAreTrue, ReplaysAreTrue
<1>3. UnreservedPaid'
  BY <1>1, <1>2, OtherRunsPaid DEF cacheResponse
<1> QED BY <1>2, <1>3

LEMMA DeathKeeps ==
    ASSUME KeyInv, NEW c \in Calls, processDies(c)
    PROVE  KeyInv'
<1> USE IdempotencyConstants DEF KeyInv, CallsTyped, Places, Words
<1>1. CallsTyped' /\ OutcomeFollowsPlace' /\ CachedResponsesAreTrue' /\ ReplaysAreTrue'
  BY DEF processDies, OutcomeFollowsPlace, CachedResponsesAreTrue, ReplaysAreTrue
<1>2. UnreservedPaid'
  BY <1>1, OtherRunsPaid DEF processDies
<1> QED BY <1>1, <1>2

(* An expiry under a running handler makes one more run unreserved, and    *)
(* counts one more lapse.                                                  *)
LEMMA LockExpiryKeeps ==
    ASSUME KeyInv, NEW k \in Keys, lockExpires(k)
    PROVE  KeyInv'
<1> USE IdempotencyConstants DEF KeyInv, CallsTyped, Places, Words
<1>1. /\ UNCHANGED <<call, outcome, responses, ran>> /\ locks' = [locks EXCEPT ![k] = NoCall]
      /\ IF locks[k] \in InFlight(k) THEN lapses' = [lapses EXCEPT ![k] = @ + 1] ELSE UNCHANGED lapses
  BY DEF lockExpires
<1>2. CallsTyped' /\ OutcomeFollowsPlace' /\ CachedResponsesAreTrue' /\ ReplaysAreTrue'
  BY <1>1 DEF OutcomeFollowsPlace, CachedResponsesAreTrue, ReplaysAreTrue
<1>3. ASSUME NEW j \in Keys PROVE Cardinality(Unreserved(j)') <= lapses'[j]
  <2>1. CASE j # k \/ locks[k] \notin InFlight(k)
    <3>1. Unreserved(j)' \subseteq Unreserved(j) /\ lapses'[j] = lapses[j]
      BY <1>1, <2>1 DEF Unreserved, InFlight
    <3> QED BY <3>1, FewerStillPaid
  <2>2. CASE j = k /\ locks[k] \in InFlight(k)
    <3>1. Unreserved(j)' = InFlight(j) /\ lapses'[j] = lapses[j] + 1
      BY <1>1, <2>2 DEF Unreserved, InFlight
    <3>2. Cardinality(InFlight(j)) <= 1 + lapses[j] /\ lapses[j] \in Nat
      BY PaidBounds DEF InFlightBounded
    <3> QED BY <3>1, <3>2, RunsCounted
  <2> QED BY <2>1, <2>2
<1> QED BY <1>2, <1>3 DEF UnreservedPaid

LEMMA ResponseExpiryKeeps ==
    ASSUME KeyInv, NEW k \in Keys, responseExpires(k)
    PROVE  KeyInv'
<1> USE IdempotencyConstants DEF KeyInv, CallsTyped, Places, Words
<1>1. CallsTyped' /\ OutcomeFollowsPlace' /\ CachedResponsesAreTrue' /\ ReplaysAreTrue'
  BY DEF responseExpires, OutcomeFollowsPlace, CachedResponsesAreTrue, ReplaysAreTrue
<1>2. UnreservedPaid'
  BY <1>1, OtherRunsPaid DEF responseExpires
<1> QED BY <1>1, <1>2

LEMMA KeyStep == KeyInv /\ [IdempotencyNext]_idempotencyVars => KeyInv'
<1> SUFFICES ASSUME KeyInv, [IdempotencyNext]_idempotencyVars PROVE KeyInv'
  OBVIOUS
<1>1. CASE UNCHANGED idempotencyVars
  <2>1. CallsTyped' /\ OutcomeFollowsPlace' /\ CachedResponsesAreTrue' /\ ReplaysAreTrue'
    BY <1>1 DEF idempotencyVars, KeyInv, CallsTyped, OutcomeFollowsPlace,
                CachedResponsesAreTrue, ReplaysAreTrue
  <2>2. UnreservedPaid'
    BY <1>1, <2>1, OtherRunsPaid DEF idempotencyVars
  <2> QED BY <2>1, <2>2 DEF KeyInv
<1> QED
  BY <1>1, LookupKeeps, ReservationKeeps, RunKeeps, ReleaseKeeps, CachingKeeps, DeathKeeps,
     LockExpiryKeeps, ResponseExpiryKeeps DEF IdempotencyNext

(* Whatever expires, fails or dies: a replayed response came from a run    *)
(* for the same key and the same request, and the runs under one key are   *)
(* at most one more than the reservations that expired under a run.        *)
THEOREM KeysAlwaysProtect == IdempotencySpec => []KeysProtect
<1>1. KeyInv => KeysProtect
  BY PaidBounds DEF KeyInv, KeysProtect
<1> QED BY <1>1, KeyInitial, KeyStep, PTL DEF IdempotencySpec

------------------------------------------------------------------------------
(* Remittances.                                                            *)

SubmissionSteps == {"client", "mark", "send", "poll", "settle", "notify", "catch", "answered"}

Polls == {"none", "SUCCESS", "FAILED", "NOT_FOUND", "ERROR"}
SubmissionRecord == [pc : SubmissionSteps, id : Remittance \cup {NoRemittance},
                     tx : Txs \cup {NoRemittance}, status : Polls]

RemittanceTyped ==
    /\ record \in [Remittance -> [status : {"none", "pending", "processing", "completed", "failed"},
                                  hash : Txs \cup {NoRemittance}]]
    /\ onChain \in [Txs -> {"unsent", "pending", "SUCCESS", "FAILED"}]
    /\ submission \in [Submissions -> SubmissionRecord]
    /\ \A s \in Submissions : submission[s].pc # "client" =>
           submission[s].id \in Remittance /\ submission[s].tx \in Txs

(* A submission holds on to a result across two awaits: what it holds is   *)
(* still true when it writes, because the ledger never takes one back.     *)
HeldResultIsFinal ==
    \A s \in Submissions : submission[s].status = "SUCCESS" =>
        submission[s].pc # "client" /\ onChain[submission[s].tx] = "SUCCESS"

RemittanceInv == RemittanceTyped /\ HeldResultIsFinal /\ CompletedWasPaid

LEMMA RemittanceInitial == RemittanceInit => RemittanceInv
BY DEF RemittanceInit, RemittanceInv, RemittanceTyped, HeldResultIsFinal, CompletedWasPaid,
       Txs, SubmissionSteps, Polls, SubmissionRecord

(* A submission that moves on with a result.                               *)
LEMMA SubmissionSettles ==
    ASSUME submission \in [Submissions -> SubmissionRecord], NEW s \in Submissions,
           NEW result \in Polls,
           submission' = [submission EXCEPT ![s].pc = "settle", ![s].status = result]
    PROVE  submission' = [submission EXCEPT ![s] = [pc |-> "settle", id |-> submission[s].id,
                                                    tx |-> submission[s].tx, status |-> result]]
<1>1. submission[s] \in SubmissionRecord
  OBVIOUS
<1>2. PICK r : r = [submission[s] EXCEPT !.pc = "settle"]
  OBVIOUS
<1>3. /\ r \in SubmissionRecord
      /\ r.pc = "settle" /\ r.id = submission[s].id /\ r.tx = submission[s].tx
  BY <1>1, <1>2 DEF SubmissionRecord, SubmissionSteps
<1>4. [r EXCEPT !.status = result]
          = [pc |-> "settle", id |-> submission[s].id, tx |-> submission[s].tx, status |-> result]
  BY <1>3 DEF SubmissionRecord
<1> QED BY <1>2, <1>4, Zenon

LEMMA RemittanceStep == RemittanceInv /\ [RemittanceNext]_remittanceVars => RemittanceInv'
<1> SUFFICES ASSUME RemittanceInv, [RemittanceNext]_remittanceVars PROVE RemittanceInv'
  OBVIOUS
<1> USE DEF RemittanceInv, RemittanceTyped, HeldResultIsFinal, CompletedWasPaid, Txs,
            SubmissionSteps, Polls, SubmissionRecord, Goto, updateRemittanceStatus
<1>1. ASSUME NEW i \in Remittance, createRemittance(i) PROVE RemittanceInv'
  BY <1>1 DEF createRemittance
<1>2. ASSUME NEW s \in Submissions, NEW i \in Remittance, NEW e \in Envelopes,
             getRemittance(s, i, e)
      PROVE  RemittanceInv'
  BY <1>2 DEF getRemittance, Envelopes
<1>3. ASSUME NEW s \in Submissions, markProcessing(s) PROVE RemittanceInv'
  BY <1>3 DEF markProcessing
<1>4. ASSUME NEW s \in Submissions, submitSignedTx(s) PROVE RemittanceInv'
  <2>1. \/ Goto(s, "poll") \/ Goto(s, "catch")
        \/ /\ UNCHANGED onChain
           /\ submission' = [submission EXCEPT ![s].pc = "settle", ![s].status = "ERROR"]
    BY <1>4, Zenon DEF submitSignedTx
  <2>2. CASE Goto(s, "poll") \/ Goto(s, "catch")
    BY <1>4, <2>2 DEF submitSignedTx
  <2>3. CASE /\ UNCHANGED onChain
             /\ submission' = [submission EXCEPT ![s].pc = "settle", ![s].status = "ERROR"]
    <3>1. submission' = [submission EXCEPT ![s] = [pc |-> "settle", id |-> submission[s].id,
                                                   tx |-> submission[s].tx, status |-> "ERROR"]]
      BY <2>3, SubmissionSettles
    <3>2. submission[s].pc = "send" /\ UNCHANGED <<record, onChain>>
      BY <1>4, <2>3, Zenon DEF submitSignedTx
    <3> QED BY <3>1, <3>2
  <2> QED BY <2>1, <2>2, <2>3
<1>5. ASSUME NEW s \in Submissions, pollTransactionResult(s) PROVE RemittanceInv'
  <2> DEFINE tx == submission[s].tx
             result == IF onChain[tx] \in {"SUCCESS", "FAILED"} THEN onChain[tx] ELSE "NOT_FOUND"
  <2>1. submission[s].pc = "poll" /\ UNCHANGED <<record, onChain>>
    BY <1>5, Zenon DEF pollTransactionResult
  <2>2. submission' = [submission EXCEPT ![s].pc = "settle", ![s].status = result]
    BY <1>5, Zenon DEF pollTransactionResult
  <2>3. result \in Polls /\ (result = "SUCCESS" => onChain[tx] = "SUCCESS")
    BY <2>1
  <2> HIDE DEF result
  <2>4. submission' = [submission EXCEPT ![s] = [pc |-> "settle", id |-> submission[s].id,
                                                 tx |-> submission[s].tx, status |-> result]]
    BY <2>2, <2>3, SubmissionSettles, ZenonT(40)
  <2> QED BY <2>1, <2>3, <2>4
<1>6. ASSUME NEW s \in Submissions, settle(s) PROVE RemittanceInv'
  <2>1. submission[s].pc = "settle" /\ UNCHANGED onChain
    BY <1>6, Zenon DEF settle
  <2>2. PICK to \in {"notify", "catch"} : Goto(s, to)
    BY <1>6, Zenon DEF settle
  <2>3. CASE UNCHANGED record
    BY <2>1, <2>2, <2>3
  <2>4. CASE updateRemittanceStatus(submission[s].id, "failed", NoRemittance)
    BY <2>1, <2>2, <2>4
  <2>5. CASE /\ Confirmed(s)
             /\ updateRemittanceStatus(submission[s].id, "completed", submission[s].tx)
    BY <2>1, <2>2, <2>5 DEF Confirmed
  <2> HIDE DEF RemittanceInv, updateRemittanceStatus
  <2> QED BY <1>6, <2>3, <2>4, <2>5 DEF settle
<1>7. ASSUME NEW s \in Submissions, notifySender(s) \/ submissionDies(s) PROVE RemittanceInv'
  BY <1>7 DEF notifySender, submissionDies
<1>8. ASSUME NEW s \in Submissions, catchError(s) PROVE RemittanceInv'
  BY <1>8 DEF catchError
<1>9. ASSUME NEW t \in Txs, NEW result \in {"SUCCESS", "FAILED"}, ledgerCloses(t, result)
      PROVE  RemittanceInv'
  BY <1>9 DEF ledgerCloses
<1>10. CASE UNCHANGED remittanceVars
  BY <1>10 DEF remittanceVars
<1> QED
  BY <1>1, <1>2, <1>3, <1>4, <1>5, <1>6, <1>7, <1>8, <1>9, <1>10 DEF RemittanceNext

(* However many submissions of a record overlap, whichever writes last and *)
(* wherever one dies: a completed remittance names a transaction that the  *)
(* ledger applied, and any other names none.                               *)
THEOREM CompletedRemittancesWerePaid == RemittanceSpec => []CompletedWasPaid
<1>1. RemittanceInv => CompletedWasPaid
  BY DEF RemittanceInv
<1> QED
  BY <1>1, RemittanceInitial, RemittanceStep, PTL DEF RemittanceSpec

------------------------------------------------------------------------------
(* Built and submitted transactions.                                       *)

Tx == [wallet : Signers, endpoint : Used, seq : Nat, born : Nat]
Final == {"SUCCESS", "FAILED"}
RequestSteps == {"client", "build", "poll", "record", "answered"}
RequestStatus ==
    {"none", "PENDING", "DUPLICATE", "ERROR", "TRY_AGAIN_LATER", "NOT_FOUND"} \cup Final
Request == [pc : RequestSteps, wallet : Signers \cup {"none"}, endpoint : Used \cup {"none"},
            tx : Tx \cup {NoTx}, status : RequestStatus]

ApiTyped ==
    /\ clock \in Nat
    /\ sequence \in [Signers -> Nat]
    /\ unsignedTx \in [Signers \X Used -> Tx \cup {NoTx}]
    /\ apiRequest \in [ApiRequests -> Request]
    /\ handed \subseteq Tx /\ mempool \subseteq Tx
    /\ DOMAIN ledgerOf \subseteq Tx /\ ledgerOf \in [DOMAIN ledgerOf -> Final]
    /\ DOMAIN submissionRow \subseteq Tx
    /\ \A r \in ApiRequests :
           /\ apiRequest[r].pc = "build" => apiRequest[r].wallet \in Signers /\ apiRequest[r].endpoint \in Used
           /\ apiRequest[r].pc \in {"poll", "record"} => apiRequest[r].tx \in Tx

(* A transaction uses its sequence number up: no transaction is applied    *)
(* twice, so its result never changes.                                     *)
AppliedUsesSequence == \A tx \in DOMAIN ledgerOf : tx.seq <= sequence[tx.wallet]

(* A final result a request carries to its upsert is the ledger's.         *)
CarriedResultIsFinal ==
    \A r \in ApiRequests : apiRequest[r].status \in Final =>
        /\ apiRequest[r].tx \in DOMAIN ledgerOf
        /\ ledgerOf[apiRequest[r].tx] = apiRequest[r].status

ApiInv == ApiTyped /\ AppliedUsesSequence /\ CarriedResultIsFinal /\ RecordsMatchChain

LEMMA ApiInitial == ApiInit => ApiInv
<1> SUFFICES ASSUME ApiInit PROVE ApiInv
  OBVIOUS
<1>1. NoRequest \in Request /\ NoRequest.pc = "client" /\ NoRequest.status = "none"
  BY DEF NoRequest, Request, RequestSteps, RequestStatus
<1>2. apiRequest \in [ApiRequests -> Request]
  BY <1>1 DEF ApiInit
<1>3. ApiTyped
  BY <1>1, <1>2 DEF ApiInit, ApiTyped
<1>4. AppliedUsesSequence /\ RecordsMatchChain
  BY DEF ApiInit, AppliedUsesSequence, RecordsMatchChain
<1>5. CarriedResultIsFinal
  BY <1>1 DEF ApiInit, CarriedResultIsFinal, Final
<1> QED BY <1>3, <1>4, <1>5 DEF ApiInv

(* What a request becomes when it starts to build, is sent, is answered by *)
(* the poll, or ends: the fields its update names, and no others.          *)
LEMMA RequestBuilds ==
    ASSUME apiRequest \in [ApiRequests -> Request], NEW r \in ApiRequests,
           NEW w \in Signers, NEW e \in Used,
           apiRequest' = [apiRequest EXCEPT ![r].pc = "build", ![r].wallet = w, ![r].endpoint = e]
    PROVE  apiRequest' = [apiRequest EXCEPT ![r] =
               [pc |-> "build", wallet |-> w, endpoint |-> e,
                tx |-> apiRequest[r].tx, status |-> apiRequest[r].status]]
<1> DEFINE old == apiRequest[r]
<1>1. old \in Request
  OBVIOUS
<1>2. PICK a : a = [old EXCEPT !.pc = "build"]
  OBVIOUS
<1>3. a \in Request /\ a.pc = "build" /\ a.tx = old.tx /\ a.status = old.status
  BY <1>1, <1>2 DEF Request, RequestSteps
<1>4. PICK b : b = [a EXCEPT !.wallet = w]
  OBVIOUS
<1>5. b \in Request /\ b.pc = "build" /\ b.wallet = w /\ b.tx = old.tx /\ b.status = old.status
  BY <1>3, <1>4 DEF Request
<1>6. [b EXCEPT !.endpoint = e] = [pc |-> "build", wallet |-> w, endpoint |-> e,
                                   tx |-> old.tx, status |-> old.status]
  BY <1>5 DEF Request
<1> QED BY <1>2, <1>4, <1>6, Zenon

LEMMA RequestSent ==
    ASSUME NEW pc \in RequestSteps, NEW tx \in Tx, NEW status \in RequestStatus
    PROVE  [NoRequest EXCEPT !.pc = pc, !.tx = tx, !.status = status]
               = [pc |-> pc, wallet |-> "none", endpoint |-> "none", tx |-> tx, status |-> status]
<1>1. PICK a : a = [NoRequest EXCEPT !.pc = pc]
  OBVIOUS
<1>2. a \in Request /\ a.pc = pc /\ a.wallet = "none" /\ a.endpoint = "none"
  BY <1>1 DEF NoRequest, Request, RequestStatus
<1>3. PICK b : b = [a EXCEPT !.tx = tx]
  OBVIOUS
<1>4. b \in Request /\ b.pc = pc /\ b.wallet = "none" /\ b.endpoint = "none" /\ b.tx = tx
  BY <1>2, <1>3 DEF Request
<1>5. [b EXCEPT !.status = status]
          = [pc |-> pc, wallet |-> "none", endpoint |-> "none", tx |-> tx, status |-> status]
  BY <1>4 DEF Request
<1> QED BY <1>1, <1>3, <1>5, Zenon

LEMMA RequestPolled ==
    ASSUME apiRequest \in [ApiRequests -> Request], NEW r \in ApiRequests,
           NEW status \in RequestStatus,
           apiRequest' = [apiRequest EXCEPT ![r].pc = "record", ![r].status = status]
    PROVE  apiRequest' = [apiRequest EXCEPT ![r] =
               [pc |-> "record", wallet |-> apiRequest[r].wallet, endpoint |-> apiRequest[r].endpoint,
                tx |-> apiRequest[r].tx, status |-> status]]
<1> DEFINE old == apiRequest[r]
<1>1. old \in Request
  OBVIOUS
<1>2. PICK a : a = [old EXCEPT !.pc = "record"]
  OBVIOUS
<1>3. /\ a \in Request /\ a.pc = "record"
      /\ a.wallet = old.wallet /\ a.endpoint = old.endpoint /\ a.tx = old.tx
  BY <1>1, <1>2 DEF Request, RequestSteps
<1>4. [a EXCEPT !.status = status]
          = [pc |-> "record", wallet |-> old.wallet, endpoint |-> old.endpoint,
             tx |-> old.tx, status |-> status]
  BY <1>3 DEF Request
<1> QED BY <1>2, <1>4, Zenon

LEMMA RequestAnswered ==
    ASSUME apiRequest \in [ApiRequests -> Request], NEW r \in ApiRequests, Answered(r)
    PROVE  apiRequest' = [apiRequest EXCEPT ![r] =
               [pc |-> "answered", wallet |-> apiRequest[r].wallet, endpoint |-> apiRequest[r].endpoint,
                tx |-> apiRequest[r].tx, status |-> apiRequest[r].status]]
<1> DEFINE old == apiRequest[r]
<1>1. old \in Request
  OBVIOUS
<1>2. PICK a : a = [old EXCEPT !.pc = "answered"]
  OBVIOUS
<1>3. /\ a \in Request /\ a.pc = "answered" /\ a.wallet = old.wallet
      /\ a.endpoint = old.endpoint /\ a.tx = old.tx /\ a.status = old.status
  BY <1>1, <1>2 DEF Request, RequestSteps
<1>4. a = [pc |-> "answered", wallet |-> old.wallet, endpoint |-> old.endpoint,
           tx |-> old.tx, status |-> old.status]
  BY <1>3 DEF Request
<1> QED BY <1>2, <1>4, Zenon DEF Answered

LEMMA ApiStep == ApiInv /\ [ApiNext]_apiVars => ApiInv'
<1> SUFFICES ASSUME ApiInv, [ApiNext]_apiVars PROVE ApiInv'
  OBVIOUS
<1>0. apiRequest \in [ApiRequests -> Request]
  BY DEF ApiInv, ApiTyped
<1> USE DEF ApiInv, ApiTyped, AppliedUsesSequence, CarriedResultIsFinal, RecordsMatchChain
<1>1. ASSUME NEW r \in ApiRequests, NEW w \in Signers, NEW e \in Used, beginBuild(r, w, e)
      PROVE  ApiInv'
  <2>1. /\ UNCHANGED <<clock, sequence, unsignedTx, mempool, ledgerOf, submissionRow>>
        /\ apiRequest[r].pc = "client" /\ unsignedTx[<<w, e>>] \in Tx \cup {NoTx}
    BY <1>1 DEF beginBuild
  <2>2. CASE /\ Answered(r) /\ unsignedTx[<<w, e>>] # NoTx
             /\ handed' = handed \cup {unsignedTx[<<w, e>>]}
    <3>1. apiRequest' = [apiRequest EXCEPT ![r] =
              [pc |-> "answered", wallet |-> apiRequest[r].wallet, endpoint |-> apiRequest[r].endpoint,
               tx |-> apiRequest[r].tx, status |-> apiRequest[r].status]]
      BY <1>0, <2>2, RequestAnswered
    <3> QED BY <2>1, <2>2, <3>1 DEF Request, RequestSteps
  <2>3. CASE /\ apiRequest' = [apiRequest EXCEPT ![r].pc = "build", ![r].wallet = w, ![r].endpoint = e]
             /\ UNCHANGED handed
    <3>0. apiRequest' = [apiRequest EXCEPT ![r].pc = "build", ![r].wallet = w, ![r].endpoint = e]
      BY <2>3
    <3> HIDE DEF ApiInv
    <3>1. apiRequest' = [apiRequest EXCEPT ![r] =
              [pc |-> "build", wallet |-> w, endpoint |-> e,
               tx |-> apiRequest[r].tx, status |-> apiRequest[r].status]]
      BY <1>0, <3>0, RequestBuilds
    <3>2. UNCHANGED handed
      BY <2>3
    <3> QED BY <2>1, <3>1, <3>2 DEF ApiInv, Request, RequestSteps
  <2> HIDE DEF ApiInv
  <2> QED BY <1>1, <2>2, <2>3, Zenon DEF beginBuild
<1>2. ASSUME NEW r \in ApiRequests, buildTx(r) PROVE ApiInv'
  <2> DEFINE w == apiRequest[r].wallet
             e == apiRequest[r].endpoint
             tx == [wallet |-> w, endpoint |-> e, seq |-> sequence[w] + 1, born |-> clock]
  <2>1. /\ UNCHANGED <<clock, sequence, mempool, ledgerOf, submissionRow>>
        /\ apiRequest[r].pc = "build" /\ Answered(r)
    BY <1>2 DEF buildTx
  <2>2. w \in Signers /\ e \in Used /\ tx \in Tx
    BY <2>1 DEF Tx
  <2>3. apiRequest' = [apiRequest EXCEPT ![r] =
            [pc |-> "answered", wallet |-> apiRequest[r].wallet, endpoint |-> apiRequest[r].endpoint,
             tx |-> apiRequest[r].tx, status |-> apiRequest[r].status]]
    BY <1>0, <2>1, RequestAnswered
  <2>4. /\ handed' = handed \cup {tx} \/ UNCHANGED handed
        /\ unsignedTx' = [unsignedTx EXCEPT ![<<w, e>>] = tx] \/ UNCHANGED unsignedTx
    BY <1>2 DEF buildTx
  <2> HIDE DEF w, e, tx
  <2>5. handed' \subseteq Tx /\ unsignedTx' \in [Signers \X Used -> Tx \cup {NoTx}]
    BY <2>2, <2>4
  <2> QED BY <2>1, <2>3, <2>5 DEF Request, RequestSteps
<1>3. ASSUME NEW w \in Signers, cacheBreakdown(w) PROVE ApiInv'
  BY <1>3 DEF cacheBreakdown
<1>4. ASSUME NEW r \in ApiRequests, NEW tx \in handed, sendTransaction(r, tx) PROVE ApiInv'
  <2>1. /\ UNCHANGED <<clock, sequence, unsignedTx, handed, ledgerOf, submissionRow>>
        /\ tx \in Tx /\ mempool' \subseteq Tx
    BY <1>4 DEF sendTransaction
  <2>2. CASE Answered(r)
    <3>1. apiRequest' = [apiRequest EXCEPT ![r] =
              [pc |-> "answered", wallet |-> apiRequest[r].wallet, endpoint |-> apiRequest[r].endpoint,
               tx |-> apiRequest[r].tx, status |-> apiRequest[r].status]]
      BY <1>0, <2>2, RequestAnswered
    <3> QED BY <2>1, <3>1 DEF Request, RequestSteps
  <2>3. ASSUME NEW answer \in SendAnswers(tx), NEW pc \in {"record", "poll"},
               apiRequest' = [apiRequest EXCEPT ![r] =
                   [NoRequest EXCEPT !.pc = pc, !.tx = tx, !.status = answer]]
        PROVE  ApiInv'
    <3>1. answer \in RequestStatus \ Final /\ pc \in RequestSteps
      BY <2>3 DEF SendAnswers, RequestStatus, RequestSteps, Final
    <3>2. [NoRequest EXCEPT !.pc = pc, !.tx = tx, !.status = answer]
              = [pc |-> pc, wallet |-> "none", endpoint |-> "none", tx |-> tx, status |-> answer]
      BY <2>1, <3>1, RequestSent
    <3>3. apiRequest' = [apiRequest EXCEPT ![r] =
              [pc |-> pc, wallet |-> "none", endpoint |-> "none", tx |-> tx, status |-> answer]]
      BY <2>3, <3>2, Zenon
    <3> QED BY <2>1, <3>1, <3>3 DEF Request
  <2> HIDE DEF ApiInv
  <2> QED BY <1>4, <2>2, <2>3, Zenon DEF sendTransaction
<1>5. ASSUME NEW r \in ApiRequests, pollTransaction(r) PROVE ApiInv'
  <2> DEFINE status == PollAnswer(apiRequest[r].tx)
  <2>1. /\ apiRequest[r].pc = "poll" /\ apiRequest[r].tx \in Tx
        /\ UNCHANGED <<clock, sequence, unsignedTx, handed, mempool, ledgerOf, submissionRow>>
    BY <1>5 DEF pollTransaction
  <2>2. /\ status \in RequestStatus
        /\ status \in Final => apiRequest[r].tx \in DOMAIN ledgerOf /\ ledgerOf[apiRequest[r].tx] = status
    BY DEF PollAnswer, RequestStatus, Final
  <2>3. apiRequest' = [apiRequest EXCEPT ![r].pc = "record", ![r].status = status]
    BY <1>5, Zenon DEF pollTransaction
  <2> HIDE DEF status
  <2>4. apiRequest' = [apiRequest EXCEPT ![r] =
            [pc |-> "record", wallet |-> apiRequest[r].wallet, endpoint |-> apiRequest[r].endpoint,
             tx |-> apiRequest[r].tx, status |-> status]]
    BY <1>0, <2>2, <2>3, RequestPolled
  <2> QED BY <2>1, <2>2, <2>4 DEF Request, RequestSteps
<1>6. ASSUME NEW r \in ApiRequests, recordSubmission(r) PROVE ApiInv'
  <2>1. /\ apiRequest[r].pc = "record" /\ apiRequest[r].tx \in Tx /\ Answered(r)
        /\ UNCHANGED <<clock, sequence, unsignedTx, handed, mempool, ledgerOf>>
        /\ \/ submissionRow' = Put(submissionRow, apiRequest[r].tx, apiRequest[r].status)
           \/ UNCHANGED submissionRow
    BY <1>6 DEF recordSubmission
  <2>2. apiRequest' = [apiRequest EXCEPT ![r] =
            [pc |-> "answered", wallet |-> apiRequest[r].wallet, endpoint |-> apiRequest[r].endpoint,
             tx |-> apiRequest[r].tx, status |-> apiRequest[r].status]]
    BY <1>0, <2>1, RequestAnswered
  <2>3. RecordsMatchChain' /\ DOMAIN submissionRow' \subseteq Tx
    BY <2>1 DEF Put, Final
  <2> QED BY <2>1, <2>2, <2>3 DEF Request, RequestSteps
<1>7. ASSUME NEW tx \in mempool, NEW result \in Final, applyTransaction(tx, result) PROVE ApiInv'
  <2>1. /\ UNCHANGED <<clock, unsignedTx, apiRequest, handed, submissionRow>>
        /\ tx \in Tx /\ tx.seq = sequence[tx.wallet] + 1
        /\ ledgerOf' = Put(ledgerOf, tx, result) /\ mempool' = mempool \ {tx}
        /\ sequence' = [sequence EXCEPT ![tx.wallet] = @ + 1]
    BY <1>7 DEF applyTransaction
  <2>2. tx.wallet \in Signers /\ tx.seq \in Nat /\ sequence[tx.wallet] \in Nat
    BY <2>1 DEF Tx
  <2>3. tx \notin DOMAIN ledgerOf
    BY <2>1, <2>2
  <2>4. /\ DOMAIN ledgerOf' = DOMAIN ledgerOf \cup {tx} /\ ledgerOf'[tx] = result
        /\ \A t \in DOMAIN ledgerOf : ledgerOf'[t] = ledgerOf[t]
        /\ ledgerOf' \in [DOMAIN ledgerOf' -> Final]
    BY <2>1, <2>3 DEF Put
  <2>5. ApiTyped'
    BY <2>1, <2>2, <2>4
  <2>6. AppliedUsesSequence'
    <3> SUFFICES ASSUME NEW t \in DOMAIN ledgerOf' PROVE t.seq <= sequence'[t.wallet]
      OBVIOUS
    <3>1. t \in Tx /\ t.wallet \in Signers /\ t.seq \in Nat
      BY <2>4, <2>1 DEF Tx
    <3>2. t = tx \/ t.seq <= sequence[t.wallet]
      BY <2>4
    <3> QED BY <2>1, <2>2, <3>1, <3>2
  <2>7. CarriedResultIsFinal' /\ RecordsMatchChain'
    BY <2>1, <2>4
  <2> QED BY <2>5, <2>6, <2>7
<1>8. ASSUME NEW tx \in mempool, dropTransaction(tx) PROVE ApiInv'
  BY <1>8 DEF dropTransaction
<1>9. CASE ApiTick
  BY <1>9 DEF ApiTick
<1>10. CASE UNCHANGED apiVars
  BY <1>10 DEF apiVars
<1> HIDE DEF ApiInv
<1> QED
  BY <1>1, <1>2, <1>3, <1>4, <1>5, <1>6, <1>7, <1>8, <1>9, <1>10 DEF ApiNext, Final

(* No re-submission, duplicate answer, poll that gives up or transaction   *)
(* that outlives its time bounds makes transaction_submissions report a    *)
(* result that is not the ledger's.                                        *)
THEOREM SubmissionRowsMatchLedger == ApiSpec => []RecordsMatchChain
<1>1. ApiInv => RecordsMatchChain
  BY DEF ApiInv
<1> QED BY <1>1, ApiInitial, ApiStep, PTL DEF ApiSpec

------------------------------------------------------------------------------
(* The paged lists.                                                        *)

(* Every list runs in one of the three orders, over a table of its own.    *)
LEMMA ListFacts ==
    ASSUME NEW l \in UsedLists
    PROVE  /\ Lists[l].order \in {"created", "key", "newest"}
           /\ Lists[l].table \in Tables
           /\ Lists[l].table # "none"
<1>1. l \in DOMAIN Lists
  BY ListNames
<1>2. Lists[l].order \in {"created", "key", "newest"} /\ Lists[l].table # "none"
  <2>1. /\ getBorrowerEvents.order = "created" /\ getBorrowerEvents.table # "none"
        /\ getLoanEvents.order = "created" /\ getLoanEvents.table # "none"
        /\ getRecentEvents.order = "created" /\ getRecentEvents.table # "none"
    BY DEF KeysetList, getBorrowerEvents, getLoanEvents, getRecentEvents
  <2>2. getRemittances.order = "created" /\ getRemittances.table # "none"
    BY DEF KeysetList, getRemittances
  <2>3. \A status : listLoanDisputes(status).order = "created" /\ listLoanDisputes(status).table # "none"
    BY DEF KeysetList, listLoanDisputes
  <2>4. /\ listQuarantinedEvents.order = "key" /\ listQuarantinedEvents.table # "none"
        /\ BorrowerLoanPages.order = "key" /\ BorrowerLoanPages.table # "none"
    BY DEF KeysetList, listQuarantinedEvents, BorrowerLoanPages
  <2>5. listMyTransactions.order = "newest" /\ listMyTransactions.table # "none"
    BY DEF KeysetList, listMyTransactions
  <2> QED BY <1>1, <2>1, <2>2, <2>3, <2>4, <2>5 DEF Lists
<1> QED BY <1>2 DEF Tables

(* Only a list in the order of its key may be asked for a page of no rows. *)
LEMMA PageSizes ==
    ASSUME NEW list, NEW wanted \in 0 .. Limit
    PROVE  PageSize(list, wanted) \in Nat /\ (list.order # "key" => PageSize(list, wanted) > 0)
BY PagingConstants DEF PageSize, parsePositiveInteger, parseKeysetParams

(* A cursor's time is not after its row's: the microseconds are dropped.   *)
LEMMA TruncatedBelow ==
    ASSUME NEW t \in Nat
    PROVE  Truncated(t) \in Nat /\ Truncated(t) <= t
<1> DEFINE q == t \div Millisecond
<1>1. q \in Nat /\ Millisecond * q <= t
  BY PagingConstants, QuotientBounds
<1> HIDE DEF q
<1>2. Truncated(t) = q * Millisecond
  BY DEF Truncated, q
<1> QED BY <1>1, <1>2, PagingConstants

(* A list in order.                                                        *)
StrictOrder(list, S) ==
    /\ \A x \in S : ~Precedes(list, x, x)
    /\ \A x, y \in S : x # y => Precedes(list, x, y) \/ Precedes(list, y, x)
    /\ \A x, y, z \in S : Precedes(list, x, y) /\ Precedes(list, y, z) => Precedes(list, x, z)

(* InOrder sorts: the ranks of the rows, each one more than the rows before *)
(* it, are strictly increasing along the order and fill 1 .. n.            *)
LEMMA InOrderSorts ==
    ASSUME NEW list, NEW S, IsFiniteSet(S), StrictOrder(list, S)
    PROVE  /\ InOrder(list, S) \in [1 .. Cardinality(S) -> S]
           /\ \A i, j \in 1 .. Cardinality(S) :
                 i < j => Precedes(list, InOrder(list, S)[i], InOrder(list, S)[j])
           /\ \A x \in S : \E i \in 1 .. Cardinality(S) : InOrder(list, S)[i] = x
<1> DEFINE n == Cardinality(S)
           Before(x) == {y \in S : Precedes(list, y, x)}
           Rank(x) == Cardinality(Before(x)) + 1
           rank == [x \in S |-> Rank(x)]
           f == InOrder(list, S)
<1>1. n \in Nat
  BY FS_CardinalityType
<1>2. ASSUME NEW x \in S
      PROVE  IsFiniteSet(Before(x)) /\ Cardinality(Before(x)) \in Nat /\ Rank(x) \in 1 .. n
  <2>1. Before(x) \in SUBSET (S \ {x})
    BY DEF StrictOrder
  <2>2. IsFiniteSet(S \ {x}) /\ Cardinality(S \ {x}) = n - 1
    BY FS_RemoveElement
  <2> HIDE DEF Before, n
  <2>3. IsFiniteSet(Before(x)) /\ Cardinality(Before(x)) <= n - 1
    BY <2>1, <2>2, FS_Subset
  <2>4. Cardinality(Before(x)) \in Nat
    BY <2>3, FS_CardinalityType
  <2> QED BY <1>1, <2>3, <2>4
<1>3. ASSUME NEW x \in S, NEW y \in S, Precedes(list, x, y) PROVE Rank(x) < Rank(y)
  <2>1. Before(x) \in SUBSET Before(y)
    BY <1>3 DEF StrictOrder
  <2>2. x \in Before(y) /\ x \notin Before(x)
    BY <1>3 DEF StrictOrder
  <2> HIDE DEF Before
  <2>3. Cardinality(Before(x)) <= Cardinality(Before(y)) /\ Cardinality(Before(x)) # Cardinality(Before(y))
    BY <1>2, <2>1, <2>2, FS_Subset
  <2> QED BY <1>2, <2>3
<1> HIDE DEF Before, Rank, n
<1>4. \A x, y \in S : Rank(x) = Rank(y) => x = y
  <2> SUFFICES ASSUME NEW x \in S, NEW y \in S, x # y PROVE Rank(x) # Rank(y)
    OBVIOUS
  <2>1. Rank(x) < Rank(y) \/ Rank(y) < Rank(x)
    BY <1>3 DEF StrictOrder
  <2>2. Rank(x) \in Int /\ Rank(y) \in Int
    BY <1>2
  <2> QED BY <2>1, <2>2
<1>5. rank \in Injection(S, 1 .. n)
  <2>1. rank \in [S -> 1 .. n]
    BY <1>2
  <2> QED BY <1>4, <2>1 DEF Injection, IsInjective
<1>6. IsFiniteSet(1 .. n) /\ Cardinality(1 .. n) = n
  BY <1>1, FS_Interval
<1>7. rank \in Surjection(S, 1 .. n)
  BY <1>5, <1>6, FS_Injection DEF n
<1>8. ASSUME NEW i \in 1 .. n PROVE \E x \in S : Rank(x) = i
  BY <1>7 DEF Surjection
<1>9. f = [i \in 1 .. n |-> CHOOSE x \in S : Rank(x) = i]
  BY DEF InOrder, Rank, Before, n
<1> HIDE DEF f
<1>10. ASSUME NEW i \in 1 .. n PROVE f[i] \in S /\ Rank(f[i]) = i
  BY <1>8, <1>9
<1>11. f \in [1 .. n -> S]
  BY <1>9, <1>10
<1>12. ASSUME NEW i \in 1 .. n, NEW j \in 1 .. n, i < j PROVE Precedes(list, f[i], f[j])
  <2>1. f[i] \in S /\ f[j] \in S /\ Rank(f[i]) = i /\ Rank(f[j]) = j
    BY <1>10
  <2>2. f[i] # f[j]
    BY <1>12, <2>1
  <2>3. ~Precedes(list, f[j], f[i])
    <3>1. SUFFICES ASSUME Precedes(list, f[j], f[i]) PROVE FALSE
      OBVIOUS
    <3>2. Rank(f[j]) < Rank(f[i])
      BY <1>3, <2>1, <3>1
    <3> QED BY <1>1, <1>12, <2>1, <3>2
  <2> QED BY <2>1, <2>2, <2>3 DEF StrictOrder
<1>13. ASSUME NEW x \in S PROVE \E i \in 1 .. n : f[i] = x
  <2>1. Rank(x) \in 1 .. n
    BY <1>2
  <2>2. f[Rank(x)] = x
    BY <1>4, <1>10, <2>1
  <2> QED BY <2>1, <2>2
<1> QED BY <1>11, <1>12, <1>13 DEF f, n

ListRows == [table : Tables, seq : Nat, at : Nat, writer : Writers]
Cursors == {NoCursor} \cup [at : Nat, seq : Nat]
ReaderStates ==
    [pc : {"idle", "fetch", "done", "failed"}, list : UsedLists \cup {"none"}, snapshot : Nat,
     cursor : Cursors, seen : Seq(ListRows), expected : SUBSET ListRows]

PagingTyped ==
    /\ time \in Nat
    /\ rows \in SUBSET ListRows /\ IsFiniteSet(rows)
    /\ writing \in [Writers -> Tables \cup {"none"}]
    /\ stamp \in [Writers -> Nat]
    /\ reader \in [Readers -> ReaderStates]

(* The key of a table is one row's.                                        *)
KeysUnique ==
    /\ \E bound \in Nat : \A row \in rows : row.seq <= bound
    /\ \A x, y \in rows : x.table = y.table /\ x.seq = y.seq => x = y

(* What is seen is behind the cursor, and what was there when the list was *)
(* opened, in lists that run along their key, is seen or ahead of it.      *)
SeenOnce(s) == \A i, j \in 1 .. Len(s.seen) : i # j => s.seen[i] # s.seen[j]

SeenBehind(s) ==
    \A i \in 1 .. Len(s.seen) :
        /\ ~InPage(s, Lists[s.list], s.seen[i])
        /\ Lists[s.list].order = "created" => s.seen[i].seq <= s.snapshot

Seen(s, row) == \E i \in 1 .. Len(s.seen) : s.seen[i] = row

NothingSkipped(s) ==
    /\ (\/ Lists[s.list].order = "key" /\ s.pc # "failed"
        \/ Lists[s.list].order = "newest" /\ s.pc = "fetch") =>
           \A row \in s.expected : Seen(s, row) \/ InPage(s, Lists[s.list], row)
    /\ Lists[s.list].order = "newest" /\ s.pc = "done" => \A row \in s.expected : Seen(s, row)

ReaderSound(s) ==
    /\ s.pc = "idle" => s = FreshReader
    /\ s.pc # "idle" =>
           /\ s.list \in UsedLists
           /\ SeenOnce(s) /\ SeenBehind(s) /\ NothingSkipped(s)
           /\ s.seen # <<>> => s.cursor.seq = s.seen[Len(s.seen)].seq

PagingInv ==
    /\ PagingTyped
    /\ KeysUnique
    /\ \A r \in Readers :
           /\ ReaderSound(reader[r])
           /\ reader[r].pc # "idle" => reader[r].expected \subseteq VisibleRows(Lists[reader[r].list].table)

(* The invariant says PagesNeverRepeat of every reader.                    *)
LEMMA PagingInvGives == PagingInv => PagesNeverRepeat
<1> SUFFICES ASSUME PagingInv, NEW r \in Readers
             PROVE  LET s == reader[r]
                    IN  /\ \A i, j \in 1 .. Len(s.seen) : i # j => s.seen[i] # s.seen[j]
                        /\ s.list # "none" /\ Lists[s.list].order = "created" =>
                               \A i \in 1 .. Len(s.seen) : s.seen[i].seq <= s.snapshot
                        /\ s.pc = "done" /\ Lists[s.list].order = "key" /\ s.seen # <<>> =>
                               \A row \in s.expected :
                                   \/ \E i \in 1 .. Len(s.seen) : s.seen[i] = row
                                   \/ row.seq > s.seen[Len(s.seen)].seq
                        /\ s.pc = "done" /\ Lists[s.list].order = "newest" =>
                               \A row \in s.expected : \E i \in 1 .. Len(s.seen) : s.seen[i] = row
  BY DEF PagesNeverRepeat
<1> DEFINE s == reader[r]
<1>1. s \in ReaderStates /\ ReaderSound(s)
  BY DEF PagingInv, PagingTyped
<1>2. CASE s.pc = "idle"
  BY <1>1, <1>2 DEF ReaderSound, FreshReader
<1>3. CASE s.pc # "idle"
  <2> HIDE DEF s
  <2>1. SeenOnce(s) /\ SeenBehind(s) /\ NothingSkipped(s) /\ s.list \in UsedLists
    BY <1>1, <1>3 DEF ReaderSound
  <2>2. s.seen # <<>> => s.cursor.seq = s.seen[Len(s.seen)].seq
    BY <1>1, <1>3 DEF ReaderSound
  <2>3. s.pc = "done" /\ Lists[s.list].order = "key" =>
            \A row \in s.expected : Seen(s, row) \/ row.seq > s.cursor.seq
    BY <2>1 DEF NothingSkipped, InPage
  <2> QED BY <2>1, <2>2, <2>3 DEF SeenOnce, SeenBehind, NothingSkipped, Seen, s
<1> QED BY <1>2, <1>3

(* The cursor of a page: what was behind stays behind, the page is behind, *)
(* and, along the key, what comes after the page is ahead.                 *)
LEMMA CursorMoves ==
    ASSUME NEW s \in ReaderStates, NEW t, t.snapshot = s.snapshot,
           NEW l \in UsedLists, NEW p \in ListRows, InPage(s, Lists[l], p),
           t.cursor = encodeCursor(p), NEW x \in ListRows
    PROVE  /\ ~InPage(s, Lists[l], x) /\ (Lists[l].order = "created" => x.seq <= s.snapshot)
                  => ~InPage(t, Lists[l], x)
           /\ x = p \/ Precedes(Lists[l], x, p) => ~InPage(t, Lists[l], x)
           /\ Lists[l].order \in {"key", "newest"} /\ Precedes(Lists[l], p, x) => InPage(t, Lists[l], x)
<1>1. /\ x.seq \in Nat /\ x.at \in Nat /\ p.seq \in Nat /\ p.at \in Nat
      /\ Truncated(p.at) \in Nat /\ Truncated(p.at) <= p.at
  BY TruncatedBelow DEF ListRows
<1>2. t.cursor.at = Truncated(p.at) /\ t.cursor.seq = p.seq
  BY DEF encodeCursor
<1>3. t.cursor # NoCursor
  BY <1>1, <1>2 DEF NoCursor
<1>4. s.cursor = NoCursor \/ (s.cursor.at \in Nat /\ s.cursor.seq \in Nat)
  BY DEF ReaderStates, Cursors
<1>5. s.cursor.seq \in Int /\ s.snapshot \in Nat
  BY <1>4 DEF NoCursor, ReaderStates
<1>6. CASE Lists[l].order = "key"
  BY <1>1, <1>2, <1>5, <1>6 DEF InPage, Precedes
<1>7. CASE Lists[l].order = "newest"
  BY <1>1, <1>2, <1>3, <1>4, <1>7 DEF InPage, Precedes
<1>8. CASE Lists[l].order = "created"
  <2>1. ~InPage(s, Lists[l], x) /\ x.seq <= s.snapshot => ~InPage(t, Lists[l], x)
    BY <1>1, <1>2, <1>3, <1>4, <1>8 DEF InPage, buildKeysetClause
  <2>2. x = p \/ Precedes(Lists[l], x, p) => ~InPage(t, Lists[l], x)
    BY <1>1, <1>2, <1>3, <1>8 DEF InPage, buildKeysetClause, Precedes
  <2> QED BY <1>8, <2>1, <2>2
<1> QED BY <1>6, <1>7, <1>8, ListFacts

(* PagingInit.                                                             *)
LEMMA PagingStarts == PagingInit => PagingInv
<1> SUFFICES ASSUME PagingInit PROVE PagingInv
  OBVIOUS
<1>1. FreshReader \in ReaderStates /\ FreshReader.pc = "idle"
  BY DEF FreshReader, ReaderStates, Cursors
<1>2. PagingTyped
  BY <1>1, FS_EmptySet DEF PagingInit, PagingTyped
<1>3. KeysUnique
  BY DEF PagingInit, KeysUnique
<1>4. \A r \in Readers : ReaderSound(reader[r]) /\ reader[r].pc = "idle"
  BY <1>1 DEF PagingInit, ReaderSound
<1> QED BY <1>2, <1>3, <1>4 DEF PagingInv

(* The rows a client may see only become more: a row keeps its writer, who *)
(* writes once.                                                            *)
LEMMA RowsStayVisible ==
    ASSUME PagingTyped, NEW table \in Tables,
           \/ \E w \in Writers : (\E t \in Tables : beginWrite(w, t)) \/ insertRow(w) \/ commitWrite(w)
           \/ UNCHANGED <<rows, writing>>
    PROVE  VisibleRows(table) \subseteq VisibleRows(table)'
<1> SUFFICES ASSUME NEW row \in rows, row.table = table, writing[row.writer] # table
             PROVE  row \in VisibleRows(table)'
  BY DEF VisibleRows
<1>1. row.writer \in Writers
  BY DEF PagingTyped, ListRows
<1>2. ASSUME NEW w \in Writers, NEW t \in Tables, beginWrite(w, t) PROVE row \in VisibleRows(table)'
  BY <1>1, <1>2 DEF PagingTyped, VisibleRows, beginWrite
<1>3. ASSUME NEW w \in Writers, insertRow(w) PROVE row \in VisibleRows(table)'
  BY <1>3 DEF VisibleRows, insertRow
<1>4. ASSUME NEW w \in Writers, commitWrite(w) PROVE row \in VisibleRows(table)'
  <2>1. writing'[row.writer] \in {writing[row.writer], "none"} /\ rows' = rows
    BY <1>1, <1>4 DEF PagingTyped, commitWrite
  <2>2. table # "none"
    BY ListFacts DEF Tables
  <2> QED BY <2>1, <2>2 DEF VisibleRows
<1>5. CASE UNCHANGED <<rows, writing>>
  BY <1>5 DEF VisibleRows
<1> QED BY <1>2, <1>3, <1>4, <1>5

(* The steps of a writer.                                                  *)
LEMMA WriterSteps ==
    ASSUME PagingInv, NEW w \in Writers,
           (\E t \in Tables : beginWrite(w, t)) \/ insertRow(w) \/ commitWrite(w)
    PROVE  PagingInv'
<1>1. reader' = reader
  BY DEF beginWrite, insertRow, commitWrite
<1>2. \A r \in Readers :
          (reader[r].pc # "idle" => reader[r].expected \subseteq VisibleRows(Lists[reader[r].list].table))'
  <2>1. \A table \in Tables : VisibleRows(table) \subseteq VisibleRows(table)'
    BY RowsStayVisible DEF PagingInv
  <2> SUFFICES ASSUME NEW r \in Readers, reader[r].pc # "idle"
               PROVE  (reader[r].expected \subseteq VisibleRows(Lists[reader[r].list].table))'
    BY <1>1
  <2>2. PICK table \in Tables : table = Lists[reader[r].list].table
    BY ListFacts DEF PagingInv, ReaderSound
  <2>3. reader[r].expected \subseteq VisibleRows(table)
    BY <2>2 DEF PagingInv
  <2>4. reader'[r].expected \subseteq VisibleRows(table)'
    BY <1>1, <2>1, <2>3
  <2>5. table = Lists[reader'[r].list].table
    BY <1>1, <2>2
  <2> QED BY <2>4, <2>5
<1>3. \A r \in Readers : ReaderSound(reader'[r])
  BY <1>1 DEF PagingInv
<1>4. CASE \E t \in Tables : beginWrite(w, t)
  <2>1. UNCHANGED <<time, rows>> /\ writing' \in [Writers -> Tables \cup {"none"}]
    BY <1>4 DEF PagingInv, PagingTyped, beginWrite
  <2>2. stamp' \in [Writers -> Nat]
    BY <1>4, TruncatedBelow DEF PagingInv, PagingTyped, beginWrite
  <2> QED BY <1>1, <1>2, <1>3, <2>1, <2>2 DEF PagingInv, PagingTyped, KeysUnique
<1>5. CASE insertRow(w)
  <2> DEFINE table == writing[w]
             used == {row.seq : row \in {x \in rows : x.table = table}}
             top == Max(used \cup {0})
  <2>1. PICK bound \in Nat : \A row \in rows : row.seq <= bound
    BY DEF PagingInv, KeysUnique
  <2>2. used \cup {0} \in SUBSET (0 .. bound)
    BY <2>1 DEF PagingInv, PagingTyped, ListRows
  <2>3. PICK n \in used \cup {0} : \A m \in used \cup {0} : m <= n
    BY <2>2, GreatestNatural
  <2>4. top \in used \cup {0} /\ \A m \in used \cup {0} : m <= top
    <3>1. n >= n /\ \A m \in used \cup {0} : n >= m
      BY <2>2, <2>3
    <3>2. top \in used \cup {0} /\ \A m \in used \cup {0} : top >= m
      BY <3>1 DEF Max
    <3> QED BY <2>2, <3>2
  <2>5. top \in 0 .. bound
    BY <2>2, <2>4
  <2>6. \A row \in rows : row.table = table => row.seq <= top
    BY <2>4
  <2> HIDE DEF top
  <2>7. table \in Tables
    BY <1>5 DEF insertRow, PagingInv, PagingTyped
  <2>8. PICK new : new = [table |-> table, seq |-> top + 1, at |-> stamp[w], writer |-> w]
    OBVIOUS
  <2>9. new \in ListRows /\ new.seq = top + 1 /\ new.table = table
    BY <2>5, <2>7, <2>8 DEF ListRows, PagingInv, PagingTyped
  <2>10. rows' = rows \cup {new} /\ UNCHANGED <<time, writing, stamp>>
    BY <1>5, <2>8 DEF insertRow, top
  <2>11. IsFiniteSet(rows')
    BY <2>10, FS_AddElement DEF PagingInv, PagingTyped
  <2>12. \A row \in rows' : row.seq <= bound + 1
    <3>1. \A row \in rows : row.seq \in Nat /\ row.seq <= bound
      BY <2>1 DEF PagingInv, PagingTyped, ListRows
    <3> QED BY <2>5, <2>9, <2>10, <3>1
  <2>13. \A x, y \in rows' : x.table = y.table /\ x.seq = y.seq => x = y
    <3>1. \A row \in rows : row.seq \in Nat
      BY DEF PagingInv, PagingTyped, ListRows
    <3>2. \A row \in rows : row.table = new.table => row.seq # new.seq
      BY <2>5, <2>6, <2>9, <3>1
    <3>3. \A x, y \in rows : x.table = y.table /\ x.seq = y.seq => x = y
      BY DEF PagingInv, KeysUnique
    <3> HIDE DEF table
    <3> QED BY <2>10, <3>2, <3>3
  <2>14. KeysUnique'
    BY <2>12, <2>13 DEF KeysUnique
  <2>15. PagingTyped'
    BY <1>1, <2>9, <2>10, <2>11 DEF PagingInv, PagingTyped
  <2> QED BY <1>1, <1>2, <1>3, <2>14, <2>15 DEF PagingInv
<1>6. CASE commitWrite(w)
  <2>1. UNCHANGED <<time, rows, stamp>> /\ writing' \in [Writers -> Tables \cup {"none"}]
    BY <1>6 DEF PagingInv, PagingTyped, commitWrite
  <2> QED BY <1>1, <1>2, <1>3, <2>1 DEF PagingInv, PagingTyped, KeysUnique
<1> QED BY <1>4, <1>5, <1>6

(* A step of one reader.                                                   *)
LEMMA OneReader ==
    ASSUME PagingInv, NEW r \in Readers, NEW s \in ReaderStates, ReaderSound(s),
           reader' = [reader EXCEPT ![r] = s], UNCHANGED <<time, rows, writing, stamp>>,
           s.pc # "idle" => s.expected \subseteq VisibleRows(Lists[s.list].table)
    PROVE  PagingInv'
<1>1. \A q \in Readers : reader'[q] = IF q = r THEN s ELSE reader[q]
  BY DEF PagingInv, PagingTyped
<1>2. PagingTyped'
  BY DEF PagingInv, PagingTyped
<1>3. \A table : VisibleRows(table)' = VisibleRows(table)
  BY DEF VisibleRows
<1> QED BY <1>1, <1>2, <1>3 DEF PagingInv, KeysUnique

(* pinSnapshot.                                                            *)
LEMMA PinStep ==
    ASSUME PagingInv, NEW r \in Readers, NEW l \in UsedLists, pinSnapshot(r, l)
    PROVE  PagingInv'
<1> DEFINE visible == VisibleRows(Lists[l].table)
           seqs == {row.seq : row \in visible} \cup {0}
<1>1. visible \in SUBSET ListRows
  BY DEF VisibleRows, PagingInv, PagingTyped
<1>2. PICK bound \in Nat : \A row \in rows : row.seq <= bound
  BY DEF PagingInv, KeysUnique
<1>3. seqs \in SUBSET (0 .. bound)
  BY <1>1, <1>2 DEF ListRows, VisibleRows
<1>4. PICK n \in seqs : \A m \in seqs : m <= n
  BY <1>3, GreatestNatural
<1>5. Max(seqs) \in Nat
  <2>1. \A m \in seqs : n >= m
    BY <1>3, <1>4
  <2>2. Max(seqs) \in seqs
    BY <2>1 DEF Max
  <2> QED BY <1>3, <2>2
<1>6. PICK snapshot \in Nat : snapshot = Max(seqs)
  BY <1>5
<1>7. PICK v \in SUBSET ListRows : v = visible
  BY <1>1
<1>8. PICK s : s = [FreshReader EXCEPT !.pc = "fetch", !.list = l, !.expected = v, !.snapshot = snapshot]
  OBVIOUS
<1>9. /\ s \in ReaderStates /\ s.pc = "fetch" /\ s.list = l /\ s.expected = v
      /\ s.seen = <<>> /\ s.cursor = NoCursor /\ s.snapshot = snapshot
  <2>1. FreshReader \in ReaderStates /\ FreshReader.seen = <<>> /\ FreshReader.cursor = NoCursor
    BY DEF FreshReader, ReaderStates, Cursors
  <2> QED BY <1>8, <2>1 DEF ReaderStates
<1>10. reader' = [reader EXCEPT ![r] = s] /\ UNCHANGED <<time, rows, writing, stamp>>
  BY <1>6, <1>7, <1>8 DEF pinSnapshot
<1>11. NothingSkipped(s)
  <2>1. \A row \in v : row.seq \in Nat
    BY DEF ListRows
  <2>2. s.cursor.seq = -1
    BY <1>9 DEF NoCursor
  <2>3. CASE Lists[l].order = "key"
    BY <1>9, <2>1, <2>2, <2>3 DEF NothingSkipped, InPage
  <2>4. CASE Lists[l].order = "newest"
    BY <1>9, <2>4 DEF NothingSkipped, InPage
  <2>5. CASE Lists[l].order = "created"
    BY <1>9, <2>5 DEF NothingSkipped
  <2> QED BY <2>3, <2>4, <2>5, ListFacts
<1>12. ReaderSound(s)
  BY <1>9, <1>11 DEF ReaderSound, SeenOnce, SeenBehind
<1> QED BY <1>7, <1>9, <1>10, <1>12, OneReader

(* The rows of one table are in a strict order, whichever the list's is.   *)
LEMMA RowsOrdered ==
    ASSUME NEW l \in UsedLists, NEW S \in SUBSET ListRows,
           \A x, y \in S : x.seq = y.seq => x = y
    PROVE  StrictOrder(Lists[l], S)
<1>1. \A x \in S : x.seq \in Nat /\ x.at \in Nat
  BY DEF ListRows
<1>2. CASE Lists[l].order = "key"
  BY <1>1, <1>2 DEF StrictOrder, Precedes
<1>3. CASE Lists[l].order = "newest"
  BY <1>1, <1>3 DEF StrictOrder, Precedes
<1>4. CASE Lists[l].order = "created"
  BY <1>1, <1>4 DEF StrictOrder, Precedes
<1> QED BY <1>2, <1>3, <1>4, ListFacts

(* A page: its rows in order, and the rows it leaves come after its last.  *)
LEMMA PageFacts ==
    ASSUME NEW list, NEW S \in SUBSET ListRows, IsFiniteSet(S), StrictOrder(list, S), NEW size \in Nat,
           NEW found, found = InOrder(list, S), NEW page,
           page = IF Len(found) > size THEN SubSeq(found, 1, size) ELSE found
    PROVE  /\ page \in Seq(ListRows)
           /\ \A i \in 1 .. Len(page) : page[i] \in S
           /\ \A i, j \in 1 .. Len(page) : i < j => Precedes(list, page[i], page[j])
           /\ Len(found) <= size => \A x \in S : \E i \in 1 .. Len(page) : page[i] = x
           /\ Len(found) > size => Len(page) = size
           /\ page # <<>> =>
                  \A x \in S : \/ \E i \in 1 .. Len(page) : page[i] = x
                               \/ Precedes(list, page[Len(page)], x)
<1> DEFINE n == Cardinality(S)
<1>1. n \in Nat
  BY FS_CardinalityType
<1> HIDE DEF n
<1>2. /\ found \in [1 .. n -> S]
      /\ \A i, j \in 1 .. n : i < j => Precedes(list, found[i], found[j])
      /\ \A x \in S : \E i \in 1 .. n : found[i] = x
  BY InOrderSorts DEF n
<1>3. found \in Seq(S) /\ Len(found) = n
  BY <1>1, <1>2
<1>4. found \in Seq(ListRows)
  BY <1>3
<1>5. PICK m \in 0 .. n : m = IF n > size THEN size ELSE n
  BY <1>1
<1>6. page \in Seq(ListRows) /\ Len(page) = m /\ \A i \in 1 .. m : page[i] = found[i]
  <2>1. CASE n > size
    <3>1. page = SubSeq(found, 1, size) /\ m = size
      BY <1>3, <1>5, <2>1
    <3>2. \A i \in 1 .. size : found[i] \in ListRows
      BY <1>1, <1>2, <2>1
    <3> QED BY <3>1, <3>2, SubSeqProperties
  <2>2. CASE ~(n > size)
    BY <1>3, <1>4, <1>5, <2>2
  <2> QED BY <2>1, <2>2
<1>7. \A i \in 1 .. m : i \in 1 .. n
  BY <1>1
<1>8. \A i \in 1 .. m : page[i] \in S
  BY <1>2, <1>6, <1>7
<1>9. \A i, j \in 1 .. m : i < j => Precedes(list, page[i], page[j])
  BY <1>2, <1>6, <1>7
<1>10. ASSUME NEW x \in S
       PROVE  \/ \E i \in 1 .. m : page[i] = x
              \/ m < n /\ (m > 0 => Precedes(list, page[m], x))
  <2>1. PICK i \in 1 .. n : found[i] = x
    BY <1>2
  <2>2. CASE i <= m
    <3>1. i \in 1 .. m /\ page[i] = x
      BY <1>6, <2>1, <2>2
    <3> QED BY <3>1
  <2>3. CASE i > m
    <3>1. m < n
      BY <1>1, <2>3
    <3>2. m > 0 => Precedes(list, found[m], found[i])
      BY <1>1, <1>2, <2>3
    <3> QED BY <1>6, <2>1, <3>1, <3>2
  <2>4. i <= m \/ i > m
    BY <1>1
  <2> QED BY <2>2, <2>3, <2>4
<1>11. Len(found) <= size => m = n
  BY <1>1, <1>3, <1>5
<1>12. Len(found) <= size => \A x \in S : \E i \in 1 .. m : page[i] = x
  BY <1>1, <1>10, <1>11
<1>13. page # <<>> => m > 0
  BY <1>6
<1>14. Len(found) > size => m = size
  BY <1>1, <1>3, <1>5
<1> QED BY <1>6, <1>8, <1>9, <1>10, <1>12, <1>13, <1>14

(* What a page adds to the rows already seen.                              *)
LEMMA PageAppended ==
    ASSUME NEW a \in Seq(ListRows), NEW p \in Seq(ListRows), NEW e, e = a \o p
    PROVE  /\ e \in Seq(ListRows) /\ Len(e) = Len(a) + Len(p)
           /\ \A i \in 1 .. Len(a) : e[i] = a[i]
           /\ \A i \in 1 .. Len(p) : e[Len(a) + i] = p[i]
           /\ \A i \in 1 .. Len(e) :
                 i \in 1 .. Len(a) \/ \E j \in 1 .. Len(p) : i = Len(a) + j
<1>1. Len(a) \in Nat /\ Len(p) \in Nat
  OBVIOUS
<1>2. e \in Seq(ListRows) /\ Len(e) = Len(a) + Len(p)
  BY ConcatProperties
<1>3. \A i \in 1 .. Len(a) + Len(p) : e[i] = IF i <= Len(a) THEN a[i] ELSE p[i - Len(a)]
  BY ConcatProperties
<1>4. \A i \in 1 .. Len(a) : e[i] = a[i]
  BY <1>1, <1>3
<1>5. ASSUME NEW i \in 1 .. Len(p) PROVE e[Len(a) + i] = p[i]
  <2>1. Len(a) + i \in 1 .. Len(a) + Len(p) /\ ~(Len(a) + i <= Len(a)) /\ (Len(a) + i) - Len(a) = i
    BY <1>1
  <2>2. e[Len(a) + i] = p[(Len(a) + i) - Len(a)]
    BY <1>3, <2>1
  <2> QED BY <2>1, <2>2
<1>6. ASSUME NEW i \in 1 .. Len(e)
      PROVE  i \in 1 .. Len(a) \/ \E j \in 1 .. Len(p) : i = Len(a) + j
  <2>1. CASE i <= Len(a)
    BY <1>1, <1>2, <2>1
  <2>2. CASE i > Len(a)
    <3>1. i - Len(a) \in 1 .. Len(p) /\ i = Len(a) + (i - Len(a))
      BY <1>1, <1>2, <2>2
    <3> QED BY <3>1
  <2> QED BY <1>1, <1>2, <2>1, <2>2
<1> QED BY <1>2, <1>4, <1>5, <1>6

(* fetchPage: the new rows are in the page and so were not behind the      *)
(* cursor, they differ among themselves because the order is strict, and   *)
(* the cursor of their last one leaves all of them behind.                 *)
LEMMA FetchStep ==
    ASSUME PagingInv, NEW r \in Readers, NEW wanted \in 0 .. Limit, fetchPage(r, wanted)
    PROVE  PagingInv'
<1> DEFINE s == reader[r]
           list == Lists[s.list]
           S == {row \in VisibleRows(list.table) : InPage(s, list, row)}
           found == InOrder(list, S)
           size == PageSize(list, wanted)
           page == IF Len(found) > size THEN SubSeq(found, 1, size) ELSE found
<1>1. /\ s \in ReaderStates /\ s.pc = "fetch" /\ s.list \in UsedLists
      /\ SeenOnce(s) /\ SeenBehind(s) /\ NothingSkipped(s) /\ ReaderSound(s)
      /\ s.seen # <<>> => s.cursor.seq = s.seen[Len(s.seen)].seq
      /\ s.expected \subseteq VisibleRows(list.table)
  BY DEF PagingInv, PagingTyped, ReaderSound, fetchPage
<1>2. UNCHANGED <<time, rows, writing, stamp>>
  BY DEF fetchPage
<1>3. /\ S \in SUBSET ListRows /\ S \in SUBSET rows
      /\ \A x, y \in S : x.seq = y.seq => x = y
  BY DEF PagingInv, PagingTyped, KeysUnique, VisibleRows
<1>4. IsFiniteSet(S) /\ StrictOrder(list, S)
  BY <1>1, <1>3, RowsOrdered, FS_Subset, ZenonT(40) DEF PagingInv, PagingTyped
<1>5. size \in Nat /\ (list.order # "key" => size > 0)
  BY PageSizes
<1>6. PICK p : p = page
  OBVIOUS
<1>7. reader' = [reader EXCEPT ![r] =
          IF ~list.fits THEN [s EXCEPT !.pc = "failed"]
          ELSE [s EXCEPT !.pc = IF Len(found) > size /\ p # <<>> THEN "fetch" ELSE "done",
                         !.seen = s.seen \o p,
                         !.cursor = IF p = <<>> THEN s.cursor ELSE encodeCursor(p[Len(p)])]]
  BY <1>6 DEF fetchPage
<1> DEFINE more == Len(found) > size
<1>8. /\ p \in Seq(ListRows)
      /\ \A i \in 1 .. Len(p) : p[i] \in S
      /\ \A i, j \in 1 .. Len(p) : i < j => Precedes(list, p[i], p[j])
      /\ ~more => \A x \in S : \E i \in 1 .. Len(p) : p[i] = x
      /\ more => Len(p) = size
      /\ p # <<>> => \A x \in S : (\E i \in 1 .. Len(p) : p[i] = x) \/ Precedes(list, p[Len(p)], x)
  <2> HIDE DEF S, list, size
  <2>1. Len(found) \in Nat
    <3>1. found \in [1 .. Cardinality(S) -> S] /\ Cardinality(S) \in Nat
      BY <1>4, InOrderSorts, FS_CardinalityType
    <3> HIDE DEF found
    <3> QED BY <3>1
  <2>2. PICK f : f = found
    OBVIOUS
  <2>3. f = InOrder(list, S) /\ p = IF Len(f) > size THEN SubSeq(f, 1, size) ELSE f
    BY <1>6, <2>2
  <2>4. more <=> Len(f) > size
    BY <2>2
  <2>5. ~more => Len(f) <= size
    BY <1>5, <2>1, <2>2
  <2> HIDE DEF more, found
  <2>6. /\ p \in Seq(ListRows)
        /\ \A i \in 1 .. Len(p) : p[i] \in S
        /\ \A i, j \in 1 .. Len(p) : i < j => Precedes(list, p[i], p[j])
        /\ Len(f) <= size => \A x \in S : \E i \in 1 .. Len(p) : p[i] = x
        /\ Len(f) > size => Len(p) = size
        /\ p # <<>> =>
               \A x \in S : \/ \E i \in 1 .. Len(p) : p[i] = x
                            \/ Precedes(list, p[Len(p)], x)
    BY ONLY <1>3, <1>4, <1>5, <2>3, PageFacts
  <2> QED BY <2>4, <2>5, <2>6
<1> DEFINE e == s.seen \o p
<1>9. /\ e \in Seq(ListRows) /\ Len(e) = Len(s.seen) + Len(p)
      /\ \A i \in 1 .. Len(s.seen) : e[i] = s.seen[i]
      /\ \A i \in 1 .. Len(p) : e[Len(s.seen) + i] = p[i]
      /\ \A i \in 1 .. Len(e) :
            i \in 1 .. Len(s.seen) \/ \E j \in 1 .. Len(p) : i = Len(s.seen) + j
      /\ Len(s.seen) \in Nat /\ Len(p) \in Nat
  <2>1. s.seen \in Seq(ListRows)
    BY <1>1 DEF ReaderStates
  <2>2. Len(s.seen) \in Nat /\ Len(p) \in Nat
    BY <1>8, <2>1
  <2>3. PICK a \in Seq(ListRows) : a = s.seen
    BY <2>1
  <2>4. e = a \o p
    BY <2>3
  <2>5. p \in Seq(ListRows)
    BY <1>8
  <2> HIDE DEF s, e
  <2>6. PICK f : f = e
    OBVIOUS
  <2>7. f = a \o p /\ a \in Seq(ListRows)
    BY <2>4, <2>6
  <2>8. /\ f \in Seq(ListRows) /\ Len(f) = Len(a) + Len(p)
        /\ \A i \in 1 .. Len(a) : f[i] = a[i]
        /\ \A i \in 1 .. Len(p) : f[Len(a) + i] = p[i]
        /\ \A i \in 1 .. Len(f) :
              i \in 1 .. Len(a) \/ \E j \in 1 .. Len(p) : i = Len(a) + j
    BY ONLY <2>5, <2>7, PageAppended, SMTT(30)
  <2> QED BY ONLY <2>2, <2>3, <2>6, <2>8
<1>10. PICK pc \in {"fetch", "done"} : pc = IF more /\ p # <<>> THEN "fetch" ELSE "done"
  <2> HIDE DEF more
  <2>1. CASE more /\ p # <<>>
    BY <2>1
  <2>2. CASE ~(more /\ p # <<>>)
    BY <2>2
  <2> QED BY <2>1, <2>2
<1> HIDE DEF more, found, page, e, size
<1>11. CASE ~list.fits
  <2>1. PICK z : z = [s EXCEPT !.pc = "failed"]
    OBVIOUS
  <2>2. reader' = [reader EXCEPT ![r] = z]
    BY <1>7, <1>11, <2>1
  <2>3. /\ z \in ReaderStates /\ z.pc = "failed" /\ z.list = s.list /\ z.snapshot = s.snapshot
        /\ z.cursor = s.cursor /\ z.seen = s.seen /\ z.expected = s.expected
    BY <1>1, <2>1 DEF ReaderStates
  <2>4. ReaderSound(z)
    BY <1>1, <2>3 DEF ReaderSound, SeenOnce, SeenBehind, NothingSkipped, InPage
  <2> QED BY <1>1, <1>2, <2>2, <2>3, <2>4, OneReader
<1>12. CASE list.fits
  <2>1. PICK c : c = IF p = <<>> THEN s.cursor ELSE encodeCursor(p[Len(p)])
    OBVIOUS
  <2>2. PICK z : z = [s EXCEPT !.pc = pc, !.seen = e, !.cursor = c]
    OBVIOUS
  <2>3. c \in Cursors
    <3>1. CASE p = <<>>
      BY <1>1, <2>1, <3>1 DEF ReaderStates
    <3>2. CASE p # <<>>
      <4>1. p[Len(p)] \in ListRows
        BY <1>8, <3>2
      <4>2. p[Len(p)].seq \in Nat /\ p[Len(p)].at \in Nat
        BY <4>1 DEF ListRows
      <4>3. Truncated(p[Len(p)].at) \in Nat
        BY <4>2, TruncatedBelow
      <4> QED BY <2>1, <3>2, <4>2, <4>3 DEF encodeCursor, Cursors
    <3> QED BY <3>1, <3>2
  <2>4. reader' = [reader EXCEPT ![r] = z]
    BY <1>7, <1>10, <1>12, <2>1, <2>2 DEF e, more
  <2>5. /\ z \in ReaderStates /\ z.pc = pc /\ z.list = s.list /\ z.snapshot = s.snapshot
        /\ z.cursor = c /\ z.seen = e /\ z.expected = s.expected
    <3> HIDE DEF s
    <3> QED BY <1>1, <1>9, <2>2, <2>3 DEF ReaderStates
  <2>6. ASSUME NEW row \in s.expected, ~Seen(s, row), InPage(s, list, row) PROVE row \in S
    BY <1>1, <2>6
  <2>7. ASSUME NEW row, Seen(s, row) PROVE Seen(z, row)
    <3>1. PICK i \in 1 .. Len(s.seen) : s.seen[i] = row
      BY <2>7 DEF Seen
    <3>2. i \in 1 .. Len(e) /\ e[i] = row
      <4> HIDE DEF s
      <4> QED BY <1>9, <3>1
    <3> QED BY <2>5, <3>2 DEF Seen
  <2>8. CASE p = <<>>
    <3>1. e = s.seen /\ c = s.cursor
      BY <1>1, <2>1, <2>8 DEF e, ReaderStates
    <3>2. pc = "done"
      BY <1>10, <2>8
    <3>3. list.order = "newest" => S = {}
      <4>1. list.order = "newest" => ~more
        BY <1>5, <1>8, <2>8
      <4> QED BY <1>8, <2>8, <4>1
    <3>4. NothingSkipped(z)
      <4>1. /\ z.pc = "done" /\ z.list = s.list /\ z.cursor = s.cursor /\ z.seen = s.seen
            /\ z.expected = s.expected /\ z.snapshot = s.snapshot
        BY <2>5, <3>1, <3>2
      <4>2. ASSUME NEW row PROVE InPage(z, list, row) <=> InPage(s, list, row)
        <5> HIDE DEF s, list
        <5> QED BY <4>1 DEF InPage
      <4>3. ASSUME NEW row PROVE Seen(z, row) <=> Seen(s, row)
        BY <4>1 DEF Seen
      <4>4. list.order = "key" => \A row \in s.expected : Seen(s, row) \/ InPage(s, list, row)
        BY <1>1 DEF NothingSkipped
      <4>5. list.order = "newest" => \A row \in s.expected : Seen(s, row)
        <5>1. list.order = "newest" => \A row \in s.expected : Seen(s, row) \/ InPage(s, list, row)
          BY <1>1 DEF NothingSkipped
        <5> QED BY <2>6, <3>3, <5>1
      <4> HIDE DEF s
      <4> QED BY <4>1, <4>2, <4>3, <4>4, <4>5 DEF NothingSkipped
    <3>5. SeenOnce(z) /\ SeenBehind(z)
      BY <1>1, <2>5, <3>1 DEF SeenOnce, SeenBehind, InPage
    <3>6. ReaderSound(z)
      BY <1>1, <2>5, <3>1, <3>2, <3>4, <3>5 DEF ReaderSound
    <3> QED BY <1>1, <1>2, <2>4, <2>5, <3>6, OneReader
  <2>9. CASE p # <<>>
    <3> DEFINE last == p[Len(p)]
    <3>1. Len(p) \in Nat \ {0} /\ last \in S /\ last \in ListRows /\ InPage(s, list, last)
      BY <1>8, <2>9
    <3>2. c = encodeCursor(last)
      BY <2>1, <2>9
    <3>3. \A i \in 1 .. Len(p) : p[i] = last \/ Precedes(list, p[i], last)
      BY <1>8, <3>1
    <3> HIDE DEF last
    <3>4. ASSUME NEW x \in ListRows
          PROVE  /\ ~InPage(s, list, x) /\ (list.order = "created" => x.seq <= s.snapshot)
                        => ~InPage(z, list, x)
                 /\ x = last \/ Precedes(list, x, last) => ~InPage(z, list, x)
                 /\ list.order \in {"key", "newest"} /\ Precedes(list, last, x) => InPage(z, list, x)
      <4> HIDE DEF s
      <4> QED BY <1>1, <2>5, <3>1, <3>2, CursorMoves
    <3>5. SeenBehind(z)
      <4> SUFFICES ASSUME NEW i \in 1 .. Len(e)
                   PROVE  ~InPage(z, list, e[i]) /\ (list.order = "created" => e[i].seq <= s.snapshot)
        BY <2>5 DEF SeenBehind
      <4>1. e[i] \in ListRows
        BY <1>9
      <4>2. CASE i \in 1 .. Len(s.seen)
        BY <1>1, <1>9, <3>4, <4>1, <4>2 DEF SeenBehind
      <4>3. CASE \E j \in 1 .. Len(p) : i = Len(s.seen) + j
        <5>1. PICK j \in 1 .. Len(p) : e[i] = p[j]
          BY <1>9, <4>3
        <5>2. InPage(s, list, p[j])
          BY <1>8, <5>1
        <5>3. list.order = "created" => e[i].seq <= s.snapshot
          BY <5>1, <5>2 DEF InPage
        <5> QED BY <3>3, <3>4, <4>1, <5>1, <5>3
      <4> QED BY <1>9, <4>2, <4>3
    <3>6. SeenOnce(z)
      <4> SUFFICES ASSUME NEW i \in 1 .. Len(e), NEW j \in 1 .. Len(e), i # j PROVE e[i] # e[j]
        BY <2>5 DEF SeenOnce
      <4>1. ASSUME NEW k \in 1 .. Len(s.seen) PROVE ~InPage(s, list, e[k])
        BY <1>1, <1>9, <4>1 DEF SeenBehind
      <4>2. ASSUME NEW k \in 1 .. Len(p) PROVE InPage(s, list, e[Len(s.seen) + k])
        BY <1>8, <1>9, <4>2
      <4>3. ASSUME NEW k \in 1 .. Len(p), NEW m \in 1 .. Len(p), k # m PROVE p[k] # p[m]
        <5>1. Precedes(list, p[k], p[m]) \/ Precedes(list, p[m], p[k])
          <6>1. k < m \/ m < k
            BY <4>3
          <6> HIDE DEF S, list
          <6> QED BY <1>8, <6>1
        <5>2. ~Precedes(list, p[k], p[k])
          <6> HIDE DEF S, list
          <6> QED BY <1>4, <1>8 DEF StrictOrder
        <5> HIDE DEF S, list
        <5> QED BY <5>1, <5>2
      <4>4. CASE i \in 1 .. Len(s.seen) /\ j \in 1 .. Len(s.seen)
        BY <1>1, <1>9, <4>4 DEF SeenOnce
      <4>5. CASE i \in 1 .. Len(s.seen) /\ \E k \in 1 .. Len(p) : j = Len(s.seen) + k
        <5>1. PICK k \in 1 .. Len(p) : j = Len(s.seen) + k
          BY <4>5
        <5>2. ~InPage(s, list, e[i]) /\ InPage(s, list, e[j])
          BY <4>1, <4>2, <4>5, <5>1
        <5> QED BY <5>2
      <4>6. CASE j \in 1 .. Len(s.seen) /\ \E k \in 1 .. Len(p) : i = Len(s.seen) + k
        <5>1. PICK k \in 1 .. Len(p) : i = Len(s.seen) + k
          BY <4>6
        <5>2. ~InPage(s, list, e[j]) /\ InPage(s, list, e[i])
          BY <4>1, <4>2, <4>6, <5>1
        <5> QED BY <5>2
      <4>7. CASE (\E k \in 1 .. Len(p) : i = Len(s.seen) + k) /\ (\E m \in 1 .. Len(p) : j = Len(s.seen) + m)
        <5>1. PICK k \in 1 .. Len(p) : i = Len(s.seen) + k
          BY <4>7
        <5>2. PICK m \in 1 .. Len(p) : j = Len(s.seen) + m
          BY <4>7
        <5>3. k # m /\ e[i] = p[k] /\ e[j] = p[m]
          BY <1>9, <5>1, <5>2
        <5> QED BY <4>3, <5>3
      <4> QED BY <1>9, <4>4, <4>5, <4>6, <4>7
    <3>7. NothingSkipped(z)
      <4>1. ASSUME NEW row \in S, list.order \in {"key", "newest"}
            PROVE  Seen(z, row) \/ InPage(z, list, row)
        <5>1. row \in ListRows
          BY <1>3
        <5>2. CASE \E i \in 1 .. Len(p) : p[i] = row
          <6>1. PICK i \in 1 .. Len(p) : p[i] = row
            BY <5>2
          <6>2. Len(s.seen) + i \in 1 .. Len(e) /\ e[Len(s.seen) + i] = row
            BY <1>9, <6>1
          <6> QED BY <2>5, <6>2 DEF Seen
        <5>3. CASE Precedes(list, last, row)
          BY <3>4, <4>1, <5>1, <5>3
        <5>4. (\E i \in 1 .. Len(p) : p[i] = row) \/ Precedes(list, last, row)
          BY <1>8, <2>9 DEF last
        <5> QED BY <5>2, <5>3, <5>4
      <4>2. ASSUME NEW row \in S, ~more PROVE Seen(z, row)
        <5>1. PICK i \in 1 .. Len(p) : p[i] = row
          BY <1>8, <4>2
        <5>2. Len(s.seen) + i \in 1 .. Len(e) /\ e[Len(s.seen) + i] = row
          BY <1>9, <5>1
        <5> QED BY <2>5, <5>2 DEF Seen
      <4>3. list.order \in {"key", "newest"} =>
                \A row \in s.expected : Seen(s, row) \/ InPage(s, list, row)
        BY <1>1 DEF NothingSkipped
      <4>4. list.order \in {"key", "newest"} =>
                \A row \in s.expected : Seen(z, row) \/ InPage(z, list, row)
        BY <2>6, <2>7, <4>1, <4>3
      <4>5. pc = "done" => ~more
        BY <1>10, <2>9
      <4>6. list.order = "newest" /\ pc = "done" => \A row \in s.expected : Seen(z, row)
        BY <2>6, <2>7, <4>2, <4>3, <4>5
      <4>7. z.list = s.list /\ z.pc = pc /\ z.expected = s.expected
        BY <2>5
      <4> HIDE DEF s
      <4> QED BY <4>4, <4>6, <4>7 DEF NothingSkipped
    <3>8. z.cursor.seq = z.seen[Len(z.seen)].seq
      <4>1. e[Len(e)] = last /\ z.seen = e /\ z.cursor = c
        BY <1>9, <2>5, <3>1 DEF last
      <4>2. c.seq = last.seq
        BY <3>2 DEF encodeCursor
      <4> QED BY <4>1, <4>2
    <3>9. ReaderSound(z)
      BY <1>1, <1>10, <2>5, <3>5, <3>6, <3>7, <3>8 DEF ReaderSound
    <3> QED BY <1>1, <1>2, <2>4, <2>5, <3>9, OneReader
  <2> QED BY <2>8, <2>9
<1> QED BY <1>11, <1>12

(* PagingNext keeps the invariant.                                         *)
LEMMA PagingInvHolds == PagingSpec => []PagingInv
<1>1. ASSUME PagingInv, [PagingNext]_pagingVars PROVE PagingInv'
  <2> USE <1>1
  <2>1. ASSUME NEW w \in Writers,
               (\E table \in Tables : beginWrite(w, table)) \/ insertRow(w) \/ commitWrite(w)
        PROVE  PagingInv'
    BY <2>1, WriterSteps
  <2>2. ASSUME NEW r \in Readers, NEW l \in UsedLists, pinSnapshot(r, l) PROVE PagingInv'
    BY <2>2, PinStep
  <2>3. ASSUME NEW r \in Readers, NEW wanted \in 0 .. Limit, fetchPage(r, wanted) PROVE PagingInv'
    BY <2>3, FetchStep
  <2>4. ASSUME time' = time + 1 \/ time' = time, UNCHANGED <<rows, writing, stamp, reader>>
        PROVE  PagingInv'
    <3>1. time' \in Nat
      BY <2>4 DEF PagingInv, PagingTyped
    <3>2. \A table : VisibleRows(table)' = VisibleRows(table)
      BY <2>4 DEF VisibleRows
    <3> QED BY <2>4, <3>1, <3>2 DEF PagingInv, PagingTyped, KeysUnique
  <2>5. CASE PagingTick
    BY <2>4, <2>5 DEF PagingTick
  <2>6. CASE UNCHANGED pagingVars
    BY <2>4, <2>6 DEF pagingVars
  <2> QED BY <2>1, <2>2, <2>3, <2>5, <2>6 DEF PagingNext
<1> QED BY <1>1, PagingStarts, PTL DEF PagingSpec

(* For any lists, writers, readers, page sizes and clock: whatever is      *)
(* inserted and committed between two pages, the cursors of                *)
(* utils/pagination.ts show no row twice, no keyset list shows a row       *)
(* beyond its snapshot, and the lists along a key show every row they had  *)
(* when they were opened.                                                  *)
THEOREM PagesAlwaysInOrder == PagingSpec => []PagesNeverRepeat
BY PagingInvHolds, PagingInvGives, PTL

------------------------------------------------------------------------------
(* The money policy.  The remainder of the cut quotient has the sign of    *)
(* the dividend, so the one unit a mode may add goes to the nearer side.   *)

(* What is left when the quotient is cut towards zero.                     *)
LEMMA QuotientIsCut ==
    ASSUME NEW n \in Int, NEW d \in Nat \ {0}, NEW q, q = TruncatedQuotient(n, d)
    PROVE  /\ q \in Int /\ n - q * d \in Int
           /\ n >= 0 => q >= 0 /\ n - q * d >= 0 /\ n - q * d < d
           /\ n < 0 => q <= 0 /\ n - q * d <= 0 /\ n - q * d > -d
<1>1. CASE n >= 0
  <2>1. n \in Nat /\ q = n \div d
    BY <1>1 DEF TruncatedQuotient
  <2>2. q \in Nat /\ d * q <= n /\ n < d * q + d
    BY <2>1, QuotientBounds
  <2>3. d * q = q * d
    BY <2>2
  <2> QED BY <1>1, <2>2, <2>3
<1>2. CASE n < 0
  <2>1. PICK m \in Nat : m = -n
    BY <1>2
  <2>2. PICK k : k = m \div d
    OBVIOUS
  <2>3. k \in Nat /\ d * k <= m /\ m < d * k + d
    BY <2>2, QuotientBounds
  <2>4. q = -k
    BY <1>2, <2>1, <2>2 DEF TruncatedQuotient
  <2>5. d * k \in Int /\ (-k) * d = -(d * k)
    BY <2>3
  <2> QED BY <1>2, <2>1, <2>3, <2>4, <2>5
<1> QED BY <1>1, <1>2

(* An odd number's neighbours are even.                                    *)
LEMMA OddHasEvenNeighbours ==
    ASSUME NEW q \in Int, q % 2 # 0
    PROVE  (q + 1) % 2 = 0 /\ (q + (-1)) % 2 = 0
OBVIOUS

(* The rounding that the contracts, the backend and the frontend share     *)
(* (roundDiv of money/decimal.ts and format.ts, round_div of the money     *)
(* crate): for every numerator, divisor of either sign and mode, the       *)
(* nearest integer, ties to the even one or away from zero, floor and ceil *)
(* on their side.  The first part of AmountsAddUp, without its bounds.     *)
THEOREM RoundingIsRight ==
    ASSUME NEW num \in Int, NEW den \in Int \ {0}, NEW mode \in Modes
    PROVE  RoundsRight(num, den, mode, roundDiv(num, den, mode))
<1>1. PICK n \in Int : n = IF den < 0 THEN -num ELSE num
  OBVIOUS
<1>2. PICK d \in Nat \ {0} : d = AbsOf(den)
  BY DEF AbsOf
<1>3. PICK q : q = TruncatedQuotient(n, d)
  OBVIOUS
<1>4. /\ q \in Int /\ n - q * d \in Int
      /\ n >= 0 => q >= 0 /\ n - q * d >= 0 /\ n - q * d < d
      /\ n < 0 => q <= 0 /\ n - q * d <= 0 /\ n - q * d > -d
  BY <1>3, QuotientIsCut
<1>5. PICK r \in Int : r = n - q * d
  BY <1>4
<1>6. /\ n >= 0 => q >= 0 /\ r >= 0 /\ r < d
      /\ n < 0 => q <= 0 /\ r <= 0 /\ r > -d
  BY <1>4, <1>5
<1>7. ASSUME NEW step \in {-1, 0, 1}
      PROVE  /\ q + step \in Int /\ (q + step) * d \in Int
             /\ (q + step) * d = n + (IF step = 0 THEN -r ELSE IF step = 1 THEN d - r ELSE -d - r)
  <2>1. (q + step) * d = q * d + step * d
    BY <1>4, <1>7
  <2>2. q * d \in Int /\ q * d = n - r
    BY <1>4, <1>5
  <2> QED BY <1>4, <1>7, <2>1, <2>2
<1>8. CASE mode = "floor"
  <2>1. PICK step \in {-1, 0, 1} : step = IF r < 0 THEN -1 ELSE 0
    OBVIOUS
  <2>2. roundDiv(num, den, mode) = q + step
    BY <1>1, <1>2, <1>3, <1>4, <1>5, <1>8, <2>1 DEF roundDiv
  <2>3. (q + step) * d - n \in (1 - d) .. 0
    BY <1>6, <1>7, <2>1
  <2> QED BY <1>1, <1>2, <1>8, <2>2, <2>3 DEF RoundsRight
<1>9. CASE mode = "ceil"
  <2>1. PICK step \in {-1, 0, 1} : step = IF r > 0 THEN 1 ELSE 0
    OBVIOUS
  <2>2. roundDiv(num, den, mode) = q + step
    BY <1>1, <1>2, <1>3, <1>4, <1>5, <1>9, <2>1 DEF roundDiv
  <2>3. (q + step) * d - n \in 0 .. (d - 1)
    BY <1>6, <1>7, <2>1
  <2> QED BY <1>1, <1>2, <1>9, <2>2, <2>3 DEF RoundsRight
<1>10. CASE mode = "half_up"
  <2>1. PICK step \in {-1, 0, 1} :
            step = IF 2 * AbsOf(r) < d THEN 0 ELSE IF r < 0 THEN -1 ELSE 1
    OBVIOUS
  <2>2. roundDiv(num, den, mode) = q + step
    <3>1. 2 * AbsOf(r) \in Int /\ (r = 0 => 2 * AbsOf(r) < d)
      BY DEF AbsOf
    <3>2. roundDiv(num, den, mode) = IF r = 0 \/ ~(2 * AbsOf(r) >= d) THEN q ELSE q + (IF r < 0 THEN -1 ELSE 1)
      BY <1>1, <1>2, <1>3, <1>5, <1>10 DEF roundDiv
    <3> QED BY <1>4, <2>1, <3>1, <3>2
  <2> DEFINE gap == IF step = 0 THEN -r ELSE IF step = 1 THEN d - r ELSE -d - r
  <2>3. gap \in Int /\ (q + step) * d = n + gap
    BY <1>7
  <2>4. 2 * AbsOf(gap) <= d
    BY <1>6, <2>1, <2>3 DEF AbsOf
  <2>5. ASSUME 2 * AbsOf(gap) = d PROVE AbsOf(q + step) * d >= AbsOf(num)
    <3>1. (n >= 0 => gap >= 0) /\ (n < 0 => gap <= 0)
      BY <1>6, <2>1, <2>3, <2>5 DEF AbsOf
    <3>2. AbsOf(num) = AbsOf(n)
      BY <1>1 DEF AbsOf
    <3>3. CASE n >= 0
      <4>1. q + step >= 0 /\ q + step \in Int
        BY <1>4, <1>6, <2>1, <3>3
      <4> QED BY <1>7, <2>3, <3>1, <3>2, <3>3, <4>1 DEF AbsOf
    <3>4. CASE n < 0
      <4>1. q + step <= 0 /\ q + step \in Int
        BY <1>4, <1>6, <2>1, <3>4 DEF AbsOf
      <4>2. PICK x \in Int : x = q + step
        BY <4>1
      <4>3. AbsOf(x) = -x /\ x * d = n + gap
        BY <2>3, <4>1, <4>2 DEF AbsOf
      <4>4. x * d \in Int /\ (-x) * d = -(x * d)
        OBVIOUS
      <4>5. AbsOf(x) * d >= AbsOf(n)
        BY <3>1, <3>4, <4>3, <4>4 DEF AbsOf
      <4> QED BY <3>2, <4>2, <4>5
    <3> QED BY <3>3, <3>4
  <2>6. (q + step) * d - n = gap
    BY <1>7, <2>3
  <2> QED BY <1>1, <1>2, <1>10, <2>2, <2>4, <2>5, <2>6 DEF RoundsRight
<1>11. CASE mode = "half_even"
  <2>1. PICK step \in {-1, 0, 1} :
            step = IF 2 * AbsOf(r) < d \/ (2 * AbsOf(r) = d /\ q % 2 = 0) THEN 0 ELSE IF r < 0 THEN -1 ELSE 1
    OBVIOUS
  <2>2. roundDiv(num, den, mode) = q + step
    <3>1. 2 * AbsOf(r) \in Int /\ (r = 0 => 2 * AbsOf(r) < d)
      BY DEF AbsOf
    <3>2. roundDiv(num, den, mode) =
              IF r = 0 \/ ~(2 * AbsOf(r) > d \/ (2 * AbsOf(r) = d /\ q % 2 # 0))
              THEN q ELSE q + (IF r < 0 THEN -1 ELSE 1)
      BY <1>1, <1>2, <1>3, <1>5, <1>11 DEF roundDiv
    <3> QED BY <1>4, <2>1, <3>1, <3>2
  <2> DEFINE gap == IF step = 0 THEN -r ELSE IF step = 1 THEN d - r ELSE -d - r
  <2>3. gap \in Int /\ (q + step) * d = n + gap
    BY <1>7
  <2>4. 2 * AbsOf(gap) <= d
    BY <1>6, <2>1, <2>3 DEF AbsOf
  <2>5. ASSUME 2 * AbsOf(gap) = d PROVE (q + step) % 2 = 0
    <3>1. 2 * AbsOf(r) = d
      BY <1>6, <2>1, <2>3, <2>5 DEF AbsOf
    <3>2. CASE q % 2 # 0
      <4>1. step = 1 \/ step = -1
        BY <2>1, <3>1, <3>2
      <4> QED BY <1>4, <3>2, <4>1, OddHasEvenNeighbours
    <3>3. CASE q % 2 = 0
      <4>1. q + step = q
        BY <1>4, <2>1, <3>1, <3>3
      <4> QED BY <3>3, <4>1
    <3> QED BY <3>2, <3>3
  <2>6. (q + step) * d - n = gap
    BY <1>7, <2>3
  <2> QED BY <1>1, <1>2, <1>11, <2>2, <2>4, <2>5, <2>6 DEF RoundsRight
<1> QED BY <1>8, <1>9, <1>10, <1>11 DEF Modes

(* Those who come before i when the largest remainder comes first and the  *)
(* lowest index among equals.                                              *)
Ahead(r, i) == {j \in DOMAIN r : r[j] > r[i] \/ (r[j] = r[i] /\ j < i)}
Rank(r, i) == Cardinality(Ahead(r, i))

(* Whoever is ahead has the lower rank.                                    *)
LEMMA RankFollowsOrder ==
    ASSUME NEW m \in Nat, NEW r \in [1 .. m -> Nat], NEW i \in 1 .. m
    PROVE  /\ Rank(r, i) \in 0 .. m - 1
           /\ \A j \in Ahead(r, i) : Rank(r, j) < Rank(r, i)
<1>1. IsFiniteSet(1 .. m) /\ Cardinality(1 .. m) = m
  BY FS_Interval
<1>2. ASSUME NEW j \in 1 .. m
      PROVE  /\ Ahead(r, j) \in SUBSET ((1 .. m) \ {j}) /\ IsFiniteSet(Ahead(r, j))
             /\ Rank(r, j) \in Nat /\ Rank(r, j) <= m - 1
  <2>1. Ahead(r, j) \in SUBSET ((1 .. m) \ {j})
    BY DEF Ahead
  <2>2. IsFiniteSet((1 .. m) \ {j}) /\ Cardinality((1 .. m) \ {j}) = m - 1
    BY <1>1, FS_RemoveElement
  <2>3. IsFiniteSet(Ahead(r, j)) /\ Cardinality(Ahead(r, j)) <= m - 1
    BY <2>1, <2>2, FS_Subset
  <2> QED BY <2>1, <2>3, FS_CardinalityType DEF Rank
<1>3. ASSUME NEW j \in Ahead(r, i) PROVE Rank(r, j) < Rank(r, i)
  <2>1. j \in 1 .. m /\ j \notin Ahead(r, j)
    BY DEF Ahead
  <2>2. Ahead(r, j) \cup {j} \in SUBSET Ahead(r, i)
    <3>1. ASSUME NEW x \in Ahead(r, j) PROVE x \in Ahead(r, i)
      BY <2>1 DEF Ahead
    <3> QED BY <3>1
  <2>3. Cardinality(Ahead(r, j) \cup {j}) = Rank(r, j) + 1
    BY <1>2, <2>1, FS_AddElement DEF Rank
  <2>4. Cardinality(Ahead(r, j) \cup {j}) <= Rank(r, i)
    BY <1>2, <2>2, FS_Subset DEF Rank
  <2> QED BY <1>2, <2>1, <2>3, <2>4
<1> QED BY <1>2, <1>3

(* Ranks are as many as those ranked, one each: exactly k are below k.     *)
LEMMA RanksAreDistinct ==
    ASSUME NEW m \in Nat, NEW r \in [1 .. m -> Nat], NEW k \in 0 .. m
    PROVE  Cardinality({i \in 1 .. m : Rank(r, i) < k}) = k
<1>1. IsFiniteSet(1 .. m) /\ Cardinality(1 .. m) = m
  BY FS_Interval
<1>2. IsFiniteSet(0 .. m - 1) /\ Cardinality(0 .. m - 1) = m
  <2>1. 0 \in Int /\ m - 1 \in Int
    OBVIOUS
  <2>2. /\ IsFiniteSet(0 .. (m - 1))
        /\ Cardinality(0 .. (m - 1)) = IF 0 > m - 1 THEN 0 ELSE (m - 1) - 0 + 1
    BY <2>1, FS_Interval, Zenon
  <2> QED BY <2>2
<1>3. PICK rank : rank = [i \in 1 .. m |-> Rank(r, i)]
  OBVIOUS
<1>4. rank \in [1 .. m -> 0 .. m - 1]
  BY <1>3, RankFollowsOrder
<1>5. ASSUME NEW i \in 1 .. m, NEW j \in 1 .. m, rank[i] = rank[j] PROVE i = j
  <2> SUFFICES ASSUME i # j PROVE FALSE
    OBVIOUS
  <2>1. i \in Ahead(r, j) \/ j \in Ahead(r, i)
    BY DEF Ahead
  <2>2. Rank(r, i) < Rank(r, j) \/ Rank(r, j) < Rank(r, i)
    BY <2>1, RankFollowsOrder
  <2>3. PICK a \in Int : a = Rank(r, i)
    BY RankFollowsOrder
  <2>4. Rank(r, j) = a
    BY <1>3, <1>5, <2>3
  <2> QED BY <2>2, <2>3, <2>4
<1>6. rank \in Injection(1 .. m, 0 .. m - 1)
  BY <1>4, <1>5 DEF Injection, IsInjective
<1>7. rank \in Surjection(1 .. m, 0 .. m - 1)
  BY <1>1, <1>2, <1>6, FS_Injection
<1> DEFINE Below == {i \in 1 .. m : Rank(r, i) < k}
           rankBelow == [i \in Below |-> rank[i]]
<1>8. rankBelow \in Bijection(Below, 0 .. k - 1)
  <2>1. rankBelow \in [Below -> 0 .. k - 1]
    <3>1. ASSUME NEW i \in Below PROVE rank[i] \in 0 .. k - 1
      BY <1>3, <1>4
    <3> QED BY <3>1
  <2>2. \A i, j \in Below : rankBelow[i] = rankBelow[j] => i = j
    BY <1>5
  <2>3. ASSUME NEW v \in 0 .. k - 1 PROVE \E i \in Below : rankBelow[i] = v
    <3>1. v \in 0 .. m - 1
      OBVIOUS
    <3>2. PICK i \in 1 .. m : rank[i] = v
      BY <1>7, <3>1 DEF Surjection
    <3>3. i \in Below
      BY <1>3, <3>2
    <3> QED BY <3>2, <3>3
  <2> HIDE DEF rankBelow, Below
  <2> QED BY <2>1, <2>2, <2>3 DEF Bijection, Injection, IsInjective, Surjection
<1>9. IsFiniteSet(Below)
  <2>1. Below \in SUBSET (1 .. m)
    OBVIOUS
  <2> QED BY <1>1, <2>1, FS_Subset
<1> HIDE DEF Below, rankBelow
<1>10. Cardinality(0 .. k - 1) = Cardinality(Below)
  BY <1>8, <1>9, FS_Bijection DEF ExistsBijection
<1>11. Cardinality(0 .. k - 1) = k
  <2>1. 0 \in Int /\ k - 1 \in Int
    OBVIOUS
  <2>2. Cardinality(0 .. (k - 1)) = IF 0 > k - 1 THEN 0 ELSE (k - 1) - 0 + 1
    BY <2>1, FS_Interval, Zenon
  <2> QED BY <2>2
<1> QED BY <1>10, <1>11 DEF Below

(* Rounding gives a whole number.                                          *)
LEMMA RoundingIsWhole ==
    ASSUME NEW num \in Int, NEW den \in Int \ {0}, NEW mode \in Modes
    PROVE  roundDiv(num, den, mode) \in Int
<1>1. PICK n \in Int : n = IF den < 0 THEN -num ELSE num
  OBVIOUS
<1>2. PICK d \in Nat \ {0} : d = AbsOf(den)
  BY DEF AbsOf
<1>3. PICK q \in Int : q = TruncatedQuotient(n, d)
  BY QuotientIsCut
<1>4. n - q * d \in Int
  OBVIOUS
<1>5. PICK r \in Int : r = n - q * d
  BY <1>4
<1>6. \/ roundDiv(num, den, mode) = q
      \/ roundDiv(num, den, mode) = q + (IF r < 0 THEN -1 ELSE 1)
  BY <1>1, <1>2, <1>3, <1>5 DEF roundDiv
<1> QED BY <1>6

(* Of natural numbers, rounding down is the quotient.                      *)
LEMMA FloorIsQuotient ==
    ASSUME NEW n \in Nat, NEW d \in Nat \ {0}, NEW q, q = roundDiv(n, d, "floor")
    PROVE  q \in Nat /\ n - q * d \in 0 .. d - 1
<1>1. AbsOf(d) = d
  BY DEF AbsOf
<1>2. PICK k : k = TruncatedQuotient(n, d)
  OBVIOUS
<1>3. k \in Nat /\ n - k * d \in 0 .. d - 1
  BY <1>2, QuotientIsCut
<1>4. q = k
  <2>1. PICK r \in Nat : r = n - k * d
    BY <1>3
  <2> QED BY <1>1, <1>2, <2>1 DEF roundDiv
<1> QED BY <1>3, <1>4

(* To the nearest, a tie to the even one, said of products.                *)
LEMMA NearestOf ==
    ASSUME NEW num \in Int, NEW d \in Nat \ {0}, NEW q, q = roundDiv(num, d, DEFAULT_MODE)
    PROVE  /\ q \in Int /\ q * d \in Int
           /\ 2 * (q * d) <= 2 * num + d /\ 2 * num <= 2 * (q * d) + d
           /\ 2 * (q * d) = 2 * num + d \/ 2 * num = 2 * (q * d) + d => q % 2 = 0
<1>1. q \in Int
  BY RoundingIsWhole DEF Modes, DEFAULT_MODE
<1>2. RoundsRight(num, d, "half_even", q)
  BY RoundingIsRight DEF Modes, DEFAULT_MODE
<1>3. AbsOf(d) = d
  BY DEF AbsOf
<1>4. PICK p \in Int : p = q * d
  BY <1>1
<1>5. /\ 2 * AbsOf(p - num) <= d
      /\ 2 * AbsOf(p - num) = d => q % 2 = 0
  BY <1>2, <1>3, <1>4 DEF RoundsRight
<1> QED BY <1>1, <1>4, <1>5 DEF AbsOf

(* What the shares lost when they were rounded down, in total.             *)
LEMMA LostInTotal ==
    ASSUME NEW S, IsFiniteSet(S), NEW w \in [S -> Nat], NEW part \in [S -> Nat],
           NEW lost \in [S -> Nat], NEW total \in Nat, NEW W \in Nat,
           \A i \in S : total * w[i] = part[i] * W + lost[i]
    PROVE  Total(lost, S) = total * Total(w, S) - W * Total(part, S)
<1>2. PICK due : due = [i \in S |-> total * w[i]]
  OBVIOUS
<1>3. PICK paid : paid = [i \in S |-> W * part[i]]
  OBVIOUS
<1>4. due \in [S -> Nat] /\ \A i \in S : due[i] = total * w[i]
  BY <1>2
<1>5. paid \in [S -> Nat] /\ \A i \in S : paid[i] = W * part[i]
  BY <1>3
<1>6. \A i \in S : due[i] = paid[i] + lost[i]
  <2> SUFFICES ASSUME NEW i \in S PROVE due[i] = paid[i] + lost[i]
    OBVIOUS
  <2>1. W * part[i] = part[i] * W
    OBVIOUS
  <2> QED BY <1>4, <1>5, <2>1
<1>7. Total(due, S) = total * Total(w, S)
  BY <1>4, TotalOfMultiples
<1>8. Total(paid, S) = W * Total(part, S)
  BY <1>5, TotalOfMultiples
<1>9. Total(due, S) = Total(paid, S) + Total(lost, S)
  BY <1>4, <1>5, <1>6, TotalOfSums
<1>10. Total(paid, S) \in Nat /\ Total(lost, S) \in Nat
  BY <1>5, TotalNat
<1> QED BY <1>7, <1>8, <1>9, <1>10

RoundedDown(total, w, W, S) == [i \in S |-> roundDiv(total * w[i], W, "floor")]
LostBy(part, total, w, W, S) == [i \in S |-> total * w[i] - part[i] * W]

(* The shares rounded down and what each of them lost.                     *)
LEMMA SharesRoundDown ==
    ASSUME NEW S, IsFiniteSet(S), NEW w \in [S -> Nat], NEW total \in Nat,
           NEW W \in Nat \ {0}, W = TotalOf(w),
           NEW part, part = RoundedDown(total, w, W, S),
           NEW lost, lost = LostBy(part, total, w, W, S)
    PROVE  /\ part \in [S -> Nat] /\ lost \in [S -> 0 .. W - 1]
           /\ \A i \in S : total * w[i] = part[i] * W + lost[i]
           /\ TotalOf(part) \in Nat /\ Total(lost, S) \in Nat
           /\ Total(lost, S) = W * (total - TotalOf(part))
<1>2. ASSUME NEW i \in S
      PROVE  /\ total * w[i] \in Nat /\ part[i] \in Nat /\ lost[i] \in 0 .. W - 1
             /\ part[i] * W \in Nat /\ total * w[i] = part[i] * W + lost[i]
  <2>1. PICK n \in Nat : n = total * w[i]
    OBVIOUS
  <2>2. PICK q \in Nat : q = part[i] /\ n - q * W \in 0 .. W - 1
    BY <2>1, FloorIsQuotient DEF RoundedDown
  <2>3. PICK p \in Nat : p = q * W
    OBVIOUS
  <2>4. lost[i] = n - p
    BY <2>1, <2>2, <2>3 DEF LostBy
  <2> QED BY <2>1, <2>2, <2>3, <2>4
<1>3. part \in [S -> Nat] /\ lost \in [S -> 0 .. W - 1] /\ lost \in [S -> Nat]
  <2>1. \A i \in S : part[i] \in Nat
    BY <1>2
  <2>2. \A i \in S : lost[i] \in 0 .. W - 1
    BY <1>2
  <2> QED BY <2>1, <2>2 DEF RoundedDown, LostBy
<1>4. \A i \in S : total * w[i] = part[i] * W + lost[i]
  BY <1>2
<1>5. Total(lost, S) = total * Total(w, S) - W * Total(part, S)
  <2>1. PICK v, p, l, t, V : v = w /\ p = part /\ l = lost /\ t = total /\ V = W
    OBVIOUS
  <2>2. /\ IsFiniteSet(S) /\ v \in [S -> Nat] /\ p \in [S -> Nat] /\ l \in [S -> Nat]
        /\ t \in Nat /\ V \in Nat /\ \A i \in S : t * v[i] = p[i] * V + l[i]
    BY <1>3, <1>4, <2>1
  <2>3. Total(l, S) = t * Total(v, S) - V * Total(p, S)
    BY ONLY <2>2, LostInTotal, SMTT(40)
  <2> QED BY <2>1, <2>3
<1>8. Total(part, S) \in Nat /\ Total(lost, S) \in Nat
  BY <1>3, TotalNat
<1>9. TotalOf(part) = Total(part, S) /\ W = Total(w, S)
  BY <1>3 DEF TotalOf
<1>10. PICK P \in Nat : P = Total(part, S)
  BY <1>8
<1>11. Total(lost, S) = W * (total - P)
  <2>1. Total(lost, S) = total * W - W * P
    BY <1>5, <1>9, <1>10
  <2>2. W * (total - P) = total * W - W * P
    OBVIOUS
  <2> QED BY <2>1, <2>2
<1> QED BY <1>3, <1>4, <1>8, <1>9, <1>10, <1>11

(* What is left over is less than the shares that lost something, if any   *)
(* did.                                                                    *)
LEMMA LeftoverBounded ==
    ASSUME NEW S, IsFiniteSet(S), NEW W \in Nat \ {0}, NEW lost \in [S -> 0 .. W - 1],
           NEW leftover \in Int, Total(lost, S) = W * leftover
    PROVE  /\ leftover \in Nat
           /\ leftover <= Cardinality({i \in S : lost[i] > 0})
           /\ leftover = 0 \/ leftover < Cardinality({i \in S : lost[i] > 0})
<1> DEFINE losers == {i \in S : lost[i] > 0}
           one == [i \in S |-> IF i \in losers THEN 1 ELSE 0]
<1>1. losers \in SUBSET S /\ one \in [S -> Nat]
  OBVIOUS
<1>2. lost \in [S -> Nat]
  OBVIOUS
<1>3. PICK v \in Nat : v = W - 1
  OBVIOUS
<1>4. \A i \in S : 1 * lost[i] <= v * one[i]
  <2> SUFFICES ASSUME NEW i \in S PROVE 1 * lost[i] <= v * one[i]
    OBVIOUS
  <2>1. CASE i \in losers
    <3>1. one[i] = 1 /\ lost[i] \in 0 .. v
      BY <1>3, <2>1
    <3> QED BY <3>1
  <2>2. CASE i \notin losers
    <3>1. one[i] = 0 /\ lost[i] = 0
      BY <2>2
    <3> QED BY <3>1
  <2> QED BY <2>1, <2>2
<1>5. Total(one, S) = Cardinality(losers)
  BY <1>1, TotalOfUnits
<1> HIDE DEF one, losers
<1>6. 1 * Total(lost, S) <= v * Total(one, S)
  BY <1>1, <1>2, <1>4, TotalScaled
<1>7. Total(lost, S) \in Nat /\ Total(one, S) \in Nat
  BY <1>1, <1>2, TotalNat
<1>8. PICK n \in Nat : n = Total(one, S)
  BY <1>7
<1>9. W * leftover <= v * n /\ 0 <= W * leftover
  BY <1>6, <1>7, <1>8
<1>10. v * n = W * n - n
  BY <1>3
<1>11. W * 0 <= W * leftover /\ W * leftover <= W * n
  BY <1>9, <1>10
<1>12. 0 <= leftover /\ leftover <= n
  BY <1>11, ProductCancel
<1>13. leftover = n => n = 0
  BY <1>9, <1>10
<1> QED BY <1>5, <1>8, <1>12, <1>13 DEF losers

(* A unit more for the members of a set.                                   *)
LEMMA UnitsAdded ==
    ASSUME NEW S, IsFiniteSet(S), NEW T \in SUBSET S, NEW f \in [S -> Nat], NEW g \in [S -> Nat],
           \A i \in S : g[i] = f[i] + (IF i \in T THEN 1 ELSE 0)
    PROVE  Total(g, S) = Total(f, S) + Cardinality(T)
<1> DEFINE one == [i \in S |-> IF i \in T THEN 1 ELSE 0]
<1>1. one \in [S -> Nat] /\ \A i \in S : g[i] = f[i] + one[i]
  OBVIOUS
<1>2. Total(one, S) = Cardinality(T)
  BY TotalOfUnits
<1> HIDE DEF one
<1>3. Total(g, S) = Total(f, S) + Total(one, S)
  BY <1>1, TotalOfSums
<1> QED BY <1>2, <1>3

(* The shares of a split of positive weights: those rounded down, and one  *)
(* unit more for as many of the foremost as there are units left over.     *)
SplitBy(total, w, m, W, part, lost, leftover) ==
    /\ part \in [1 .. m -> Nat] /\ lost \in [1 .. m -> Nat]
    /\ W \in Nat \ {0} /\ W = Total(w, 1 .. m) /\ leftover \in Nat
    /\ \A i \in 1 .. m : lost[i] < W /\ total * w[i] = part[i] * W + lost[i]
    /\ total = Total(part, 1 .. m) + leftover
    /\ leftover <= Cardinality({i \in 1 .. m : lost[i] > 0})
    /\ splitProRata(total, w) = [i \in 1 .. m |-> part[i] + (IF Rank(lost, i) < leftover THEN 1 ELSE 0)]

(* Every total and positive weights have such a split.                     *)
LEMMA SharesOfSplit ==
    ASSUME NEW m \in Nat, NEW w \in [1 .. m -> Nat], NEW total \in Nat, TotalOf(w) # 0
    PROVE  \E W, part, lost, leftover : SplitBy(total, w, m, W, part, lost, leftover)
<1>1. IsFiniteSet(1 .. m)
  BY FS_Interval
<1>2. TotalOf(w) = Total(w, 1 .. m) /\ DOMAIN w = 1 .. m
  BY DEF TotalOf
<1>3. PICK W \in Nat \ {0} : W = TotalOf(w)
  <2>1. Total(w, 1 .. m) \in Nat
    BY <1>1, TotalNat
  <2> QED BY <1>2, <2>1
<1>4. PICK part : part = [i \in 1 .. m |-> roundDiv(total * w[i], W, "floor")]
  OBVIOUS
<1>5. PICK lost : lost = [i \in 1 .. m |-> total * w[i] - part[i] * W]
  OBVIOUS
<1>6. /\ part \in [1 .. m -> Nat] /\ lost \in [1 .. m -> 0 .. W - 1]
      /\ \A i \in 1 .. m : total * w[i] = part[i] * W + lost[i]
      /\ TotalOf(part) \in Nat /\ Total(lost, 1 .. m) \in Nat
      /\ Total(lost, 1 .. m) = W * (total - TotalOf(part))
  <2>1. PICK S, v, t, V : S = 1 .. m /\ v = w /\ t = total /\ V = W
    OBVIOUS
  <2>2. /\ IsFiniteSet(S) /\ v \in [S -> Nat] /\ t \in Nat /\ V \in Nat \ {0} /\ V = TotalOf(v)
        /\ part = RoundedDown(t, v, V, S) /\ lost = LostBy(part, t, v, V, S)
    BY <1>1, <1>3, <1>4, <1>5, <2>1 DEF RoundedDown, LostBy
  <2>3. /\ part \in [S -> Nat] /\ lost \in [S -> 0 .. V - 1]
        /\ \A i \in S : t * v[i] = part[i] * V + lost[i]
        /\ TotalOf(part) \in Nat /\ Total(lost, S) \in Nat
        /\ Total(lost, S) = V * (t - TotalOf(part))
    BY ONLY <2>2, SharesRoundDown, SMTT(40)
  <2> QED BY <2>1, <2>3
<1>7. PICK leftover \in Int : leftover = total - TotalOf(part)
  BY <1>6
<1>8. /\ leftover \in Nat /\ leftover <= Cardinality({i \in 1 .. m : lost[i] > 0})
      /\ leftover = 0 \/ leftover < Cardinality({i \in 1 .. m : lost[i] > 0})
  BY <1>1, <1>6, <1>7, LeftoverBounded
<1>16. leftover < m
  <2>1. m # 0
    <3>1. SUFFICES ASSUME m = 0 PROVE TotalOf(w) = 0
      BY <1>3
    <3>2. \A i \in DOMAIN w : w[i] = 0
      BY <1>2, <3>1
    <3> QED BY <1>1, <1>2, <3>2, TotalZero DEF TotalOf
  <2>2. Cardinality({i \in 1 .. m : lost[i] > 0}) \in Nat
        /\ Cardinality({i \in 1 .. m : lost[i] > 0}) <= m
    <3>1. Cardinality(1 .. m) = m
      BY FS_Interval
    <3>2. {i \in 1 .. m : lost[i] > 0} \in SUBSET (1 .. m)
      OBVIOUS
    <3> QED BY <1>1, <3>1, <3>2, FS_Subset, FS_CardinalityType
  <2> QED BY <1>8, <2>1, <2>2
<1>9. splitProRata(total, w) = [i \in 1 .. m |-> part[i] + (IF Rank(lost, i) < leftover THEN 1 ELSE 0)]
  <2>1. DOMAIN lost = 1 .. m
    BY <1>6
  <2>2. \A i : Rank(lost, i) = Cardinality({j \in DOMAIN w : lost[j] > lost[i] \/ (lost[j] = lost[i] /\ j < i)})
    BY <1>2, <2>1 DEF Rank, Ahead
  <2>3. Len(w) = m /\ ~(leftover < 0 \/ leftover >= Len(w))
    BY <1>8, <1>16
  <2> QED BY <1>2, <1>3, <1>4, <1>5, <1>7, <2>2, <2>3, ZenonT(60) DEF splitProRata
<1>10. lost \in [1 .. m -> Nat] /\ \A i \in 1 .. m : lost[i] < W
  <2>1. \A i \in 1 .. m : lost[i] \in 0 .. W - 1
    BY <1>6
  <2>2. \A x \in 0 .. W - 1 : x \in Nat /\ x < W
    OBVIOUS
  <2>3. DOMAIN lost = 1 .. m /\ lost = [i \in 1 .. m |-> lost[i]]
    BY <1>6
  <2> QED BY <2>1, <2>2, <2>3
<1>11. total = Total(part, 1 .. m) + leftover
  BY <1>6, <1>7 DEF TotalOf
<1>12. part \in [1 .. m -> Nat] /\ \A i \in 1 .. m : total * w[i] = part[i] * W + lost[i]
  BY <1>6
<1>13. /\ \A i \in 1 .. m : lost[i] < W /\ total * w[i] = part[i] * W + lost[i]
       /\ lost \in [1 .. m -> Nat]
  BY <1>10, <1>12
<1>14. W = Total(w, 1 .. m)
  BY <1>2, <1>3
<1>15. SplitBy(total, w, m, W, part, lost, leftover)
  BY <1>8, <1>9, <1>11, <1>12, <1>13, <1>14 DEF SplitBy
<1> QED BY <1>15

(* splitProRata of money/decimal.ts and split_pro_rata of the money crate, *)
(* for any number of weights: the parts add up to the total, each is less  *)
(* than one unit from its exact proportion, and a larger weight never gets *)
(* a smaller part.                                                         *)
THEOREM SplitIsRight ==
    ASSUME NEW m \in Nat, NEW w \in [1 .. m -> Nat], NEW total \in Nat, CanSplit(total, w)
    PROVE  SplitsRight(total, w, splitProRata(total, w))
<1>1. IsFiniteSet(1 .. m) /\ Cardinality(1 .. m) = m
  BY FS_Interval
<1>2. DOMAIN w = 1 .. m /\ TotalOf(w) = Total(w, 1 .. m) /\ TotalOf(w) \in Nat
  BY <1>1, TotalNat DEF TotalOf
<1>3. PICK parts : parts = splitProRata(total, w)
  OBVIOUS
<1>4. CASE TotalOf(w) = 0
  <2>1. total = 0
    BY <1>4 DEF CanSplit
  <2>2. parts = [i \in 1 .. m |-> 0]
    BY <1>2, <1>3, <1>4 DEF splitProRata
  <2>3. DOMAIN parts = 1 .. m /\ \A i \in 1 .. m : parts[i] = 0
    BY <2>2
  <2>4. TotalOf(parts) = 0
    BY <2>3, TotalZero DEF TotalOf
  <2> QED BY <1>2, <1>3, <2>1, <2>3, <2>4 DEF SplitsRight
<1>5. CASE TotalOf(w) # 0
  <2>1. PICK W, part, lost, leftover : SplitBy(total, w, m, W, part, lost, leftover)
    BY <1>5, SharesOfSplit
  <2>2. /\ part \in [1 .. m -> Nat] /\ lost \in [1 .. m -> Nat]
        /\ W \in Nat \ {0} /\ W = TotalOf(w) /\ leftover \in Nat
    BY <1>2, <2>1 DEF SplitBy
  <2>3. \A i \in 1 .. m : lost[i] \in 0 .. W - 1 /\ total * w[i] = part[i] * W + lost[i]
    BY <2>1, <2>2 DEF SplitBy
  <2> DEFINE losers == {i \in 1 .. m : lost[i] > 0}
             winners == {i \in 1 .. m : Rank(lost, i) < leftover}
  <2>4. leftover <= Cardinality(losers) /\ total = Total(part, 1 .. m) + leftover
    BY <2>1 DEF SplitBy
  <2>5. parts = [i \in 1 .. m |-> part[i] + (IF i \in winners THEN 1 ELSE 0)]
    BY <1>3, <2>1 DEF SplitBy
  <2>6. losers \in SUBSET (1 .. m) /\ winners \in SUBSET (1 .. m)
    OBVIOUS
  <2>7. leftover \in 0 .. m
    <3>1. Cardinality(losers) <= m /\ Cardinality(losers) \in Nat
      BY <1>1, <2>6, FS_Subset, FS_CardinalityType
    <3> HIDE DEF losers
    <3> QED BY <2>2, <2>4, <3>1
  <2>70. \A i \in 1 .. m : Rank(lost, i) \in Nat
    <3> SUFFICES ASSUME NEW i \in 1 .. m PROVE Rank(lost, i) \in Nat
      OBVIOUS
    <3>1. Rank(lost, i) \in 0 .. m - 1
      BY <2>2, RankFollowsOrder
    <3> QED BY <3>1
  <2>8. Cardinality(winners) = leftover
    BY <2>2, <2>7, RanksAreDistinct
  <2>9. parts \in [1 .. m -> Nat] /\ DOMAIN parts = 1 .. m
        /\ \A i \in 1 .. m : parts[i] = part[i] + (IF i \in winners THEN 1 ELSE 0)
    <3> HIDE DEF winners
    <3> QED BY <2>2, <2>5
  <2>10. TotalOf(parts) = total
    <3>1. Total(parts, 1 .. m) = Total(part, 1 .. m) + Cardinality(winners)
      <4> HIDE DEF winners
      <4>1. PICK S, T, f, g : S = 1 .. m /\ T = winners /\ f = part /\ g = parts
        OBVIOUS
      <4>2. /\ IsFiniteSet(S) /\ T \in SUBSET S /\ f \in [S -> Nat] /\ g \in [S -> Nat]
            /\ \A a \in S : g[a] = f[a] + (IF a \in T THEN 1 ELSE 0)
        BY <1>1, <2>2, <2>6, <2>9, <4>1
      <4>3. Total(g, S) = Total(f, S) + Cardinality(T)
        BY ONLY <4>2, UnitsAdded
      <4> QED BY <4>1, <4>3
    <3> QED BY <2>4, <2>8, <2>9, <3>1 DEF TotalOf
  <2>11. ASSUME NEW i \in 1 .. m PROVE AbsOf(parts[i] * W - total * w[i]) < W
    <3>1. PICK p \in Nat, x \in 0 .. W - 1 : p = part[i] /\ x = lost[i]
      BY <2>2, <2>3
    <3>2. PICK t \in Nat : t = total * w[i]
      OBVIOUS
    <3>3. PICK u \in Nat : u = p * W
      BY <2>2
    <3>4. t = u + x
      BY <2>3, <3>1, <3>2, <3>3
    <3>5. CASE i \in winners
      <4>1. x > 0
        <5> SUFFICES ASSUME x = 0 PROVE FALSE
          BY <3>1
        <5>1. losers \in SUBSET Ahead(lost, i)
          BY <2>2, <3>1 DEF Ahead
        <5>2. Ahead(lost, i) \in SUBSET (1 .. m)
          BY <2>2 DEF Ahead
        <5>3. IsFiniteSet(Ahead(lost, i)) /\ Cardinality(Ahead(lost, i)) \in Nat
          BY <1>1, <5>2, FS_Subset, FS_CardinalityType
        <5>4. Cardinality(losers) <= Rank(lost, i) /\ Cardinality(losers) \in Nat
          BY <5>1, <5>3, FS_Subset, FS_CardinalityType DEF Rank
        <5>5. Rank(lost, i) < leftover /\ Rank(lost, i) \in Nat
          BY <3>5, <5>3 DEF Rank
        <5> HIDE DEF losers
        <5> QED BY <2>2, <2>4, <5>4, <5>5
      <4>2. parts[i] * W = u + W
        <5>1. parts[i] = p + 1
          BY <2>9, <3>1, <3>5
        <5>2. (p + 1) * W = p * W + W
          BY <2>2
        <5> QED BY <3>3, <5>1, <5>2
      <4>3. parts[i] * W - total * w[i] = W - x
        <5>1. PICK y \in Int : y = parts[i] * W
          BY <2>2, <4>2
        <5>2. y = u + W
          BY <4>2, <5>1
        <5>3. y - t = W - x
          BY <2>2, <3>4, <5>2
        <5> QED BY <3>2, <5>1, <5>3
      <4>4. W - x \in 1 .. W - 1
        BY <2>2, <4>1
      <4> HIDE DEF winners, losers
      <4> QED BY <2>2, <4>3, <4>4 DEF AbsOf
    <3>6. CASE i \notin winners
      <4>1. parts[i] * W = u
        BY <2>9, <3>1, <3>3, <3>6
      <4>2. parts[i] * W - total * w[i] = -x
        BY <3>2, <3>3, <3>4, <4>1
      <4> QED BY <2>2, <4>2 DEF AbsOf
    <3> QED BY <3>5, <3>6
  <2>12. ASSUME NEW i \in 1 .. m, NEW j \in 1 .. m, w[i] > w[j] PROVE parts[i] >= parts[j]
    <3>0. part[i] \in Nat /\ part[j] \in Nat
      BY <2>2
    <3>1. /\ part[i] >= part[j]
          /\ part[i] = part[j] /\ total > 0 => lost[i] > lost[j]
      <4>1. PICK a \in Nat, b \in Nat : a = w[i] /\ b = w[j] /\ a > b
        BY <2>12
      <4>2. PICK p \in Nat, q \in Nat : p = part[i] /\ q = part[j]
        BY <3>0
      <4>3. PICK x \in 0 .. W - 1, y \in 0 .. W - 1 : x = lost[i] /\ y = lost[j]
        BY <2>3
      <4>4. total * a = p * W + x /\ total * b = q * W + y
        BY <2>3, <4>1, <4>2, <4>3
      <4>5. PICK k \in Nat : k = a - b /\ k > 0
        BY <4>1
      <4>6. total * a = total * b + total * k
        BY <4>5
      <4>7. total * k \in Nat /\ (total > 0 => total * k > 0)
        BY <4>5
      <4>8. p >= q
        <5> SUFFICES ASSUME p < q PROVE FALSE
          OBVIOUS
        <5>1. PICK c \in Nat : q = p + 1 + c
          <6>1. q - (p + 1) \in Nat
            OBVIOUS
          <6> QED BY <6>1
        <5>2. q * W = p * W + W + c * W
          BY <2>2, <5>1
        <5>3. PICK z \in Nat, d \in Nat : z = p * W /\ d = c * W
          BY <2>2
        <5>4. PICK v \in Nat, u \in Nat : v = total * b /\ u = total * k
          BY <4>7
        <5>5. v + u = z + x /\ v = z + W + d + y
          BY <4>4, <4>6, <5>2, <5>3, <5>4
        <5>6. W \in Nat /\ x \in Nat /\ y \in Nat /\ x < W
          BY <2>2
        <5> QED BY ONLY <5>5, <5>6
      <4>9. ASSUME p = q, total > 0 PROVE x > y
        <5>1. PICK z \in Nat : z = p * W /\ z = q * W
          BY <2>2, <4>9
        <5>2. PICK v \in Nat : v = total * b
          OBVIOUS
        <5>3. PICK u \in Nat : u = total * k /\ u > 0
          BY <4>7, <4>9
        <5> QED BY <4>4, <4>6, <5>1, <5>2, <5>3
      <4> QED BY <4>2, <4>3, <4>8, <4>9
    <3>2. CASE part[i] > part[j]
      <4>1. parts[i] >= part[i] /\ parts[j] <= part[j] + 1
        <5> HIDE DEF winners
        <5>1. parts[i] = part[i] + (IF i \in winners THEN 1 ELSE 0)
          BY <2>9
        <5>2. parts[j] = part[j] + (IF j \in winners THEN 1 ELSE 0)
          BY <2>9
        <5> QED BY <3>0, <5>1, <5>2
      <4>2. parts[i] \in Nat /\ parts[j] \in Nat
        BY <2>9
      <4> HIDE DEF winners, losers
      <4> QED BY <3>0, <3>2, <4>1, <4>2
    <3>3. CASE part[i] = part[j]
      <4>1. ASSUME j \in winners PROVE i \in winners
        <5>0. Rank(lost, i) \in Nat /\ Rank(lost, j) \in Nat
          BY <2>70
        <5>1. leftover > 0
          BY <2>2, <4>1, <5>0
        <5>2. total > 0
          <6>1. Total(part, 1 .. m) \in Nat
            BY <1>1, <2>2, TotalNat
          <6> QED BY <2>2, <2>4, <5>1, <6>1
        <5>3. i \in Ahead(lost, j)
          BY <2>2, <3>1, <3>3, <5>2 DEF Ahead
        <5>4. Rank(lost, i) < Rank(lost, j) /\ Rank(lost, j) < leftover
          BY <2>2, <4>1, <5>3, RankFollowsOrder
        <5> QED BY <2>2, <5>0, <5>4
      <4> HIDE DEF winners
      <4>2. parts[i] = part[i] + (IF i \in winners THEN 1 ELSE 0)
        BY <2>9
      <4>3. parts[j] = part[j] + (IF j \in winners THEN 1 ELSE 0)
        BY <2>9
      <4> QED BY <3>0, <3>3, <4>1, <4>2, <4>3
    <3> QED BY <2>2, <3>1, <3>2, <3>3
  <2> HIDE DEF winners, losers
  <2>13. DOMAIN parts = DOMAIN w
    BY <1>2, <2>9
  <2> QED BY <1>2, <1>3, <2>2, <2>10, <2>11, <2>12, <2>13 DEF SplitsRight
<1> QED BY <1>4, <1>5

(* The powers of ten, one from the other.                                  *)
PowerSteps(f) ==
    f = [k \in 0 .. STROOP_DECIMALS + MaxDigits |-> IF k = 0 THEN 1 ELSE 10 * f[k - 1]]

(* They are positive.                                                      *)
LEMMA PowersOfTen ==
    /\ TenTo[0] = 1
    /\ \A k \in 0 .. STROOP_DECIMALS + MaxDigits : TenTo[k] \in Nat \ {0}
<1>1. PICK m \in Nat : m = STROOP_DECIMALS + MaxDigits
  BY MoneyConstants
<1>2. PICK T : T = Nat \ {0}
  OBVIOUS
<1>3. PICK base : base = 1
  OBVIOUS
<1>4. base \in T
  BY <1>2, <1>3
<1> DEFINE step == [n \in 1 .. m |-> [x \in T |-> 10 * x]]
<1>55. step \in [1 .. m -> [T -> T]]
  <2>1. \A x \in T : 10 * x \in T
    BY <1>2
  <2> QED BY <2>1
<1>56. \A n \in 1 .. m, x \in T : step[n][x] = 10 * x
  OBVIOUS
<1>57. PICK st \in [1 .. m -> [T -> T]] : st = step
  BY <1>55
<1> HIDE DEF step
<1>5. PICK f \in [0 .. m -> T] : f[0] = base /\ \A n \in 1 .. m : f[n] = st[n][f[n - 1]]
  BY ONLY <1>4, m \in Nat, st \in [1 .. m -> [T -> T]], Recursion
<1>6. PowerSteps(f)
  <2>1. ASSUME NEW k \in 0 .. m PROVE f[k] = IF k = 0 THEN 1 ELSE 10 * f[k - 1]
    <3>1. CASE k = 0
      BY <1>3, <1>5, <3>1
    <3>2. CASE k # 0
      <4>1. k \in 1 .. m /\ k - 1 \in 0 .. m
        BY <3>2
      <4>2. f[k - 1] \in T
        BY <1>5, <4>1
      <4> QED BY <1>56, <1>57, <1>5, <3>2, <4>1, <4>2
    <3> QED BY <3>1, <3>2
  <2>2. f = [k \in 0 .. m |-> IF k = 0 THEN 1 ELSE 10 * f[k - 1]]
    BY <1>5, <2>1
  <2> QED BY <1>1, <2>2 DEF PowerSteps
<1>7. TenTo = CHOOSE g : PowerSteps(g)
  BY DEF TenTo, PowerSteps
<1>8. PowerSteps(TenTo)
  BY <1>6, <1>7
<1>9. TenTo = [k \in 0 .. m |-> IF k = 0 THEN 1 ELSE 10 * TenTo[k - 1]]
  BY <1>1, <1>8 DEF PowerSteps
<1> DEFINE Good == {k \in 0 .. m : TenTo[k] \in Nat \ {0}}
<1>10. TenTo[0] = 1 /\ 0 \in Good
  BY <1>9
<1>11. ASSUME NEW n \in 1 .. m, n - 1 \in Good PROVE n \in Good
  <2>1. PICK x \in Nat \ {0} : x = TenTo[n - 1]
    BY <1>11
  <2>2. TenTo[n] = 10 * x
    BY <1>9, <2>1
  <2> QED BY <2>1, <2>2
<1> HIDE DEF Good
<1>12. 0 .. m \subseteq Good
  BY <1>10, <1>11, CountUp
<1> QED BY <1>1, <1>10, <1>12 DEF Good

(* What is read from a typed amount, and what is written comes back.       *)
LEMMA TypedIsWhole ==
    ASSUME NEW x \in Decimals, NEW mode \in Modes
    PROVE  /\ toStroops(x, mode) \in Int
           /\ x.k > STROOP_DECIMALS /\ ~x.neg =>
                  RoundsRight(x.n, TenTo[x.k - STROOP_DECIMALS], mode, toStroops(x, mode))
<1>1. x.n \in Nat /\ x.k \in 0 .. MaxDigits /\ x.neg \in BOOLEAN
  BY MoneyConstants DEF Decimals
<1>2. PICK n \in Nat : n = x.n
  BY <1>1
<1>3. CASE x.k <= STROOP_DECIMALS
  <2>1. STROOP_DECIMALS - x.k \in 0 .. STROOP_DECIMALS + MaxDigits
    BY <1>1, <1>3, MoneyConstants
  <2>2. PICK t \in Nat : t = TenTo[STROOP_DECIMALS - x.k]
    BY <2>1, PowersOfTen
  <2>3. toStroops(x, mode) = IF x.neg THEN -(n * t) ELSE n * t
    BY <1>2, <1>3, <2>2 DEF toStroops
  <2>4. n * t \in Nat
    OBVIOUS
  <2>5. ~(x.k > STROOP_DECIMALS)
    BY <1>1, <1>3, MoneyConstants
  <2> QED BY <2>3, <2>4, <2>5
<1>4. CASE ~(x.k <= STROOP_DECIMALS)
  <2>1. x.k - STROOP_DECIMALS \in 0 .. STROOP_DECIMALS + MaxDigits
    BY <1>1, <1>4, MoneyConstants
  <2>2. PICK t \in Nat \ {0} : t = TenTo[x.k - STROOP_DECIMALS]
    BY <2>1, PowersOfTen
  <2>3. PICK q : q = roundDiv(n, t, mode)
    OBVIOUS
  <2>4. q \in Int /\ RoundsRight(n, t, mode, q)
    BY <2>3, RoundingIsWhole, RoundingIsRight
  <2>5. toStroops(x, mode) = IF x.neg THEN -q ELSE q
    BY <1>2, <1>4, <2>2, <2>3 DEF toStroops
  <2> QED BY <1>2, <2>2, <2>4, <2>5
<1> QED BY <1>3, <1>4

(* fromStroops and back is the amount itself, in every mode.               *)
LEMMA WrittenComesBack ==
    ASSUME NEW v \in Int, NEW mode
    PROVE  toStroops(fromStroops(v), mode) = v
<1>1. PICK a \in Nat : a = AbsOf(v)
  BY DEF AbsOf
<1>2. TenTo[STROOP_DECIMALS - STROOP_DECIMALS] = 1
  BY PowersOfTen, MoneyConstants
<1>3. PICK x : x = fromStroops(v)
  OBVIOUS
<1>4. x.neg = (v < 0) /\ x.n = a /\ x.k = STROOP_DECIMALS
  BY <1>1, <1>3 DEF fromStroops
<1>5. x.k <= STROOP_DECIMALS /\ TenTo[STROOP_DECIMALS - x.k] = 1
  BY <1>2, <1>4, MoneyConstants
<1>6. toStroops(x, mode) = IF v < 0 THEN -(a * 1) ELSE a * 1
  BY <1>4, <1>5 DEF toStroops
<1> QED BY <1>1, <1>3, <1>6 DEF AbsOf

(* What is a whole number of units is divided exactly.                     *)
LEMMA NoOtherMultiple ==
    ASSUME NEW d \in Nat \ {0}, NEW a \in Int, NEW b \in Int,
           NEW p, p = a * d, NEW q, q = b * d, p - q < d, q - p < d
    PROVE  a = b
<1>1. PICK c \in Int : c = a - b
  OBVIOUS
<1>2. PICK x \in Int : x = c * d
  OBVIOUS
<1>3. x = p - q
  BY <1>1, <1>2
<1>4. c >= 1 => x >= d
  BY <1>2
<1>5. c <= -1 => x <= -d
  BY <1>2
<1> QED BY <1>1, <1>2, <1>3, <1>4, <1>5

(* Shown with at least the settlement digits, an amount is only rescaled.  *)
LEMMA FineAmountComesBack ==
    ASSUME NEW v \in Int, NEW dp \in 0 .. MaxDigits, dp >= STROOP_DECIMALS
    PROVE  ShowsRight(v, formatStroops(v, dp))
<1>1. PICK a \in Nat : a = AbsOf(v)
  BY DEF AbsOf
<1>2. dp - STROOP_DECIMALS \in 0 .. STROOP_DECIMALS + MaxDigits /\ dp \in Nat
  BY MoneyConstants
<1>3. PICK t \in Nat \ {0} : t = TenTo[dp - STROOP_DECIMALS]
  BY <1>2, PowersOfTen
<1>4. PICK s \in Nat : s = a * t
  OBVIOUS
<1>5. s = 0 => a = 0
  BY <1>4
<1>6. PICK shown : shown = formatStroops(v, dp)
  OBVIOUS
<1>7. shown.neg = (v < 0 /\ s # 0) /\ shown.n = s /\ shown.k = dp
  BY <1>1, <1>3, <1>4, <1>6 DEF formatStroops
<1>8. PICK magnitude : magnitude = IF dp <= STROOP_DECIMALS THEN s * TenTo[STROOP_DECIMALS - dp]
                                   ELSE roundDiv(s, t, DEFAULT_MODE)
  OBVIOUS
<1>9. magnitude = a
  <2>1. CASE dp <= STROOP_DECIMALS
    <3>1. dp - STROOP_DECIMALS = 0 /\ STROOP_DECIMALS - dp = 0
      BY <1>2, <2>1, MoneyConstants
    <3>2. t = 1 /\ TenTo[STROOP_DECIMALS - dp] = 1
      BY <1>3, <3>1, PowersOfTen
    <3> QED BY <1>4, <1>8, <2>1, <3>2
  <2>2. CASE ~(dp <= STROOP_DECIMALS)
    <3>1. magnitude = roundDiv(s, t, DEFAULT_MODE)
      BY <1>8, <2>2
    <3>5. s \in Int /\ magnitude * t \in Int
      BY <3>1, NearestOf
    <3>2. PICK p \in Int : p = magnitude * t
      BY <3>5
    <3>3. magnitude \in Int /\ 2 * p <= 2 * s + t /\ 2 * s <= 2 * p + t
      BY <3>1, <3>2, NearestOf
    <3>4. p - s < t /\ s - p < t
      BY <3>3
    <3> QED BY <1>4, <3>2, <3>3, <3>4, NoOtherMultiple
  <2> QED BY <2>1, <2>2
<1>10. toStroops(shown, DEFAULT_MODE) = IF v < 0 /\ s # 0 THEN -magnitude ELSE magnitude
  <2>1. dp <= STROOP_DECIMALS \/ dp - STROOP_DECIMALS = dp - STROOP_DECIMALS
    OBVIOUS
  <2> QED BY <1>3, <1>7, <1>8 DEF toStroops
<1>11. toStroops(shown, DEFAULT_MODE) = v
  BY <1>1, <1>5, <1>9, <1>10 DEF AbsOf
<1>12. v - v = 0 /\ AbsOf(0) = 0
  BY DEF AbsOf
<1>13. shown.k >= STROOP_DECIMALS /\ ~(shown.neg /\ shown.n = 0)
  BY <1>7
<1> QED BY <1>6, <1>11, <1>12, <1>13 DEF ShowsRight

(* Shown with fewer, it is the nearest multiple of the last digit.         *)
LEMMA RoundedAmountIsNear ==
    ASSUME NEW v \in Int, NEW dp \in 0 .. MaxDigits, ~(dp >= STROOP_DECIMALS)
    PROVE  ShowsRight(v, formatStroops(v, dp))
<1>1. PICK a \in Nat : a = AbsOf(v)
  BY DEF AbsOf
<1>2. STROOP_DECIMALS - dp \in 0 .. STROOP_DECIMALS + MaxDigits /\ dp <= STROOP_DECIMALS
  BY MoneyConstants
<1>3. PICK unit \in Nat \ {0} : unit = TenTo[STROOP_DECIMALS - dp]
  BY <1>2, PowersOfTen
<1>4. PICK q : q = roundDiv(a, unit, DEFAULT_MODE)
  OBVIOUS
<1>16. q * unit \in Int
  BY <1>4, NearestOf
<1>5. PICK p \in Int : p = q * unit
  BY <1>16
<1>6. q \in Int /\ 2 * p <= 2 * a + unit /\ 2 * a <= 2 * p + unit
  BY <1>4, <1>5, NearestOf
<1>7. PICK shown : shown = formatStroops(v, dp)
  OBVIOUS
<1>8. shown.neg = (v < 0 /\ q # 0) /\ shown.n = q /\ shown.k = dp
  BY <1>1, <1>3, <1>4, <1>7 DEF formatStroops
<1>9. toStroops(shown, DEFAULT_MODE) = IF v < 0 /\ q # 0 THEN -p ELSE p
  BY <1>2, <1>3, <1>5, <1>8 DEF toStroops
<1>10. q = 0 => p = 0
  BY <1>5, <1>6
<1>11. PICK back \in Int : back = toStroops(shown, DEFAULT_MODE)
  BY <1>9
<1>12. back = IF v < 0 THEN -p ELSE p
  BY <1>9, <1>10, <1>11
<1>13. 2 * AbsOf(back - v) <= unit
  BY <1>1, <1>6, <1>12 DEF AbsOf
<1>14. ASSUME v % unit = 0 PROVE back = v
  <2>1. PICK c \in Int : v = c * unit
    <3>1. PICK c \in Int : c = v \div unit
      OBVIOUS
    <3>2. v = c * unit
      BY <1>14, <3>1
    <3> QED BY <3>2
  <2>2. PICK b \in Int : b = IF v < 0 THEN -c ELSE c
    OBVIOUS
  <2>3. a = b * unit
    BY <1>1, <2>1, <2>2 DEF AbsOf
  <2>4. p - a < unit /\ a - p < unit
    BY <1>6
  <2>5. q = b
    BY <1>5, <1>6, <2>3, <2>4, NoOtherMultiple
  <2>6. p = a
    BY <1>5, <2>3, <2>5
  <2> QED BY <1>1, <1>12, <2>6 DEF AbsOf
<1>15. ~(shown.k >= STROOP_DECIMALS) /\ unit = TenTo[STROOP_DECIMALS - shown.k]
       /\ ~(shown.neg /\ shown.n = 0)
  BY <1>3, <1>8
<1> QED BY <1>7, <1>11, <1>13, <1>14, <1>15 DEF ShowsRight

(* Whatever is typed with the settlement digits at most is read exactly.   *)
LEMMA TypedIsExact ==
    ASSUME NEW x \in Decimals, ~x.neg, ~hasInvalidPrecision(x, STROOP_DECIMALS)
    PROVE  typedToStroops(x, STROOP_DECIMALS) = toStroops(x, DEFAULT_MODE)
<1>1. x.k \in 0 .. MaxDigits
  BY DEF Decimals
<1>2. x.k <= STROOP_DECIMALS
  BY <1>1, MoneyConstants DEF hasInvalidPrecision
<1> QED BY <1>2 DEF typedToStroops, toStroops

(* What each call promises, of the call recorded: inductive as it stands.  *)
LEMMA MoneyInitial == MoneyInit => MoneyAgrees
BY DEF MoneyInit, MoneyAgrees

(* One step for each call, from the lemma about its operator.              *)
LEMMA MoneyStep == MoneyAgrees /\ [MoneyNext]_moneyVars => MoneyAgrees'
<1> SUFFICES ASSUME MoneyAgrees, [MoneyNext]_moneyVars PROVE MoneyAgrees'
  OBVIOUS
<1>1. CASE UNCHANGED moneyVars
  BY <1>1 DEF MoneyAgrees, moneyVars
<1>2. CASE callRoundDiv
  <2>1. PICK num \in Int, den \in Int \ {0}, mode \in Modes :
            reckoned' = [op |-> "roundDiv", num |-> num, den |-> den, mode |-> mode,
                         out |-> roundDiv(num, den, mode)]
    <3>1. -MaxMoney .. MaxMoney \subseteq Int /\ (-7 .. 7) \ {0} \subseteq Int \ {0}
      BY MoneyConstants
    <3> QED BY <1>2, <3>1 DEF callRoundDiv
  <2>2. PICK q : q = roundDiv(num, den, mode)
    OBVIOUS
  <2>3. RoundsRight(num, den, mode, q)
    BY <2>2, RoundingIsRight
  <2>4. reckoned' = [op |-> "roundDiv", num |-> num, den |-> den, mode |-> mode, out |-> q]
    BY <2>1, <2>2
  <2> QED BY <2>3, <2>4 DEF MoneyAgrees
<1>3. CASE callToStroops
  <2>1. PICK x \in Decimals, mode \in Modes :
            reckoned' = [op |-> "toStroops", in |-> x, mode |-> mode, out |-> toStroops(x, mode)]
    BY <1>3 DEF callToStroops
  <2>2. PICK s \in Int : s = toStroops(x, mode)
    BY TypedIsWhole
  <2>3. x.k > STROOP_DECIMALS /\ ~x.neg => RoundsRight(x.n, TenTo[x.k - STROOP_DECIMALS], mode, s)
    BY <2>2, TypedIsWhole
  <2>4. toStroops(fromStroops(s), mode) = s
    BY WrittenComesBack
  <2>5. reckoned' = [op |-> "toStroops", in |-> x, mode |-> mode, out |-> s]
    BY <2>1, <2>2
  <2> QED BY <2>3, <2>4, <2>5 DEF MoneyAgrees
<1>4. CASE callFormat
  <2>1. PICK v \in Int, dp \in 0 .. MaxDigits :
            reckoned' = [op |-> "format", in |-> v, out |-> formatStroops(v, dp)]
    <3>1. -MaxMoney .. MaxMoney \subseteq Int
      BY MoneyConstants
    <3> QED BY <1>4, <3>1 DEF callFormat
  <2>2. PICK shown : shown = formatStroops(v, dp)
    OBVIOUS
  <2>3. ShowsRight(v, shown)
    BY <2>2, FineAmountComesBack, RoundedAmountIsNear
  <2>4. reckoned' = [op |-> "format", in |-> v, out |-> shown]
    BY <2>1, <2>2
  <2> QED BY <2>3, <2>4 DEF MoneyAgrees
<1>5. CASE callTyped
  <2>1. PICK x \in Decimals, decimals \in {DISPLAY_DP, STROOP_DECIMALS} :
            /\ ~x.neg /\ ~hasInvalidPrecision(x, decimals)
            /\ reckoned' = [op |-> "typed", in |-> x, decimals |-> decimals,
                            out |-> typedToStroops(x, decimals)]
    BY <1>5 DEF callTyped
  <2>2. PICK s : s = typedToStroops(x, decimals)
    OBVIOUS
  <2>3. decimals = STROOP_DECIMALS => s = toStroops(x, DEFAULT_MODE)
    BY <2>1, <2>2, TypedIsExact
  <2>4. reckoned' = [op |-> "typed", in |-> x, decimals |-> decimals, out |-> s]
    BY <2>1, <2>2
  <2> QED BY <2>3, <2>4 DEF MoneyAgrees
<1>6. CASE callSplit
  <2>1. PICK total \in Nat, w \in [1 .. 3 -> Nat] :
            /\ CanSplit(total, w)
            /\ reckoned' = [op |-> "split", total |-> total, weights |-> w,
                            out |-> splitProRata(total, w)]
    <3>1. 0 .. MaxMoney \subseteq Nat /\ Weights \subseteq [1 .. 3 -> Nat]
      BY MoneyConstants DEF Weights
    <3> QED BY <1>6, <3>1 DEF callSplit
  <2>2. PICK parts : parts = splitProRata(total, w)
    OBVIOUS
  <2>3. SplitsRight(total, w, parts)
    <3>1. PICK m \in Nat : m = 3
      OBVIOUS
    <3>2. w \in [1 .. m -> Nat]
      BY <3>1
    <3> QED BY <2>1, <2>2, <3>2, SplitIsRight
  <2>4. reckoned' = [op |-> "split", total |-> total, weights |-> w, out |-> parts]
    BY <2>1, <2>2
  <2> QED BY <2>3, <2>4 DEF MoneyAgrees
<1> QED BY <1>1, <1>2, <1>3, <1>4, <1>5, <1>6 DEF MoneyNext

------------------------------------------------------------------------------
(* The views of a loan.  The list and the detail view reckon the same      *)
(* figures from the log; the streaks of a history are those of its longest *)
(* and of its last run of repayments, row by row.                          *)

LoanEventKinds == {"LoanRequested", "LoanApproved", "LoanRepaid", "LoanDefaulted"}
LoanEvents == [type : LoanEventKinds, amount : Nat, ledger : Nat]
DisputeRecords == [status : {"none", "open", "resolved", "rejected"}, ledger : Nat]
RulingRecords == [pc : {"idle", "write", "done"}, id : Disputes \cup {NoDispute}]

LoanViewTyped ==
    /\ indexed \in Seq(LoanEvents)
    /\ indexedLedger \in Nat
    /\ dispute \in [Disputes -> DisputeRecords]
    /\ ruling \in [Admins -> RulingRecords]
    /\ \A a \in Admins : ruling[a].pc = "write" => ruling[a].id \in Disputes

(* The log never gets ahead of the cursor, and an open dispute has an      *)
(* event before it, at which the clock of the detail view can stop.        *)
LoanViewInv ==
    /\ LoanViewTyped
    /\ \A i \in DOMAIN indexed : indexed[i].ledger <= indexedLedger
    /\ \A d \in OpenDisputes : \E i \in DOMAIN indexed : indexed[i].ledger <= dispute[d].ledger

(* An empty log agrees with itself.                                        *)
LEMMA LoanViewInitial == LoanViewInit => LoanViewInv
<1> SUFFICES ASSUME LoanViewInit PROVE LoanViewInv
  OBVIOUS
<1>1. /\ indexed = <<>> /\ indexedLedger = 0
      /\ dispute = [d \in Disputes |-> [status |-> "none", ledger |-> 0]]
      /\ ruling = [a \in Admins |-> [pc |-> "idle", id |-> NoDispute]]
  BY DEF LoanViewInit
<1>2. LoanViewTyped
  BY <1>1 DEF LoanViewTyped, DisputeRecords, RulingRecords
<1>3. OpenDisputes = {}
  BY <1>1 DEF OpenDisputes
<1> QED BY <1>1, <1>2, <1>3 DEF LoanViewInv

(* Every step of the indexer and of the disputes keeps it.                 *)
LEMMA LoanViewStep == LoanViewInv /\ [LoanViewNext]_loanViewVars => LoanViewInv'
<1> SUFFICES ASSUME LoanViewInv, [LoanViewNext]_loanViewVars PROVE LoanViewInv'
  OBVIOUS
<1>0. /\ indexed \in Seq(LoanEvents) /\ indexedLedger \in Nat
      /\ dispute \in [Disputes -> DisputeRecords]
      /\ ruling \in [Admins -> RulingRecords]
      /\ \A a \in Admins : ruling[a].pc = "write" => ruling[a].id \in Disputes
      /\ \A i \in DOMAIN indexed : indexed[i].ledger <= indexedLedger
      /\ \A d \in Disputes : dispute[d].status = "open" =>
             \E i \in DOMAIN indexed : indexed[i].ledger <= dispute[d].ledger
  BY DEF LoanViewInv, LoanViewTyped, OpenDisputes
<1>1. ASSUME NEW type \in LoanEventKinds, NEW x \in Amounts \cup {0}, indexLoanEvent(type, x)
      PROVE  LoanViewInv'
  <2>1. PICK e : e = [type |-> type, amount |-> x, ledger |-> indexedLedger]
    OBVIOUS
  <2>2. e \in LoanEvents /\ e.ledger = indexedLedger
    <3>1. x \in Nat
      BY LoanViewConstants
    <3> QED BY <1>0, <2>1, <3>1 DEF LoanEvents
  <2>3. /\ indexed' = Append(indexed, e)
        /\ indexedLedger' = indexedLedger /\ dispute' = dispute /\ ruling' = ruling
    BY <1>1, <2>1 DEF indexLoanEvent
  <2>4. PICK m \in Nat : m = Len(indexed) /\ DOMAIN indexed = 1 .. m
    BY <1>0
  <2>5. /\ indexed' \in Seq(LoanEvents) /\ DOMAIN indexed' = 1 .. m + 1 /\ indexed'[m + 1] = e
        /\ \A i \in 1 .. m : indexed'[i] = indexed[i]
    BY <1>0, <2>2, <2>3, <2>4
  <2>6. \A i \in 1 .. m + 1 : indexed'[i].ledger <= indexedLedger
    BY <1>0, <2>2, <2>4, <2>5
  <2>7. \A d \in Disputes : dispute[d].status = "open" =>
            \E i \in 1 .. m + 1 : indexed'[i].ledger <= dispute[d].ledger
    <3>1. 1 .. m \subseteq 1 .. m + 1
      OBVIOUS
    <3> QED BY <1>0, <2>4, <2>5, <3>1
  <2> QED BY <1>0, <2>3, <2>5, <2>6, <2>7 DEF LoanViewInv, LoanViewTyped, OpenDisputes
<1>2. ASSUME advanceLedger PROVE LoanViewInv'
  <2>1. indexedLedger' = indexedLedger + 1 /\ UNCHANGED <<indexed, dispute, ruling>>
    BY <1>2 DEF advanceLedger
  <2>2. \A i \in DOMAIN indexed : indexed[i].ledger <= indexedLedger + 1
    <3>1. \A i \in DOMAIN indexed : indexed[i] \in LoanEvents
      BY <1>0
    <3>2. \A e \in LoanEvents : e.ledger \in Nat
      BY DEF LoanEvents
    <3> QED BY <1>0, <3>1, <3>2
  <2>3. indexedLedger + 1 \in Nat
    BY <1>0
  <2> QED BY <1>0, <2>1, <2>2, <2>3 DEF LoanViewInv, LoanViewTyped, OpenDisputes
<1>3. ASSUME NEW d \in Disputes, contestDefault(d) PROVE LoanViewInv'
  <2>1. /\ Of("LoanDefaulted") # {}
        /\ dispute' = [dispute EXCEPT ![d] = [status |-> "open", ledger |-> indexedLedger]]
        /\ UNCHANGED <<indexed, indexedLedger, ruling>>
    BY <1>3 DEF contestDefault
  <2>2. [status |-> "open", ledger |-> indexedLedger] \in DisputeRecords
    BY <1>0 DEF DisputeRecords
  <2>3. dispute' \in [Disputes -> DisputeRecords]
    BY <1>0, <2>1, <2>2
  <2>4. PICK i \in DOMAIN indexed : indexed[i].ledger <= indexedLedger
    BY <1>0, <2>1 DEF Of
  <2>5. \A c \in Disputes : dispute'[c].status = "open" =>
            \E j \in DOMAIN indexed : indexed[j].ledger <= dispute'[c].ledger
    BY <1>0, <2>1, <2>4
  <2> QED BY <1>0, <2>1, <2>3, <2>5 DEF LoanViewInv, LoanViewTyped, OpenDisputes
<1>4. ASSUME NEW a \in Admins, NEW d \in Disputes, readOpenDispute(a, d) PROVE LoanViewInv'
  <2>1. /\ ruling' = [ruling EXCEPT ![a] = [pc |-> "write", id |-> d]]
        /\ UNCHANGED <<indexed, indexedLedger, dispute>>
    BY <1>4 DEF readOpenDispute
  <2>2. [pc |-> "write", id |-> d] \in RulingRecords
    BY DEF RulingRecords
  <2>3. ruling' \in [Admins -> RulingRecords]
    BY <1>0, <2>1, <2>2
  <2>4. \A b \in Admins : ruling'[b].pc = "write" => ruling'[b].id \in Disputes
    BY <1>0, <2>1
  <2> QED BY <1>0, <2>1, <2>3, <2>4 DEF LoanViewInv, LoanViewTyped, OpenDisputes
<1>5. ASSUME NEW a \in Admins, NEW status \in {"resolved", "rejected"}, Rule(a, status)
      PROVE  LoanViewInv'
  <2>1. PICK d : d = ruling[a].id
    OBVIOUS
  <2>2. /\ ruling[a].pc = "write"
        /\ ruling' = [ruling EXCEPT ![a].pc = "done"]
        /\ dispute' = [dispute EXCEPT ![d].status = status]
        /\ UNCHANGED <<indexed, indexedLedger>>
    BY <1>5, <2>1 DEF Rule
  <2>3. d \in Disputes
    BY <1>0, <2>1, <2>2
  <2>4. ruling' \in [Admins -> RulingRecords] /\ dispute' \in [Disputes -> DisputeRecords]
    BY <1>0, <2>2, <2>3 DEF RulingRecords, DisputeRecords
  <2>5. \A b \in Admins : ruling'[b].pc = "write" => ruling'[b].id \in Disputes
    BY <1>0, <2>2 DEF RulingRecords
  <2>6. \A c \in Disputes : dispute'[c].status = "open" =>
            /\ dispute[c].status = "open" /\ dispute'[c].ledger = dispute[c].ledger
    BY <1>0, <2>2, <2>3 DEF DisputeRecords
  <2> QED BY <1>0, <2>2, <2>4, <2>5, <2>6 DEF LoanViewInv, LoanViewTyped, OpenDisputes
<1>6. ASSUME UNCHANGED loanViewVars PROVE LoanViewInv'
  BY <1>0, <1>6 DEF loanViewVars, LoanViewInv, LoanViewTyped, OpenDisputes
<1> QED BY <1>1, <1>2, <1>3, <1>4, <1>5, <1>6
  DEF LoanViewNext, LoanEventKinds, resolveLoanDispute, rejectLoanDispute

(* The greatest number of a set.                                           *)
LEMMA MaxOfNaturals ==
    ASSUME NEW bound \in Nat, NEW S \in SUBSET (0 .. bound), S # {}
    PROVE  Max(S) \in S /\ \A x \in S : x <= Max(S)
<1>1. \E x \in S : \A y \in S : x >= y
  <2>1. PICK x \in S : \A y \in S : y <= x
    BY GreatestNatural
  <2>2. \A y \in S : y \in Nat
    OBVIOUS
  <2> QED BY <2>1, <2>2
<1>2. Max(S) \in S /\ \A y \in S : Max(S) >= y
  BY <1>1, Zenon DEF Max
<1>3. \A y \in S : y \in Nat
  OBVIOUS
<1> QED BY <1>2, <1>3

(* The least number of a set.                                              *)
LEMMA MinOfNaturals ==
    ASSUME NEW S \in SUBSET Nat, S # {}
    PROVE  Min(S) \in S /\ \A x \in S : Min(S) <= x
<1>1. \E x \in S : \A y \in S : x <= y
  BY LeastNatural
<1> QED BY <1>1, Zenon DEF Min

(* What the views read of the log.                                         *)
LEMMA LoanFigures ==
    ASSUME LoanViewInv
    PROVE  /\ principal \in Nat /\ totalRepaid \in Nat
           /\ approvedLedger \in Nat /\ indexedLedger \in Nat
<1>1. PICK m \in Nat : m = Len(indexed) /\ DOMAIN indexed = 1 .. m
  BY DEF LoanViewInv, LoanViewTyped
<1>2. \A i \in 1 .. m : indexed[i].amount \in Nat /\ indexed[i].ledger \in Nat
  <2>1. \A i \in 1 .. m : indexed[i] \in LoanEvents
    BY <1>1 DEF LoanViewInv, LoanViewTyped
  <2> QED BY <2>1 DEF LoanEvents
<1>3. \A t : Of(t) \in SUBSET (1 .. m) /\ Of(t) \in SUBSET (0 .. m) /\ Of(t) \in SUBSET Nat
  BY <1>1 DEF Of
<1>4. principal \in Nat
  <2>1. CASE Of("LoanRequested") = {}
    BY <2>1 DEF principal
  <2>2. CASE Of("LoanRequested") # {}
    <3>1. Min(Of("LoanRequested")) \in 1 .. m
      BY <1>3, <2>2, MinOfNaturals
    <3> QED BY <1>2, <2>2, <3>1 DEF principal
  <2> QED BY <2>1, <2>2
<1>5. approvedLedger \in Nat
  <2>1. CASE Of("LoanApproved") = {}
    BY <2>1 DEF approvedLedger
  <2>2. CASE Of("LoanApproved") # {}
    <3>1. Max(Of("LoanApproved")) \in 1 .. m
      BY <1>3, <2>2, MaxOfNaturals
    <3> QED BY <1>2, <2>2, <3>1 DEF approvedLedger
  <2> QED BY <2>1, <2>2
<1>6. totalRepaid \in Nat
  <2>1. PICK S \in SUBSET (1 .. m) : S = Of("LoanRepaid")
    BY <1>3
  <2>2. PICK f : f = [i \in S |-> indexed[i].amount]
    OBVIOUS
  <2>3. f \in [S -> Nat]
    BY <1>2, <2>2
  <2>4. IsFiniteSet(S)
    <3>1. IsFiniteSet(1 .. m)
      BY FS_Interval
    <3> QED BY <3>1, FS_Subset
  <2>5. Total(f, S) \in Nat
    BY <2>3, <2>4, TotalNat
  <2> QED BY <2>1, <2>2, <2>5 DEF totalRepaid, SumOf
<1> QED BY <1>4, <1>5, <1>6 DEF LoanViewInv, LoanViewTyped

(* Interest is never negative, and none accrues on nothing.                *)
LEMMA AccruedNat ==
    ASSUME NEW remaining \in Int, NEW elapsed \in Int
    PROVE  /\ accrueInterest(remaining, elapsed) \in Nat
           /\ remaining <= 0 => accrueInterest(remaining, elapsed) = 0
<1>1. CASE remaining <= 0 \/ elapsed <= 0
  BY <1>1 DEF accrueInterest
<1>2. CASE ~(remaining <= 0 \/ elapsed <= 0)
  <2>1. PICK r \in Nat : r = RateBps
    BY LoanViewConstants
  <2>2. PICK t \in Nat \ {0} : t = TermLedgers
    BY LoanViewConstants
  <2>3. remaining \in Nat /\ elapsed \in Nat
    BY <1>2
  <2>4. PICK x \in Nat : x = remaining * r
    BY <2>3
  <2>5. PICK n \in Nat : n = x * elapsed
    BY <2>3
  <2>6. PICK d \in Nat \ {0} : d = 10000 * t
    OBVIOUS
  <2>7. n \div d \in Nat
    BY QuotientBounds
  <2>8. accrueInterest(remaining, elapsed) = n \div d
    BY <1>2, <2>1, <2>2, <2>4, <2>5, <2>6 DEF accrueInterest
  <2> QED BY <1>2, <2>7, <2>8
<1> QED BY <1>1, <1>2

(* The clock of the detail view stops at an event of the log.              *)
LEMMA FreezeTyped ==
    ASSUME LoanViewInv, OpenDisputes # {}
    PROVE  freezeLedger \in Nat
<1>1. PICK m \in Nat : m = Len(indexed) /\ DOMAIN indexed = 1 .. m
  BY DEF LoanViewInv, LoanViewTyped
<1>2. \A i \in 1 .. m : indexed[i].ledger \in Nat
  <2>1. \A i \in 1 .. m : indexed[i] \in LoanEvents
    BY <1>1 DEF LoanViewInv, LoanViewTyped
  <2> QED BY <2>1 DEF LoanEvents
<1> DEFINE ledgers == {dispute[d].ledger : d \in OpenDisputes}
<1>3. ledgers \in SUBSET Nat /\ ledgers # {}
  <2>1. \A d \in OpenDisputes : dispute[d] \in DisputeRecords
    BY DEF OpenDisputes, LoanViewInv, LoanViewTyped
  <2> QED BY <2>1 DEF DisputeRecords
<1>4. PICK opened : opened = Min(ledgers)
  OBVIOUS
<1>5. opened \in ledgers
  BY <1>3, <1>4, MinOfNaturals
<1>6. PICK before : before = {i \in 1 .. m : indexed[i].ledger <= opened}
  OBVIOUS
<1>7. before # {}
  <2>1. PICK d \in OpenDisputes : opened = dispute[d].ledger
    BY <1>5
  <2> QED BY <1>1, <1>6, <2>1 DEF LoanViewInv
<1>8. Max(before) \in 1 .. m
  <2>1. before \in SUBSET (0 .. m) /\ before \subseteq 1 .. m
    BY <1>6
  <2> QED BY <1>7, <2>1, MaxOfNaturals
<1>9. freezeLedger = indexed[Max(before)].ledger
  BY <1>1, <1>4, <1>6 DEF freezeLedger
<1> QED BY <1>2, <1>8, <1>9

(* The list and the detail view: the same status, and the same amounts     *)
(* where both follow the same clock and nothing is overpaid.               *)
LEMMA ListAndDetailAgree ==
    ASSUME LoanViewInv
    PROVE  /\ getBorrowerLoans.status = getLoanDetails.status
           /\ (OpenDisputes = {} /\ totalRepaid <= principal /\ ~isPending) =>
                  getBorrowerLoans = getLoanDetails
<1>1. PICK p \in Nat : p = principal
  BY LoanFigures
<1>2. PICK r \in Nat : r = totalRepaid
  BY LoanFigures
<1>3. PICK at \in Nat : at = approvedLedger
  BY LoanFigures
<1>4. PICK now \in Nat : now = indexedLedger
  BY LoanFigures
<1>5. PICK stops \in Nat : stops = IF OpenDisputes # {} THEN freezeLedger ELSE now
  <2>1. CASE OpenDisputes # {}
    BY <2>1, FreezeTyped
  <2>2. CASE OpenDisputes = {}
    BY <2>2
  <2> QED BY <2>1, <2>2
<1>6. PICK left \in Int : left = NotNegative(p - r)
  BY DEF NotNegative
<1>7. remainingPrincipal(p, r) = left /\ (p > r => left = p - r) /\ (~(p > r) => left = 0)
  BY <1>6 DEF remainingPrincipal, NotNegative
<1>8. PICK e \in Int : e = NotNegative(now - at)
  BY DEF NotNegative
<1>9. PICK g \in Int : g = NotNegative(stops - at)
  BY DEF NotNegative
<1>10. PICK a \in Nat : a = accrueInterest(left, e) /\ (left <= 0 => a = 0)
  BY AccruedNat
<1>11. PICK c \in Nat : c = (IF isPending THEN 0 ELSE accrueInterest(left, g)) /\ (left <= 0 => c = 0)
  BY AccruedNat
<1>12. getBorrowerLoans = [totalOwed |-> p + a - r, accrued |-> a, status |-> StatusFor(p + a - r)]
  BY <1>1, <1>2, <1>3, <1>4, <1>6, <1>8, <1>10 DEF getBorrowerLoans
<1>13. getLoanDetails = [totalOwed |-> left + c, accrued |-> c, status |-> StatusFor(left + c)]
  BY <1>1, <1>2, <1>3, <1>4, <1>5, <1>7, <1>9, <1>11 DEF getLoanDetails
<1>14. (p + a - r > 0) <=> (left + c > 0)
  BY <1>7, <1>10, <1>11
<1>15. StatusFor(p + a - r) = StatusFor(left + c)
  BY <1>14 DEF StatusFor
<1>16. ASSUME OpenDisputes = {}, r <= p, ~isPending PROVE p + a - r = left + c /\ a = c
  <2>1. g = e
    BY <1>5, <1>8, <1>9, <1>16
  <2>2. a = c
    BY <1>10, <1>11, <1>16, <2>1
  <2> QED BY <1>7, <1>16, <2>2
<1> QED BY <1>2, <1>1, <1>12, <1>13, <1>15, <1>16

(* The breakdown counts a loan once, late if its debt was completed late,  *)
(* and gives the list's amount.                                            *)
LEMMA CountsRight ==
    ASSUME LoanViewInv
    PROVE  CountsAgree
<1>1. PICK m \in Nat : m = Len(indexed) /\ DOMAIN indexed = 1 .. m
  BY DEF LoanViewInv, LoanViewTyped
<1>2. \A i \in 1 .. m : indexed[i].ledger \in Nat /\ indexed[i].ledger <= indexedLedger
  <2>1. \A i \in 1 .. m : indexed[i] \in LoanEvents
    BY <1>1 DEF LoanViewInv, LoanViewTyped
  <2> QED BY <1>1, <2>1 DEF LoanEvents, LoanViewInv
<1>3. PICK repaid : repaid = Of("LoanRepaid")
  OBVIOUS
<1>4. repaid \in SUBSET (1 .. m)
  BY <1>1, <1>3 DEF Of
<1>5. PICK last : last = Max(RepaidLedgers)
  OBVIOUS
<1>6. last \in Nat /\ \A i \in repaid : indexed[i].ledger <= last
  <2>1. indexedLedger \in Nat
    BY LoanFigures
  <2>2. RepaidLedgers \in SUBSET (0 .. indexedLedger) /\ 0 \in RepaidLedgers
        /\ \A i \in repaid : indexed[i].ledger \in RepaidLedgers
    BY <1>2, <1>3, <1>4, <2>1 DEF RepaidLedgers
  <2>3. RepaidLedgers # {}
    BY <2>2
  <2>4. Max(RepaidLedgers) \in RepaidLedgers /\ \A x \in RepaidLedgers : x <= Max(RepaidLedgers)
    BY <2>1, <2>2, <2>3, MaxOfNaturals
  <2>5. last \in Nat
    <3>1. \A x \in RepaidLedgers : x \in Nat
      <4>1. \A x \in 0 .. indexedLedger : x \in Nat
        BY <2>1
      <4> QED BY <2>2, <4>1
    <3> QED BY <1>5, <2>4, <3>1
  <2>6. \A i \in repaid : indexed[i].ledger <= last
    BY <1>5, <2>2, <2>4
  <2> QED BY <2>5, <2>6
<1>7. PICK due \in Nat : due = approvedLedger + TermLedgers
  BY LoanFigures, LoanViewConstants
<1> DEFINE scored == repaid # {} \/ Of("LoanDefaulted") # {}
           answer == getScoreBreakdown(scored)
<1>8. /\ answer.repaidOnTime = IF repaid # {} /\ last <= due THEN 1 ELSE 0
      /\ answer.repaidLate = IF repaid # {} /\ ~(last <= due) THEN 1 ELSE 0
      /\ answer.totalRepaid = IF scored THEN totalRepaid ELSE 0
  BY <1>3, <1>5, <1>7 DEF getScoreBreakdown, BreakdownAt
<1> HIDE DEF answer
<1>9. answer.repaidOnTime + answer.repaidLate = (IF repaid = {} THEN 0 ELSE 1)
  BY <1>6, <1>7, <1>8
<1>10. ASSUME NEW completing \in SUBSET repaid, completing # {},
              indexed[Min(completing)].ledger > due
       PROVE  answer.repaidLate = 1
  <2>1. completing \in SUBSET Nat
    BY <1>4
  <2>2. Min(completing) \in repaid
    BY <1>10, <2>1, MinOfNaturals
  <2>3. indexed[Min(completing)].ledger <= last
    BY <1>6, <2>2
  <2>4. indexed[Min(completing)].ledger \in Nat
    BY <1>2, <1>4, <2>2
  <2>5. ~(last <= due)
    BY <1>6, <1>7, <1>10, <2>3, <2>4
  <2> QED BY <1>8, <2>2, <2>5
<1>11. answer.totalRepaid = totalRepaid
  <2>1. CASE scored
    BY <1>8, <2>1
  <2>2. CASE ~scored
    <3>1. Of("LoanRepaid") = {}
      BY <1>3, <2>2
    <3>2. totalRepaid = 0
      BY <3>1, TotalZero DEF totalRepaid, SumOf
    <3> QED BY <1>8, <2>2, <3>2
  <2> QED BY <2>1, <2>2
<1>12. totalRepaid = principal + getBorrowerLoans.accrued - getBorrowerLoans.totalOwed
  <2>1. PICK p \in Nat : p = principal
    BY LoanFigures
  <2>2. PICK r \in Nat : r = totalRepaid
    BY LoanFigures
  <2>3. NotNegative(p - r) \in Int /\ NotNegative(indexedLedger - approvedLedger) \in Int
    BY LoanFigures DEF NotNegative
  <2>4. PICK a \in Nat : a = accrueInterest(NotNegative(p - r), NotNegative(indexedLedger - approvedLedger))
    BY <2>3, AccruedNat
  <2>5. getBorrowerLoans.accrued = a /\ getBorrowerLoans.totalOwed = p + a - r
    BY <2>1, <2>2, <2>4 DEF getBorrowerLoans
  <2> QED BY <2>1, <2>2, <2>5
<1> QED BY <1>3, <1>7, <1>9, <1>10, <1>11, <1>12 DEF CountsAgree, answer

(* The streaks of a history, row by row.                                   *)
StreakSteps(f, h) ==
    f = [n \in 0 .. Len(h) |->
            IF n = 0 THEN [current |-> 0, longest |-> 0]
            ELSE LET temp == IF Repays(h, n) THEN f[n - 1].current + 1 ELSE 0
                 IN  [current |-> temp,
                      longest |-> IF temp > f[n - 1].longest THEN temp ELSE f[n - 1].longest]]

(* The recursive function that streaks reads exists.                       *)
LEMMA StreaksExist ==
    ASSUME NEW h, Len(h) \in Nat
    PROVE  \E f : StreakSteps(f, h) /\ streaks(h) = f[Len(h)]
<1>1. PICK m \in Nat : m = Len(h)
  OBVIOUS
<1>2. PICK T : T = [current : Int, longest : Int]
  OBVIOUS
<1>3. PICK base : base = [current |-> 0, longest |-> 0]
  OBVIOUS
<1>4. base \in T
  BY <1>2, <1>3
<1> DEFINE next(v, n) ==
               LET temp == IF Repays(h, n) THEN v.current + 1 ELSE 0
               IN  [current |-> temp, longest |-> IF temp > v.longest THEN temp ELSE v.longest]
           step == [n \in 1 .. m |-> [v \in T |-> next(v, n)]]
<1>5. ASSUME NEW v \in T, NEW n \in 1 .. m PROVE next(v, n) \in T
  <2>1. v.current \in Int /\ v.longest \in Int
    BY <1>2
  <2>2. PICK temp \in Int : temp = IF Repays(h, n) THEN v.current + 1 ELSE 0
    BY <2>1
  <2>3. PICK top \in Int : top = IF temp > v.longest THEN temp ELSE v.longest
    BY <2>1
  <2>4. next(v, n) = [current |-> temp, longest |-> top]
    BY <2>2, <2>3
  <2> QED BY <1>2, <2>4
<1>6. step \in [1 .. m -> [T -> T]]
  BY <1>5
<1>7. \A v \in T, n \in 1 .. m : step[n][v] = next(v, n)
  OBVIOUS
<1>8. PICK st \in [1 .. m -> [T -> T]] : st = step
  BY <1>6
<1> HIDE DEF step, next
<1>9. PICK f \in [0 .. m -> T] : f[0] = base /\ \A n \in 1 .. m : f[n] = st[n][f[n - 1]]
  BY ONLY <1>4, m \in Nat, st \in [1 .. m -> [T -> T]], Recursion
<1>10. f = [n \in 0 .. m |-> IF n = 0 THEN base ELSE next(f[n - 1], n)]
  <2> SUFFICES ASSUME NEW n \in 0 .. m PROVE f[n] = IF n = 0 THEN base ELSE next(f[n - 1], n)
    BY <1>9
  <2>1. CASE n = 0
    BY <1>9, <2>1
  <2>2. CASE n # 0
    <3>1. n \in 1 .. m /\ f[n - 1] \in T
      BY <1>9, <2>2
    <3> QED BY <1>7, <1>8, <1>9, <2>2, <3>1
  <2> QED BY <2>1, <2>2
<1>11. StreakSteps(f, h)
  BY <1>1, <1>3, <1>10 DEF StreakSteps, next
<1>12. streaks(h) = (CHOOSE g : StreakSteps(g, h))[Len(h)]
  BY DEF streaks, StreakSteps
<1> QED BY <1>11, <1>12

(* After n closings: the current streak is the run of repayments that ends *)
(* with them, the longest one a run, and no run is longer.                 *)
StreakEnds(h, n, c) ==
    /\ c \in 0 .. n
    /\ \A k \in n - c + 1 .. n : Repays(h, k)
    /\ c < n => ~Repays(h, n - c)
LongestOf(h, n, l) ==
    /\ l \in Nat
    /\ \A i, j \in 1 .. n : (\A k \in i .. j : Repays(h, k)) => j - i + 1 <= l
    /\ l > 0 => \E i, j \in 1 .. n : (\A k \in i .. j : Repays(h, k)) /\ j - i + 1 = l

(* After every row the streaks are those of the rows so far.               *)
LEMMA StreakInduction ==
    ASSUME NEW h, NEW m \in Nat, m = Len(h)
    PROVE  StreakEnds(h, m, streaks(h).current) /\ LongestOf(h, m, streaks(h).longest)
<1>1. PICK f : StreakSteps(f, h) /\ streaks(h) = f[m]
  BY StreaksExist
<1> DEFINE S == {n \in 0 .. m : StreakEnds(h, n, f[n].current) /\ LongestOf(h, n, f[n].longest)}
<1>2. 0 \in S
  <2>1. f[0] = [current |-> 0, longest |-> 0]
    BY <1>1 DEF StreakSteps
  <2>2. f[0].current = 0 /\ f[0].longest = 0
    BY <2>1
  <2> QED BY <2>2 DEF StreakEnds, LongestOf
<1>3. ASSUME NEW n \in 1 .. m, n - 1 \in S PROVE n \in S
  <2>1. PICK o \in 0 .. m : o = n - 1
    OBVIOUS
  <2>2. PICK c \in 0 .. o : c = f[o].current /\ StreakEnds(h, o, c)
    BY <1>3, <2>1 DEF StreakEnds
  <2>3. PICK l \in Nat : l = f[o].longest /\ LongestOf(h, o, l)
    BY <1>3, <2>1 DEF LongestOf
  <2>4. PICK temp \in Nat : temp = IF Repays(h, n) THEN c + 1 ELSE 0
    OBVIOUS
  <2>5. PICK top \in Nat : top = IF temp > l THEN temp ELSE l
    OBVIOUS
  <2>6. f[n] = [current |-> temp, longest |-> top]
    <3>1. n \in 0 .. m /\ n # 0
      OBVIOUS
    <3> QED BY <1>1, <2>1, <2>2, <2>3, <2>4, <2>5, <3>1 DEF StreakSteps
  <2>7. f[n].current = temp /\ f[n].longest = top
    BY <2>6
  <2>8. StreakEnds(h, n, temp)
    <3>1. CASE Repays(h, n)
      <4>1. temp = c + 1
        BY <2>4, <3>1
      <4>2. \A k \in n - temp + 1 .. n : Repays(h, k)
        <5> SUFFICES ASSUME NEW k \in n - temp + 1 .. n PROVE Repays(h, k)
          OBVIOUS
        <5>1. CASE k = n
          BY <3>1, <5>1
        <5>2. CASE k # n
          <6>1. k \in o - c + 1 .. o
            BY <2>1, <4>1, <5>2
          <6> QED BY <2>2, <6>1 DEF StreakEnds
        <5> QED BY <5>1, <5>2
      <4>3. temp < n => ~Repays(h, n - temp)
        <5>1. n - temp = o - c /\ (temp < n => c < o)
          BY <2>1, <4>1
        <5> QED BY <2>2, <5>1 DEF StreakEnds
      <4>4. temp \in 0 .. n
        BY <2>1, <4>1
      <4> QED BY <4>2, <4>3, <4>4 DEF StreakEnds
    <3>2. CASE ~Repays(h, n)
      <4>1. temp = 0
        BY <2>4, <3>2
      <4>2. n - temp = n /\ n - temp + 1 .. n = {} /\ temp \in 0 .. n
        BY <4>1
      <4> QED BY <3>2, <4>2 DEF StreakEnds
    <3> QED BY <3>1, <3>2
  <2>9. LongestOf(h, n, top)
    <3>1. ASSUME NEW i \in 1 .. n, NEW j \in 1 .. n, \A k \in i .. j : Repays(h, k)
          PROVE  j - i + 1 <= top
      <4>1. CASE j = n
        <5>1. Repays(h, n)
          BY <3>1, <4>1
        <5>2. temp = c + 1
          BY <2>4, <5>1
        <5>3. i >= n - temp + 1
          <6> SUFFICES ASSUME ~(i >= n - temp + 1) PROVE FALSE
            OBVIOUS
          <6>1. c < o /\ o - c \in i .. j
            BY <2>1, <4>1, <5>2
          <6>2. ~Repays(h, o - c)
            BY <2>2, <6>1 DEF StreakEnds
          <6> QED BY <3>1, <6>1, <6>2
        <5> QED BY <2>5, <4>1, <5>3
      <4>2. CASE j # n /\ i = n
        BY <2>5, <4>2
      <4>3. CASE j # n /\ i # n
        <5>1. i \in 1 .. o /\ j \in 1 .. o
          BY <2>1, <4>3
        <5>2. j - i + 1 <= l
          BY <2>3, <3>1, <5>1 DEF LongestOf
        <5> QED BY <2>5, <5>2
      <4> QED BY <4>1, <4>2, <4>3
    <3>2. ASSUME top > 0
          PROVE  \E i, j \in 1 .. n : (\A k \in i .. j : Repays(h, k)) /\ j - i + 1 = top
      <4>1. CASE temp > l
        <5>1. top = temp /\ temp > 0
          BY <2>5, <4>1
        <5>2. temp \in 1 .. n /\ \A k \in n - temp + 1 .. n : Repays(h, k)
          BY <2>8, <5>1 DEF StreakEnds
        <5>3. n - temp + 1 \in 1 .. n /\ n \in 1 .. n /\ n - (n - temp + 1) + 1 = top
          BY <5>1, <5>2
        <5> QED BY <5>2, <5>3
      <4>2. CASE ~(temp > l)
        <5>1. top = l /\ l > 0
          BY <2>5, <3>2, <4>2
        <5>2. PICK i \in 1 .. o, j \in 1 .. o : (\A k \in i .. j : Repays(h, k)) /\ j - i + 1 = l
          BY <2>3, <5>1 DEF LongestOf
        <5>3. i \in 1 .. n /\ j \in 1 .. n
          BY <2>1
        <5> QED BY <5>1, <5>2, <5>3
      <4> QED BY <4>1, <4>2
    <3> QED BY <3>1, <3>2 DEF LongestOf
  <2> QED BY <2>7, <2>8, <2>9
<1>4. 0 .. m \subseteq S
  BY <1>2, <1>3, CountUp
<1>5. m \in S
  BY <1>4
<1> QED BY <1>1, <1>5

(* Rows of one ledger come in any order, but the last of them all closes   *)
(* the loan's latest ledger: a later default is never before a repayment.  *)
LEMMA StreaksRight ==
    ASSUME LoanViewInv, NEW h \in Histories
    PROVE  StreaksAgree(h)
<1>1. PICK m \in Nat : m = Len(indexed) /\ DOMAIN indexed = 1 .. m
  BY DEF LoanViewInv, LoanViewTyped
<1>2. PICK closings : closings = Of("LoanRepaid") \cup Of("LoanDefaulted")
  OBVIOUS
<1>3. closings \in SUBSET (1 .. m)
  BY <1>1, <1>2 DEF Of
<1>4. IsFiniteSet(closings)
  <2>1. IsFiniteSet(1 .. m)
    BY FS_Interval
  <2> QED BY <1>3, <2>1, FS_Subset
<1>5. PICK z \in Nat : z = Cardinality(closings)
  BY <1>4, FS_CardinalityType
<1>6. /\ h \in [1 .. z -> closings] /\ \A e \in closings : \E i \in 1 .. z : h[i] = e
      /\ \A i, j \in 1 .. z : i < j => indexed[h[i]].ledger <= indexed[h[j]].ledger
  BY <1>2, <1>5 DEF Histories, Bijection, Injection, Surjection
<1>7. Len(h) = z
  <2>1. h \in Seq(closings)
    BY <1>6
  <2> QED BY <1>6, <2>1
<1>8. StreakEnds(h, z, streaks(h).current) /\ LongestOf(h, z, streaks(h).longest)
  BY <1>7, StreakInduction
<1>9. PICK l \in Nat : l = streaks(h).longest /\ LongestOf(h, z, l)
  BY <1>8 DEF LongestOf
<1> DEFINE runs == {x[2] - x[1] + 1 : x \in
                     {run \in (1 .. z) \X (1 .. z) : \A k \in run[1] .. run[2] : Repays(h, k)}}
<1>10. l \in runs \cup {0} /\ \A x \in runs \cup {0} : x \in Int /\ x <= l
  <2>1. \A i, j \in 1 .. z : (\A k \in i .. j : Repays(h, k)) => j - i + 1 <= l
    BY <1>9 DEF LongestOf
  <2>2. ASSUME NEW x \in runs PROVE x \in Int /\ x <= l
    <3>1. PICK run \in (1 .. z) \X (1 .. z) :
              (\A k \in run[1] .. run[2] : Repays(h, k)) /\ x = run[2] - run[1] + 1
      OBVIOUS
    <3>2. PICK i \in 1 .. z, j \in 1 .. z : i = run[1] /\ j = run[2]
      OBVIOUS
    <3>3. \A k \in i .. j : Repays(h, k)
      BY <3>1, <3>2
    <3>4. x = j - i + 1
      BY <3>1, <3>2
    <3>5. j - i + 1 <= l
      BY <2>1, <3>3
    <3> HIDE DEF runs
    <3> QED BY <3>4, <3>5
  <2>3. CASE l = 0
    BY <2>2, <2>3
  <2>4. CASE l # 0
    <3>1. PICK i \in 1 .. z, j \in 1 .. z : (\A k \in i .. j : Repays(h, k)) /\ j - i + 1 = l
      BY <1>9, <2>4 DEF LongestOf
    <3>2. <<i, j>> \in {run \in (1 .. z) \X (1 .. z) : \A k \in run[1] .. run[2] : Repays(h, k)}
      BY <3>1
    <3>3. l \in runs
      BY <3>1, <3>2
    <3> QED BY <2>2, <2>4, <3>3
  <2> QED BY <2>3, <2>4
<1> HIDE DEF runs
<1>11. Max(runs \cup {0}) = l
  <2>1. \E x \in runs \cup {0} : \A y \in runs \cup {0} : x >= y
    BY <1>10
  <2>2. PICK x : x = Max(runs \cup {0})
    OBVIOUS
  <2>3. x \in runs \cup {0} /\ \A y \in runs \cup {0} : x >= y
    BY <2>1, <2>2, Zenon DEF Max
  <2>4. x \in Int /\ x <= l /\ x >= l
    BY <1>10, <2>3
  <2> QED BY <2>2, <2>4
<1>12. ASSUME NEW e \in Of("LoanDefaulted"),
              \A r \in Of("LoanRepaid") : indexed[r].ledger < indexed[e].ledger
       PROVE  streaks(h).current = 0
  <2>1. PICK i \in 1 .. z : h[i] = e
    BY <1>2, <1>6
  <2>2. z \in 1 .. z /\ h[z] \in closings
    BY <1>6, <2>1
  <2>3. \A r \in closings : indexed[r].ledger \in Nat
    <3>1. \A r \in closings : indexed[r] \in LoanEvents
      BY <1>1, <1>3 DEF LoanViewInv, LoanViewTyped
    <3> QED BY <3>1 DEF LoanEvents
  <2>4. indexed[e].ledger <= indexed[h[z]].ledger
    <3>1. CASE i = z
      <4>1. indexed[e].ledger \in Nat
        BY <1>2, <2>3
      <4> QED BY <2>1, <3>1, <4>1
    <3>2. CASE i # z
      BY <1>6, <2>1, <2>2, <3>2
    <3> QED BY <3>1, <3>2
  <2>5. h[z] \notin Of("LoanRepaid")
    <3> SUFFICES ASSUME h[z] \in Of("LoanRepaid") PROVE FALSE
      OBVIOUS
    <3>1. indexed[h[z]].ledger < indexed[e].ledger
      BY <1>12
    <3>2. indexed[h[z]].ledger \in Nat /\ indexed[e].ledger \in Nat
      BY <1>2, <2>2, <2>3
    <3> QED BY <2>4, <3>1, <3>2
  <2>6. ~Repays(h, z)
    <3>1. h[z] \in DOMAIN indexed
      BY <1>1, <1>3, <2>2
    <3> QED BY <2>5, <3>1 DEF Repays, Of
  <2>7. PICK c \in 0 .. z : c = streaks(h).current /\ StreakEnds(h, z, c)
    BY <1>8 DEF StreakEnds
  <2>8. c = 0
    <3> SUFFICES ASSUME c # 0 PROVE FALSE
      OBVIOUS
    <3>1. z \in z - c + 1 .. z
      OBVIOUS
    <3> QED BY <2>6, <2>7, <3>1 DEF StreakEnds
  <2> QED BY <2>7, <2>8
<1> QED BY <1>7, <1>9, <1>11, <1>12 DEF StreaksAgree, runs

(* What the borrower's list, the detail and the breakdown say agrees.      *)
LEMMA LoanViewsRight == LoanViewInv => LoanViewsAgree
BY ListAndDetailAgree, CountsRight, StreaksRight DEF LoanViewsAgree, BreakdownAgrees

------------------------------------------------------------------------------
(* The amortization schedules.  What they pay out and the amount rounded   *)
(* at once are two roundings of it to the nearest cent.                    *)

(* An amount to the cent: the nearest number of cents.                     *)
CentsOf(v, n, q) ==
    /\ q \in Int /\ roundToCents(v, n) = q
    /\ 200000 * (q * n) <= 2 * v + 100000 * n /\ 2 * v <= 200000 * (q * n) + 100000 * n
    /\ 200000 * (q * n) = 2 * v + 100000 * n => q % 2 = 0

(* There is always one.                                                    *)
LEMMA NearestCents ==
    ASSUME NEW v \in Int, NEW n \in Nat \ {0}
    PROVE  \E q : CentsOf(v, n, q)
<1>1. PICK d \in Nat \ {0} : d = n * Cent /\ d = n * 100000
  BY DEF Cent
<1>2. PICK q : q = roundDiv(v, d, DEFAULT_MODE)
  OBVIOUS
<1>3. /\ q \in Int /\ q * d \in Int
      /\ 2 * (q * d) <= 2 * v + d /\ 2 * v <= 2 * (q * d) + d
      /\ 2 * (q * d) = 2 * v + d \/ 2 * v = 2 * (q * d) + d => q % 2 = 0
  BY <1>2, NearestOf
<1>4. PICK p \in Int : p = q * n
  BY <1>3
<1>5. q * d = 100000 * p
  BY <1>1, <1>3, <1>4
<1>6. roundToCents(v, n) = q
  BY <1>1, <1>2 DEF roundToCents
<1>7. /\ 200000 * p <= 2 * v + d /\ 2 * v <= 200000 * p + d
      /\ 200000 * p = 2 * v + d => q % 2 = 0
  BY <1>3, <1>5
<1>8. CentsOf(v, n, q)
  BY <1>1, <1>3, <1>4, <1>6, <1>7 DEF CentsOf
<1> QED BY <1>8

(* A whole number of cents is left as it is.                               *)
LEMMA WholeCents ==
    ASSUME NEW y \in Int
    PROVE  roundToCents(100000 * y, 1) = y
<1>1. PICK v \in Int : v = 100000 * y
  OBVIOUS
<1>2. PICK q : CentsOf(v, 1, q)
  BY NearestCents
<1>3. q = y
  BY <1>1, <1>2 DEF CentsOf
<1> QED BY <1>1, <1>2, <1>3 DEF CentsOf

(* What is left of an amount before each period.                           *)
Lefts(f, amount, share, periods) ==
    f = [i \in 0 .. periods |->
            IF i = 0 THEN amount ELSE Cent * roundToCents(f[i - 1] - Cent * share, 1)]

(* The recursion of buildAmortizationSchedule has a solution.              *)
LEMMA LeftsExist ==
    ASSUME NEW x \in Int, NEW share \in Int, NEW m \in Nat
    PROVE  \E f \in [0 .. m -> Int] : Lefts(f, x, share, m)
<1>1. PICK T : T = Int
  OBVIOUS
<1>2. PICK base : base = x
  OBVIOUS
<1>3. base \in T
  BY <1>1, <1>2
<1> DEFINE step == [n \in 1 .. m |-> [y \in T |-> Cent * roundToCents(y - Cent * share, 1)]]
<1>4. step \in [1 .. m -> [T -> T]]
  <2>1. ASSUME NEW y \in T PROVE Cent * roundToCents(y - Cent * share, 1) \in T
    <3>1. PICK v \in Int : v = y - Cent * share
      BY <1>1 DEF Cent
    <3>2. PICK q : CentsOf(v, 1, q)
      BY NearestCents
    <3> QED BY <1>1, <3>1, <3>2 DEF CentsOf, Cent
  <2> QED BY <2>1
<1>5. \A n \in 1 .. m, y \in T : step[n][y] = Cent * roundToCents(y - Cent * share, 1)
  OBVIOUS
<1>6. PICK st \in [1 .. m -> [T -> T]] : st = step
  BY <1>4
<1> HIDE DEF step
<1>7. PICK f \in [0 .. m -> T] : f[0] = base /\ \A n \in 1 .. m : f[n] = st[n][f[n - 1]]
  BY ONLY <1>3, m \in Nat, st \in [1 .. m -> [T -> T]], Recursion
<1>8. f = [n \in 0 .. m |-> IF n = 0 THEN x ELSE Cent * roundToCents(f[n - 1] - Cent * share, 1)]
  <2>1. ASSUME NEW n \in 0 .. m
        PROVE  f[n] = IF n = 0 THEN x ELSE Cent * roundToCents(f[n - 1] - Cent * share, 1)
    <3>1. CASE n = 0
      BY <1>2, <1>7, <3>1
    <3>2. CASE n # 0
      <4>1. n \in 1 .. m /\ n - 1 \in 0 .. m
        BY <3>2
      <4>2. f[n - 1] \in T
        BY <1>7, <4>1
      <4> QED BY <1>5, <1>6, <1>7, <3>2, <4>1, <4>2
    <3> QED BY <3>1, <3>2
  <2> QED BY <1>7, <2>1
<1> QED BY <1>1, <1>8 DEF Lefts

(* From the first share on only whole cents are taken from whole cents, so *)
(* nothing more is rounded.                                                *)
LEMMA SchedulePortions ==
    ASSUME NEW x \in Int, NEW n \in Nat, n >= 2, NEW s \in Int, roundToCents(x, n) = s,
           NEW q \in Int, roundToCents(x - 100000 * s, 1) = q
    PROVE  buildAmortizationSchedule(x, n)
               = [i \in 1 .. n |-> IF i = n THEN q - (n - 2) * s ELSE s]
<1>1. PICK share \in Int : share = s
  OBVIOUS
<1>0. Cent = 100000
  BY DEF Cent
<1>2. PICK left : left = CHOOSE f : Lefts(f, x, share, n)
  OBVIOUS
<1>3. Lefts(left, x, share, n)
  BY <1>2, LeftsExist
<1>4. left = [i \in 0 .. n |-> IF i = 0 THEN x ELSE Cent * roundToCents(left[i - 1] - Cent * share, 1)]
  BY <1>3 DEF Lefts
<1> DEFINE Good == {i \in 0 .. n : i >= 1 => left[i] = 100000 * (q - (i - 1) * s)}
<1>5. 0 \in Good
  OBVIOUS
<1>6. ASSUME NEW i \in 1 .. n, i - 1 \in Good PROVE i \in Good
  <2>1. left[i] = 100000 * roundToCents(left[i - 1] - 100000 * share, 1)
    BY <1>0, <1>4
  <2>2. CASE i = 1
    <3>1. left[0] = x
      BY <1>4
    <3>2. left[1] = 100000 * q
      BY <1>1, <2>1, <2>2, <3>1
    <3>3. q - (1 - 1) * s = q
      OBVIOUS
    <3> QED BY <2>2, <3>2, <3>3
  <2>3. CASE i # 1
    <3>1. i - 1 >= 1 /\ (i - 1) - 1 = i - 2
      BY <2>3
    <3>2. PICK y \in Int : y = q - (i - 2) * s
      OBVIOUS
    <3>3. left[i - 1] = 100000 * y
      BY <1>6, <3>1, <3>2
    <3>4. 100000 * y - 100000 * share = 100000 * (y - s)
      BY <1>1
    <3>5. y - s \in Int
      OBVIOUS
    <3>6. left[i] = 100000 * (y - s)
      <4>1. PICK w \in Int : w = y - s
        OBVIOUS
      <4>2. left[i - 1] - 100000 * share = 100000 * w
        BY <3>3, <3>4, <4>1
      <4>3. roundToCents(100000 * w, 1) = w
        BY WholeCents
      <4> QED BY <2>1, <4>1, <4>2, <4>3
    <3>7. y - s = q - (i - 1) * s
      BY <3>2
    <3> QED BY <3>6, <3>7
  <2> QED BY <2>2, <2>3
<1> HIDE DEF Good
<1>7. 0 .. n \subseteq Good
  BY <1>5, <1>6, CountUp
<1>8. n - 1 \in 0 .. n /\ n - 1 >= 1 /\ (n - 1) - 1 = n - 2
  OBVIOUS
<1>9. PICK y \in Int : y = q - (n - 2) * s
  OBVIOUS
<1>10. left[n - 1] = 100000 * y
  BY <1>7, <1>8, <1>9 DEF Good
<1>11. roundToCents(left[n - 1], 1) = y
  BY <1>10, WholeCents
<1>12. buildAmortizationSchedule(x, n)
           = [i \in 1 .. n |-> IF i = n THEN roundToCents(left[i - 1], 1) ELSE share]
  BY <1>1, <1>2 DEF buildAmortizationSchedule, Lefts
<1> QED BY <1>1, <1>9, <1>11, <1>12

(* The sum of equal portions and a last one.                               *)
LEMMA EqualPortions ==
    ASSUME NEW n \in Nat \ {0}, NEW c \in Nat, NEW z \in Int,
           NEW f, f = [i \in 1 .. n |-> IF i = n THEN z ELSE c]
    PROVE  SignedTotal(f, DOMAIN f) = c * (n - 1) + z
<1>1. PICK S : S = 1 .. n
  OBVIOUS
<1>2. IsFiniteSet(S) /\ Cardinality(S) = n /\ n \in S
  BY <1>1, FS_Interval
<1>3. PICK u : u = [a \in S |-> IF a \in S THEN 1 ELSE 0]
  OBVIOUS
<1>4. PICK g : g = [a \in S |-> c]
  OBVIOUS
<1>5. /\ u \in [S -> Nat] /\ g \in [S -> Nat] /\ g \in [S -> Int]
      /\ \A a \in S : g[a] = c * u[a]
  BY <1>3, <1>4
<1>6. S \in SUBSET S
  OBVIOUS
<1>7. Total(u, S) = n
  BY <1>2, <1>3, <1>6, TotalOfUnits
<1>8. Total(g, S) = c * n
  <2>1. PICK k : k = c
    OBVIOUS
  <2>2. /\ IsFiniteSet(S) /\ u \in [S -> Nat] /\ g \in [S -> Nat] /\ k \in Nat
        /\ \A a \in S : g[a] = k * u[a]
    BY <1>2, <1>5, <2>1
  <2>3. Total(g, S) = k * Total(u, S)
    BY ONLY <2>2, TotalOfMultiples
  <2> QED BY <1>7, <2>1, <2>3
<1>9. SignedTotal(g, S) = c * n
  BY <1>2, <1>5, <1>8, SignedTotalOfNat
<1>10. f \in [S -> Int] /\ DOMAIN f = S /\ f[n] = z /\ g[n] = c
       /\ \A a \in S \ {n} : f[a] = g[a]
  BY <1>1, <1>2, <1>4
<1>11. SignedTotal(f, S) = SignedTotal(g, S) - g[n] + f[n]
  <2>1. PICK x : x = n
    OBVIOUS
  <2>2. /\ IsFiniteSet(S) /\ g \in [S -> Int] /\ x \in S /\ f \in [S -> Int]
        /\ \A a \in S \ {x} : f[a] = g[a]
    BY <1>2, <1>5, <1>10, <2>1
  <2>3. SignedTotal(f, S) = SignedTotal(g, S) - g[x] + f[x]
    BY ONLY <2>2, SignedTotalUpdate
  <2> QED BY <2>1, <2>3
<1>12. PICK p \in Int : p = c * n
  OBVIOUS
<1>13. c * (n - 1) = p - c
  BY <1>12
<1> QED BY <1>9, <1>10, <1>11, <1>12, <1>13

(* Paid in one portion, an amount is only rounded.                         *)
LEMMA OnePortionPaysOut ==
    ASSUME NEW x \in Nat
    PROVE  PaysOut(x, buildAmortizationSchedule(x, 1))
<1>12. PICK q : CentsOf(x, 1, q)
  BY NearestCents
<1>1. q \in Int /\ roundToCents(x, 1) = q /\ 2 * x <= 200000 * q + 100000
  BY <1>12 DEF CentsOf
<1>2. PICK left : left = CHOOSE f : Lefts(f, x, roundToCents(x, 1), 1)
  OBVIOUS
<1>3. Lefts(left, x, roundToCents(x, 1), 1)
  <2>1. PICK share \in Int : share = roundToCents(x, 1)
    BY <1>1
  <2>2. PICK m \in Nat : m = 1
    OBVIOUS
  <2>3. PICK f : Lefts(f, x, share, m)
    <3>1. x \in Int
      OBVIOUS
    <3>2. \E f \in [0 .. m -> Int] : Lefts(f, x, share, m)
      BY ONLY <3>1, share \in Int, m \in Nat, LeftsExist
    <3> QED BY <3>2
  <2> QED BY <1>2, <2>1, <2>2, <2>3
<1>4. left[0] = x
  BY <1>3 DEF Lefts
<1>5. PICK f : f = buildAmortizationSchedule(x, 1)
  OBVIOUS
<1>6. f = [i \in 1 .. 1 |-> IF i = 1 THEN roundToCents(left[i - 1], 1) ELSE roundToCents(x, 1)]
  BY <1>2, <1>5 DEF buildAmortizationSchedule, Lefts
<1>7. PICK z \in Int : z = q /\ z >= 0 /\ z = roundToCents(x, 1)
  BY <1>1
<1>8. f = [i \in 1 .. 1 |-> IF i = 1 THEN z ELSE 0]
  BY <1>4, <1>6, <1>7
<1>9. SignedTotal(f, DOMAIN f) = z
  <2>1. PICK n \in Nat \ {0}, c \in Nat : n = 1 /\ c = 0
    OBVIOUS
  <2>2. SignedTotal(f, DOMAIN f) = c * (n - 1) + z
    <3>1. /\ n \in Nat \ {0} /\ c \in Nat /\ z \in Int
          /\ f = [i \in 1 .. n |-> IF i = n THEN z ELSE c]
      BY <1>8, <2>1
    <3> QED BY ONLY <3>1, EqualPortions
  <2> QED BY <2>1, <2>2
<1>10. AbsOf(SignedTotal(f, DOMAIN f) - roundToCents(x, 1)) = 0
  BY <1>7, <1>9 DEF AbsOf
<1>11. \A i \in DOMAIN f : f[i] >= 0
  BY <1>7, <1>8
<1> QED BY <1>5, <1>10, <1>11 DEF PaysOut, Cent

(* Paid in more, the portions are those of the first share and of what the *)
(* rest is rounded to: two roundings to the nearest, which differ from the *)
(* one of the whole only when both are ties.                               *)
LEMMA ManyPortionsPayOut ==
    ASSUME NEW x \in Nat, NEW n \in Nat, n >= 2
    PROVE  PaysOut(x, buildAmortizationSchedule(x, n))
<1>1. PICK s \in Int : /\ roundToCents(x, n) = s
                       /\ 200000 * (s * n) <= 2 * x + 100000 * n /\ 2 * x <= 200000 * (s * n) + 100000 * n
                       /\ 200000 * (s * n) = 2 * x + 100000 * n => s % 2 = 0
  <2>1. PICK c : CentsOf(x, n, c)
    BY NearestCents
  <2> QED BY <2>1 DEF CentsOf
<1>2. PICK rest \in Int : rest = x - 100000 * s
  OBVIOUS
<1>3. PICK q \in Int : /\ roundToCents(rest, 1) = q
                       /\ 200000 * q <= 2 * rest + 100000 /\ 2 * rest <= 200000 * q + 100000
  <2>1. PICK c : CentsOf(rest, 1, c)
    BY NearestCents
  <2> QED BY <2>1 DEF CentsOf
<1>4. PICK r \in Int : /\ roundToCents(x, 1) = r
                       /\ 200000 * r <= 2 * x + 100000 /\ 2 * x <= 200000 * r + 100000
  <2>1. PICK c : CentsOf(x, 1, c)
    BY NearestCents
  <2> QED BY <2>1 DEF CentsOf
<1>5. s \in Nat
  <2>1. s < 0 => s * n <= -n
    OBVIOUS
  <2>2. PICK p \in Int : p = s * n
    OBVIOUS
  <2> QED BY <1>1, <2>1, <2>2
<1>6. PICK f : f = buildAmortizationSchedule(x, n)
  OBVIOUS
<1>7. PICK z \in Int : z = q - (n - 2) * s
  OBVIOUS
<1>8. PICK c \in Nat : c = s
  BY <1>5
<1>9. f = [i \in 1 .. n |-> IF i = n THEN z ELSE c]
  BY <1>1, <1>2, <1>3, <1>6, <1>7, <1>8, SchedulePortions
<1>10. SignedTotal(f, DOMAIN f) = c * (n - 1) + z
  BY <1>9, EqualPortions
<1>11. c * (n - 1) + z = s + q
  <2>1. PICK p \in Int : p = (n - 2) * s
    OBVIOUS
  <2>2. c * (n - 1) = p + s
    BY <1>8, <2>1
  <2> QED BY <1>7, <2>1, <2>2
<1>12. PICK sum \in Int : sum = s + q /\ sum = SignedTotal(f, DOMAIN f)
  BY <1>10, <1>11
<1>13. AbsOf(sum - r) <= IF x % Cent = Cent \div 2 THEN 1 ELSE 0
  <2>1. Cent = 100000 /\ Cent \div 2 = 50000
    BY DEF Cent
  <2>2. PICK gap \in Int : gap = s + q - r
    OBVIOUS
  <2>3. sum - r = gap
    BY <1>12, <2>2
  <2>4. gap \in -1 .. 1
    BY <1>2, <1>3, <1>4, <2>2
  <2>5. gap # 0 => x % 100000 = 50000
    <3>1. gap = 1 => x = 100000 * r + 50000
      BY <1>2, <1>3, <1>4, <2>2
    <3>2. gap = -1 => x = 100000 * (r - 1) + 50000
      BY <1>2, <1>3, <1>4, <2>2
    <3> QED BY <2>4, <3>1, <3>2
  <2> QED BY <2>1, <2>3, <2>4, <2>5 DEF AbsOf
<1>14. n <= 3 => \A i \in DOMAIN f : f[i] >= 0
  <2>1. ASSUME n <= 3 PROVE z >= 0
    <3>1. CASE n = 2
      <4>1. z = q
        BY <1>7, <3>1
      <4>2. 200000 * (s * 2) <= 2 * x + 200000
        BY <1>1, <3>1
      <4>3. q >= 0
        BY <1>2, <1>3, <1>5, <4>2
      <4> QED BY <4>1, <4>3
    <3>2. CASE n = 3
      <4>1. z = q - s
        BY <1>7, <3>2
      <4>2. 200000 * (s * 3) <= 2 * x + 300000 /\ (200000 * (s * 3) = 2 * x + 300000 => s % 2 = 0)
        BY <1>1, <3>2
      <4>3. q >= s
        BY <1>2, <1>3, <1>5, <4>2
      <4> QED BY <4>1, <4>3
    <3> QED BY <2>1, <3>1, <3>2
  <2> QED BY <1>8, <1>9, <2>1
<1>15. Len(f) = n
  BY <1>9
<1> QED BY <1>4, <1>6, <1>12, <1>13, <1>14, <1>15 DEF PaysOut

(* buildAmortizationSchedule of loanController.ts pays out any amount over *)
(* any number of periods, to the cent unless the amount is a tie and then  *)
(* to one cent; over at most three periods no portion is negative.         *)
THEOREM SchedulePaysOut ==
    ASSUME NEW x \in Nat, NEW n \in Nat \ {0}
    PROVE  PaysOut(x, buildAmortizationSchedule(x, n))
<1>1. n = 1 \/ n >= 2
  OBVIOUS
<1> QED BY <1>1, OnePortionPaysOut, ManyPortionsPayOut

(* The number of periods: one at least.                                    *)
LEMMA Periods ==
    ASSUME NEW term \in Nat
    PROVE  periodCount(term) \in Nat \ {0}
<1>0. PICK k \in Nat : k = (2 * term + PeriodLedgers) \div (2 * PeriodLedgers)
  <2>1. PICK d \in Nat \ {0} : d = 2 * PeriodLedgers
    BY LoanViewConstants
  <2>2. PICK n \in Nat : n = 2 * term + PeriodLedgers
    BY LoanViewConstants
  <2>3. n \div d \in Nat
    OBVIOUS
  <2> QED BY <2>1, <2>2, <2>3
<1>1. PICK bound \in Nat : bound = k + 1
  OBVIOUS
<1>2. PICK S : S = {1, k}
  OBVIOUS
<1>3. S \in SUBSET (0 .. bound) /\ S # {}
  BY <1>1, <1>2
<1>4. Max(S) \in S /\ \A y \in S : y <= Max(S)
  BY <1>3, MaxOfNaturals
<1>5. periodCount(term) = Max(S)
  BY <1>0, <1>2 DEF periodCount
<1> QED BY <1>2, <1>4, <1>5

(* The schedules the API shows are such schedules, of the principal that   *)
(* the log gives the loan and of its interest.                             *)
LEMMA SchedulesAddUp == LoanViewInv => ScheduleAddsUp
<1> SUFFICES ASSUME LoanViewInv PROVE ScheduleAddsUp
  OBVIOUS
<1>1. PICK p \in Nat : p = principal * 10000
  BY LoanFigures
<1>2. PICK i \in Nat : i = Interest(principal)
  BY LoanFigures, LoanViewConstants DEF Interest
<1>3. ASSUME NEW term \in Nat PROVE BothPayOut(SchedulesOf(principal, term))
  <2>1. PICK n \in Nat \ {0} : n = periodCount(term)
    BY Periods
  <2>2. SchedulesOf(principal, term)
            = <<buildAmortizationSchedule(p, n), buildAmortizationSchedule(i, n)>>
    BY <1>1, <1>2, <2>1 DEF SchedulesOf
  <2>3. PaysOut(p, buildAmortizationSchedule(p, n)) /\ PaysOut(i, buildAmortizationSchedule(i, n))
    BY SchedulePaysOut
  <2> QED BY <1>1, <1>2, <2>2, <2>3 DEF BothPayOut
<1>4. \A days \in {30, 60, 90} : (days \div 30) * PeriodLedgers \in Nat
  BY LoanViewConstants
<1>5. TermLedgers \in Nat
  BY LoanViewConstants
<1> QED BY <1>3, <1>4, <1>5
        DEF ScheduleAddsUp, previewLoanAmortizationSchedule, getLoanAmortizationSchedule

------------------------------------------------------------------------------
(* The views of the pool.  The books the contract kept after every event   *)
(* are the run that the rebuilt series repeats, up to the midnight of a    *)
(* bucket.                                                                 *)

PoolEvent == [type : {"Deposit", "Withdraw", "YieldDistributed"}, address : Depositors,
              amount : PoolAmounts, shares : PoolAmounts, at : Nat]
PoolBooks == [assets : Nat, shares : Nat, held : [Depositors -> Nat]]

PoolTyped ==
    /\ poolLog \in Seq(PoolEvent)
    /\ tick \in Nat
    /\ books \in PoolBooks
    /\ booksAt \in [0 .. tick -> PoolBooks]
    /\ \A i \in DOMAIN poolLog : poolLog[i].at <= tick

(* The books after each event of the log, from none to all; those a tick   *)
(* begins with are the ones after the events of earlier ticks.             *)
BooksFollow(h, log) ==
    /\ h \in [0 .. Len(log) -> PoolBooks]
    /\ h[0] = NoBooks
    /\ \A n \in 0 .. Len(log) : Total(h[n].held, Depositors) = h[n].shares
    /\ \A n \in 1 .. Len(log) : Allowed(h[n - 1], log[n]) /\ h[n] = Booked(h[n - 1], log[n])

BeganWith(h, log, d, b) ==
    \E k \in 0 .. Len(log) :
        /\ b = h[k]
        /\ \A i \in 1 .. Len(log) : log[i].at < d <=> i <= k

Chronicle(h, log, now, last, at) ==
    /\ BooksFollow(h, log)
    /\ last = h[Len(log)]
    /\ \A d \in 0 .. now : BeganWith(h, log, d, at[d])

PoolInv ==
    /\ PoolTyped
    /\ \E h : Chronicle(h, poolLog, tick, books, booksAt)
    /\ DashboardAgrees

------------------------------------------------------------------------------
(* What an event makes of the books.                                       *)
LEMMA BookedFacts ==
    ASSUME NEW b \in PoolBooks, NEW e \in PoolEvent, Allowed(b, e),
           Total(b.held, Depositors) = b.shares
    PROVE  /\ Booked(b, e) \in PoolBooks
           /\ Total(Booked(b, e).held, Depositors) = Booked(b, e).shares
           /\ e.type = "Deposit" =>
                 /\ Booked(b, e).assets = b.assets + e.amount
                 /\ Booked(b, e).shares = b.shares + e.shares
           /\ e.type = "Withdraw" =>
                 /\ Booked(b, e).assets = b.assets - e.amount /\ e.amount <= b.assets
                 /\ Booked(b, e).shares = b.shares - e.shares /\ e.shares <= b.shares
           /\ e.type = "YieldDistributed" =>
                 /\ Booked(b, e).assets = b.assets + e.amount
                 /\ Booked(b, e).shares = b.shares
           /\ \A a \in Depositors : Booked(b, e).held[a] =
                 IF e.type = "Deposit" /\ a = e.address THEN b.held[a] + e.shares
                 ELSE IF e.type = "Withdraw" /\ a = e.address THEN b.held[a] - e.shares
                 ELSE b.held[a]
<1>1. PICK x \in Depositors : x = e.address
  BY DEF PoolEvent
<1>2. PICK n \in Nat : n = e.amount
  BY PoolViewConstants DEF PoolEvent
<1>3. PICK s \in Nat : s = e.shares
  BY PoolViewConstants DEF PoolEvent
<1>4. PICK f \in [Depositors -> Nat] : f = b.held
  BY DEF PoolBooks
<1>5. b.assets \in Nat /\ b.shares \in Nat /\ f[x] \in Nat
  BY <1>4 DEF PoolBooks
<1>6. Total(f, Depositors) = b.shares /\ f[x] <= b.shares
  <2>1. Total(f, Depositors) = b.shares
    BY <1>4
  <2>2. f[x] <= Total(f, Depositors)
    BY PoolViewConstants, TotalBoundsPart
  <2> QED BY <2>1, <2>2
<1>7. e.type \in {"Deposit", "Withdraw", "YieldDistributed"}
  BY DEF PoolEvent
<1>8. CASE e.type = "Deposit"
  <2>1. PICK g : g = [f EXCEPT ![x] = @ + s]
    OBVIOUS
  <2>2. g \in [Depositors -> Nat] /\ g[x] = f[x] + s /\ \A a \in Depositors \ {x} : g[a] = f[a]
    BY <2>1, <1>5
  <2>3. Total(g, Depositors) = Total(f, Depositors) - f[x] + g[x]
    BY <2>2, PoolViewConstants, TotalUpdate
  <2>4. Booked(b, e) = [assets |-> b.assets + n, shares |-> b.shares + s, held |-> g]
    BY <1>1, <1>2, <1>3, <1>4, <1>8, <2>1 DEF Booked
  <2>5. Booked(b, e).assets = b.assets + n /\ Booked(b, e).shares = b.shares + s /\ Booked(b, e).held = g
    BY <2>4
  <2>6. Booked(b, e) \in PoolBooks
    BY <2>2, <2>4, <1>5 DEF PoolBooks
  <2>7. Total(g, Depositors) = b.shares + s
    BY <2>2, <2>3, <1>5, <1>6
  <2> QED BY <1>1, <1>2, <1>3, <1>4, <1>8, <2>2, <2>5, <2>6, <2>7
<1>9. CASE e.type = "Withdraw"
  <2>0. s <= f[x] /\ n <= b.assets
    BY <1>1, <1>2, <1>3, <1>4, <1>9 DEF Allowed
  <2>1. PICK g : g = [f EXCEPT ![x] = @ - s]
    OBVIOUS
  <2>2. g \in [Depositors -> Nat] /\ g[x] = f[x] - s /\ \A a \in Depositors \ {x} : g[a] = f[a]
    BY <2>0, <2>1, <1>5
  <2>3. Total(g, Depositors) = Total(f, Depositors) - f[x] + g[x]
    BY <2>2, PoolViewConstants, TotalUpdate
  <2>4. Booked(b, e) = [assets |-> b.assets - n, shares |-> b.shares - s, held |-> g]
    BY <1>1, <1>2, <1>3, <1>4, <1>9, <2>1 DEF Booked
  <2>5. Booked(b, e).assets = b.assets - n /\ Booked(b, e).shares = b.shares - s /\ Booked(b, e).held = g
    BY <2>4
  <2>6. b.assets - n \in Nat /\ b.shares - s \in Nat /\ s <= b.shares
    BY <2>0, <1>5, <1>6
  <2>7. Booked(b, e) \in PoolBooks
    BY <2>2, <2>4, <2>6 DEF PoolBooks
  <2>8. Total(g, Depositors) = b.shares - s
    BY <2>2, <2>3, <1>5, <1>6
  <2> QED BY <1>1, <1>2, <1>3, <1>4, <1>9, <2>0, <2>2, <2>5, <2>6, <2>7, <2>8
<1>10. CASE e.type = "YieldDistributed"
  <2>1. PICK m \in Nat : m = b.assets + n
    BY <1>5
  <2>2. Booked(b, e) = [b EXCEPT !.assets = m]
    BY <1>2, <1>10, <2>1 DEF Booked
  <2>3. Booked(b, e) \in PoolBooks
    BY <2>1, <2>2 DEF PoolBooks
  <2>4. Booked(b, e).assets = m
    BY <2>2 DEF PoolBooks
  <2>5. Booked(b, e).shares = b.shares /\ Booked(b, e).held = b.held
    BY <2>2 DEF PoolBooks
  <2> QED BY <1>2, <1>4, <1>10, <2>1, <2>3, <2>4, <2>5
<1> QED BY <1>7, <1>8, <1>9, <1>10

(* The dashboard's sums over any log.                                      *)
AmountIn(log, chosen) == Total([i \in chosen |-> log[i].amount], chosen)
TypeIn(log, type) == {i \in DOMAIN log : log[i].type = type}
NetIn(log, chosen) ==
    AmountIn(log, chosen \cap TypeIn(log, "Deposit")) - AmountIn(log, chosen \cap TypeIn(log, "Withdraw"))
AddressIn(log, a) == {i \in DOMAIN log : log[i].address = a}
NetEffect(e) == IF e.type = "Deposit" THEN e.amount ELSE IF e.type = "Withdraw" THEN -e.amount ELSE 0

(* One more event adds its amount to the sums that choose it.              *)
LEMMA AmountAppended ==
    ASSUME NEW log \in Seq(PoolEvent), NEW e \in PoolEvent, NEW C \in SUBSET (1 .. Len(log))
    PROVE  /\ AmountIn(log, C) \in Nat
           /\ AmountIn(Append(log, e), C) = AmountIn(log, C)
           /\ AmountIn(Append(log, e), C \cup {Len(log) + 1}) = AmountIn(log, C) + e.amount
<1>1. PICK m \in Nat : m = Len(log)
  OBVIOUS
<1>2. PICK new : new = Append(log, e)
  OBVIOUS
<1>3. new[m + 1] = e /\ \A i \in C : new[i] = log[i] /\ log[i] \in PoolEvent
  <2>1. new[m + 1] = e /\ \A i \in 1 .. m : new[i] = log[i] /\ log[i] \in PoolEvent
    BY <1>1, <1>2
  <2>2. C \subseteq 1 .. m
    BY <1>1
  <2> QED BY <2>1, <2>2
<1>4. \A x \in PoolEvent : x.amount \in Nat
  BY PoolViewConstants DEF PoolEvent
<1>5. PICK f : f = [i \in C |-> log[i].amount]
  OBVIOUS
<1>6. f \in [C -> Nat] /\ f = [i \in C |-> new[i].amount]
  BY <1>3, <1>4, <1>5
<1>7. PICK g : g = [i \in C \cup {m + 1} |-> new[i].amount]
  OBVIOUS
<1>8. g \in [C \cup {m + 1} -> Nat] /\ g[m + 1] = e.amount /\ \A i \in C : g[i] = f[i]
  BY <1>3, <1>4, <1>6, <1>7
<1>9. IsFiniteSet(C) /\ IsFiniteSet(C \cup {m + 1})
  <2>1. IsFiniteSet(1 .. m)
    BY FS_Interval
  <2>2. IsFiniteSet(C)
    BY <1>1, <2>1, FS_Subset
  <2> QED BY <2>2, FS_AddElement
<1>10. (C \cup {m + 1}) \ {m + 1} = C
  <2>1. m + 1 \notin C
    BY <1>1
  <2> QED BY <2>1
<1>11. Total(g, C \cup {m + 1}) = Total(g, C) + g[m + 1]
  BY <1>8, <1>9, <1>10, TotalSplit
<1>12. Total(g, C) = Total(f, C)
  BY <1>8, TotalSame
<1>13. Total(f, C) \in Nat
  BY <1>6, <1>9, TotalNat
<1> QED BY <1>1, <1>2, <1>5, <1>6, <1>7, <1>8, <1>11, <1>12, <1>13 DEF AmountIn

(* It adds its amount or takes it away, by its kind.                       *)
LEMMA NetAppended ==
    ASSUME NEW log \in Seq(PoolEvent), NEW e \in PoolEvent, NEW C \in SUBSET (1 .. Len(log))
    PROVE  /\ NetIn(log, C) \in Int
           /\ NetIn(Append(log, e), C) = NetIn(log, C)
           /\ NetIn(Append(log, e), C \cup {Len(log) + 1}) = NetIn(log, C) + NetEffect(e)
<1>1. PICK m \in Nat : m = Len(log) /\ DOMAIN log = 1 .. m
  OBVIOUS
<1>2. PICK new : new = Append(log, e)
  OBVIOUS
<1>3. /\ new[m + 1] = e /\ DOMAIN new = 1 .. m + 1
      /\ \A i \in 1 .. m : new[i] = log[i]
  BY <1>1, <1>2
<1>4. PICK D : D = C \cap TypeIn(log, "Deposit")
  OBVIOUS
<1>5. PICK W : W = C \cap TypeIn(log, "Withdraw")
  OBVIOUS
<1>6. D \in SUBSET (1 .. Len(log)) /\ W \in SUBSET (1 .. Len(log))
  BY <1>4, <1>5
<1>7. /\ AmountIn(log, D) \in Nat /\ AmountIn(new, D) = AmountIn(log, D)
      /\ AmountIn(new, D \cup {m + 1}) = AmountIn(log, D) + e.amount
  BY <1>1, <1>2, <1>6, AmountAppended
<1>8. /\ AmountIn(log, W) \in Nat /\ AmountIn(new, W) = AmountIn(log, W)
      /\ AmountIn(new, W \cup {m + 1}) = AmountIn(log, W) + e.amount
  BY <1>1, <1>2, <1>6, AmountAppended
<1>9. /\ C \cap TypeIn(new, "Deposit") = D
      /\ C \cap TypeIn(new, "Withdraw") = W
  BY <1>1, <1>3, <1>4, <1>5 DEF TypeIn
<1>10. /\ (C \cup {m + 1}) \cap TypeIn(new, "Deposit")
              = IF e.type = "Deposit" THEN D \cup {m + 1} ELSE D
       /\ (C \cup {m + 1}) \cap TypeIn(new, "Withdraw")
              = IF e.type = "Withdraw" THEN W \cup {m + 1} ELSE W
  <2>1. m + 1 \in 1 .. m + 1
    OBVIOUS
  <2> QED BY <1>1, <1>3, <1>4, <1>5, <2>1 DEF TypeIn
<1>11. e.amount \in Nat
  BY PoolViewConstants DEF PoolEvent
<1>12. NetIn(log, C) = AmountIn(log, D) - AmountIn(log, W)
  BY <1>4, <1>5 DEF NetIn
<1>13. NetIn(new, C) = AmountIn(new, D) - AmountIn(new, W)
  BY <1>9 DEF NetIn
<1>14. NetIn(new, C \cup {m + 1}) = NetIn(log, C) + NetEffect(e)
  <2>0. NetIn(new, C \cup {m + 1}) =
           AmountIn(new, IF e.type = "Deposit" THEN D \cup {m + 1} ELSE D)
               - AmountIn(new, IF e.type = "Withdraw" THEN W \cup {m + 1} ELSE W)
    BY <1>10 DEF NetIn
  <2>1. CASE e.type = "Deposit"
    <3>1. NetEffect(e) = e.amount
      BY <2>1 DEF NetEffect
    <3> QED BY <1>7, <1>8, <1>11, <1>12, <2>0, <2>1, <3>1
  <2>2. CASE e.type = "Withdraw"
    <3>1. NetEffect(e) = -e.amount
      BY <2>2 DEF NetEffect
    <3> QED BY <1>7, <1>8, <1>11, <1>12, <2>0, <2>2, <3>1
  <2>3. CASE e.type \notin {"Deposit", "Withdraw"}
    <3>1. NetEffect(e) = 0
      BY <2>3 DEF NetEffect
    <3> QED BY <1>7, <1>8, <1>11, <1>12, <2>0, <2>3, <3>1
  <2> QED BY <2>1, <2>2, <2>3
<1> QED BY <1>1, <1>2, <1>7, <1>8, <1>12, <1>13, <1>14

(* An event enters the books, the net total and one portfolio alike.       *)
LEMMA DashboardAppended ==
    ASSUME NEW log \in Seq(PoolEvent), NEW e \in PoolEvent, NEW b \in PoolBooks, Allowed(b, e),
           Total(b.held, Depositors) = b.shares,
           NetIn(log, DOMAIN log) = b.assets - AmountIn(log, TypeIn(log, "YieldDistributed")),
           NetIn(log, DOMAIN log)
               = SignedTotal([a \in Depositors |-> NetIn(log, AddressIn(log, a))], Depositors)
    PROVE  LET new == Append(log, e)
           IN  /\ NetIn(new, DOMAIN new)
                      = Booked(b, e).assets - AmountIn(new, TypeIn(new, "YieldDistributed"))
               /\ NetIn(new, DOMAIN new)
                      = SignedTotal([a \in Depositors |-> NetIn(new, AddressIn(new, a))], Depositors)
<1>1. PICK m \in Nat : m = Len(log) /\ DOMAIN log = 1 .. m
  OBVIOUS
<1>2. PICK new : new = Append(log, e)
  OBVIOUS
<1>3. /\ new[m + 1] = e /\ DOMAIN new = 1 .. m + 1
      /\ \A i \in 1 .. m : new[i] = log[i]
  BY <1>1, <1>2
<1>4. 1 .. m + 1 = (1 .. m) \cup {m + 1}
  BY <1>1
<1>5. /\ NetIn(log, 1 .. m) \in Int
      /\ NetIn(new, 1 .. m + 1) = NetIn(log, 1 .. m) + NetEffect(e)
  BY <1>1, <1>2, <1>4, NetAppended
<1>6. PICK Y : Y = TypeIn(log, "YieldDistributed")
  OBVIOUS
<1>7. Y \in SUBSET (1 .. Len(log))
  BY <1>1, <1>6 DEF TypeIn
<1>8. /\ AmountIn(log, Y) \in Nat /\ AmountIn(new, Y) = AmountIn(log, Y)
      /\ AmountIn(new, Y \cup {m + 1}) = AmountIn(log, Y) + e.amount
  BY <1>1, <1>2, <1>7, AmountAppended
<1>9. TypeIn(new, "YieldDistributed") = IF e.type = "YieldDistributed" THEN Y \cup {m + 1} ELSE Y
  BY <1>1, <1>3, <1>4, <1>6 DEF TypeIn
<1>10. e.amount \in Nat /\ b.assets \in Nat
  BY PoolViewConstants DEF PoolEvent, PoolBooks
<1>11. e.type \in {"Deposit", "Withdraw", "YieldDistributed"}
  BY DEF PoolEvent
<1>12. NetIn(new, 1 .. m + 1) = Booked(b, e).assets - AmountIn(new, TypeIn(new, "YieldDistributed"))
  <2>0. NetIn(log, 1 .. m) = b.assets - AmountIn(log, Y)
    BY <1>1, <1>6
  <2>1. CASE e.type = "Deposit"
    <3>1. Booked(b, e).assets = b.assets + e.amount
      BY <2>1, BookedFacts
    <3>2. NetEffect(e) = e.amount
      BY <2>1 DEF NetEffect
    <3> QED BY <1>5, <1>8, <1>9, <1>10, <2>0, <2>1, <3>1, <3>2
  <2>2. CASE e.type = "Withdraw"
    <3>1. Booked(b, e).assets = b.assets - e.amount
      BY <2>2, BookedFacts
    <3>2. NetEffect(e) = -e.amount
      BY <2>2 DEF NetEffect
    <3> QED BY <1>5, <1>8, <1>9, <1>10, <2>0, <2>2, <3>1, <3>2
  <2>3. CASE e.type = "YieldDistributed"
    <3>1. Booked(b, e).assets = b.assets + e.amount
      BY <2>3, BookedFacts
    <3>2. NetEffect(e) = 0
      BY <2>3 DEF NetEffect
    <3>3. AmountIn(new, TypeIn(new, "YieldDistributed")) = AmountIn(log, Y) + e.amount
      BY <1>8, <1>9, <2>3
    <3> QED BY <1>5, <1>8, <1>10, <2>0, <3>1, <3>2, <3>3
  <2> QED BY <1>11, <2>1, <2>2, <2>3
<1>13. PICK x \in Depositors : x = e.address
  BY DEF PoolEvent
<1>14. ASSUME NEW a \in Depositors
       PROVE  /\ NetIn(log, AddressIn(log, a)) \in Int
              /\ NetIn(new, AddressIn(new, a))
                     = IF a = x THEN NetIn(log, AddressIn(log, a)) + NetEffect(e)
                       ELSE NetIn(log, AddressIn(log, a))
  <2>1. PICK C : C = AddressIn(log, a)
    OBVIOUS
  <2>2. C \in SUBSET (1 .. Len(log))
    BY <1>1, <2>1 DEF AddressIn
  <2>3. AddressIn(new, a) = IF a = x THEN C \cup {m + 1} ELSE C
    BY <1>1, <1>3, <1>4, <1>13, <2>1 DEF AddressIn
  <2>4. /\ NetIn(log, C) \in Int
        /\ NetIn(new, C) = NetIn(log, C)
        /\ NetIn(new, C \cup {m + 1}) = NetIn(log, C) + NetEffect(e)
    BY <1>1, <1>2, <2>2, NetAppended
  <2> QED BY <2>1, <2>3, <2>4
<1>15. NetEffect(e) \in Int
  BY <1>10 DEF NetEffect
<1>16. PICK f : f = [a \in Depositors |-> NetIn(log, AddressIn(log, a))]
  OBVIOUS
<1>17. PICK g : g = [a \in Depositors |-> NetIn(new, AddressIn(new, a))]
  OBVIOUS
<1>18. f \in [Depositors -> Int]
  BY <1>14, <1>16
<1>19. /\ g \in [Depositors -> Int] /\ g[x] = f[x] + NetEffect(e)
       /\ \A a \in Depositors \ {x} : g[a] = f[a]
  BY <1>14, <1>15, <1>16, <1>17
<1>20. SignedTotal(g, Depositors) = SignedTotal(f, Depositors) - f[x] + g[x]
  BY PoolViewConstants, <1>18, <1>19, SignedTotalUpdate
<1>21. SignedTotal(f, Depositors) = NetIn(log, 1 .. m)
  BY <1>1, <1>16
<1>22. SignedTotal(g, Depositors) = NetIn(new, 1 .. m + 1)
  <2>1. f[x] \in Int
    BY <1>18
  <2> QED BY <1>5, <1>15, <1>19, <1>20, <1>21, <2>1
<1> QED BY <1>2, <1>3, <1>12, <1>17, <1>22

(* The books follow the log over one more event.                           *)
LEMMA ChronicleExtends ==
    ASSUME NEW log \in Seq(PoolEvent), NEW now \in Nat, NEW last \in PoolBooks, NEW at, NEW h,
           Chronicle(h, log, now, last, at), NEW e \in PoolEvent, e.at = now, Allowed(last, e)
    PROVE  /\ \E g : Chronicle(g, Append(log, e), now, Booked(last, e), at)
           /\ Booked(last, e) \in PoolBooks
           /\ Total(last.held, Depositors) = last.shares
<1>1. PICK m \in Nat : m = Len(log) /\ DOMAIN log = 1 .. m
  OBVIOUS
<1>2. PICK new : new = Append(log, e)
  OBVIOUS
<1>3. /\ Len(new) = m + 1 /\ new[m + 1] = e
      /\ \A i \in 1 .. m : new[i] = log[i]
  BY <1>1, <1>2
<1>4. /\ h \in [0 .. m -> PoolBooks] /\ h[0] = NoBooks /\ last = h[m]
      /\ \A n \in 0 .. m : Total(h[n].held, Depositors) = h[n].shares
      /\ \A n \in 1 .. m : Allowed(h[n - 1], log[n]) /\ h[n] = Booked(h[n - 1], log[n])
  BY <1>1 DEF Chronicle, BooksFollow
<1>5. \A d \in 0 .. now : BeganWith(h, log, d, at[d])
  BY DEF Chronicle
<1>6. Total(last.held, Depositors) = last.shares
  BY <1>4
<1>7. PICK b : b = Booked(last, e)
  OBVIOUS
<1>8. b \in PoolBooks /\ Total(b.held, Depositors) = b.shares
  BY <1>6, <1>7, BookedFacts
<1> DEFINE g == [n \in 0 .. m + 1 |-> IF n = m + 1 THEN b ELSE h[n]]
<1>9. g \in [0 .. m + 1 -> PoolBooks]
  BY <1>4, <1>8
<1>10. g[m + 1] = b /\ \A n \in 0 .. m : g[n] = h[n]
  OBVIOUS
<1> HIDE DEF g
<1>11. g[0] = NoBooks
  BY <1>4, <1>10
<1>12. \A n \in 0 .. m + 1 : Total(g[n].held, Depositors) = g[n].shares
  <2> SUFFICES ASSUME NEW n \in 0 .. m + 1 PROVE Total(g[n].held, Depositors) = g[n].shares
    OBVIOUS
  <2>1. CASE n = m + 1
    BY <1>8, <1>10, <2>1
  <2>2. CASE n # m + 1
    <3>1. n \in 0 .. m
      BY <2>2
    <3> QED BY <1>4, <1>10, <3>1
  <2> QED BY <2>1, <2>2
<1>13. \A n \in 1 .. m + 1 : Allowed(g[n - 1], new[n]) /\ g[n] = Booked(g[n - 1], new[n])
  <2> SUFFICES ASSUME NEW n \in 1 .. m + 1
               PROVE  Allowed(g[n - 1], new[n]) /\ g[n] = Booked(g[n - 1], new[n])
    OBVIOUS
  <2>1. CASE n = m + 1
    <3>1. m \in 0 .. m /\ n - 1 = m
      BY <2>1
    <3>2. g[n - 1] = last /\ new[n] = e /\ g[n] = b
      BY <1>3, <1>4, <1>10, <2>1, <3>1
    <3> QED BY <1>7, <3>2
  <2>2. CASE n # m + 1
    <3>1. n \in 1 .. m /\ n \in 0 .. m /\ n - 1 \in 0 .. m
      BY <2>2
    <3>2. g[n - 1] = h[n - 1] /\ new[n] = log[n] /\ g[n] = h[n]
      BY <1>3, <1>10, <3>1
    <3> QED BY <1>4, <3>1, <3>2
  <2> QED BY <2>1, <2>2
<1>14. \A d \in 0 .. now : BeganWith(g, new, d, at[d])
  <2> SUFFICES ASSUME NEW d \in 0 .. now PROVE BeganWith(g, new, d, at[d])
    OBVIOUS
  <2>1. PICK k \in 0 .. m : at[d] = h[k] /\ \A i \in 1 .. m : log[i].at < d <=> i <= k
    BY <1>1, <1>5 DEF BeganWith
  <2>2. k \in 0 .. m + 1 /\ at[d] = g[k]
    BY <1>10, <2>1
  <2>3. ASSUME NEW i \in 1 .. m + 1 PROVE new[i].at < d <=> i <= k
    <3>1. CASE i = m + 1
      <4>1. new[i].at = now
        BY <1>3, <3>1
      <4> QED BY <3>1, <4>1
    <3>2. CASE i # m + 1
      <4>1. i \in 1 .. m
        BY <3>2
      <4>2. new[i] = log[i]
        BY <1>3, <4>1
      <4> QED BY <2>1, <4>1, <4>2
    <3> QED BY <3>1, <3>2
  <2> QED BY <1>3, <2>2, <2>3 DEF BeganWith
<1>15. Chronicle(g, new, now, b, at)
  BY <1>3, <1>9, <1>10, <1>11, <1>12, <1>13, <1>14 DEF Chronicle, BooksFollow
<1> QED BY <1>2, <1>6, <1>7, <1>8, <1>15

(* A tick begins with the books as they are.                               *)
LEMMA ChronicleTurns ==
    ASSUME NEW log \in Seq(PoolEvent), NEW now \in Nat, NEW last, NEW at, NEW h,
           Chronicle(h, log, now, last, at), \A i \in DOMAIN log : log[i].at <= now,
           log \in Seq(PoolEvent),
           NEW after, after = [d \in 0 .. now + 1 |-> IF d <= now THEN at[d] ELSE last]
    PROVE  Chronicle(h, log, now + 1, last, after)
<1>1. PICK m \in Nat : m = Len(log) /\ DOMAIN log = 1 .. m
  OBVIOUS
<1>2. \A i \in 1 .. m : log[i].at \in Nat /\ log[i].at <= now
  <2>1. \A i \in 1 .. m : log[i] \in PoolEvent
    BY <1>1
  <2>2. \A x \in PoolEvent : x.at \in Nat
    BY DEF PoolEvent
  <2> QED BY <1>1, <2>1, <2>2
<1>3. ASSUME NEW d \in 0 .. now + 1 PROVE BeganWith(h, log, d, after[d])
  <2>1. CASE d = now + 1
    <3>1. after[d] = h[m]
      BY <1>1, <2>1 DEF Chronicle
    <3>2. \A i \in 1 .. m : log[i].at < d <=> i <= m
      BY <1>2, <2>1
    <3>3. m \in 0 .. m
      OBVIOUS
    <3> QED BY <1>1, <3>1, <3>2, <3>3 DEF BeganWith
  <2>2. CASE d # now + 1
    <3>1. d \in 0 .. now /\ after[d] = at[d]
      BY <2>2
    <3> QED BY <3>1 DEF Chronicle
  <2> QED BY <2>1, <2>2
<1> QED BY <1>3 DEF Chronicle

(* The dashboard's agreement, said of the log.                             *)
LEMMA DashboardSaid ==
    DashboardAgrees <=>
        /\ NetIn(poolLog, DOMAIN poolLog)
               = books.assets - AmountIn(poolLog, TypeIn(poolLog, "YieldDistributed"))
        /\ NetIn(poolLog, DOMAIN poolLog)
               = SignedTotal([a \in Depositors |-> NetIn(poolLog, AddressIn(poolLog, a))], Depositors)
<1>1. getPoolStats = NetIn(poolLog, DOMAIN poolLog)
  BY DEF getPoolStats, NetOf, AmountOf, OfType, NetIn, AmountIn, TypeIn
<1>2. AmountOf(OfType("YieldDistributed")) = AmountIn(poolLog, TypeIn(poolLog, "YieldDistributed"))
  BY DEF AmountOf, OfType, AmountIn, TypeIn
<1>3. \A a : getDepositorPortfolio(a) = NetIn(poolLog, AddressIn(poolLog, a))
  BY DEF getDepositorPortfolio, NetOf, AmountOf, OfType, NetIn, AmountIn, TypeIn, AddressIn
<1> QED BY <1>1, <1>2, <1>3 DEF DashboardAgrees

(* No event, no figure.                                                    *)
LEMMA PoolViewInitial == PoolViewInit => PoolInv
<1> SUFFICES ASSUME PoolViewInit PROVE PoolInv
  OBVIOUS
<1>1. poolLog = <<>> /\ tick = 0 /\ books = NoBooks /\ booksAt = [d \in {0} |-> NoBooks]
  BY DEF PoolViewInit
<1>2. NoBooks \in PoolBooks
  BY DEF NoBooks, PoolBooks
<1>3. Total(NoBooks.held, Depositors) = NoBooks.shares
  <2>1. \A a \in Depositors : NoBooks.held[a] = 0
    BY DEF NoBooks
  <2>2. NoBooks.shares = 0
    BY DEF NoBooks
  <2> QED BY <2>1, <2>2, TotalZero
<1>4. PoolTyped
  BY <1>1, <1>2 DEF PoolTyped
<1>5. PICK h : h = [n \in 0 .. 0 |-> NoBooks]
  OBVIOUS
<1>6. /\ Len(poolLog) = 0 /\ h \in [0 .. 0 -> PoolBooks] /\ h[0] = NoBooks
  BY <1>1, <1>2, <1>5
<1>7. BooksFollow(h, poolLog)
  BY <1>3, <1>6 DEF BooksFollow
<1>8. BeganWith(h, poolLog, 0, booksAt[0])
  <2>1. 0 \in 0 .. Len(poolLog) /\ booksAt[0] = h[0]
    BY <1>1, <1>6
  <2>2. \A i \in 1 .. Len(poolLog) : poolLog[i].at < 0 <=> i <= 0
    BY <1>6
  <2> QED BY <2>1, <2>2 DEF BeganWith
<1>9. Chronicle(h, poolLog, tick, books, booksAt)
  BY <1>1, <1>6, <1>7, <1>8 DEF Chronicle
<1>10. \A type : TypeIn(poolLog, type) = {}
  BY <1>1 DEF TypeIn
<1>11. \A f : Total(f, {}) = 0
  BY TotalZero
<1>12. \A C : AmountIn(poolLog, C \cap {}) = 0 /\ AmountIn(poolLog, {}) = 0
  BY <1>11 DEF AmountIn
<1>13. ASSUME NEW C PROVE NetIn(poolLog, C) = 0
  <2>1. \A type : C \cap TypeIn(poolLog, type) = {}
    BY <1>10
  <2>2. \A type : AmountIn(poolLog, C \cap TypeIn(poolLog, type)) = 0
    BY <1>12, <2>1
  <2> QED BY <2>2 DEF NetIn
<1>14. SignedTotal([a \in Depositors |-> NetIn(poolLog, AddressIn(poolLog, a))], Depositors) = 0
  <2>1. PICK f : f = [a \in Depositors |-> NetIn(poolLog, AddressIn(poolLog, a))]
    OBVIOUS
  <2>2. f \in [Depositors -> Nat] /\ \A a \in Depositors : f[a] = 0
    BY <1>13, <2>1
  <2>3. SignedTotal(f, Depositors) = Total(f, Depositors)
    BY <2>2, PoolViewConstants, SignedTotalOfNat
  <2>4. Total(f, Depositors) = 0
    BY <2>2, TotalZero
  <2> QED BY <2>1, <2>3, <2>4
<1>15. books.assets = 0
  BY <1>1 DEF NoBooks
<1>16. DashboardAgrees
  BY <1>10, <1>12, <1>13, <1>14, <1>15, DashboardSaid
<1> QED BY <1>4, <1>9, <1>16 DEF PoolInv

(* An event and the next tick keep the books' run and the dashboard.       *)
LEMMA PoolViewStep == PoolInv /\ [PoolViewNext]_poolViewVars => PoolInv'
<1> SUFFICES ASSUME PoolInv, [PoolViewNext]_poolViewVars PROVE PoolInv'
  OBVIOUS
<1>0. PICK h : Chronicle(h, poolLog, tick, books, booksAt)
  BY DEF PoolInv
<1>00. PoolTyped /\ DashboardAgrees
  BY DEF PoolInv
<1>1. ASSUME NEW type \in {"Deposit", "Withdraw", "YieldDistributed"}, NEW a \in Depositors,
             NEW amount \in PoolAmounts, NEW shares \in PoolAmounts,
             emit([type |-> type, address |-> a, amount |-> amount, shares |-> shares, at |-> tick])
      PROVE  PoolInv'
  <2>1. PICK e : e = [type |-> type, address |-> a, amount |-> amount, shares |-> shares, at |-> tick]
    OBVIOUS
  <2>2. tick \in Nat
    BY <1>00 DEF PoolTyped
  <2>3. e \in PoolEvent /\ e.at = tick
    BY <2>1, <2>2 DEF PoolEvent
  <2>4. /\ Allowed(books, e) /\ poolLog' = Append(poolLog, e) /\ books' = Booked(books, e)
        /\ tick' = tick /\ booksAt' = booksAt
    BY <1>1, <2>1 DEF emit
  <2>5. /\ \E g : Chronicle(g, Append(poolLog, e), tick, Booked(books, e), booksAt)
        /\ Booked(books, e) \in PoolBooks
        /\ Total(books.held, Depositors) = books.shares
    BY <1>0, <1>00, <2>3, <2>4, ChronicleExtends DEF PoolTyped
  <2>6. PoolTyped'
    <3>1. poolLog' \in Seq(PoolEvent)
      BY <1>00, <2>3, <2>4 DEF PoolTyped
    <3>2. \A i \in DOMAIN poolLog' : poolLog'[i].at <= tick
      <4>1. PICK m \in Nat : m = Len(poolLog) /\ DOMAIN poolLog = 1 .. m
        BY <1>00 DEF PoolTyped
      <4>2. DOMAIN poolLog' = 1 .. m + 1 /\ poolLog'[m + 1] = e
            /\ \A i \in 1 .. m : poolLog'[i] = poolLog[i]
        BY <1>00, <2>4, <4>1 DEF PoolTyped
      <4>3. \A i \in 1 .. m : poolLog[i].at <= tick
        BY <1>00, <4>1 DEF PoolTyped
      <4> QED BY <2>2, <2>3, <4>2, <4>3
    <3> QED BY <1>00, <2>4, <2>5, <3>1, <3>2 DEF PoolTyped
  <2>7. DashboardAgrees'
    <3>1. /\ NetIn(poolLog, DOMAIN poolLog)
                 = books.assets - AmountIn(poolLog, TypeIn(poolLog, "YieldDistributed"))
          /\ NetIn(poolLog, DOMAIN poolLog)
                 = SignedTotal([x \in Depositors |-> NetIn(poolLog, AddressIn(poolLog, x))], Depositors)
      BY <1>00, DashboardSaid
    <3>2. /\ NetIn(Append(poolLog, e), DOMAIN Append(poolLog, e))
                 = Booked(books, e).assets
                     - AmountIn(Append(poolLog, e), TypeIn(Append(poolLog, e), "YieldDistributed"))
          /\ NetIn(Append(poolLog, e), DOMAIN Append(poolLog, e))
                 = SignedTotal([x \in Depositors |->
                        NetIn(Append(poolLog, e), AddressIn(Append(poolLog, e), x))], Depositors)
      <4>1. poolLog \in Seq(PoolEvent) /\ books \in PoolBooks
        BY <1>00 DEF PoolTyped
      <4> QED BY <2>3, <2>4, <2>5, <3>1, <4>1, DashboardAppended
    <3>3. /\ NetIn(poolLog', DOMAIN poolLog')
                 = books'.assets - AmountIn(poolLog', TypeIn(poolLog', "YieldDistributed"))
          /\ NetIn(poolLog', DOMAIN poolLog')
                 = SignedTotal([x \in Depositors |-> NetIn(poolLog', AddressIn(poolLog', x))], Depositors)
      BY <2>4, <3>2
    <3>4. getPoolStats' = NetIn(poolLog', DOMAIN poolLog')
      BY DEF getPoolStats, NetOf, AmountOf, OfType, NetIn, AmountIn, TypeIn
    <3>5. AmountOf(OfType("YieldDistributed"))' = AmountIn(poolLog', TypeIn(poolLog', "YieldDistributed"))
      BY DEF AmountOf, OfType, AmountIn, TypeIn
    <3>6. \A x : getDepositorPortfolio(x)' = NetIn(poolLog', AddressIn(poolLog', x))
      BY DEF getDepositorPortfolio, NetOf, AmountOf, OfType, NetIn, AmountIn, TypeIn, AddressIn
    <3> QED BY <3>3, <3>4, <3>5, <3>6 DEF DashboardAgrees
  <2>8. \E g : Chronicle(g, poolLog', tick', books', booksAt')
    BY <2>4, <2>5
  <2> QED BY <2>6, <2>7, <2>8 DEF PoolInv
<1>2. ASSUME nextTick PROVE PoolInv'
  <2>1. /\ tick' = tick + 1 /\ poolLog' = poolLog /\ books' = books
        /\ booksAt' = [d \in 0 .. tick + 1 |-> IF d <= tick THEN booksAt[d] ELSE books]
    BY <1>2 DEF nextTick
  <2>2. /\ poolLog \in Seq(PoolEvent) /\ tick \in Nat
        /\ \A i \in DOMAIN poolLog : poolLog[i].at <= tick
    BY <1>00 DEF PoolTyped
  <2>3. Chronicle(h, poolLog, tick + 1, books, booksAt')
    BY <1>0, <2>1, <2>2, ChronicleTurns
  <2>4. PoolTyped'
    <3>1. booksAt' \in [0 .. tick + 1 -> PoolBooks]
      BY <1>00, <2>1, <2>2 DEF PoolTyped
    <3>2. \A i \in DOMAIN poolLog : poolLog[i].at <= tick + 1
      <4>1. \A i \in DOMAIN poolLog : poolLog[i] \in PoolEvent
        BY <2>2
      <4>2. \A x \in PoolEvent : x.at \in Nat
        BY DEF PoolEvent
      <4> QED BY <2>2, <4>1, <4>2
    <3> QED BY <1>00, <2>1, <2>2, <3>1, <3>2 DEF PoolTyped
  <2>5. DashboardAgrees'
    BY <1>00, <2>1 DEF DashboardAgrees, getPoolStats, getDepositorPortfolio, NetOf, AmountOf, OfType
  <2>6. \E g : Chronicle(g, poolLog', tick', books', booksAt')
    BY <2>1, <2>3
  <2> QED BY <2>4, <2>5, <2>6 DEF PoolInv
<1>3. ASSUME UNCHANGED poolViewVars PROVE PoolInv'
  BY <1>0, <1>00, <1>3
  DEF poolViewVars, PoolInv, PoolTyped, DashboardAgrees, getPoolStats, getDepositorPortfolio,
      NetOf, AmountOf, OfType
<1> QED BY <1>1, <1>2, <1>3 DEF PoolViewNext

(* The replay of the pool up to tick b, step by step.                      *)
PoolReplay(f, b) ==
    f = [n \in 0 .. Len(poolLog) |->
            IF n = 0 THEN [balance |-> 0, shares |-> 0]
            ELSE IF Replayed(poolLog[n], b) THEN applyPoolEvent(f[n - 1], poolLog[n])
            ELSE f[n - 1]]

DepositorReplay(f, a, b) ==
    f = [n \in 0 .. Len(poolLog) |->
            IF n = 0 THEN [shares |-> 0, cost |-> 0, per |-> 1]
            ELSE IF OwnEvent(a, poolLog[n]) /\ Replayed(poolLog[n], b)
                 THEN applyDepositorEvent(f[n - 1], poolLog[n])
            ELSE f[n - 1]]

(* The recursive functions that the series reads exist.                    *)
LEMMA PoolReplayExists ==
    ASSUME PoolTyped, NEW b
    PROVE  \E f : PoolReplay(f, b) /\ poolState(b) = f[Len(poolLog)]
<1>1. PICK m \in Nat : m = Len(poolLog) /\ DOMAIN poolLog = 1 .. m
  BY DEF PoolTyped
<1>2. PICK T : T = [balance : Int, shares : Int]
  OBVIOUS
<1>3. PICK base : base = [balance |-> 0, shares |-> 0]
  OBVIOUS
<1>4. base \in T
  BY <1>2, <1>3
<1> DEFINE step == [n \in 1 .. m |-> [v \in T |->
                       IF Replayed(poolLog[n], b) THEN applyPoolEvent(v, poolLog[n]) ELSE v]]
<1>5. ASSUME NEW v \in T, NEW n \in 1 .. m PROVE applyPoolEvent(v, poolLog[n]) \in T
  <2>1. poolLog[n] \in PoolEvent
    BY <1>1 DEF PoolTyped
  <2>2. PICK e \in PoolEvent : e = poolLog[n]
    BY <2>1
  <2>3. PICK x \in Nat : x = e.amount
    BY PoolViewConstants DEF PoolEvent
  <2>4. PICK s \in Nat : s = e.shares
    BY PoolViewConstants DEF PoolEvent
  <2>5. v.balance \in Int /\ v.shares \in Int /\ v = [balance |-> v.balance, shares |-> v.shares]
    BY <1>2
  <2>6. CASE e.type = "Deposit"
    BY <1>2, <2>2, <2>3, <2>4, <2>5, <2>6 DEF applyPoolEvent
  <2>7. CASE e.type = "Withdraw"
    <3>1. applyPoolEvent(v, e) = [balance |-> AtLeastZero(v.balance - x), shares |-> AtLeastZero(v.shares - s)]
      BY <2>3, <2>4, <2>7 DEF applyPoolEvent
    <3>2. AtLeastZero(v.balance - x) \in Int /\ AtLeastZero(v.shares - s) \in Int
      BY <2>5 DEF AtLeastZero
    <3> QED BY <1>2, <2>2, <3>1, <3>2
  <2>8. CASE e.type \notin {"Deposit", "Withdraw"}
    <3>1. PICK y \in Int : y = v.balance + x
      BY <2>5
    <3>2. applyPoolEvent(v, e) = [v EXCEPT !.balance = y]
      BY <2>3, <2>8, <3>1 DEF applyPoolEvent
    <3> QED BY <1>2, <2>2, <3>1, <3>2
  <2> QED BY <2>6, <2>7, <2>8
<1>6. step \in [1 .. m -> [T -> T]]
  BY <1>5
<1>7. \A v \in T, n \in 1 .. m :
          step[n][v] = IF Replayed(poolLog[n], b) THEN applyPoolEvent(v, poolLog[n]) ELSE v
  OBVIOUS
<1>8. PICK st \in [1 .. m -> [T -> T]] : st = step
  BY <1>6
<1> HIDE DEF step
<1>9. PICK f \in [0 .. m -> T] : f[0] = base /\ \A n \in 1 .. m : f[n] = st[n][f[n - 1]]
  BY ONLY <1>4, m \in Nat, st \in [1 .. m -> [T -> T]], Recursion
<1>10. PoolReplay(f, b)
  <2>1. f = [n \in 0 .. m |-> IF n = 0 THEN base
                              ELSE IF Replayed(poolLog[n], b) THEN applyPoolEvent(f[n - 1], poolLog[n])
                              ELSE f[n - 1]]
    <3> SUFFICES ASSUME NEW n \in 0 .. m
                 PROVE f[n] = IF n = 0 THEN base
                              ELSE IF Replayed(poolLog[n], b) THEN applyPoolEvent(f[n - 1], poolLog[n])
                              ELSE f[n - 1]
      BY <1>9
    <3>1. CASE n = 0
      BY <1>9, <3>1
    <3>2. CASE n # 0
      <4>1. n \in 1 .. m /\ f[n - 1] \in T
        BY <1>9, <3>2
      <4> QED BY <1>7, <1>8, <1>9, <3>2, <4>1
    <3> QED BY <3>1, <3>2
  <2> QED BY <1>1, <1>3, <2>1 DEF PoolReplay
<1>11. poolState(b) = (CHOOSE g : PoolReplay(g, b))[Len(poolLog)]
  BY DEF poolState, PoolReplay
<1> QED BY <1>10, <1>11

(* The same for the events of one depositor.                               *)
LEMMA DepositorReplayExists ==
    ASSUME PoolTyped, NEW a, NEW b
    PROVE  \E f : DepositorReplay(f, a, b) /\ depositorState(a, b) = f[Len(poolLog)]
<1>1. PICK m \in Nat : m = Len(poolLog) /\ DOMAIN poolLog = 1 .. m
  BY DEF PoolTyped
<1>2. PICK T : T = [shares : Int, cost : Int, per : Int]
  OBVIOUS
<1>3. PICK base : base = [shares |-> 0, cost |-> 0, per |-> 1]
  OBVIOUS
<1>4. base \in T
  BY <1>2, <1>3
<1> DEFINE taken(n) == OwnEvent(a, poolLog[n]) /\ Replayed(poolLog[n], b)
           step == [n \in 1 .. m |-> [v \in T |->
                       IF taken(n) THEN applyDepositorEvent(v, poolLog[n]) ELSE v]]
<1>5. ASSUME NEW v \in T, NEW n \in 1 .. m PROVE applyDepositorEvent(v, poolLog[n]) \in T
  <2>1. poolLog[n] \in PoolEvent
    BY <1>1 DEF PoolTyped
  <2>2. PICK e \in PoolEvent : e = poolLog[n]
    BY <2>1
  <2>3. PICK x \in Nat : x = e.amount
    BY PoolViewConstants DEF PoolEvent
  <2>4. PICK s \in Nat : s = e.shares
    BY PoolViewConstants DEF PoolEvent
  <2>5. v.shares \in Int /\ v.cost \in Int /\ v.per \in Int
    BY <1>2
  <2>6. CASE e.type = "Deposit"
    <3>1. PICK y \in Int : y = v.shares + s
      BY <2>5
    <3>2. PICK z \in Int : z = v.cost + x * v.per
      <4>1. x * v.per \in Int
        BY <2>5
      <4> QED BY <2>5, <4>1
    <3>3. applyDepositorEvent(v, e) = [v EXCEPT !.shares = y, !.cost = z]
      BY <1>2, <2>3, <2>4, <2>6, <3>1, <3>2 DEF applyDepositorEvent
    <3> QED BY <1>2, <2>2, <3>3
  <2>7. CASE e.type # "Deposit" /\ v.shares <= 0
    BY <2>2, <2>7 DEF applyDepositorEvent
  <2>8. CASE e.type # "Deposit" /\ ~(v.shares <= 0)
    <3>1. PICK y \in Int : y = AtLeastZero(v.shares - s)
      BY <2>5 DEF AtLeastZero
    <3>2. PICK z \in Int : z = v.cost * y
      BY <2>5
    <3>3. PICK w \in Int : w = v.per * v.shares
      BY <2>5
    <3>4. applyDepositorEvent(v, e) = [shares |-> y, cost |-> z, per |-> w]
      BY <2>4, <2>8, <3>1, <3>2, <3>3 DEF applyDepositorEvent
    <3> QED BY <1>2, <2>2, <3>4
  <2> QED BY <2>6, <2>7, <2>8
<1>6. step \in [1 .. m -> [T -> T]]
  BY <1>5
<1>7. \A v \in T, n \in 1 .. m :
          step[n][v] = IF taken(n) THEN applyDepositorEvent(v, poolLog[n]) ELSE v
  OBVIOUS
<1>8. PICK st \in [1 .. m -> [T -> T]] : st = step
  BY <1>6
<1> HIDE DEF step, taken
<1>9. PICK f \in [0 .. m -> T] : f[0] = base /\ \A n \in 1 .. m : f[n] = st[n][f[n - 1]]
  BY ONLY <1>4, m \in Nat, st \in [1 .. m -> [T -> T]], Recursion
<1>10. f = [n \in 0 .. m |-> IF n = 0 THEN base
                             ELSE IF taken(n) THEN applyDepositorEvent(f[n - 1], poolLog[n])
                             ELSE f[n - 1]]
  <2> SUFFICES ASSUME NEW n \in 0 .. m
               PROVE f[n] = IF n = 0 THEN base
                            ELSE IF taken(n) THEN applyDepositorEvent(f[n - 1], poolLog[n])
                            ELSE f[n - 1]
    BY <1>9
  <2>1. CASE n = 0
    BY <1>9, <2>1
  <2>2. CASE n # 0
    <3>1. n \in 1 .. m /\ f[n - 1] \in T
      BY <1>9, <2>2
    <3> QED BY <1>7, <1>8, <1>9, <2>2, <3>1
  <2> QED BY <2>1, <2>2
<1>11. DepositorReplay(f, a, b)
  BY <1>1, <1>3, <1>10 DEF DepositorReplay, taken
<1>12. depositorState(a, b) = (CHOOSE g : DepositorReplay(g, a, b))[Len(poolLog)]
  BY DEF depositorState, DepositorReplay
<1> QED BY <1>11, <1>12

(* Where the range reaches back to the first event, a replay up to tick b  *)
(* stops at the books the tick began with.                                 *)
LEMMA PoolReplayed ==
    ASSUME PoolTyped, NEW h, BooksFollow(h, poolLog), NEW b, NEW k \in 0 .. Len(poolLog),
           \A i \in 1 .. Len(poolLog) : poolLog[i].at < b <=> i <= k,
           \A i \in 1 .. Len(poolLog) : poolLog[i].at >= Since
    PROVE  poolState(b) = [balance |-> h[k].assets, shares |-> h[k].shares]
<1>1. PICK m \in Nat : m = Len(poolLog) /\ DOMAIN poolLog = 1 .. m
  BY DEF PoolTyped
<1>2. PICK f : PoolReplay(f, b) /\ poolState(b) = f[m]
  BY <1>1, PoolReplayExists
<1>3. /\ f[0] = [balance |-> 0, shares |-> 0]
      /\ \A n \in 1 .. m : f[n] = IF n <= k THEN applyPoolEvent(f[n - 1], poolLog[n]) ELSE f[n - 1]
  <2>1. \A n \in 1 .. m : Replayed(poolLog[n], b) <=> n <= k
    BY <1>1 DEF Replayed
  <2>2. 0 \in 0 .. m /\ \A n \in 1 .. m : n \in 0 .. m /\ n # 0
    OBVIOUS
  <2> QED BY <1>1, <1>2, <2>1, <2>2 DEF PoolReplay
<1>4. /\ h \in [0 .. m -> PoolBooks] /\ h[0] = NoBooks /\ k \in 0 .. m
      /\ \A n \in 0 .. m : Total(h[n].held, Depositors) = h[n].shares
      /\ \A n \in 1 .. m : Allowed(h[n - 1], poolLog[n]) /\ h[n] = Booked(h[n - 1], poolLog[n])
  BY <1>1 DEF BooksFollow
<1> DEFINE Shown(n) == [balance |-> h[n].assets, shares |-> h[n].shares]
           S == {n \in 0 .. m : f[n] = Shown(IF n <= k THEN n ELSE k)}
<1>5. 0 \in S
  <2>1. Shown(0) = [balance |-> 0, shares |-> 0]
    BY <1>4 DEF NoBooks
  <2> QED BY <1>3, <1>4, <2>1
<1>6. ASSUME NEW n \in 1 .. m, n - 1 \in S PROVE n \in S
  <2>1. CASE n > k
    <3>1. f[n] = f[n - 1]
      BY <1>3, <1>4, <2>1
    <3>2. f[n - 1] = Shown(k)
      <4>1. CASE n - 1 = k
        BY <1>6, <4>1
      <4>2. CASE n - 1 # k
        <5>1. ~(n - 1 <= k)
          BY <1>4, <2>1, <4>2
        <5> QED BY <1>6, <5>1
      <4> QED BY <4>1, <4>2
    <3>3. ~(n <= k)
      BY <1>4, <2>1
    <3> QED BY <3>1, <3>2, <3>3
  <2>2. CASE n <= k
    <3>1. PICK e \in PoolEvent : e = poolLog[n]
      BY <1>1 DEF PoolTyped
    <3>2. n - 1 \in 0 .. m /\ n - 1 <= k
      BY <1>4, <2>2
    <3>3. PICK p \in PoolBooks : p = h[n - 1]
      BY <1>4, <3>2
    <3>4. Allowed(p, e) /\ h[n] = Booked(p, e) /\ Total(p.held, Depositors) = p.shares
      BY <1>4, <3>1, <3>2, <3>3
    <3>5. f[n - 1] = [balance |-> p.assets, shares |-> p.shares]
      BY <1>6, <3>2, <3>3
    <3>6. f[n] = applyPoolEvent(f[n - 1], e)
      BY <1>3, <2>2, <3>1
    <3>7. f[n - 1].balance = p.assets /\ f[n - 1].shares = p.shares
      BY <3>5
    <3>8. p.assets \in Nat /\ p.shares \in Nat
      BY DEF PoolBooks
    <3>9. e.amount \in Nat /\ e.shares \in Nat /\ e.type \in {"Deposit", "Withdraw", "YieldDistributed"}
      BY PoolViewConstants DEF PoolEvent
    <3>10. CASE e.type = "Deposit"
      <4>1. h[n].assets = p.assets + e.amount /\ h[n].shares = p.shares + e.shares
        BY <3>4, <3>10, BookedFacts
      <4>2. f[n] = [balance |-> p.assets + e.amount, shares |-> p.shares + e.shares]
        BY <3>6, <3>7, <3>10 DEF applyPoolEvent
      <4> QED BY <2>2, <4>1, <4>2
    <3>11. CASE e.type = "Withdraw"
      <4>1. h[n].assets = p.assets - e.amount /\ h[n].shares = p.shares - e.shares
        BY <3>4, <3>11, BookedFacts
      <4>2. e.amount <= p.assets /\ e.shares <= p.shares
        BY <3>4, <3>11, BookedFacts
      <4>3. AtLeastZero(p.assets - e.amount) = p.assets - e.amount
            /\ AtLeastZero(p.shares - e.shares) = p.shares - e.shares
        BY <3>8, <3>9, <4>2 DEF AtLeastZero
      <4>4. f[n] = [balance |-> AtLeastZero(p.assets - e.amount),
                    shares |-> AtLeastZero(p.shares - e.shares)]
        BY <3>6, <3>7, <3>11 DEF applyPoolEvent
      <4> QED BY <2>2, <4>1, <4>3, <4>4
    <3>12. CASE e.type = "YieldDistributed"
      <4>1. h[n].assets = p.assets + e.amount /\ h[n].shares = p.shares
        BY <3>4, <3>12, BookedFacts
      <4>2. f[n] = [f[n - 1] EXCEPT !.balance = @ + e.amount]
        BY <3>6, <3>12 DEF applyPoolEvent
      <4>3. f[n] = [balance |-> p.assets + e.amount, shares |-> p.shares]
        BY <3>5, <4>2
      <4> QED BY <2>2, <4>1, <4>3
    <3> QED BY <3>9, <3>10, <3>11, <3>12
  <2> QED BY <1>4, <2>1, <2>2
<1>7. 0 .. m \subseteq S
  BY <1>5, <1>6, CountUp
<1>8. f[m] = Shown(k)
  <2>1. m \in S
    BY <1>7
  <2>2. CASE m = k
    BY <2>1, <2>2
  <2>3. CASE m # k
    <3>1. ~(m <= k)
      BY <1>4, <2>3
    <3> QED BY <2>1, <3>1
  <2> QED BY <2>2, <2>3
<1> QED BY <1>2, <1>8

(* So does the replay of one depositor's events, which never keeps a cost  *)
(* for a position of no shares.                                            *)
LEMMA DepositorReplayed ==
    ASSUME PoolTyped, NEW h, BooksFollow(h, poolLog), NEW b, NEW k \in 0 .. Len(poolLog),
           \A i \in 1 .. Len(poolLog) : poolLog[i].at < b <=> i <= k,
           \A i \in 1 .. Len(poolLog) : poolLog[i].at >= Since,
           NEW a \in Depositors
    PROVE  /\ depositorState(a, b).shares = h[k].held[a]
           /\ depositorState(a, b).shares = 0 => depositorState(a, b).cost = 0
<1>1. PICK m \in Nat : m = Len(poolLog) /\ DOMAIN poolLog = 1 .. m
  BY DEF PoolTyped
<1>2. PICK f : DepositorReplay(f, a, b) /\ depositorState(a, b) = f[m]
  BY <1>1, DepositorReplayExists
<1>3. /\ f[0] = [shares |-> 0, cost |-> 0, per |-> 1]
      /\ \A n \in 1 .. m : f[n] = IF OwnEvent(a, poolLog[n]) /\ n <= k
                                  THEN applyDepositorEvent(f[n - 1], poolLog[n]) ELSE f[n - 1]
  <2>1. \A n \in 1 .. m : Replayed(poolLog[n], b) <=> n <= k
    BY <1>1 DEF Replayed
  <2>2. 0 \in 0 .. m /\ \A n \in 1 .. m : n \in 0 .. m /\ n # 0
    OBVIOUS
  <2> QED BY <1>1, <1>2, <2>1, <2>2 DEF DepositorReplay
<1>4. /\ h \in [0 .. m -> PoolBooks] /\ h[0] = NoBooks /\ k \in 0 .. m
      /\ \A n \in 0 .. m : Total(h[n].held, Depositors) = h[n].shares
      /\ \A n \in 1 .. m : Allowed(h[n - 1], poolLog[n]) /\ h[n] = Booked(h[n - 1], poolLog[n])
  BY <1>1 DEF BooksFollow
<1> DEFINE P == [shares : Int, cost : Int, per : Int]
           Right(x, n) == x \in P /\ x.shares = h[n].held[a] /\ (x.shares = 0 => x.cost = 0)
           S == {n \in 0 .. m : Right(f[n], IF n <= k THEN n ELSE k)}
<1>5. 0 \in S
  <2>1. h[0].held[a] = 0
    BY <1>4 DEF NoBooks
  <2>2. f[0] \in P /\ f[0].shares = 0 /\ f[0].cost = 0
    BY <1>3
  <2> QED BY <1>4, <2>1, <2>2
<1>6. ASSUME NEW n \in 1 .. m, n - 1 \in S PROVE n \in S
  <2>1. CASE n > k
    <3>1. f[n] = f[n - 1]
      BY <1>3, <1>4, <2>1
    <3>2. Right(f[n - 1], k)
      <4>1. CASE n - 1 = k
        BY <1>6, <4>1
      <4>2. CASE n - 1 # k
        <5>1. ~(n - 1 <= k)
          BY <1>4, <2>1, <4>2
        <5> QED BY <1>6, <5>1
      <4> QED BY <4>1, <4>2
    <3>3. ~(n <= k)
      BY <1>4, <2>1
    <3> QED BY <3>1, <3>2, <3>3
  <2>2. CASE n <= k
    <3>1. PICK e \in PoolEvent : e = poolLog[n]
      BY <1>1 DEF PoolTyped
    <3>2. n - 1 \in 0 .. m /\ n - 1 <= k
      BY <1>4, <2>2
    <3>3. PICK p \in PoolBooks : p = h[n - 1]
      BY <1>4, <3>2
    <3>4. Allowed(p, e) /\ h[n] = Booked(p, e) /\ Total(p.held, Depositors) = p.shares
      BY <1>4, <3>1, <3>2, <3>3
    <3>5. PICK x \in P : x = f[n - 1]
      BY <1>6
    <3>6. x.shares = p.held[a] /\ (x.shares = 0 => x.cost = 0)
      BY <1>6, <3>2, <3>3, <3>5
    <3>7. f[n] = IF OwnEvent(a, e) THEN applyDepositorEvent(x, e) ELSE x
      BY <1>3, <2>2, <3>1, <3>5
    <3>8. h[n].held[a] = IF e.type = "Deposit" /\ a = e.address THEN p.held[a] + e.shares
                         ELSE IF e.type = "Withdraw" /\ a = e.address THEN p.held[a] - e.shares
                         ELSE p.held[a]
      BY <3>4, BookedFacts
    <3>9. /\ p.held[a] \in Nat /\ x.shares \in Int /\ x.cost \in Int /\ x.per \in Int
          /\ e.amount \in Nat /\ e.shares \in Nat /\ e.shares > 0
          /\ e.type \in {"Deposit", "Withdraw", "YieldDistributed"}
      BY <3>4, PoolViewConstants DEF PoolEvent, PoolBooks, Allowed
    <3>10. Right(f[n], n)
      <4>1. CASE ~OwnEvent(a, e)
        <5>1. f[n] = x
          BY <3>7, <4>1
        <5>2. h[n].held[a] = p.held[a]
          BY <3>8, <4>1 DEF OwnEvent
        <5> QED BY <3>5, <3>6, <5>1, <5>2
      <4>2. CASE OwnEvent(a, e) /\ e.type = "Deposit"
        <5>1. PICK y \in Int : y = x.shares + e.shares
          BY <3>9
        <5>2. PICK z \in Int : z = x.cost + e.amount * x.per
          <6>1. e.amount * x.per \in Int
            BY <3>9
          <6> QED BY <3>9, <6>1
        <5>3. f[n] = [x EXCEPT !.shares = y, !.cost = z]
          BY <3>7, <3>9, <4>2, <5>1, <5>2 DEF applyDepositorEvent
        <5>4. f[n] \in P /\ f[n].shares = y
          BY <3>9, <5>3
        <5>5. y = h[n].held[a] /\ y # 0
          BY <3>6, <3>8, <3>9, <4>2, <5>1 DEF OwnEvent
        <5> QED BY <5>4, <5>5
      <4>3. CASE OwnEvent(a, e) /\ e.type = "Withdraw"
        <5>1. e.shares <= p.held[a] /\ a = e.address
          BY <3>4, <4>3 DEF Allowed, OwnEvent
        <5>2. PICK y \in Int : y = x.shares - e.shares
          BY <3>9
        <5>3. AtLeastZero(x.shares - e.shares) = y /\ y = h[n].held[a]
          BY <3>6, <3>8, <3>9, <4>3, <5>1, <5>2 DEF AtLeastZero
        <5>4. PICK z \in Int : z = x.cost * y
          BY <3>9
        <5>5. PICK w \in Int : w = x.per * x.shares
          BY <3>9
        <5>6. f[n] = [shares |-> y, cost |-> z, per |-> w]
          <6>1. ~(x.shares <= 0)
            BY <3>6, <3>9, <5>1
          <6> QED BY <3>7, <4>3, <5>3, <5>4, <5>5, <6>1 DEF applyDepositorEvent
        <5>7. f[n] \in P /\ f[n].shares = y /\ f[n].cost = z
          BY <5>6
        <5>8. y = 0 => z = 0
          BY <3>9, <5>4
        <5> QED BY <5>3, <5>7, <5>8
      <4> QED BY <3>9, <4>1, <4>2, <4>3 DEF OwnEvent
    <3> QED BY <2>2, <3>10
  <2> QED BY <1>4, <2>1, <2>2
<1>7. 0 .. m \subseteq S
  BY <1>5, <1>6, CountUp
<1>8. Right(f[m], k)
  <2>1. m \in S
    BY <1>7
  <2>2. CASE m = k
    BY <2>1, <2>2
  <2>3. CASE m # k
    <3>1. ~(m <= k)
      BY <1>4, <2>3
    <3> QED BY <2>1, <3>1
  <2> QED BY <2>2, <2>3
<1> QED BY <1>2, <1>8

(* The depositors' values, times the share count, add up.                  *)
LEMMA ValuesAddUp ==
    ASSUME NEW f \in [Depositors -> Nat], NEW c \in Nat
    PROVE  Total([a \in Depositors |-> f[a] * c], Depositors) = c * Total(f, Depositors)
<1>1. PICK g : g = [a \in Depositors |-> f[a] * c]
  OBVIOUS
<1>2. g \in [Depositors -> Nat] /\ \A a \in Depositors : g[a] = c * f[a]
  <2>1. \A a \in Depositors : f[a] * c \in Nat /\ f[a] * c = c * f[a]
    OBVIOUS
  <2> QED BY <1>1, <2>1
<1>3. \A a \in Depositors : 1 * g[a] <= c * f[a] /\ c * f[a] <= 1 * g[a]
  <2>1. \A a \in Depositors : g[a] \in Nat /\ 1 * g[a] = g[a]
    BY <1>2
  <2> QED BY <1>2, <2>1
<1>4. 1 * Total(g, Depositors) <= c * Total(f, Depositors)
  BY <1>2, <1>3, PoolViewConstants, TotalScaled
<1>5. c * Total(f, Depositors) <= 1 * Total(g, Depositors)
  BY <1>2, <1>3, PoolViewConstants, TotalScaled
<1>6. Total(g, Depositors) \in Nat /\ Total(f, Depositors) \in Nat
  BY <1>2, PoolViewConstants, TotalNat
<1>7. c * Total(f, Depositors) \in Nat
  BY <1>6
<1> QED BY <1>1, <1>4, <1>5, <1>6, <1>7

(* Of a log that begins within the range, the series at every bucket is    *)
(* the contract's own history.                                             *)
LEMMA SeriesRight ==
    ASSUME PoolInv, \A i \in DOMAIN poolLog : poolLog[i].at >= Since,
           NEW b \in bucketDates \cap (0 .. tick)
    PROVE  SeriesAgrees(b)
<1>1. PICK h : Chronicle(h, poolLog, tick, books, booksAt)
  BY DEF PoolInv
<1>2. PoolTyped
  BY DEF PoolInv
<1>3. PICK k \in 0 .. Len(poolLog) :
          /\ booksAt[b] = h[k]
          /\ \A i \in 1 .. Len(poolLog) : poolLog[i].at < b <=> i <= k
  <2>1. b \in 0 .. tick
    OBVIOUS
  <2>2. BeganWith(h, poolLog, b, booksAt[b])
    BY <1>1, <2>1 DEF Chronicle
  <2> QED BY <2>2 DEF BeganWith
<1>4. BooksFollow(h, poolLog)
  BY <1>1 DEF Chronicle
<1>5. \A i \in 1 .. Len(poolLog) : poolLog[i].at >= Since
  BY <1>2 DEF PoolTyped
<1>6. PICK p \in PoolBooks : p = h[k] /\ Total(p.held, Depositors) = p.shares
  BY <1>4 DEF BooksFollow
<1>7. poolState(b) = [balance |-> p.assets, shares |-> p.shares]
  BY <1>2, <1>3, <1>4, <1>5, <1>6, PoolReplayed
<1>8. \A a \in Depositors : /\ depositorState(a, b).shares = p.held[a]
                            /\ depositorState(a, b).shares = 0 => depositorState(a, b).cost = 0
  BY <1>2, <1>3, <1>4, <1>5, <1>6, DepositorReplayed
<1>9. p.assets \in Nat /\ p.shares \in Nat /\ p.held \in [Depositors -> Nat]
  BY DEF PoolBooks
<1>10. ASSUME poolState(b).shares > 0
       PROVE  Total([a \in Depositors |-> ValueTimesShares(a, b)], Depositors)
                  = poolState(b).shares * poolState(b).balance
  <2>1. PICK c \in Nat : c = p.assets
    BY <1>9
  <2>2. PICK f \in [Depositors -> Nat] : f = p.held
    BY <1>9
  <2>3. ~(poolState(b).shares <= 0) /\ poolState(b).balance = c
    BY <1>7, <1>9, <1>10, <2>1
  <2>4. \A a \in Depositors : ValueTimesShares(a, b) = f[a] * c
    <3> SUFFICES ASSUME NEW a \in Depositors PROVE ValueTimesShares(a, b) = f[a] * c
      OBVIOUS
    <3>1. depositorState(a, b).shares = f[a] /\ f[a] \in Nat
      BY <1>8, <2>2
    <3>2. CASE f[a] <= 0
      <4>1. f[a] = 0 /\ f[a] * c = 0
        BY <3>1, <3>2
      <4> QED BY <3>1, <3>2, <4>1 DEF ValueTimesShares
    <3>3. CASE ~(f[a] <= 0)
      BY <2>3, <3>1, <3>3 DEF ValueTimesShares
    <3> QED BY <3>2, <3>3
  <2>5. [a \in Depositors |-> ValueTimesShares(a, b)] = [a \in Depositors |-> f[a] * c]
    BY <2>4
  <2>6. Total([a \in Depositors |-> ValueTimesShares(a, b)], Depositors) = c * Total(f, Depositors)
    BY <2>5, ValuesAddUp
  <2>7. Total(f, Depositors) = p.shares /\ c * p.shares = p.shares * c
    BY <1>6, <1>9, <2>1, <2>2
  <2> QED BY <1>7, <2>1, <2>3, <2>6, <2>7
<1>11. poolState(b) = [balance |-> booksAt[b].assets, shares |-> booksAt[b].shares]
  BY <1>3, <1>6, <1>7
<1> QED BY <1>3, <1>6, <1>8, <1>10, <1>11 DEF SeriesAgrees

(* The dashboard and the series agree with the contract.                   *)
LEMMA PoolViewsRight == PoolInv => PoolViewsAgree
BY SeriesRight DEF PoolInv, PoolViewsAgree

------------------------------------------------------------------------------
(* For any loan, any pool, any amounts, depositors, disputes, times and    *)
(* range: the borrower's list, the detail view and the score breakdown     *)
(* (loanController.ts, scoreController.ts) agree with one another and with *)
(* the indexed events; the pool's totals, portfolios and rebuilt series    *)
(* (poolController.ts, yieldHistoryService.ts) with the contract's books.  *)
THEOREM ViewsAlwaysAgree == ViewsSpec => []ViewsAgree
<1>1. ViewsInit => LoanViewInv /\ PoolInv
  BY LoanViewInitial, PoolViewInitial DEF ViewsInit
<1>2. LoanViewInv /\ PoolInv /\ [ViewsNext]_<<loanViewVars, poolViewVars, moneyVars>>
          => (LoanViewInv /\ PoolInv)'
  <2> SUFFICES ASSUME LoanViewInv, PoolInv, [ViewsNext]_<<loanViewVars, poolViewVars, moneyVars>>
               PROVE  LoanViewInv' /\ PoolInv'
    OBVIOUS
  <2>1. [LoanViewNext]_loanViewVars
    BY DEF ViewsNext
  <2>2. [PoolViewNext]_poolViewVars
    BY DEF ViewsNext
  <2> QED BY <2>1, <2>2, LoanViewStep, PoolViewStep
<1>3. LoanViewInv /\ PoolInv => ViewsAgree
  BY LoanViewsRight, PoolViewsRight DEF ViewsAgree
<1> QED BY <1>1, <1>2, <1>3, PTL DEF ViewsSpec

(* AmountsAddUp of the model: every call of the money policy gives what it *)
(* promises, and at every moment the schedules previewed and shown for the *)
(* loan pay out its principal and its interest to the cent, or to one cent *)
(* where the amount is a tie, for any rate and any term.                   *)
THEOREM AmountsAlwaysAddUp == ViewsSpec => []AmountsAddUp
<1>1. ViewsInit => LoanViewInv /\ MoneyAgrees
  BY LoanViewInitial, MoneyInitial DEF ViewsInit
<1>2. LoanViewInv /\ MoneyAgrees /\ [ViewsNext]_<<loanViewVars, poolViewVars, moneyVars>>
          => (LoanViewInv /\ MoneyAgrees)'
  BY LoanViewStep, MoneyStep DEF ViewsNext
<1>3. LoanViewInv /\ MoneyAgrees => AmountsAddUp
  BY SchedulesAddUp DEF AmountsAddUp
<1> QED BY <1>1, <1>2, <1>3, PTL DEF ViewsSpec
==============================================================================
