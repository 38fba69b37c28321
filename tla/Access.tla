------------------------------- MODULE Access -------------------------------
(***************************************************************************)
(* Who may call what: wallet sign-in by challenge and signature            *)
(* (services/authService.ts, controllers/authController.ts), bearer tokens *)
(* and their revocation, the guards (middleware/jwtAuth.ts, auth.ts,       *)
(* loanAccess.ts), the roles (auth/rbac.ts) and the guards every route     *)
(* declares (routes/*.ts).  A release may change the configured roles      *)
(* while tokens minted under the old ones are alive.                       *)
(***************************************************************************)
EXTENDS Integers, FiniteSets

CONSTANTS
    Wallets,
    Challenges, ChallengeOwner,    \* [Challenges -> Wallets]
    Logins,            \* login requests; each mints at most one token
    InitialRoles,      \* [Wallets -> role] of the first release
    ApiKeys,           \* scopes of the configured keys, "legacy" for none
    NoWallet,
    MaxAccessFaults    \* Redis errors and lost answers, releases

ASSUME AccessConstants == InitialRoles \in [Wallets -> {"admin", "borrower", "lender"}]

------------------------------------------------------------------------------
(* Roles and scopes.                                                       *)

USER_ROLES == {"admin", "borrower", "lender"}

ROLE_SCOPES ==
    [admin |-> {"admin:all"},
     borrower |-> {"read:loans", "write:loans", "read:score", "read:notifications",
                   "write:notifications", "read:remittances", "write:remittances"},
     lender |-> {"read:loans", "read:pool", "write:loans"}]

resolveScopesForRole(role) == ROLE_SCOPES[role]

------------------------------------------------------------------------------
(* What the routes require: nothing, an API key of a scope, or a token, a  *)
(* role, scopes and a relation of the caller to the resource's owner.      *)

Open == [auth |-> "none", key |-> "none", roles |-> USER_ROLES, scopes |-> {}, owner |-> "any"]
requireApiKey(scope) == [Open EXCEPT !.auth = "key", !.key = scope]
requireJwtAuth == [Open EXCEPT !.auth = "jwt"]
requireRoles(guard, roles) == [guard EXCEPT !.roles = roles]
requireScopes(guard, scopes) == [guard EXCEPT !.scopes = scopes]
requireWalletOwnership(guard) == [guard EXCEPT !.owner = "wallet"]
requireWalletParamMatchesJwt(guard) == [guard EXCEPT !.owner = "wallet"]
requireLoanOwner(guard) == [guard EXCEPT !.owner = "loan"]
requireLoanBorrowerAccess(guard) == [guard EXCEPT !.owner = "loanView"]
requireLender(guard) == requireRoles(guard, {"lender", "admin"})

Scoped(scope) == requireScopes(requireJwtAuth, {scope})
AdminOnly == requireRoles(requireJwtAuth, {"admin"})

AdminDisputeRoutes ==
    [auditLogs |-> AdminOnly, buildReject |-> AdminOnly,
     loanDisputes |-> requireApiKey("admin:disputes"),
     resolveLoanDispute |-> requireApiKey("admin:disputes"),
     disputes |-> AdminOnly, dispute |-> AdminOnly,
     resolve |-> AdminOnly, reject |-> AdminOnly, governancePending |-> AdminOnly]

AdminJobRoutes ==
    [checkDefaults |-> requireApiKey("admin:loans"),
     reindex |-> requireApiKey("admin:indexer"),
     quarantineEvents |-> requireApiKey("admin:indexer"),
     reprocess |-> requireApiKey("admin:indexer")]

AdminWebhookRoutes ==
    [create |-> requireApiKey("admin:webhooks"), list |-> requireApiKey("admin:webhooks"),
     delete |-> requireApiKey("admin:webhooks"),
     deliveries |-> requireApiKey("admin:webhooks"),
     retryStatus |-> requireApiKey("admin:webhooks")]

AuthRoutes ==
    [challenge |-> Open, login |-> Open, verify |-> requireJwtAuth, logout |-> requireJwtAuth]

EventRoutes == [stream |-> requireJwtAuth, status |-> requireApiKey("admin:indexer")]

IndexerEventRoutes ==
    [status |-> Open,
     byBorrower |-> requireWalletOwnership(Scoped("read:loans")),
     byLoan |-> requireLoanBorrowerAccess(Scoped("read:loans")),
     recent |-> requireApiKey("admin:indexer")]

IndexerWebhookRoutes ==
    [list |-> requireApiKey("admin:webhooks"), create |-> requireApiKey("admin:webhooks"),
     delete |-> requireApiKey("admin:webhooks")]

LoanOpenRoutes ==
    [config |-> Open,
     buildCancel |-> requireLoanOwner(requireJwtAuth),
     amortizationPreview |-> requireJwtAuth]

LoanDisputeRoutes == [contestDefault |-> requireLoanOwner(requireJwtAuth)]

LoanReadRoutes ==
    [byBorrower |-> requireWalletOwnership(Scoped("read:loans")),
     details |-> requireLoanBorrowerAccess(Scoped("read:loans")),
     schedule |-> requireLoanBorrowerAccess(Scoped("read:loans")),
     events |-> requireLoanBorrowerAccess(Scoped("read:loans"))]

LoanRequestRoutes == [request |-> Scoped("write:loans")]

LoanCollateralRoutes ==
    [depositCollateral |-> requireLoanOwner(Scoped("write:loans")),
     releaseCollateral |-> requireLoanOwner(Scoped("write:loans"))]

LoanTermRoutes ==
    [refinance |-> requireLoanOwner(Scoped("write:loans")),
     extend |-> requireLoanOwner(Scoped("write:loans"))]

LoanSubmitRoutes ==
    [buildLiquidate |-> Scoped("write:loans"), submit |-> Scoped("write:loans")]

LoanRepayRoutes ==
    [repay |-> requireLoanOwner(Scoped("write:loans")),
     submit |-> requireLoanOwner(Scoped("write:loans"))]

NotificationRoutes ==
    [list |-> Scoped("read:notifications"), preferences |-> requireJwtAuth,
     updatePreferences |-> requireJwtAuth, stream |-> Scoped("read:notifications"),
     markRead |-> Scoped("write:notifications"), markAllRead |-> Scoped("write:notifications")]

PoolReadRoutes ==
    [stats |-> requireLender(Scoped("read:pool")),
     depositor |-> requireWalletParamMatchesJwt(requireLender(Scoped("read:pool"))),
     yieldHistory |-> requireWalletParamMatchesJwt(requireLender(Scoped("read:pool"))),
     sharePrice |-> requireLender(Scoped("read:pool"))]

PoolWriteRoutes ==
    [deposit |-> requireLender(Scoped("write:pool")), withdraw |-> requireLender(Scoped("write:pool"))]

PoolExitRoutes ==
    [emergencyWithdraw |-> requireLender(Scoped("write:pool")),
     submit |-> requireLender(Scoped("write:pool"))]

RemittanceListRoutes ==
    [create |-> Scoped("write:remittances"), list |-> Scoped("read:remittances")]

RemittanceRoutes == [get |-> Scoped("read:remittances"), submit |-> Scoped("write:remittances")]

ScoreRoutes ==
    [score |-> requireWalletParamMatchesJwt(Scoped("read:score")),
     history |-> requireWalletParamMatchesJwt(Scoped("read:score")),
     nft |-> requireWalletParamMatchesJwt(Scoped("read:score")),
     breakdown |-> requireWalletParamMatchesJwt(Scoped("read:score"))]

ScoreUpdateRoutes == [update |-> requireApiKey("admin:loans")]

SimulationRoutes ==
    [history |-> requireWalletParamMatchesJwt(requireJwtAuth), simulate |-> requireJwtAuth]

AccountRoutes == [myTransactions |-> requireJwtAuth]

UserRoutes == [profile |-> requireJwtAuth, updateProfile |-> requireJwtAuth]

Guards(table) == {table[route] : route \in DOMAIN table}

(* The mounted routers; routes with equal guards are one case.             *)
MountedGuards ==
    UNION {Guards(AdminDisputeRoutes), Guards(AdminJobRoutes), Guards(AdminWebhookRoutes),
           Guards(AuthRoutes), Guards(EventRoutes), Guards(IndexerEventRoutes),
           Guards(IndexerWebhookRoutes), Guards(LoanOpenRoutes), Guards(LoanDisputeRoutes),
           Guards(LoanReadRoutes), Guards(LoanRequestRoutes), Guards(LoanCollateralRoutes),
           Guards(LoanTermRoutes), Guards(LoanSubmitRoutes), Guards(LoanRepayRoutes),
           Guards(NotificationRoutes), Guards(PoolReadRoutes), Guards(PoolWriteRoutes),
           Guards(PoolExitRoutes), Guards(RemittanceListRoutes), Guards(RemittanceRoutes),
           Guards(ScoreRoutes), Guards(ScoreUpdateRoutes), Guards(SimulationRoutes),
           Guards(AccountRoutes), Guards(UserRoutes)}

------------------------------------------------------------------------------
VARIABLES
    roleOf,            \* ADMIN_WALLETS and LENDER_WALLETS of the running release
    challenge,         \* "new", "issued", or "gone": consumed or expired
    login,             \* login -> [pc, wallet, challenge]
    session,           \* login -> its token: [state, wallet, scopes]
    revoked,           \* the tokens whose jti Redis holds as revoked
    visit,             \* the request being guarded
    mintedFrom,        \* challenge -> the logins it signed in
    accessFaults

accessVars == <<roleOf, challenge, login, session, revoked, visit, mintedFrom, accessFaults>>

NoSession == [state |-> "none", wallet |-> NoWallet, scopes |-> {}]
NoLogin == [pc |-> "client", wallet |-> NoWallet, challenge |-> NoWallet]
NoVisit == [pc |-> "none", guard |-> Open, token |-> NoWallet, key |-> "none",
            owner |-> NoWallet, wallet |-> NoWallet, role |-> "borrower", scopes |-> {},
            loggedOut |-> FALSE, unchecked |-> FALSE]

AccessFault == accessFaults < MaxAccessFaults /\ accessFaults' = accessFaults + 1
NoAccessFault == UNCHANGED accessFaults

AccessInit ==
    /\ roleOf = InitialRoles
    /\ challenge = [c \in Challenges |-> "new"]
    /\ login = [l \in Logins |-> NoLogin]
    /\ session = [l \in Logins |-> NoSession]
    /\ revoked = {}
    /\ visit = NoVisit
    /\ mintedFrom = [c \in Challenges |-> {}]
    /\ accessFaults = 0

(* A nonce is stored with SET NX; an error is a 500.                       *)
generateChallenge(c) ==
    /\ challenge[c] = "new"
    /\ challenge' = [challenge EXCEPT ![c] = "issued"]
    /\ UNCHANGED <<roleOf, login, session, revoked, visit, mintedFrom, accessFaults>>

challengeExpires(c) ==
    /\ challenge[c] = "issued"
    /\ challenge' = [challenge EXCEPT ![c] = "gone"]
    /\ UNCHANGED <<roleOf, login, session, revoked, visit, mintedFrom, accessFaults>>

(* login up to its await: the message's own timestamp is fresh and the     *)
(* wallet named in the body signed it.  Neither says it was issued, to     *)
(* whom, or that it was not used: Redis does.                              *)
beginLogin(l, w, c) ==
    /\ login[l].pc = "client" /\ challenge[c] # "new"
    /\ login' = [login EXCEPT ![l] = [pc |-> "consume", wallet |-> w, challenge |-> c]]
    /\ UNCHANGED <<roleOf, challenge, session, revoked, visit, mintedFrom, accessFaults>>

generateJwtToken(l) ==
    [state |-> "valid", wallet |-> login[l].wallet,
     scopes |-> resolveScopesForRole(roleOf[login[l].wallet])]

(* Matched by key (wallet and nonce) and deleted in one script.            *)
Consumes(l) ==
    /\ challenge[login[l].challenge] = "issued"
    /\ ChallengeOwner[login[l].challenge] = login[l].wallet

verifyAndConsumeChallenge_Faulty(l) ==
    Consumes(l) /\ UNCHANGED challenge

verifyAndConsumeChallenge(l) ==
    Consumes(l) /\ challenge' = [challenge EXCEPT ![login[l].challenge] = "gone"]

signIn(l) ==
    /\ login[l].pc = "consume"
    /\ login' = [login EXCEPT ![l].pc = "answered"]
    /\ \/ /\ verifyAndConsumeChallenge(l) /\ NoAccessFault
          /\ session' = [session EXCEPT ![l] = generateJwtToken(l)]
          /\ mintedFrom' = [mintedFrom EXCEPT ![login[l].challenge] = @ \cup {l}]
       \/ ~Consumes(l) /\ NoAccessFault /\ UNCHANGED <<challenge, session, mintedFrom>>
       \/ Consumes(l) /\ AccessFault /\ UNCHANGED <<session, mintedFrom>>
          /\ challenge' \in {challenge, [challenge EXCEPT ![login[l].challenge] = "gone"]}
    /\ UNCHANGED <<roleOf, revoked, visit>>

(* The token and its entry in the revocation list lapse together.          *)
tokenExpires(l) ==
    /\ session[l].state = "valid"
    /\ session' = [session EXCEPT ![l].state = "expired"]
    /\ revoked' = revoked \ {l}
    /\ UNCHANGED <<roleOf, challenge, login, visit, mintedFrom, accessFaults>>

(* requireJwtAuth, then revokeToken; cacheService.set swallows an error,   *)
(* and the answer is 200 either way.                                       *)
logout(l) ==
    /\ session[l].state = "valid" /\ l \notin revoked
    /\ \/ revoked' = revoked \cup {l} /\ NoAccessFault
       \/ AccessFault /\ UNCHANGED revoked
    /\ UNCHANGED <<roleOf, challenge, login, session, visit, mintedFrom>>

------------------------------------------------------------------------------
(* A request through its guards.                                           *)

beginVisit(guard, l, owner) ==
    /\ visit.pc = "none"
    /\ guard.auth = "jwt" /\ session[l].state = "valid"
    /\ visit' = [NoVisit EXCEPT !.pc = "revocation", !.guard = guard, !.token = l,
                                !.owner = owner, !.loggedOut = l \in revoked]
    /\ UNCHANGED <<roleOf, challenge, login, session, revoked, mintedFrom, accessFaults>>

(* A token's scopes and its wallet's role, each as of now.                 *)
capPayloadToCurrentRole_Faulty(l) == [role |-> roleOf[session[l].wallet], scopes |-> session[l].scopes]

capPayloadToCurrentRole(l) ==
    LET role == roleOf[session[l].wallet]
    IN  [role |-> role, scopes |-> session[l].scopes \cap resolveScopesForRole(role)]

(* isTokenRevoked: an error or 250 ms without an answer mean "no".         *)
isTokenRevoked(l) == l \in revoked

checkRevocation ==
    LET l == visit.token
        user == capPayloadToCurrentRole(l)
        Pass(unchecked) ==
            visit' = [visit EXCEPT !.pc = "guards", !.wallet = session[l].wallet,
                                   !.role = user.role, !.scopes = user.scopes,
                                   !.unchecked = unchecked]
    IN  /\ visit.pc = "revocation"
        /\ \/ isTokenRevoked(l) /\ NoAccessFault /\ visit' = [visit EXCEPT !.pc = "refused"]
           \/ ~isTokenRevoked(l) /\ NoAccessFault /\ Pass(FALSE)
           \/ isTokenRevoked(l) /\ AccessFault /\ Pass(TRUE)
        /\ UNCHANGED <<roleOf, challenge, login, session, revoked, mintedFrom>>

HasScopes(v) == "admin:all" \in v.scopes \/ v.guard.scopes \subseteq v.scopes

OwnerAllowed(v) ==
    CASE v.guard.owner = "any" -> TRUE
      [] v.guard.owner \in {"wallet", "loan"} -> v.owner = v.wallet
      [] v.guard.owner = "loanView" -> v.role \in {"admin", "lender"} \/ v.owner = v.wallet

Admits(v) ==
    v.role \in v.guard.roles /\ HasScopes(v) /\ OwnerAllowed(v)

runGuards ==
    /\ visit.pc = "guards"
    /\ visit' = [visit EXCEPT !.pc = IF Admits(visit) THEN "served" ELSE "refused"]
    /\ UNCHANGED <<roleOf, challenge, login, session, revoked, mintedFrom, accessFaults>>

(* A legacy key opens every keyed route, a scoped one its own.             *)
keyMatches(guard, key) == key = "legacy" \/ key = guard.key

visitWithKey(guard, key) ==
    /\ visit.pc = "none"
    /\ guard.auth = "key"
    /\ visit' = [NoVisit EXCEPT !.pc = IF keyMatches(guard, key) THEN "served" ELSE "refused",
                                !.guard = guard, !.key = key]
    /\ UNCHANGED <<roleOf, challenge, login, session, revoked, mintedFrom, accessFaults>>

(* The response is sent.                                                   *)
endVisit ==
    /\ visit.pc \in {"served", "refused"}
    /\ visit' = NoVisit
    /\ UNCHANGED <<roleOf, challenge, login, session, revoked, mintedFrom, accessFaults>>

(* A release with other ADMIN_WALLETS or LENDER_WALLETS; requests under    *)
(* way end with the old processes, tokens live on.                         *)
release ==
    /\ AccessFault
    /\ \E w \in Wallets, role \in USER_ROLES : roleOf' = [roleOf EXCEPT ![w] = role]
    /\ visit' = NoVisit
    /\ login' = [l \in Logins |-> IF login[l].pc = "consume" THEN [login[l] EXCEPT !.pc = "answered"]
                                  ELSE login[l]]
    /\ UNCHANGED <<challenge, session, revoked, mintedFrom>>

AccessNext ==
    \/ \E c \in Challenges : generateChallenge(c) \/ challengeExpires(c)
    \/ \E l \in Logins : \/ signIn(l) \/ tokenExpires(l) \/ logout(l)
                         \/ \E w \in Wallets, c \in Challenges : beginLogin(l, w, c)
                         \/ \E guard \in MountedGuards, owner \in Wallets : beginVisit(guard, l, owner)
    \/ checkRevocation \/ runGuards \/ endVisit
    \/ \E guard \in MountedGuards, key \in ApiKeys : visitWithKey(guard, key)
    \/ release

AccessSpec == AccessInit /\ [][AccessNext]_accessVars

------------------------------------------------------------------------------
(* Correctness.                                                            *)

(* A challenge signs in its own wallet, once: of any number of concurrent  *)
(* logins with one signed message, at most one gets a token.               *)
OneTokenPerChallenge ==
    \A c \in Challenges :
        /\ Cardinality(mintedFrom[c]) <= 1
        /\ \A l \in mintedFrom[c] : session[l].wallet = ChallengeOwner[c]

(* What is served is served within the rights the wallet's role has now:   *)
(* a token minted under an earlier release with more never carries them    *)
(* over, and a token logged out before passes only if Redis did not answer  *)
(* in time, or answered after the token and its revocation entry lapsed.    *)
ServedWithinRole ==
    (visit.pc = "served" /\ visit.guard.auth = "jwt") =>
        LET now == roleOf[visit.wallet]
        IN  /\ visit.loggedOut => visit.unchecked \/ session[visit.token].state = "expired"
            /\ now \in visit.guard.roles
            /\ now # "admin" => visit.guard.scopes \subseteq resolveScopesForRole(now)
            /\ visit.guard.owner \in {"wallet", "loan"} => visit.owner = visit.wallet
==============================================================================
