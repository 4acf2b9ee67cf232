--------------------------- MODULE MCOAuthSessions ---------------------------
(***************************************************************************)
(* How a person or an agent gets a credential: the OAuth sessions and      *)
(* their end, the login and device flows of several browsers, and the      *)
(* verifiers of tokens of the identity provider and of the cluster.  They  *)
(* share no variable, so they are explored one at a time: the initial      *)
(* state picks one (part) and the variables of the others stay at rest.    *)
(***************************************************************************)
EXTENDS OAuthSessions, TLC

CONSTANTS
    None, b1, b2, laptop, f1, f2, tv, l1, l2

VARIABLES
    part,   \* the component this behaviour is of
    client, pend, cookie, hs, chain, authCode, dev, index, polls, granted, starter, answers,
    degraded, won,
    issuer, disc, known, down, token, oauthRow, changes,
    cluster, jwks, tried, agent, bucket, global, fails

flowVars ==
    <<client, pend, cookie, hs, chain, authCode, dev, index, polls, granted, starter,
      answers, degraded, won>>
idPVars ==
    <<issuer, disc, known, down, token, oauthRow, changes>>
sAVars ==
    <<cluster, jwks, tried, agent, bucket, global, fails>>
mcVars == <<part, vars, flowVars, idPVars, sAVars>>

\* Requests are interchangeable, and so are record names, and browsers, flows and
\* verifications exchanged together.
Swap(S) == CHOOSE q \in Permutations(S) : \A x \in S : q[x] # x
Symmetry ==
    Permutations(Handlers) \cup Permutations(Sids)
        \cup {Swap({b1, b2}) @@ Swap({f1, f2}) @@ Swap({l1, l2})}

Loopback(p) == [loop |-> TRUE, host |-> "localhost", port |-> p]

\* Bounds: beside another request in flight there is at most one login and no
\* synchronisation (the revocation runs beside all of them), and the tool registers the
\* first of the loopback ports, which are only compared.
Bounds ==
    /\ LET busy == {p \in Handlers : h[p].pc # "idle"}
           logins == {p \in busy : h[p].pc \in {"putrt", "readgen", "provision"}}
           syncs == {p \in busy : h[p].for = "none"} \ logins
       IN Cardinality(busy) > 1 => syncs = {} /\ Cardinality(logins) <= 1
    /\ part = "flows" => client[laptop] \in {None, Loopback(1)}

URIs == {Loopback(1), Loopback(2), [loop |-> FALSE, host |-> "web", port |-> 0]}

FlowBrowsers == {b1, b2}
FlowClients == {laptop}
FlowFlows == {f1, f2}
FlowDevices == {tv}
FlowHosts == {}

Flow == INSTANCE LoginFlows WITH
          Browsers <- FlowBrowsers, Clients <- FlowClients, Flows <- FlowFlows, Devices <-
          FlowDevices, Hosts <- FlowHosts, code <- authCode

IdPReqs == {l1, l2}

IdP == INSTANCE IdPTokens WITH
          Reqs <- IdPReqs, Backoff <- 1, MaxChanges <- 3, req <- token, row <- oauthRow

SAReqs == {l1, l2}

SA == INSTANCE SATokens WITH
          Reqs <- SAReqs, TTL <- 3, MinRefetch <- 2, Timeout <- 1, Burst <- 2, MaxRotations
          <- 1, MaxFails <- 1, req <- agent, client <- bucket

\* The sessions at rest: their invariants are evaluated in every part.
NoSessions == Init

NoFlow ==
    /\ client = None /\ pend = None /\ cookie = None /\ hs = None /\ chain = None
    /\ authCode = None /\ dev = None /\ index = None /\ polls = None /\ granted = None
    /\ starter = None /\ answers = None /\ degraded = None /\ won = None

NoIdP ==
    /\ issuer = None /\ disc = None /\ known = None /\ down = None /\ token = None
    /\ oauthRow = None /\ changes = None

NoSA ==
    /\ cluster = None /\ jwks = None /\ tried = None /\ agent = None /\ bucket = None
    /\ global = None /\ fails = None

MCInit ==
    \/ part = "sessions" /\ Init /\ NoFlow /\ NoIdP /\ NoSA
    \/ part = "flows" /\ Flow!Init /\ NoSessions /\ NoIdP /\ NoSA
    \/ part = "idp" /\ IdP!Init /\ NoSessions /\ NoFlow /\ NoSA
    \/ part = "sa" /\ SA!Init /\ NoSessions /\ NoFlow /\ NoIdP

MCNext ==
    \/ part = "sessions" /\ Next /\ UNCHANGED <<part, flowVars, idPVars, sAVars>>
    \/ part = "flows" /\ Flow!Next /\ UNCHANGED <<part, vars, idPVars, sAVars>>
    \/ part = "idp" /\ IdP!Next /\ UNCHANGED <<part, vars, flowVars, sAVars>>
    \/ part = "sa" /\ SA!Next /\ UNCHANGED <<part, vars, flowVars, idPVars>>

MCSpec == MCInit /\ [][MCNext]_mcVars

-----------------------------------------------------------------------------
\* What a sign-in yields goes once, and to the person who started it.  A refresh token is
\* in the store or in one request's hands (refreshToken); a flow buys one credential, and
\* a device one for each flow that answered it (asCallback, deviceToken).  Whatever
\* browser a Dex or broker URL ends up in, a code, a session or a device's tokens are only
\* ever for the person who started the flow (oauthPending's binding cookie), and one for
\* an MCP server only after consent or when it could not be asked (chainStart).
RedeemedByTheStarter ==
    /\ part = "sessions" => TypeOK /\ RefreshHeldOnce
    /\ part = "flows" =>
          /\ Flow!TypeOK /\ Flow!RedeemedOnce
          /\ Flow!SignedInAsTheStarter /\ Flow!ConsentedOrDegraded

\* A token verified while no other is is answered 503 exactly when the issuer could not be
\* heard (IdPVerifier.Verify).  A slow answer puts no older key set over a newer one, and
\* no TokenReview is spent on a token whose key the cache should have dropped
\* (SATokenVerifier.keysFor).
VerifiersTellTheTruth ==
    /\ [](part = "idp" => IdP!TypeOK /\ IdP!AloneToldTruth)
    /\ [](part = "sa" => SA!TypeOK /\ SA!ReviewsAreEarned)
    /\ [][part = "sa" => SA!KeysOnlyAdvance]_mcVars

=============================================================================
