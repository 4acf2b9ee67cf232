--------------------------- MODULE MCEnvReconcile ---------------------------
(***************************************************************************)
(* What the operator and the caches of the forwarder eventually agree on:  *)
(* the reconcile of an Environment, the identity policies, UI drafts       *)
(* against CRs, the operator's reads of LiteLLM, its connection, the read- *)
(* side cache, the watch on a long request's key, the signing keys as      *)
(* informers follow them and as a volume mounts them, and the keys of the  *)
(* token exchange under the KeyGrant sweep.  They share no variable, so    *)
(* they are explored one at a time: the initial state picks one (part) and *)
(* the variables of the others stay at rest.                               *)
(***************************************************************************)
EXTENDS EnvReconcile, TLC

CONSTANTS
    Parts,  \* the components this run explores
    None

VARIABLES
    part,   \* the component this behaviour is of
    policy, policyRow, policyQueue, lostWrites, policyEdits, policyFails,
    applied, draft, patch, draftCRs, writes,
    hist, gone, cur, bodies, lister, published, catalog, rec, floor, readFails, readEdits,
    connCR, reason, secret, llm, conn, connRow, team, boot, rc, connQueue, fwd, connEdits,
    connFails,
    age, view, flight, started, left, ticked, notice, trigger, up, readerFails,
    keyStatus, dead, due, check, watchFails,
    secretHist, minter, sig, load, seen, read, jwks, since, faults,
    crs, grantRows, status, live, tag, req, jwts, grantQueue, op, grantEdits, grantFails

policyVars ==
    <<policy, policyRow, policyQueue, lostWrites, policyEdits, policyFails>>
draftVars ==
    <<applied, draft, patch, draftCRs, writes>>
readsVars ==
    <<hist, gone, cur, bodies, lister, published, catalog, rec, floor, readFails, readEdits>>
connVars ==
    <<connCR, reason, secret, llm, conn, connRow, team, boot, rc, connQueue, fwd, connEdits,
      connFails>>
readerVars ==
    <<age, view, flight, started, left, ticked, notice, trigger, up, readerFails>>
watchVars ==
    <<keyStatus, dead, due, check, watchFails>>
signerVars ==
    <<secretHist, minter, sig, load, seen, read, jwks, since, faults>>
exchangeVars ==
    <<crs, grantRows, status, live, tag, req, jwts, grantQueue, op, grantEdits, grantFails>>
mcVars == <<part, vars, policyVars, draftVars, readsVars, connVars, readerVars, watchVars, signerVars, exchangeVars>>

\* The full spec, and one that drops a team and a server and names no guardrail.
MCSpecs ==
    {[models |-> Models, servers |-> Servers \ Tagged, tag |-> TRUE, guard |-> TRUE, teams |-> Humans],
     [models |-> {}, servers |-> Servers, tag |-> FALSE, guard |-> FALSE, teams |-> {CHOOSE t \in Humans : TRUE}]}

\* Bound: a LiteLLM that writes the mirror of the teams starts without the users' shell
\* team, which a move then makes; one that does not write it starts with the shell and
\* the full spec.
EnvStarts == Init /\ ushell # honest /\ (honest \/ spec.guard)

\* Three specs of a KeyGrant: for the tuple, for it and another Environment with a
\* higher ceiling, and for another service account.
S1 == [envs |-> {"e"}, sas |-> {"s"}, budget |-> 1]
S2 == [envs |-> {"e", "f"}, sas |-> {"s"}, budget |-> 2]
S3 == [envs |-> {"e"}, sas |-> {"r"}, budget |-> 2]
Starts ==
    {[crs |-> "g" :> S2 @@ "h" :> None, reqs |-> {"x", "y"}, keys |-> {}, seen |-> TRUE],
     [crs |-> "g" :> S2 @@ "h" :> S3, reqs |-> {"x"}, keys |-> {}, seen |-> FALSE],
     [crs |-> "g" :> S3 @@ "h" :> S2, reqs |-> {}, keys |-> {1}, seen |-> FALSE]}

PolicyTargets == {"s", "t"}

Policy == INSTANCE IdentityPolicies WITH
          N <- 3, Targets <- PolicyTargets, MaxEdits <- 3, MaxFails <- 1, cr <- policy, row
          <- policyRow, queue <- policyQueue, lost <- lostWrites, edits <- policyEdits,
          fails <- policyFails

DraftAdmins == {"p", "q"}
DraftFields == {"f", "g"}
DraftValues == {0, 1}

Draft == INSTANCE UIDrafts WITH
          Admins <- DraftAdmins, Fields <- DraftFields, Values <- DraftValues, MaxCRs <- 2,
          MaxWrites <- 3, cr <- applied, row <- draft, crs <- draftCRs

ReadsNames == {"g"}
ReadsRoutes == {"/v2/team/list", "/v2/guardrails/list"}

Reads == INSTANCE OperatorReads WITH
          Names <- ReadsNames, Routes <- ReadsRoutes, TTL <- 2, CallTime <- 0, Interval <-
          2, MaxClients <- 2, MaxWrites <- 1, MaxMoves <- 1, cache <- bodies, snap <-
          lister, view <- published, rows <- catalog, fails <- readFails, edits <- readEdits

ConnSpecs == {"s1", "s2"}
ConnKeys == {"k1", "k2"}

Conn == INSTANCE LiteLLMConn WITH
          Specs <- ConnSpecs, Values <- "s1", Keys <- ConnKeys, MaxEdits <- 2, MaxFails <-
          1, cr <- connCR, row <- connRow, queue <- connQueue, edits <- connEdits, fails <-
          connFails

Reader == INSTANCE ReaderCache WITH
          Interval <- 3, RefreshTime <- 1, MaxVer <- 2, MaxFails <- 1, fails <- readerFails

Watch == INSTANCE KeyWatch WITH
          Every <- 4, Timeout <- 1, CacheBound <- 3, MaxFails <- 2, status <- keyStatus,
          fails <- watchFails

SignerMinters == {"k1"}
SignerForwarders == {"f", "g"}
SignerMounted == {}
SignerRotationKeys == {"k3"}

Signer == INSTANCE SigningKeys WITH
          Minters <- SignerMinters, Forwarders <- SignerForwarders, Mounted <-
          SignerMounted, RotationKeys <- SignerRotationKeys, MaxAge <- 1, Overlap <- 2,
          MaxFaults <- 1, hist <- secretHist, at <- seen, cache <- jwks

MountMinters == {"k1", "k2"}
MountForwarders == {}
MountMounted == {"m"}
MountRotationKeys == {"k3"}

Mount == INSTANCE SigningKeys WITH
          Minters <- MountMinters, Forwarders <- MountForwarders, Mounted <- MountMounted,
          RotationKeys <- MountRotationKeys, MaxAge <- 1, Overlap <- 2, MaxFaults <- 1, hist
          <- secretHist, at <- seen, cache <- jwks

ExchangeGrants == {"g", "h"}
ExchangeSpecs == {S1, S2, S3}
ExchangeRequests == {"x", "y"}

Exchange == INSTANCE KeyExchange WITH
          Grants <- ExchangeGrants, Specs <- ExchangeSpecs, Env <- "e", SA <- "s", Requests
          <- ExchangeRequests, MaxKeys <- 2, MaxEdits <- 1, Forced <- TRUE, MaxFails <- 1,
          rows <- grantRows, queue <- grantQueue, edits <- grantEdits, fails <- grantFails

\* The Environment at rest: its invariants are evaluated in every part.
NoEnv == Init /\ ushell /\ honest /\ spec.guard

NoPolicy ==
    /\ policy = None /\ policyRow = None /\ policyQueue = None /\ lostWrites = None
    /\ policyEdits = None /\ policyFails = None

NoDraft ==
    /\ applied = None /\ draft = None /\ patch = None /\ draftCRs = None
    /\ writes = None

NoReads ==
    /\ hist = None /\ gone = None /\ cur = None /\ bodies = None /\ lister = None
    /\ published = None /\ catalog = None /\ rec = None /\ floor = None
    /\ readFails = None /\ readEdits = None

NoConn ==
    /\ connCR = None /\ reason = None /\ secret = None /\ llm = None /\ conn = None
    /\ connRow = None /\ team = None /\ boot = None /\ rc = None /\ connQueue = None
    /\ fwd = None /\ connEdits = None /\ connFails = None

\* The read-side cache before it starts: the refinement is checked in every part.
NoReader == Reader!Init

NoWatch ==
    /\ keyStatus = None /\ dead = None /\ due = None /\ check = None
    /\ watchFails = None

NoSigner ==
    /\ secretHist = None /\ minter = None /\ sig = None /\ load = None /\ seen = None
    /\ read = None /\ jwks = None /\ since = None /\ faults = None

NoExchange ==
    /\ crs = None /\ grantRows = None /\ status = None /\ live = None /\ tag = None
    /\ req = None /\ jwts = None /\ grantQueue = None /\ op = None /\ grantEdits = None
    /\ grantFails = None

MCInit ==
    /\ part \in Parts
    /\ IF part = "env" THEN EnvStarts ELSE NoEnv
    /\ IF part = "policies" THEN Policy!Init ELSE NoPolicy
    /\ IF part = "drafts" THEN Draft!Init ELSE NoDraft
    /\ IF part = "reads" THEN Reads!Init ELSE NoReads
    /\ IF part = "connection" THEN Conn!Init ELSE NoConn
    /\ IF part = "reader" THEN Reader!Init ELSE NoReader
    /\ IF part = "watch" THEN Watch!Init ELSE NoWatch
    /\ CASE part = "signers" -> Signer!Init [] part = "mounted" -> Mount!Init [] OTHER -> NoSigner
    /\ IF part = "grants" THEN Exchange!Init ELSE NoExchange

MCNext ==
    \/ /\ part = "env" /\ Next
       /\ UNCHANGED <<part, policyVars, draftVars, readsVars, connVars, readerVars, watchVars, signerVars, exchangeVars>>
    \/ /\ part = "policies" /\ Policy!Next
       /\ UNCHANGED <<part, vars, draftVars, readsVars, connVars, readerVars, watchVars, signerVars, exchangeVars>>
    \/ /\ part = "drafts" /\ Draft!Next
       /\ UNCHANGED <<part, vars, policyVars, readsVars, connVars, readerVars, watchVars, signerVars, exchangeVars>>
    \/ /\ part = "reads" /\ Reads!Next
       /\ UNCHANGED <<part, vars, policyVars, draftVars, connVars, readerVars, watchVars, signerVars, exchangeVars>>
    \/ /\ part = "connection" /\ Conn!Next
       /\ UNCHANGED <<part, vars, policyVars, draftVars, readsVars, readerVars, watchVars, signerVars, exchangeVars>>
    \/ /\ part = "reader" /\ Reader!Next
       /\ UNCHANGED <<part, vars, policyVars, draftVars, readsVars, connVars, watchVars, signerVars, exchangeVars>>
    \/ /\ part = "watch" /\ Watch!Next
       /\ UNCHANGED <<part, vars, policyVars, draftVars, readsVars, connVars, readerVars, signerVars, exchangeVars>>
    \/ /\ part = "signers" /\ Signer!Next
       /\ UNCHANGED <<part, vars, policyVars, draftVars, readsVars, connVars, readerVars, watchVars, exchangeVars>>
    \/ /\ part = "mounted" /\ Mount!Next
       /\ UNCHANGED <<part, vars, policyVars, draftVars, readsVars, connVars, readerVars, watchVars, exchangeVars>>
    \/ /\ part = "grants" /\ Exchange!Next
       /\ UNCHANGED <<part, vars, policyVars, draftVars, readsVars, connVars, readerVars, watchVars, signerVars>>

\* Weak fairness of what the code's own loops run: the workers of the controllers and the
\* 5-minute resync, the snapshot's and the read cache's loops, the boot and the sweep of
\* the connection, the re-check timer of a long request, informers and the kubelet, and
\* time.  Users, failures and NOTIFYs owe nothing.
MCFairness ==
    /\ WF_vars(part = "env" /\ refresh) /\ WF_vars(part = "env" /\ PassStep)
    /\ WF_policyVars(part = "policies" /\ Policy!Resync)
    /\ \A b \in 1..3 : WF_policyVars(part = "policies" /\ Policy!Reconcile(b))
    /\ WF_draftVars(part = "drafts" /\ Draft!UpsertEnvironment)
    /\ WF_readsVars(part = "reads" /\ Reads!SnapStep) /\ WF_readsVars(part = "reads" /\ Reads!RecStep)
    /\ WF_readsVars(part = "reads" /\ Reads!Rebuild) /\ WF_readsVars(part = "reads" /\ Reads!Tick)
    /\ WF_connVars(part = "connection" /\ Conn!Boot) /\ WF_connVars(part = "connection" /\ Conn!Reconcile)
    /\ WF_connVars(part = "connection" /\ Conn!sweepAll) /\ WF_connVars(part = "connection" /\ Conn!Resolve)
    /\ WF_readerVars(part = "reader" /\ Reader!RefreshStep)
    /\ WF_readerVars(part = "reader" /\ Reader!RunRefreshLoop)
    /\ WF_readerVars(part = "reader" /\ Reader!Tick)
    /\ WF_watchVars(part = "watch" /\ Watch!Tick) /\ WF_watchVars(part = "watch" /\ Watch!CheckBegins)
    /\ WF_watchVars(part = "watch" /\ Watch!CheckReads) /\ WF_watchVars(part = "watch" /\ Watch!watchKey)
    /\ \A k \in SignerMinters : WF_signerVars(part = "signers" /\ (Signer!EnsureGet(k) \/ Signer!EnsureCreate(k)))
    /\ \A k \in MountMinters : WF_signerVars(part = "mounted" /\ (Mount!EnsureGet(k) \/ Mount!EnsureCreate(k)))
    /\ \A f \in {"f", "g"} : WF_signerVars(part = "signers" /\ Signer!Follow(f))
    /\ WF_signerVars(part = "signers" /\ Signer!Repair) /\ WF_signerVars(part = "mounted" /\ Mount!Repair)
    /\ WF_signerVars(part = "mounted" /\ Mount!Kubelet("m"))
    /\ WF_signerVars(part = "mounted" /\ Mount!WatchDir("m"))
    /\ WF_exchangeVars(part = "grants" /\ Exchange!Resync)
    /\ WF_exchangeVars(part = "grants" /\ Exchange!Operator)

MCSpec == MCInit /\ [][MCNext]_mcVars /\ MCFairness

-----------------------------------------------------------------------------
\* The read cache of a LiteLLM client serves no body from before that client's own write
\* (readCache.put), and a UI draft is never served before its CR exists.
NothingStaleIsRead ==
    /\ part = "env" => TypeOK
    /\ part = "reads" => Reads!TypeOK /\ Reads!NoPreWriteBody
    /\ part = "drafts" => Draft!TypeOK /\ Draft!DraftNeverServed

\* The published connection and its row are the object's whenever the controller has
\* nothing to do, the advisories of idle policies name the policy the forwarder resolves
\* to, and a stream outlives its key by no more than the cache's bound, one interval and
\* one re-check, also when re-checks fail (watchKey).
NothingStaleIsHeld ==
    /\ part = "connection" => Conn!TypeOK /\ Conn!PublishedIsCurrent /\ Conn!NoRowWithoutObject
    /\ part = "policies" => Policy!TypeOK /\ Policy!QuietIsAccurate /\ Policy!NoOrphanRow
    /\ part = "reader" => Reader!TypeOK
    /\ part = "watch" => Watch!TypeOK /\ Watch!EndsWithItsKey

\* Rows change only for cause: a guardrail LiteLLM listed all along is never marked
\* missing (ReplaceRuntimeCatalog), and a row of the operator changes only to what a CR
\* says or goes with it, also under a PATCH that read it before (UpdateUIEnvironment).
RowsChangeForCause ==
    [][/\ part = "reads" => Reads!NoBlipTombstone
       /\ part = "drafts" => Draft!OperatorRowUntouched]_mcVars

\* Through a rotation no signer pairs the kid of one key with the seed of another
\* (LoadFromDir), and a backend holding an unexpired JWKS knows the promoted key by the
\* time a replica signs with it (JWKS, Reload, the overlap).
SignaturesKnown ==
    /\ part = "signers" => Signer!TypeOK /\ Signer!SlotWhole /\ Signer!PromotedKeyKnown
    /\ part = "mounted" => Mount!TypeOK /\ Mount!SlotWhole

\* A key of the token exchange lives capped while it is granted and dies only when it is
\* not, whoever won the race to mint it and whatever the sweep did half of: a key some JWT
\* names carries a ceiling (applyBudget), a row is called revoked only when its LiteLLM
\* key is dead (revokeKey), and the sweep revokes no key that some KeyGrant allowed all
\* through it (sweepList).
ExchangeKeysGoverned ==
    part = "grants" => Exchange!TypeOK /\ Exchange!ExchangeKeysGoverned

\* The read-side cache implements the abstract view of StaleView: stale by less than a
\* tick and two refreshes unless a refresh failed.
ImplementsStaleView == Reader!ImplementsStaleView

\* Once users, LiteLLM and failures leave it alone, each copy agrees with its source for
\* good: the Environment is Available at its generation, the policies' rows and advisories
\* are right, a CR has its row, the catalog rows are what LiteLLM lists, the connection is
\* up and the forwarder booted, the read cache shows the last write, no request runs on a
\* revoked key, every signer holds what the Secret holds, and keys no grant allows are
\* revoked while the others carry the lowest ceiling of their grants.
Agreed ==
    CASE part = "env" -> Converged
      [] part = "policies" -> Policy!Accurate
      [] part = "drafts" -> Draft!CRTookOver
      [] part = "reads" -> Reads!CatalogCurrent
      [] part = "connection" -> Conn!Connected
      [] part = "reader" -> Reader!CaughtUp
      [] part = "watch" -> Watch!Ended
      [] part = "signers" -> Signer!Followed
      [] part = "mounted" -> Mount!Followed
      [] part = "grants" -> Exchange!Swept
EventuallyAgree == <>[]Agreed

=============================================================================
