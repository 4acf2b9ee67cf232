-------------------------- MODULE MCContentService --------------------------
(***************************************************************************)
(* How content gets from an upstream to a download: one content object     *)
(* with its reconciler and the service that streams it (two paths, three   *)
(* upstream revisions, a window of two ticks refreshed every tick, and a   *)
(* pass that may take one), a marketplace of either kind, and the fetchers *)
(* of every source type.  They share no variable, so they are explored one *)
(* at a time: the initial state picks one (part) and the variables of the  *)
(* others stay at rest.                                                    *)
(***************************************************************************)
EXTENDS ContentService, TLC

CONSTANTS
    Parts,  \* the components this run explores
    None

VARIABLES
    part,   \* the component this behaviour is of
    marketKind, market, marketStatus, mrow, rows, files, force, catalogRev, gone,
    lostArchives, marketPass, marketMoves,
    kind, up, pc, prior, rev, clone, body, kept, torn, rewrites, fails

marketVars ==
    <<marketKind, market, marketStatus, mrow, rows, files, force, catalogRev, gone,
      lostArchives, marketPass, marketMoves>>
fetcherVars ==
    <<kind, up, pc, prior, rev, clone, body, kept, torn, rewrites, fails>>
mcVars == <<part, vars, marketVars, fetcherVars>>

\* A marketplace: two names that differ in case, then a third; revisions that reorder
\* them, refuse one, cannot be read, list nothing, and list only the third.
MCFold(n) == IF n = "A" THEN "a" ELSE n
Listing(n, src) == [name |-> n, src |-> src]
MCCatalogs ==
    << <<Listing("a", "own"), Listing("b", "pin"), Listing("A", "own")>>,
       <<Listing("A", "own"), Listing("a", "own"), Listing("b", "bad")>>,
       None, << >>, <<Listing("b", "own")>> >>
MCFilters == {[include |-> {}, exclude |-> {}], [include |-> {"a"}, exclude |-> {}]}

MarketNames == {"a", "A", "b"}
MarketKinds == {"plugin", "skill"}

Market == INSTANCE Marketplace WITH
          Names <- MarketNames, Fold <- MCFold, Catalogs <- MCCatalogs, Filters <-
          MCFilters, Kinds <- MarketKinds, MaxMoves <- 2, kind <- marketKind, cr <- market,
          status <- marketStatus, head <- catalogRev, lost <- lostArchives, pass <-
          marketPass, moves <- marketMoves

FetcherKinds == {"git", "s3", "gcs", "http", "httpPlain"}
FetcherContents == {"x", "y"}

Fetcher == INSTANCE Fetchers WITH
          Kinds <- FetcherKinds, Contents <- FetcherContents, MaxMoves <- 3, MaxFails <- 1,
          moves <- rewrites

\* The object at rest: its properties are evaluated in every part.
NoContent == Init

NoMarket ==
    /\ marketKind = None /\ market = None /\ marketStatus = None /\ mrow = None
    /\ rows = None /\ files = None /\ force = None /\ catalogRev = None /\ gone = None
    /\ lostArchives = None /\ marketPass = None /\ marketMoves = None

NoFetcher ==
    /\ kind = None /\ up = None /\ pc = None /\ prior = None /\ rev = None
    /\ clone = None /\ body = None /\ kept = None /\ torn = None /\ rewrites = None
    /\ fails = None

MCInit ==
    /\ part \in Parts
    /\ IF part = "content" THEN Init ELSE NoContent
    /\ IF part = "marketplace" THEN Market!Init ELSE NoMarket
    /\ IF part = "fetchers" THEN Fetcher!Init ELSE NoFetcher

MCNext ==
    \/ part = "content" /\ Next /\ UNCHANGED <<part, marketVars, fetcherVars>>
    \/ part = "marketplace" /\ Market!Next /\ UNCHANGED <<part, vars, fetcherVars>>
    \/ part = "fetchers" /\ Fetcher!Next /\ UNCHANGED <<part, vars, marketVars>>

\* Passes keep coming (RequeueAfter, the work queue's back-off, the five-minute resync),
\* each call has a timeout, and time passes.  Failures are moves, so there are finitely
\* many: a call that fails for ever is outside these behaviours.
MCFairness ==
    /\ WF_vars(part = "content" /\ PassStep /\ UNCHANGED rd)
    /\ WF_vars(part = "content" /\ TimePasses)
    /\ WF_marketVars(part = "marketplace" /\ Market!PassStep)
    /\ WF_marketVars(part = "marketplace" /\ Market!IntervalEnds)
    /\ WF_fetcherVars(part = "fetchers" /\ Fetcher!FetchStep)

MCSpec == MCInit /\ [][MCNext]_mcVars /\ MCFairness

-----------------------------------------------------------------------------
\* What the operator keeps of its upstreams is never worse than what it read.  A listed
\* entry loses neither its row nor its archive to a catalog that cannot be read, a failed
\* download or a crash, a deleted marketplace leaves nothing, and the skills of a
\* complete pass are those of one commit (reconcileStage2, markSyncedTrue).  NotModified
\* is the answer only for the upstream's own content, a git copy is that of its recorded
\* commit, and no clone outlives its fetch (gitFetcher, s3Fetcher, gcsFetcher, httpFetcher).
MirrorKept ==
    /\ [](part = "content" => TypeOK)
    /\ [](part = "marketplace" => Market!TypeOK /\ Market!RowHasArchive /\ Market!NothingLeftBehind)
    /\ [](part = "fetchers" => Fetcher!TypeOK /\ Fetcher!GitPinned /\ Fetcher!CloneRemoved)
    /\ [][part = "marketplace" => Market!ListedIsKept /\ Market!SkillsOfOneRevision]_mcVars
    /\ [][part = "fetchers" => Fetcher!NotModifiedIsCurrent]_mcVars

\* Once the upstream and the failures leave it alone, what is published is the upstream's
\* for good: the file of a content object, the rows and archives of a marketplace, the
\* copy of a fetched source.
NewRevisionLands ==
    <>[](CASE part = "content" -> Landed
           [] part = "marketplace" -> Market!MirrorCurrent
           [] part = "fetchers" -> Fetcher!FetchCurrent)

=============================================================================
