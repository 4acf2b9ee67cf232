-------------------------------- MODULE MCCli --------------------------------
(***************************************************************************)
(* The command-line client on one machine: the stores of local packages    *)
(* (installed.json), repositories (repos.json and credentials.json) and    *)
(* profiles (config.yaml), the commands that choose what a folder is       *)
(* hydrated for, and runs of several Environments in one workspace.  They  *)
(* share no file, so they are explored one at a time: the initial state    *)
(* picks one (part) and the variables of the others stay None.             *)
(***************************************************************************)
EXTENDS Naturals, TLC

CONSTANTS
    Parts,  \* the components this run explores
    termOne, termTwo, workProfile, homeProfile, plainPkg, keyedPkg, rulesFile, serverKey,
    None, User, Key

VARIABLES
    part,   \* the component this behaviour is of
    up, disk, record, run, forced, loose, runs, edits,
    head, repos, creds, cmd, halfAdded,
    file, live, issued, hubKeys, tokenLock, cliProc, lost, clobber, bare, calls,
    exists, achdirs, files, own, envLocks, pulls, pullRuns, fails, spoils, mine,
    manifest, dir, lockfile, saved, rows, skillDirs, holder, hydrates, starts, dry,
    listEdits, unlinked, lapped

pkgVars ==
    <<up, disk, record, run, forced, loose, runs, edits>>
repoVars ==
    <<head, repos, creds, cmd, halfAdded>>
sessVars ==
    <<file, live, issued, hubKeys, tokenLock, cliProc, lost, clobber, bare, calls>>
pullVars ==
    <<exists, achdirs, files, own, envLocks, pulls, pullRuns, fails, spoils, mine>>
workVars ==
    <<manifest, dir, lockfile, saved, rows, skillDirs, holder, hydrates, starts, dry,
      listEdits, unlinked, lapped>>
mcVars == <<part, pkgVars, repoVars, sessVars, pullVars, workVars>>

\* The terminals are interchangeable.
Symmetry == Permutations({termOne, termTwo})

\* Two packages of one repository: they ship the same file, then different ones, and
\* each version contributes to the shared configuration or not.
MCShips == plainPkg :> <<rulesFile :> "x" @@ serverKey :> "a1", rulesFile :> "a2">>
        @@ keyedPkg :> <<rulesFile :> "x", rulesFile :> "b2" @@ serverKey :> "b2">>

\* Revisions of a repository: what Detect finds in each.
TreeOf(market, roots, plugin, skill) ==
    [market |-> market, skillsAt |-> roots, plugin |-> plugin, skill |-> skill]
MCTrees == << TreeOf(FALSE, {"skills"}, TRUE, FALSE), TreeOf(TRUE, {"", "skills"}, TRUE, FALSE),
              TreeOf(FALSE, {""}, FALSE, TRUE), TreeOf(FALSE, {}, FALSE, FALSE) >>

\* A folder nothing was hydrated into, and one with two Environments.
MCEarlier == {{}, {<<"e", "claude-code">>, <<"e", "codex">>, <<"f", "codex">>}}

\* Bound: a folder starts with tools the user set up or with Environments hydrated into
\* it; one with both comes of a command.
PullStarts == own # {} => achdirs = {}

\* Both Environments list the skill x; f may add one that bears the name its own x would
\* be moved to.
MCLists(env) == IF env = "e" THEN {} ELSE {{<<"x">>, <<"f", "x">>}}

\* A folder nothing was hydrated into, and one where e has x and f has f-x.
MCHydrated == {<<>>, <<"e", "f">>}

PkgRefs == {plainPkg, keyedPkg}
PkgTargets == {"codex"}
PkgFiles == {rulesFile}
PkgShared == {serverKey}
PkgNamesakes == {<<keyedPkg, rulesFile>>}

Pkg == INSTANCE LocalPackages WITH
          Refs <- PkgRefs, Targets <- PkgTargets, Files <- PkgFiles, Shared <- PkgShared,
          MaxVer <- 2, Ships <- MCShips, Namesakes <- PkgNamesakes, MaxRuns <- 2, MaxEdits
          <- 1

RepoRepos == {"x", "y"}

Repo == INSTANCE RepoRegistry WITH
          Repos <- RepoRepos, Trees <- MCTrees, MaxRev <- 4

SessProcs == {termOne, termTwo}
SessNames == {workProfile, homeProfile}
SessKeyNames == {serverKey}
SessOps == {"token", "api", "create", "revoke", "login", "logout", "add", "use", "remove",
    "rename"}

Sess == INSTANCE CliSession WITH
          Procs <- SessProcs, Names <- SessNames, KeyNames <- SessKeyNames, MaxTok <- 3,
          MaxRuns <- 3, Ops <- SessOps, lock <- tokenLock, proc <- cliProc, runs <- calls

PullProcs == {termOne, termTwo}
PullEnvOrder == <<"e", "f">>
PullTargetOrder == <<"claude-code", "codex">>
PullOwnSets == {{}, {"claude-code"}}

Pull == INSTANCE WorkspacePull WITH
          Procs <- PullProcs, EnvOrder <- PullEnvOrder, TargetOrder <- PullTargetOrder,
          OwnSets <- PullOwnSets, Earlier <- MCEarlier, MaxRuns <- 2, MaxFails <- 1,
          MaxSpoils <- 1, lock <- envLocks, proc <- pulls, runs <- pullRuns

WorkProcs == {1, 2}
WorkEnvs == {"e", "f"}
WorkListed == [e \in {"e", "f"} |-> {<<"x">>}]

Work == INSTANCE WorkspaceRuns WITH
          Procs <- WorkProcs, Envs <- WorkEnvs, Listed <- WorkListed, Lists <- MCLists,
          Earlier <- MCHydrated, MaxStarts <- 3, MaxDry <- 1, MaxEdits <- 1, disk <-
          skillDirs, proc <- hydrates, edits <- listEdits

NoPkg ==
    /\ up = None /\ disk = None /\ record = None /\ run = None /\ forced = None
    /\ loose = None /\ runs = None /\ edits = None

NoRepo ==
    /\ head = None /\ repos = None /\ creds = None /\ cmd = None /\ halfAdded = None

NoSess ==
    /\ file = None /\ live = None /\ issued = None /\ hubKeys = None /\ tokenLock = None
    /\ cliProc = None /\ lost = None /\ clobber = None /\ bare = None /\ calls = None

NoPull ==
    /\ exists = None /\ achdirs = None /\ files = None /\ own = None /\ envLocks = None
    /\ pulls = None /\ pullRuns = None /\ fails = None /\ spoils = None /\ mine = None

NoWork ==
    /\ manifest = None /\ dir = None /\ lockfile = None /\ saved = None /\ rows = None
    /\ skillDirs = None /\ holder = None /\ hydrates = None /\ starts = None
    /\ dry = None /\ listEdits = None /\ unlinked = None /\ lapped = None

MCInit ==
    /\ part \in Parts
    /\ IF part = "packages" THEN Pkg!Init ELSE NoPkg
    /\ IF part = "repos" THEN Repo!Init ELSE NoRepo
    /\ IF part = "session" THEN Sess!Init ELSE NoSess
    /\ IF part = "pull" THEN Pull!Init /\ PullStarts ELSE NoPull
    /\ IF part = "workspace" THEN Work!Init ELSE NoWork

MCNext ==
    \/ /\ part = "packages" /\ Pkg!Next
       /\ UNCHANGED <<part, repoVars, sessVars, pullVars, workVars>>
    \/ part = "repos" /\ Repo!Next /\ UNCHANGED <<part, pkgVars, sessVars, pullVars, workVars>>
    \/ /\ part = "session" /\ Sess!Next
       /\ UNCHANGED <<part, pkgVars, repoVars, pullVars, workVars>>
    \/ part = "pull" /\ Pull!Next /\ UNCHANGED <<part, pkgVars, repoVars, sessVars, workVars>>
    \/ /\ part = "workspace" /\ Work!Next
       /\ UNCHANGED <<part, pkgVars, repoVars, sessVars, pullVars>>

MCSpec == MCInit /\ [][MCNext]_mcVars

-----------------------------------------------------------------------------
\* The client's records are true between commands that fail or are killed at any step:
\* what a package wrote is in installed.json and no file is recorded for two packages
\* (saveInstalledOnError, ownersAt), an entry of repos.json lists what its revision
\* provides and a token outlives its entry only where an add stopped half-way
\* (resolveAndDetect), and the default profile is a profile (RemoveProfile).
RecordsTrue ==
    CASE part = "packages" -> Pkg!TypeOK /\ Pkg!FilesStayTracked /\ Pkg!OneOwnerPerFile
      [] part = "repos" -> Repo!TypeOK /\ Repo!LensesOfRevision /\ Repo!NoTokenWithoutEntry
      [] part = "session" -> Sess!TypeOK /\ Sess!DefaultExists
      [] part = "pull" -> Pull!TypeOK
      [] part = "workspace" -> Work!TypeOK

\* Commands that only refresh never strand the session of a profile, the token helper,
\* which loads inside its lock, never spends a token another helper rotated away, and
\* saving a credential keeps the keys saved in the profile (newTokenCmd, SetCred).
SessionKept ==
    /\ [](part = "session" => Sess!RefreshersKeepSession /\ Sess!HelperSeesRotation)
    /\ [][part = "session" => Sess!SavedKeysKept]_mcVars

\* Commands in one folder leave each other's work alone: a package's command the other
\* packages' files, all from one revision (FetchCache); a pull that exits 0 has done all
\* it took on, an unreadable state file removes nothing and a failed clone keeps the
\* user's folder (runHydrateWorkspace, runUninstall, newEnvCloneCmd); one run at a time
\* holds an Environment's directory, and no run writes over or renames a skill that the
\* state of an Environment records (Acquire, ForeignSkillNames, StageName).
WorkspaceKept ==
    /\ [][part = "packages" => Pkg!OthersKept /\ Pkg!OneRevisionPerRun]_mcVars
    /\ [](part = "pull" =>
            Pull!ExitZeroDidAll /\ Pull!UnreadableRemovesNothing /\ Pull!UsersFolderStays)
    /\ [](part = "workspace" => Work!HeldUnlessUnlinked)
    /\ [][part = "workspace" => Work!IncumbentKept /\ Work!NameKept]_mcVars

=============================================================================
