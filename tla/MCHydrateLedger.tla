--------------------------- MODULE MCHydrateLedger ---------------------------
(***************************************************************************)
(* What a hydrate leaves in a workspace: the ledger under full runs of two *)
(* plugins that contribute blocks of one memory file, and under runs for   *)
(* one item of plugins that ship the same rule file; the tool's            *)
(* configuration document shared by two processes; the projection of       *)
(* plugin trees onto five tools; and the way of one item from its archive  *)
(* to the workspace.  They share no variable but the ledger's, so they are *)
(* explored one at a time: the initial state picks one (part) and the      *)
(* variables of the others stay at rest.                                   *)
(***************************************************************************)
EXTENDS HydrateLedger, TLC

CONSTANTS
    Parts  \* the components this run explores


VARIABLES
    part,   \* the component this behaviour is of
    upstream, doc, row, lock, proc,
    tool, plugins, runtime, projectPc, at, unwalked, fws, claimed, all, dropped, placed,
    toolDoc, blocks, recorded,
    kind, source, served, listed, pc, command, next, stage, bytes, tree, from, runs, changes

configVars ==
    <<upstream, doc, row, lock, proc>>
projectVars ==
    <<tool, plugins, runtime, projectPc, at, unwalked, fws, claimed, all, dropped, placed,
      toolDoc, blocks, recorded>>
deliverVars ==
    <<kind, source, served, listed, pc, command, next, stage, bytes, tree, from, runs,
      changes>>
mcVars == <<part, vars, configVars, projectVars, deliverVars>>

Hydrate(only, sync, force, policy) ==
    [op |-> "hydrate", only |-> only, sync |-> sync, force |-> force, policy |-> policy]
Uninstall(only, force) ==
    [op |-> "uninstall", only |-> only, sync |-> FALSE, force |-> force, policy |-> "namespace"]

BlockOnly == {"block"}

\* Full hydrates with and without --sync and --force, and an uninstall.
FullCommands ==
    {Hydrate(0, FALSE, FALSE, "namespace"), Hydrate(0, TRUE, FALSE, "namespace"),
     Hydrate(0, FALSE, TRUE, "namespace"), Uninstall(0, FALSE)}

\* Runs for one item under every collision policy, beside a full hydrate.
ItemCommands ==
    {Hydrate(0, FALSE, FALSE, "namespace"), Uninstall(2, TRUE)}
    \cup {Hydrate(2, FALSE, FALSE, policy) : policy \in Policies}

\* Upstream moves while a run is about to read the manifest: no other step reads env, so
\* the states that would differ in it alone are not told apart.
UpstreamMovesWhenRead == env' # env => run.pc = "fetch"

\* Hydrates with and without --force, and an uninstall, of the shared document.
MCOps == {[uninstall |-> FALSE, force |-> f] : f \in BOOLEAN} \cup {[uninstall |-> TRUE, force |-> FALSE]}

\* The files a plugin may ship, in the order of the walk, and pairs of plugins that ship
\* up to two of them.
File(kind0, path, ext) == [kind |-> kind0, path |-> path, ext |-> ext, user |-> FALSE, ids |-> {}]
ServerDoc(kind0, ids) == [File(kind0, <<<<"m">>>>, "json") EXCEPT !.ids = ids]
Skill(name, user) == [File("skills", <<name, <<"SKILL">>>>, "md") EXCEPT !.user = user]
Catalog ==
    <<ServerDoc(".mcp.json", {<<"s">>, <<"t">>}), File("AGENTS.md", <<>>, "md"),
      File("agents", <<<<"x">>>>, "md"), File("commands", <<<<"x">>>>, "md"),
      File("commands", <<<<"x">>>>, "toml"), File("hooks", <<<<"x">>>>, "json"),
      ServerDoc("mcp", {<<"u">>}), File("rules", <<<<"b", "x">>>>, "md"),
      File("rules", <<<<"x">>>>, "md"), Skill(<<"x">>, TRUE)>>
Subtrees(n) ==
    {[i \in 1..Cardinality(S) |-> Catalog[SetToSortSeq(S, <)[i]]] :
        S \in UNION {kSubset(j, DOMAIN Catalog) : j \in 0..n}}
Plugin(name, base, files) == [name |-> name, base |-> base, tree |-> files]
MCPluginSets ==
    {<<Plugin(<<"a">>, <<"a">>, one), Plugin(<<"b">>, <<"b">>, two)>> :
        one \in Subtrees(2), two \in {<<>>, <<File("rules", <<<<"x">>>>, "md")>>,
            <<ServerDoc(".mcp.json", {<<"s">>}), File("AGENTS.md", <<>>, "md")>>}}
    \cup {<<Plugin(<<"a@m">>, <<"a">>, one), Plugin(<<"a@n">>, <<"a">>, two)>> :
        one \in {<<Skill(<<"x">>, FALSE)>>, <<File("commands", <<<<"x">>>>, "md")>>},
        two \in {<<Skill(<<"x">>, TRUE)>>, <<File("commands", <<<<"x">>>>, "md")>>}}

\* Archives of one to three entries: with and without a manifest, links, names that leave
\* the root or collide, and sizes around the cap.
Tar(type, name, text, size) == [type |-> type, name |-> name, body |-> text, size |-> size]
UpTo(S, n) == UNION {[1..j -> S] : j \in 1..n}
PluginJSON == Tar("reg", <<".claude-plugin", "plugin.json">>, "m", 1)
MCSources(kind0) ==
    CASE kind0 = "skill" -> UpTo({
             Tar("reg", <<"SKILL.md">>, "good", 1), Tar("reg", <<"d", "SKILL.md">>, "bad", 1),
             Tar("dir", <<"d">>, "", 0), Tar("reg", <<"d">>, "x", 2),
             Tar("symlink", <<"l">>, "", 0), Tar("reg", <<"..">>, "x", 1)}, 2)
      [] kind0 = "plugin" -> {<<Tar("reg", <<"junk">>, "z", 1)>>} \cup {<<PluginJSON>> \o more :
             more \in UpTo({
                 PluginJSON, Tar("reg", <<"src", "main">>, "x", 1),
                 Tar("reg", <<"src", "lib">>, "y", 2), Tar("reg", <<"junk">>, "z", 1),
                 Tar("reg", <<"hooks">>, "h", 1), Tar("symlink", <<"l">>, "", 0)}, 2)}
      [] kind0 = "prompt" -> {<<Tar("raw", <<"p.md">>, "p", 1)>>, <<Tar("raw", <<"p.md">>, "q", 4)>>}
      [] kind0 = "artifact" -> UpTo({
             Tar("dir", <<"d">>, "", 0), Tar("reg", <<"d", "f">>, "x", 1),
             Tar("reg", <<"g">>, "y", 2)}, 2)

ItemKinds == {"rule"}

Item == INSTANCE HydrateLedger WITH
          MaxVer <- 1, Kinds <- ItemKinds, Commands <- ItemCommands

ConfigProcs == {"p", "q"}
ConfigEnvs == {"e"}
ConfigServers == {"s", "t"}
ConfigServersOf == [e \in {"e"} |-> {"s", "t"}]

Config == INSTANCE SharedConfig WITH
          Procs <- ConfigProcs, Envs <- ConfigEnvs, Servers <- ConfigServers, ServersOf <-
          ConfigServersOf, MaxVer <- 1, Ops <- MCOps, Aborts <- TRUE

ProjectAdapters == {"claude-code", "codex", "gemini-cli", "opencode", "pi"}
ProjectRuntimes == {{}, {<<"s">>}}
ProjectPolicies == {"namespace", "overwrite"}
ProjectScopes == {"workspace", "env"}

Project == INSTANCE Projection WITH
          Adapters <- ProjectAdapters, PluginSets <- MCPluginSets, Runtimes <-
          ProjectRuntimes, Policies <- ProjectPolicies, Scopes <- ProjectScopes, pc <-
          projectPc, rest <- unwalked, disk <- placed, doc <- toolDoc, rows <- recorded

DeliverKinds == {"skill", "plugin", "prompt", "artifact"}
Deliverrefs == {<<"src", "main">>}

Deliver == INSTANCE Deliverables WITH
          Kinds <- DeliverKinds, Sources <- MCSources, refs <- Deliverrefs, MaxEntries <- 3,
          MaxBytes <- 2, MaxRuns <- 2, MaxChanges <- 1, run <- command

\* The ledger at rest: its properties are evaluated in every part.
NoLedger == Init /\ env = [p \in Plugins |-> 0]

NoConfig ==
    /\ upstream = None /\ doc = None /\ row = None /\ lock = None /\ proc = None

NoProject ==
    /\ tool = None /\ plugins = None /\ runtime = None /\ projectPc = None /\ at = None
    /\ unwalked = None /\ fws = None /\ claimed = None /\ all = None /\ dropped = None
    /\ placed = None /\ toolDoc = None /\ blocks = None /\ recorded = None

NoDeliver ==
    /\ kind = None /\ source = None /\ served = None /\ listed = None /\ pc = None
    /\ command = None /\ next = None /\ stage = None /\ bytes = None /\ tree = None
    /\ from = None /\ runs = None /\ changes = None

MCInit ==
    /\ part \in Parts
    /\ CASE part = "full" -> Init [] part = "item" -> Item!Init [] OTHER -> NoLedger
    /\ IF part = "shared" THEN Config!Init ELSE NoConfig
    /\ IF part = "projection" THEN Project!Init ELSE NoProject
    /\ IF part = "delivery" THEN Deliver!Init ELSE NoDeliver

MCNext ==
    \/ part = "full" /\ Next /\ UNCHANGED <<part, configVars, projectVars, deliverVars>>
    \/ part = "item" /\ Item!Next /\ UNCHANGED <<part, configVars, projectVars, deliverVars>>
    \/ part = "shared" /\ Config!Next /\ UNCHANGED <<part, vars, projectVars, deliverVars>>
    \/ part = "projection" /\ Project!Next /\ UNCHANGED <<part, vars, configVars, deliverVars>>
    \/ part = "delivery" /\ Deliver!Next /\ UNCHANGED <<part, vars, configVars, projectVars>>

MCSpec == MCInit /\ [][MCNext]_mcVars

-----------------------------------------------------------------------------
\* What a run installs is whole and its own.  A merge or a prune of the shared document
\* writes only its environment's keys and keeps tracked edits (MergeForward); every routed
\* file of every plugin is installed once, no write shadows another, servers attached to
\* the Environment survive, and an uninstall leaves nothing (project, matchRule,
\* dropRuntimeOwnedMCP); a published item is all of one served archive within its cap, and
\* one the operator accepted extracts (ExtractTar, VerifySkill, addReference).
InstalledIsWhole ==
    /\ [](part = "full" => TypeOK) /\ [](part = "item" => Item!TypeOK)
    /\ [](part = "shared" => Config!TypeOK)
    /\ [][part = "shared" => Config!WritesOnlyItsKeys /\ Config!TrackedEntriesKept]_mcVars
    /\ [](part = "projection" =>
            /\ Project!TypeOK /\ Project!OneWritePerDest /\ Project!RoutedIsInstalled
            /\ Project!RuntimeKept /\ Project!NothingLeft)
    /\ [][part = "projection" => Project!NoSilentShadow]_mcVars
    /\ [](part = "delivery" =>
            /\ Deliver!TypeOK /\ Deliver!PublishedWhole /\ Deliver!CapHolds
            /\ Deliver!AcceptedExtracts /\ Deliver!ReferencedKept)

=============================================================================
