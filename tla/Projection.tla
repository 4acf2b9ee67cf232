----------------------------- MODULE Projection -----------------------------
(***************************************************************************)
(* How a hydrate turns plugin trees into the files of one agent tool: the  *)
(* rule tables of the five adapters, the routing engine of                 *)
(* internal/cli/adapter/route and the dispatcher of hydrate/wiring.go      *)
(* (Render, projectPlugins, resolvePluginCollisions, dropRuntimeOwnedMCP). *)
(* The walk of a tree is taken file by file, then collisions between       *)
(* plugins are resolved, then the runtime's MCP servers and the surviving  *)
(* writes are published one by one; an error stops the run and leaves what *)
(* was published.  A later uninstall takes back what the rows record.      *)
(*                                                                         *)
(* A name is the sequence of its atoms: joining two names with "-" joins   *)
(* the sequences, so <<a>> and <<b, c>> meet <<a, b>> and <<c>>.  An MCP   *)
(* server id is the sequence of its dot-separated parts.  Content is the   *)
(* file it comes from.  The workspace holds nothing of ours at first, so   *)
(* no drift verdict is met: those are HydrateLedger's and SharedConfig's.  *)
(***************************************************************************)
EXTENDS Integers, Sequences, SequencesExt, FiniteSets, FiniteSetsExt

CONSTANTS Adapters,   \* the tools explored, a subset of the five
          PluginSets, \* sequences of plugins, in the order of their names
          Runtimes,   \* sets of server ids the Environment attaches directly
          Policies,   \* --conflict values
          Scopes,     \* "workspace", "home" or "env": where global paths go
          None

VARIABLES
    tool,     \* [adapter, scope, policy]: what the run was invoked with
    plugins,  \* the extracted plugin trees: [name, base, tree]
    runtime,  \* the ids of the manifest's runtime servers
    pc,       \* "render", "walk", "resolve", "publish", "done", "failed" or "gone"
    at,       \* the plugin being walked or, publishing, the next write
    rest,     \* the files of that plugin still to walk
    fws,      \* its writes so far
    claimed,  \* the file-owned destinations it claims: the index of the write
    all,      \* the writes of the plugins walked before it
    dropped,  \* component kinds the tool has no place for
    disk,     \* the file at each destination: the write that put it there
    doc,      \* the tool's config document: who wrote each server
    blocks,   \* the plugins with a block in the host memory file
    rows      \* what the run records: the writes with the keys published

vars == <<tool, plugins, runtime, pc, at, rest, fws, claimed, all, dropped, disk, doc,
          blocks, rows>>

KnownComponentKinds == {"rules", "commands", "agents", "skills", "mcp", ".mcp.json",
                        "prompts", "AGENTS.md", "hooks"}

----------------------------------------------------------------------------
(* Rule tables.  A rule takes the files of a kind (with an extension, or    *)
(* any) to a directory, perhaps under another extension, perhaps converted, *)
(* or folds them into one document or memory file.                          *)

Plain(from, dir) ==
    [from |-> from, ext |-> "any", to |-> dir, toExt |-> "same", merge |-> "replace",
     conv |-> FALSE, prefix |-> "none", sep |-> "-", commands |-> None]
Only(r, ext) == [r EXCEPT !.ext = ext]
Converting(r, toExt) == [r EXCEPT !.conv = TRUE, !.toExt = toExt]
Prefixing(r, kind, sep) == [r EXCEPT !.prefix = kind, !.sep = sep]
Into(from, target, how) == [Plain(from, target) EXCEPT !.merge = how, !.conv = how = "deep"]
Servers(target) == <<Into("mcp", target, "deep"), Into(".mcp.json", target, "deep")>>

ClaudeRules ==
    <<Plain("rules", <<".claude", "rules">>),
      Prefixing(Only(Plain("commands", <<".claude", "commands">>), "md"), "command", "/"),
      Plain("agents", <<".claude", "agents">>),
      Prefixing(Plain("skills", <<".claude", "skills">>), "skill", ":"),
      Into("AGENTS.md", <<"", "CLAUDE.md">>, "composite")>>
    \o Servers(<<"", ".mcp.json">>)

CodexRules ==
    <<Prefixing(Only(Plain("commands", <<".codex", "prompts">>), "md"), "command", "-"),
      Prefixing(Plain("skills", <<".agents", "skills">>), "skill", "-"),
      Converting(Only(Plain("agents", <<".codex", "agents">>), "md"), "toml")>>
    \o Servers(<<".codex", "config.toml">>)

GeminiRules ==
    LET commands == Prefixing(Plain("commands", <<".gemini", "commands">>), "command", "/")
    IN  <<Plain("agents", <<".gemini", "agents">>),
          Plain("prompts", <<".gemini", "prompts">>),
          Converting(Only(commands, "md"), "toml"),
          Only(commands, "toml"),
          Prefixing(Plain("skills", <<".gemini", "skills">>), "skill", "-"),
          Into("AGENTS.md", <<"", "GEMINI.md">>, "composite")>>
        \o Servers(<<".gemini", "settings.json">>)

OpencodeRules ==
    LET commands == <<".opencode", "commands">>
        skills == Prefixing(Plain("skills", <<".opencode", "skills">>), "skill", "-")
    IN  <<Converting(Prefixing(Only(Plain("commands", commands), "md"), "command", "-"), "same"),
          Converting(Only(Plain("agents", <<".opencode", "agents">>), "md"), "same"),
          [skills EXCEPT !.commands = commands]>>
        \o Servers(<<".opencode", "opencode.json">>)

PiRules ==
    <<Prefixing(Only(Plain("commands", <<".pi", "prompts">>), "md"), "command", "-"),
      Prefixing(Plain("skills", <<".pi", "skills">>), "skill", "-")>>
    \o Servers(<<".pi", "mcp.json">>)

ProjectionRules ==
    CASE tool.adapter = "claude-code" -> ClaudeRules
      [] tool.adapter = "codex"       -> CodexRules
      [] tool.adapter = "gemini-cli"  -> GeminiRules
      [] tool.adapter = "opencode"    -> OpencodeRules
      [] tool.adapter = "pi"          -> PiRules

(* The document the tool reads its servers from, and who writes it besides  *)
(* the plugins.                                                             *)
ConfigPath == Last(ProjectionRules).to
Runtime == <<"runtime">>

----------------------------------------------------------------------------
(* Routing one file.                                                        *)

Anchored(f) == SelectSeq(ProjectionRules, LAMBDA r : r.from = f.kind)
Fits(r, f) == r.ext \in {"any", f.ext}

\* As if a file took the first rule of its kind, whatever its extension.
matchRuleFirst(f) == Head(Anchored(f))

matchRule(f) ==
    LET fitting == SelectSeq(Anchored(f), LAMBDA r : Fits(r, f))
    IN  IF fitting # <<>> THEN Head(fitting) ELSE Head(Anchored(f))

(* resolveRecursiveGlobTarget: the path below the rule's directory, with    *)
(* the extension of the rule's target; one file for a rule that folds.      *)
Target(r, f) ==
    IF r.merge # "replace" THEN [dir |-> r.to, segs |-> <<>>, ext |-> None]
    ELSE [dir |-> r.to, segs |-> f.path, ext |-> IF r.toExt = "same" THEN f.ext ELSE r.toExt]

Join(base, sep, name) == IF sep = "-" THEN base \o name ELSE base \o <<sep>> \o name

(* applyPrefix: the plugin's name goes into a skill's directory or into a   *)
(* command's path.  A file directly under skills/ keeps its path.           *)
applyPrefix(r, base, d) ==
    CASE r.prefix = "skill" /\ Len(d.segs) >= 2 ->
            [d EXCEPT !.segs[1] = Join(base, r.sep, @)]
      [] r.prefix = "command" /\ r.sep = "/" -> [d EXCEPT !.segs = <<base>> \o @]
      [] r.prefix = "command" /\ r.sep # "/" -> [d EXCEPT !.segs[1] = Join(base, r.sep, @)]
      [] OTHER -> d

(* The servers a document names.  Every conversion (MCPDeepKeys,            *)
(* codexMCPSurgery, opencodeMCPConvert) keeps one entry and one key for     *)
(* each of them.                                                            *)
ServerIds(f) == f.ids

WriteOf(p, r, f, d) ==
    [plugin |-> p.name, src |-> f, dest |-> d, merge |-> r.merge, conv |-> r.conv,
     ids |-> ServerIds(f)]

(* A user-only SKILL.md, for a tool without slash invocation of skills, is  *)
(* written as a command too.                                                *)
IsUserOnly(r, f) == r.commands # None /\ f.user /\ Len(f.path) = 2
ExtraOf(p, r, f) ==
    WriteOf(p, [r EXCEPT !.conv = TRUE], f,
            [dir |-> r.commands, segs |-> <<Join(p.base, r.sep, f.path[1])>>, ext |-> "md"])

Claim(c, d, i) == [x \in DOMAIN c \cup {d} |-> IF x = d THEN i ELSE c[x]]

(* appendExtra: a command of the plugin's own with that name wins. *)
appendExtra(r, f, p) ==
    IF ~IsUserOnly(r, f) \/ ExtraOf(p, r, f).dest \in DOMAIN claimed
    THEN [writes |-> fws, claims |-> claimed]
    ELSE [writes |-> Append(fws, ExtraOf(p, r, f)),
          claims |-> Claim(claimed, ExtraOf(p, r, f).dest, Len(fws) + 1)]

----------------------------------------------------------------------------
(* RemapGlobalPath: a global run writes below the tool's home directory,    *)
(* or below the directory its environment variable names.                   *)
Home(root) == CASE root = ".opencode" -> ".config/opencode"
                [] root = ".pi"       -> ".pi/agent"
                [] OTHER              -> root

Remapped(d) ==
    IF \/ d[1] \notin {".claude", ".codex", ".gemini", ".opencode", ".pi"}
       \/ d[1] = ".pi" /\ d[2] \notin {"skills", "prompts"}
    THEN d
    ELSE CASE tool.scope = "workspace" -> d
           [] tool.scope = "home"      -> <<Home(d[1]), d[2]>>
           [] tool.scope = "env"       -> <<"$CONFIG", d[2]>>
RemapGlobalPath(w) == [w EXCEPT !.dest.dir = Remapped(@)]

----------------------------------------------------------------------------
Init ==
    /\ tool \in [adapter : Adapters, scope : Scopes, policy : Policies]
    /\ plugins \in PluginSets
    /\ runtime \in Runtimes
    /\ pc = "render" /\ at = 1 /\ rest = Head(plugins).tree
    /\ fws = <<>> /\ claimed = <<>> /\ all = <<>> /\ dropped = {}
    /\ disk = <<>> /\ doc = <<>> /\ blocks = {} /\ rows = {}

DeepMergeInto(who, ids) == [i \in DOMAIN doc \cup ids |-> IF i \in ids THEN who ELSE doc[i]]

(* RenderRuntime, before any plugin: the servers attached to the            *)
(* Environment.  An Environment without any writes nothing.                 *)
RenderRuntime ==
    /\ pc = "render" /\ pc' = "walk"
    /\ doc' = DeepMergeInto(Runtime, runtime)
    /\ rows' = IF runtime = {} THEN {}
               ELSE {[plugin |-> Runtime, merge |-> "deep", ids |-> runtime,
                      dest |-> [dir |-> Remapped(ConfigPath), segs |-> <<>>, ext |-> None]]}
    /\ UNCHANGED <<tool, plugins, runtime, at, rest, fws, claimed, all, dropped, disk, blocks>>

(* A kind without a rule is reported if it is a component kind. *)
DropFile(f) ==
    /\ Anchored(f) = <<>>
    /\ dropped' = dropped \cup ({f.kind} \cap KnownComponentKinds)
    /\ UNCHANGED <<fws, claimed, pc>>

(* An extension that no rule of the kind takes is skipped in silence. *)
SkipFile(f) ==
    /\ Anchored(f) # <<>> /\ ~Fits(matchRule(f), f)
    /\ UNCHANGED <<fws, claimed, pc, dropped>>

(* A routed file.  Of two files of the plugin with one destination the      *)
(* native one stays; two alike are an error.                                *)
RouteFile(f) ==
    /\ Anchored(f) # <<>> /\ Fits(matchRule(f), f)
    /\ LET p == plugins[at]
           r == matchRule(f)
           w == WriteOf(p, r, f, applyPrefix(r, p.base, Target(r, f)))
           e == appendExtra(r, f, p)
           taken == r.merge = "replace" /\ w.dest \in DOMAIN e.claims
           other == e.writes[e.claims[w.dest]]
       IN  IF ~taken
           THEN /\ fws' = Append(e.writes, w)
                /\ claimed' = IF r.merge = "replace"
                              THEN Claim(e.claims, w.dest, Len(e.writes) + 1) ELSE e.claims
                /\ pc' = pc
           ELSE /\ fws' = IF other.conv /\ ~w.conv
                          THEN [e.writes EXCEPT ![e.claims[w.dest]] = w] ELSE e.writes
                /\ claimed' = e.claims
                /\ pc' = IF other.conv = w.conv THEN "failed" ELSE pc
    /\ UNCHANGED dropped

Walk ==
    /\ pc = "walk" /\ rest # <<>>
    /\ \/ DropFile(Head(rest))
       \/ SkipFile(Head(rest))
       \/ RouteFile(Head(rest))
    /\ rest' = Tail(rest)
    /\ UNCHANGED <<tool, plugins, runtime, at, all, disk, doc, blocks, rows>>

EndPlugin ==
    /\ pc = "walk" /\ rest = <<>>
    /\ all' = all \o [i \in DOMAIN fws |-> RemapGlobalPath(fws[i])]
    /\ fws' = <<>> /\ claimed' = <<>>
    /\ IF at < Len(plugins)
       THEN at' = at + 1 /\ rest' = plugins[at + 1].tree /\ pc' = pc
       ELSE at' = 1 /\ rest' = rest /\ pc' = "resolve"
    /\ UNCHANGED <<tool, plugins, runtime, dropped, disk, doc, blocks, rows>>

----------------------------------------------------------------------------
(* resolvePluginCollisions: file-owned destinations two plugins write.      *)

At(d) == {i \in DOMAIN all : all[i].merge = "replace" /\ all[i].dest = d}
Collides(w) == w.merge = "replace" /\ Cardinality(At(w.dest)) > 1

(* namespace.Leaf with the plugin's full name: on the skill's directory, or *)
(* on the file; a segment that is the name already stays.                   *)
Leaf(w) ==
    LET k == IF w.dest.dir[2] = "skills" THEN 1 ELSE Len(w.dest.segs)
    IN  IF w.dest.segs[k] = w.plugin THEN w
        ELSE [w EXCEPT !.dest.segs[k] = w.plugin \o @]

Survives(i) ==
    LET w == all[i]
    IN  ~Collides(w) \/ CASE tool.policy = "skip"      -> i = Min(At(w.dest))
                          [] tool.policy = "overwrite" -> i = Max(At(w.dest))
                          [] OTHER                     -> TRUE

Resolve ==
    /\ pc = "resolve"
    /\ IF tool.policy = "refuse" /\ \E i \in DOMAIN all : Collides(all[i])
       THEN pc' = "failed" /\ all' = all
       ELSE LET kept == SetToSortSeq({i \in DOMAIN all : Survives(i)}, <)
                land(w) == IF Collides(w) /\ tool.policy = "namespace" THEN Leaf(w) ELSE w
            IN  pc' = "publish" /\ all' = [k \in DOMAIN kept |-> land(all[kept[k]])]
    /\ UNCHANGED <<tool, plugins, runtime, at, rest, fws, claimed, dropped, disk, doc, blocks,
                   rows>>

----------------------------------------------------------------------------
(* Publishing.                                                              *)

(* RemoveDottedKey and GetDottedKey split a key at every dot, so they only  *)
(* find a server whose id has none.                                         *)
Reachable(ids) == {i \in ids : Len(i) = 1}

\* As if the servers were dropped only when all of them clash.
dropRuntimeOwnedMCPWhole(ids) ==
    IF ids \subseteq runtime THEN [keys |-> {}, content |-> {}]
                             ELSE [keys |-> ids, content |-> ids]

(* dropRuntimeOwnedMCP: a server the runtime owns leaves the plugin's       *)
(* document and its keys.                                                   *)
dropRuntimeOwnedMCP(ids) ==
    LET clash == ids \cap runtime
    IN  [keys |-> ids \ clash, content |-> ids \ Reachable(clash)]

\* As if the published destinations were not checked again.
ClashesNever(w) == FALSE

(* finalClaimed: another plugin published this destination. *)
Clashes(w) == \E r \in rows : r.merge = "replace" /\ r.dest = w.dest /\ r.plugin # w.plugin

\* As if one row were kept for each target.
RecordByTarget(w, keys) ==
    {r \in rows : r.dest # w.dest}
    \cup {[plugin |-> w.plugin, merge |-> w.merge, dest |-> w.dest, ids |-> keys]}

Record(w, keys) ==
    rows \cup {[plugin |-> w.plugin, merge |-> w.merge, dest |-> w.dest, ids |-> keys]}

PublishReplace(w) ==
    /\ w.merge = "replace" /\ ~Clashes(w)
    /\ disk' = [d \in DOMAIN disk \cup {w.dest} |-> IF d = w.dest THEN w ELSE disk[d]]
    /\ rows' = Record(w, {})
    /\ at' = at + 1
    /\ UNCHANGED <<pc, doc, blocks>>

PublishClash(w) ==
    /\ w.merge = "replace" /\ Clashes(w)
    /\ pc' = "failed"
    /\ UNCHANGED <<at, disk, doc, blocks, rows>>

PublishComposite(w) ==
    /\ w.merge = "composite"
    /\ blocks' = blocks \cup {w.plugin}
    /\ rows' = Record(w, {w.plugin})
    /\ at' = at + 1
    /\ UNCHANGED <<pc, disk, doc>>

PublishDeep(w) ==
    /\ w.merge = "deep"
    /\ LET left == dropRuntimeOwnedMCP(w.ids)
       IN  IF left.keys = {} /\ w.ids # {} THEN UNCHANGED <<doc, rows>>
           ELSE doc' = DeepMergeInto(w.plugin, left.content) /\ rows' = Record(w, left.keys)
    /\ at' = at + 1
    /\ UNCHANGED <<pc, disk, blocks>>

Publish ==
    /\ pc = "publish" /\ at <= Len(all)
    /\ \/ PublishReplace(all[at]) \/ PublishClash(all[at])
       \/ PublishComposite(all[at]) \/ PublishDeep(all[at])
    /\ UNCHANGED <<tool, plugins, runtime, rest, fws, claimed, all, dropped>>

EndRun ==
    /\ pc = "publish" /\ at > Len(all)
    /\ pc' = "done"
    /\ UNCHANGED <<tool, plugins, runtime, at, rest, fws, claimed, all, dropped, disk, doc,
                   blocks, rows>>

(* uninstall: the files, blocks and keys of the rows. *)
Uninstall ==
    LET files == {r.dest : r \in {x \in rows : x.merge = "replace"}}
        keys == UNION {r.ids : r \in {x \in rows : x.merge = "deep"}}
    IN  /\ pc = "done" /\ pc' = "gone"
        /\ disk' = [d \in DOMAIN disk \ files |-> disk[d]]
        /\ doc' = [i \in DOMAIN doc \ Reachable(keys) |-> doc[i]]
        /\ blocks' = blocks \ {r.plugin : r \in {x \in rows : x.merge = "composite"}}
        /\ rows' = {}
        /\ UNCHANGED <<tool, plugins, runtime, at, rest, fws, claimed, all, dropped>>

Next == RenderRuntime \/ Walk \/ EndPlugin \/ Resolve \/ Publish \/ EndRun \/ Uninstall

Spec == Init /\ [][Next]_vars

----------------------------------------------------------------------------
TypeOK ==
    /\ pc \in {"render", "walk", "resolve", "publish", "done", "failed", "gone"}
    /\ at \in 1..(Len(all) + Len(plugins) + 1)
    /\ DOMAIN claimed \subseteq {w.dest : w \in ToSet(fws)}
    /\ \A d \in DOMAIN claimed : claimed[d] \in DOMAIN fws
    /\ dropped \subseteq KnownComponentKinds
    /\ \A d \in DOMAIN disk : disk[d].dest = d
    /\ \A i \in DOMAIN doc : doc[i] \in {Runtime} \cup {p.name : p \in ToSet(plugins)}
    /\ blocks \subseteq {p.name : p \in ToSet(plugins)}

(* A plugin writes a destination once: a component shipped in two formats,  *)
(* or a user-only skill with a command of its name, yields one write, so no *)
(* state row is judged against another's bytes (project, appendExtra).      *)
OneWritePerDest ==
    \A i, j \in DOMAIN fws :
        fws[i].merge = "replace" /\ fws[j].merge = "replace" /\ fws[i].dest = fws[j].dest
        => i = j

(* After a run under --conflict=namespace every file of a component kind is *)
(* installed, gave way to its plugin's native form of the same component,   *)
(* has an extension no rule of its kind takes, or its kind is reported as   *)
(* dropped (matchRule, project, resolvePluginCollisions).                   *)
Takes(f) == {r \in ToSet(ProjectionRules) : r.from = f.kind}
Installed(p, f) == \E d \in DOMAIN disk : disk[d].plugin = p.name /\ disk[d].src = f
RoutedIsInstalled ==
    pc = "done" /\ tool.policy = "namespace" =>
        \A p \in ToSet(plugins) : \A f \in ToSet(p.tree) :
            \/ Takes(f) = {} /\ (f.kind \in KnownComponentKinds => f.kind \in dropped)
            \/ \E r \in Takes(f) : r.merge # "replace"
            \/ ~\E r \in Takes(f) : Fits(r, f)
            \/ Installed(p, f)
            \/ \E g \in ToSet(p.tree) :
                 /\ g.kind = f.kind /\ g.path = f.path /\ Installed(p, g)
                 /\ \E r \in Takes(g) : Fits(r, g) /\ ~r.conv

(* A run never writes over a file it published itself: what two plugins     *)
(* still share after the collisions were resolved is an error and not an    *)
(* overwrite (projectPlugins, Pass B).                                      *)
NoSilentShadow == \A d \in DOMAIN disk \cap DOMAIN disk' : disk'[d] = disk[d]

(* A server attached to the Environment is never overwritten or shadowed by *)
(* a plugin's server of the same id (dropRuntimeOwnedMCP).                  *)
RuntimeKept ==
    pc \notin {"render", "gone"} => \A i \in runtime : doc[i] = Runtime

(* An uninstall takes back every file, block and server the run wrote: each *)
(* is in a row (publishFile, projectPlugins, PruneDottedKeys).              *)
NothingLeft == pc = "gone" => disk = <<>> /\ doc = <<>> /\ blocks = {}

=============================================================================
