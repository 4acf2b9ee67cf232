--------------------------- MODULE Deliverables ---------------------------
(***************************************************************************)
(* The way of one content item (a skill, plugin, prompt or artifact) from   *)
(* the archive its source holds to the files of a workspace: the operator's *)
(* transformation and verification of the fetched archive, and the CLI's    *)
(* hydrate, which removes the previous tree, spills and extracts the served *)
(* archive entry by entry in a staging directory and renames it into place. *)
(* Runs may die at any step; the next one sweeps the staging directory.     *)
(*                                                                          *)
(* A name is a sequence of path segments, the empty one the root itself;    *)
(* ".." as a first segment stands for every name that leaves the root.      *)
(***************************************************************************)
EXTENDS Naturals, Sequences, FiniteSets, SequencesExt

CONSTANTS
    Kinds,       \* the kinds explored, of {"skill", "plugin", "prompt", "artifact"}
    Sources(_),  \* what the source of a kind may hold: sequences of entries
    refs,        \* the paths the plugin manifest references
    MaxEntries,  \* ACH_MAX_ARCHIVE_ENTRIES
    MaxBytes,    \* the kind's extracted-bytes cap
    MaxRuns,     \* bound: commands run in the workspace
    MaxChanges,  \* bound: changes of the source and of the environment
    None

VARIABLES
    kind, source,
    served,   \* the archive the Content Service serves, None before the first success
    listed,   \* the environment's manifest lists the item
    pc, run,  \* the running command, its flags and the archive it fetched
    next,     \* the next entry to extract
    stage,    \* the staging directory's files, None when there is none
    bytes,    \* bytes the extraction wrote
    tree,     \* the published files at <achDir>/<kind>/<name>, None when absent
    from,     \* history: what the tree was published from
    runs, changes

vars == <<kind, source, served, listed, pc, run, next, stage, bytes, tree, from, runs, changes>>

Manifest == <<".claude-plugin", "plugin.json">>
ConventionDirs == {"commands", "agents", "skills", "hooks", "mcpServers"}

Proper(n) == {SubSeq(n, 1, i) : i \in 1..(Len(n) - 1)}
Escapes(n) == n # <<>> /\ Head(n) = ".."

----------------------------------------------------------------------------
(* The operator's side. *)

\* tarEntrySafe: what every extraction policy refuses. A link's target is in
\* the tree.
tarEntrySafe(e) ==
    /\ ~Escapes(e.name)
    /\ e.type \in {"reg", "symlink", "dir"}
    /\ e.type # "dir" => e.name # <<>>

IsSkillMd(e) == e.type = "reg" /\ Len(e.name) \in 1..2 /\ Last(e.name) = "SKILL.md"

VerifySkillUpToManifest(a) ==  \* As if the walk stopped at the first SKILL.md.
    \E i \in DOMAIN a :
        /\ IsSkillMd(a[i]) /\ a[i].body = "good"
        /\ \A j \in 1..i : tarEntrySafe(a[j])
        /\ \A j \in 1..(i - 1) : ~IsSkillMd(a[j])

\* VerifySkillContents: every entry is safe and the first SKILL.md, at the root
\* or one directory deep, has a valid frontmatter.
VerifySkillContents(a) ==
    /\ \A i \in DOMAIN a : tarEntrySafe(a[i])
    /\ \E i \in DOMAIN a :
          /\ IsSkillMd(a[i]) /\ a[i].body = "good"
          /\ \A j \in 1..(i - 1) : ~IsSkillMd(a[j])

\* readTarballEntries: links, devices and names with ".." are dropped.
acceptableEntry(e) == e.type \in {"reg", "dir"} /\ ~Escapes(e.name)

\* addReference: the parent of a referenced path, or the path itself at the root.
addReferenceExact(r) == r  \* As if only the referenced file were kept.
addReference(r) == IF Len(r) = 1 THEN r ELSE Front(r)

\* includePredicate: the manifest, root README and LICENSE, the convention
\* directories and the referenced directories.
includePredicate(n) ==
    \/ n \in {Manifest, <<"README.md">>, <<"LICENSE">>}
    \/ n # <<>> /\ Head(n) \in ConventionDirs
    \/ \E r \in refs : n = addReference(r) \/ addReference(r) \in Proper(n)

\* emitFiltered: the included directories and the parents of the included
\* files, parents first, then the included files in source order.
Filter(a) ==
    LET kept == SelectSeq(a, LAMBDA e : acceptableEntry(e) /\ includePredicate(e.name))
        files == SelectSeq(kept, LAMBDA e : e.type = "reg")
        dirs == {kept[i].name : i \in {j \in DOMAIN kept : kept[j].type = "dir"}}
                \cup UNION {Proper(files[i].name) : i \in DOMAIN files}
        DirEntry(n) == [type |-> "dir", name |-> n, body |-> "", size |-> 0]
        byDepth == SetToSortSeq(dirs, LAMBDA m, n : Len(m) < Len(n))
    IN [i \in DOMAIN byDepth |-> DirEntry(byDepth[i])] \o files

HasManifest(a) == \E i \in DOMAIN a : a[i].type = "reg" /\ a[i].name = Manifest

\* wrapContextBody: a raw file becomes an archive of one entry, a gzip body
\* passes as it is.
wrapContextBody(a) == IF a[1].type = "raw" THEN <<[a[1] EXCEPT !.type = "reg"]>> ELSE a

\* materializeExternalRef, steps 5.5 to 5.7.
Accepts(k, a) ==
    CASE k = "plugin" -> HasManifest(a)
      [] k = "skill" -> VerifySkillContents(a)
      [] OTHER -> TRUE
Transformed(k, a) ==
    CASE k = "plugin" -> Filter(a)
      [] k = "skill" -> a
      [] OTHER -> wrapContextBody(a)

\* A refused archive leaves the one that was served.
Materialize ==
    /\ Accepts(kind, source)
    /\ served # Transformed(kind, source)
    /\ served' = Transformed(kind, source)
    /\ UNCHANGED <<kind, source, listed, pc, run, next, stage, bytes, tree, from, runs, changes>>

----------------------------------------------------------------------------
(* The CLI's side. *)

NoRun == [cmd |-> "none", body |-> None, end |-> "none"]
NoFiles == <<>>  \* the empty function

Init ==
    /\ kind \in Kinds
    /\ source \in Sources(kind)
    /\ served = None /\ listed = TRUE
    /\ pc = "idle" /\ run = NoRun /\ next = 1
    /\ stage = None /\ bytes = 0 /\ tree = None /\ from = None
    /\ runs = 0 /\ changes = 0

\* Steps 1 to 6 of a hydrate: the lock, SweepTmp, the manifest. Skills and
\* plugins are extracted below <achDir>/tmp, so the sweep takes their last tree.
SweptTree == IF kind \in {"skill", "plugin"} THEN None ELSE tree

Begin(cmd) ==
    /\ pc = "idle" /\ runs < MaxRuns
    /\ runs' = runs + 1
    /\ run' = [NoRun EXCEPT !.cmd = cmd]
    /\ stage' = None /\ tree' = SweptTree
    /\ pc' = IF listed THEN "fetch" ELSE "compose"
    /\ UNCHANGED <<kind, source, served, listed, next, bytes, from, changes>>

\* FetchContent, always unconditional; classifyDownloadURL and
\* validateContentName passed.
FetchContent ==
    /\ pc = "fetch" /\ served # None
    /\ run' = [run EXCEPT !.body = served]
    /\ pc' = "remove"
    /\ UNCHANGED <<kind, source, served, listed, next, stage, bytes, tree, from, runs, changes>>

\* stageAndMap: delete before replace. No row of the state records a prompt's
\* or artifact's tree, so the no-op comparison never applies.
RemovePrior ==
    /\ pc = "remove"
    /\ tree' = None
    /\ pc' = "spill"
    /\ UNCHANGED <<kind, source, served, listed, run, next, stage, bytes, from, runs, changes>>

\* StagingDir and the spill to source.bin.
Spill ==
    /\ pc = "spill"
    /\ stage' = NoFiles /\ bytes' = 0 /\ next' = 1
    /\ pc' = "extract"
    /\ UNCHANGED <<kind, source, served, listed, run, tree, from, runs, changes>>

Files(s) == {n \in DOMAIN s : s[n] # "dir"}

\* MkdirAll: no part of the path is a file.
CanMkdir(s, n) == n \notin Files(s) /\ Proper(n) \cap Files(s) = {}
Mkdirs(s, ns) == [n \in DOMAIN s \cup ns |-> IF n \in DOMAIN s THEN s[n] ELSE "dir"]

WithinCapEach(e) == e.size <= MaxBytes  \* As if the budget were per entry.
\* capWriter with the budget that is left.
WithinCap(e) == bytes + e.size <= MaxBytes

\* What makes Extract stop at an entry.
Refuses(e) ==
    \/ next > MaxEntries
    \/ Escapes(e.name)
    \/ e.type \notin {"reg", "dir"}
    \/ e.type = "dir" /\ ~CanMkdir(stage, e.name)
    \/ /\ e.type = "reg"
       /\ \/ e.name = <<>> \/ Proper(e.name) \cap Files(stage) # {}
          \/ e.name \in DOMAIN stage      \* O_EXCL
          \/ ~WithinCap(e)

\* Directories are kept as "dir" in the function that stands for the disk.
ExtractEntry ==
    /\ pc = "extract" /\ next <= Len(run.body)
    /\ LET e == run.body[next] IN
       /\ ~Refuses(e)
       /\ stage' = IF e.type = "dir" THEN Mkdirs(stage, Proper(e.name) \cup ({e.name} \ {<<>>}))
                   ELSE [n \in DOMAIN Mkdirs(stage, Proper(e.name)) \cup {e.name} |->
                            IF n = e.name THEN e.body ELSE Mkdirs(stage, Proper(e.name))[n]]
       /\ bytes' = bytes + e.size
    /\ next' = next + 1
    /\ UNCHANGED <<kind, source, served, listed, pc, run, tree, from, runs, changes>>

\* The run fails; StageAndPublish's deferred RemoveAll takes the staging directory.
ExtractRefuses ==
    /\ pc = "extract" /\ next <= Len(run.body)
    /\ Refuses(run.body[next])
    /\ stage' = None /\ pc' = "idle" /\ run' = [run EXCEPT !.end = "refused"]
    /\ UNCHANGED <<kind, source, served, listed, next, bytes, tree, from, runs, changes>>

PublishAsExtracted(n) == n >= 2  \* As if entries were renamed while extracting.
PublishWhen(n) == n > Len(run.body)

\* renameAtomic: one rename of the extracted directory.
Rename ==
    /\ pc = "extract" /\ PublishWhen(next)
    /\ tree' = stage /\ from' = run.body /\ stage' = None
    /\ pc' = "compose"
    /\ UNCHANGED <<kind, source, served, listed, run, next, bytes, runs, changes>>

\* Steps 10 to 13: with --sync, Sync removes the files of the rows that
\* composeNextState drops. It writes no row for prompts and artifacts. A final
\* sweep empties <achDir>/tmp.
SyncAndWrite ==
    /\ pc = "compose"
    /\ tree' = SweptTree
    /\ pc' = "idle" /\ run' = [run EXCEPT !.end = "ok"]
    /\ UNCHANGED <<kind, source, served, listed, next, stage, bytes, from, runs, changes>>

\* runUninstall: Sync of every row against an empty state.
Uninstall ==
    /\ pc = "idle" /\ runs < MaxRuns
    /\ runs' = runs + 1
    /\ run' = [NoRun EXCEPT !.cmd = "uninstall", !.end = "ok"]
    /\ UNCHANGED <<kind, source, served, listed, pc, next, stage, bytes, tree, from, changes>>

\* A call or a write fails: 404, a broken download, a full disk.
RunFails ==
    /\ pc \in {"fetch", "remove", "spill", "extract", "compose"}
    /\ stage' = None /\ pc' = "idle" /\ run' = [run EXCEPT !.end = "failed"]
    /\ UNCHANGED <<kind, source, served, listed, next, bytes, tree, from, runs, changes>>

\* The process dies; what it staged stays until the next sweep.
Crash ==
    /\ pc # "idle"
    /\ pc' = "idle" /\ run' = [run EXCEPT !.end = "failed"]
    /\ UNCHANGED <<kind, source, served, listed, next, stage, bytes, tree, from, runs, changes>>

----------------------------------------------------------------------------
SourceChanges(a) ==
    /\ changes < MaxChanges /\ a # source
    /\ changes' = changes + 1 /\ source' = a
    /\ UNCHANGED <<kind, served, listed, pc, run, next, stage, bytes, tree, from, runs>>

Dropped ==
    /\ changes < MaxChanges /\ listed
    /\ changes' = changes + 1 /\ listed' = FALSE
    /\ UNCHANGED <<kind, source, served, pc, run, next, stage, bytes, tree, from, runs>>

Next ==
    \/ Materialize
    \/ \E cmd \in {"hydrate", "sync"} : Begin(cmd)
    \/ FetchContent \/ RemovePrior \/ Spill \/ ExtractEntry \/ ExtractRefuses \/ Rename
    \/ SyncAndWrite \/ Uninstall \/ RunFails \/ Crash
    \/ \E a \in Sources(kind) : SourceChanges(a)
    \/ Dropped

Spec == Init /\ [][Next]_vars

----------------------------------------------------------------------------
TypeOK ==
    /\ kind \in Kinds /\ source \in Sources(kind)
    /\ pc \in {"idle", "fetch", "remove", "spill", "extract", "compose"}
    /\ run.cmd \in {"none", "hydrate", "sync", "uninstall"}
    /\ run.end \in {"none", "ok", "refused", "failed"}
    /\ pc # "idle" => run.end = "none"
    /\ runs \in 0..MaxRuns /\ changes \in 0..MaxChanges

RegularOf(a) == {a[i] : i \in {j \in DOMAIN a : a[j].type = "reg"}}

\* Whatever stops a run, the item's directory is absent or holds every file of
\* one served archive and nothing else (SAFE-05: published by one rename).
PublishedWhole ==
    tree # None =>
        {<<n, tree[n]>> : n \in Files(tree)} = {<<e.name, e.body>> : e \in RegularOf(from)}

\* What one archive writes to the disk stays below its cap, in all its entries
\* together (SAFE-03).
CapHolds == bytes <= MaxBytes

\* Two files of one name, or a file that another entry uses as a directory.
Collides(a) ==
    \E i, j \in DOMAIN a :
        /\ i # j /\ a[i].type = "reg"
        /\ a[i].name = a[j].name \/ a[i].name \in Proper(a[j].name)

OverCaps(a) ==
    \/ Len(a) > MaxEntries
    \/ FoldLeft(LAMBDA sum, e : sum + e.size, 0, a) > MaxBytes

HasLinks(a) == \E i \in DOMAIN a : a[i].type = "symlink"

\* A skill or plugin that the operator accepted is refused by the CLI's
\* extraction only for its size, a link, or names that collide (F3).
AcceptedExtracts ==
    run.end = "refused" /\ kind \in {"skill", "plugin"} =>
        OverCaps(run.body) \/ HasLinks(run.body) \/ Collides(run.body)

\* The filtered plugin has every file its manifest references, and what lies
\* beside or below it.
ReferencedKept ==
    kind = "plugin" /\ Accepts(kind, source) =>
        \A e \in RegularOf(source) :
            acceptableEntry(e) /\ (\E r \in refs : r = e.name \/ (Len(r) > 1 /\ Front(r) \in Proper(e.name)))
              => e \in RegularOf(Filter(source))

============================================================================
