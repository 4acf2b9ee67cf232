--------------------------- MODULE HydrateLedger ---------------------------
(***************************************************************************)
(* `ach-cli env hydrate` and `env uninstall` on one workspace, one         *)
(* environment and one agent tool: the commit sequence of                  *)
(* internal/cli/hydrate/commit.go with the publish and sync engine of      *)
(* wiring.go.  The ledger is <ach-dir>/state-<platform>.json: one row for  *)
(* every file, or block of a shared file, that the engine wrote and may    *)
(* later update or remove.  Files are published one at a time (step 10),   *)
(* stale ones are removed one at a time (step 11), and only then is the    *)
(* ledger replaced (step 12).  A crash, an I/O error or a drift refusal    *)
(* may stop the run between any two of these, and the user edits the same  *)
(* files whenever they like.                                               *)
(*                                                                         *)
(* A plugin contributes a file-owned rule file, whose path every plugin    *)
(* shares, and a marked block of the host memory file (CLAUDE.md).         *)
(* Content is abstracted to who wrote it: a plugin's version, or the user. *)
(* Content is passed through unconverted, so a row's Hash is its           *)
(* SourceHash.  An absent state file and one without rows are the same     *)
(* ledger, <<>>: no step tells them apart.  The workspace lock is held     *)
(* from Begin to the end of the run, so at most one run is active.         *)
(***************************************************************************)
EXTENDS Integers, Sequences, SequencesExt, FiniteSets, FiniteSetsExt

CONSTANTS NPlugins,    \* plugins are 1..NPlugins, in the order of their names
          MaxVer,      \* bound: versions upstream publishes of a plugin
          Kinds,       \* what a plugin ships: a subset of {"rule", "block"}
          Commands,    \* the invocations users make, a subset of AllCommands
          Departures,  \* may a plugin leave the environment?
          Aborts,      \* may a run be killed or fail with an I/O error?
          None, User   \* no content; content the user wrote

Plugins == 1..NPlugins

(* --conflict policies; --only cannot be combined with --sync. *)
Policies == {"namespace", "skip", "overwrite", "refuse"}

AllCommands ==
    {c \in [op : {"hydrate", "uninstall"}, only : {0} \cup Plugins,
            sync : BOOLEAN, force : BOOLEAN, policy : Policies] :
        c.sync => c.op = "hydrate" /\ c.only = 0}

ASSUME HydrateAssumption ==
    /\ NPlugins \in Nat \ {0} /\ MaxVer \in Nat \ {0}
    /\ Kinds \subseteq {"rule", "block"} /\ Commands \subseteq AllCommands
    /\ Departures \in BOOLEAN /\ Aborts \in BOOLEAN /\ None # User

(* Places the engine writes to.  <<"rule", 0>> is the path a rule file      *)
(* projects to, <<"rule", p>> the same path with p's name prefixed to its   *)
(* leaf, <<"block", p>> p's marked block of the memory file.                *)
Bare == <<"rule", 0>>
Slots == ({"rule"} \X (0..NPlugins)) \cup ({"block"} \X Plugins)
IsBlock(s) == s[1] = "block"

(* The path of the file a slot lies in: the Target its row records. *)
Target(s) == IF IsBlock(s) THEN <<"block", 0>> ELSE s

Versions == Plugins \X (1..MaxVer)
Contents == Versions \cup {None, User}
Row == [slot : Slots, owner : Plugins, hash : Versions]
Write == [slot : Slots, plugin : Plugins]

VARIABLES
    env,     \* the environment upstream: each plugin's version, 0 if not in it
    disk,    \* the content of every slot
    memory,  \* does the memory file exist?
    ledger,  \* the rows of state-<platform>.json
    run,     \* the active invocation, run.pc = "idle" if there is none
    touched, \* slots the user changed since the active run began, {} if none is
    edited   \* slots holding a user edit of a file the ledger tracked then

vars == <<env, disk, memory, ledger, run, touched, edited>>

Idle == [pc |-> "idle"]

(* What a run holds in memory: the command, the loaded rows, the versions   *)
(* staged, the writes still to publish, the rows published, the rows still  *)
(* to sync away, and the ledger it will write.                              *)
ActiveRun == [pc : {"read", "fetch", "publish", "sync"}, cmd : Commands,
              prior : Seq(Row), staged : [Plugins -> 0..MaxVer],
              todo : Seq(Write), rows : Seq(Row), dels : Seq(Row),
              next : Seq(Row)]

TypeOK ==
    /\ env \in [Plugins -> 0..MaxVer]
    /\ disk \in [Slots -> Contents]
    /\ memory \in BOOLEAN
    /\ ledger \in Seq(Row)
    /\ run = Idle \/ run \in ActiveRun
    /\ touched \subseteq Slots
    /\ edited \subseteq Slots

Init ==
    /\ env \in [Plugins -> 0..1]
    /\ disk = [s \in Slots |-> None]
    /\ memory = FALSE
    /\ ledger = <<>>
    /\ run = Idle
    /\ touched = {}
    /\ edited = {}

----------------------------------------------------------------------------
(* Rows.                                                                    *)

Owners(rows) == {r.owner : r \in ToSet(rows)}
Tracked(rows, s) == \E r \in ToSet(rows) : r.slot = s

(* findEntry: the first row recorded for the path of slot s. *)
RowsAt(rows, s) == SelectSeq(rows, LAMBDA r : Target(r.slot) = Target(s))
HasEntry(rows, s) == RowsAt(rows, s) # <<>>
findEntry(rows, s) == Head(RowsAt(rows, s))

Exists(s) == IF IsBlock(s) THEN memory ELSE disk[s] # None

(* step4ReconcileVsDisk: rows whose file is gone are dropped silently. *)
pruneMissing(rows) == SelectSeq(rows, LAMBDA r : Exists(r.slot))

----------------------------------------------------------------------------
(* Projection: which writes a run makes, and where they land.               *)

Partial(cmd) == cmd.only # 0
\* Mutant: what an earlier run left staged is projected too.
StagedByStale(cmd, man) == IF Partial(cmd) THEN {cmd.only} ELSE Plugins

StagedBy(cmd, man) == IF Partial(cmd) THEN {cmd.only} \cap {p \in Plugins : man[p] # 0}
                                      ELSE {p \in Plugins : man[p] # 0}

(* Pass A: every staged plugin's writes, plugins in the order of their names. *)
WritesOf(p) ==
    (IF "rule" \in Kinds THEN <<[slot |-> Bare, plugin |-> p]>> ELSE <<>>) \o
    (IF "block" \in Kinds THEN <<[slot |-> <<"block", p>>, plugin |-> p]>> ELSE <<>>)
ProjectedWrites(staged) ==
    FlattenSeq([i \in 1..Cardinality(staged) |-> WritesOf(SetToSortSeq(staged, <)[i])])

(* installedClaims: on an --only run the other plugins are not staged, so   *)
(* their installed rule files stand in for them in collision resolution.    *)
installedClaims(cmd, prior, staged) ==
    IF Partial(cmd) /\ "rule" \in Kinds
    THEN {r.owner : r \in {x \in ToSet(prior) :
             x.owner \notin staged /\ x.slot \in {Bare, <<"rule", x.owner>>}}}
    ELSE {}

(* resolvePluginCollisions: two plugins writing the same rule path.         *)
Collides(staged, claims) == "rule" \in Kinds /\ Cardinality(staged \cup claims) >= 2

\* Mutant: --conflict=overwrite prefers the staged file to an installed one.
CollisionRefusedLess(cmd, staged, claims) ==
    Collides(staged, claims) /\ staged # {} /\ cmd.policy = "refuse"

CollisionRefused(cmd, staged, claims) ==
    /\ Collides(staged, claims) /\ staged # {}
    /\ \/ cmd.policy = "refuse"
       \/ cmd.policy = "overwrite" /\ claims # {}

KeepsRule(cmd, staged, claims, p) ==
    CASE cmd.policy = "skip" -> claims = {} /\ p = Min(staged)
      [] cmd.policy = "overwrite" -> p = Max(staged)
      [] OTHER -> TRUE

Resolved(cmd, staged, claims) ==
    LET writes == ProjectedWrites(staged)
        land(w) == IF w.slot = Bare /\ cmd.policy = "namespace"
                   THEN [w EXCEPT !.slot = <<"rule", w.plugin>>] ELSE w
        kept == SelectSeq(writes, LAMBDA w :
                    w.slot = Bare => KeepsRule(cmd, staged, claims, w.plugin))
    IN  IF Collides(staged, claims) THEN [i \in 1..Len(kept) |-> land(kept[i])]
                                    ELSE writes

----------------------------------------------------------------------------
(* publishFile: one write, judged against the prior row of its path.        *)

(* priorPluginRow: an --only run takes only the plugin's own rows. *)
PriorRows(cmd, prior, w) ==
    IF Partial(cmd) THEN SelectSeq(prior, LAMBDA r : r.owner = w.plugin) ELSE prior

Fresh(w, staged) == <<w.plugin, staged[w.plugin]>>

(* compareDrift with the ShouldExit2 arms, after the heal: disk content     *)
(* that already is what would be written is never drift.                    *)
Drift(rows, w, fresh) ==
    /\ HasEntry(rows, w.slot)
    /\ disk[w.slot] # findEntry(rows, w.slot).hash
    /\ disk[w.slot] # fresh

(* The no-op arm: nothing is written when a prior row exists and disk and   *)
(* upstream are both unchanged (or the heal applies).                       *)
NoOp(rows, w, fresh) ==
    /\ HasEntry(rows, w.slot)
    /\ disk[w.slot] = fresh

RefusesDrift(cmd, rows, w, fresh) == Drift(rows, w, fresh) /\ ~cmd.force

----------------------------------------------------------------------------
(* composeNextState and Sync.                                               *)

\* Mutant: --only appends the fresh rows and keeps the item's old ones.
composeNextStateAppend(cmd, prior, rows) == IF Partial(cmd) THEN prior \o rows ELSE rows

(* --only swaps the item's rows and carries the others forward; a full run  *)
(* replaces the bucket.                                                     *)
composeNextState(cmd, prior, rows) ==
    IF Partial(cmd)
    THEN SelectSeq(prior, LAMBDA r : r.owner # cmd.only) \o rows
    ELSE rows

\* Mutant: a row the next state records with another hash is dropped.
uncoveredByHash(next, e) == e \notin ToSet(next)

(* syncKeep.uncovered: a row is removed when the next state no longer       *)
(* records its contribution: any row on the path of a file-owned row, the   *)
(* same block for a composite row.                                          *)
uncovered(next, e) ==
    IF IsBlock(e.slot) THEN ~\E r \in ToSet(next) : r.slot = e.slot
                       ELSE ~\E r \in ToSet(next) : Target(r.slot) = Target(e.slot)

(* Without --sync only the rows of plugins that still project are candidates *)
(* (keptPluginRows). *)
SyncCandidates(cmd, prior, next) ==
    IF cmd.op = "uninstall" \/ cmd.sync THEN prior
    ELSE SelectSeq(prior, LAMBDA r : r.owner \in Owners(next))

Dels(cmd, prior, next) ==
    SelectSeq(SyncCandidates(cmd, prior, next), LAMBDA r : uncovered(next, r))

\* Mutant: the drift-wins gate is missing.
RemovesAlways(cmd, e) == Exists(e.slot)

(* syncOne with its drift-wins gate: does it remove the row's content?      *)
Removes(cmd, e) ==
    /\ Exists(e.slot) /\ disk[e.slot] # None
    /\ cmd.force \/ disk[e.slot] = e.hash

----------------------------------------------------------------------------
(* A run, step by step.                                                     *)

(* The user's changes are of interest while a run is active. *)
EndsTouch == touched' = IF run' = Idle THEN {} ELSE touched
Touch(S) == touched' = IF run = Idle THEN {} ELSE touched \cup S

(* Steps 1 and 2: take the lock, sweep tmp.  A contended lock ends the      *)
(* invocation, or keeps it waiting, without any effect.                     *)
Begin(cmd) ==
    /\ run = Idle
    /\ cmd.op = "uninstall" => ledger # <<>>
    /\ run' = [pc |-> "read", cmd |-> cmd, prior |-> <<>>,
               staged |-> [p \in Plugins |-> 0], todo |-> <<>>, rows |-> <<>>,
               dels |-> <<>>, next |-> <<>>]
    /\ UNCHANGED <<env, disk, memory, ledger, touched, edited>>

(* Steps 3 and 4: load the ledger and reconcile it with the disk. *)
ReadState ==
    /\ run.pc = "read" /\ run.cmd.op = "hydrate"
    /\ run' = [run EXCEPT !.pc = "fetch", !.prior = pruneMissing(ledger)]
    /\ UNCHANGED <<env, disk, memory, ledger, edited>>
    /\ EndsTouch

(* Steps 5 to 9: the manifest and the plugin archives, staged under tmp;    *)
(* then the collisions are resolved.  An --only item that is not in the     *)
(* environment, and a refused collision, end the run.                       *)
Fetch ==
    LET cmd == run.cmd
        staged == StagedBy(cmd, env)
        claims == installedClaims(cmd, run.prior, staged)
    IN  /\ run.pc = "fetch"
        /\ run' = IF (Partial(cmd) /\ staged = {}) \/ CollisionRefused(cmd, staged, claims)
                  THEN Idle
                  ELSE [run EXCEPT !.pc = "publish", !.todo = Resolved(cmd, staged, claims),
                            !.staged = [p \in Plugins |-> IF p \in staged THEN env[p] ELSE 0]]
        /\ UNCHANGED <<env, disk, memory, ledger, edited>>
        /\ EndsTouch

(* Step 10, one file.  A refused file ends the run with exit code 2: what   *)
(* was published before it stays, and the ledger is not written.            *)
Publish ==
    /\ run.pc = "publish" /\ run.todo # <<>>
    /\ LET w == Head(run.todo)
           rows == PriorRows(run.cmd, run.prior, w)
           fresh == Fresh(w, run.staged)
       IN  IF RefusesDrift(run.cmd, rows, w, fresh)
           THEN run' = Idle /\ UNCHANGED <<disk, memory, edited>>
           ELSE /\ run' = [run EXCEPT !.todo = Tail(run.todo),
                           !.rows = Append(run.rows,
                              [slot |-> w.slot, owner |-> w.plugin, hash |-> fresh])]
                /\ disk' = IF NoOp(rows, w, fresh) THEN disk ELSE [disk EXCEPT ![w.slot] = fresh]
                /\ memory' = (memory \/ (IsBlock(w.slot) /\ ~NoOp(rows, w, fresh)))
                /\ edited' = IF run.cmd.force THEN edited \ {w.slot} ELSE edited
    /\ UNCHANGED <<env, ledger>>
    /\ EndsTouch

(* Step 11 begins: compose the next state and collect what it drops.        *)
Compose ==
    /\ run.pc = "publish" /\ run.todo = <<>>
    /\ LET next == composeNextState(run.cmd, run.prior, run.rows)
       IN  run' = [run EXCEPT !.pc = "sync", !.next = next,
                              !.dels = Dels(run.cmd, run.prior, next)]
    /\ UNCHANGED <<env, disk, memory, ledger, edited>>
    /\ EndsTouch

(* runUninstall: load the ledger under the lock; the survivors are the      *)
(* other items' rows.  --only of an item no row names is an error.          *)
UninstallRead ==
    /\ run.pc = "read" /\ run.cmd.op = "uninstall"
    /\ LET next == SelectSeq(ledger, LAMBDA r : Partial(run.cmd) /\ r.owner # run.cmd.only)
       IN  run' = IF next = ledger THEN Idle
                  ELSE [run EXCEPT !.pc = "sync", !.prior = ledger, !.next = next,
                                   !.dels = Dels(run.cmd, ledger, next)]
    /\ UNCHANGED <<env, disk, memory, ledger, edited>>
    /\ EndsTouch

(* Step 11, one row: remove the file or the block, or preserve it. *)
SyncOne ==
    /\ run.pc = "sync" /\ run.dels # <<>>
    /\ LET e == Head(run.dels)
       IN  /\ disk' = IF Removes(run.cmd, e) THEN [disk EXCEPT ![e.slot] = None] ELSE disk
           /\ edited' = IF run.cmd.force THEN edited \ {e.slot} ELSE edited
    /\ run' = [run EXCEPT !.dels = Tail(run.dels)]
    /\ UNCHANGED <<env, memory, ledger>>
    /\ EndsTouch

(* Steps 12 to 14 (cleanupState for an uninstall): replace the ledger in    *)
(* one rename, sweep tmp, release the lock.                                 *)
WriteState ==
    /\ run.pc = "sync" /\ run.dels = <<>>
    /\ ledger' = run.next
    /\ run' = Idle
    /\ UNCHANGED <<env, disk, memory, edited>>
    /\ EndsTouch

(* A kill, or an I/O error, between two steps: the kernel drops the lock. *)
Abort ==
    /\ Aborts /\ run # Idle
    /\ run' = Idle
    /\ UNCHANGED <<env, disk, memory, ledger, edited>>
    /\ EndsTouch

----------------------------------------------------------------------------
(* The user and the hub.                                                    *)

(* An edit in place of content the engine wrote. *)
UserEdits(s) ==
    /\ disk[s] \in Versions
    /\ disk' = [disk EXCEPT ![s] = User]
    /\ Touch({s})
    /\ edited' = IF Tracked(ledger, s) THEN edited \cup {s} ELSE edited
    /\ UNCHANGED <<env, memory, ledger, run>>

(* Deleting a rule file, or a block out of the memory file. *)
UserDeletes(s) ==
    /\ disk[s] # None
    /\ disk' = [disk EXCEPT ![s] = None]
    /\ Touch({s})
    /\ edited' = edited \ {s}
    /\ UNCHANGED <<env, memory, ledger, run>>

UserDeletesMemory ==
    /\ memory /\ memory' = FALSE
    /\ disk' = [s \in Slots |-> IF IsBlock(s) THEN None ELSE disk[s]]
    /\ Touch({s \in Slots : IsBlock(s)})
    /\ edited' = {s \in edited : ~IsBlock(s)}
    /\ UNCHANGED <<env, ledger, run>>

(* Upstream publishes a version of a plugin, adds it or removes it. *)
UpstreamChanges(p, v) ==
    /\ v # env[p] /\ (v = 0 => Departures)
    /\ env' = [env EXCEPT ![p] = v]
    /\ UNCHANGED <<disk, memory, ledger, run, touched, edited>>

Next ==
    \/ \E cmd \in Commands : Begin(cmd)
    \/ ReadState \/ Fetch \/ Publish \/ Compose \/ UninstallRead \/ SyncOne \/ WriteState
    \/ Abort
    \/ \E s \in Slots : UserEdits(s) \/ UserDeletes(s)
    \/ UserDeletesMemory
    \/ \E p \in Plugins, v \in 0..MaxVer : UpstreamChanges(p, v)

Spec == Init /\ [][Next]_vars

----------------------------------------------------------------------------
(* Properties.                                                              *)

(* No step of a run without --force overwrites or deletes a user's edit of  *)
(* a file the ledger still tracks, whatever crashes, upstream changes and   *)
(* earlier runs went before (compareDrift, the drift-wins gate of syncOne). *)
TrackedEditsKept ==
    [][\A s \in edited \cap edited' :
          disk[s] = User /\ disk'[s] # User => ~Tracked(ledger, s)]_vars

(* A row records what is on disk: when a run is about to write the ledger,  *)
(* every file it published still holds the recorded content, unless the     *)
(* user changed it meanwhile.  The sync that follows the publish never      *)
(* removes what the publish wrote (syncKeep.uncovered).                     *)
LedgerHonest ==
    run.pc = "sync" =>
        \A r \in ToSet(run.rows) : r.slot \in touched \/ disk[r.slot] = r.hash

(* A file belongs to one plugin: no two rows of the ledger name the same    *)
(* slot, so an uninstall of one plugin never unlinks another's file         *)
(* (resolvePluginCollisions with installedClaims).                          *)
OneOwnerPerFile ==
    \A i, j \in DOMAIN ledger : ledger[i].slot = ledger[j].slot => i = j

(* A run for one item, hydrate --only or uninstall --only, leaves the       *)
(* content of every other plugin's tracked files and blocks alone.          *)
OnlyTouchesItsItem ==
    [][\A r \in ToSet(ledger) :
          /\ run.pc # "idle" /\ run # run' /\ Partial(run.cmd) /\ r.owner # run.cmd.only
          /\ disk[r.slot] = r.hash
          => disk'[r.slot] = r.hash]_vars

(* "UpstreamOnlyOverwrite: upstream moved; no local edit; safe to overwrite" *)
(* (drift.go), where "multiple plugins legally co-own the host memory file"  *)
(* (projectPlugins): a write is refused as drift only when the user changed  *)
(* what it would replace.                                                    *)
DriftIsAnEdit ==
    run.pc = "publish" /\ run.todo # <<>> =>
        LET w == Head(run.todo)
        IN  RefusesDrift(run.cmd, PriorRows(run.cmd, run.prior, w), w, Fresh(w, run.staged))
            => \/ disk[w.slot] = User
               \/ \E r \in ToSet(run.prior) : r.slot = w.slot /\ disk[w.slot] # r.hash
============================================================================
