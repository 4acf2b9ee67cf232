---------------------------- MODULE SharedConfig ----------------------------
(***************************************************************************)
(* The agent tool's own configuration file (.mcp.json), which every        *)
(* environment hydrated into a workspace shares with the user.  ach-cli    *)
(* processes merge their environment's servers into it and prune them out  *)
(* of it: publishFile and syncOne of internal/cli/hydrate/wiring.go for a  *)
(* deep-merged file, over MergeDoc and PruneDottedKeys of                  *)
(* internal/cli/merge/merge.go.  Each merge is a read of the document and, *)
(* later, an atomic replacement of it.  Processes exclude each other by an *)
(* flock in <ach-dir>, and <ach-dir> is a directory of the environment.    *)
(*                                                                         *)
(* The document maps server ids to entries; an entry is abstracted to the  *)
(* environment and version that rendered it, or to the user.  The state    *)
(* file holds one row for the document: the keys contributed and the hash  *)
(* of that subtree, represented by the subtree itself.                     *)
(***************************************************************************)
EXTENDS Integers, FiniteSets

CONSTANTS Procs,      \* ach-cli processes
          Envs,       \* environments hydrated into the workspace
          Servers,    \* server ids, the keys of the document
          ServersOf,  \* ServersOf[e]: the ids environment e may expose
          MaxVer,     \* bound: versions of an environment's rendered entries
          Ops,        \* the invocations made, a subset of AllOps
          Aborts,     \* may a process be killed or fail between two steps?
          None, User

AllOps == [uninstall : BOOLEAN, force : BOOLEAN]

Entries == (Envs \X (1..MaxVer)) \cup {User}
Docs == [Servers -> Entries \cup {None}]
Subtrees == UNION {[K -> Entries] : K \in SUBSET Servers}

VARIABLES
    upstream, \* upstream[e]: the servers e exposes and their version
    doc,      \* the document; without entries it does not exist
    row,      \* row[e]: the keys and the subtree the state file records, or None
    lock,     \* lock[e]: the process that holds <ach-dir>/lock, or None
    proc      \* proc[p]: what process p is doing

vars == <<upstream, doc, row, lock, proc>>

Idle == [pc |-> "idle"]
Row == [keys : SUBSET Servers, sub : Subtrees]
Active == [pc : {"load", "check", "merge", "write", "sync", "prune", "rewrite", "save"},
           env : Envs, op : Ops, prior : Row \cup {None}, fresh : Row \cup {None},
           copy : Docs]

TypeOK ==
    /\ upstream \in [Envs -> [servers : SUBSET Servers, ver : 1..MaxVer]]
    /\ doc \in Docs
    /\ row \in [Envs -> Row \cup {None}]
    /\ lock \in [Envs -> Procs \cup {None}]
    /\ \A p \in Procs : proc[p] = Idle \/ proc[p] \in Active

Init ==
    /\ upstream = [e \in Envs |-> [servers |-> ServersOf[e], ver |-> 1]]
    /\ doc = [k \in Servers |-> None]
    /\ row = [e \in Envs |-> None]
    /\ lock = [e \in Envs |-> None]
    /\ proc = [p \in Procs |-> Idle]

----------------------------------------------------------------------------
(* Documents.                                                               *)

(* ExtractByKeys: the subtree of the keys that are present. *)
ExtractByKeys(d, keys) == [k \in {x \in keys : d[x] # None} |-> d[k]]
Empty(d) == \A k \in Servers : d[k] = None

(* renderMcpJSON: what environment e contributes. *)
Rendered(e) == [keys |-> upstream[e].servers,
                sub |-> [k \in upstream[e].servers |-> <<e, upstream[e].ver>>]]

\* Mutant: the rendered document replaces the one on disk.
DeepMergeIntoNothing(d, sub) == sub

(* DeepMergeInto and PruneDottedKeys. *)
DeepMergeInto(d, sub) == [k \in Servers |-> IF k \in DOMAIN sub THEN sub[k] ELSE d[k]]
PruneDottedKeys(d, keys) == [k \in Servers |-> IF k \in keys THEN None ELSE d[k]]

(* deepHashes and compareDrift: both hashes are scoped to the keys of the   *)
(* fresh render; disk content that already is the fresh one is no drift.    *)
Drift(prior, fresh) ==
    /\ prior # None
    /\ ExtractByKeys(doc, fresh.keys) # prior.sub
    /\ ExtractByKeys(doc, fresh.keys) # fresh.sub
Unchanged(prior, fresh) == prior # None /\ ExtractByKeys(doc, fresh.keys) = fresh.sub

(* syncKeep.uncovered: the keys of the prior row the next state lacks. *)
uncovered(prior, fresh) ==
    IF prior = None THEN {}
    ELSE IF fresh = None THEN prior.keys ELSE prior.keys \ fresh.keys

\* Mutant: there is no gate.
PreservesNothing(p) == FALSE

(* The drift-wins gate of syncOne, over the recorded key set. *)
Preserves(p) ==
    LET now == ExtractByKeys(doc, proc[p].prior.keys)
    IN  ~proc[p].op.force /\ DOMAIN now # {} /\ now # proc[p].prior.sub

----------------------------------------------------------------------------
(* A process.                                                               *)

Goto(p, pc) == proc' = [proc EXCEPT ![p].pc = pc]

(* The lock is released by Release or by the kernel when the process dies. *)
End(p) ==
    /\ proc' = [proc EXCEPT ![p] = Idle]
    /\ lock' = [lock EXCEPT ![proc[p].env] = None]

\* Mutant: a contended lock is taken for an acquired one.
AcquireAnyway(p, e, op) ==
    /\ proc[p] = Idle
    /\ lock' = [lock EXCEPT ![e] = p]
    /\ proc' = [proc EXCEPT ![p] = [pc |-> "load", env |-> e, op |-> op, prior |-> None,
                                    fresh |-> None, copy |-> [k \in Servers |-> None]]]
    /\ UNCHANGED <<upstream, doc, row>>

(* Step 1: flock(LOCK_EX).  Contended, the command fails or waits. *)
Acquire(p, e, op) ==
    /\ proc[p] = Idle /\ lock[e] = None
    /\ lock' = [lock EXCEPT ![e] = p]
    /\ proc' = [proc EXCEPT ![p] = [pc |-> "load", env |-> e, op |-> op, prior |-> None,
                                    fresh |-> None, copy |-> [k \in Servers |-> None]]]
    /\ UNCHANGED <<upstream, doc, row>>

(* Steps 3 and 4 (the row of a missing file is dropped); an uninstall loads *)
(* without reconciling, and ends when nothing is installed.                 *)
Load(p) ==
    LET e == proc[p].env
        un == proc[p].op.uninstall
    IN  /\ proc[p].pc = "load"
        /\ IF un /\ row[e] = None THEN End(p)
           ELSE /\ proc' = [proc EXCEPT ![p].pc = IF un THEN "sync" ELSE "check",
                               ![p].prior = IF Empty(doc) /\ ~un THEN None ELSE row[e]]
                /\ UNCHANGED lock
        /\ UNCHANGED <<upstream, doc, row>>

(* Steps 5 to 10: the manifest, the render and the drift verdict.  A        *)
(* manifest without servers writes nothing (hasDirectRuntime).              *)
Check(p) ==
    LET fresh == Rendered(proc[p].env)
        prior == proc[p].prior
    IN  /\ proc[p].pc = "check"
        /\ IF fresh.keys = {} THEN Goto(p, "sync") /\ UNCHANGED lock
           ELSE IF Drift(prior, fresh) /\ ~proc[p].op.force THEN End(p)
           ELSE /\ proc' = [proc EXCEPT ![p].fresh = fresh,
                               ![p].pc = IF Unchanged(prior, fresh) THEN "sync" ELSE "merge"]
                /\ UNCHANGED lock
        /\ UNCHANGED <<upstream, doc, row>>

(* MergeDoc reads the document again, merges, and replaces it. *)
MergeRead(p) ==
    /\ proc[p].pc = "merge"
    /\ proc' = [proc EXCEPT ![p].copy = doc, ![p].pc = "write"]
    /\ UNCHANGED <<upstream, doc, row, lock>>

MergeWrite(p) ==
    /\ proc[p].pc = "write"
    /\ doc' = DeepMergeInto(proc[p].copy, proc[p].fresh.sub)
    /\ Goto(p, "sync")
    /\ UNCHANGED <<upstream, row, lock>>

(* Step 11: keys the next state no longer claims are pruned, unless the     *)
(* recorded subtree was edited.                                             *)
Sync(p) ==
    /\ proc[p].pc = "sync"
    /\ Goto(p, IF uncovered(proc[p].prior, proc[p].fresh) = {} \/ Empty(doc) \/ Preserves(p)
               THEN "save" ELSE "prune")
    /\ UNCHANGED <<upstream, doc, row, lock>>

PruneRead(p) ==
    /\ proc[p].pc = "prune"
    /\ proc' = [proc EXCEPT ![p].copy = doc, ![p].pc = "rewrite"]
    /\ UNCHANGED <<upstream, doc, row, lock>>

PruneWrite(p) ==
    /\ proc[p].pc = "rewrite"
    /\ doc' = PruneDottedKeys(proc[p].copy, uncovered(proc[p].prior, proc[p].fresh))
    /\ Goto(p, "save")
    /\ UNCHANGED <<upstream, row, lock>>

(* Step 12 and the release of the lock. *)
Save(p) ==
    /\ proc[p].pc = "save"
    /\ row' = [row EXCEPT ![proc[p].env] = proc[p].fresh]
    /\ End(p)
    /\ UNCHANGED <<upstream, doc>>

Abort(p) ==
    /\ Aborts /\ proc[p] # Idle
    /\ End(p)
    /\ UNCHANGED <<upstream, doc, row>>

----------------------------------------------------------------------------
(* The user and the hub.  MergeForward's documented limit is that an editor *)
(* save between its read and its rename is clobbered: the user saves when   *)
(* no process is between the drift check and its write.                     *)

InWindow(p) == proc[p].pc \in {"merge", "write", "prune", "rewrite"}

UserSaves(k, v) ==
    /\ \A p \in Procs : ~InWindow(p)
    /\ doc[k] # v
    /\ doc' = [doc EXCEPT ![k] = v]
    /\ UNCHANGED <<upstream, row, lock, proc>>

Publish(e, S, v) ==
    /\ upstream[e] # [servers |-> S, ver |-> v]
    /\ upstream' = [upstream EXCEPT ![e] = [servers |-> S, ver |-> v]]
    /\ UNCHANGED <<doc, row, lock, proc>>

Next ==
    \/ \E p \in Procs :
          \/ \E e \in Envs, op \in Ops : Acquire(p, e, op)
          \/ Load(p) \/ Check(p) \/ MergeRead(p) \/ MergeWrite(p)
          \/ Sync(p) \/ PruneRead(p) \/ PruneWrite(p) \/ Save(p) \/ Abort(p)
    \/ \E k \in Servers, v \in {User, None} : UserSaves(k, v)
    \/ \E e \in Envs, v \in 1..MaxVer : \E S \in SUBSET ServersOf[e] : Publish(e, S, v)

Spec == Init /\ [][Next]_vars

----------------------------------------------------------------------------
(* Properties.                                                              *)

(* The keys a process may write: its render's and its prior row's. *)
Contributed(p) ==
    LET of(r) == IF r = None THEN {} ELSE r.keys
    IN  of(proc[p].prior) \cup of(proc[p].fresh)

(* A merge or a prune changes only keys of the process's own environment:   *)
(* whatever other processes and the user wrote since stays in the document. *)
(* "The <achDir>/lock flock excludes other ach-cli processes" (MergeForward *)
(* in merge.go).                                                            *)
WritesOnlyItsKeys ==
    \A p \in Procs :
        proc[p].pc \in {"write", "rewrite"} /\ doc' # doc =>
            \A k \in Servers \ Contributed(p) : doc'[k] = doc[k]

(* A process without --force never overwrites or removes an entry the user  *)
(* edited, if the row it loaded covers that entry: deepHashes looks at the  *)
(* keys it is about to write only, the gate of syncOne at all it recorded.  *)
TrackedEntriesKept ==
    \A p \in Procs : \A k \in Servers :
        /\ InWindow(p) /\ doc' # doc /\ ~proc[p].op.force
        /\ doc[k] = User /\ doc'[k] # User
        => proc[p].prior = None \/ k \notin proc[p].prior.keys
============================================================================
