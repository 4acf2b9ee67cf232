--------------------------- MODULE WorkspacePull ---------------------------
(***************************************************************************)
(* The commands that decide which Environments and which agent targets of   *)
(* one folder the hydrate engine runs for: `env clone`, `env hydrate` with  *)
(* and without a name, and `env uninstall`.  Each (Environment, target) has *)
(* its own state file .ach/<env>/state-<target>.json; a bare hydrate reads  *)
(* back from those files what to hydrate again.  What one engine run does   *)
(* to the projected files is the subject of HydrateLedger.                  *)
(***************************************************************************)
EXTENDS Naturals, Sequences, FiniteSets, SequencesExt

CONSTANTS
    Procs,      \* slots for running commands
    EnvOrder,   \* the Environments, in the order of their names
    TargetOrder,\* the agent targets, in the order of their ids
    OwnSets,    \* the sets of tools the user may have set up in the folder
    Earlier,    \* the (Environment, target) pairs earlier runs hydrated, one set per start
    MaxRuns,    \* bound: commands started
    MaxFails,   \* bound: engine runs and removals that fail
    MaxSpoils,  \* bound: state files made unreadable
    None

Envs == ToSet(EnvOrder)
Targets == ToSet(TargetOrder)

VARIABLES
    exists,  \* the folder exists
    achdirs, \* the Environments whose directory .ach/<env> exists
    files,   \* files[e][t]: the state file, None when absent
    own,     \* the targets whose configuration the user keeps in the folder
    lock,    \* lock[e]: who holds the lock file in .ach/<e>
    proc,
    runs, fails, spoils,
    mine     \* history: the folder is the user's

vars == <<exists, achdirs, files, own, lock, proc, runs, fails, spoils, mine>>

\* id: Adapter.ID is recorded.  item, rest: rows of the one plugin or skill --only
\* names and of the other context; rt: rows of the runtime configuration.
State == [id : BOOLEAN, item : BOOLEAN, rest : BOOLEAN, rt : BOOLEAN, good : BOOLEAN]
Empty == [id |-> FALSE, item |-> FALSE, rest |-> FALSE, rt |-> FALSE, good |-> TRUE]
Scopes == {"all", "runtime", "item"}

\* queue: what is left, pairs of an Environment and the targets left of it;
\* asked and did: the (Environment, target) pairs the command took on and finished.
Idle == [cmd |-> "none", scope |-> "all", pc |-> "idle", queue |-> <<>>, prevs |-> <<>>,
         made |-> FALSE, asked |-> {}, did |-> {}, failed |-> FALSE, bad |-> FALSE]

Whole == [id |-> TRUE, item |-> TRUE, rest |-> TRUE, rt |-> TRUE, good |-> TRUE]

\* The folder is absent, or the user made it and may have set tools up in it and
\* hydrated Environments into it.
Init ==
    /\ exists \in BOOLEAN /\ mine = exists
    /\ own \in (IF exists THEN OwnSets ELSE {{}})
    /\ \E S \in (IF exists THEN Earlier ELSE {{}}) :
          /\ files = [e \in Envs |-> [t \in Targets |-> IF <<e, t>> \in S THEN Whole ELSE None]]
          /\ achdirs = {x[1] : x \in S}
    /\ lock = [e \in Envs |-> None]
    /\ proc = [p \in Procs |-> Idle]
    /\ runs = 0 /\ fails = 0 /\ spoils = 0

ListStatePaths(e) == {t \in Targets : files[e][t] # None}
Loaded(e) == {t \in ListStatePaths(e) : files[e][t].good}
InOrder(S, order) == SelectSeq(order, LAMBDA x : x \in S)

\* The targets a bare hydrate reads back for e.
RecordedTargets(e) == {t \in Loaded(e) : files[e][t].id}
hydratedEnvs == {e \in Envs : Loaded(e) # {}}

\* Detect finds the user's own configuration of a tool, or what hydrate projected.
Detected == own \cup {t \in Targets : \E e \in Envs : files[e][t] # None}

\* The folder holds nothing.
Bare == achdirs = {} /\ own = {}

Started(p, c) ==
    /\ proc[p].pc \in {"idle", "over"} /\ runs < MaxRuns
    /\ runs' = runs + 1
    /\ proc' = [proc EXCEPT ![p] = c]

Pairs(e, ts) == {<<e, t>> : t \in ts}
Job(e, ts) == <<e, InOrder(ts, TargetOrder)>>

\* ach-cli env hydrate <name> [--target ts] [--only-runtime | --only <item>].
HydrateNamed(p, e, ts, scope) ==
    /\ exists
    /\ Started(p, [Idle EXCEPT !.cmd = "named", !.scope = scope, !.pc = "resolve",
                               !.queue = <<Job(e, ts)>>, !.asked = Pairs(e, ts)])
    /\ UNCHANGED <<exists, achdirs, files, own, lock, fails, spoils, mine>>

\* ach-cli env hydrate: every Environment recorded in .ach, each for its recorded targets.
runHydrateWorkspace(p) ==
    /\ exists /\ hydratedEnvs # {}
    /\ Started(p, [Idle EXCEPT
            !.cmd = "bare", !.pc = "resolve",
            !.queue = [i \in 1..Cardinality(hydratedEnvs) |->
                          LET e == InOrder(hydratedEnvs, EnvOrder)[i] IN Job(e, RecordedTargets(e))],
            !.asked = UNION {Pairs(e, RecordedTargets(e)) : e \in hydratedEnvs}])
    /\ UNCHANGED <<exists, achdirs, files, own, lock, fails, spoils, mine>>

\* As if an empty directory that was there counted as created.
prepareCloneDirReused == [ok |-> ~exists \/ Bare, created |-> ~exists \/ Bare]
\* A missing folder is created, an empty one is reused, any other is refused.
prepareCloneDir == [ok |-> ~exists \/ Bare, created |-> ~exists]

\* ach-cli env clone <env> <dir> --target ts.
Clone(p, e, ts) ==
    /\ prepareCloneDir.ok
    /\ Started(p, [Idle EXCEPT !.cmd = "clone", !.pc = "resolve", !.made = prepareCloneDir.created,
                               !.queue = <<Job(e, ts)>>, !.asked = Pairs(e, ts)])
    /\ exists' = TRUE
    /\ UNCHANGED <<achdirs, files, own, lock, fails, spoils, mine>>

Running(p, pc) == proc[p].pc = pc
Env(p) == Head(proc[p].queue)[1]
Left(p) == Head(proc[p].queue)[2]

\* As if a bare hydrate only noted the failure of an Environment.
FailedQuietly(q) == [q EXCEPT !.queue = Tail(q.queue), !.pc = "resolve", !.failed = q.cmd # "bare"]
\* A failing Environment ends a named run; a bare one counts it and goes on.
Failed(q) == [q EXCEPT !.queue = Tail(q.queue), !.pc = "resolve", !.failed = TRUE]

Release(p, e) == IF lock[e] = p THEN [lock EXCEPT ![e] = None] ELSE lock

\* No target was named or recorded: exactly one must be detected in the folder.
Autodetect(p) ==
    /\ Running(p, "resolve") /\ proc[p].queue # <<>> /\ Left(p) = <<>>
    /\ proc' = [proc EXCEPT ![p] =
            IF Cardinality(Detected) = 1
            THEN [@ EXCEPT !.queue[1] = Job(Env(p), Detected), !.asked = @ \cup Pairs(Env(p), Detected)]
            ELSE Failed(@)]
    /\ UNCHANGED <<exists, achdirs, files, own, lock, runs, fails, spoils, mine>>

\* Step 1 of an engine run makes .ach/<env> and takes its lock without waiting.
Lock(p) ==
    /\ Running(p, "resolve") /\ proc[p].queue # <<>> /\ Left(p) # <<>>
    /\ exists' = TRUE /\ achdirs' = achdirs \cup {Env(p)}
    /\ IF lock[Env(p)] = None
       THEN /\ lock' = [lock EXCEPT ![Env(p)] = p]
            /\ proc' = [proc EXCEPT ![p].pc = IF proc[p].cmd = "uninstall" THEN "load" ELSE "commit"]
       ELSE /\ proc' = [proc EXCEPT ![p] = Failed(@)]
            /\ UNCHANGED lock
    /\ UNCHANGED <<files, own, runs, fails, spoils, mine>>

\* The state file an engine run for a target leaves.
composeNextState(f, scope) ==
    LET prev == IF f = None THEN Empty ELSE f
    IN CASE scope = "item" -> [prev EXCEPT !.item = TRUE]
         [] scope = "runtime" -> [prev EXCEPT !.id = TRUE, !.rt = TRUE]
         [] scope = "all" -> Whole

\* An unreadable state file, or a .ach/<env> removed since, fails the run.
CanCommit(e, t) == e \in achdirs /\ (files[e][t] # None => files[e][t].good)

\* hydrateEnv's loop: the engine commits one target, and the next one is due.
Commit(p) ==
    LET e == Env(p) t == Head(Left(p)) rest == Tail(Left(p))
    IN /\ Running(p, "commit") /\ CanCommit(e, t)
       /\ files' = [files EXCEPT ![e][t] = composeNextState(@, proc[p].scope)]
       /\ lock' = Release(p, e)
       /\ proc' = [proc EXCEPT ![p].did = @ \cup {<<e, t>>},
                               ![p].queue = IF rest = <<>> THEN Tail(@) ELSE <<<<e, rest>>>> \o Tail(@),
                               ![p].pc = "resolve"]
       /\ UNCHANGED <<exists, achdirs, own, runs, fails, spoils, mine>>

\* The server, a drifted file or the state file stops the engine: earlier targets stay.
EngineFails(p) ==
    /\ Running(p, "commit")
    /\ IF CanCommit(Env(p), Head(Left(p))) THEN fails < MaxFails /\ fails' = fails + 1
                                           ELSE UNCHANGED fails
    /\ lock' = Release(p, Env(p))
    /\ proc' = [proc EXCEPT ![p] = Failed(@)]
    /\ UNCHANGED <<exists, achdirs, files, own, runs, spoils, mine>>

\* A clone that failed removes the folder it created, whatever is in it by now.
RemoveAll(p) ==
    /\ Running(p, "resolve") /\ proc[p].queue = <<>>
    /\ proc[p].cmd = "clone" /\ proc[p].failed /\ proc[p].made
    /\ exists' = FALSE /\ achdirs' = {} /\ own' = {}
    /\ files' = [e \in Envs |-> [t \in Targets |-> None]]
    /\ lock' = [e \in Envs |-> None]
    /\ proc' = [proc EXCEPT ![p].pc = "over", ![p].prevs = <<>>, ![p].scope = "all"]
    /\ UNCHANGED <<runs, fails, spoils, mine>>

Finish(p) ==
    /\ Running(p, "resolve") /\ proc[p].queue = <<>>
    /\ ~(proc[p].cmd = "clone" /\ proc[p].failed /\ proc[p].made)
    /\ proc' = [proc EXCEPT ![p].pc = "over", ![p].prevs = <<>>, ![p].scope = "all"]
    /\ UNCHANGED <<exists, achdirs, files, own, lock, runs, fails, spoils, mine>>

\* ach-cli env uninstall <name>: the state files are enumerated before the lock is taken.
runUninstall(p, e, scope) ==
    /\ exists /\ ListStatePaths(e) # {}
    /\ Started(p, [Idle EXCEPT !.cmd = "uninstall", !.scope = scope, !.pc = "resolve",
                               !.queue = <<Job(e, ListStatePaths(e))>>])
    /\ UNCHANGED <<exists, achdirs, files, own, lock, fails, spoils, mine>>

Unreadable(e, ts) == {t \in ts : files[e][t] # None /\ ~files[e][t].good}

\* Every state is loaded before any is torn down.
LoadAll(p) ==
    LET e == Env(p) ts == ToSet(Left(p))
    IN /\ Running(p, "load")
       /\ IF Unreadable(e, ts) # {}
          THEN /\ proc' = [proc EXCEPT ![p] = [Failed(@) EXCEPT !.bad = TRUE]]
               /\ lock' = Release(p, e)
          ELSE /\ proc' = [proc EXCEPT ![p].pc = "tear", ![p].prevs = [t \in ts |-> files[e][t]]]
               /\ UNCHANGED lock
       /\ UNCHANGED <<exists, achdirs, files, own, runs, fails, spoils, mine>>

\* BuildScopedEmpty, BuildItemRemoved: what survives of a state.
Survivor(f, scope) ==
    CASE scope = "all" -> Empty
      [] scope = "runtime" -> [f EXCEPT !.id = FALSE, !.rt = FALSE]
      [] scope = "item" -> [f EXCEPT !.item = FALSE]

\* cleanupState: no row left, no file left.
Saved(f) == IF f.item \/ f.rest \/ f.rt THEN f ELSE None

\* --only leaves alone a target that never installed the item.
Applies(f, scope) == f # None /\ (scope = "item" => f.item)

\* The state is loaded, the survivor can be written where .ach/<env> still is.
CanTear(p) ==
    LET e == Env(p) prev == proc[p].prevs[Head(Left(p))]
    IN Applies(prev, proc[p].scope) /\ Saved(Survivor(prev, proc[p].scope)) # None => e \in achdirs

Torn(p) ==
    LET e == Env(p) t == Head(Left(p)) rest == Tail(Left(p)) scope == proc[p].scope
        prev == proc[p].prevs[t]
    IN /\ files' = IF Applies(prev, scope) THEN [files EXCEPT ![e][t] = Saved(Survivor(prev, scope))] ELSE files
       /\ lock' = IF rest = <<>> THEN Release(p, e) ELSE lock
       /\ proc' = [proc EXCEPT ![p].did = IF Applies(prev, scope) THEN @ \cup {<<e, t>>} ELSE @,
                               ![p].queue = IF rest = <<>> THEN Tail(@) ELSE <<<<e, rest>>>> \o Tail(@),
                               ![p].pc = IF rest = <<>> THEN "resolve" ELSE "tear"]

\* As if each state were read again when its turn comes.
TearDownRereads(p) ==
    /\ Running(p, "tear") /\ CanTear(p)
    /\ IF Unreadable(Env(p), {Head(Left(p))}) = {} THEN Torn(p)
       ELSE /\ proc' = [proc EXCEPT ![p] = [Failed(@) EXCEPT !.bad = TRUE]]
            /\ lock' = Release(p, Env(p)) /\ UNCHANGED files
    /\ UNCHANGED <<exists, achdirs, own, runs, fails, spoils, mine>>
\* One target's projection is removed and its state replaced by what survives.
TearDown(p) ==
    /\ Running(p, "tear") /\ CanTear(p)
    /\ Torn(p)
    /\ UNCHANGED <<exists, achdirs, own, runs, fails, spoils, mine>>

\* Sync, or writing the survivor's state, fails: targets torn down before stay so.
TearDownFails(p) ==
    /\ Running(p, "tear")
    /\ IF CanTear(p) THEN fails < MaxFails /\ fails' = fails + 1 ELSE UNCHANGED fails
    /\ lock' = Release(p, Env(p))
    /\ proc' = [proc EXCEPT ![p] = Failed(@)]
    /\ UNCHANGED <<exists, achdirs, files, own, runs, spoils, mine>>

\* A state file becomes unreadable: an older schema, an edit, a path that leaves the folder.
Spoil(e, t) ==
    /\ spoils < MaxSpoils /\ spoils' = spoils + 1
    /\ files[e][t] # None /\ files[e][t].good
    /\ files' = [files EXCEPT ![e][t].good = FALSE]
    /\ UNCHANGED <<exists, achdirs, own, lock, proc, runs, fails, mine>>

Next ==
    \/ \E p \in Procs, e \in Envs, ts \in SUBSET Targets, s \in Scopes : HydrateNamed(p, e, ts, s)
    \/ \E p \in Procs, e \in Envs, ts \in SUBSET Targets \ {{}} : Clone(p, e, ts)
    \/ \E p \in Procs, e \in Envs, s \in Scopes : runUninstall(p, e, s)
    \/ \E p \in Procs :
          \/ runHydrateWorkspace(p) \/ Autodetect(p) \/ Lock(p) \/ Commit(p) \/ EngineFails(p)
          \/ RemoveAll(p) \/ Finish(p) \/ LoadAll(p) \/ TearDown(p) \/ TearDownFails(p)
    \/ \E e \in Envs, t \in Targets : Spoil(e, t)

Spec == Init /\ [][Next]_vars

----------------------------------------------------------------------------

TypeOK ==
    /\ exists \in BOOLEAN /\ mine \in BOOLEAN
    /\ achdirs \subseteq Envs /\ own \subseteq Targets
    /\ \A e \in Envs, t \in Targets : files[e][t] # None => files[e][t] \in State /\ e \in achdirs
    /\ \A e \in Envs : lock[e] \in Procs \cup {None}
    /\ ~exists => achdirs = {} /\ own = {}
    /\ runs <= MaxRuns /\ fails <= MaxFails /\ spoils <= MaxSpoils

Over(p) == proc[p].pc = "over"

\* A hydrate of any kind that exits 0 has run the engine, to the end, for every target it
\* was asked for: a bare one for every target recorded in .ach when it listed them,
\* whatever failed on the way and whatever another terminal did meanwhile.
ExitZeroDidAll ==
    \A p \in Procs :
        Over(p) /\ proc[p].cmd # "uninstall" /\ ~proc[p].failed => proc[p].asked \subseteq proc[p].did

\* One state file that cannot be read or is unsafe stops an uninstall with nothing
\* removed, for every target of the Environment (runUninstall).
UnreadableRemovesNothing == \A p \in Procs : proc[p].bad => proc[p].did = {}

\* A failing clone never removes a folder that the user had made (newEnvCloneCmd).
UsersFolderStays == mine => exists

=============================================================================
