--------------------------- MODULE WorkspaceRuns ---------------------------
(***************************************************************************)
(* Runs of ach-cli in one workspace that several Environments share: each   *)
(* Environment has its own directory .ach/<env> with a lock file and a      *)
(* state file, and all of them project their standalone skills to the same  *)
(* <tool>/skills/<name>.  The lock is a file that is opened, created when   *)
(* absent, and locked with flock(2), so it is the open file (an inode) that *)
(* is locked and not the path.  A dry run removes the directory it created. *)
(*                                                                          *)
(* A skill name is a sequence of parts joined by "-"; the content of a      *)
(* skill is the pair of its Environment and its name.                       *)
(***************************************************************************)
EXTENDS Naturals, Sequences, FiniteSets, FiniteSetsExt, Functions

CONSTANTS
    Procs,      \* slots for running commands, numbers
    Envs,
    Listed,     \* Listed[e]: the skill names Environment e lists at first
    Lists(_),   \* the lists an edit may give it
    Earlier,    \* the Environments earlier runs hydrated, in their order, one sequence per start
    MaxStarts,  \* bound: commands started
    MaxDry,     \* bound: dry runs among them
    MaxEdits,   \* bound: edits of the Environments' skill lists
    None

VARIABLES
    manifest,  \* manifest[e]: the skill names the server lists for e
    dir,       \* dir[e]: .ach/<e> exists
    lockfile,  \* lockfile[e]: the inode at .ach/<e>/lock, 0 when absent
    saved,     \* saved[e]: the state file exists
    rows,      \* rows[e]: its skill rows, from projected name to listed name
    disk,      \* disk[s]: whose skill lies at skills/<s>, None when absent
    holder,    \* holder[i]: the process that has inode i locked
    proc,
    starts, dry, edits,
    unlinked,  \* history: the Environments whose lock file was removed
    lapped     \* history: runs of two Environments overlapped

vars == <<manifest, dir, lockfile, saved, rows, disk, holder, proc, starts, dry, edits, unlinked, lapped>>

NoRows == <<>>  \* the empty function
Prefixed(e, n) == <<e>> \o n
Names == UNION {Listed[e] \cup UNION Lists(e) : e \in Envs}
AllNames == Names \cup {Prefixed(e, n) : e \in Envs, n \in Names}

Done == [env |-> None, cmd |-> "none", pc |-> "done", fresh |-> FALSE, fd |-> 0,
         prev |-> NoRows, want |-> {}, plan |-> NoRows, todo |-> {}]

Inodes == 1..(MaxStarts + Cardinality(Envs))

\* The rows of Environment e once those of order were hydrated one after the
\* other: the first that lists a name has it, the later ones prefix it.
EarlierRows(order, e) ==
    LET before == {order[j] : j \in {j \in DOMAIN order : \A k \in 1..j : order[k] # e}}
        taken == UNION {Listed[f] : f \in before}
        staged == [n \in Listed[e] |-> IF n \in taken THEN Prefixed(e, n) ELSE n]
    IN  IF e \in Range(order) THEN AntiFunction(staged) ELSE NoRows

\* A folder as earlier runs left it, each Environment with its own lock file.
Init ==
    /\ manifest = Listed
    /\ \E order \in Earlier :
          /\ dir = [e \in Envs |-> e \in Range(order)] /\ saved = dir
          /\ lockfile = [e \in Envs |-> Max({0} \cup {j \in DOMAIN order : order[j] = e})]
          /\ rows = [e \in Envs |-> EarlierRows(order, e)]
          /\ disk = [s \in AllNames |->
                        LET owners == {e \in Envs : s \in DOMAIN rows[e]}
                        IN  IF owners = {} THEN None ELSE LET e == CHOOSE o \in owners : TRUE IN <<e, rows[e][s]>>]
    /\ holder = [i \in Inodes |-> None]
    /\ proc = [p \in Procs |-> Done]
    /\ starts = 0 /\ dry = 0 /\ edits = 0 /\ unlinked = {} /\ lapped = FALSE

Goto(p, pc) == proc' = [proc EXCEPT ![p].pc = pc]
InSection(p) == proc[p].pc \in {"read", "stage", "publish", "sync", "write", "remove", "release"}
Projecting(p) == proc[p].pc \in {"publish", "sync", "write"}

\* A command begins; a dry run remembers that there was no directory yet
\* (dryRunCleanup). An uninstall of nothing ends at once.
Start(p, e, cmd) ==
    /\ proc[p].pc = "done" /\ starts < MaxStarts
    /\ \A q \in Procs : q < p => proc[q].pc # "done"  \* slots are interchangeable
    /\ cmd = "uninstall" => saved[e]
    /\ cmd = "dryrun" => dry < MaxDry
    /\ starts' = starts + 1 /\ dry' = dry + (IF cmd = "dryrun" THEN 1 ELSE 0)
    /\ proc' = [proc EXCEPT ![p] = [Done EXCEPT !.env = e, !.cmd = cmd, !.pc = "mkdir",
                                                !.fresh = (cmd = "dryrun" /\ ~dir[e])]]
    /\ UNCHANGED <<manifest, dir, lockfile, saved, rows, disk, holder, edits, unlinked, lapped>>

Mkdir(p) ==
    /\ proc[p].pc = "mkdir"
    /\ dir' = [dir EXCEPT ![proc[p].env] = TRUE]
    /\ Goto(p, "open")
    /\ UNCHANGED <<manifest, lockfile, saved, rows, disk, holder, starts, dry, edits, unlinked, lapped>>

\* As if every run made a lock file of its own.
OpenOwn(p) ==
    LET e == proc[p].env IN
    /\ proc[p].pc = "open" /\ dir[e]
    /\ lockfile' = [lockfile EXCEPT ![e] = starts]
    /\ proc' = [proc EXCEPT ![p].fd = starts, ![p].pc = "flock"]
    /\ UNCHANGED <<manifest, dir, saved, rows, disk, holder, starts, dry, edits, unlinked, lapped>>

\* O_RDWR|O_CREATE. The inodes are numbered; one that nobody has is free.
Open(p) ==
    LET e == proc[p].env
        used == {proc[q].fd : q \in Procs} \cup {lockfile[f] : f \in Envs}
        i == IF lockfile[e] # 0 THEN lockfile[e] ELSE Min(Inodes \ used)
    IN
    /\ proc[p].pc = "open" /\ dir[e]
    /\ lockfile' = [lockfile EXCEPT ![e] = i]
    /\ proc' = [proc EXCEPT ![p].fd = i, ![p].pc = "flock"]
    /\ UNCHANGED <<manifest, dir, saved, rows, disk, holder, starts, dry, edits, unlinked, lapped>>

OpenFails(p) ==
    /\ proc[p].pc = "open" /\ ~dir[proc[p].env]
    /\ proc' = [proc EXCEPT ![p] = Done]
    /\ UNCHANGED <<manifest, dir, lockfile, saved, rows, disk, holder, starts, dry, edits, unlinked, lapped>>

\* flock(LOCK_EX|LOCK_NB), tried once or, with --wait and --lock-timeout, until
\* it succeeds: a run that waits is one that is slow to try.
Flock(p) ==
    /\ proc[p].pc = "flock" /\ holder[proc[p].fd] = None
    /\ holder' = [holder EXCEPT ![proc[p].fd] = p]
    /\ Goto(p, "read")
    /\ UNCHANGED <<manifest, dir, lockfile, saved, rows, disk, starts, dry, edits, unlinked, lapped>>

\* ErrLockContended at once, ErrLockTimeout or a cancelled wait later. What the
\* command did so far stays.
Contended(p) ==
    /\ proc[p].pc = "flock" /\ holder[proc[p].fd] # None
    /\ proc' = [proc EXCEPT ![p] = Done]
    /\ UNCHANGED <<manifest, dir, lockfile, saved, rows, disk, holder, starts, dry, edits, unlinked, lapped>>

\* Steps 3 to 5: the rows whose file is on the disk, and the manifest.
Read(p) ==
    LET e == proc[p].env IN
    /\ proc[p].pc = "read"
    /\ proc' = [proc EXCEPT
          ![p].prev = [s \in {s \in DOMAIN rows[e] : disk[s] # None} |-> rows[e][s]],
          ![p].want = manifest[e],
          ![p].pc = IF proc[p].cmd = "uninstall" THEN "remove" ELSE "stage"]
    /\ UNCHANGED <<manifest, dir, lockfile, saved, rows, disk, holder, starts, dry, edits, unlinked, lapped>>

----------------------------------------------------------------------------
ForeignNone(e) == {}  \* As if the other Environments' states were not read.
ForeignSkillNames(e) == UNION {DOMAIN rows[f] : f \in Envs \ {e}}

StageNameFlaps(e, prev, n) ==  \* As if the prefix were not kept.
    IF n \in ForeignSkillNames(e) THEN Prefixed(e, n) ELSE n

\* The name a skill is staged under: prefixed when another Environment owns the
\* name, or when the own state already has the prefixed one.
StageName(e, prev, n) ==
    IF Prefixed(e, n) \in DOMAIN prev \/ n \in ForeignSkillNames(e) THEN Prefixed(e, n) ELSE n

Plan(p) == [n \in proc[p].want |-> StageName(proc[p].env, proc[p].prev, n)]

\* skillstage.Nest renames one directory after the other into skills/.
Stage(p) ==
    /\ proc[p].pc = "stage"
    /\ IsInjective(Plan(p))
    /\ proc' = [proc EXCEPT ![p].plan = Plan(p), ![p].todo = proc[p].want, ![p].pc = "publish"]
    /\ dir' = [dir EXCEPT ![proc[p].env] = TRUE]
    /\ lapped' = (lapped \/ \E q \in Procs \ {p} : Projecting(q) /\ proc[q].env # proc[p].env)
    /\ UNCHANGED <<manifest, lockfile, saved, rows, disk, holder, starts, dry, edits, unlinked>>

\* Two skills with one staged name: the second rename fails.
NestFails(p) ==
    /\ proc[p].pc = "stage"
    /\ ~IsInjective(Plan(p))
    /\ Goto(p, "release")
    /\ UNCHANGED <<manifest, dir, lockfile, saved, rows, disk, holder, starts, dry, edits, unlinked, lapped>>

Next1(p) == CHOOSE n \in proc[p].todo : TRUE
Mine(p, n) == <<proc[p].env, n>>

\* compareDrift: a row of ours whose file is neither what was recorded nor what
\* is to be written.
Drifted(p, n) ==
    LET s == proc[p].plan[n] IN
    /\ s \in DOMAIN proc[p].prev
    /\ disk[s] \notin {Mine(p, proc[p].prev[s]), Mine(p, n)}

\* publishFile: without a row of its own the run overwrites what is there.
PublishFile(p) ==
    LET n == Next1(p) IN
    /\ proc[p].pc = "publish" /\ proc[p].todo # {}
    /\ ~Drifted(p, n)
    /\ disk' = IF proc[p].cmd = "dryrun" THEN disk ELSE [disk EXCEPT ![proc[p].plan[n]] = Mine(p, n)]
    /\ proc' = [proc EXCEPT ![p].todo = @ \ {n}]
    /\ UNCHANGED <<manifest, dir, lockfile, saved, rows, holder, starts, dry, edits, unlinked, lapped>>

Drift(p) ==
    /\ proc[p].pc = "publish" /\ proc[p].todo # {}
    /\ Drifted(p, Next1(p))
    /\ Goto(p, "release")
    /\ UNCHANGED <<manifest, dir, lockfile, saved, rows, disk, holder, starts, dry, edits, unlinked, lapped>>

NewRows(p) == [s \in {proc[p].plan[n] : n \in proc[p].want} |->
                 CHOOSE n \in proc[p].want : proc[p].plan[n] = s]

\* Sync deletes what the rows in gone still own; an edited file is preserved.
Deleted(p, gone) ==
    [s \in AllNames |-> IF s \in gone /\ disk[s] = Mine(p, proc[p].prev[s]) THEN None ELSE disk[s]]

\* With --sync the files of the rows that are gone are deleted. A dry run
\* changes nothing.
Sync(p, sync) ==
    /\ proc[p].pc = "publish" /\ proc[p].todo = {}
    /\ disk' = IF sync /\ proc[p].cmd # "dryrun" THEN Deleted(p, DOMAIN proc[p].prev \ DOMAIN NewRows(p)) ELSE disk
    /\ Goto(p, IF proc[p].cmd = "dryrun" THEN "release" ELSE "write")
    /\ UNCHANGED <<manifest, dir, lockfile, saved, rows, holder, starts, dry, edits, unlinked, lapped>>

WriteState(p) ==
    LET e == proc[p].env IN
    /\ proc[p].pc = "write"
    /\ rows' = [rows EXCEPT ![e] = NewRows(p)]
    /\ saved' = [saved EXCEPT ![e] = TRUE]
    /\ Goto(p, "release")
    /\ UNCHANGED <<manifest, dir, lockfile, disk, holder, starts, dry, edits, unlinked, lapped>>

\* runUninstall: the teardown, then the state file goes.
Uninstall(p) ==
    LET e == proc[p].env IN
    /\ proc[p].pc = "remove"
    /\ disk' = Deleted(p, DOMAIN proc[p].prev)
    /\ rows' = [rows EXCEPT ![e] = NoRows] /\ saved' = [saved EXCEPT ![e] = FALSE]
    /\ Goto(p, "release")
    /\ UNCHANGED <<manifest, dir, lockfile, holder, starts, dry, edits, unlinked, lapped>>

----------------------------------------------------------------------------
\* The deferred end of a run: the lease is released, then a dry run cleans up.
Release(p) ==
    /\ proc[p].pc = "release"
    /\ holder' = [holder EXCEPT ![proc[p].fd] = None]
    /\ proc' = [proc EXCEPT ![p] = IF proc[p].fresh THEN [proc[p] EXCEPT !.pc = "unlink", !.fd = 0] ELSE Done]
    /\ UNCHANGED <<manifest, dir, lockfile, saved, rows, disk, starts, dry, edits, unlinked, lapped>>

CleanupLock(p) ==
    LET e == proc[p].env IN
    /\ proc[p].pc = "unlink"
    /\ lockfile' = [lockfile EXCEPT ![e] = 0]
    /\ unlinked' = unlinked \cup {e}
    /\ Goto(p, "rmdir")
    /\ UNCHANGED <<manifest, dir, saved, rows, disk, holder, starts, dry, edits, lapped>>

\* os.Remove takes the directory only when it is empty.
CleanupDir(p) ==
    LET e == proc[p].env
        empty == ~saved[e] /\ lockfile[e] = 0 /\ ~\E q \in Procs : Projecting(q) /\ proc[q].env = e
    IN
    /\ proc[p].pc = "rmdir"
    /\ dir' = [dir EXCEPT ![e] = @ /\ ~empty]
    /\ proc' = [proc EXCEPT ![p] = Done]
    /\ UNCHANGED <<manifest, lockfile, saved, rows, disk, holder, starts, dry, edits, unlinked, lapped>>

\* The process dies and the kernel closes its files. Before it has the lock
\* this is no different from a refusal.
Crash(p) ==
    /\ InSection(p) \/ proc[p].pc \in {"unlink", "rmdir"}
    /\ holder' = [i \in DOMAIN holder |-> IF holder[i] = p THEN None ELSE holder[i]]
    /\ proc' = [proc EXCEPT ![p] = Done]
    /\ UNCHANGED <<manifest, dir, lockfile, saved, rows, disk, starts, dry, edits, unlinked, lapped>>

EditManifest(e, ns) ==
    /\ edits < MaxEdits /\ ns # manifest[e]
    /\ manifest' = [manifest EXCEPT ![e] = ns]
    /\ edits' = edits + 1
    /\ UNCHANGED <<dir, lockfile, saved, rows, disk, holder, proc, starts, dry, unlinked, lapped>>

Next ==
    \/ \E p \in Procs :
         \/ \E e \in Envs, cmd \in {"hydrate", "dryrun", "uninstall"} : Start(p, e, cmd)
         \/ \E sync \in BOOLEAN : Sync(p, sync)
         \/ Mkdir(p) \/ Open(p) \/ OpenFails(p) \/ Flock(p) \/ Contended(p) \/ Read(p)
         \/ Stage(p) \/ NestFails(p) \/ PublishFile(p) \/ Drift(p) \/ WriteState(p)
         \/ Uninstall(p) \/ Release(p) \/ CleanupLock(p) \/ CleanupDir(p) \/ Crash(p)
    \/ \E e \in Envs : \E ns \in Lists(e) : EditManifest(e, ns)

Spec == Init /\ [][Next]_vars

----------------------------------------------------------------------------
TypeOK ==
    /\ \A e \in Envs : lockfile[e] \in Inodes \cup {0} /\ (lockfile[e] # 0 => dir[e])
    /\ \A e \in Envs : DOMAIN rows[e] \subseteq AllNames /\ (rows[e] # NoRows => saved[e])
    /\ \A s \in AllNames : disk[s] = None \/ disk[s] \in Envs \X Names
    /\ \A i \in DOMAIN holder : holder[i] # None => proc[holder[i]].fd = i
    /\ \A p \in Procs : InSection(p) => holder[proc[p].fd] = p

SameEnv(p, q) == p # q /\ InSection(p) /\ InSection(q) /\ proc[p].env = proc[q].env

\* Two runs are in one Environment's directory at a time only after a dry run
\* removed the lock file (Acquire, dryRunCleanup).
HeldUnlessUnlinked == \A p, q \in Procs : SameEnv(p, q) => proc[p].env \in unlinked

Owns(e, s) == s \in DOMAIN rows[e] /\ disk[s] = <<e, rows[e][s]>>

Overlapped == lapped \/ unlinked # {}

\* While runs of two Environments do not overlap, none writes over a skill that
\* another Environment's state records (ForeignSkillNames).
IncumbentKept ==
    \A e \in Envs, s \in AllNames :
        Owns(e, s) /\ s \in DOMAIN rows'[e] /\ disk'[s] # None => disk'[s][1] = e \/ Overlapped'

\* A run that rewrites the rows keeps the name it gave a skill, so the skill
\* does not move between two directories (ownPrefixed is sticky), unless the
\* Environment lists a second skill that bears the prefixed name.
NameKept ==
    \A e \in Envs : \A s \in DOMAIN rows[e], t \in DOMAIN rows'[e] :
        /\ rows[e][s] = rows'[e][t] /\ Owns(e, s)
        /\ \A r \in DOMAIN rows[e] : rows[e][r] # Prefixed(e, rows[e][s])
        => s = t \/ Overlapped'

============================================================================
