--------------------------- MODULE LocalPackages ---------------------------
(***************************************************************************)
(* `ach-cli local plugin|skill install`, `update` and `uninstall`          *)
(* (cmd/ach-cli/cmd/pkgcmd.go) over internal/cli/localpkg: packages of     *)
(* registered repositories are fetched, projected to an agent tool's       *)
(* directories and recorded in installed.json, one file for all of a       *)
(* user's projects.  A command works on an in-memory copy of the record,   *)
(* writes and removes files one at a time and saves the record at the end; *)
(* install and update also save it on an error once a package is complete. *)
(* One command runs at a time; it may fail or be killed between any two    *)
(* steps, and the user edits files whenever they like.                     *)
(*                                                                         *)
(* A slot is a place of one target a package writes to: a file of its own  *)
(* (MergeReplace), the same file with the package's name prefixed, or a    *)
(* key or marked block of a file all packages share (MergeDeep and         *)
(* MergeComposite).  Content is abstracted to a token, so equal hashes are *)
(* equal tokens.  The read, the verdict and the removal of one file are    *)
(* one step.                                                               *)
(***************************************************************************)
EXTENDS Integers, FiniteSets, Functions

CONSTANTS Refs,      \* packages, <name>@<repo>
          Targets,   \* agent tools (adapter ids)
          Files,     \* paths packages ship as files of their own
          Shared,    \* keys and blocks packages ship of shared files
          MaxVer,    \* bound: revisions of the packages' repository
          Ships,     \* Ships[r][v]: what r projects to each slot at revision v
          Namesakes, \* pairs <<r, f>>: f's leaf is r's own name
          MaxRuns,   \* bound: commands run
          MaxEdits,  \* bound: changes the user makes to files
          None, User

Slots == Files \cup (Refs \X Files) \cup Shared
Contents == UNION {Range(Ships[r][v]) : r \in Refs, v \in 1..MaxVer}
Policies == {"namespace", "skip", "overwrite", "refuse"}

VARIABLES
    up,     \* the revision the repository serves
    disk,   \* disk[t][s]: the content of a slot, None if absent
    record, \* installed.json: record[r][t], None if r is not installed for t
    run,    \* the command that runs, Idle if none does
    forced, \* history: files committed over another package's file
    loose,  \* history: slots whose content was left to no record
    runs, edits \* counters of the bounds

vars == <<up, disk, record, run, forced, loose, runs, edits>>

Idle == [pc |-> "idle"]
IsFiles(fs) == DOMAIN fs \subseteq Slots /\ Range(fs) \subseteq Contents
IsEntry(e) == e = None \/ (e.sha \in 1..MaxVer /\ IsFiles(e.files))
IsRecord(rec) ==
    /\ DOMAIN rec = Refs
    /\ \A r \in Refs : DOMAIN rec[r] = Targets /\ \A t \in Targets : IsEntry(rec[r][t])

(* A run holds its arguments, its copy of the record, whether that copy     *)
(* must be saved on an error (dirty), the packages still to do, the plans   *)
(* of the package at hand, and for the plan at hand the recorded slots to   *)
(* remove and the writes to make and made.                                  *)
IsRun(c) ==
    /\ c.pc \in {"resolve", "remove", "write"}
    /\ c.op \in {"install", "update", "uninstall"} /\ c.policy \in Policies
    /\ c.targets \subseteq Targets /\ c.todo \subseteq Refs
    /\ IsRecord(c.copy) /\ c.dirty \in BOOLEAN
    /\ c.ref \in Refs \cup {None} /\ c.target \in Targets \cup {None}
    /\ \A t \in Targets : c.plans[t] = None \/ IsFiles(c.plans[t])
    /\ c.sha \in 0..MaxVer \* the revision the run's FetchCache holds, 0 before
    /\ c.removing \subseteq Slots /\ c.written \subseteq Slots

TypeOK ==
    /\ up \in 1..MaxVer
    /\ \A t \in Targets, s \in Slots : disk[t][s] \in Contents \cup {None, User}
    /\ IsRecord(record)
    /\ run = Idle \/ IsRun(run)
    /\ forced \subseteq Targets \X Slots /\ loose \subseteq Targets \X Slots
    /\ runs \in 0..MaxRuns /\ edits \in 0..MaxEdits

Init ==
    /\ up = 1
    /\ disk = [t \in Targets |-> [s \in Slots |-> None]]
    /\ record = [r \in Refs |-> [t \in Targets |-> None]]
    /\ run = Idle
    /\ forced = {} /\ loose = {} /\ runs = 0 /\ edits = 0

(*************************** Conflict resolution ***************************)

NoPlans == [t \in Targets |-> None]
FilesOf(e) == IF e = None THEN {} ELSE DOMAIN e.files

(* As if an update forgot the other packages' files when it plans. *)
ownersAtNone(copy, r, t) == {}

(* The slots other packages own at a target, by the run's copy. *)
ownersAt(copy, r, t) == UNION {FilesOf(copy[q][t]) : q \in Refs \ {r}}

(* The package's name goes before the leaf, unless the leaf is that name. *)
Leaf(r, f) == IF <<r, f>> \in Namesakes THEN f ELSE <<r, f>>

(* As if a file with the content its owner recorded were no conflict. *)
ClashesByContent(r, t, writes, copy) ==
    {s \in DOMAIN writes \cap Files : \E q \in Refs \ {r} :
        s \in FilesOf(copy[q][t]) /\ copy[q][t].files[s] # writes[s]}

(* The files other packages own. *)
Clashes(r, t, writes, copy) == DOMAIN writes \cap Files \cap ownersAt(copy, r, t)

(* The writes to commit.  Shared slots combine and never clash. *)
ResolveConflicts(r, t, writes, copy, policy) ==
    LET clash == Clashes(r, t, writes, copy) IN
    CASE policy = "skip" -> Restrict(writes, DOMAIN writes \ clash)
      [] policy = "namespace" ->
            LET dest(s) == IF s \in clash THEN Leaf(r, s) ELSE s IN
            [d \in {dest(s) : s \in DOMAIN writes} |->
                writes[CHOOSE s \in DOMAIN writes : dest(s) = d]]
      [] OTHER -> writes

Refused(r, t, writes, copy, policy) ==
    policy = "refuse" /\ Clashes(r, t, writes, copy) # {}

(******************************** Commands *********************************)

Start(op, policy, targets, todo) ==
    /\ run = Idle /\ runs < MaxRuns /\ runs' = runs + 1
    /\ run' = [pc |-> "resolve", op |-> op, policy |-> policy, targets |-> targets,
               todo |-> todo, copy |-> record, dirty |-> FALSE, ref |-> None,
               plans |-> NoPlans, target |-> None, sha |-> 0,
               removing |-> {}, written |-> {}]
    /\ UNCHANGED <<up, disk, record, forced, loose, edits>>

Install(policy, targets, todo) == Start("install", policy, targets, todo)
Update(policy, todo) == Start("update", policy, Targets, todo)
Uninstall(targets, todo) == Start("uninstall", "namespace", targets, todo)

(* As if every package were cloned afresh. *)
fetchAlways == up

(* One run clones the repository once and keeps what it got. *)
cachedFetch == IF run.sha = 0 THEN up ELSE run.sha

(* What the package's revision writes at a target: the lens selects a       *)
(* directory of the clone, the adapter's rules the paths.                   *)
Project(r, sha) == Ships[r][sha]

(* Fetch the package and plan every target before touching one. *)
ResolveWithCache(r) ==
    LET sha == cachedFetch
        writes == Project(r, sha)
        ts == {t \in run.targets :
                  run.op = "install" \/
                  (run.copy[r][t] # None /\ run.copy[r][t].sha # sha)}
    IN  /\ run.pc = "resolve" /\ run.op # "uninstall" /\ run.plans = NoPlans
        /\ r \in run.todo
        /\ \A t \in ts : ~Refused(r, t, writes, run.copy, run.policy)
        /\ run' = [run EXCEPT !.ref = r, !.sha = sha, !.todo = @ \ {r},
                      !.plans = [t \in Targets |->
                          IF t \in ts THEN ResolveConflicts(r, t, writes, run.copy, run.policy)
                          ELSE None]]
        /\ UNCHANGED <<up, disk, record, forced, loose, runs, edits>>

(* The entries leave the in-memory record before their files are removed. *)
removeInstalled(r) ==
    /\ run.pc = "resolve" /\ run.op = "uninstall" /\ run.plans = NoPlans
    /\ r \in run.todo
    /\ run' = [run EXCEPT !.ref = r, !.todo = @ \ {r},
                  !.plans = [t \in Targets |-> IF t \in run.targets /\ run.copy[r][t] # None
                                               THEN run.copy[r][t].files ELSE None],
                  !.copy[r] = [t \in Targets |->
                      IF t \in run.targets THEN None ELSE run.copy[r][t]]]
    /\ UNCHANGED <<up, disk, record, forced, loose, runs, edits>>

(* The next plan of the package: update and uninstall remove what is        *)
(* recorded, install writes at once over what is there.                     *)
NextPlan(t) ==
    /\ run.pc = "resolve" /\ run.plans[t] # None
    /\ run' = [run EXCEPT !.target = t,
                  !.pc = IF run.op = "install" THEN "write" ELSE "remove",
                  !.removing = CASE run.op = "install" -> {}
                                 [] run.op = "update" -> FilesOf(run.copy[run.ref][t])
                                 [] OTHER -> DOMAIN run.plans[t]]
    /\ UNCHANGED <<up, disk, record, forced, loose, runs, edits>>

(* The content the run recorded for slot s of its target. *)
Recorded(s) == IF run.op = "uninstall" THEN run.plans[run.target][s]
               ELSE run.copy[run.ref][run.target].files[s]

(* A file is removed only with the recorded content, a share always. *)
classifyUninstall(s) ==
    CASE disk[run.target][s] = None -> "absent"
      [] s \in Shared -> "modify"
      [] disk[run.target][s] # Recorded(s) -> "skip"
      [] OTHER -> "remove"

(* A failing unlink is ignored, a failing rewrite is not. *)
UninstallOne(s, unlinks) ==
    LET op == classifyUninstall(s) IN
    /\ run.pc = "remove" /\ s \in run.removing
    /\ unlinks \/ op = "remove"
    /\ disk' = IF op = "modify" \/ (op = "remove" /\ unlinks)
               THEN [disk EXCEPT ![run.target][s] = None] ELSE disk
    /\ run' = [run EXCEPT !.removing = @ \ {s}]
    /\ loose' = IF unlinks THEN loose ELSE loose \cup {<<run.target, s>>}
    /\ UNCHANGED <<up, record, forced, runs, edits>>

Uninstalled ==
    /\ run.pc = "remove" /\ run.removing = {}
    /\ run' = IF run.op = "update" THEN [run EXCEPT !.pc = "write"]
              ELSE [run EXCEPT !.pc = "resolve", !.plans[run.target] = None, !.target = None]
    /\ UNCHANGED <<up, disk, record, forced, loose, runs, edits>>

(* One planned write, over whatever the slot holds. *)
CommitOne(s) ==
    /\ run.pc = "write" /\ s \in DOMAIN run.plans[run.target] \ run.written
    /\ disk' = [disk EXCEPT ![run.target][s] = run.plans[run.target][s]]
    /\ run' = [run EXCEPT !.written = @ \cup {s}]
    /\ forced' = IF /\ s \in ownersAt(run.copy, run.ref, run.target) \ Shared
                    /\ run.policy = "overwrite" \/ <<run.ref, s>> \in Namesakes
                 THEN forced \cup {<<run.target, s>>} ELSE forced
    /\ loose' = loose \ {<<run.target, s>>}
    /\ UNCHANGED <<up, record, runs, edits>>

(* The plan is complete: its entry replaces the package's entry for the     *)
(* target.  An install that projected nothing records nothing; one over an  *)
(* older entry drops what only that entry listed.                           *)
upsertInstalled ==
    LET files == run.plans[run.target]
        old == FilesOf(run.copy[run.ref][run.target])
    IN
    /\ run.pc = "write" /\ run.written = DOMAIN files
    /\ run' = [run EXCEPT !.pc = "resolve", !.plans[run.target] = None, !.target = None,
                  !.written = {},
                  !.copy[run.ref][run.target] =
                      IF run.op = "install" /\ files = << >> THEN @
                      ELSE [sha |-> run.sha, files |-> files],
                  !.dirty = @ \/ ~(run.op = "install" /\ files = << >>)]
    /\ loose' = IF run.op = "install" /\ files # << >>
                THEN loose \cup ({run.target} \X (old \ DOMAIN files)) ELSE loose
    /\ UNCHANGED <<up, disk, record, forced, runs, edits>>

SaveInstalled ==
    /\ run.pc = "resolve" /\ run.plans = NoPlans /\ run.todo = {}
    /\ record' = run.copy /\ run' = Idle
    /\ UNCHANGED <<up, disk, forced, loose, runs, edits>>

(* As if the record were saved only by a run that succeeds. *)
saveNothingOnError ==
    /\ run # Idle
    /\ record' = record /\ run' = Idle
    /\ loose' = loose \cup ({run.target} \X run.written)
    /\ UNCHANGED <<up, disk, forced, runs, edits>>

(* Any other return is an error: an unknown repository, a fetch or a write  *)
(* that failed, a refusal.  What the plan at hand wrote is in no record.    *)
saveInstalledOnError ==
    /\ run # Idle
    /\ record' = IF run.op # "uninstall" /\ run.dirty THEN run.copy ELSE record
    /\ run' = Idle
    /\ loose' = loose \cup ({run.target} \X run.written)
    /\ UNCHANGED <<up, disk, forced, runs, edits>>

Tracked(t, s) == \E r \in Refs : /\ s \in FilesOf(record[r][t])
                                 /\ record[r][t].files[s] = disk[t][s]

(* The process dies, or the record cannot be written. *)
Killed ==
    /\ run # Idle
    /\ run' = Idle
    /\ loose' = loose \cup {<<t, s>> \in Targets \X Slots : ~Tracked(t, s)}
    /\ UNCHANGED <<up, disk, record, forced, runs, edits>>

(***************************** The environment *****************************)

UserEdits(t, s, c) ==
    /\ disk[t][s] # None /\ disk[t][s] # c
    /\ edits < MaxEdits /\ edits' = edits + 1
    /\ disk' = [disk EXCEPT ![t][s] = c]
    /\ UNCHANGED <<up, record, run, forced, loose, runs>>

UpstreamMoves ==
    /\ up < MaxVer
    /\ up' = up + 1
    /\ UNCHANGED <<disk, record, run, forced, loose, runs, edits>>

Next ==
    \/ \E p \in Policies, ts \in SUBSET Targets \ {{}}, rs \in SUBSET Refs \ {{}} :
          Install(p, ts, rs) \/ Update(p, rs) \/ Uninstall(ts, rs)
    \/ \E r \in Refs : ResolveWithCache(r) \/ removeInstalled(r)
    \/ \E t \in Targets : NextPlan(t)
    \/ Uninstalled \/ upsertInstalled
    \/ SaveInstalled \/ saveInstalledOnError \/ Killed \/ UpstreamMoves
    \/ \E s \in Slots : UninstallOne(s, TRUE) \/ UninstallOne(s, FALSE) \/ CommitOne(s)
    \/ \E t \in Targets, s \in Slots, c \in {None, User} : UserEdits(t, s, c)

Spec == Init /\ [][Next]_vars

(******************************* Properties ********************************)

(* Between commands every file or key with a package's content is in the    *)
(* record of that content, so a later update or uninstall can remove it.    *)
(* Left out are the history's exceptions: what the failing plan itself      *)
(* wrote, what a killed run wrote, an unlink that failed, and what an older *)
(* version left when install replaced its entry.                            *)
FilesStayTracked ==
    run = Idle =>
        \A t \in Targets, s \in Slots :
            disk[t][s] \in Contents => Tracked(t, s) \/ <<t, s>> \in loose

(* No file is in two packages' records for one target, unless it was        *)
(* committed over its owner by --conflict overwrite or because its leaf is  *)
(* the package's own name, which Leaf leaves unprefixed.                    *)
OneOwnerPerFile ==
    \A t \in Targets, q, r \in Refs :
        q # r => {t} \X ((FilesOf(record[q][t]) \cap FilesOf(record[r][t])) \ Shared)
                   \subseteq forced

(* A command on one package leaves alone every file that holds what another *)
(* package's entry records, with the same two exceptions.                   *)
OthersKept ==
    \A t \in Targets, s \in Slots \ Shared, q \in Refs :
       (/\ run # Idle /\ run' # run /\ q # run.ref
        /\ s \in FilesOf(run.copy[q][t])
        /\ disk[t][s] = run.copy[q][t].files[s] /\ disk'[t][s] # disk[t][s])
         => <<t, s>> \in forced'

(* The packages one run installs or updates from a repository are all of    *)
(* one revision of it, however often the upstream moves meanwhile.          *)
OneRevisionPerRun ==
    \A r, q \in Refs, t, u \in Targets :
       (/\ record'[r][t] \notin {None, record[r][t]}
        /\ record'[q][u] \notin {None, record[q][u]})
         => record'[r][t].sha = record'[q][u].sha

=============================================================================
