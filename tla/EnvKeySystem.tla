---------------------------- MODULE EnvKeySystem ----------------------------
(***************************************************************************)
(* The create, manage and delete paths of environment keys (EnvKeys)       *)
(* together with the two tasks of the operator that take keys away: the    *)
(* orphan reaper and the finalizer of a deleted Environment.               *)
(***************************************************************************)
EXTENDS EnvKeys

-----------------------------------------------------------------------------
(* internal/orphan: the hourly loop that revokes LiteLLM keys ACH minted   *)
(* and no longer tracks.  One tick reads the users, then the managed       *)
(* key_ids, then the clock, then the keys LiteLLM has, and only then       *)
(* revokes; requests and the finalizer run in between.                     *)

CONSTANTS
    OtherKeys,   \* TRUE: the owner always has some other, untouched key
    MaxRevoke,   \* circuit breaker: candidates per tick
    QueryLimit   \* longest time between the managed-set read and the cutoff

ASSUME ReaperAssumption ==
    /\ OtherKeys \in BOOLEAN
    /\ MaxRevoke \in Nat
    /\ QueryLimit \in Nat

\* The floor leaves room for a create request and for the tick's own query:
\* 10 minutes against HTTP and database timeouts of seconds.
ASSUME FloorAssumption == MintLimit + QueryLimit <= AgeFloor

VARIABLES
    tick,        \* where TickOnce stands
    managed,     \* achKeySet: key_ids of the non-revoked rows
    readAge,     \* time since managed was read
    old,         \* mints whose LiteLLM key was created before the cutoff
    candidates,  \* orphans still to be revoked in this tick
    reaped       \* history: mints whose LiteLLM key a tick revoked

reaperVars == <<tick, managed, readAge, old, candidates, reaped>>

ReaperTypeOK ==
    /\ tick \in {"idle", "managed", "cutoff", "revoke"}
    /\ managed \in SUBSET Ids
    /\ readAge \in 0 .. QueryLimit
    /\ old \in SUBSET Mints
    /\ candidates \in SUBSET Mints
    /\ reaped \in SUBSET Mints

ReaperInit ==
    /\ tick = "idle"
    /\ managed = {}
    /\ readAge = 0
    /\ old = {}
    /\ candidates = {}
    /\ reaped = {}

\* Users are enumerated whatever the status of their rows.
OwnerEnumerated == OtherKeys \/ \E m \in Mints : row[m] # "none"

\* ListUsers, then ListKeyIDs: every non-revoked row.
ReadManaged ==
    /\ tick = "idle"
    /\ OwnerEnumerated
    /\ managed' = {rowId[m] : m \in Managed}
    /\ readAge' = 0
    /\ tick' = "managed"
    /\ UNCHANGED <<old, candidates, reaped>>

\* Mutant: no age floor.
TakeCutoffNow ==
    /\ tick = "managed"
    /\ old' = {m \in Mints : llk[m] = "live"}
    /\ tick' = "cutoff"
    /\ readAge' = 0
    /\ UNCHANGED <<managed, candidates, reaped>>

\* cutoff := now - OrphanAgeFloor.
TakeCutoff ==
    /\ tick = "managed"
    /\ old' = {m \in Mints : llk[m] = "live" /\ age[m] > AgeFloor}
    /\ tick' = "cutoff"
    /\ readAge' = 0
    /\ UNCHANGED <<managed, candidates, reaped>>

\* Mutant: the breaker trips at the cap, not beyond it.
ListKeysTripsAtCap ==
    LET found == {m \in old : llk[m] = "live" /\ stamp[m] \notin managed}
    IN /\ tick = "cutoff"
       /\ IF found = {} \/ (managed = {} /\ ~OtherKeys) \/ Cardinality(found) >= MaxRevoke
          THEN tick' = "idle" /\ candidates' = {}
          ELSE tick' = "revoke" /\ candidates' = found
       /\ managed' = {}
       /\ old' = {}
       /\ UNCHANGED <<readAge, reaped>>

\* ListUserKeys, the filters of pass 1 and the guards B1 and B2.
ListKeys ==
    LET found == {m \in old : llk[m] = "live" /\ stamp[m] \notin managed}
        b1 == managed = {} /\ ~OtherKeys
        b2 == Cardinality(found) > MaxRevoke
    IN /\ tick = "cutoff"
       /\ IF found = {} \/ b1 \/ b2
          THEN tick' = "idle" /\ candidates' = {}
          ELSE tick' = "revoke" /\ candidates' = found
       /\ managed' = {}
       /\ old' = {}
       /\ UNCHANGED <<readAge, reaped>>

\* RevokeKey by token.
Reap(m) ==
    /\ tick = "revoke" /\ m \in candidates
    /\ llk' = [llk EXCEPT ![m] = "gone"]
    /\ reaped' = IF llk[m] = "live" THEN reaped \cup {m} ELSE reaped
    /\ candidates' = candidates \ {m}
    /\ UNCHANGED <<tick, managed, readAge, old>>

\* A RevokeKey that fails is audited and skipped.
SkipReap(m) ==
    /\ tick = "revoke" /\ m \in candidates
    /\ candidates' = candidates \ {m}
    /\ UNCHANGED <<tick, managed, readAge, old, reaped>>

TickDone ==
    /\ tick = "revoke" /\ candidates = {}
    /\ tick' = "idle"
    /\ UNCHANGED <<managed, readAge, old, candidates, reaped>>

\* A query or listing fails, or the operator restarts: the tick is over.
AbortTick ==
    /\ tick # "idle"
    /\ tick' = "idle"
    /\ managed' = {}
    /\ readAge' = 0
    /\ old' = {}
    /\ candidates' = {}
    /\ UNCHANGED reaped

\* Time in a tick: the cutoff is taken within QueryLimit of the managed read.
ReaperAge ==
    /\ tick = "managed" => readAge < QueryLimit
    /\ readAge' = IF tick = "managed" THEN readAge + 1 ELSE readAge
    /\ UNCHANGED <<tick, managed, old, candidates, reaped>>

ReaperQuiet == ReadManaged \/ TakeCutoff \/ ListKeys \/ TickDone \/ AbortTick
                  \/ \E m \in Mints : SkipReap(m)

-----------------------------------------------------------------------------
(* EnvironmentReconciler.reconcileDeletion: the finalizer of a deleted     *)
(* Environment.  Every error returns, and the next reconcile starts from   *)
(* the first step.                                                         *)

CONSTANT DrainCap   \* ekDrainMaxIterations

ASSUME FinalizerAssumption == DrainCap \in Nat \ {0}

VARIABLES
    fin,       \* where reconcileDeletion stands; "live" before the deletion
    pending,   \* keys of the one SELECT still to be revoked in LiteLLM
    drains     \* iterations of the drain loop done

finVars == <<fin, pending, drains>>

FinTypeOK ==
    /\ fin \in {"live", "select", "revoke", "team", "drain", "count", "row", "finalizer", "gone"}
    /\ pending \in SUBSET Mints
    /\ drains \in 0 .. DrainCap

FinInit ==
    /\ fin = "live"
    /\ pending = {}
    /\ drains = 0

FinGoto(step) == fin' = step

\* The Environment is deleted: the finalizer has to run.
DeleteEnv ==
    /\ fin = "live"
    /\ FinGoto("select")
    /\ UNCHANGED <<keyVars, pending, drains>>

\* ListEnvironmentKeysForRevoke.
SelectForRevoke ==
    /\ fin = "select"
    /\ pending' = Managed
    /\ FinGoto("revoke")
    /\ UNCHANGED <<keyVars, drains>>

\* Mutant: a 404 is an error.
RevokePendingStrict(m) ==
    /\ fin = "revoke" /\ m \in pending
    /\ llk[m] = "live"
    /\ llk' = [llk EXCEPT ![m] = "gone"]
    /\ pending' = pending \ {m}
    /\ UNCHANGED <<env, team, stage, stamp, age, row, rowId, rv, rs, fin, drains>>

\* RevokeKey, a 404 counting as done.
RevokePending(m) ==
    /\ fin = "revoke" /\ m \in pending
    /\ llk' = [llk EXCEPT ![m] = "gone"]
    /\ pending' = pending \ {m}
    /\ UNCHANGED <<env, team, stage, stamp, age, row, rowId, rv, rs, fin, drains>>

\* The pass is over; DeleteAccessGroup, which no key depends on, succeeds.
RevokePassDone ==
    /\ fin = "revoke" /\ pending = {}
    /\ FinGoto("team")
    /\ UNCHANGED <<keyVars, pending, drains>>

\* Mutant: the team goes, its keys stay.
DeleteShellTeamKeepingKeys ==
    /\ fin = "team"
    /\ team' = "absent"
    /\ FinGoto("drain")
    /\ drains' = 0
    /\ UNCHANGED <<env, stage, llk, stamp, age, row, rowId, rv, rs, pending>>

\* deleteShellTeam: LiteLLM deletes the team's keys with it.  The best-effort
\* tag and budget deletions follow.
DeleteShellTeam ==
    /\ fin = "team"
    /\ team' = "absent"
    /\ llk' = [m \in Mints |-> IF llk[m] = "live" THEN "gone" ELSE llk[m]]
    /\ FinGoto("drain")
    /\ drains' = 0
    /\ UNCHANGED <<env, stage, stamp, age, row, rowId, rv, rs, pending>>

\* drainEkRows: the UPDATE of one iteration...
DrainUpdate ==
    /\ fin = "drain"
    /\ row' = [m \in Mints |-> IF m \in Managed THEN "revoked" ELSE row[m]]
    /\ FinGoto("count")
    /\ UNCHANGED <<env, team, stage, llk, stamp, age, rowId, rv, rs, pending, drains>>

\* ...and its count: converged, once more, or the cap is exhausted.
DrainCount ==
    /\ fin = "count"
    /\ \/ /\ Managed = {}
          /\ FinGoto("row")
          /\ UNCHANGED drains
       \/ /\ Managed # {} /\ drains + 1 < DrainCap
          /\ FinGoto("drain")
          /\ drains' = drains + 1
       \/ /\ Managed # {} /\ drains + 1 = DrainCap
          /\ FinGoto("row")
          /\ drains' = drains + 1
    /\ UNCHANGED <<keyVars, pending>>

\* deleteEnvironmentProjection.
DeleteProjection ==
    /\ fin = "row"
    /\ env' = "absent"
    /\ FinGoto("finalizer")
    /\ UNCHANGED <<team, stage, llk, stamp, age, row, rowId, rv, rs, pending, drains>>

RemoveFinalizer ==
    /\ fin = "finalizer"
    /\ FinGoto("gone")
    /\ UNCHANGED <<keyVars, pending, drains>>

\* Any step fails, or the operator restarts: from the top.
FinalizerRestarts ==
    /\ fin \notin {"live", "select", "gone"}
    /\ FinGoto("select")
    /\ pending' = {}
    /\ drains' = 0
    /\ UNCHANGED keyVars

Finalizer ==
    \/ DeleteEnv \/ SelectForRevoke \/ (\E m \in Mints : RevokePending(m)) \/ RevokePassDone
    \/ DeleteShellTeam \/ DrainUpdate \/ DrainCount \/ DeleteProjection
    \/ RemoveFinalizer \/ FinalizerRestarts

-----------------------------------------------------------------------------
(* The whole *)

vars == <<keyVars, reaperVars, finVars>>

TypeOK == KeysTypeOK /\ ReaperTypeOK /\ FinTypeOK

Init == KeysInit /\ ReaperInit /\ FinInit

Request == \E m \in Mints : (Create(m) \/ Manage(m)) /\ UNCHANGED <<reaperVars, finVars>>

ReapStep(m) == Reap(m) /\ UNCHANGED <<env, team, stage, stamp, age, row, rowId, rv, rs, finVars>>

ReaperStep ==
    \/ ReaperQuiet /\ UNCHANGED <<keyVars, finVars>>
    \/ \E m \in Mints : ReapStep(m)

FinalizerStep == Finalizer /\ UNCHANGED reaperVars

\* Time passes for the keys and for the tick alike.
Clock == KeysAge /\ ReaperAge /\ UNCHANGED finVars

Next == Request \/ ReaperStep \/ FinalizerStep \/ Clock

Spec == Init /\ [][Next]_vars

-----------------------------------------------------------------------------
(* Safety *)

\* runnable.go: "suspended/expired/invalid keys are managed and never reaped".
\* Whatever the tick's reads race with, it never revokes the LiteLLM key of a
\* row that is not revoked.
ReaperSparesManaged == \A m \in reaped : m \notin Managed

\* environment_shellteam.go: "reporting a revocation that did not happen is the
\* one outcome that must never occur".  A row says 'revoked' only when its
\* LiteLLM key is dead, whichever of the DELETE handler and the finalizer
\* flipped it.
RevokedMeansDead == \A m \in Mints : row[m] = "revoked" => llk[m] = "gone"

\* Once the shell team is deleted no LiteLLM key of the Environment is left,
\* not even one minted while the finalizer ran.
DeletionLeavesNoKey ==
    fin \in {"drain", "count", "row", "finalizer", "gone"} =>
        \A m \in Mints : llk[m] # "live"

\* The predicate of ResumeEnvironmentKey: a resume that raced a revocation
\* never brings the key back.
RevocationIsFinal ==
    [][\A m \in Mints : row[m] = "revoked" => row'[m] = "revoked"]_vars


-----------------------------------------------------------------------------
(* Liveness *)

\* A create request that passed its checks runs to its end.
CreateProceeds(m) == stage[m] # "idle" /\ Create(m) /\ UNCHANGED <<reaperVars, finVars>>

ReaperRuns(step) == step /\ UNCHANGED <<keyVars, finVars>>

FinalizerRuns(step) == step /\ UNCHANGED reaperVars

\* Requests end, time passes, and the reaper ticks for ever: errors and
\* restarts interrupt a tick, but not every tick (strong fairness).
ReaperFairness ==
    /\ \A m \in Mints : WF_vars(CreateProceeds(m))
    /\ WF_vars(Clock)
    /\ WF_vars(ReaperRuns(ReadManaged))
    /\ SF_vars(ReaperRuns(TakeCutoff))
    /\ SF_vars(ReaperRuns(ListKeys))
    /\ \A m \in Mints : SF_vars(ReapStep(m))
    /\ WF_vars(ReaperRuns(TickDone))

\* controller-runtime requeues the finalizer until it succeeds; no step fails
\* every time it is tried.
FinalizerFairness ==
    /\ WF_vars(FinalizerRuns(SelectForRevoke))
    /\ \A m \in Mints : SF_vars(FinalizerRuns(RevokePending(m)))
    /\ SF_vars(FinalizerRuns(RevokePassDone))
    /\ SF_vars(FinalizerRuns(DeleteShellTeam))
    /\ SF_vars(FinalizerRuns(DrainUpdate))
    /\ SF_vars(FinalizerRuns(DrainCount))
    /\ SF_vars(FinalizerRuns(DeleteProjection))
    /\ SF_vars(FinalizerRuns(RemoveFinalizer))

ReaperSpec == Spec /\ ReaperFairness
FinalizerSpec == Spec /\ FinalizerFairness

\* D-23, "that reap IS the revoke retry": while the owner has another key and
\* the breaker does not trip, a LiteLLM key left behind by a crash, a failed
\* compensation or a revoked row is eventually revoked.
OrphansReclaimed ==
    \A m \in Mints :
        (llk[m] = "live" /\ stage[m] \in Ended /\ m \notin Managed) ~> (llk[m] = "gone")

\* revokeEnvironmentKeys skips a 404 and the drain loop is capped, "so a stale
\* row cannot wedge the finalizer forever": a deletion completes.
DeletionCompletes == (fin = "select") ~> (fin = "gone")

=============================================================================
