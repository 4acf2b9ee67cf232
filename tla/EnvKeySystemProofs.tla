------------------------- MODULE EnvKeySystemProofs -------------------------
(***************************************************************************)
(* Safety of environment keys for any number of create requests, any       *)
(* timings the age floor allows and any interleaving with the reaper and   *)
(* the finalizer.  The reaper is safe because a key it can pick is dead:   *)
(* its row is revoked, or it has none and its request is over.             *)
(***************************************************************************)
EXTENDS EnvKeySystem, TLAPS

\* No later step makes a dead key managed again.
Dead(m) == row[m] = "revoked" \/ (row[m] = "none" /\ stage[m] \in Ended)

\* What a request leaves behind at each stage.
KeyInv ==
    \A m \in Mints :
        /\ stage[m] \in {"idle", "checked", "teamed"} =>
              llk[m] = "none" /\ stamp[m] = NoId /\ row[m] = "none"
        /\ stage[m] = "minted" => row[m] = "none" /\ stamp[m] \in Ids /\ llk[m] # "none"
        /\ stage[m] \in {"minted", "undo"} => age[m] <= MintLimit
        /\ IF row[m] = "none" THEN rowId[m] = NoId ELSE rowId[m] \in Ids
        /\ row[m] # "none" => llk[m] # "none"
        /\ rv[m] # "idle" => row[m] # "none"
        /\ rv[m] = "killed" => llk[m] = "gone"
        /\ row[m] = "revoked" => llk[m] = "gone"

\* LiteLLM has no key of a team it does not have.
TeamInv ==
    /\ team = "absent" => \A m \in Mints : llk[m] # "live"
    /\ fin \in {"drain", "count", "row", "finalizer", "gone"} => team = "absent"

\* Without collisions a row and its LiteLLM key carry the same id.
StampInv ==
    /\ \A m \in Mints : row[m] # "none" => rowId[m] = stamp[m] /\ stamp[m] \in Ids
    /\ \A m, n \in Mints : stamp[m] = stamp[n] /\ stamp[m] # NoId => m = n

\* The finalizer and the reaper hold keys that were minted.
HeldInv ==
    /\ \A m \in pending : row[m] # "none"
    /\ \A m \in old \cup candidates : llk[m] # "none"

\* What a tick holds of each key it may come to revoke.
TickInv ==
    /\ tick = "managed" =>
          \A m \in Mints :
              llk[m] = "live" /\ stamp[m] \notin managed /\ age[m] > readAge + MintLimit
                 => Dead(m)
    /\ tick = "cutoff" => \A m \in old : stamp[m] \notin managed => Dead(m)
    /\ \A m \in candidates : Dead(m)
    /\ \A m \in reaped : Dead(m)

IInv == TypeOK /\ KeyInv /\ TeamInv /\ HeldInv /\ (FreshIds => StampInv /\ TickInv)

-----------------------------------------------------------------------------
USE EnvKeysAssumption, ReaperAssumption, FloorAssumption, FinalizerAssumption

\* Every operation stays in the types.
LEMMA TypeInductive == TypeOK /\ KeyInv /\ [Next]_vars => TypeOK'
<1> SUFFICES ASSUME TypeOK, KeyInv, [Next]_vars PROVE TypeOK'
    OBVIOUS
<1> USE DEF TypeOK, KeysTypeOK, ReaperTypeOK, FinTypeOK, Open, Ended, OldAge
<1>1. ASSUME NEW m \in Mints, Create(m), UNCHANGED <<reaperVars, finVars>> PROVE TypeOK'
  <2> USE <1>1 DEF reaperVars, finVars
  <2>1. CASE Check(m) \/ LookupTeam(m) \/ GiveUp(m) \/ CrashMint(m)
        BY <2>1 DEF Check, LookupTeam, GiveUp, CrashMint
  <2>2. CASE KeyGenerate(m) \/ KeyGenerateLost(m)
        BY <2>2 DEF KeyGenerate, KeyGenerateLost
  <2>3. CASE Insert(m)
        BY <2>3 DEF Insert
  <2>4. CASE InsertFails(m)
        BY <2>4 DEF InsertFails
  <2>5. CASE Compensate(m)
        BY <2>5 DEF Compensate
  <2> QED BY <2>1, <2>2, <2>3, <2>4, <2>5 DEF Create
<1>2. ASSUME NEW m \in Mints, Manage(m), UNCHANGED <<reaperVars, finVars>> PROVE TypeOK'
  <2> USE <1>2 DEF reaperVars, finVars
  <2>1. CASE Suspend(m)
        BY <2>1 DEF Suspend
  <2>2. CASE CheckResume(m)
    <3>1. rs' \in [Mints -> BOOLEAN]
          BY <2>2 DEF CheckResume
    <3> QED BY <2>2, <3>1 DEF CheckResume
  <2>3. CASE FlipResumed(m)
    <3>1. rs' \in [Mints -> BOOLEAN]
          BY <2>3 DEF FlipResumed
    <3>2. row' \in [Mints -> {"none", "active", "suspended", "revoked"}]
          BY <2>3 DEF FlipResumed
    <3> QED BY <2>3, <3>1, <3>2 DEF FlipResumed
  <2>4. CASE LoadForRevoke(m) \/ KillFirst(m) \/ FlipRevoked(m) \/ RevokeFails(m)
        BY <2>4 DEF LoadForRevoke, KillFirst, FlipRevoked, RevokeFails
  <2> QED BY <2>1, <2>2, <2>3, <2>4 DEF Manage
<1>3. ASSUME ReaperQuiet, UNCHANGED <<keyVars, finVars>> PROVE TypeOK'
  <2>1. CASE ReadManaged
        BY <1>3, <2>1 DEF ReadManaged, Managed, KeyInv, keyVars, finVars
  <2>2. CASE TakeCutoff \/ ListKeys \/ TickDone \/ AbortTick \/ \E m \in Mints : SkipReap(m)
        BY <1>3, <2>2 DEF TakeCutoff, ListKeys, TickDone, AbortTick, SkipReap, keyVars, finVars
  <2> QED BY <1>3, <2>1, <2>2 DEF ReaperQuiet
<1>4. ASSUME NEW m \in Mints, ReapStep(m) PROVE TypeOK'
      BY <1>4 DEF ReapStep, Reap, finVars
<1>5. ASSUME Finalizer, UNCHANGED reaperVars PROVE TypeOK'
  <2> USE <1>5 DEF reaperVars, FinGoto
  <2>1. CASE SelectForRevoke
        BY <2>1 DEF SelectForRevoke, Managed, keyVars
  <2>2. CASE \E m \in Mints : RevokePending(m)
        BY <2>2 DEF RevokePending
  <2>3. CASE DeleteShellTeam
        BY <2>3 DEF DeleteShellTeam
  <2>4. CASE DrainUpdate
        BY <2>4 DEF DrainUpdate, Managed
  <2>5. CASE DrainCount
        BY <2>5 DEF DrainCount, keyVars
  <2>6. CASE DeleteEnv \/ RevokePassDone \/ DeleteProjection \/ RemoveFinalizer \/ FinalizerRestarts
        BY <2>6 DEF DeleteEnv, RevokePassDone, DeleteProjection, RemoveFinalizer,
           FinalizerRestarts, keyVars
  <2> QED BY <2>1, <2>2, <2>3, <2>4, <2>5, <2>6 DEF Finalizer
<1>6. ASSUME Clock PROVE TypeOK'
      BY <1>6 DEF Clock, KeysAge, ReaperAge, finVars
<1>7. CASE UNCHANGED vars
      BY <1>7 DEF vars, keyVars, reaperVars, finVars
<1> QED BY <1>1, <1>2, <1>3, <1>4, <1>5, <1>6, <1>7 DEF Next, Request, ReaperStep, FinalizerStep

\* Every operation leaves each request consistent with its key and its row.
LEMMA KeyInductive == TypeOK /\ KeyInv /\ TeamInv /\ HeldInv /\ [Next]_vars => KeyInv'
<1> SUFFICES ASSUME TypeOK, KeyInv, TeamInv, HeldInv, [Next]_vars PROVE KeyInv'
    OBVIOUS
<1> USE DEF TypeOK, KeysTypeOK, KeyInv, Open, Ended
<1>1. ASSUME NEW m \in Mints, Create(m) PROVE KeyInv'
  <2> USE <1>1
  <2>1. CASE Check(m) \/ LookupTeam(m) \/ GiveUp(m) \/ CrashMint(m)
        BY <2>1 DEF Check, LookupTeam, GiveUp, CrashMint
  <2>2. CASE KeyGenerate(m) \/ KeyGenerateLost(m)
        BY <2>2 DEF KeyGenerate, KeyGenerateLost
  <2>3. CASE Insert(m)
        BY <2>3 DEF Insert
  <2>4. CASE InsertFails(m)
        BY <2>4 DEF InsertFails
  <2>5. CASE Compensate(m)
        BY <2>5 DEF Compensate
  <2> QED BY Zenon, <2>1, <2>2, <2>3, <2>4, <2>5 DEF Create
<1>2. ASSUME NEW m \in Mints, Manage(m) PROVE KeyInv'
  <2> USE <1>2
  <2>1. CASE Suspend(m) \/ CheckResume(m) \/ FlipResumed(m)
        BY <2>1 DEF Suspend, CheckResume, FlipResumed
  <2>2. CASE LoadForRevoke(m) \/ KillFirst(m) \/ FlipRevoked(m) \/ RevokeFails(m)
        BY <2>2 DEF LoadForRevoke, KillFirst, FlipRevoked, RevokeFails
  <2> QED BY <2>1, <2>2 DEF Manage
<1>3. ASSUME NEW m \in Mints, ReapStep(m) PROVE KeyInv'
      BY <1>3 DEF ReapStep, Reap, HeldInv
<1>4. ASSUME Finalizer PROVE KeyInv'
  <2>1. CASE \E m \in Mints : RevokePending(m)
        BY <2>1 DEF RevokePending, HeldInv
  <2>2. CASE DeleteShellTeam
        BY <2>2 DEF DeleteShellTeam
  <2>3. CASE DrainUpdate
        BY <2>3 DEF DrainUpdate, Managed, TeamInv
  <2>4. CASE DeleteProjection
        BY <2>4 DEF DeleteProjection
  <2>5. CASE UNCHANGED keyVars
        BY <2>5 DEF keyVars
  <2> QED BY <1>4, <2>1, <2>2, <2>3, <2>4, <2>5 DEF Finalizer, DeleteEnv, SelectForRevoke,
              RevokePassDone, DrainCount, RemoveFinalizer, FinalizerRestarts
<1>5. ASSUME KeysAge PROVE KeyInv'
      BY <1>5 DEF KeysAge, OldAge
<1>6. CASE UNCHANGED keyVars
      BY <1>6 DEF keyVars
<1> QED BY <1>1, <1>2, <1>3, <1>4, <1>5, <1>6
        DEF Next, Request, ReaperStep, FinalizerStep, Clock, vars

\* Only KeyGenerate makes a key live, and it needs the team.
LEMMA TeamInductive == TypeOK /\ KeyInv /\ TeamInv /\ [Next]_vars => TeamInv'
<1> SUFFICES ASSUME TypeOK, KeyInv, TeamInv, [Next]_vars PROVE TeamInv'
    OBVIOUS
<1> USE DEF TypeOK, KeysTypeOK, TeamInv
<1>1. ASSUME NEW m \in Mints, Create(m), UNCHANGED finVars PROVE TeamInv'
      BY <1>1 DEF Create, Check, LookupTeam, GiveUp, KeyGenerate, KeyGenerateLost, Insert,
           InsertFails, Compensate, CrashMint, finVars
<1>2. ASSUME NEW m \in Mints, Manage(m), UNCHANGED finVars PROVE TeamInv'
      BY <1>2 DEF Manage, Suspend, CheckResume, FlipResumed, LoadForRevoke, KillFirst,
           FlipRevoked, RevokeFails, finVars
<1>3. ASSUME NEW m \in Mints, ReapStep(m) PROVE TeamInv'
      BY <1>3 DEF ReapStep, Reap, finVars
<1>4. ASSUME Finalizer PROVE TeamInv'
      BY <1>4 DEF Finalizer, DeleteEnv, SelectForRevoke, RevokePending, RevokePassDone, DeleteShellTeam,
           DrainUpdate, DrainCount, DeleteProjection, RemoveFinalizer, FinalizerRestarts, FinGoto,
           keyVars
<1>5. ASSUME KeysAge, UNCHANGED finVars PROVE TeamInv'
      BY <1>5 DEF KeysAge, finVars
<1>6. CASE UNCHANGED <<keyVars, finVars>>
      BY <1>6 DEF keyVars, finVars
<1> QED BY <1>1, <1>2, <1>3, <1>4, <1>5, <1>6
        DEF Next, Request, ReaperStep, FinalizerStep, Clock, vars

\* Rows are never deleted and a minted key is never unminted.
LEMMA HeldInductive == TypeOK /\ KeyInv /\ HeldInv /\ [Next]_vars => HeldInv'
<1> SUFFICES ASSUME TypeOK, KeyInv, HeldInv, [Next]_vars PROVE HeldInv'
    OBVIOUS
<1> USE DEF TypeOK, KeysTypeOK, ReaperTypeOK, FinTypeOK, HeldInv
<1>1. ASSUME NEW m \in Mints, Create(m), UNCHANGED <<reaperVars, finVars>> PROVE HeldInv'
  <2>1. pending' = pending /\ old' = old /\ candidates' = candidates
        BY <1>1 DEF reaperVars, finVars
  <2>2. \A n \in Mints : row[n] # "none" => row'[n] # "none"
    <3>1. row' = row \/ row' = [row EXCEPT ![m] = "active"]
          BY Zenon, <1>1 DEF Create, Check, LookupTeam, GiveUp, KeyGenerate, KeyGenerateLost, Insert,
             InsertFails, Compensate, CrashMint
    <3> QED BY <3>1
  <2>3. \A n \in Mints : llk[n] # "none" => llk'[n] # "none"
    <3>1. \/ llk' = llk \/ llk' = [llk EXCEPT ![m] = "live"] \/ llk' = [llk EXCEPT ![m] = "gone"]
          BY Zenon, <1>1 DEF Create, Check, LookupTeam, GiveUp, KeyGenerate, KeyGenerateLost, Insert,
             InsertFails, Compensate, CrashMint
    <3> QED BY <3>1
  <2> QED BY <2>1, <2>2, <2>3
<1>2. ASSUME NEW m \in Mints, Manage(m), UNCHANGED <<reaperVars, finVars>> PROVE HeldInv'
      BY <1>2 DEF Manage, Suspend, CheckResume, FlipResumed, LoadForRevoke, KillFirst,
           FlipRevoked, RevokeFails, reaperVars, finVars
<1>3. ASSUME ReaperQuiet, UNCHANGED <<keyVars, finVars>> PROVE HeldInv'
      BY <1>3 DEF ReaperQuiet, ReadManaged, TakeCutoff, ListKeys, TickDone, AbortTick, SkipReap,
           keyVars, finVars
<1>4. ASSUME NEW m \in Mints, ReapStep(m) PROVE HeldInv'
      BY <1>4 DEF ReapStep, Reap, finVars
<1>5. ASSUME Finalizer, UNCHANGED reaperVars PROVE HeldInv'
  <2> USE <1>5 DEF reaperVars
  <2>1. CASE SelectForRevoke
        BY <2>1 DEF SelectForRevoke, Managed, keyVars
  <2>2. CASE \E m \in Mints : RevokePending(m)
        BY <2>2 DEF RevokePending
  <2>3. CASE DeleteShellTeam
        BY <2>3 DEF DeleteShellTeam
  <2>4. CASE DrainUpdate
        BY <2>4 DEF DrainUpdate, Managed
  <2>5. CASE DeleteEnv \/ RevokePassDone \/ DrainCount \/ DeleteProjection \/ RemoveFinalizer
             \/ FinalizerRestarts
        BY <2>5 DEF DeleteEnv, RevokePassDone, DrainCount, DeleteProjection, RemoveFinalizer,
           FinalizerRestarts, keyVars
  <2> QED BY <2>1, <2>2, <2>3, <2>4, <2>5 DEF Finalizer
<1>6. ASSUME Clock PROVE HeldInv'
      BY <1>6 DEF Clock, KeysAge, ReaperAge, finVars
<1>7. CASE UNCHANGED vars
      BY <1>7 DEF vars, keyVars, reaperVars, finVars
<1> QED BY <1>1, <1>2, <1>3, <1>4, <1>5, <1>6, <1>7 DEF Next, Request, ReaperStep, FinalizerStep

\* Insert and KeyGenerate keep the ids of rows and keys in step.
LEMMA StampInductive ==
    ASSUME TypeOK, KeyInv, FreshIds, StampInv, [Next]_vars
    PROVE  StampInv'
<1> USE DEF TypeOK, KeysTypeOK, KeyInv, StampInv
<1>1. ASSUME NEW m \in Mints, Create(m) PROVE StampInv'
  <2> USE <1>1
  <2>1. CASE Check(m) \/ LookupTeam(m) \/ GiveUp(m) \/ CrashMint(m) \/ Compensate(m)
        BY <2>1 DEF Check, LookupTeam, GiveUp, CrashMint, Compensate
  <2>2. CASE KeyGenerate(m) \/ KeyGenerateLost(m)
        BY <2>2 DEF KeyGenerate, KeyGenerateLost, UsedIds
  <2>3. CASE Insert(m)
    <3>1. \A n \in Mints : rowId[n] # stamp[m]
          BY <2>3 DEF Insert
    <3>2. rowId' = [rowId EXCEPT ![m] = stamp[m]] /\ row' = [row EXCEPT ![m] = "active"]
          BY Zenon, <2>3, <3>1 DEF Insert
    <3> QED BY <2>3, <3>2 DEF Insert
  <2>4. CASE InsertFails(m)
        BY <2>4 DEF InsertFails
  <2> QED BY Zenon, <2>1, <2>2, <2>3, <2>4 DEF Create
<1>2. ASSUME NEW m \in Mints, Manage(m) PROVE StampInv'
  <2>1. stamp' = stamp /\ rowId' = rowId
        BY <1>2 DEF Manage, Suspend, CheckResume, FlipResumed, LoadForRevoke, KillFirst, FlipRevoked,
           RevokeFails
  <2>2. \A n \in Mints : row'[n] # "none" => row[n] # "none"
    <3>1. CASE Suspend(m)
          BY <3>1 DEF Suspend
    <3>2. CASE FlipResumed(m)
          BY <3>2 DEF FlipResumed
    <3>3. CASE FlipRevoked(m)
          BY <3>3 DEF FlipRevoked
    <3>4. CASE CheckResume(m) \/ LoadForRevoke(m) \/ KillFirst(m) \/ RevokeFails(m)
          BY <3>4 DEF CheckResume, LoadForRevoke, KillFirst, RevokeFails
    <3> QED BY <1>2, <3>1, <3>2, <3>3, <3>4 DEF Manage
  <2> QED BY <2>1, <2>2
<1>3. ASSUME NEW m \in Mints, ReapStep(m) PROVE StampInv'
      BY <1>3 DEF ReapStep, Reap
<1>4. ASSUME Finalizer PROVE StampInv'
  <2>1. CASE DrainUpdate
        BY <2>1 DEF DrainUpdate, Managed
  <2>2. CASE ~DrainUpdate
    <3>1. stamp' = stamp /\ rowId' = rowId /\ row' = row
          BY <1>4, <2>2 DEF Finalizer, DeleteEnv, SelectForRevoke, RevokePending, RevokePassDone,
             DeleteShellTeam, DrainCount, DeleteProjection, RemoveFinalizer, FinalizerRestarts, keyVars
    <3> QED BY <3>1
  <2> QED BY <2>1, <2>2
<1>5. ASSUME KeysAge PROVE StampInv'
      BY <1>5 DEF KeysAge
<1>6. CASE UNCHANGED keyVars
      BY <1>6 DEF keyVars
<1> QED BY <1>1, <1>2, <1>3, <1>4, <1>5, <1>6
        DEF Next, Request, ReaperStep, FinalizerStep, Clock, vars

\* Death is final: no row is inserted once the request is over, and no row
\* leaves 'revoked'.
LEMMA DeadForever ==
    ASSUME TypeOK, KeyInv, [Next]_vars, NEW n \in Mints, Dead(n)
    PROVE  Dead(n)'
<1> USE DEF TypeOK, KeysTypeOK, KeyInv, Dead, Ended
<1>1. ASSUME NEW m \in Mints, Create(m) PROVE Dead(n)'
  <2>1. CASE Check(m) \/ LookupTeam(m) \/ GiveUp(m) \/ CrashMint(m) \/ Compensate(m)
        BY <2>1 DEF Check, LookupTeam, GiveUp, CrashMint, Compensate
  <2>2. CASE KeyGenerate(m) \/ KeyGenerateLost(m)
        BY <2>2 DEF KeyGenerate, KeyGenerateLost
  <2>3. CASE Insert(m)
        BY <2>3 DEF Insert
  <2>4. CASE InsertFails(m)
        BY <2>4 DEF InsertFails
  <2> QED BY <1>1, <2>1, <2>2, <2>3, <2>4 DEF Create
<1>2. ASSUME NEW m \in Mints, Manage(m) PROVE Dead(n)'
  <2>1. CASE Suspend(m) \/ CheckResume(m) \/ FlipResumed(m)
        BY <2>1 DEF Suspend, CheckResume, FlipResumed
  <2>2. CASE LoadForRevoke(m) \/ KillFirst(m) \/ FlipRevoked(m) \/ RevokeFails(m)
        BY <2>2 DEF LoadForRevoke, KillFirst, FlipRevoked, RevokeFails
  <2> QED BY <1>2, <2>1, <2>2 DEF Manage
<1>3. ASSUME NEW m \in Mints, ReapStep(m) PROVE Dead(n)'
      BY <1>3 DEF ReapStep
<1>4. ASSUME Finalizer PROVE Dead(n)'
      BY <1>4 DEF Finalizer, DeleteEnv, SelectForRevoke, RevokePending, RevokePassDone, DeleteShellTeam,
           DrainUpdate, DrainCount, DeleteProjection, RemoveFinalizer, FinalizerRestarts,
           Managed, keyVars
<1>5. ASSUME KeysAge PROVE Dead(n)'
      BY <1>5 DEF KeysAge
<1>6. CASE UNCHANGED keyVars
      BY <1>6 DEF keyVars
<1> QED BY <1>1, <1>2, <1>3, <1>4, <1>5, <1>6
        DEF Next, Request, ReaperStep, FinalizerStep, Clock, vars

\* A request or the finalizer leaves a live key's stamp and age alone; the only
\* new live key is a newborn.
LEMMA KeyFrame ==
    ASSUME TypeOK, KeyInv, NEW n \in Mints,
           Request \/ FinalizerStep
    PROVE  /\ llk[n] # "none" => stamp'[n] = stamp[n]
           /\ llk'[n] = "live" => age'[n] = 0 \/ (llk[n] = "live" /\ age'[n] = age[n])
<1> USE DEF TypeOK, KeysTypeOK, KeyInv
<1>1. ASSUME NEW m \in Mints, Create(m)
      PROVE  /\ llk[n] # "none" => stamp'[n] = stamp[n]
             /\ llk'[n] = "live" => age'[n] = 0 \/ (llk[n] = "live" /\ age'[n] = age[n])
  <2>1. CASE KeyGenerate(m)
        BY <2>1 DEF KeyGenerate
  <2>2. CASE KeyGenerateLost(m)
        BY <2>2 DEF KeyGenerateLost
  <2>3. CASE ~KeyGenerate(m) /\ ~KeyGenerateLost(m)
    <3>1. stamp' = stamp /\ age' = age /\ (llk'[n] = "live" => llk[n] = "live")
          BY <1>1, <2>3 DEF Create, Check, LookupTeam, GiveUp, Insert, InsertFails, Compensate, CrashMint
    <3> QED BY <3>1
  <2> QED BY <2>1, <2>2, <2>3
<1>2. ASSUME NEW m \in Mints, Manage(m)
      PROVE  stamp' = stamp /\ age' = age /\ (llk'[n] = "live" => llk[n] = "live")
      BY <1>2 DEF Manage, Suspend, CheckResume, FlipResumed, LoadForRevoke, KillFirst,
           FlipRevoked, RevokeFails
<1>3. ASSUME Finalizer
      PROVE  stamp' = stamp /\ age' = age /\ (llk'[n] = "live" => llk[n] = "live")
      BY <1>3 DEF Finalizer, DeleteEnv, SelectForRevoke, RevokePending, RevokePassDone, DeleteShellTeam,
           DrainUpdate, DrainCount, DeleteProjection, RemoveFinalizer, FinalizerRestarts, keyVars
<1> QED BY <1>1, <1>2, <1>3 DEF Request, FinalizerStep

\* The tick only ever holds keys that are dead or too young to be old.
LEMMA TickInductive ==
    ASSUME TypeOK, KeyInv, HeldInv, FreshIds, StampInv, TickInv, [Next]_vars
    PROVE  TickInv'
<1>a. \A n \in Mints : Dead(n) => Dead(n)'
      BY DeadForever
<1>b. old \in SUBSET Mints /\ candidates \in SUBSET Mints /\ reaped \in SUBSET Mints
      BY DEF TypeOK, ReaperTypeOK
<1>1. CASE Request \/ FinalizerStep
  <2>1. UNCHANGED reaperVars
        BY <1>1 DEF Request, FinalizerStep
  <2>2. readAge + MintLimit \in Nat
        BY DEF TypeOK, ReaperTypeOK
  <2>3. \A n \in Mints :
            /\ llk[n] # "none" => stamp'[n] = stamp[n]
            /\ llk'[n] = "live" => age'[n] = 0 \/ (llk[n] = "live" /\ age'[n] = age[n])
        BY Zenon, <1>1, KeyFrame
  <2>4. ASSUME tick = "managed", NEW n \in Mints, llk'[n] = "live", stamp'[n] \notin managed,
               age'[n] > readAge + MintLimit
        PROVE  Dead(n)'
    <3>1. age'[n] # 0
          BY <2>2, <2>4
    <3>2. llk[n] = "live" /\ stamp'[n] = stamp[n] /\ age'[n] = age[n]
          BY <2>3, <2>4, <3>1
    <3> QED BY <1>a, <2>4, <3>2 DEF TickInv
  <2>5. ASSUME tick = "cutoff", NEW n \in old, stamp'[n] \notin managed
        PROVE  Dead(n)'
        BY <1>a, <1>b, <2>3, <2>5 DEF TickInv, HeldInv
  <2> QED BY <1>a, <1>b, <2>1, <2>4, <2>5 DEF TickInv, reaperVars
<1>2. CASE ReaperQuiet /\ UNCHANGED <<keyVars, finVars>>
  <2>0. age' = age /\ llk' = llk /\ stamp' = stamp
        BY <1>2 DEF keyVars
  <2> USE <1>a, <1>b, <2>0 DEF TickInv
  <2>1. CASE ReadManaged
    <3>1. ASSUME NEW n \in Mints, llk[n] = "live", stamp[n] \notin managed', age[n] > MintLimit
          PROVE  Dead(n)
      <4>1. n \notin Managed
            BY <2>1, <3>1 DEF ReadManaged, StampInv, Managed
      <4>2. stage[n] \notin {"idle", "checked", "teamed", "minted", "undo"}
            BY <3>1 DEF KeyInv, TypeOK, KeysTypeOK
      <4>3. row[n] \in {"none", "revoked"} /\ stage[n] \in {"done", "failed"}
        <5>1. /\ row[n] \in {"none", "active", "suspended", "revoked"}
              /\ stage[n] \in {"idle"} \cup Open \cup Ended
              BY DEF TypeOK, KeysTypeOK
        <5> QED BY <4>1, <4>2, <5>1 DEF Managed, Open, Ended
      <4> QED BY <4>3 DEF Dead, Ended
    <3> QED BY <2>1, <3>1 DEF ReadManaged
  <2>2. CASE TakeCutoff
    <3>1. ASSUME NEW n \in old', stamp[n] \notin managed
          PROVE  Dead(n)
          BY <2>2, <3>1 DEF TakeCutoff, TypeOK, KeysTypeOK, ReaperTypeOK
    <3> QED BY <2>2, <3>1 DEF TakeCutoff
  <2>3. CASE ListKeys
    <3>1. \A n \in candidates' : Dead(n)
          BY <2>3 DEF ListKeys
    <3> QED BY <2>3, <3>1 DEF ListKeys
  <2>4. CASE TickDone \/ AbortTick \/ \E m \in Mints : SkipReap(m)
        BY <2>4 DEF TickDone, AbortTick, SkipReap
  <2> QED BY Zenon, <1>2, <2>1, <2>2, <2>3, <2>4 DEF ReaperQuiet
<1>3. CASE \E m \in Mints : ReapStep(m)
      BY <1>a, <1>b, <1>3 DEF ReapStep, Reap, TickInv
<1>4. CASE Clock
  <2>1. ASSUME tick = "managed", NEW n \in Mints, llk[n] = "live", stamp[n] \notin managed,
               age'[n] > readAge' + MintLimit
        PROVE  Dead(n)'
    <3>1. age[n] > readAge + MintLimit
          BY <1>4, <2>1 DEF Clock, KeysAge, ReaperAge, OldAge, TypeOK, KeysTypeOK, ReaperTypeOK
    <3> QED BY <1>a, <2>1, <3>1 DEF TickInv
  <2> QED BY <1>a, <1>b, <1>4, <2>1 DEF Clock, KeysAge, ReaperAge, TickInv
<1>5. CASE UNCHANGED vars
      BY <1>a, <1>b, <1>5 DEF TickInv, vars, keyVars, reaperVars
<1> QED BY <1>1, <1>2, <1>3, <1>4, <1>5 DEF Next, ReaperStep

-----------------------------------------------------------------------------
\* The inductive invariant holds initially...
LEMMA InitIInv == Init => IInv
<1> SUFFICES ASSUME Init PROVE IInv
    OBVIOUS
<1> USE DEF Init, KeysInit, ReaperInit, FinInit
<1>1. TypeOK
      BY DEF TypeOK, KeysTypeOK, ReaperTypeOK, FinTypeOK, OldAge
<1>2. KeyInv
      BY DEF KeyInv
<1>3. TeamInv /\ HeldInv
      BY DEF TeamInv, HeldInv
<1>4. StampInv /\ TickInv
      BY DEF StampInv, TickInv
<1> QED BY <1>1, <1>2, <1>3, <1>4 DEF IInv

\* ...and always.
THEOREM Invariance == Spec => []IInv
<1>1. IInv /\ [Next]_vars => IInv'
      BY TypeInductive, KeyInductive, TeamInductive, HeldInductive, StampInductive, TickInductive
         DEF IInv
<1> QED BY <1>1, InitIInv, PTL DEF Spec

\* Create, management, reaper and finalizer keep every variable in its type.
THEOREM TypeCorrect == Spec => []TypeOK
BY Invariance, PTL DEF IInv

\* However its reads interleave with requests, the reaper's TickOnce never
\* revokes the LiteLLM key of a non-revoked row, provided key_ids are not
\* drawn twice and the age floor covers a create request and the tick's query.
THEOREM ReaperSafety == FreshIds => (Spec => []ReaperSparesManaged)
<1> SUFFICES ASSUME FreshIds PROVE Spec => []ReaperSparesManaged
    OBVIOUS
<1>1. IInv => ReaperSparesManaged
      BY DEF IInv, TickInv, ReaperSparesManaged, Managed, Dead
<1> QED BY Invariance, <1>1, PTL

\* A row the DELETE handler or the finalizer's drain marked 'revoked' has no
\* live LiteLLM key.
THEOREM RevocationHonest == Spec => []RevokedMeansDead
<1>1. IInv => RevokedMeansDead
      BY Zenon DEF IInv, KeyInv, RevokedMeansDead
<1> QED BY Invariance, <1>1, PTL

\* After deleteShellTeam no LiteLLM key of the Environment is live, in-flight
\* create requests included.
THEOREM DeletionSound == Spec => []DeletionLeavesNoKey
<1>1. IInv => DeletionLeavesNoKey
      BY DEF IInv, TeamInv, DeletionLeavesNoKey
<1> QED BY Invariance, <1>1, PTL

\* No step, a racing resume included, takes a row out of 'revoked'.
THEOREM RevocationFinality == Spec => RevocationIsFinal
<1>1. IInv /\ [Next]_vars => [\A m \in Mints : row[m] = "revoked" => row'[m] = "revoked"]_vars
  <2> SUFFICES ASSUME IInv, [Next]_vars, NEW n \in Mints, row[n] = "revoked"
               PROVE  row'[n] = "revoked"
      OBVIOUS
  <2>1. stage[n] # "minted"
        BY DEF IInv, KeyInv
  <2> USE <2>1 DEF IInv, TypeOK, KeysTypeOK
  <2>2. ASSUME NEW m \in Mints, Create(m) PROVE row'[n] = "revoked"
        BY <2>2 DEF Create, Check, LookupTeam, GiveUp, KeyGenerate, KeyGenerateLost, Insert,
             InsertFails, Compensate, CrashMint
  <2>3. ASSUME NEW m \in Mints, Manage(m) PROVE row'[n] = "revoked"
        BY <2>3 DEF Manage, Suspend, CheckResume, FlipResumed, LoadForRevoke, KillFirst,
             FlipRevoked, RevokeFails
  <2>4. ASSUME Finalizer PROVE row'[n] = "revoked"
        BY <2>4 DEF Finalizer, DeleteEnv, SelectForRevoke, RevokePending, RevokePassDone,
             DeleteShellTeam, DrainUpdate, DrainCount, DeleteProjection, RemoveFinalizer,
             FinalizerRestarts, Managed, keyVars
  <2>5. CASE row' = row
        BY <2>5
  <2> QED BY <2>2, <2>3, <2>4, <2>5
          DEF Next, Request, ReaperStep, ReapStep, FinalizerStep, Clock, KeysAge, vars, keyVars
<1> QED BY Invariance, <1>1, PTL DEF Spec, RevocationIsFinal
=============================================================================
