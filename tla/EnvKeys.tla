------------------------------- MODULE EnvKeys -------------------------------
(***************************************************************************)
(* Environment keys (ek_) of one owner in one Environment: the rows of     *)
(* environment_keys, the LiteLLM virtual keys behind them, and the         *)
(* platform-api handlers that create, suspend, resume and revoke them.     *)
(* A mint is one POST /platform/keys request; its row and its LiteLLM key  *)
(* are named after it.  EnvKeySystem adds the orphan reaper and the        *)
(* Environment finalizer, which act on the same state.                     *)
(***************************************************************************)
EXTENDS Naturals, FiniteSets

CONSTANTS
    Mints,      \* create requests
    Ids,        \* key_id values keys.NewKeyID can draw
    NoId,       \* not drawn yet
    FreshIds,   \* TRUE: NewKeyID never repeats an id
    MaxKeys,    \* the owner's allowance
    MintLimit,  \* longest time from KeyGenerate to the end of the request
    AgeFloor    \* OrphanAgeFloor

ASSUME EnvKeysAssumption ==
    /\ NoId \notin Ids
    /\ FreshIds \in BOOLEAN
    /\ MaxKeys \in Nat
    /\ MintLimit \in Nat
    /\ AgeFloor \in Nat

VARIABLES
    env,    \* "present" while the environments projection row exists
    team,   \* "present" while LiteLLM has the Environment's shell team
    stage,  \* per mint: how far the create request got
    llk,    \* per mint: its LiteLLM key
    stamp,  \* per mint: metadata.ach_key_id of the LiteLLM key
    age,    \* per mint: age of its live LiteLLM key, no further than OldAge
    row,    \* per mint: status of its environment_keys row
    rowId,  \* per mint: key_id of that row
    rv,     \* per mint: the DELETE request in progress on its row
    rs      \* per mint: a resume request has passed its checks

keyVars == <<env, team, stage, llk, stamp, age, row, rowId, rv, rs>>

Open == {"checked", "teamed", "minted", "undo"}
Ended == {"done", "failed"}
Managed == {m \in Mints : row[m] \in {"active", "suspended"}}
UsedIds == {stamp[m] : m \in Mints} \cup {rowId[m] : m \in Mints}

\* Ages beyond the floor are not told apart.
OldAge == AgeFloor + 1

KeysTypeOK ==
    /\ env \in {"present", "absent"}
    /\ team \in {"present", "absent"}
    /\ stage \in [Mints -> {"idle"} \cup Open \cup Ended]
    /\ llk \in [Mints -> {"none", "live", "gone"}]
    /\ stamp \in [Mints -> Ids \cup {NoId}]
    /\ age \in [Mints -> 0 .. OldAge]
    /\ row \in [Mints -> {"none", "active", "suspended", "revoked"}]
    /\ rowId \in [Mints -> Ids \cup {NoId}]
    /\ rv \in [Mints -> {"idle", "loaded", "killed"}]
    /\ rs \in [Mints -> BOOLEAN]

KeysInit ==
    /\ env = "present"
    /\ team = "present"
    /\ stage = [m \in Mints |-> "idle"]
    /\ llk = [m \in Mints |-> "none"]
    /\ stamp = [m \in Mints |-> NoId]
    /\ age = [m \in Mints |-> 0]
    /\ row = [m \in Mints |-> "none"]
    /\ rowId = [m \in Mints |-> NoId]
    /\ rv = [m \in Mints |-> "idle"]
    /\ rs = [m \in Mints |-> FALSE]

-----------------------------------------------------------------------------
(* Creation *)

\* CreateHandler up to validateAndLoadEnv and validateTeamMembership: the
\* allowance is read once and the projection row must exist.  Nothing asks
\* whether the Environment is being deleted.
Check(m) ==
    /\ stage[m] = "idle"
    /\ Cardinality(Managed) < MaxKeys
    /\ env = "present"
    /\ stage' = [stage EXCEPT ![m] = "checked"]
    /\ UNCHANGED <<env, team, llk, stamp, age, row, rowId, rv, rs>>

\* mint: the shell team is looked up by alias; none is a 503.
LookupTeam(m) ==
    /\ stage[m] = "checked"
    /\ stage' = [stage EXCEPT ![m] = IF team = "present" THEN "teamed" ELSE "failed"]
    /\ UNCHANGED <<env, team, llk, stamp, age, row, rowId, rv, rs>>

\* The request ends without a LiteLLM key: a lookup or KeyGenerate failed, or
\* the process died.
GiveUp(m) ==
    /\ stage[m] \in {"checked", "teamed"}
    /\ stage' = [stage EXCEPT ![m] = "failed"]
    /\ UNCHANGED <<env, team, llk, stamp, age, row, rowId, rv, rs>>

\* KeyGenerate, stamped with a drawn key_id.  LiteLLM refuses a team it does
\* not have.
KeyGenerate(m) ==
    /\ stage[m] = "teamed"
    /\ team = "present"
    /\ \E k \in Ids :
          /\ FreshIds => k \notin UsedIds
          /\ stamp' = [stamp EXCEPT ![m] = k]
    /\ stage' = [stage EXCEPT ![m] = "minted"]
    /\ llk' = [llk EXCEPT ![m] = "live"]
    /\ age' = [age EXCEPT ![m] = 0]
    /\ UNCHANGED <<env, team, row, rowId, rv, rs>>

\* KeyGenerate times out or the process dies waiting for the answer, and LiteLLM
\* has made the key all the same.
KeyGenerateLost(m) ==
    /\ stage[m] = "teamed"
    /\ team = "present"
    /\ \E k \in Ids :
          /\ FreshIds => k \notin UsedIds
          /\ stamp' = [stamp EXCEPT ![m] = k]
    /\ stage' = [stage EXCEPT ![m] = "failed"]
    /\ llk' = [llk EXCEPT ![m] = "live"]
    /\ age' = [age EXCEPT ![m] = 0]
    /\ UNCHANGED <<env, team, row, rowId, rv, rs>>

\* The INSERT.  A primary-key collision is retried once under a new key_id; the
\* LiteLLM key, stamped with the first one, is reused.
Insert(m) ==
    /\ stage[m] = "minted"
    /\ \E k \in Ids :
          /\ IF \E n \in Mints : rowId[n] = stamp[m]
             THEN \A n \in Mints : rowId[n] # k
             ELSE k = stamp[m]
          /\ rowId' = [rowId EXCEPT ![m] = k]
    /\ row' = [row EXCEPT ![m] = "active"]
    /\ stage' = [stage EXCEPT ![m] = "done"]
    /\ UNCHANGED <<env, team, llk, stamp, age, rv, rs>>

\* Seal or INSERT fails: on to the compensation.  The error may hide a commit
\* whose acknowledgement was lost.
InsertFails(m) ==
    /\ stage[m] = "minted"
    /\ stage' = [stage EXCEPT ![m] = "undo"]
    /\ \/ UNCHANGED <<row, rowId>>
       \/ /\ \A n \in Mints : rowId[n] # stamp[m]
          /\ row' = [row EXCEPT ![m] = "active"]
          /\ rowId' = [rowId EXCEPT ![m] = stamp[m]]
    /\ UNCHANGED <<env, team, llk, stamp, age, rv, rs>>

\* The compensating RevokeKey, on a context of its own; its failure is logged.
Compensate(m) ==
    /\ stage[m] = "undo"
    /\ stage' = [stage EXCEPT ![m] = "failed"]
    /\ llk' \in {llk, [llk EXCEPT ![m] = "gone"]}
    /\ UNCHANGED <<env, team, stamp, age, row, rowId, rv, rs>>

\* The process dies between KeyGenerate and the end of the request.
CrashMint(m) ==
    /\ stage[m] \in {"minted", "undo"}
    /\ stage' = [stage EXCEPT ![m] = "failed"]
    /\ UNCHANGED <<env, team, llk, stamp, age, row, rowId, rv, rs>>

-----------------------------------------------------------------------------
(* Management *)

\* SuspendEnvironmentKey: WHERE status = 'active'.
Suspend(m) ==
    /\ row[m] = "active"
    /\ row' = [row EXCEPT ![m] = "suspended"]
    /\ UNCHANGED <<env, team, stage, llk, stamp, age, rowId, rv, rs>>

\* ResumeHandler: the row is suspended, the Environment exists and the owner
\* has access to it.
CheckResume(m) ==
    /\ row[m] = "suspended"
    /\ env = "present"
    /\ rs' = [rs EXCEPT ![m] = TRUE]
    /\ UNCHANGED <<env, team, stage, llk, stamp, age, row, rowId, rv>>

\* Mutant: the flip does not look at the status it leaves.
FlipResumedBlindly(m) ==
    /\ rs[m]
    /\ rs' = [rs EXCEPT ![m] = FALSE]
    /\ row' = [row EXCEPT ![m] = "active"]
    /\ UNCHANGED <<env, team, stage, llk, stamp, age, rowId, rv>>

\* ResumeEnvironmentKey: WHERE status = 'suspended'; otherwise conflictFor
\* answers for the state it finds.
FlipResumed(m) ==
    /\ rs[m]
    /\ rs' = [rs EXCEPT ![m] = FALSE]
    /\ row' = IF row[m] = "suspended" THEN [row EXCEPT ![m] = "active"] ELSE row
    /\ UNCHANGED <<env, team, stage, llk, stamp, age, rowId, rv>>

\* DELETE /platform/keys/{id}: loadOwnedEk; a revoked row answers 204 at once.
LoadForRevoke(m) ==
    /\ rv[m] = "idle"
    /\ row[m] \in {"active", "suspended"}
    /\ rv' = [rv EXCEPT ![m] = "loaded"]
    /\ UNCHANGED <<env, team, stage, llk, stamp, age, row, rowId, rs>>

\* LiteLLM first: deleted, or a 404 because it was gone already.
KillFirst(m) ==
    /\ rv[m] = "loaded"
    /\ llk' = [llk EXCEPT ![m] = "gone"]
    /\ rv' = [rv EXCEPT ![m] = "killed"]
    /\ UNCHANGED <<env, team, stage, stamp, age, row, rowId, rs>>

\* Mutant: the row is flipped before LiteLLM is asked.
FlipRevokedFirst(m) ==
    /\ rv[m] = "loaded"
    /\ row' = [row EXCEPT ![m] = "revoked"]
    /\ rv' = [rv EXCEPT ![m] = "idle"]
    /\ UNCHANGED <<env, team, stage, llk, stamp, age, rowId, rs>>

\* Then the row: WHERE status <> 'revoked'.
FlipRevoked(m) ==
    /\ rv[m] = "killed"
    /\ row' = [row EXCEPT ![m] = "revoked"]
    /\ rv' = [rv EXCEPT ![m] = "idle"]
    /\ UNCHANGED <<env, team, stage, llk, stamp, age, rowId, rs>>

\* LiteLLM errors, the database errors, or the process dies.
RevokeFails(m) ==
    /\ rv[m] # "idle"
    /\ rv' = [rv EXCEPT ![m] = "idle"]
    /\ UNCHANGED <<env, team, stage, llk, stamp, age, row, rowId, rs>>

\* One unit of time; a create request is over within MintLimit of KeyGenerate.
KeysAge ==
    /\ \A m \in Mints : stage[m] \in {"minted", "undo"} => age[m] < MintLimit
    /\ age' = [m \in Mints |->
                 IF llk[m] # "live" THEN 0
                 ELSE IF age[m] < OldAge THEN age[m] + 1 ELSE OldAge]
    /\ UNCHANGED <<env, team, stage, llk, stamp, row, rowId, rv, rs>>

Create(m) ==
    \/ Check(m) \/ LookupTeam(m) \/ GiveUp(m) \/ KeyGenerate(m) \/ KeyGenerateLost(m)
    \/ Insert(m) \/ InsertFails(m) \/ Compensate(m) \/ CrashMint(m)

Manage(m) ==
    \/ Suspend(m) \/ CheckResume(m) \/ FlipResumed(m) \/ LoadForRevoke(m) \/ KillFirst(m)
    \/ FlipRevoked(m) \/ RevokeFails(m)

=============================================================================
