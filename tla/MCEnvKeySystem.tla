--------------------------- MODULE MCEnvKeySystem ---------------------------
(***************************************************************************)
(* What ACH keeps in LiteLLM for its users: the keys of an Environment     *)
(* under requests, reaper and finalizer, and the user record, teams, tag   *)
(* and key of a person under logins.  They share no variable, so they are  *)
(* explored one at a time: the initial state picks one (part) and the      *)
(* variables of the other stay at rest.                                    *)
(***************************************************************************)
EXTENDS EnvKeySystem, TLC

CONSTANTS
    None, l1, l2, admin, t, x, u1, u2

VARIABLES
    part,   \* the component this behaviour is of
    teams, members, users, tag, budget, shell, live, pkRow, login, moves, fails, torn, left

userVars ==
    <<teams, members, users, tag, budget, shell, live, pkRow, login, moves, fails, torn,
      left>>
mcVars == <<part, vars, userVars>>

\* Create requests are interchangeable, and so are key ids; the two logins are exchanged
\* with the former and the two keys of the person with the latter.
Swap(S) == CHOOSE q \in Permutations(S) : \A y \in S : q[y] # y
Symmetry ==
    Permutations({}) \cup {Swap(Mints) @@ Swap({l1, l2}), Swap(Ids) @@ Swap({u1, u2})}

\* Bound: the DELETE and resume requests in progress at a time are for one key.
OneKeyManaged == Cardinality({m \in Mints : rv[m] # "idle" \/ rs[m]}) <= 1

UserProcs == {l1, l2}
UserDefault == {t}
UserExtra == {x}
UserKeys == {u1, u2}

User == INSTANCE UserProvision WITH
          Procs <- UserProcs, Admin <- admin, Default <- UserDefault, Extra <- UserExtra,
          Keys <- UserKeys, Ceiling <- 10, Patched <- 50, MaxMoves <- 1, MaxFails <- 1, row
          <- pkRow, p <- login

\* The keys at rest: their invariants are evaluated in both parts.
NoKeys == Init

NoUser ==
    /\ teams = None /\ members = None /\ users = None /\ tag = None /\ budget = None
    /\ shell = None /\ live = None /\ pkRow = None /\ login = None /\ moves = None
    /\ fails = None /\ torn = None /\ left = None

MCInit ==
    \/ part = "keys" /\ Init /\ NoUser
    \/ part = "users" /\ User!Init /\ NoKeys

MCNext ==
    \/ part = "keys" /\ Next /\ UNCHANGED <<part, userVars>>
    \/ part = "users" /\ User!Next /\ UNCHANGED <<part, vars>>

MCSpec == MCInit /\ [][MCNext]_mcVars

-----------------------------------------------------------------------------
\* After a login the person has a ceiling (upsertUserBudgetTag), the administrator's if
\* one was set while nobody else was setting any (UserBudgetHandler), is in every default
\* team (provisionUser), and no LiteLLM key is left over (MintPK), although two logins, a
\* PATCH, failures and changes behind ACH's back interleave.
ProvisionedAsConfigured ==
    part = "users" =>
        /\ User!TypeOK /\ User!LoggedInIsCapped /\ User!PatchedCeilingStays
        /\ User!LoggedInIsMember /\ User!NoStrayKey

-----------------------------------------------------------------------------
\* The two liveness questions of EnvKeySystem, each under the fairness it needs and with
\* the environment it assumes: the reaper's with another key of the owner listed, the
\* finalizer's without.
Reclaim == INSTANCE EnvKeySystem WITH OtherKeys <- TRUE

LiveInit == part \in {"reclaim", "deletion"} /\ Init /\ NoUser

LiveNext ==
    /\ UNCHANGED <<part, userVars>>
    /\ \/ part = "reclaim" /\ Reclaim!Next
       \/ part = "deletion" /\ Next

LiveSpec ==
    /\ LiveInit /\ [][LiveNext]_mcVars
    /\ part = "reclaim" => Reclaim!ReaperFairness
    /\ part = "deletion" => FinalizerFairness

\* What a create or a deletion leaves behind is swept in the end: a LiteLLM key without
\* a row is reclaimed (the reaper), and a deletion completes (the finalizer).
NothingLingers ==
    /\ part = "reclaim" => Reclaim!OrphansReclaimed
    /\ part = "deletion" => DeletionCompletes

=============================================================================
