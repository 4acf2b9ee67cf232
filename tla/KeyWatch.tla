------------------------------ MODULE KeyWatch ------------------------------
(***************************************************************************)
(* The forwarder's watch on a long-running request (proxy.KeyWatch): Authn *)
(* admits it once, from the resolver cache, and from then on the key's row *)
(* is re-read every Every until the request ends or the key does.          *)
(*                                                                         *)
(* Time is relative and Every, Timeout and CacheBound are in the same unit.*)
(***************************************************************************)
EXTENDS Integers

CONSTANTS Every,       \* keyRecheckInterval
          Timeout,     \* keyRecheckTimeout, below Every
          CacheBound,  \* the longest Authn admits a dead key (RevocationPropagates of KeyCache)
          MaxFails,    \* bound: re-checks that fail
          None

(* The longest a request can outlive its key. *)
Outlives == CacheBound + Every + Timeout

VARIABLES
    status, \* the key's row; "expired" is an active row past expires_at
    dead,   \* time since the key stopped being live, capped above Outlives
    due,    \* time to the next re-check, None when no request runs
    check,  \* the running re-check: its age and the answer read, or None
    fails   \* re-checks of this request that failed

vars == <<status, dead, due, check, fails>>

TypeOK ==
    /\ status \in {"active", "suspended", "revoked", "expired"}
    /\ dead \in 0..Outlives + 1
    /\ due \in 0..Every \cup {None} /\ (due = None => check = None)
    /\ check = None \/ check \in [since : 0..Timeout, live : BOOLEAN \cup {None}]
    /\ fails \in 0..MaxFails

Init == status = "active" /\ dead = 0 /\ due = None /\ check = None /\ fails = 0

(* Suspend, resume, revoke, and the passing of expires_at. *)
KeyChanges ==
    /\ status' \in CASE status = "active" -> {"suspended", "revoked", "expired"}
                     [] status = "suspended" -> {"active", "revoked"}
                     [] OTHER -> {}
    /\ dead' = IF status' = "active" \/ status = "active" THEN 0 ELSE dead
    /\ UNCHANGED <<due, check, fails>>

keyLive == status = "active"

(* Authn lets the request through, and the watch is armed. *)
KeyWatch ==
    /\ due = None
    /\ keyLive \/ dead <= CacheBound
    /\ due' = Every /\ fails' = 0
    /\ UNCHANGED <<status, dead, check>>

CheckBegins ==
    /\ due = 0 /\ check = None
    /\ check' = [since |-> 0, live |-> None] /\ due' = Every
    /\ UNCHANGED <<status, dead, fails>>

CheckReads ==
    /\ check # None /\ check.live = None
    /\ check' = [check EXCEPT !.live = keyLive]
    /\ UNCHANGED <<status, dead, due, fails>>

(* As if a "not live" answer were only logged, as a failed check is. *)
watchKeyLogs ==
    /\ check # None /\ check.live # None
    /\ check' = None
    /\ UNCHANGED <<due, fails, status, dead>>

(* A definite "not live" cancels the request. *)
watchKey ==
    /\ check # None /\ check.live # None
    /\ check' = None
    /\ due' = IF check.live THEN due ELSE None
    /\ fails' = IF check.live THEN fails ELSE 0
    /\ UNCHANGED <<status, dead>>

(* The store is slow or down: the request is left alone. *)
CheckFails ==
    /\ check # None /\ fails < MaxFails
    /\ check' = None /\ fails' = fails + 1
    /\ UNCHANGED <<status, dead, due>>

(* The client or the backend ends the request, and stop the watch. *)
RequestEnds ==
    /\ due # None
    /\ due' = None /\ check' = None /\ fails' = 0
    /\ UNCHANGED <<status, dead>>

(* Time passes; a due re-check starts at once and lasts at most Timeout. *)
Tick ==
    /\ due # 0 /\ (check # None => check.since < Timeout)
    /\ dead' = IF keyLive \/ dead > Outlives THEN dead ELSE dead + 1
    /\ due' = IF due = None THEN None ELSE due - 1
    /\ check' = IF check = None THEN None ELSE [check EXCEPT !.since = @ + 1]
    /\ UNCHANGED <<status, fails>>

Next == KeyChanges \/ KeyWatch \/ CheckBegins \/ CheckReads \/ watchKey
        \/ CheckFails \/ RequestEnds \/ Tick

Spec == Init /\ [][Next]_vars

(* A tunnel or a stream outlives its key by at most the cache's bound, one  *)
(* interval and one re-check, unless a re-check failed.  "Within about one  *)
(* interval" (keywatch.go) leaves out the first term: a request admitted    *)
(* from the cache just before it learns of the revoke waits a full interval *)
(* for its first re-check.                                                  *)
EndsWithItsKey == due # None /\ fails = 0 /\ ~keyLive => dead <= Outlives

(* Failed re-checks delay the end and do not lose it: once the key is       *)
(* revoked for good, no request of it runs forever.                         *)
Ended == status = "revoked" => due = None
=============================================================================
