---------------------------- MODULE LiteLLMConn ----------------------------
(***************************************************************************)
(* The LiteLLMConnection/default object from the operator's boot to the    *)
(* forwarder's: the boot creates it or brings its spec to the Helm values, *)
(* the reconciler reads the master key, probes LiteLLM, publishes the      *)
(* client the operator's other controllers use (connection.Cache),         *)
(* projects the spec into litellm_connections and seeds the default team;  *)
(* a booting forwarder polls that row and the Secret.  Users edit and      *)
(* delete the object, the Secret changes, LiteLLM goes away or changes its *)
(* key, writes fail, and the operator restarts.                            *)
(***************************************************************************)
EXTENDS Integers

CONSTANTS Specs,      \* values of spec.endpoint and spec.masterKeySecretRef
          Values,     \* the spec the Helm values ask for, or None
          Keys,       \* master keys
          MaxEdits,   \* bound on the changes users and LiteLLM make
          MaxFails,   \* bound on failed calls and restarts
          None

VARIABLES cr,         \* the object: spec, generation, finalizer, deleting
          reason,     \* its Ready condition: [is, gen]
          secret,     \* the master key the Secret holds
          llm,        \* LiteLLM: is it up, and which key does it take
          conn,       \* connection.Cache
          row,        \* litellm_connections
          team,       \* LiteLLM has the default team
          boot, rc, queue,   \* EnsureConnection, the reconcile, its workqueue
          fwd,        \* the forwarder: None while it polls, then what it took
          edits, fails

vars == <<cr, reason, secret, llm, conn, row, team, boot, rc, queue, fwd, edits, fails>>

NotReady(why) == [ready |-> FALSE, is |-> why, spec |-> None, key |-> None]

RcIdle == [pc |-> "idle", cr |-> None, key |-> None]

Init ==
  /\ cr = None /\ reason = None /\ secret \in Keys \cup {None}
  /\ \E k \in Keys : llm = [up |-> TRUE, key |-> k]
  /\ conn = NotReady("Connecting") /\ row = None /\ team = FALSE
  /\ boot = [pc |-> "get", saw |-> None] /\ rc = RcIdle /\ queue = FALSE
  /\ fwd = None /\ edits = 0 /\ fails = 0

\* A call that may fail: the failure counts against the bound.
Fails == fails < MaxFails /\ fails' = fails + 1

------------------------------------------------------------------------------
(* EnsureConnection, before the manager starts.                             *)

BootGet ==
  /\ boot.pc = "get"
  /\ boot' = [pc |-> IF Values = None \/ (cr # None /\ cr.spec = Values) THEN "done" ELSE "put", saw |-> cr]
  /\ queue' = (queue \/ boot'.pc = "done")         \* the started manager lists the objects
  /\ UNCHANGED <<cr, reason, secret, llm, conn, row, team, rc, fwd, edits, fails>>

\* Create what was absent (a concurrent creator's object is left as it is),
\* update what drifted; an update of an object that changed or went away
\* since is an error, and the process starts over.
BootPut ==
  /\ boot.pc = "put"
  /\ IF boot.saw = None
     THEN /\ cr' = IF cr = None THEN [spec |-> Values, gen |-> 1, fin |-> FALSE, deleting |-> FALSE] ELSE cr
          /\ boot' = [pc |-> "done", saw |-> None]
     ELSE IF cr = boot.saw
     THEN /\ cr' = [cr EXCEPT !.spec = Values, !.gen = @ + 1]
          /\ boot' = [pc |-> "done", saw |-> None]
     ELSE cr' = cr /\ boot' = [pc |-> "get", saw |-> None]
  /\ queue' = (queue \/ boot'.pc = "done")
  /\ UNCHANGED <<reason, secret, llm, conn, row, team, rc, fwd, edits, fails>>

------------------------------------------------------------------------------
(* Reconcile.  A requeue -- of a returned error, or by an event -- is        *)
(* queue' = TRUE.                                                           *)

Frame == UNCHANGED <<secret, llm, boot, fwd, edits>>

Begin ==
  /\ boot.pc = "done" /\ rc.pc = "idle" /\ queue
  /\ queue' = FALSE
  /\ rc' = [pc |-> IF cr = None THEN "idle"
                   ELSE IF cr.deleting THEN "delete"
                   ELSE IF ~cr.fin THEN "finalizer" ELSE "connect",
            cr |-> cr, key |-> None]
  /\ UNCHANGED <<cr, reason, conn, row, team, fails>> /\ Frame

\* r.Update: it conflicts when the object changed since it was read.
AddFinalizer ==
  /\ rc.pc = "finalizer"
  /\ rc' = RcIdle /\ queue' = TRUE
  /\ cr' = IF cr = rc.cr THEN [cr EXCEPT !.fin = TRUE] ELSE cr
  /\ UNCHANGED <<reason, conn, row, team, fails>> /\ Frame

\* As if a failed deletion of the row were logged and passed over.
DeleteRowTolerant ==
  /\ rc.pc = "delete"
  /\ \/ row' = None /\ UNCHANGED fails
     \/ Fails /\ UNCHANGED row
  /\ rc' = [rc EXCEPT !.pc = "unfinalize"]
  /\ UNCHANGED <<cr, reason, conn, team, queue>> /\ Frame

\* The deletion: the row, then the finalizer, then the published client.
DeleteRow ==
  /\ rc.pc = "delete"
  /\ \/ row' = None /\ rc' = [rc EXCEPT !.pc = "unfinalize"] /\ UNCHANGED <<queue, fails>>
     \/ Fails /\ rc' = RcIdle /\ queue' = TRUE /\ UNCHANGED row
  /\ UNCHANGED <<cr, reason, conn, team>> /\ Frame

RemoveFinalizer ==
  /\ rc.pc = "unfinalize"
  /\ IF cr = rc.cr
     THEN cr' = None /\ reason' = None /\ rc' = [rc EXCEPT !.pc = "forget"] /\ queue' = queue
     ELSE rc' = RcIdle /\ queue' = TRUE /\ UNCHANGED <<cr, reason>>
  /\ UNCHANGED <<conn, row, team, fails>> /\ Frame

\* As if the published client outlived the object.
ForgetNothing ==
  /\ rc.pc = "forget"
  /\ rc' = RcIdle
  /\ UNCHANGED <<cr, reason, conn, row, team, queue, fails>> /\ Frame

Forget ==
  /\ rc.pc = "forget"
  /\ conn' = NotReady("Absent") /\ rc' = RcIdle
  /\ UNCHANGED <<cr, reason, row, team, queue, fails>> /\ Frame

\* writeStatus: a failed status update is only logged; one of an object that
\* is gone cannot succeed.
writeStatus(is) ==
  \/ reason' = (IF cr = None THEN None ELSE [is |-> is, gen |-> rc.cr.gen]) /\ UNCHANGED fails
  \/ Fails /\ UNCHANGED reason

Connect ==
  /\ rc.pc = "connect"
  /\ IF (reason = None \/ reason.gen # rc.cr.gen) /\ (reason = None \/ reason.is # "Connecting")
     THEN writeStatus("Connecting") ELSE UNCHANGED <<reason, fails>>
  /\ rc' = [rc EXCEPT !.pc = "secret"]
  /\ UNCHANGED <<cr, conn, row, team, queue>> /\ Frame

\* The Secret, or its key, is not there: the next event of the Secret brings
\* the object back.
ReadSecret ==
  /\ rc.pc = "secret"
  /\ IF secret = None
     THEN /\ writeStatus("SecretNotFound") /\ conn' = NotReady("SecretNotFound") /\ rc' = RcIdle
     ELSE /\ rc' = [rc EXCEPT !.pc = "probe", !.key = secret] /\ UNCHANGED <<reason, conn, fails>>
  /\ UNCHANGED <<cr, row, team, queue>> /\ Frame

\* GET /models with the key: 401 waits for an event, an unreachable LiteLLM
\* is retried.
Probe ==
  /\ rc.pc = "probe"
  /\ IF ~llm.up
     THEN /\ writeStatus("Unreachable") /\ conn' = NotReady("Unreachable")
          /\ rc' = RcIdle /\ queue' = TRUE
     ELSE IF llm.key # rc.key
     THEN /\ writeStatus("BadMasterKey") /\ conn' = NotReady("BadMasterKey")
          /\ rc' = RcIdle /\ queue' = queue
     ELSE /\ writeStatus("Synced")
          /\ conn' = [ready |-> TRUE, is |-> "Synced", spec |-> rc.cr.spec, key |-> rc.key]
          /\ rc' = [rc EXCEPT !.pc = "project"] /\ queue' = queue
  /\ UNCHANGED <<cr, row, team>> /\ Frame

\* UpsertLiteLLMConnectionTx with its NOTIFY.
Project ==
  /\ rc.pc = "project"
  /\ \/ row' = rc.cr.spec /\ rc' = [rc EXCEPT !.pc = "team"] /\ UNCHANGED <<queue, fails>>
     \/ Fails /\ rc' = RcIdle /\ queue' = TRUE /\ UNCHANGED row
  /\ UNCHANGED <<cr, reason, conn, team>> /\ Frame

\* Listed first, created only when absent; a failure waits for the next pass.
EnsureDefaultTeam ==
  /\ rc.pc = "team"
  /\ \/ llm.up /\ llm.key = rc.key /\ team' = TRUE /\ UNCHANGED fails
     \/ ~(llm.up /\ llm.key = rc.key) /\ UNCHANGED <<team, fails>>
     \/ Fails /\ UNCHANGED team
  /\ rc' = RcIdle
  /\ UNCHANGED <<cr, reason, conn, row, queue>> /\ Frame

------------------------------------------------------------------------------
(* What brings the object back: its own events, its Secret's, the resync.   *)

\* As if the sweep left LiteLLMConnections out.
sweepAllOthers == FALSE /\ UNCHANGED vars

\* The five-minute sweep, and the reconcile's own RequeueAfter.
sweepAll ==
  /\ boot.pc = "done" /\ cr # None /\ ~queue /\ rc.pc = "idle"
  /\ queue' = TRUE
  /\ UNCHANGED <<cr, reason, conn, row, team, rc, fails>> /\ Frame

Edited == edits < MaxEdits /\ edits' = edits + 1

UserApplies ==
  /\ Edited
  /\ \E s \in Specs :
       cr' = IF cr = None THEN [spec |-> s, gen |-> 1, fin |-> FALSE, deleting |-> FALSE]
                          ELSE [cr EXCEPT !.spec = s, !.gen = @ + 1]
  /\ cr' # cr /\ queue' = TRUE
  /\ UNCHANGED <<reason, secret, llm, conn, row, team, boot, rc, fwd, fails>>

\* Without a finalizer the object is gone at once.
UserDeletes ==
  /\ Edited
  /\ cr # None /\ ~cr.deleting
  /\ cr' = IF cr.fin THEN [cr EXCEPT !.deleting = TRUE] ELSE None
  /\ reason' = IF cr.fin THEN reason ELSE None
  /\ queue' = TRUE
  /\ UNCHANGED <<secret, llm, conn, row, team, boot, rc, fwd, fails>>

\* Every connection that names the Secret is enqueued.
secretToConnection == cr # None

SecretChanges ==
  /\ Edited
  /\ \E k \in (Keys \cup {None}) \ {secret} : secret' = k
  /\ queue' = (queue \/ secretToConnection)
  /\ UNCHANGED <<cr, reason, llm, conn, row, team, boot, rc, fwd, fails>>

LiteLLMChanges ==
  /\ Edited
  /\ \E u \in BOOLEAN, k \in Keys : llm' = [up |-> u, key |-> k] /\ llm' # llm
  /\ UNCHANGED <<cr, reason, secret, conn, row, team, boot, rc, queue, fwd, fails>>

\* The operator restarts: its memory is gone, the boot runs again.
Restart ==
  /\ Fails
  /\ boot' = [pc |-> "get", saw |-> None] /\ rc' = RcIdle /\ queue' = FALSE
  /\ conn' = NotReady("Connecting")
  /\ UNCHANGED <<cr, reason, secret, llm, row, team, fwd, edits>>

------------------------------------------------------------------------------
(* The forwarder.                                                           *)

\* resolveLiteLLMWithRetry: no row, or no Secret, is polled again.
Resolve ==
  /\ fwd = None /\ row # None /\ secret # None
  /\ fwd' = [spec |-> row, key |-> secret]
  /\ UNCHANGED <<cr, reason, secret, llm, conn, row, team, boot, rc, queue, edits, fails>>

Boot == BootGet \/ BootPut

Reconcile == Begin \/ AddFinalizer \/ DeleteRow \/ RemoveFinalizer \/ Forget \/ Connect
             \/ ReadSecret \/ Probe \/ Project \/ EnsureDefaultTeam

Users == UserApplies \/ UserDeletes \/ SecretChanges \/ LiteLLMChanges

Next == Boot \/ Reconcile \/ sweepAll \/ Users \/ Restart \/ Resolve

Spec == Init /\ [][Next]_vars

------------------------------------------------------------------------------

TypeOK ==
  /\ cr = None \/ (cr.spec \in Specs /\ cr.gen \in 1..(2 + MaxEdits + MaxFails))
  /\ row \in Specs \cup {None} /\ team \in BOOLEAN /\ queue \in BOOLEAN
  /\ rc.pc \in {"idle", "delete", "finalizer", "connect", "secret", "probe", "unfinalize", "forget",
                "project", "team"}
  /\ boot.pc \in {"get", "put", "done"}
  /\ fwd = None \/ (fwd.spec \in Specs /\ fwd.key \in Keys)

(***************************************************************************)
(* Whenever the controller has nothing to do, the client it has published  *)
(* is the one of the object and the Secret as they are, and the row a      *)
(* forwarder would boot from is the same spec: a deletion, an edit or a    *)
(* new Secret that lands in the middle of a pass is never missed.          *)
(***************************************************************************)
PublishedIsCurrent ==
  boot.pc = "done" /\ rc.pc = "idle" /\ ~queue /\ conn.ready =>
    /\ cr # None
    /\ conn.spec = cr.spec /\ conn.key = secret /\ row = cr.spec

(***************************************************************************)
(* The row goes only with the object it was made of: no row is left when   *)
(* the object is gone and nothing is pending, so no forwarder boots from a *)
(* connection that was deleted.                                            *)
(***************************************************************************)
NoRowWithoutObject == boot.pc = "done" /\ rc.pc = "idle" /\ ~queue /\ cr = None => row = None

\* The object stays, its Secret holds the key LiteLLM takes, LiteLLM is up.
Good == cr # None /\ ~cr.deleting /\ secret # None /\ llm.up /\ llm.key = secret

(***************************************************************************)
(* When the last obstacle goes away -- the Secret appears, LiteLLM comes   *)
(* back or takes the key again, which raises no event -- the connection    *)
(* becomes ready, LiteLLM has its default team, and a waiting forwarder    *)
(* boots.                                                                  *)
(***************************************************************************)
Connected ==
  Good => conn.ready /\ conn.spec = cr.spec /\ conn.key = secret /\ team /\ fwd # None
==============================================================================
