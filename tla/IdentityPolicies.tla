-------------------------- MODULE IdentityPolicies --------------------------
(***************************************************************************)
(* The BackendIdentityPolicy reconciler: a CR per policy, its projection   *)
(* row, and the advisory condition on every CR that a sibling with the     *)
(* same target shadows.  The forwarder picks the first name among the rows;*)
(* the operator only says so, from the CRs.                                *)
(***************************************************************************)
EXTENDS Integers, FiniteSetsExt

CONSTANTS N,         \* policies are named 1..N, in alphabetical order
          Targets,
          MaxEdits,  \* bound: creations, retargetings and deletions
          MaxFails,  \* bound: failed database and status writes
          None

CRs == 1..N

VARIABLES
    cr,      \* cr[b]: None, or target, finalizer, deletion mark and advisory
    row,     \* row[b]: the projected target, or None
    queue,   \* the workqueue
    lost,    \* CRs whose last status write failed and was only logged
    edits, fails

vars == <<cr, row, queue, lost, edits, fails>>

TypeOK ==
    /\ \A b \in CRs : cr[b] = None \/ cr[b] \in
          [target : Targets, final : BOOLEAN, deleting : BOOLEAN, shadowedBy : CRs \cup {None}]
    /\ row \in [CRs -> Targets \cup {None}]
    /\ queue \subseteq CRs /\ lost \subseteq CRs
    /\ edits \in 0..MaxEdits /\ fails \in 0..MaxFails

Init ==
    /\ cr = [b \in CRs |-> None] /\ row = [b \in CRs |-> None]
    /\ queue = {} /\ lost = {} /\ edits = 0 /\ fails = 0

(* As if only the changed CR itself were enqueued. *)
enqueueSiblingsNone(b, c) == {}

(* The CRs that share the target of the changed CR b, in its state c. *)
enqueueSiblings(b, c) ==
    IF c = None THEN {} ELSE {s \in CRs \ {b} : cr'[s] # None /\ cr'[s].target = c.target}

(* CR b becomes c: its own watch event, and its siblings' by either state. *)
Change(b, c) ==
    /\ cr' = [cr EXCEPT ![b] = c]
    /\ queue' = queue \cup {b} \cup enqueueSiblings(b, cr[b]) \cup enqueueSiblings(b, c)

Edit(b) ==
    /\ edits < MaxEdits /\ edits' = edits + 1
    /\ \/ /\ cr[b] = None
          /\ \E t \in Targets : Change(b, [target |-> t, final |-> FALSE, deleting |-> FALSE,
                                           shadowedBy |-> None])
       \/ /\ cr[b] # None /\ ~cr[b].deleting
          /\ \E t \in Targets \ {cr[b].target} : Change(b, [cr[b] EXCEPT !.target = t])
       \/ /\ cr[b] # None /\ ~cr[b].deleting
          /\ Change(b, IF cr[b].final THEN [cr[b] EXCEPT !.deleting = TRUE] ELSE None)
    /\ UNCHANGED <<row, lost, fails>>

Done(b) == queue' = queue \ {b}

(* The first of the live CRs with b's target, if there are several. *)
duplicateWinner(b) ==
    LET group == {s \in CRs : cr[s] # None /\ ~cr[s].deleting /\ cr[s].target = cr[b].target}
    IN IF Quantify(group, LAMBDA s : TRUE) <= 1 THEN None ELSE Min(group)

(* The row goes with its NOTIFY, then the finalizer; a failure in between   *)
(* requeues and finds the row gone.                                         *)
Finalize(b) ==
    /\ row' = [row EXCEPT ![b] = None]
    /\ \/ /\ cr' = [cr EXCEPT ![b] = None] /\ UNCHANGED <<fails, edits>>
          /\ queue' = (queue \ {b}) \cup enqueueSiblings(b, cr[b])
          /\ lost' = lost \ {b}
       \/ /\ fails < MaxFails /\ fails' = fails + 1 /\ UNCHANGED <<cr, queue, lost, edits>>

(* A status write that fails is logged, and not retried. *)
WriteStatus(b, winner) ==
    \/ /\ Change(b, [cr[b] EXCEPT !.shadowedBy = winner])
       /\ lost' = lost \ {b} /\ UNCHANGED fails
    \/ /\ fails < MaxFails /\ fails' = fails + 1 /\ lost' = lost \cup {b}
       /\ Done(b) /\ UNCHANGED cr

(* The upsert, then the advisory, written only where it differs. *)
Advise(b) ==
    LET w == duplicateWinner(b)
        want == IF w = b THEN None ELSE w IN
    /\ row' = [row EXCEPT ![b] = cr[b].target]
    /\ IF want # cr[b].shadowedBy THEN WriteStatus(b, want)
       ELSE Done(b) /\ UNCHANGED <<cr, fails>> /\ lost' = lost \ {b}
    /\ UNCHANGED edits

Reconcile(b) ==
    /\ b \in queue
    /\ CASE cr[b] = None -> Done(b) /\ UNCHANGED <<cr, row, lost, edits, fails>>
         [] cr[b] # None /\ cr[b].deleting /\ cr[b].final -> Finalize(b)
         [] cr[b] # None /\ ~cr[b].final ->
              Change(b, [cr[b] EXCEPT !.final = TRUE]) /\ UNCHANGED <<row, lost, edits, fails>>
         [] OTHER -> Advise(b)

(* The database write fails: nothing is written and b is retried. *)
UpsertFails(b) ==
    /\ b \in queue /\ fails < MaxFails /\ fails' = fails + 1
    /\ UNCHANGED <<cr, row, queue, lost, edits>>

(* The periodic re-list feeds every CR to the reconciler. *)
Resync ==
    /\ queue' = queue \cup {b \in CRs : cr[b] # None}
    /\ UNCHANGED <<cr, row, lost, edits, fails>>

Next == Resync \/ \E b \in CRs : Edit(b) \/ Reconcile(b) \/ UpsertFails(b)

(* Workers drain the queue and the resync ticker keeps running. *)
Spec == Init /\ [][Next]_vars
(* bipcache.Resolve: the first row of the target. *)
ResolveWinner(t) ==
    LET rows == {b \in CRs : row[b] = t} IN IF rows = {} THEN None ELSE Min(rows)

Accurate ==
    \A b \in CRs : cr[b] # None /\ ~cr[b].deleting =>
        /\ row[b] = cr[b].target
        /\ cr[b].shadowedBy = IF ResolveWinner(cr[b].target) = b THEN None
                              ELSE ResolveWinner(cr[b].target)

(* Once the workqueue is empty and no status write was lost, every CR is    *)
(* projected, and the advisories name exactly the policy the forwarder      *)
(* resolves to, after any sequence of creations, retargetings and deletions.*)
QuietIsAccurate == queue = {} /\ lost = {} => Accurate

(* No row outlives its CR, through failures between the two deletions.      *)
NoOrphanRow == \A b \in CRs : row[b] # None => cr[b] # None

=============================================================================
