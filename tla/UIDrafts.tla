------------------------------ MODULE UIDrafts ------------------------------
(***************************************************************************)
(* One environments row and its two owners: the operator, which projects   *)
(* the CR and takes the row over whoever wrote it, and the UI Objects API, *)
(* whose admins may only touch a row they own.  A PATCH reads the row,     *)
(* merges and writes it in two statements.                                 *)
(***************************************************************************)
EXTENDS Integers

CONSTANTS Admins, Fields, Values,
          MaxCRs,    \* bound: CRs applied under the name
          MaxWrites, \* bound: UI writes
          None

DraftSpecs == [Fields -> Values]

VARIABLES
    cr,      \* the CR: None, or its spec, readiness and finalization
    row,     \* the environments row: None, or origin, spec and availability
    patch,   \* patch[a]: None, or the merged spec a's PATCH is about to write
    crs, writes

vars == <<cr, row, patch, crs, writes>>

TypeOK ==
    /\ cr = None \/ cr \in [spec : DraftSpecs, deleting : BOOLEAN]
    /\ row = None \/ row \in [origin : {"cr", "ui"}, spec : DraftSpecs, available : BOOLEAN]
    /\ \A a \in Admins : patch[a] = None \/ patch[a] \in DraftSpecs
    /\ crs \in 0..MaxCRs /\ writes \in 0..MaxWrites

Init == cr = None /\ row = None /\ patch = [a \in Admins |-> None] /\ crs = 0 /\ writes = 0

(* kubectl apply, and delete. *)
Apply ==
    /\ \/ /\ cr = None /\ crs < MaxCRs /\ crs' = crs + 1
          /\ \E s \in DraftSpecs : cr' = [spec |-> s, deleting |-> FALSE]
       \/ /\ cr # None /\ ~cr.deleting
          /\ cr' = [cr EXCEPT !.deleting = TRUE] /\ UNCHANGED crs
    /\ UNCHANGED <<row, patch, writes>>

(* GitOps wins: the operator's write takes over any row. *)
UpsertEnvironment ==
    /\ cr # None /\ ~cr.deleting
    /\ \E up \in BOOLEAN : row' = [origin |-> "cr", spec |-> cr.spec, available |-> up]
    /\ UNCHANGED <<cr, patch, crs, writes>>

(* The finalizer's last step; the CR goes after it, or the step is retried. *)
DeleteEnvironment ==
    /\ cr # None /\ cr.deleting
    /\ row' = None
    /\ cr' \in {None, cr}
    /\ UNCHANGED <<patch, crs, writes>>

(* As if a draft were born available. *)
InsertUIEnvironmentLive ==
    /\ row = None /\ writes < MaxWrites /\ writes' = writes + 1
    /\ \E s \in DraftSpecs : row' = [origin |-> "ui", spec |-> s, available |-> TRUE]
    /\ UNCHANGED <<cr, patch, crs>>

(* POST: only where no row is; 409 otherwise. *)
InsertUIEnvironment ==
    /\ row = None /\ writes < MaxWrites /\ writes' = writes + 1
    /\ \E s \in DraftSpecs : row' = [origin |-> "ui", spec |-> s, available |-> FALSE]
    /\ UNCHANGED <<cr, patch, crs>>

(* PATCH: the read (of a row of either owner) and the merge. *)
PatchReads(a) ==
    /\ patch[a] = None /\ row # None /\ writes < MaxWrites /\ writes' = writes + 1
    /\ \E f \in Fields, v \in Values : patch' = [patch EXCEPT ![a] = [row.spec EXCEPT ![f] = v]]
    /\ UNCHANGED <<cr, row, crs>>

(* As if the UPDATE trusted the origin the read saw. *)
UpdateUIEnvironmentAny(a) ==
    /\ patch[a] # None
    /\ row' = IF row # None THEN [row EXCEPT !.spec = patch[a]] ELSE row
    /\ patch' = [patch EXCEPT ![a] = None]
    /\ UNCHANGED <<cr, crs, writes>>

(* The UPDATE is gated on origin = 'ui'; a miss is a 403 or a 404. *)
UpdateUIEnvironment(a) ==
    /\ patch[a] # None
    /\ row' = IF row # None /\ row.origin = "ui" THEN [row EXCEPT !.spec = patch[a]] ELSE row
    /\ patch' = [patch EXCEPT ![a] = None]
    /\ UNCHANGED <<cr, crs, writes>>

(* DELETE, gated the same way. *)
DeleteUIEnvironment ==
    /\ row # None /\ row.origin = "ui" /\ row' = None
    /\ UNCHANGED <<cr, patch, crs, writes>>

UI == InsertUIEnvironment \/ DeleteUIEnvironment
      \/ \E a \in Admins : PatchReads(a) \/ UpdateUIEnvironment(a)
Operator == UpsertEnvironment \/ DeleteEnvironment
Next == Apply \/ Operator \/ UI

(* The reconciler keeps projecting the CR; nobody waits for the UI. *)
Spec == Init /\ [][Next]_vars

(* "It can NEVER clobber an operator-owned row" (ui_objects.go): a row of    *)
(* the operator changes only to what a CR says or disappears with one, also  *)
(* under a PATCH that read the row before the CR took it over.               *)
OperatorRowUntouched ==
    row # None /\ row.origin = "cr" /\ row' # row =>
       cr # None /\ (row' = None \/ (row'.origin = "cr" /\ row'.spec = cr.spec))

(* A draft is never served: a row is available only once a CR's reconcile    *)
(* has said so.                                                              *)
DraftNeverServed == row # None /\ row.available => row.origin = "cr"

(* "GitOps wins": a CR that stays is what the row says in the end, and keeps *)
(* saying, whatever the admins do.                                           *)
CRTookOver == cr # None /\ ~cr.deleting => row # None /\ row.spec = cr.spec

=============================================================================
