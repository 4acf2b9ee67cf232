------------------------------ MODULE StaleView ------------------------------
(***************************************************************************)
(* What a read-side cache promises: it shows some version of a table, and  *)
(* never one that was superseded more than Bound ago, as long as the table *)
(* can be read.  Versions are numbered by the writes; age[v] is the time   *)
(* since write v, capped just above Bound.  Version 0 is the empty table.  *)
(* The forwarder's envstore and bipcache and the content service's         *)
(* envcache are each meant to be such a view.                              *)
(***************************************************************************)
EXTENDS Integers, Sequences

CONSTANTS Bound, MaxVer

VARIABLES age, view, ok
vars == <<age, view, ok>>

(* The next version, if there is one, is not older than the bound. *)
Fresh(v) == v = Len(age) \/ age[v + 1] <= Bound

Init == age = <<>> /\ view = 0 /\ ok = TRUE

Write == /\ Len(age) < MaxVer
         /\ age' = Append(age, 0)
         /\ UNCHANGED <<view, ok>>

Show == /\ view' \in 0..Len(age) /\ (ok => Fresh(view'))
        /\ UNCHANGED <<age, ok>>

(* Time passes; a view that would become too old must change first. *)
Tick == /\ age' = [v \in DOMAIN age |-> IF age[v] > Bound THEN age[v] ELSE age[v] + 1]
        /\ ok => view = Len(age) \/ age'[view + 1] <= Bound
        /\ UNCHANGED <<view, ok>>

(* The table could not be read: the promise is suspended. *)
Fail == ok' = FALSE /\ UNCHANGED <<age, view>>

Next == Write \/ Show \/ Tick \/ Fail

Spec == Init /\ [][Next]_vars
=============================================================================
