---------------------------- MODULE KeyExchange ----------------------------
(***************************************************************************)
(* Token exchange and the KeyGrants behind it.  Exchange requests of one   *)
(* (identity, environment, requester) tuple read the projected grants,     *)
(* find or mint the tuple's one stable key, write its ceiling and sign a   *)
(* JWT naming it.  The operator's single KeyGrant worker projects the CRs  *)
(* and, after each projection, sweeps: keys no CR allows are revoked,      *)
(* LiteLLM first, and the others get the lowest covering budget.           *)
(***************************************************************************)
EXTENDS Integers, FiniteSets, FiniteSetsExt, Sequences, SequencesExt

CONSTANTS
    Grants,      \* KeyGrant names
    Specs,       \* specs an editor may apply: [envs, sas : sets, budget : Nat \cup {None}]
    Starts,      \* starting points: the CRs, crs in [Grants -> Specs \cup {None}], and the
                 \* requests that arrive, reqs \subseteq Requests, the keys that exist,
                 \* and whether the table already holds the CRs' rows, seen
    Env, SA,     \* the tuple's environment and requester
    Requests,    \* exchange requests
    MaxKeys,     \* bound: keys ever generated in LiteLLM
    MaxEdits,    \* bound: changes to the CRs and to keys by their owner
    Forced,      \* whether a CR may also be dropped without its finalizer
    MaxFails,    \* bound: failing LiteLLM calls and operator crashes
    None

Keys == 1..MaxKeys
Ceilings == {s.budget : s \in Specs}

VARIABLES
    crs,     \* crs[g]: None, or spec, deletion mark and finalizer
    rows,    \* rows[g]: the key_grants row, None or a spec
    status,  \* status[k]: environment_keys row, "none" before its INSERT
    live,    \* live[k]: the key lives in LiteLLM
    tag,     \* tag[k]: the ceiling on its key:<id> tag
    req,     \* req[x]: the exchange request x
    jwts,    \* keys a JWT was signed for, with the ceiling the request carried
    queue,   \* the worker's queue of grants
    op,      \* the worker: None, or its reconcile
    edits, fails

vars == <<crs, rows, status, live, tag, req, jwts, queue, op, edits, fails>>
keyVars == <<status, live, tag>>
opVars == <<crs, rows, queue, op, edits>>

CR == [spec : Specs, deleting : BOOLEAN, fin : BOOLEAN]
Req == [pc : {"start", "find", "mint", "insert", "cap", "loser", "budget", "sign", "end"},
        key : Keys \cup {None}, budget : Ceilings \cup {None}]
Op == [pc : {"list", "keys", "apply"}, g : Grants, gone : Specs \cup {None},
       grants : SUBSET Specs, revoke : SUBSET Keys, budgets : SUBSET (Keys \X Ceilings),
       failed : BOOLEAN, kept : BOOLEAN]

TypeOK ==
    /\ \A g \in Grants : /\ crs[g] = None \/ crs[g] \in CR
                         /\ rows[g] = None \/ rows[g] \in Specs
    /\ status \in [Keys -> {"none", "active", "suspended", "revoked"}]
    /\ live \in [Keys -> BOOLEAN]
    /\ tag \in [Keys -> Ceilings \cup {None}]
    /\ req \in [Requests -> Req]
    /\ jwts \subseteq (Keys \X (Ceilings \cup {None}))
    /\ queue \in Seq(Grants) /\ Len(queue) <= Cardinality(Grants)
    /\ op = None \/ op \in Op
    /\ edits \in 0..MaxEdits /\ fails \in 0..MaxFails

Existing == {g \in Grants : crs[g] # None}

(* The operator starts on CRs it has seen before; the table holds their      *)
(* rows, or nothing yet.                                                     *)
Init ==
    /\ \E st \in Starts :
          /\ crs = [g \in Grants |-> IF st.crs[g] = None THEN None ELSE
                                       [spec |-> st.crs[g], deleting |-> FALSE, fin |-> TRUE]]
          /\ req = [x \in Requests |-> [pc |-> IF x \in st.reqs THEN "start" ELSE "end",
                                        key |-> None, budget |-> None]]
          /\ status = [k \in Keys |-> IF k \in st.keys THEN "active" ELSE "none"]
          /\ live = [k \in Keys |-> k \in st.keys]
          /\ rows = IF st.seen THEN st.crs ELSE [g \in Grants |-> None]
    /\ tag = [k \in Keys |-> None]
    /\ jwts = {} /\ queue = SetToSeq(Existing) /\ op = None /\ edits = 0 /\ fails = 0

-----------------------------------------------------------------------------
(* The grants that allow the tuple: one grant names all of it. *)
Covering(gs) == {s \in gs : Env \in s.envs /\ SA \in s.sas}

(* The lowest ceiling among covering grants, None when none sets one. *)
Budget(gs) ==
    LET set == {s.budget : s \in gs} \ {None} IN IF set = {} THEN None ELSE Min(set)

Projected == {rows[g] : g \in Grants} \ {None}
Granted == {crs[g].spec : g \in {h \in Grants : crs[h] # None /\ ~crs[h].deleting}}
Allowed == Covering(Granted) # {}

Unrevoked(k) == status[k] \in {"active", "suspended"}
LiveKeys == {k \in Keys : Unrevoked(k)}
(* The partial unique index keeps LiveKeys a singleton at most. *)
FindExchangeKey == IF LiveKeys = {} THEN None ELSE CHOOSE k \in LiveKeys : TRUE

-----------------------------------------------------------------------------
(* The work queue: in order, each grant once. *)
Enqueue(gs) == queue \o SetToSeq(gs \ Range(queue))

(* Editors: apply, edit, delete, and drop a CR without its finalizer.  A     *)
(* deleted CR without finalizer is gone at once.                             *)
EditGrant(g) ==
    /\ edits < MaxEdits /\ edits' = edits + 1
    /\ \/ \E s \in Specs : /\ IF crs[g] = None THEN TRUE ELSE crs[g].spec # s /\ ~crs[g].deleting
                           /\ crs' = [crs EXCEPT ![g] =
                                IF @ = None THEN [spec |-> s, deleting |-> FALSE, fin |-> FALSE]
                                            ELSE [@ EXCEPT !.spec = s]]
       \/ /\ crs[g] # None /\ ~crs[g].deleting
          /\ crs' = [crs EXCEPT ![g] = IF @.fin THEN [@ EXCEPT !.deleting = TRUE] ELSE None]
       \/ Forced /\ crs[g] # None /\ crs' = [crs EXCEPT ![g] = None]
    /\ queue' = Enqueue({g})
    /\ op' = IF op = None THEN op
             ELSE [op EXCEPT !.kept = @ /\ Covering({crs'[h].spec : h \in
                       {i \in Grants : crs'[i] # None /\ ~crs'[i].deleting}}) # {}]
    /\ UNCHANGED <<rows, keyVars, req, jwts, fails>>

(* The resync re-enqueues every grant that exists. *)
Resync ==
    /\ queue' = Enqueue(Existing)
    /\ queue' # queue
    /\ UNCHANGED <<crs, rows, keyVars, req, jwts, op, edits, fails>>

(* Reconcile up to the sweep: a missing CR ends it, a first pass only adds   *)
(* the finalizer and comes back through the watch, a deletion drops the row, *)
(* anything else upserts it.                                                 *)
Reconcile(g) ==
    /\ op = None /\ queue # <<>> /\ g = Head(queue)
    /\ \/ crs[g] = None /\ queue' = Tail(queue) /\ UNCHANGED <<crs, rows, op>>
       \/ /\ crs[g] # None /\ ~crs[g].deleting /\ ~crs[g].fin
          /\ crs' = [crs EXCEPT ![g].fin = TRUE] /\ UNCHANGED <<rows, op, queue>>
       \/ /\ crs[g] # None /\ (crs[g].deleting \/ crs[g].fin)
          /\ queue' = Tail(queue)
          /\ rows' = [rows EXCEPT ![g] = IF crs[g].deleting THEN None ELSE crs[g].spec]
          /\ op' = [pc |-> "list", g |-> g, gone |-> IF crs[g].deleting THEN crs[g].spec ELSE None,
                    grants |-> {}, revoke |-> {}, budgets |-> {}, failed |-> FALSE, kept |-> Allowed]
          /\ UNCHANGED crs
    /\ UNCHANGED <<keyVars, req, jwts, edits, fails>>

(* As if the sweep planned from the table it fills one CR at a time. *)
sweepListTable ==
    /\ op # None /\ op.pc = "list"
    /\ op' = [op EXCEPT !.pc = "keys", !.grants = Projected]
    /\ rows' = [g \in Grants |-> IF op.gone = None /\ crs[g] = None THEN None ELSE rows[g]]
    /\ UNCHANGED <<crs, keyVars, req, jwts, queue, edits, fails>>

(* sweep: the CRs, and the rows without one pruned. *)
sweepList ==
    /\ op # None /\ op.pc = "list"
    /\ op' = [op EXCEPT !.pc = "keys", !.grants = Granted]
    /\ rows' = [g \in Grants |-> IF op.gone = None /\ crs[g] = None THEN None ELSE rows[g]]
    /\ UNCHANGED <<crs, keyVars, req, jwts, queue, edits, fails>>

(* As if only a deletion looked for keys to revoke. *)
PlanOnDeletion ==
    /\ op # None /\ op.pc = "keys"
    /\ LET keys == IF op.gone # None /\ Covering({op.gone}) # {} THEN LiveKeys ELSE {}
       IN op' = [op EXCEPT !.pc = "apply", !.revoke = IF Covering(op.grants) = {} THEN keys ELSE {}]
    /\ UNCHANGED <<crs, rows, keyVars, req, jwts, queue, edits, fails>>

(* sweep: the keys, those the deleted grant covered when there is one, split *)
(* by Plan into the ones to revoke and the ceilings of the others.           *)
Plan ==
    /\ op # None /\ op.pc = "keys"
    /\ LET keys == IF op.gone = None \/ Covering({op.gone}) # {} THEN LiveKeys ELSE {}
           cov == Covering(op.grants)
       IN op' = [op EXCEPT !.pc = "apply",
                           !.revoke = IF cov = {} THEN keys ELSE {},
                           !.budgets = IF Budget(cov) = None THEN {} ELSE keys \X {Budget(cov)}]
    /\ UNCHANGED <<crs, rows, keyVars, req, jwts, queue, edits, fails>>

(* As if the row were flipped before LiteLLM confirmed. *)
revokeKeyRowFirst(k) ==
    /\ op # None /\ op.pc = "apply" /\ k \in op.revoke
    /\ \/ status[k] # "revoked" /\ status' = [status EXCEPT ![k] = "revoked"] /\ UNCHANGED <<live, tag, op>>
       \/ status[k] = "revoked" /\ live[k] /\ live' = [live EXCEPT ![k] = FALSE] /\ UNCHANGED <<status, tag, op>>
       \/ /\ status[k] = "revoked" /\ ~live[k]
          /\ tag' = [tag EXCEPT ![k] = None]
          /\ op' = [op EXCEPT !.revoke = @ \ {k}] /\ UNCHANGED <<status, live>>
    /\ UNCHANGED <<crs, rows, req, jwts, queue, edits, fails>>

(* revokeKey: the LiteLLM key, its tag, then the row; one step each. *)
revokeKey(k) ==
    /\ op # None /\ op.pc = "apply" /\ k \in op.revoke
    /\ \/ live[k] /\ live' = [live EXCEPT ![k] = FALSE] /\ UNCHANGED <<status, tag, op>>
       \/ ~live[k] /\ tag[k] # None /\ tag' = [tag EXCEPT ![k] = None] /\ UNCHANGED <<status, live, op>>
       \/ /\ ~live[k] /\ tag[k] = None
          /\ status' = [status EXCEPT ![k] = "revoked"]
          /\ op' = [op EXCEPT !.revoke = @ \ {k}] /\ UNCHANGED <<live, tag>>
    /\ UNCHANGED <<crs, rows, req, jwts, queue, edits, fails>>

(* sweep: a ceiling goes onto a still covered key's tag. *)
sweepBudget(k, b) ==
    /\ op # None /\ op.pc = "apply" /\ <<k, b>> \in op.budgets
    /\ tag' = [tag EXCEPT ![k] = b]
    /\ op' = [op EXCEPT !.budgets = @ \ {<<k, b>>}]
    /\ UNCHANGED <<crs, rows, status, live, req, jwts, queue, edits, fails>>

(* One failing key never blocks the others. *)
sweepFails ==
    /\ op # None /\ op.pc = "apply" /\ fails < MaxFails /\ fails' = fails + 1
    /\ \/ \E k \in op.revoke : op' = [op EXCEPT !.revoke = @ \ {k}, !.failed = TRUE]
       \/ \E e \in op.budgets : op' = [op EXCEPT !.budgets = @ \ {e}, !.failed = TRUE]
    /\ UNCHANGED <<crs, rows, keyVars, req, jwts, queue, edits>>

(* The reconcile ends: the finalizer goes when the sweep of a deletion was   *)
(* clean; an error retries the grant.                                        *)
ReconcileEnds ==
    /\ op # None /\ op.pc = "apply" /\ op.revoke = {} /\ op.budgets = {}
    /\ op' = None
    /\ queue' = IF op.failed THEN Enqueue({op.g}) ELSE queue
    /\ crs' = IF op.gone # None /\ ~op.failed THEN [crs EXCEPT ![op.g] = None] ELSE crs
    /\ UNCHANGED <<rows, keyVars, req, jwts, edits, fails>>

(* The operator dies and lists every CR anew. *)
OperatorRestarts ==
    /\ op # None /\ fails < MaxFails /\ fails' = fails + 1
    /\ op' = None /\ queue' = SetToSeq(Existing)
    /\ UNCHANGED <<crs, rows, keyVars, req, jwts, edits>>

-----------------------------------------------------------------------------
Answered(x) == req' = [req EXCEPT ![x].pc = "end"]

(* ExchangeHandler up to the grant check; every earlier guard, the           *)
(* Environment and the team check may refuse.                                *)
CheckGrants(x) ==
    /\ req[x].pc = "start"
    /\ LET cov == Covering(Projected) IN
       req' = [req EXCEPT ![x].pc = IF cov = {} THEN "end" ELSE "find",
                          ![x].budget = IF cov = {} THEN None ELSE Budget(cov)]
    /\ UNCHANGED <<opVars, keyVars, jwts, fails>>

(* stableKey: the tuple's key, if it has one; a suspended one is refused. *)
stableKey(x) ==
    /\ req[x].pc = "find"
    /\ LET k == FindExchangeKey IN
       \/ k = None /\ req' = [req EXCEPT ![x].pc = "mint"]
       \/ k # None /\ status[k] = "suspended" /\ Answered(x)
       \/ k # None /\ status[k] = "active" /\ req' = [req EXCEPT ![x].pc = "budget", ![x].key = k]
    /\ UNCHANGED <<opVars, keyVars, jwts, fails>>

(* mint: the LiteLLM key, named before it exists. *)
KeyGenerate(x) ==
    /\ req[x].pc = "mint"
    /\ \E k \in Keys : /\ status[k] = "none" /\ ~live[k]
                       /\ \A y \in Requests : req[y].key # k
                       /\ \A j \in Keys : j < k => status[j] # "none" \/ \E y \in Requests : req[y].key = j
                       /\ live' = [live EXCEPT ![k] = TRUE]
                       /\ req' = [req EXCEPT ![x].pc = "insert", ![x].key = k]
    /\ UNCHANGED <<opVars, status, tag, jwts, fails>>

(* mint: the INSERT; the tuple's unique index makes one of two racers lose,  *)
(* and the loser drops its own LiteLLM key.                                  *)
Insert(x) ==
    /\ req[x].pc = "insert"
    /\ IF LiveKeys = {}
         THEN /\ status' = [status EXCEPT ![req[x].key] = "active"]
              /\ req' = [req EXCEPT ![x].pc = "cap"] /\ UNCHANGED live
         ELSE /\ live' = [live EXCEPT ![req[x].key] = FALSE]
              /\ req' = [req EXCEPT ![x].pc = "loser"] /\ UNCHANGED status
    /\ UNCHANGED <<opVars, tag, jwts, fails>>

(* mint: the loser answers with the winner's key while it is active. *)
RaceLoser(x) ==
    /\ req[x].pc = "loser"
    /\ LET k == FindExchangeKey IN
       IF k = None THEN Answered(x)
       ELSE IF status[k] = "active" THEN req' = [req EXCEPT ![x].pc = "budget", ![x].key = k]
       ELSE Answered(x)
    /\ UNCHANGED <<opVars, keyVars, jwts, fails>>

(* mint's own ceiling. *)
CapMinted(x) ==
    /\ req[x].pc = "cap"
    /\ tag' = IF req[x].budget = None THEN tag ELSE [tag EXCEPT ![req[x].key] = req[x].budget]
    /\ req' = [req EXCEPT ![x].pc = "sign"]
    /\ UNCHANGED <<opVars, status, live, jwts, fails>>

(* As if a found key were taken to be capped already. *)
applyBudgetOnce(x) ==
    /\ req[x].pc = "budget"
    /\ req' = [req EXCEPT ![x].pc = "sign"]
    /\ UNCHANGED <<opVars, keyVars, jwts, fails>>

(* applyBudget on a key found, not minted. *)
applyBudget(x) ==
    /\ req[x].pc = "budget"
    /\ tag' = IF req[x].budget = None THEN tag ELSE [tag EXCEPT ![req[x].key] = req[x].budget]
    /\ req' = [req EXCEPT ![x].pc = "sign"]
    /\ UNCHANGED <<opVars, status, live, jwts, fails>>

Sign(x) ==
    /\ req[x].pc = "sign"
    /\ jwts' = jwts \cup {<<req[x].key, req[x].budget>>}
    /\ Answered(x)
    /\ UNCHANGED <<opVars, keyVars, fails>>

(* A refusal, a failing LiteLLM or database call, or the process dying.  A   *)
(* failed INSERT compensates; a key whose compensation fails too has no row  *)
(* and is the orphan reaper's.                                               *)
ExchangeFails(x) ==
    /\ req[x].pc \in {"find", "mint", "insert", "cap", "loser", "budget"}
    /\ fails < MaxFails /\ fails' = fails + 1
    /\ Answered(x)
    /\ live' \in {live} \cup (IF req[x].pc = "insert" THEN {[live EXCEPT ![req[x].key] = FALSE]} ELSE {})
    /\ UNCHANGED <<opVars, status, tag, jwts>>

(* The owner suspends, resumes and revokes the key (LiteLLM first). *)
OwnerFlips(k) ==
    /\ Unrevoked(k) /\ edits < MaxEdits /\ edits' = edits + 1
    /\ \/ status' = [status EXCEPT ![k] = IF @ = "active" THEN "suspended" ELSE "active"]
          /\ UNCHANGED <<live, tag>>
       \/ /\ status' = [status EXCEPT ![k] = "revoked"]
          /\ live' = [live EXCEPT ![k] = FALSE] /\ tag' = [tag EXCEPT ![k] = None]
    /\ UNCHANGED <<crs, rows, queue, op, req, jwts, fails>>

Sweep == sweepList \/ Plan \/ (\E k \in Keys : revokeKey(k) \/ \E b \in Ceilings : sweepBudget(k, b))
Operator == (\E g \in Grants : Reconcile(g)) \/ Sweep \/ ReconcileEnds
Exchange(x) == CheckGrants(x) \/ stableKey(x) \/ KeyGenerate(x) \/ Insert(x)
               \/ RaceLoser(x) \/ CapMinted(x) \/ applyBudget(x) \/ Sign(x)

Next ==
    \/ \E g \in Grants : EditGrant(g)
    \/ Resync \/ Operator \/ sweepFails \/ OperatorRestarts
    \/ \E x \in Requests : Exchange(x) \/ ExchangeFails(x)
    \/ \E k \in Keys : OwnerFlips(k)

Spec == Init /\ [][Next]_vars

-----------------------------------------------------------------------------
(* "No JWT is issued for a key that may be uncapped" (applyBudget): a key    *)
(* some JWT names, under a grant with a budget, carries a ceiling for as     *)
(* long as LiteLLM serves it, whoever won the race to mint it and whatever   *)
(* the sweep did half of.                                                    *)
NoUncappedJWT ==
    \A j \in jwts : j[2] # None /\ live[j[1]] => tag[j[1]] # None

(* A row is called revoked by the sweep only when its LiteLLM key is dead.   *)
SweepKillsFirst == \A k \in Keys : status[k] = "revoked" => ~live[k]

(* The sweep spares what is granted: it revokes no key of a tuple that some  *)
(* CR allowed all through this sweep, cold starts of the table included.     *)
SweepSparesGranted == op # None /\ op.revoke # {} => ~op.kept

(* The three together: a key lives capped while it is granted, and dies only *)
(* when it is not.                                                           *)
ExchangeKeysGoverned == NoUncappedJWT /\ SweepKillsFirst /\ SweepSparesGranted

(* As long as some KeyGrant exists for the resync to re-run, the sweep has   *)
(* its way in the end: a key no CR allows is revoked, one minted by an       *)
(* exchange that raced the removal included; no row outlives a CR that went  *)
(* without its finalizer; and a covered key carries the lowest ceiling of    *)
(* its grants, although exchanges write ceilings they read before an edit.   *)
Swept ==
    Existing # {} =>
        /\ \A k \in Keys : Unrevoked(k) => Allowed
        /\ \A g \in Grants : rows[g] # None => crs[g] # None
        /\ \A k \in Keys : status[k] = "active" /\ live[k] /\ Budget(Covering(Granted)) # None =>
                              tag[k] = Budget(Covering(Granted))

=============================================================================
