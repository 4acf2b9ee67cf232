------------------------- MODULE KeyExchangeProofs -------------------------
(***************************************************************************)
(* The keys of the token exchange, for any grants, specs, requests, keys   *)
(* and bounds.  The argument is that of KeyForward: once a key has a row,  *)
(* no step revives it or takes the ceiling off it while LiteLLM serves it, *)
(* so what a request saw of the key when it wrote the ceiling still holds  *)
(* when it signs, however long it waited.                                  *)
(***************************************************************************)
EXTENDS KeyExchange, TLAPS

\* The ceilings Budget can compute, and the records that hold them.
Caps == {Budget(gs) : gs \in SUBSET Specs} \cup {None}
Pcs == {"start", "find", "mint", "insert", "cap", "loser", "budget", "sign", "end"}
Request == [pc : Pcs, key : Keys \cup {None}, budget : Caps]
Worker == [pc : {"list", "keys", "apply"}, g : Grants, gone : Specs \cup {None},
           grants : SUBSET Specs, revoke : SUBSET Keys, budgets : SUBSET (Keys \X Caps),
           failed : BOOLEAN, kept : BOOLEAN]

\* The starting CRs are specs of the model, and None is neither a spec nor a
\* record.
ExchangeAssumption ==
    /\ \A st \in Starts : st.crs \in [Grants -> Specs \cup {None}]
    /\ None \notin Specs /\ None \notin CR /\ None \notin Worker

TypeInv ==
    /\ crs \in [Grants -> CR \cup {None}]
    /\ rows \in [Grants -> Specs \cup {None}]
    /\ status \in [Keys -> {"none", "active", "suspended", "revoked"}]
    /\ live \in [Keys -> BOOLEAN]
    /\ tag \in [Keys -> Caps]
    /\ req \in [Requests -> Request]
    /\ jwts \subseteq Keys \X Caps
    /\ op \in Worker \cup {None}

\* What a request knows of the key it holds.
ReqOK(r) ==
    /\ r.pc \in {"insert", "cap", "budget", "sign"} => r.key \in Keys
    /\ r.pc \in {"cap", "budget", "sign"} => status[r.key] # "none"
    /\ r.pc = "sign" /\ r.budget # None /\ live[r.key] => tag[r.key] # None

KeyInv ==
    /\ SweepKillsFirst
    /\ NoUncappedJWT
    /\ \A j \in jwts : status[j[1]] # "none"
    /\ \A x \in Requests : ReqOK(req[x])

\* What the sweep holds while grants change under it.
SweepInv ==
    op # None =>
        /\ \A e \in op.budgets : e[2] # None
        /\ op.kept /\ op.pc = "list" => Allowed
        /\ op.kept /\ op.pc # "list" => Covering(op.grants) # {}
        /\ op.revoke # {} => op.pc = "apply" /\ Covering(op.grants) = {}

IInv == TypeInv /\ KeyInv /\ SweepInv

\* A key with a row is never revived, never loses the ceiling it is served
\* under, and is called revoked only when dead.
KeyForward ==
    \A k \in Keys :
        /\ status[k] # "none" => /\ status'[k] # "none"
                                 /\ live'[k] => live[k]
                                 /\ live'[k] /\ tag[k] # None => tag'[k] # None
        /\ status'[k] = "revoked" => ~live'[k]

-----------------------------------------------------------------------------
\* A step moves one request; the record says where to, and the others stay.
Moved(x, p, k, b) ==
    /\ req' \in [Requests -> Request]
    /\ req'[x].pc = p /\ req'[x].key = k /\ req'[x].budget = b
    /\ \A y \in Requests : y # x => req'[y] = req[y]

LEMMA MovesPc ==
    ASSUME TypeInv, NEW x \in Requests, NEW p \in Pcs, req' = [req EXCEPT ![x].pc = p]
    PROVE  /\ Moved(x, p, req[x].key, req[x].budget)
           /\ req[x].key \in Keys \cup {None} /\ req[x].budget \in Caps
<1>1. req \in [Requests -> Request] /\ req[x] \in Request
      BY DEF TypeInv
<1>2. [req[x] EXCEPT !.pc = p] \in Request
      BY <1>1 DEF Request, Pcs
<1> QED BY <1>1, <1>2 DEF Request, Moved

LEMMA MovesKey ==
    ASSUME TypeInv, NEW x \in Requests, NEW p \in Pcs, NEW k \in Keys \cup {None},
           req' = [req EXCEPT ![x].pc = p, ![x].key = k]
    PROVE  Moved(x, p, k, req[x].budget) /\ req[x].budget \in Caps
<1>1. req \in [Requests -> Request] /\ req[x] \in Request
      BY DEF TypeInv
<1>2. [req[x] EXCEPT !.pc = p, !.key = k] \in Request
      BY Zenon, <1>1 DEF Request, Pcs
<1> QED BY <1>1, <1>2 DEF Request, Moved

LEMMA MovesBudget ==
    ASSUME TypeInv, NEW x \in Requests, NEW p \in Pcs, NEW b \in Caps,
           req' = [req EXCEPT ![x].pc = p, ![x].budget = b]
    PROVE  Moved(x, p, req[x].key, b)
<1>1. req \in [Requests -> Request] /\ req[x] \in Request
      BY DEF TypeInv
<1>2. [req[x] EXCEPT !.pc = p, !.budget = b] \in Request
      BY Zenon, <1>1 DEF Request, Pcs
<1> QED BY <1>1, <1>2 DEF Request, Moved

LEMMA CapTypes ==
    ASSUME TypeInv
    PROVE  /\ None \in Caps
           /\ Projected \subseteq Specs
           /\ \A gs \in SUBSET Specs : Budget(gs) \in Caps /\ Covering(gs) \subseteq Specs
           /\ FindExchangeKey \in Keys \cup {None}
           /\ FindExchangeKey # None => FindExchangeKey \in LiveKeys
<1>1. None \in Caps /\ \A gs \in SUBSET Specs : Budget(gs) \in Caps
      BY DEF Caps
<1>2. \A gs \in SUBSET Specs : Covering(gs) \subseteq Specs
      BY DEF Covering
<1>3. Projected \subseteq Specs
      BY DEF Projected, TypeInv
<1>4. LiveKeys # {} => FindExchangeKey \in LiveKeys
      BY DEF FindExchangeKey
<1>5. LiveKeys = {} => FindExchangeKey = None
      BY DEF FindExchangeKey
<1>6. LiveKeys \subseteq Keys
      BY DEF LiveKeys
<1> QED BY <1>1, <1>2, <1>3, <1>4, <1>5, <1>6

\* What the key table may do under the requests and the JWTs already there.
LEMMA RestHolds ==
    ASSUME TypeInv, KeyInv, KeyForward
    PROVE  /\ \A j \in jwts : /\ status'[j[1]] # "none"
                              /\ j[2] # None /\ live'[j[1]] => tag'[j[1]] # None
           /\ \A y \in Requests : req'[y] = req[y] => ReqOK(req[y])'
           /\ SweepKillsFirst'
<1>1. \A j \in jwts : j[1] \in Keys
      BY DEF TypeInv
<1>2. \A j \in jwts : status'[j[1]] # "none" /\ (j[2] # None /\ live'[j[1]] => tag'[j[1]] # None)
      BY <1>1 DEF KeyInv, KeyForward, NoUncappedJWT
<1>3. ASSUME NEW y \in Requests, req'[y] = req[y]
      PROVE  ReqOK(req[y])'
      BY <1>3 DEF KeyInv, KeyForward, ReqOK
<1>4. SweepKillsFirst'
      BY DEF KeyForward, SweepKillsFirst
<1> QED BY <1>2, <1>3, <1>4

KeyTypes ==
    /\ status \in [Keys -> {"none", "active", "suspended", "revoked"}]
    /\ live \in [Keys -> BOOLEAN]
    /\ tag \in [Keys -> Caps]

\* What every step does: it keeps the invariant and takes keys forward.
Kept == IInv' /\ KeyForward

\* A step that moves one request and takes keys forward keeps the invariant.
LEMMA ExchangeKeeps ==
    ASSUME IInv, KeyForward, KeyTypes', NEW x \in Requests, NEW p, NEW k, NEW b, Moved(x, p, k, b),
           UNCHANGED <<crs, rows, op>>, jwts' = jwts,
           p \in {"insert", "cap", "budget", "sign"} => k \in Keys,
           p \in {"cap", "budget", "sign"} => status'[k] # "none",
           p = "sign" /\ b # None /\ live'[k] => tag'[k] # None
    PROVE  Kept
<1>1. TypeInv'
      BY DEF IInv, TypeInv, KeyTypes, Moved
<1>2. /\ \A j \in jwts : /\ status'[j[1]] # "none"
                         /\ j[2] # None /\ live'[j[1]] => tag'[j[1]] # None
      /\ \A y \in Requests : req'[y] = req[y] => ReqOK(req[y])'
      /\ SweepKillsFirst'
      BY RestHolds DEF IInv
<1>3. ReqOK(req[x])'
      BY DEF ReqOK, Moved
<1>4. \A y \in Requests : ReqOK(req[y])'
      BY <1>2, <1>3 DEF Moved
<1>5. KeyInv'
      BY <1>2, <1>4 DEF KeyInv, NoUncappedJWT
<1>6. SweepInv'
      BY DEF IInv, SweepInv, Allowed, Granted
<1> QED BY <1>1, <1>5, <1>6 DEF IInv, Kept

LEMMA KeysAlone ==
    ASSUME IInv, UNCHANGED keyVars
    PROVE  KeyForward /\ KeyTypes'
BY DEF IInv, TypeInv, KeyInv, SweepKillsFirst, KeyForward, KeyTypes, keyVars

\* Requests that only read.
LEMMA ReadsKeep ==
    ASSUME IInv, NEW x \in Requests, CheckGrants(x) \/ stableKey(x) \/ RaceLoser(x)
    PROVE  Kept
<1>1. TypeInv /\ KeyForward /\ KeyTypes' /\ UNCHANGED <<crs, rows, op>> /\ jwts' = jwts /\ status' = status
      BY KeysAlone DEF IInv, CheckGrants, stableKey, RaceLoser, opVars, keyVars
<1>2. CASE CheckGrants(x)
  <2> DEFINE cov == Covering(Projected)
             p == IF cov = {} THEN "end" ELSE "find"
             b == IF cov = {} THEN None ELSE Budget(cov)
  <2>1. p \in Pcs /\ b \in Caps
        BY <1>1, CapTypes DEF Pcs
  <2>2. req' = [req EXCEPT ![x].pc = p, ![x].budget = b]
        BY <1>2 DEF CheckGrants
  <2>3. Moved(x, p, req[x].key, b)
        BY Zenon, <1>1, <2>1, <2>2, MovesBudget
  <2> QED BY <1>1, <2>3, ExchangeKeeps
<1>3. ASSUME NEW k, k = FindExchangeKey, k # None, status[k] = "active",
             req' = [req EXCEPT ![x].pc = "budget", ![x].key = k]
      PROVE  Kept
  <2>1. k \in Keys
        BY <1>1, <1>3, CapTypes
  <2>2. Moved(x, "budget", k, req[x].budget)
        BY Zenon, <1>1, <1>3, <2>1, MovesKey DEF Pcs
  <2>3. status'[k] # "none"
        BY <1>1, <1>3
  <2> QED BY <1>1, <2>1, <2>2, <2>3, ExchangeKeeps
<1>4. ASSUME NEW p \in {"mint", "end"}, req' = [req EXCEPT ![x].pc = p] PROVE Kept
  <2>1. Moved(x, p, req[x].key, req[x].budget)
        BY Zenon, <1>1, <1>4, MovesPc DEF Pcs
  <2> QED BY <1>1, <2>1, ExchangeKeeps
<1>5. CASE stableKey(x)
      BY <1>3, <1>4, <1>5 DEF stableKey, Answered
<1>6. CASE RaceLoser(x)
      BY <1>3, <1>4, <1>6 DEF RaceLoser, Answered
<1> QED BY <1>2, <1>5, <1>6

\* The mint: a key without a row comes to life, then gets the row or dies.
LEMMA MintKeeps ==
    ASSUME IInv, NEW x \in Requests, KeyGenerate(x) \/ Insert(x)
    PROVE  Kept
<1>1. TypeInv /\ KeyInv /\ UNCHANGED <<crs, rows, op>> /\ jwts' = jwts
      BY DEF IInv, KeyGenerate, Insert, opVars
<1>2. CASE KeyGenerate(x)
  <2>1. PICK k \in Keys : /\ status[k] = "none"
                          /\ live' = [live EXCEPT ![k] = TRUE]
                          /\ req' = [req EXCEPT ![x].pc = "insert", ![x].key = k]
        BY Zenon, <1>2 DEF KeyGenerate
  <2>2. status' = status /\ tag' = tag
        BY <1>2 DEF KeyGenerate
  <2>3. KeyForward /\ KeyTypes'
        BY <1>1, <2>1, <2>2 DEF TypeInv, KeyInv, SweepKillsFirst, KeyForward, KeyTypes
  <2>4. Moved(x, "insert", k, req[x].budget)
        BY Zenon, <1>1, <2>1, MovesKey DEF Pcs
  <2> QED BY <1>1, <2>3, <2>4, ExchangeKeeps
<1>3. CASE Insert(x)
  <2>1. req[x].key \in Keys /\ tag' = tag
        BY <1>1, <1>3 DEF Insert, KeyInv, ReqOK
  <2>2. CASE LiveKeys = {}
    <3>1. /\ status' = [status EXCEPT ![req[x].key] = "active"] /\ live' = live
          /\ req' = [req EXCEPT ![x].pc = "cap"]
          BY <1>3, <2>2 DEF Insert
    <3>2. KeyForward /\ KeyTypes'
          BY <1>1, <2>1, <3>1 DEF TypeInv, KeyInv, SweepKillsFirst, KeyForward, KeyTypes
    <3>3. Moved(x, "cap", req[x].key, req[x].budget)
          BY Zenon, <1>1, <3>1, MovesPc DEF Pcs
    <3>4. status'[req[x].key] # "none"
          BY <1>1, <2>1, <3>1 DEF TypeInv
    <3> QED BY <1>1, <2>1, <3>2, <3>3, <3>4, ExchangeKeeps
  <2>3. CASE LiveKeys # {}
    <3>1. /\ live' = [live EXCEPT ![req[x].key] = FALSE] /\ status' = status
          /\ req' = [req EXCEPT ![x].pc = "loser"]
          BY <1>3, <2>3 DEF Insert
    <3>2. KeyForward /\ KeyTypes'
          BY <1>1, <2>1, <3>1 DEF TypeInv, KeyInv, SweepKillsFirst, KeyForward, KeyTypes
    <3>3. Moved(x, "loser", req[x].key, req[x].budget)
          BY Zenon, <1>1, <3>1, MovesPc DEF Pcs
    <3> QED BY <1>1, <3>2, <3>3, ExchangeKeeps
  <2> QED BY <2>2, <2>3
<1> QED BY <1>2, <1>3

\* The ceiling is on the key before the request may sign.
LEMMA CapKeeps ==
    ASSUME IInv, NEW x \in Requests, CapMinted(x) \/ applyBudget(x)
    PROVE  Kept
<1> DEFINE k == req[x].key
           b == req[x].budget
<1>1. TypeInv /\ KeyInv /\ UNCHANGED <<crs, rows, op>> /\ jwts' = jwts /\ status' = status /\ live' = live
      BY DEF IInv, CapMinted, applyBudget, opVars
<1>2. k \in Keys /\ status[k] # "none"
      BY <1>1 DEF CapMinted, applyBudget, KeyInv, ReqOK
<1>3. /\ req' = [req EXCEPT ![x].pc = "sign"]
      /\ tag' = IF b = None THEN tag ELSE [tag EXCEPT ![k] = b]
      BY DEF CapMinted, applyBudget
<1>4. Moved(x, "sign", k, b) /\ b \in Caps
      BY Zenon, <1>1, <1>3, MovesPc DEF Pcs
<1>5. KeyForward /\ KeyTypes' /\ (b # None => tag'[k] = b)
      BY <1>1, <1>2, <1>3, <1>4 DEF TypeInv, KeyInv, SweepKillsFirst, KeyForward, KeyTypes
<1>6. status'[k] # "none" /\ (b # None /\ live'[k] => tag'[k] # None)
      BY <1>1, <1>2, <1>5
<1> QED BY <1>1, <1>2, <1>4, <1>5, <1>6, ExchangeKeeps

LEMMA SignKeeps ==
    ASSUME IInv, NEW x \in Requests, Sign(x)
    PROVE  Kept
<1> DEFINE k == req[x].key
           b == req[x].budget
<1>1. /\ TypeInv /\ KeyInv /\ KeyForward /\ KeyTypes' /\ UNCHANGED <<crs, rows, op, status, live, tag>>
      /\ req[x].pc = "sign" /\ jwts' = jwts \cup {<<k, b>>} /\ req' = [req EXCEPT ![x].pc = "end"]
      BY KeysAlone DEF IInv, Sign, opVars, keyVars, Answered
<1>2. Moved(x, "end", k, b) /\ b \in Caps
      BY Zenon, <1>1, MovesPc DEF Pcs
<1>3. k \in Keys /\ status[k] # "none" /\ (b # None /\ live[k] => tag[k] # None)
      BY <1>1 DEF KeyInv, ReqOK
<1>4. TypeInv'
      BY <1>1, <1>2, <1>3 DEF TypeInv, Moved
<1>5. /\ \A y \in Requests : req'[y] = req[y] => ReqOK(req[y])'
      /\ SweepKillsFirst'
      BY <1>1, RestHolds
<1>6. \A y \in Requests : ReqOK(req[y])'
      BY <1>2, <1>5 DEF Moved, ReqOK
<1>7. \A j \in jwts' : status'[j[1]] # "none" /\ (j[2] # None /\ live'[j[1]] => tag'[j[1]] # None)
      BY <1>1, <1>3 DEF KeyInv, NoUncappedJWT
<1>8. KeyInv'
      BY <1>5, <1>6, <1>7 DEF KeyInv, NoUncappedJWT
<1>9. SweepInv'
      BY <1>1 DEF IInv, SweepInv, Allowed, Granted
<1> QED BY <1>1, <1>4, <1>8, <1>9 DEF IInv, Kept

LEMMA FailureKeeps ==
    ASSUME IInv, NEW x \in Requests, ExchangeFails(x)
    PROVE  Kept
<1>1. /\ TypeInv /\ KeyInv /\ UNCHANGED <<crs, rows, op>> /\ jwts' = jwts /\ status' = status /\ tag' = tag
      /\ req' = [req EXCEPT ![x].pc = "end"]
      BY DEF IInv, ExchangeFails, opVars, Answered
<1>2. live' = live \/ (req[x].pc = "insert" /\ live' = [live EXCEPT ![req[x].key] = FALSE])
      BY DEF ExchangeFails
<1>3. req[x].pc = "insert" => req[x].key \in Keys
      BY <1>1 DEF KeyInv, ReqOK
<1>4. KeyForward /\ KeyTypes'
      BY Zenon, <1>1, <1>2, <1>3 DEF TypeInv, KeyInv, SweepKillsFirst, KeyForward, KeyTypes
<1>5. Moved(x, "end", req[x].key, req[x].budget)
      BY Zenon, <1>1, MovesPc DEF Pcs
<1> QED BY <1>1, <1>4, <1>5, ExchangeKeeps

-----------------------------------------------------------------------------
\* The operator and the editors leave requests and JWTs alone.
LEMMA WorkerKeeps ==
    ASSUME IInv, KeyForward, KeyTypes', UNCHANGED <<req, jwts>>,
           crs' \in [Grants -> CR \cup {None}], rows' \in [Grants -> Specs \cup {None}],
           op' \in Worker \cup {None}, SweepInv'
    PROVE  Kept
<1>1. TypeInv'
      BY DEF IInv, TypeInv, KeyTypes
<1>2. KeyInv'
      BY RestHolds DEF IInv, KeyInv, NoUncappedJWT
<1> QED BY <1>1, <1>2 DEF IInv, Kept

LEMMA WorkerFields ==
    ASSUME TypeInv, op # None
    PROVE  /\ op \in Worker /\ op.pc \in {"list", "keys", "apply"} /\ op.g \in Grants
           /\ op.gone \in Specs \cup {None} /\ op.grants \subseteq Specs /\ op.revoke \subseteq Keys
           /\ op.budgets \subseteq Keys \X Caps /\ op.failed \in BOOLEAN /\ op.kept \in BOOLEAN
BY DEF TypeInv, Worker

\* Editing a grant may end what it covered: the sweep's witness is updated.
LEMMA EditKeeps ==
    ASSUME ExchangeAssumption, IInv, NEW g \in Grants, EditGrant(g)
    PROVE  Kept
<1>1. TypeInv /\ SweepInv /\ KeyForward /\ KeyTypes' /\ UNCHANGED <<req, jwts>> /\ rows' = rows
      BY KeysAlone DEF IInv, EditGrant
<1>2. crs' \in [Grants -> CR \cup {None}]
  <2>1. crs \in [Grants -> CR \cup {None}] /\ (crs[g] # None => crs[g] \in CR)
        BY <1>1 DEF TypeInv
  <2>2. ASSUME NEW s \in Specs
        PROVE  /\ [spec |-> s, deleting |-> FALSE, fin |-> FALSE] \in CR
               /\ crs[g] # None => /\ [crs[g] EXCEPT !.spec = s] \in CR
                                   /\ [crs[g] EXCEPT !.deleting = TRUE] \in CR
        BY Zenon, <2>1 DEF CR
  <2>3. crs[g] # None => [crs[g] EXCEPT !.deleting = TRUE] \in CR
        BY Zenon, <2>1 DEF CR
  <2> QED BY Zenon, <2>1, <2>2, <2>3 DEF EditGrant
<1>3. Covering({crs'[h].spec : h \in {i \in Grants : crs'[i] # None /\ ~crs'[i].deleting}}) # {}
        <=> Allowed'
      BY DEF Allowed, Granted
<1>4. op = None => op' = None
      BY DEF EditGrant
<1>5. ASSUME op # None
      PROVE  /\ op' \in Worker /\ op'.pc = op.pc /\ op'.grants = op.grants /\ op'.revoke = op.revoke
             /\ op'.budgets = op.budgets /\ (op'.kept => op.kept /\ Allowed')
  <2>1. op' = [op EXCEPT !.kept = op.kept /\ Allowed']
        BY Zenon, <1>3, <1>5 DEF EditGrant
  <2>2. op \in Worker /\ Allowed' \in BOOLEAN /\ op.kept \in BOOLEAN
        BY <1>1, <1>5, WorkerFields DEF Allowed
  <2>3. op' \in Worker
        BY <2>1, <2>2 DEF Worker
  <2> QED BY <2>1, <2>2, <2>3 DEF Worker
<1>6. SweepInv'
      BY <1>1, <1>4, <1>5 DEF SweepInv, Covering
<1>7. op' \in Worker \cup {None}
      BY <1>1, <1>4, <1>5
<1> QED BY <1>1, <1>2, <1>6, <1>7, WorkerKeeps DEF TypeInv

LEMMA ReconcileKeeps ==
    ASSUME ExchangeAssumption, IInv, NEW g \in Grants, Reconcile(g)
    PROVE  Kept
<1>1. TypeInv /\ SweepInv /\ KeyForward /\ KeyTypes' /\ UNCHANGED <<req, jwts>> /\ op = None
      BY KeysAlone DEF IInv, Reconcile
<1>2. crs \in [Grants -> CR \cup {None}] /\ (crs[g] # None => crs[g] \in CR)
      BY <1>1 DEF TypeInv
<1>3. CASE crs[g] = None
  <2>1. UNCHANGED <<crs, rows, op>>
        BY <1>3 DEF Reconcile
  <2> QED BY <1>1, <2>1, WorkerKeeps DEF TypeInv, SweepInv
<1>4. CASE crs[g] # None /\ ~crs[g].deleting /\ ~crs[g].fin
  <2>1. crs' = [crs EXCEPT ![g].fin = TRUE] /\ UNCHANGED <<rows, op>>
        BY <1>4 DEF Reconcile
  <2>2. [crs[g] EXCEPT !.fin = TRUE] \in CR
        BY Zenon, <1>2, <1>4 DEF CR
  <2>3. crs' \in [Grants -> CR \cup {None}]
        BY <1>2, <2>1, <2>2
  <2> QED BY <1>1, <2>1, <2>3, WorkerKeeps DEF TypeInv, SweepInv
<1>5. CASE crs[g] # None /\ (crs[g].deleting \/ crs[g].fin)
  <2> DEFINE gone == IF crs[g].deleting THEN crs[g].spec ELSE None
             o == [pc |-> "list", g |-> g, gone |-> gone, grants |-> {}, revoke |-> {}, budgets |-> {},
                   failed |-> FALSE, kept |-> Allowed]
  <2>1. /\ rows' = [rows EXCEPT ![g] = IF crs[g].deleting THEN None ELSE crs[g].spec]
        /\ op' = o /\ crs' = crs
        BY <1>5 DEF Reconcile
  <2>2. crs[g].spec \in Specs
        BY <1>2, <1>5 DEF CR
  <2>3. o \in Worker
        BY <2>2 DEF Worker, Allowed
  <2>4. rows' \in [Grants -> Specs \cup {None}]
        BY <1>1, <2>1, <2>2 DEF TypeInv
  <2>5. SweepInv'
        BY Zenon, <2>1 DEF SweepInv, Allowed, Granted
  <2> QED BY <1>1, <2>1, <2>3, <2>4, <2>5, WorkerKeeps DEF TypeInv
<1> QED BY <1>3, <1>4, <1>5 DEF Reconcile

\* The list and the plan: keys are revoked only when no listed CR covers them.
LEMMA PlanKeeps ==
    ASSUME ExchangeAssumption, IInv, sweepList \/ Plan
    PROVE  Kept
<1>1. TypeInv /\ SweepInv /\ KeyForward /\ KeyTypes' /\ UNCHANGED <<req, jwts>> /\ crs' = crs /\ op # None
      BY KeysAlone DEF IInv, sweepList, Plan
<1>2. /\ op \in Worker /\ op.pc \in {"list", "keys", "apply"} /\ op.g \in Grants
      /\ op.gone \in Specs \cup {None} /\ op.grants \subseteq Specs /\ op.revoke \subseteq Keys
      /\ op.budgets \subseteq Keys \X Caps /\ op.failed \in BOOLEAN /\ op.kept \in BOOLEAN
      BY <1>1, WorkerFields
<1>3. CASE sweepList
  <2>1. /\ op.pc = "list" /\ op' = [op EXCEPT !.pc = "keys", !.grants = Granted]
        /\ rows' = [g \in Grants |-> IF op.gone = None /\ crs[g] = None THEN None ELSE rows[g]]
        BY <1>3 DEF sweepList
  <2>2. Granted \subseteq Specs
        BY <1>1 DEF Granted, TypeInv, CR
  <2>3. rows' \in [Grants -> Specs \cup {None}]
        BY <1>1, <2>1 DEF TypeInv
  <2>4. op' \in Worker
        BY Zenon, <1>2, <2>1, <2>2 DEF Worker
  <2>5. /\ op'.pc = "keys" /\ op'.grants = Granted /\ op'.revoke = op.revoke
        /\ op'.budgets = op.budgets /\ op'.kept = op.kept
        BY <1>2, <2>1 DEF Worker
  <2>6. SweepInv'
        BY <1>1, <2>1, <2>5 DEF SweepInv, Allowed, Covering
  <2> QED BY <1>1, <2>3, <2>4, <2>6, WorkerKeeps DEF TypeInv
<1>4. CASE Plan
  <2> DEFINE keys == IF op.gone = None \/ Covering({op.gone}) # {} THEN LiveKeys ELSE {}
             cov == Covering(op.grants)
             rv == IF cov = {} THEN keys ELSE {}
             bs == IF Budget(cov) = None THEN {} ELSE keys \X {Budget(cov)}
  <2>1. /\ op.pc = "keys" /\ rows' = rows
        /\ op' = [op EXCEPT !.pc = "apply", !.revoke = rv, !.budgets = bs]
        BY <1>4 DEF Plan
  <2>2. keys \subseteq Keys /\ Budget(cov) \in Caps
        BY <1>1, <1>2, CapTypes DEF LiveKeys
  <2>3. rv \subseteq Keys /\ bs \subseteq Keys \X Caps /\ (\A e \in bs : e[2] # None)
        BY <2>2
  <2>4. op' \in Worker
        BY Zenon, <1>2, <2>1, <2>3 DEF Worker
  <2>5. /\ op'.pc = "apply" /\ op'.grants = op.grants /\ op'.revoke = rv
        /\ op'.budgets = bs /\ op'.kept = op.kept
        BY <1>2, <2>1 DEF Worker
  <2>6. SweepInv'
        BY <1>1, <2>1, <2>3, <2>5 DEF SweepInv, Covering
  <2> QED BY <1>1, <2>1, <2>4, <2>6, WorkerKeeps DEF TypeInv
<1> QED BY <1>3, <1>4

\* The worker goes on with less to do.
LessWork ==
    /\ op' \in Worker /\ op'.pc = op.pc /\ op'.grants = op.grants /\ op'.kept = op.kept
    /\ op'.revoke \subseteq op.revoke /\ op'.budgets \subseteq op.budgets

LEMMA WorkShrinks ==
    ASSUME ExchangeAssumption, IInv, KeyForward, KeyTypes', UNCHANGED <<req, jwts, crs, rows>>,
           op # None, LessWork
    PROVE  Kept
<1>1. SweepInv'
      BY DEF IInv, SweepInv, Allowed, Granted, Covering, LessWork
<1> QED BY <1>1, WorkerKeeps DEF IInv, TypeInv, LessWork

LEMMA OneKeyLess ==
    ASSUME TypeInv, op # None, NEW k,
           op' = [op EXCEPT !.revoke = @ \ {k}] \/ op' = [op EXCEPT !.revoke = @ \ {k}, !.failed = TRUE]
    PROVE  LessWork
<1>1. /\ op \in Worker /\ op.revoke \subseteq Keys
      BY WorkerFields
<1>2. CASE op' = [op EXCEPT !.revoke = @ \ {k}]
      BY <1>1, <1>2 DEF Worker, LessWork
<1>3. CASE op' = [op EXCEPT !.revoke = @ \ {k}, !.failed = TRUE]
  <2>1. op' \in Worker
        BY Zenon, <1>1, <1>3 DEF Worker
  <2> QED BY <1>1, <1>3, <2>1 DEF Worker, LessWork
<1> QED BY <1>2, <1>3

LEMMA OneCeilingLess ==
    ASSUME TypeInv, op # None, NEW e,
           op' = [op EXCEPT !.budgets = @ \ {e}] \/ op' = [op EXCEPT !.budgets = @ \ {e}, !.failed = TRUE]
    PROVE  LessWork
<1>1. /\ op \in Worker /\ op.budgets \subseteq Keys \X Caps
      BY WorkerFields
<1>2. CASE op' = [op EXCEPT !.budgets = @ \ {e}]
      BY <1>1, <1>2 DEF Worker, LessWork
<1>3. CASE op' = [op EXCEPT !.budgets = @ \ {e}, !.failed = TRUE]
  <2>1. op' \in Worker
        BY Zenon, <1>1, <1>3 DEF Worker
  <2> QED BY <1>1, <1>3, <2>1 DEF Worker, LessWork
<1> QED BY <1>2, <1>3

\* revokeKey takes the LiteLLM key, the tag and the row in that order.
LEMMA RevokeKeeps ==
    ASSUME ExchangeAssumption, IInv, NEW k \in Keys, revokeKey(k)
    PROVE  Kept
<1>1. TypeInv /\ KeyInv /\ UNCHANGED <<req, jwts, crs, rows>> /\ op # None
      BY DEF IInv, revokeKey
<1>2. KeyForward /\ KeyTypes'
  <2>1. CASE live[k] /\ live' = [live EXCEPT ![k] = FALSE] /\ UNCHANGED <<status, tag>>
        BY <1>1, <2>1 DEF TypeInv, KeyInv, SweepKillsFirst, KeyForward, KeyTypes
  <2>2. CASE ~live[k] /\ tag' = [tag EXCEPT ![k] = None] /\ UNCHANGED <<status, live>>
        BY <1>1, <2>2, CapTypes DEF TypeInv, KeyInv, SweepKillsFirst, KeyForward, KeyTypes
  <2>3. CASE ~live[k] /\ status' = [status EXCEPT ![k] = "revoked"] /\ UNCHANGED <<live, tag>>
        BY <1>1, <2>3 DEF TypeInv, KeyInv, SweepKillsFirst, KeyForward, KeyTypes
  <2> QED BY <2>1, <2>2, <2>3 DEF revokeKey
<1>3. op' = op \/ op' = [op EXCEPT !.revoke = @ \ {k}]
      BY DEF revokeKey
<1>4. CASE op' = op
      BY <1>1, <1>2, <1>4, WorkShrinks, WorkerFields DEF LessWork
<1>5. CASE op' = [op EXCEPT !.revoke = @ \ {k}]
      BY Zenon, <1>1, <1>2, <1>5, WorkShrinks, OneKeyLess
<1> QED BY <1>3, <1>4, <1>5

LEMMA BudgetKeeps ==
    ASSUME ExchangeAssumption, IInv, NEW k \in Keys, NEW b \in Ceilings, sweepBudget(k, b)
    PROVE  Kept
<1>1. /\ TypeInv /\ KeyInv /\ SweepInv /\ UNCHANGED <<req, jwts, crs, rows, status, live>> /\ op # None
      /\ <<k, b>> \in op.budgets /\ tag' = [tag EXCEPT ![k] = b] /\ op' = [op EXCEPT !.budgets = @ \ {<<k, b>>}]
      BY DEF IInv, sweepBudget
<1>2. b \in Caps /\ b # None
      BY <1>1, WorkerFields DEF SweepInv
<1>3. KeyForward /\ KeyTypes'
      BY <1>1, <1>2 DEF TypeInv, KeyInv, SweepKillsFirst, KeyForward, KeyTypes
<1> QED BY Zenon, <1>1, <1>3, WorkShrinks, OneCeilingLess

LEMMA FailsKeeps ==
    ASSUME ExchangeAssumption, IInv, sweepFails
    PROVE  Kept
<1>1. TypeInv /\ UNCHANGED <<req, jwts, crs, rows>> /\ op # None /\ KeyForward /\ KeyTypes'
      BY Zenon, KeysAlone DEF IInv, sweepFails
<1>2. \/ \E k \in op.revoke : op' = [op EXCEPT !.revoke = @ \ {k}, !.failed = TRUE]
      \/ \E e \in op.budgets : op' = [op EXCEPT !.budgets = @ \ {e}, !.failed = TRUE]
      BY Zenon DEF sweepFails
<1>3. LessWork
      BY Zenon, <1>1, <1>2, OneKeyLess, OneCeilingLess
<1> QED BY <1>1, <1>3, WorkShrinks

\* The reconcile ends, or the operator starts over.
LEMMA EndKeeps ==
    ASSUME IInv, ReconcileEnds \/ OperatorRestarts
    PROVE  Kept
<1>1. TypeInv /\ UNCHANGED <<req, jwts, rows>> /\ op' = None /\ KeyForward /\ KeyTypes' /\ SweepInv'
      BY KeysAlone DEF IInv, ReconcileEnds, OperatorRestarts, SweepInv
<1>2. crs' \in [Grants -> CR \cup {None}]
      BY <1>1 DEF ReconcileEnds, OperatorRestarts, TypeInv
<1> QED BY <1>1, <1>2, WorkerKeeps DEF TypeInv

LEMMA OwnerKeeps ==
    ASSUME IInv, NEW k \in Keys, OwnerFlips(k)
    PROVE  Kept
<1>1. TypeInv /\ KeyInv /\ UNCHANGED <<req, jwts, rows, crs, op>> /\ status[k] \in {"active", "suspended"}
      BY DEF IInv, OwnerFlips, Unrevoked
<1>a. SweepInv'
      BY <1>1 DEF IInv, SweepInv, Allowed, Granted
<1>2. CASE status' = [status EXCEPT ![k] = IF @ = "active" THEN "suspended" ELSE "active"]
           /\ UNCHANGED <<live, tag>>
  <2>1. KeyForward /\ KeyTypes'
        BY <1>1, <1>2 DEF TypeInv, KeyInv, SweepKillsFirst, KeyForward, KeyTypes
  <2> QED BY <1>1, <2>1, <1>a, WorkerKeeps DEF TypeInv
<1>3. CASE /\ status' = [status EXCEPT ![k] = "revoked"]
           /\ live' = [live EXCEPT ![k] = FALSE] /\ tag' = [tag EXCEPT ![k] = None]
  <2>1. KeyForward /\ KeyTypes'
        BY <1>1, <1>3, CapTypes DEF TypeInv, KeyInv, SweepKillsFirst, KeyForward, KeyTypes
  <2> QED BY <1>1, <2>1, <1>a, WorkerKeeps DEF TypeInv
<1> QED BY <1>2, <1>3 DEF OwnerFlips

-----------------------------------------------------------------------------
LEMMA StartsRight == ASSUME ExchangeAssumption, Init PROVE IInv
<1>1. PICK st \in Starts :
          /\ crs = [g \in Grants |-> IF st.crs[g] = None THEN None ELSE
                                       [spec |-> st.crs[g], deleting |-> FALSE, fin |-> TRUE]]
          /\ req = [x \in Requests |-> [pc |-> IF x \in st.reqs THEN "start" ELSE "end",
                                        key |-> None, budget |-> None]]
          /\ status = [k \in Keys |-> IF k \in st.keys THEN "active" ELSE "none"]
          /\ live = [k \in Keys |-> k \in st.keys]
          /\ rows = IF st.seen THEN st.crs ELSE [g \in Grants |-> None]
      BY Zenon DEF Init
<1>2. st.crs \in [Grants -> Specs \cup {None}]
      BY DEF ExchangeAssumption
<1>3. tag = [k \in Keys |-> None] /\ jwts = {} /\ op = None
      BY DEF Init
<1>4. crs \in [Grants -> CR \cup {None}]
      BY <1>1, <1>2 DEF CR
<1>5. rows \in [Grants -> Specs \cup {None}]
      BY <1>1, <1>2
<1>6. /\ status \in [Keys -> {"none", "active", "suspended", "revoked"}]
      /\ \A k \in Keys : status[k] # "revoked"
      BY <1>1
<1>7. live \in [Keys -> BOOLEAN]
      BY <1>1
<1>8. None \in Caps /\ tag \in [Keys -> Caps]
      BY <1>3 DEF Caps
<1>9. req \in [Requests -> Request] /\ \A x \in Requests : req[x].pc \in {"start", "end"}
      BY <1>1, <1>8 DEF Request, Pcs
<1>10. TypeInv
      BY <1>3, <1>4, <1>5, <1>6, <1>7, <1>8, <1>9 DEF TypeInv
<1>11. KeyInv
      BY <1>3, <1>6, <1>9 DEF KeyInv, SweepKillsFirst, NoUncappedJWT, ReqOK
<1> QED BY <1>3, <1>10, <1>11 DEF IInv, SweepInv

LEMMA StepsRight == ASSUME ExchangeAssumption, IInv, [Next]_vars PROVE Kept
<1>1. ASSUME NEW x \in Requests, Exchange(x) PROVE Kept
      BY <1>1, ReadsKeep, MintKeeps, CapKeeps, SignKeeps DEF Exchange
<1>2. ASSUME NEW x \in Requests, ExchangeFails(x) PROVE Kept
      BY <1>2, FailureKeeps
<1>3. ASSUME NEW g \in Grants, EditGrant(g) PROVE Kept
      BY <1>3, EditKeeps
<1>4. CASE Operator
      BY <1>4, ReconcileKeeps, PlanKeeps, RevokeKeeps, BudgetKeeps, EndKeeps DEF Operator, Sweep
<1>5. CASE sweepFails \/ OperatorRestarts
      BY <1>5, FailsKeeps, EndKeeps
<1>6. ASSUME NEW k \in Keys, OwnerFlips(k) PROVE Kept
      BY <1>6, OwnerKeeps
<1>7. CASE Resync \/ UNCHANGED vars
  <2>1. UNCHANGED <<crs, rows, status, live, tag, req, jwts, op>>
        BY <1>7 DEF Resync, vars, keyVars
  <2>2. KeyForward /\ KeyTypes'
        BY <2>1, KeysAlone DEF keyVars
  <2> QED BY Zenon, <2>1, <2>2, WorkerKeeps DEF IInv, TypeInv, SweepInv, Allowed, Granted
<1> QED BY <1>1, <1>2, <1>3, <1>4, <1>5, <1>6, <1>7 DEF Next

\* The inductive invariant: requests hold keys with rows, the sweep holds keys
\* that its own list of CRs does not cover.
THEOREM Invariance == ASSUME ExchangeAssumption PROVE Spec => []IInv
<1>1. Init => IInv
      BY StartsRight
<1>2. IInv /\ [Next]_vars => IInv'
      BY StepsRight DEF Kept
<1> QED BY <1>1, <1>2, PTL DEF Spec

\* A key some JWT names under a budget carries a ceiling while LiteLLM serves
\* it (applyBudget), a row is revoked only when its LiteLLM key is dead
\* (revokeKey), and the sweep revokes nothing that some KeyGrant allowed all
\* through it (sweep).
THEOREM KeysAreGoverned == ASSUME ExchangeAssumption PROVE Spec => []ExchangeKeysGoverned
<1>1. IInv => ExchangeKeysGoverned
      BY DEF IInv, KeyInv, SweepInv, TypeInv, Worker, ExchangeKeysGoverned, SweepSparesGranted
<1> QED BY <1>1, Invariance, PTL

\* Once a key has its row, no step revives it or takes off the ceiling it is
\* served under, in LiteLLM's calls of exchanges, sweep and owner alike.
THEOREM KeysOnlyGoForward == ASSUME ExchangeAssumption PROVE Spec => [][KeyForward]_vars
<1>1. IInv /\ [Next]_vars => KeyForward
      BY StepsRight DEF Kept
<1> QED BY <1>1, Invariance, PTL DEF Spec

=============================================================================
