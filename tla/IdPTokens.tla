---------------------------- MODULE IdPTokens ----------------------------
(***************************************************************************)
(* The forwarder's trusted IdP: a token of the one external issuer is      *)
(* verified (discovery once, go-oidc's remote key set afterwards) and      *)
(* mapped to its user's oauth pk_ row.  Requests overlap and share one     *)
(* flag that tells "issuer down" from "bad token"; the issuer goes down,   *)
(* comes back and rotates its keys.                                        *)
(***************************************************************************)
EXTENDS Integers

CONSTANTS Reqs,
          Backoff,     \* discoveryBackoff, in ticks
          MaxChanges,  \* bound on the issuer's outages and rotations
          None

VARIABLES issuer,      \* is it up, and the number of its signing key
          disc,        \* discovery: done, and ticks since it last failed (None: never)
          known,       \* the keys go-oidc holds
          down,        \* IdPVerifier.down
          req,         \* each request: step, token, own failure, overlap, answer
          row,         \* the user has a live oauth pk_ row
          changes

vars == <<issuer, disc, known, down, req, row, changes>>

\* A token that is not good has expired.
Tokens == [key : {"old", "new"}, good : BOOLEAN]

\* asked: it got as far as ver.Verify.  ok: what that said.  unheard: its own
\* fetch failed.  shared: another request was verifying at the same time.
Idle == [pc |-> "idle", tok |-> None, asked |-> FALSE, ok |-> FALSE, unheard |-> FALSE, shared |-> FALSE, answer |-> None]

Init ==
  /\ issuer = [up |-> TRUE, key |-> "old"]
  /\ disc = [done |-> FALSE, failed |-> None]
  /\ known = {} /\ down = FALSE
  /\ req = [r \in Reqs |-> Idle]
  /\ row \in BOOLEAN /\ changes = 0

Verifying == {r \in Reqs : req[r].pc \in {"verify", "judge"}}

\* Put r at rec; whoever is verifying when r starts to, overlaps it.
Go(r, rec) ==
  req' = [q \in Reqs |->
    IF q = r THEN [rec EXCEPT !.shared = @ \/ (rec.pc = "verify" /\ Verifying \ {r} # {})]
    ELSE IF rec.pc = "verify" /\ q \in Verifying THEN [req[q] EXCEPT !.shared = TRUE]
    ELSE req[q]]

Done(r, a) == Go(r, [req[r] EXCEPT !.pc = "done", !.answer = a])

\* peekIssuer names the trusted issuer; other bearers go to the inner
\* resolver.  A token is signed with a key the issuer has had.
Arrive(r) ==
  /\ req[r].pc = "idle"
  /\ \E t \in Tokens : /\ t.key = "new" => issuer.key = "new"
                       /\ Go(r, [Idle EXCEPT !.pc = "discover", !.tok = t])
  /\ UNCHANGED <<issuer, disc, known, down, row, changes>>

\* verifier(), under its mutex: discovery until it succeeds once, not again
\* within the backoff of a failure.
verifier(r) ==
  /\ req[r].pc = "discover"
  /\ IF disc.done
     THEN disc' = disc /\ Go(r, [req[r] EXCEPT !.pc = "reset"])
     ELSE IF disc.failed # None /\ disc.failed < Backoff
     THEN disc' = disc /\ Done(r, 503)
     ELSE IF issuer.up
     THEN disc' = [disc EXCEPT !.done = TRUE] /\ Go(r, [req[r] EXCEPT !.pc = "reset"])
     ELSE disc' = [disc EXCEPT !.failed = 0] /\ Done(r, 503)
  /\ down' = IF disc.done \/ (disc.failed # None /\ disc.failed < Backoff) THEN down ELSE ~issuer.up
  /\ UNCHANGED <<issuer, known, row, changes>>

\* As if the flag were left as the last fetch of any request set it.
ResetNone(r) ==
  /\ req[r].pc = "reset"
  /\ Go(r, [req[r] EXCEPT !.pc = "verify"])
  /\ UNCHANGED <<issuer, disc, known, down, row, changes>>

Reset(r) ==
  /\ req[r].pc = "reset"
  /\ down' = FALSE
  /\ Go(r, [req[r] EXCEPT !.pc = "verify"])
  /\ UNCHANGED <<issuer, disc, known, row, changes>>

\* ver.Verify: an expired token is refused before any key is needed; a key
\* that is not held is fetched, through flagTransport.
Verify(r) ==
  /\ req[r].pc = "verify"
  /\ IF ~req[r].tok.good \/ req[r].tok.key \in known
     THEN UNCHANGED <<known, down>> /\ Go(r, [req[r] EXCEPT !.pc = "judge", !.asked = TRUE, !.ok = req[r].tok.good])
     ELSE /\ known' = IF issuer.up THEN {issuer.key} ELSE known
          /\ down' = ~issuer.up
          /\ Go(r, [req[r] EXCEPT !.pc = "judge", !.asked = TRUE, !.unheard = ~issuer.up,
                                         !.ok = issuer.up /\ req[r].tok.key = issuer.key])
  /\ UNCHANGED <<issuer, disc, row, changes>>

\* The claims are checked, or the flag decides what a failure means.
Judge(r) ==
  /\ req[r].pc = "judge"
  /\ IF req[r].ok
     THEN Go(r, [req[r] EXCEPT !.pc = "lookup"])
     ELSE Done(r, IF down THEN 503 ELSE 401)
  /\ UNCHANGED <<issuer, disc, known, down, row, changes>>

\* trustedIdPResolver.Resolve: no live row is 403 ach_login_required.
Resolve(r) ==
  /\ req[r].pc = "lookup"
  /\ Done(r, IF row THEN 200 ELSE 403)
  /\ UNCHANGED <<issuer, disc, known, down, row, changes>>

Leave(r) ==
  /\ req[r].pc = "done"
  /\ Go(r, Idle)
  /\ UNCHANGED <<issuer, disc, known, down, row, changes>>

\* The issuer fails, recovers or moves to its next key; rows come and go.
World ==
  /\ changes < MaxChanges /\ changes' = changes + 1
  /\ \/ issuer' = [issuer EXCEPT !.up = ~@] /\ row' = row
     \/ issuer.key = "old" /\ issuer' = [issuer EXCEPT !.key = "new"] /\ row' = row
     \/ row' = ~row /\ issuer' = issuer
  /\ UNCHANGED <<disc, known, down, req>>

Tick ==
  /\ disc.failed # None /\ disc.failed < Backoff
  /\ disc' = [disc EXCEPT !.failed = @ + 1]
  /\ UNCHANGED <<issuer, known, down, req, row, changes>>

Handle(r) == verifier(r) \/ Reset(r) \/ Verify(r) \/ Judge(r) \/ Resolve(r)

Next == (\E r \in Reqs : Arrive(r) \/ Handle(r) \/ Leave(r)) \/ World \/ Tick

Spec == Init /\ [][Next]_vars

------------------------------------------------------------------------------
\* Answers are the resolver's, and keys are held only after discovery.
TypeOK ==
  /\ known # {} => disc.done
  /\ \A r \in Reqs : req[r].answer \in {None, 200, 401, 403, 503}
  /\ disc.failed # None => disc.failed \in 0..Backoff

\* A request that verified alone is told the truth: 503 exactly when it could
\* not hear from the issuer itself, whatever earlier requests met (Verify
\* resets the flag first).
AloneToldTruth ==
  \A r \in Reqs : req[r].pc = "done" /\ req[r].asked /\ ~req[r].shared =>
    (req[r].answer = 503 <=> req[r].unheard)

\* The trusted issuer's JWKS could not be fetched: the caller is told 503,
\* not that its token is bad (ErrIdPUnreachable).
UnreachableIs503 ==
  \A r \in Reqs : req[r].pc = "done" /\ req[r].unheard => req[r].answer = 503

==============================================================================
