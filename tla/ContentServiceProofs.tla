------------------------ MODULE ContentServiceProofs ------------------------
(***************************************************************************)
(* Safety of the copy of an external object, for any set of paths, number   *)
(* of revisions, interval, window and bound on a pass: the order in which a *)
(* pass writes the file, the rows and the status keeps the row behind the   *)
(* file and the row's stamp true of the file, and the order in which the    *)
(* finalizer deletes leaves nothing behind, whatever fails in between.      *)
(***************************************************************************)
EXTENDS ContentService, TLAPS

PCs == {"idle", "fetch", "rename", "upsert", "failed", "publish", "clear",
        "deleteRef", "deleteRow", "finalize"}
Passes == [pc : PCs, gen : Nat, spec : Specs, annot : BOOLEAN, stale : BOOLEAN,
           prior : 0..MaxRev, body : Content, age : 0..FetchTime]
Resources == [state : {"live", "deleting", "absent"}, fin : BOOLEAN, gen : Nat,
              spec : Specs, annot : BOOLEAN]
Statuses == [obs : Nat, age : 0..Never]
Refs == [exists : BOOLEAN, rev : 0..MaxRev, force : BOOLEAN]
Rows == [exists : BOOLEAN, age : 0..Cap]
Requests == [pc : {"idle", "resolved", "streaming"}, age : 0..Cap, body : Content]

\* The types a step needs; how far generations count is left open.
TypeInv ==
    /\ cr \in Resources /\ status \in Statuses /\ xref \in Refs /\ proj \in Rows
    /\ file \in Content /\ lost \in BOOLEAN
    /\ head \in Revs /\ past \in [Revs -> 0..Cap]
    /\ pass \in Passes /\ rd \in Requests

\* The steps of a refresh, which a deletion waits for.
Refreshing == pass.pc \in {"fetch", "rename", "upsert", "failed", "publish", "clear"}

\* What each step of a deletion has behind it.
DeletionInv ==
    /\ Refreshing => cr.state # "absent"
    /\ pass.pc \in {"deleteRef", "deleteRow", "finalize"} =>
          cr.state = "deleting" /\ file = NoFile
    /\ pass.pc \in {"deleteRow", "finalize"} => xref = NoRef
    /\ pass.pc = "finalize" => proj = NoProj
    /\ NothingLeftBehind

\* The row, the file and the fetched body against the upstream.  A refresh that a
\* deletion waits for still relies on the row being behind the file.
RevisionInv ==
    /\ xref.rev <= head /\ file.rev <= head
    /\ lost => file = NoFile
    /\ (cr.state = "live" \/ Refreshing) /\ ~ lost => xref.rev <= file.rev
    /\ pass.pc \in {"rename", "upsert"} =>
          pass.body # NoFile /\ xref.rev <= pass.body.rev /\ pass.body.rev <= head
    /\ pass.pc = "upsert" => file = pass.body
    /\ pass.pc = "fetch" => pass.prior <= xref.rev

\* How long ago the revision of a file was the upstream's.
Since(f) == past[f.rev]

\* A pass knows how old what it fetched or confirmed is, and the stamps never
\* promise more than the file holds.
AgeInv ==
    /\ past[head] = 0
    /\ pass.pc = "fetch" => pass.age = 0
    /\ pass.pc \in {"rename", "upsert"} => Since(pass.body) <= pass.age
    /\ pass.pc = "publish" /\ file # NoFile => Since(file) <= pass.age
    /\ proj.exists /\ file # NoFile => Since(file) <= proj.age + FetchTime
    /\ rd.pc = "resolved" /\ file # NoFile => Since(file) <= rd.age + FetchTime

IInv == TypeInv /\ DeletionInv /\ RevisionInv /\ AgeInv

-----------------------------------------------------------------------------
USE RefAssumption

\* The absent file is no content of a revision.
LEMMA NoFileFacts ==
    /\ NoFile \in [rev : {0}, spec : Specs] /\ NoFile \in Content
    /\ \A c \in Content : c # NoFile => c.rev \in Revs /\ c.spec \in Specs
    /\ \A c \in Content : c.rev \in 0..MaxRev /\ c.spec \in Specs
<1>1. (CHOOSE s \in Specs : TRUE) \in Specs
      OBVIOUS
<1> QED BY <1>1 DEF NoFile, Content, Revs

\* A cap on ages is a number above every window.
LEMMA CapFacts ==
    /\ Cap \in Nat /\ Never = Cap + 1 /\ MaxStale + FetchTime < Cap
    /\ \A a \in 0..Cap : Older(a) \in 0..Cap /\ a <= Older(a) /\ Older(a) <= a + 1
    /\ \A a \in 0..Cap, b \in Nat : a <= b => Older(a) <= b + 1
    /\ \A a, b \in 0..Cap : a <= b + FetchTime => Older(a) <= Older(b) + FetchTime
    /\ \A a \in 0..Never : Aged(a) \in 0..Never
    /\ Aged(Never) = Never
BY DEF Cap, Never, Older, Aged

\* The values the variables are reset to.
LEMMA RestTypes ==
    /\ Idle \in Passes /\ Idle.pc = "idle" /\ Idle.age = 0
    /\ NoRequest \in Requests /\ NoRequest.pc = "idle"
    /\ NoStatus \in Statuses /\ NoRef \in Refs /\ NoRef.rev = 0 /\ NoProj \in Rows
    /\ ~ NoRef.exists /\ ~ NoProj.exists /\ NoStatus.age = Never
<1>1. NoFile.spec \in Specs /\ NoFile \in Content
      BY NoFileFacts
<1>2. Cap \in Nat /\ Never \in Nat
      BY CapFacts
<1> QED BY <1>1, <1>2 DEF Idle, NoRequest, NoStatus, NoRef, NoProj, Passes, PCs, Requests,
           Statuses, Refs, Rows

\* What the updates of a pass leave alone.
LEMMA Goto ==
    ASSUME NEW p \in Passes, NEW c \in PCs
    PROVE  LET q == [p EXCEPT !.pc = c]
           IN  q \in Passes /\ q.pc = c /\ q.body = p.body /\ q.prior = p.prior /\ q.age = p.age
BY DEF Passes

LEMMA GotoWithBody ==
    ASSUME NEW p \in Passes, NEW c \in PCs, NEW b \in Content
    PROVE  LET q == [p EXCEPT !.pc = c, !.body = b]
           IN  q \in Passes /\ q.pc = c /\ q.body = b /\ q.prior = p.prior /\ q.age = p.age
BY Zenon DEF Passes

LEMMA GotoStale ==
    ASSUME NEW p \in Passes, NEW c \in PCs, NEW b \in BOOLEAN
    PROVE  LET q == [p EXCEPT !.pc = c, !.stale = b]
           IN  q \in Passes /\ q.pc = c /\ q.body = p.body /\ q.prior = p.prior /\ q.age = p.age
BY Zenon DEF Passes

LEMMA Staled ==
    ASSUME NEW p \in Passes, NEW b \in BOOLEAN
    PROVE  LET q == [p EXCEPT !.stale = b]
           IN  q \in Passes /\ q.pc = p.pc /\ q.body = p.body /\ q.prior = p.prior /\ q.age = p.age
BY DEF Passes

LEMMA Lasted ==
    ASSUME NEW p \in Passes, NEW a \in 0..FetchTime
    PROVE  LET q == [p EXCEPT !.age = a]
           IN  q \in Passes /\ q.pc = p.pc /\ q.body = p.body /\ q.prior = p.prior /\ q.age = a
BY DEF Passes

\* The body of a fetch is the upstream's revision, and no absent file.
LEMMA Fetched ==
    ASSUME TypeInv,
           pass' = [pass EXCEPT !.pc = "rename", !.body = [rev |-> head, spec |-> pass.spec]]
    PROVE  /\ pass'.pc = "rename" /\ pass'.age = pass.age
           /\ pass'.body # NoFile /\ pass'.body.rev = head
<1>1. pass'.pc = "rename" /\ pass'.age = pass.age /\ pass'.body = [rev |-> head, spec |-> pass.spec]
      BY DEF TypeInv, Passes
<1> QED BY <1>1 DEF TypeInv, NoFile, Revs

\* A resource without its finalizer is gone.
LEMMA Finalized ==
    ASSUME NEW c \in Resources
    PROVE  [c EXCEPT !.state = "absent", !.fin = FALSE, !.annot = FALSE].state = "absent"
BY DEF Resources

\* Time passes for a row that exists, and for no absent one.
LEMMA TimedRow ==
    ASSUME NEW p \in Rows
    PROVE  LET q == [p EXCEPT !.age = IF p.exists THEN Older(@) ELSE @]
           IN  /\ p = NoProj => q = NoProj
               /\ q.exists = p.exists
               /\ p.exists => q.age = Older(p.age)
<1>1. ASSUME p = NoProj PROVE [p EXCEPT !.age = IF p.exists THEN Older(@) ELSE @] = NoProj
      BY <1>1 DEF NoProj
<1>2. [p EXCEPT !.age = IF p.exists THEN Older(@) ELSE @].exists = p.exists
      BY DEF Rows
<1>3. p.exists => [p EXCEPT !.age = IF p.exists THEN Older(@) ELSE @].age = Older(p.age)
      BY DEF Rows
<1> QED BY <1>1, <1>2, <1>3

LEMMA TimedNever == [NoStatus EXCEPT !.age = Aged(@)] = NoStatus
<1>1. Aged(Never) = Never
      BY CapFacts
<1> QED BY <1>1 DEF NoStatus

\* What an edit of the resource, or writing a copy over it, leaves alone.
LEMMA Edited ==
    ASSUME NEW c \in Resources, NEW s \in Specs, NEW g \in Nat
    PROVE  LET q == [c EXCEPT !.spec = s, !.gen = g] IN q \in Resources /\ q.state = c.state
BY Zenon DEF Resources

LEMMA Cleared ==
    ASSUME NEW c \in Resources, NEW s \in Specs, NEW g \in Nat
    PROVE  LET q == [c EXCEPT !.annot = FALSE, !.spec = s, !.gen = g]
           IN  q \in Resources /\ q.state = c.state
BY Zenon DEF Resources

\* A pass begins with a copy of the resource.
LEMMA Begun ==
    ASSUME TypeInv, Begin
    PROVE  pass' \in Passes /\ pass'.pc = "fetch" /\ pass'.age = 0 /\ pass'.prior = priorRev
<1>1. priorRev \in 0..MaxRev
      BY DEF priorRev, TypeInv, Refs
<1>2. Idle \in Passes /\ Idle.age = 0
      BY RestTypes
<1>3. cr.gen \in Nat /\ cr.spec \in Specs /\ cr.annot \in BOOLEAN
      BY DEF TypeInv, Resources
<1> QED BY Zenon, <1>1, <1>2, <1>3 DEF Begin, Passes, PCs

\* Every step stays in the types.
LEMMA TypeInductive == TypeInv /\ [Next]_vars => TypeInv'
<1> SUFFICES ASSUME TypeInv, [Next]_vars PROVE TypeInv'
    OBVIOUS
<1> USE DEF TypeInv
<1>1. ASSUME PassStep, UNCHANGED rd PROVE TypeInv'
  <2>0. \A c \in PCs : [pass EXCEPT !.pc = c] \in Passes
        BY Goto
  <2>a. [pass EXCEPT !.pc = "rename", !.body = [rev |-> head, spec |-> pass.spec]] \in Passes
    <3>1. [rev |-> head, spec |-> pass.spec] \in Content
          BY DEF Content, Passes
    <3>2. "rename" \in PCs
          BY DEF PCs
    <3> QED BY Zenon, <3>1, <3>2, GotoWithBody
  <2>b. /\ [cr EXCEPT !.annot = FALSE, !.spec = pass.spec, !.gen = @] \in Resources
        /\ [cr EXCEPT !.annot = FALSE, !.spec = pass.spec, !.gen = @ + 1] \in Resources
    <3>1. pass.spec \in Specs /\ cr.gen \in Nat /\ cr.gen + 1 \in Nat
          BY DEF Passes, Resources
    <3> QED BY Zenon, <3>1, Cleared
  <2> USE <1>1, <2>0, RestTypes DEF GiveUp, Fails, Deleting, PCs
  <2>1. CASE AddFinalizer
        BY Zenon, <2>1 DEF AddFinalizer, Resources
  <2>2. CASE Begin
        BY <2>2, Begun DEF Begin
  <2>3. CASE Fetch
        BY <2>3, <2>a DEF Fetch
  <2>4. CASE Rename
    <3>1. pass.body \in Content
          BY DEF Passes
    <3> QED BY Zenon, <2>4, <3>1 DEF Rename
  <2>5. CASE UpsertExternalRef
    <3>1. pass.body.rev \in 0..MaxRev
          BY NoFileFacts DEF Passes
    <3>2. [exists |-> TRUE, rev |-> pass.body.rev, force |-> FALSE] \in Refs
          BY <3>1 DEF Refs
    <3> QED BY Zenon, <2>5, <3>2 DEF UpsertExternalRef
  <2>6. CASE FailureStatus
    <3>1. status' \in Statuses
          BY <2>6 DEF FailureStatus, Statuses, Passes
    <3> QED BY <2>6, <3>1 DEF FailureStatus
  <2>7. CASE Publish
    <3>1. [obs |-> pass.gen, age |-> 0] \in Statuses /\ [exists |-> TRUE, age |-> 0] \in Rows
          BY CapFacts DEF Statuses, Rows, Passes
    <3>2. [xref EXCEPT !.force = FALSE] \in Refs
          BY Zenon DEF Refs
    <3>3. [pass EXCEPT !.pc = "clear", !.stale = FALSE] \in Passes
          BY Zenon, GotoStale
    <3> QED BY Zenon, <2>7, <3>1, <3>2, <3>3 DEF Publish
  <2>8. CASE ClearAnnotation
    <3>1. CASE pass.stale
          BY <2>8, <3>1 DEF ClearAnnotation
    <3>2. CASE ~ pass.stale /\ cr.spec = pass.spec
          BY <2>8, <3>2, <2>b DEF ClearAnnotation
    <3>3. CASE ~ pass.stale /\ cr.spec # pass.spec
          BY <2>8, <3>3, <2>b DEF ClearAnnotation
    <3> QED BY <3>1, <3>2, <3>3
  <2>9. CASE RemoveFile
    <3>1. [Idle EXCEPT !.pc = "deleteRef"] \in Passes
          BY Zenon, Goto
    <3> QED BY <2>9, <3>1, NoFileFacts DEF RemoveFile
  <2>10. CASE DeleteExternalRef \/ DeleteProjection
        BY <2>10 DEF DeleteExternalRef, DeleteProjection
  <2>11. CASE RemoveFinalizer
    <3>1. cr' \in Resources
          BY Zenon, <2>11 DEF RemoveFinalizer, Resources
    <3> QED BY Zenon, <2>11, <3>1 DEF RemoveFinalizer
  <2> QED BY <1>1, <2>1, <2>2, <2>3, <2>4, <2>5, <2>6, <2>7, <2>8, <2>9, <2>10, <2>11 DEF PassStep
<1>2. ASSUME World, UNCHANGED rd PROVE TypeInv'
  <2>0. \A b \in BOOLEAN : [pass EXCEPT !.stale = b] \in Passes
        BY Staled
  <2> USE <1>2, <2>0
  <2>1. CASE EditSpec
    <3>1. PICK s \in Specs : cr' = [cr EXCEPT !.spec = s, !.gen = @ + 1]
          BY Zenon, <2>1 DEF EditSpec
    <3>2. cr' \in Resources
      <4>1. cr.gen + 1 \in Nat
            BY DEF Resources
      <4> QED BY Zenon, <3>1, <4>1, Edited
    <3> QED BY Zenon, <2>1, <3>2 DEF EditSpec, Outdated
  <2>2. CASE Annotate \/ Delete
    <3>1. cr' \in Resources
          BY Zenon, <2>2 DEF Annotate, Delete, Resources
    <3> QED BY Zenon, <2>2, <3>1 DEF Annotate, Delete, Outdated
  <2>3. CASE Recreate
        BY Zenon, <2>3 DEF Recreate, Resources
  <2>4. CASE SetForceRefresh
        BY Zenon, <2>4 DEF SetForceRefresh, Refs
  <2>5. CASE UpstreamMoves
        BY SMTT(30), <2>5, CapFacts DEF UpstreamMoves, Revs
  <2>6. CASE Restart \/ VolumeReplaced
        BY Zenon, <2>6, NoFileFacts, RestTypes DEF Restart, VolumeReplaced
  <2> QED BY <1>2, <2>1, <2>2, <2>3, <2>4, <2>5, <2>6 DEF World
<1>3. CASE TimePasses
  <2> USE <1>3 DEF TimePasses, Tick
  <2>1. past' \in [Revs -> 0..Cap]
        BY CapFacts
  <2>2. status' \in Statuses
        BY CapFacts DEF Statuses
  <2>3. proj' \in Rows
        BY CapFacts DEF Rows
  <2>4. rd' \in Requests
        BY CapFacts DEF Requests
  <2>5. pass.age \in 0..FetchTime
        BY DEF Passes
  <2>6. pass' \in Passes
        BY <2>5, Lasted
  <2> QED BY <2>1, <2>2, <2>3, <2>4, <2>6
<1>4. CASE Request
  <2>1. rd' \in Requests
        BY Zenon, <1>4, RestTypes DEF Request, resolveContent, open, streamed, Requests, Rows
  <2> QED BY <1>4, <2>1 DEF Request, resolveContent, open, streamed, refVars
<1>5. CASE UNCHANGED vars
      BY <1>5 DEF vars, refVars
<1> QED BY <1>1, <1>2, <1>3, <1>4, <1>5 DEF Next

-----------------------------------------------------------------------------
(* The three invariants hold together: each names what a step of a pass has  *)
(* behind it.                                                                *)

Safe == DeletionInv /\ RevisionInv /\ AgeInv

\* The facts of the types that the steps below compute with.
LEMMA Flat ==
    ASSUME TypeInv
    PROVE  /\ pass \in Passes /\ pass.pc \in PCs /\ pass.age \in 0..FetchTime
           /\ pass.body \in Content /\ pass.prior \in 0..MaxRev
           /\ head \in Revs /\ head \in 1..MaxRev
           /\ xref.rev \in 0..MaxRev /\ xref.exists \in BOOLEAN
           /\ proj.age \in 0..Cap /\ rd.age \in 0..Cap
           /\ file \in Content /\ file.rev \in 0..MaxRev
           /\ (file # NoFile => file.rev \in Revs /\ Since(file) \in 0..Cap)
           /\ \A r \in Revs : past[r] \in 0..Cap
<1>1. file.rev \in 0..MaxRev /\ (file # NoFile => file.rev \in Revs)
      BY NoFileFacts DEF TypeInv
<1>2. pass.pc \in PCs /\ pass.age \in 0..FetchTime /\ pass.body \in Content /\ pass.prior \in 0..MaxRev
      BY DEF TypeInv, Passes
<1>3. xref.rev \in 0..MaxRev /\ xref.exists \in BOOLEAN /\ proj.age \in 0..Cap /\ rd.age \in 0..Cap
      BY DEF TypeInv, Refs, Rows, Requests
<1> QED BY <1>1, <1>2, <1>3 DEF TypeInv, Since, Revs

\* A pass that gives up or goes to the failure path promises nothing.
LEMMA Halted ==
    ASSUME IInv, cr.state # "absent",
           UNCHANGED <<cr, xref, proj, file, lost, head, past, rd>>,
           pass'.pc = "idle" \/ (Refreshing /\ pass'.pc = "failed")
    PROVE  Safe'
<1>1. DeletionInv'
      BY DEF IInv, DeletionInv, NothingLeftBehind, Refreshing
<1>2. RevisionInv'
      BY DEF IInv, RevisionInv, Refreshing
<1>3. AgeInv'
      BY DEF IInv, AgeInv, Since
<1> QED BY <1>1, <1>2, <1>3 DEF Safe

\* The steps of a refresh.
LEMMA RefreshInductive ==
    ASSUME IInv, UNCHANGED rd,
           \/ AddFinalizer \/ Begin \/ Fetch \/ Rename \/ UpsertExternalRef
           \/ FailureStatus \/ Publish \/ ClearAnnotation
    PROVE  Safe'
<1> USE DEF Safe, DeletionInv, RevisionInv, AgeInv, NothingLeftBehind, Refreshing, Since
<1>0. IInv /\ Safe
      BY DEF IInv
<1>1. TypeInv
      BY DEF IInv
<1>2. /\ pass \in Passes /\ head \in 1..MaxRev /\ pass.age \in 0..FetchTime
      /\ file.rev \in 0..MaxRev /\ xref.rev \in 0..MaxRev /\ pass.prior \in 0..MaxRev
      /\ file # NoFile => past[file.rev] \in Nat
      BY <1>1, Flat
<1>3. \A c \in PCs : LET q == [pass EXCEPT !.pc = c]
                     IN  q.pc = c /\ q.body = pass.body /\ q.prior = pass.prior /\ q.age = pass.age
      BY <1>2, Goto
<1>4. CASE AddFinalizer
  <2>1. cr'.state = cr.state
        BY <1>1, <1>4 DEF AddFinalizer, TypeInv, Resources
  <2> QED BY <1>0, <1>4, <2>1 DEF AddFinalizer
<1>5. CASE Begin
  <2>1. pass'.pc = "fetch" /\ pass'.age = 0 /\ pass'.prior = priorRev
        BY <1>1, <1>5, Begun
  <2>2. priorRev <= xref.rev
        BY <1>2 DEF priorRev
  <2> QED BY <1>0, <1>5, <2>1, <2>2 DEF Begin
<1>6. CASE Fetch
  <2>1. CASE Fails /\ UNCHANGED <<cr, status, xref, proj, file, lost, head, past>>
    <3>1. pass'.pc = "failed"
          BY <1>3, <2>1 DEF Fails, PCs
    <3> QED BY <1>0, <1>6, <2>1, <3>1, Halted DEF Fetch
  <2>2. CASE pass.prior = head /\ pass' = [pass EXCEPT !.pc = "publish"]
    <3>1. pass'.pc = "publish" /\ pass'.age = pass.age
          BY <1>3, <2>2 DEF PCs
    <3>2. file # NoFile => file.rev = head
          BY <1>0, <1>2, <1>6, <2>2 DEF Fetch
    <3> QED BY <1>0, <1>2, <1>6, <3>1, <3>2 DEF Fetch
  <2>3. CASE pass' = [pass EXCEPT !.pc = "rename", !.body = [rev |-> head, spec |-> pass.spec]]
    <3>1. /\ pass'.pc = "rename" /\ pass'.age = pass.age
          /\ pass'.body # NoFile /\ pass'.body.rev = head
          BY <1>1, <2>3, Fetched
    <3> QED BY <1>0, <1>2, <1>6, <3>1 DEF Fetch
  <2> QED BY <1>6, <2>1, <2>2, <2>3 DEF Fetch
<1>7. CASE Rename
  <2>1. CASE Fails /\ UNCHANGED <<file, lost>>
    <3>1. pass'.pc = "failed"
          BY <1>3, <2>1 DEF Fails, PCs
    <3> QED BY <1>0, <1>7, <2>1, <3>1, Halted DEF Rename
  <2>2. CASE file' = pass.body /\ lost' = FALSE /\ pass' = [pass EXCEPT !.pc = "upsert"]
    <3>1. pass'.pc = "upsert" /\ pass'.age = pass.age /\ pass'.body = pass.body
          BY <1>3, <2>2 DEF PCs
    <3>2. pass.body \in Content /\ pass.body # NoFile
          BY <1>0, <1>1, <1>7, Flat DEF Rename
    <3>3. past[pass.body.rev] \in Nat /\ proj.age \in Nat /\ rd.age \in Nat
          BY <1>1, <3>2, Flat, NoFileFacts, CapFacts
    <3>4. past[pass.body.rev] <= FetchTime
          BY <1>0, <1>2, <1>7, <3>3 DEF Rename
    <3> QED BY <1>0, <1>2, <1>7, <2>2, <3>1, <3>3, <3>4 DEF Rename
  <2> QED BY Zenon, <1>7, <2>1, <2>2 DEF Rename
<1>8. CASE UpsertExternalRef
  <2>1. CASE Fails /\ UNCHANGED xref
    <3>1. pass'.pc = "failed"
          BY <1>3, <2>1 DEF Fails, PCs
    <3> QED BY <1>0, <1>8, <2>1, <3>1, Halted DEF UpsertExternalRef
  <2>2. CASE /\ xref' = [exists |-> TRUE, rev |-> pass.body.rev, force |-> FALSE]
             /\ pass' = [pass EXCEPT !.pc = "publish"]
    <3>1. pass'.pc = "publish" /\ pass'.age = pass.age /\ xref'.rev = pass.body.rev
          BY <1>3, <2>2 DEF PCs
    <3> QED BY <1>0, <1>2, <1>8, <3>1 DEF UpsertExternalRef
  <2> QED BY <1>8, <2>1, <2>2 DEF UpsertExternalRef
<1>9. CASE FailureStatus
  <2>1. pass'.pc = "idle"
        BY <1>9, RestTypes DEF FailureStatus, GiveUp
  <2> QED BY <1>0, <1>9, <2>1, Halted DEF FailureStatus
<1>10. CASE Publish
  <2>1. pass'.pc \in {"idle", "clear"}
    <3>1. "clear" \in PCs
          BY DEF PCs
    <3>2. [pass EXCEPT !.pc = "clear", !.stale = FALSE].pc = "clear"
          BY Zenon, <1>2, <3>1, GotoStale
    <3> QED BY Zenon, <1>10, <3>2, RestTypes DEF Publish, GiveUp
  <2>2. xref'.rev = xref.rev
        BY <1>1, <1>10 DEF Publish, TypeInv, Refs
  <2>3. proj' = proj \/ (proj'.exists /\ proj'.age = 0)
        BY <1>10 DEF Publish
  <2>4. FetchTime \in Nat /\ 0 + FetchTime = FetchTime
        OBVIOUS
  <2> QED BY <1>0, <1>2, <1>10, <2>1, <2>2, <2>3, <2>4 DEF Publish
<1>11. CASE ClearAnnotation
  <2>1. pass'.pc = "idle"
        BY <1>11, RestTypes DEF ClearAnnotation
  <2>2. cr'.state = cr.state
        BY Zenon, <1>1, <1>11 DEF ClearAnnotation, TypeInv, Resources
  <2> QED BY <1>0, <1>11, <2>1, <2>2 DEF ClearAnnotation
<1> QED BY <1>4, <1>5, <1>6, <1>7, <1>8, <1>9, <1>10, <1>11

\* The steps of a deletion.
LEMMA RemovalInductive ==
    ASSUME IInv, UNCHANGED rd,
           RemoveFile \/ DeleteExternalRef \/ DeleteProjection \/ RemoveFinalizer
    PROVE  Safe'
<1> USE DEF Safe, DeletionInv, RevisionInv, AgeInv, NothingLeftBehind, Refreshing, Since, Deleting
<1>0. IInv /\ Safe
      BY DEF IInv
<1>1. TypeInv
      BY DEF IInv
<1>2. pass \in Passes /\ head \in 1..MaxRev /\ xref.rev \in 0..MaxRev
      BY <1>1, Flat
<1>3. \A c \in PCs : [pass EXCEPT !.pc = c].pc = c
      BY <1>2, Goto
<1>4. NoFile.rev = 0
      BY DEF NoFile
<1>5. CASE GiveUp /\ UNCHANGED <<cr, xref, proj, file, lost, head, past, rd>>
  <2>1. pass'.pc = "idle" /\ cr.state = "deleting"
        BY <1>5, RestTypes DEF GiveUp, RemoveFile, DeleteExternalRef, DeleteProjection,
           RemoveFinalizer
  <2> QED BY <1>0, <1>5, <2>1, Halted
<1>6. CASE RemoveFile /\ file' = NoFile /\ pass' = [Idle EXCEPT !.pc = "deleteRef"]
  <2>1. pass'.pc = "deleteRef"
        BY <1>6, RestTypes, Goto DEF PCs
  <2> QED BY <1>0, <1>2, <1>4, <1>6, <2>1 DEF RemoveFile
<1>7. CASE DeleteExternalRef /\ xref' = NoRef /\ pass' = [pass EXCEPT !.pc = "deleteRow"]
  <2>1. pass'.pc = "deleteRow"
        BY <1>3, <1>7 DEF PCs
  <2> QED BY <1>0, <1>2, <1>7, <2>1, RestTypes DEF DeleteExternalRef
<1>8. CASE DeleteProjection /\ proj' = NoProj /\ pass' = [pass EXCEPT !.pc = "finalize"]
  <2>1. pass'.pc = "finalize"
        BY <1>3, <1>8 DEF PCs
  <2> QED BY <1>0, <1>8, <2>1, RestTypes DEF DeleteProjection
<1>9. CASE /\ RemoveFinalizer
           /\ cr' = [cr EXCEPT !.state = "absent", !.fin = FALSE, !.annot = FALSE]
           /\ pass' = Idle /\ status' = NoStatus /\ lost' = FALSE
  <2>1. pass'.pc = "idle"
        BY <1>9, RestTypes
  <2>2. cr'.state = "absent"
    <3>1. cr \in Resources
          BY <1>1 DEF TypeInv
    <3> QED BY <1>9, <3>1, Finalized
  <2> QED BY <1>0, <1>9, <2>1, <2>2 DEF RemoveFinalizer
<1> QED BY Zenon, <1>5, <1>6, <1>7, <1>8, <1>9
        DEF RemoveFile, DeleteExternalRef, DeleteProjection, RemoveFinalizer

\* The moves of the world.
LEMMA WorldInductive ==
    ASSUME IInv, UNCHANGED rd, World
    PROVE  Safe'
<1> USE DEF Safe, DeletionInv, RevisionInv, AgeInv, NothingLeftBehind, Refreshing, Since
<1>0. IInv /\ Safe
      BY DEF IInv
<1>1. TypeInv
      BY DEF IInv
<1>2. /\ pass \in Passes /\ head \in 1..MaxRev /\ xref.rev \in 0..MaxRev /\ file.rev \in 0..MaxRev
      /\ NoFile.rev = 0
      BY <1>1, Flat DEF NoFile
<1>3. CASE EditSpec \/ Annotate \/ Delete
  <2>1. /\ pass'.pc = pass.pc /\ pass'.body = pass.body /\ pass'.prior = pass.prior
        /\ pass'.age = pass.age
        BY Zenon, <1>2, <1>3, Staled DEF EditSpec, Annotate, Delete, Outdated
  <2>2. cr.state = "live" /\ cr'.state \in {"live", "deleting"}
    <3>1. cr \in Resources
          BY <1>1 DEF TypeInv
    <3>2. CASE EditSpec
      <4>1. PICK s \in Specs : cr' = [cr EXCEPT !.spec = s, !.gen = @ + 1]
            BY Zenon, <3>2 DEF EditSpec
      <4>2. cr.gen + 1 \in Nat
            BY <3>1 DEF Resources
      <4> QED BY Zenon, <3>1, <3>2, <4>1, <4>2, Edited DEF EditSpec
    <3>3. CASE Annotate \/ Delete
          BY <3>1, <3>3 DEF Annotate, Delete, Resources
    <3> QED BY <1>3, <3>2, <3>3
  <2>3. UNCHANGED <<status, xref, proj, file, lost, head, past>>
        BY Zenon, <1>3 DEF EditSpec, Annotate, Delete
  <2>4. DeletionInv'
        BY <1>0, <2>1, <2>2, <2>3
  <2>5. RevisionInv'
        BY <1>0, <2>1, <2>2, <2>3
  <2>6. AgeInv'
        BY <1>0, <2>1, <2>2, <2>3
  <2> QED BY <2>4, <2>5, <2>6
<1>4. CASE Recreate
  <2>1. cr'.state = "live" /\ cr.state = "absent"
        BY <1>1, <1>4 DEF Recreate, TypeInv, Resources
  <2> QED BY <1>0, <1>4, <2>1, <1>2, RestTypes DEF Recreate
<1>5. CASE SetForceRefresh
  <2>1. xref'.rev = xref.rev
        BY <1>1, <1>5 DEF SetForceRefresh, TypeInv, Refs
  <2>2. xref # NoRef
        BY <1>5, RestTypes DEF SetForceRefresh
  <2> QED BY <1>0, <1>5, <2>1, <2>2 DEF SetForceRefresh
<1>6. CASE UpstreamMoves
  <2>1. head' = head + 1 /\ past' = [past EXCEPT ![head + 1] = 0]
        BY <1>6 DEF UpstreamMoves
  <2>2. past'[head'] = 0 /\ \A r \in 1..head : past'[r] = past[r]
        BY <1>1, <1>2, <1>6, <2>1 DEF UpstreamMoves, TypeInv, Revs
  <2>3. file # NoFile => file.rev \in 1..head
        BY <1>0, <1>1, <1>2, Flat DEF Revs
  <2>4. pass.pc \in {"rename", "upsert"} => pass.body.rev \in 1..head
        BY <1>0, <1>1, <1>2, Flat, NoFileFacts DEF Revs
  <2> QED BY <1>0, <1>2, <1>6, <2>1, <2>2, <2>3, <2>4 DEF UpstreamMoves
<1>7. CASE Restart
  <2>1. pass'.pc = "idle" /\ cr.state # "absent"
        BY <1>0, <1>7, RestTypes DEF Restart
  <2> QED BY <1>0, <1>7, <2>1, Halted DEF Restart
<1>8. CASE VolumeReplaced
  <2>1. pass'.pc = "idle"
        BY <1>8, RestTypes DEF VolumeReplaced
  <2> QED BY <1>0, <1>2, <1>8, <2>1 DEF VolumeReplaced
<1> QED BY Zenon, <1>3, <1>4, <1>5, <1>6, <1>7, <1>8 DEF World

\* Time, and the download.
LEMMA TimeInductive ==
    ASSUME IInv, TimePasses
    PROVE  Safe'
<1> USE DEF Safe, DeletionInv, RevisionInv, AgeInv, NothingLeftBehind, Refreshing, Since
<1>0. IInv /\ Safe
      BY DEF IInv
<1>1. TypeInv
      BY DEF IInv
<1>2. /\ pass \in Passes /\ head \in Revs /\ file \in Content /\ FetchTime \in Nat
      /\ pass.age \in Nat /\ proj.age \in 0..Cap /\ rd.age \in 0..Cap
      BY <1>1, Flat
<1>3. Tick /\ rd' = [rd EXCEPT !.age = IF rd.pc = "resolved" THEN Older(@) ELSE @]
      BY DEF TimePasses
<1>4. /\ pass'.pc = pass.pc /\ pass'.body = pass.body /\ pass'.prior = pass.prior
      /\ pass'.age = IF pass.pc \in {"idle", "fetch"} THEN pass.age ELSE pass.age + 1
  <2>1. pass.age \in 0..FetchTime /\ pass.age < FetchTime
        BY <1>1, <1>3, Flat DEF Tick
  <2>2. (IF pass.pc \in {"idle", "fetch"} THEN pass.age ELSE pass.age + 1) \in 0..FetchTime
        BY <2>1
  <2> QED BY <1>2, <1>3, <2>2, Lasted DEF Tick
<1>5. /\ proj = NoProj => proj' = NoProj
      /\ proj'.exists = proj.exists
      /\ proj.exists => proj'.age = Older(proj.age)
      BY <1>1, <1>3, TimedRow DEF Tick, TypeInv
<1>6. status = NoStatus => status' = NoStatus
      BY <1>3, TimedNever DEF Tick
<1>7. rd'.pc = rd.pc /\ (rd.pc = "resolved" => rd'.age = Older(rd.age))
      BY <1>1, <1>3 DEF TypeInv, Requests
<1>8. UNCHANGED <<cr, xref, file, lost, head>>
      BY <1>3 DEF Tick
<1>9. DeletionInv' /\ RevisionInv'
      BY <1>0, <1>4, <1>5, <1>6, <1>8
<1>10. \A r \in Revs : past[r] \in 0..Cap /\ past'[r] = IF r = head THEN 0 ELSE Older(past[r])
      BY <1>1, <1>3 DEF Tick, TypeInv
<1>11. \A r \in Revs, b \in Nat : past[r] <= b => past'[r] <= b + 1
  <2> TAKE r \in Revs, b \in Nat
  <2> HAVE past[r] <= b
  <2>1. past[r] \in 0..Cap /\ past'[r] \in {0, Older(past[r])}
        BY <1>10
  <2>2. Older(past[r]) <= b + 1
        BY <2>1, CapFacts
  <2> QED BY <2>1, <2>2
<1>12. \A r \in Revs, b \in 0..Cap : past[r] <= b + FetchTime => past'[r] <= Older(b) + FetchTime
  <2> TAKE r \in Revs, b \in 0..Cap
  <2> HAVE past[r] <= b + FetchTime
  <2>1. past[r] \in 0..Cap /\ past'[r] \in {0, Older(past[r])}
        BY <1>10
  <2>2. Older(past[r]) <= Older(b) + FetchTime /\ Older(b) \in 0..Cap /\ Cap \in Nat
        BY <2>1, CapFacts
  <2> QED BY <1>2, <2>1, <2>2
<1>13. file # NoFile => file.rev \in Revs
      BY <1>2, NoFileFacts
<1>14. pass.pc \in {"rename", "upsert"} => pass.body.rev \in Revs
      BY <1>0, <1>1, Flat, NoFileFacts
<1>15. past'[head'] = 0
      BY <1>2, <1>8, <1>10
<1>16. AgeInv'
  <2>1. pass'.pc \in {"rename", "upsert"} => Since(pass.body)' <= pass'.age
        BY <1>0, <1>2, <1>4, <1>11, <1>14
  <2>2. pass'.pc = "publish" /\ file' # NoFile => Since(file)' <= pass'.age
        BY <1>0, <1>2, <1>4, <1>8, <1>11, <1>13
  <2>3. proj'.exists /\ file' # NoFile => Since(file)' <= proj'.age + FetchTime
        BY <1>0, <1>2, <1>5, <1>8, <1>12, <1>13
  <2>4. rd'.pc = "resolved" /\ file' # NoFile => Since(file)' <= rd'.age + FetchTime
        BY <1>0, <1>2, <1>7, <1>8, <1>12, <1>13
  <2> QED BY <1>0, <1>4, <1>15, <2>1, <2>2, <2>3, <2>4
<1> QED BY <1>9, <1>16

LEMMA RequestInductive ==
    ASSUME IInv, Request
    PROVE  Safe'
<1> USE DEF Safe, DeletionInv, RevisionInv, AgeInv, NothingLeftBehind, Refreshing, Since
<1>1. IInv /\ Safe
      BY DEF IInv
<1>2. UNCHANGED <<cr, status, xref, proj, file, lost, head, past, pass>>
      BY DEF Request, resolveContent, open, streamed, refVars
<1>3. rd'.pc = "resolved" => proj.exists /\ rd'.age = proj.age
  <2>1. CASE resolveContent
        BY <2>1 DEF resolveContent, NoRequest
  <2>2. CASE open \/ streamed
    <3>1. NoRequest.pc = "idle" /\ [NoRequest EXCEPT !.pc = "streaming", !.body = file].pc = "streaming"
          BY DEF NoRequest
    <3>2. rd'.pc \in {"idle", "streaming"}
          BY Zenon, <2>2, <3>1 DEF open, streamed
    <3> QED BY <3>2
  <2> QED BY <2>1, <2>2 DEF Request
<1>4. DeletionInv' /\ RevisionInv'
      BY <1>1, <1>2
<1>5. AgeInv'
      BY <1>1, <1>2, <1>3
<1> QED BY <1>4, <1>5

-----------------------------------------------------------------------------
(* The results *)

\* The invariant holds at the start and every step keeps it.
THEOREM Invariance == Spec => []IInv
<1>1. Init => IInv
  <2> SUFFICES ASSUME Init PROVE IInv
      OBVIOUS
  <2>1. TypeInv
    <3>1. cr \in Resources
          BY DEF Init, RefInit, Resources
    <3>2. head \in Revs /\ past \in [Revs -> 0..Cap]
          BY CapFacts DEF Init, RefInit, Revs
    <3> QED BY Zenon, <3>1, <3>2, RestTypes, NoFileFacts DEF Init, RefInit, TypeInv
  <2>2. DeletionInv
        BY RestTypes DEF Init, RefInit, DeletionInv, NothingLeftBehind, Refreshing
  <2>3. RevisionInv
        BY RestTypes DEF Init, RefInit, RevisionInv, Refreshing, NoFile
  <2>4. AgeInv
        BY RestTypes DEF Init, RefInit, AgeInv, Since, Revs
  <2> QED BY <2>1, <2>2, <2>3, <2>4 DEF IInv
<1>2. IInv /\ [Next]_vars => IInv'
  <2> SUFFICES ASSUME IInv, [Next]_vars PROVE IInv'
      OBVIOUS
  <2>1. TypeInv'
        BY TypeInductive DEF IInv
  <2>2. Safe'
    <3>1. CASE PassStep /\ UNCHANGED rd
          BY <3>1, RefreshInductive, RemovalInductive DEF PassStep
    <3>2. CASE World /\ UNCHANGED rd
          BY <3>2, WorldInductive
    <3>3. CASE TimePasses
          BY <3>3, TimeInductive
    <3>4. CASE Request
          BY <3>4, RequestInductive
    <3>5. CASE UNCHANGED vars
          BY <3>5 DEF vars, refVars, IInv, Safe, DeletionInv, RevisionInv, AgeInv,
             NothingLeftBehind, Refreshing, Since
    <3> QED BY <3>1, <3>2, <3>3, <3>4, <3>5 DEF Next
  <2> QED BY <2>1, <2>2 DEF IInv, Safe
<1> QED BY <1>1, <1>2, PTL DEF Spec

\* materializeExternalRef: as long as the volume is kept, the row of a live
\* resource never records a revision newer than the published file's.
THEOREM RowBehindFile == Spec => []RowNeverAheadOfFile
<1>1. IInv => RowNeverAheadOfFile
      BY DEF IInv, RevisionInv, RowNeverAheadOfFile
<1> QED BY <1>1, Invariance, PTL

\* reconcileDeletion: once the resource is gone, so are its file and its rows.
THEOREM DeletionComplete == Spec => []NothingLeftBehind
<1>1. IInv => NothingLeftBehind
      BY DEF IInv, DeletionInv
<1> QED BY <1>1, Invariance, PTL

\* checkStaleness: what a download opens was the upstream's no longer ago than
\* maxStaleness and the length of one pass.
THEOREM ServedRecent == Spec => ServedRevisionRecent
<1>1. IInv /\ [Next]_vars =>
        [rd'.pc = "streaming" /\ rd.pc # "streaming"
           => past[rd'.body.rev] <= MaxStale + FetchTime]_vars
  <2> SUFFICES ASSUME IInv, [Next]_vars, rd'.pc = "streaming", rd.pc # "streaming"
               PROVE  past[rd'.body.rev] <= MaxStale + FetchTime
      OBVIOUS
  <2>1. open
    <3>1. rd'.pc # rd.pc
          OBVIOUS
    <3>2. ~ TimePasses
          BY <3>1 DEF TimePasses, IInv, TypeInv, Requests
    <3>3. ~ resolveContent /\ ~ streamed
          BY Zenon DEF resolveContent, streamed, NoRequest
    <3>4. ~ UNCHANGED rd
          BY <3>1
    <3> QED BY <3>2, <3>3, <3>4 DEF Next, Request, vars
  <2>2. /\ rd.pc = "resolved" /\ ~ checkStaleness(rd.age) /\ file # NoFile
        /\ rd'.body = file
        BY <2>1 DEF open, NoRequest
  <2>3. Since(file) \in 0..Cap /\ rd.age \in 0..Cap /\ Cap \in Nat
        BY <2>2, Flat, CapFacts DEF IInv
  <2>4. Since(file) <= rd.age + FetchTime
        BY <2>2 DEF IInv, AgeInv
  <2> QED BY <2>2, <2>3, <2>4 DEF checkStaleness, Since
<1> QED BY <1>1, Invariance, PTL DEF Spec, ServedRevisionRecent

=============================================================================
