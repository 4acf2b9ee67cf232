--------------------------- MODULE ContentService ---------------------------
(***************************************************************************)
(* The copy of one external content object (a Plugin, Prompt, Artifact or   *)
(* Skill custom resource) and its downloads.                                *)
(*                                                                          *)
(* The operator keeps the copy: reconcileExternalRefCR and                  *)
(* materializeExternalRef, the per-kind deletion, the rows they write and   *)
(* the file they publish on the shared volume.  One pass at a time runs for *)
(* a resource (the controller's work queue), in steps that the world        *)
(* interleaves with: users edit, annotate, delete and recreate the          *)
(* resource, the upstream moves, the operator dies, the volume is replaced, *)
(* calls fail.                                                              *)
(*                                                                          *)
(* The content service answers one download beside it: gates 6 to 8 of the  *)
(* request pipeline and the streaming of the file.  The gates before them,  *)
(* authentication, the Environment, its teams and its allowlist, do not     *)
(* read the object and are left out: a request here has passed them.        *)
(***************************************************************************)
EXTENDS Naturals

CONSTANTS
    Specs,       \* the values of spec.path, which select what is fetched
    MaxRev,      \* bound: upstream revisions
    Interval,    \* spec.refresh.interval, in ticks
    MaxStale,    \* spec.refresh.maxStaleness, in ticks
    FetchTime,   \* bound: ticks from a fetch to the end of its pass
    MaxMoves     \* bound: moves of the world, failed calls included

ASSUME RefAssumption ==
    /\ MaxRev \in Nat \ {0} /\ Interval \in Nat /\ MaxStale \in Nat
    /\ FetchTime \in Nat /\ MaxMoves \in Nat /\ Specs # {}

VARIABLES
    cr,      \* the custom resource
    status,  \* its status subresource
    xref,    \* its row of external_refs
    proj,    \* its row of the kind's own table, which the readers use
    file,    \* the published file
    lost,    \* the volume was replaced since the file was last published
    head,    \* the upstream's revision
    past,    \* ticks since a revision was last the upstream's
    pass,    \* the running pass and its local variables
    moves,
    rd       \* the request: its copy of the row, then the file it opened

refVars == <<cr, status, xref, proj, file, lost, head, past, pass, moves>>

Revs == 1..MaxRev

\* Ages stop counting here: every comparison they meet is decided by then.
Cap == MaxStale + FetchTime + Interval + 1
Older(age) == IF age < Cap THEN age + 1 ELSE age

\* No timestamp (nil): older than any window.
Never == Cap + 1
Aged(age) == IF age = Never THEN Never ELSE Older(age)

NoFile == [rev |-> 0, spec |-> CHOOSE s \in Specs : TRUE]
Content == [rev : Revs, spec : Specs] \cup {NoFile}

NoStatus == [obs |-> 0, age |-> Never]
NoRef == [exists |-> FALSE, rev |-> 0, force |-> FALSE]
NoProj == [exists |-> FALSE, age |-> 0]

\* pc "idle" between passes. gen, spec and annot are the pass's copy of the
\* resource; stale: the resource changed since its version was last read.
Idle == [pc |-> "idle", gen |-> 0, spec |-> NoFile.spec, annot |-> FALSE,
         stale |-> FALSE, prior |-> 0, body |-> NoFile, age |-> 0]

RefInit ==
    /\ \E s \in Specs :
           cr = [state |-> "live", fin |-> FALSE, gen |-> 1, spec |-> s, annot |-> FALSE]
    /\ status = NoStatus
    /\ xref = NoRef
    /\ proj = NoProj
    /\ file = NoFile
    /\ lost = FALSE
    /\ head = 1
    /\ past = [r \in Revs |-> IF r = 1 THEN 0 ELSE Cap]
    /\ pass = Idle
    /\ moves = 0

\* A call of the pass fails, or the world moves.
Move == moves < MaxMoves /\ moves' = moves + 1

-----------------------------------------------------------------------------
(* The pass *)

\* A call that fails without touching anything ends the pass; the work queue
\* or the next resync starts another.
GiveUp == Move /\ pass' = Idle

\* The mutated form: the interval is never over.
shouldSkipFetchForever ==
    status.age # Never /\ status.obs = cr.gen /\ ~ cr.annot /\ ~ xref.force

\* shouldSkipFetch: the last success is younger than the interval and nothing
\* asks for a fetch before that.
shouldSkipFetch ==
    /\ status.age # Never
    /\ status.obs = cr.gen
    /\ ~ cr.annot
    /\ ~ xref.force
    /\ status.age < Interval

\* The revision the conditional fetch sends: none after a change of the spec.
priorRev == IF status.obs = cr.gen THEN xref.rev ELSE 0

AddFinalizer ==
    /\ pass.pc = "idle"
    /\ cr.state = "live"
    /\ ~ cr.fin
    /\ cr' = [cr EXCEPT !.fin = TRUE]
    /\ UNCHANGED <<status, xref, proj, file, lost, head, past, pass, moves>>

\* Up to the fetch: the resource, its row, the interval gate.
Begin ==
    /\ pass.pc = "idle"
    /\ cr.state = "live"
    /\ cr.fin
    /\ ~ shouldSkipFetch
    /\ pass' = [Idle EXCEPT !.pc = "fetch", !.gen = cr.gen, !.spec = cr.spec,
                            !.annot = cr.annot, !.prior = priorRev]
    /\ UNCHANGED <<cr, status, xref, proj, file, lost, head, past, moves>>

\* Everything that fails before the rows are written goes to the failure path:
\* the secret, the fetcher, the filters, the size cap, the staging.
Fails == Move /\ pass' = [pass EXCEPT !.pc = "failed"]

\* The fetcher answers NotModified when the revision it was sent is current.
Fetch ==
    /\ pass.pc = "fetch"
    /\ \/ /\ pass.prior = head
          /\ pass' = [pass EXCEPT !.pc = "publish"]
          /\ UNCHANGED moves
       \/ /\ pass.prior # head
          /\ pass' = [pass EXCEPT !.pc = "rename", !.body = [rev |-> head, spec |-> pass.spec]]
          /\ UNCHANGED moves
       \/ Fails
    /\ UNCHANGED <<cr, status, xref, proj, file, lost, head, past>>

\* The mutated form: the row is written first, the file renamed after it.
RenameAfterRow ==
    /\ pass.pc = "rename"
    /\ xref' = [exists |-> TRUE, rev |-> pass.body.rev, force |-> FALSE]
    /\ \/ file' = pass.body /\ lost' = FALSE /\ pass' = [pass EXCEPT !.pc = "publish"] /\ UNCHANGED moves
       \/ Fails /\ UNCHANGED <<file, lost>>
    /\ UNCHANGED <<cr, status, proj, head, past>>

\* The staged file replaces the published one in one rename(2).
Rename ==
    /\ pass.pc = "rename"
    /\ \/ /\ file' = pass.body
          /\ lost' = FALSE
          /\ pass' = [pass EXCEPT !.pc = "upsert"]
          /\ UNCHANGED moves
       \/ Fails /\ UNCHANGED <<file, lost>>
    /\ UNCHANGED <<cr, status, xref, proj, head, past>>

\* UpsertExternalRefTx: the row takes the revision, the marker is cleared.
UpsertExternalRef ==
    /\ pass.pc = "upsert"
    /\ \/ /\ xref' = [exists |-> TRUE, rev |-> pass.body.rev, force |-> FALSE]
          /\ pass' = [pass EXCEPT !.pc = "publish"]
          /\ UNCHANGED moves
       \/ Fails /\ UNCHANGED xref
    /\ UNCHANGED <<cr, status, proj, file, lost, head, past>>

\* The failure path records that this generation was tried.
FailureStatus ==
    /\ pass.pc = "failed"
    /\ \/ /\ status' = [status EXCEPT !.obs = pass.gen]
          /\ pass' = Idle
          /\ UNCHANGED moves
       \/ GiveUp /\ UNCHANGED status
    /\ UNCHANGED <<cr, xref, proj, file, lost, head, past>>

\* The mutated form: the row is stamped with the success before this one.
PublishOldStamp ==
    /\ pass.pc = "publish"
    /\ proj' = [exists |-> TRUE, age |-> status.age]
    /\ status' = [obs |-> pass.gen, age |-> 0]
    /\ xref' = [xref EXCEPT !.force = FALSE]
    /\ pass' = Idle
    /\ UNCHANGED <<cr, file, lost, head, past, moves>>

\* Success or NotModified: the kind's row is stamped with the time, then the
\* status, whose retry also renews the pass's resource version. Either write
\* may fail. A marker older than the new stamp no longer opens the gate.
Publish ==
    /\ pass.pc = "publish"
    /\ \/ /\ proj' = [exists |-> TRUE, age |-> 0]
          /\ status' = [obs |-> pass.gen, age |-> 0]
          /\ xref' = [xref EXCEPT !.force = FALSE]
          /\ pass' = IF pass.annot THEN [pass EXCEPT !.pc = "clear", !.stale = FALSE] ELSE Idle
          /\ UNCHANGED moves
       \/ /\ proj' = [exists |-> TRUE, age |-> 0]
          /\ GiveUp
          /\ UNCHANGED <<status, xref>>
       \/ GiveUp /\ UNCHANGED <<proj, status, xref>>
    /\ UNCHANGED <<cr, file, lost, head, past>>

\* The force-refresh annotation is removed by writing the pass's whole copy of
\* the resource; the API server refuses the write if the resource changed.
ClearAnnotation ==
    /\ pass.pc = "clear"
    /\ IF pass.stale
         THEN UNCHANGED cr
         ELSE cr' = [cr EXCEPT !.annot = FALSE, !.spec = pass.spec,
                               !.gen = IF cr.spec = pass.spec THEN @ ELSE @ + 1]
    /\ pass' = Idle
    /\ UNCHANGED <<status, xref, proj, file, lost, head, past, moves>>

-----------------------------------------------------------------------------
(* Deletion: the file, the row of external_refs, the kind's row, the       *)
(* finalizer, each a call that may fail; the next pass starts again.       *)

Deleting(pc) == cr.state = "deleting" /\ pass.pc = pc

RemoveFile ==
    /\ Deleting("idle")
    /\ \/ file' = NoFile /\ pass' = [Idle EXCEPT !.pc = "deleteRef"] /\ UNCHANGED moves
       \/ GiveUp /\ UNCHANGED file
    /\ UNCHANGED <<cr, status, xref, proj, lost, head, past>>

DeleteExternalRef ==
    /\ Deleting("deleteRef")
    /\ \/ xref' = NoRef /\ pass' = [pass EXCEPT !.pc = "deleteRow"] /\ UNCHANGED moves
       \/ GiveUp /\ UNCHANGED xref
    /\ UNCHANGED <<cr, status, proj, file, lost, head, past>>

\* The mutated form: an error of the last delete does not stop the pass.
DeleteProjectionUnchecked ==
    /\ Deleting("deleteRow")
    /\ \/ proj' = NoProj /\ pass' = [pass EXCEPT !.pc = "finalize"] /\ UNCHANGED moves
       \/ Move /\ pass' = [pass EXCEPT !.pc = "finalize"] /\ UNCHANGED proj
    /\ UNCHANGED <<cr, status, xref, file, lost, head, past>>

DeleteProjection ==
    /\ Deleting("deleteRow")
    /\ \/ proj' = NoProj /\ pass' = [pass EXCEPT !.pc = "finalize"] /\ UNCHANGED moves
       \/ GiveUp /\ UNCHANGED proj
    /\ UNCHANGED <<cr, status, xref, file, lost, head, past>>

\* Without its finalizer the resource is gone, and its status with it.
RemoveFinalizer ==
    /\ Deleting("finalize")
    /\ \/ /\ cr' = [cr EXCEPT !.state = "absent", !.fin = FALSE, !.annot = FALSE]
          /\ status' = NoStatus
          /\ lost' = FALSE
          /\ pass' = Idle
          /\ UNCHANGED moves
       \/ GiveUp /\ UNCHANGED <<cr, status, lost>>
    /\ UNCHANGED <<xref, proj, file, head, past>>

PassStep ==
    \/ AddFinalizer \/ Begin \/ Fetch \/ Rename \/ UpsertExternalRef
    \/ FailureStatus \/ Publish \/ ClearAnnotation
    \/ RemoveFile \/ DeleteExternalRef \/ DeleteProjection \/ RemoveFinalizer

-----------------------------------------------------------------------------
(* The world *)

\* A write to the resource outdates the version a running pass holds.
Outdated == pass' = [pass EXCEPT !.stale = pass.pc # "idle"]

EditSpec ==
    /\ Move /\ cr.state = "live"
    /\ \E s \in Specs \ {cr.spec} : cr' = [cr EXCEPT !.spec = s, !.gen = @ + 1]
    /\ Outdated
    /\ UNCHANGED <<status, xref, proj, file, lost, head, past>>

Annotate ==
    /\ Move /\ cr.state = "live" /\ ~ cr.annot
    /\ cr' = [cr EXCEPT !.annot = TRUE]
    /\ Outdated
    /\ UNCHANGED <<status, xref, proj, file, lost, head, past>>

Delete ==
    /\ Move /\ cr.state = "live" /\ cr.fin
    /\ cr' = [cr EXCEPT !.state = "deleting"]
    /\ Outdated
    /\ UNCHANGED <<status, xref, proj, file, lost, head, past>>

Recreate ==
    /\ Move /\ cr.state = "absent"
    /\ cr' = [cr EXCEPT !.state = "live", !.gen = 1]
    /\ UNCHANGED <<status, xref, proj, file, lost, head, past, pass>>

\* SetForceRefresh: the admin API marks the row; the NOTIFY that follows only
\* brings the next pass forward.
SetForceRefresh ==
    /\ Move /\ xref.exists /\ ~ xref.force
    /\ xref' = [xref EXCEPT !.force = TRUE]
    /\ UNCHANGED <<cr, status, proj, file, lost, head, past, pass>>

\* A commit, an upload: revisions are not reused.
UpstreamMoves ==
    /\ Move /\ head < MaxRev
    /\ head' = head + 1
    /\ past' = [past EXCEPT ![head + 1] = 0]
    /\ UNCHANGED <<cr, status, xref, proj, file, lost, pass>>

\* The operator dies and starts again.
Restart ==
    /\ Move /\ pass.pc # "idle"
    /\ pass' = Idle
    /\ UNCHANGED <<cr, status, xref, proj, file, lost, head, past>>

\* The operator starts on a new, empty volume. ResetExternalRefRefreshOnEmptyCache
\* clears external_refs.last_successful_refresh, a column no later decision of
\* the pass reads.
VolumeReplaced ==
    /\ Move /\ file # NoFile
    /\ file' = NoFile
    /\ lost' = TRUE
    /\ pass' = Idle
    /\ UNCHANGED <<cr, status, xref, proj, head, past>>

Tick ==
    /\ pass.age < FetchTime
    /\ status' = [status EXCEPT !.age = Aged(@)]
    /\ proj' = [proj EXCEPT !.age = IF proj.exists THEN Older(@) ELSE @]
    /\ past' = [r \in Revs |-> IF r = head THEN 0 ELSE Older(past[r])]
    /\ pass' = [pass EXCEPT !.age = IF pass.pc \in {"idle", "fetch"} THEN @ ELSE @ + 1]
    /\ UNCHANGED <<cr, xref, file, lost, head, moves>>

World ==
    \/ EditSpec \/ Annotate \/ Delete \/ Recreate \/ SetForceRefresh
    \/ UpstreamMoves \/ Restart \/ VolumeReplaced

-----------------------------------------------------------------------------
(* The content service *)

vars == <<refVars, rd>>

NoRequest == [pc |-> "idle", age |-> 0, body |-> NoFile]

Init == RefInit /\ rd = NoRequest

\* Gate 6: the row, or 404.
resolveContent ==
    /\ rd.pc = "idle"
    /\ proj.exists
    /\ rd' = [NoRequest EXCEPT !.pc = "resolved", !.age = proj.age]
    /\ UNCHANGED refVars

\* The mutated form: one missed refresh is forgiven.
StaleAfterGrace(age) == age > MaxStale + Interval

\* Gate 7: 503 when the copy was last confirmed too long ago.
checkStaleness(age) == age > MaxStale

\* Gates 7 and 8: a refusal, or the file opened, its inode pinned until the
\* last byte is sent.
open ==
    /\ rd.pc = "resolved"
    /\ rd' = IF checkStaleness(rd.age) \/ file = NoFile
               THEN NoRequest
               ELSE [NoRequest EXCEPT !.pc = "streaming", !.body = file]
    /\ UNCHANGED refVars

streamed ==
    /\ rd.pc = "streaming"
    /\ rd' = NoRequest
    /\ UNCHANGED refVars

Request == resolveContent \/ open \/ streamed

TimePasses ==
    /\ Tick
    /\ rd' = [rd EXCEPT !.age = IF rd.pc = "resolved" THEN Older(@) ELSE @]

Next ==
    \/ (PassStep \/ World) /\ UNCHANGED rd
    \/ TimePasses
    \/ Request

Spec == Init /\ [][Next]_vars

-----------------------------------------------------------------------------
(* Properties *)

TypeOK ==
    /\ cr \in [state : {"live", "deleting", "absent"}, fin : BOOLEAN,
               gen : 1..(2 * MaxMoves + 1), spec : Specs, annot : BOOLEAN]
    /\ status \in [obs : 0..(2 * MaxMoves + 1), age : 0..Never]
    /\ xref \in [exists : BOOLEAN, rev : 0..MaxRev, force : BOOLEAN]
    /\ proj \in [exists : BOOLEAN, age : 0..Cap]
    /\ file \in Content
    /\ lost \in BOOLEAN
    /\ head \in Revs
    /\ past \in [Revs -> 0..Cap]
    /\ pass \in [pc : {"idle", "fetch", "rename", "upsert", "failed", "publish", "clear",
                       "deleteRef", "deleteRow", "finalize"},
                 gen : 0..(2 * MaxMoves + 1), spec : Specs, annot : BOOLEAN, stale : BOOLEAN,
                 prior : 0..MaxRev, body : Content, age : 0..FetchTime]
    /\ moves \in 0..MaxMoves
    /\ rd \in [pc : {"idle", "resolved", "streaming"}, age : 0..Cap, body : Content]

\* checkStaleness and maxStaleness: a download carries a revision that was the
\* upstream's no longer than maxStaleness, and the length of one pass, before
\* it was opened. A NotModified answer, a pass that failed half-way and the
\* rename that precedes the row must all keep the row's stamp true of the file.
ServedRevisionRecent ==
    [][rd'.pc = "streaming" /\ rd.pc # "streaming"
         => past[rd'.body.rev] <= MaxStale + FetchTime]_vars

\* materializeExternalRef renames before it writes the row ("Crash safety"):
\* the row never records a revision the published file does not have yet, so
\* the conditional fetch cannot skip a revision. Only a replaced volume breaks
\* the tie.
RowNeverAheadOfFile ==
    cr.state = "live" /\ ~ lost => xref.rev <= file.rev

\* reconcileDeletion ("external_refs row counts match live CRs"): a resource
\* that is gone left no file, no row and nothing a recreated resource of the
\* same name could inherit, whatever failed on the way.
NothingLeftBehind ==
    cr.state = "absent" =>
        file = NoFile /\ xref = NoRef /\ proj = NoProj /\ status = NoStatus /\ pass.pc = "idle"

\* The interval, the force-refresh annotation and the conditional fetch: a
\* published file has the upstream's revision (in the end, once the upstream and
\* the failures leave the passes alone).
Landed == cr.state = "live" /\ file # NoFile => file.rev = head

\* ResetExternalRefRefreshOnEmptyCache, "so every reconciler reissues the
\* upstream fetch on first reconcile": a file lost with its volume comes back.
LostFileComesBack ==
    (cr.state = "live" /\ lost) ~> (cr.state # "live" \/ file # NoFile)

\* reconcileExternalRefCR, "Clear PriorRev on a generation change to force a
\* full re-fetch": a change of spec.path replaces the published file.
SpecChangeLands ==
    (cr.state = "live" /\ file # NoFile /\ file.spec # cr.spec)
        ~> (cr.state # "live" \/ file = NoFile \/ file.spec = cr.spec)
=============================================================================
