---------------------------- MODULE Marketplace ----------------------------
(***************************************************************************)
(* How the operator mirrors one PluginMarketplace or SkillMarketplace: the  *)
(* catalog it reads (stage 1), one cached archive and one row per entry     *)
(* (stage 2), the sweep of the entries that left the catalog (stage 3), the *)
(* status, and the deletion of the resource.                                *)
(*                                                                          *)
(* One pass at a time runs for a resource. Between its steps the upstream   *)
(* moves, users edit, annotate, delete and recreate the resource, an        *)
(* administrator asks for a refresh, calls fail, the operator dies and the  *)
(* volume is lost.                                                          *)
(***************************************************************************)
EXTENDS Naturals, Sequences, SequencesExt

CONSTANTS
    Names,      \* the entries' names
    Fold(_),    \* the lower-cased name, by which duplicates are found
    Catalogs,   \* per upstream revision: a sequence of entries, or None
    Filters,    \* the values of spec.filters, [include, exclude : SUBSET Names]
    Kinds,      \* the kinds of marketplace explored
    MaxMoves,   \* bound: moves of the world, failed calls included
    None

VARIABLES
    kind,    \* "plugin" or "skill"
    cr,      \* the custom resource
    status,  \* obs: observedGeneration; fresh: the interval since lastSuccessfulRefresh runs
    mrow,    \* the marketplace's own row: the Synced condition, or None
    rows,    \* per name, the upstream_rev of its row, 0 without one
    files,   \* per name, the revision of its archive, 0 without one
    force,   \* the rows marked for a refresh after lastSuccessfulRefresh
    head,    \* the upstream's revision
    gone,    \* history: names left out, since their row was written, by a catalog under the
             \* filters of the resource or of the running pass
    lost,    \* history: names whose archive went with the volume
    pass,    \* the running pass and its local variables
    moves

vars == <<kind, cr, status, mrow, rows, files, force, head, gone, lost, pass, moves>>

Revs == 1..Len(Catalogs)
Entry == [name : Names, src : {"own", "pin", "bad", ""}]
Idle == [pc |-> "idle", gen |-> 0, spec |-> None, annot |-> FALSE, stale |-> FALSE,
         rev |-> 0, list |-> << >>, todo |-> << >>, body |-> 0, failed |-> {}, sweep |-> {}]

-----------------------------------------------------------------------------
(* Stage 1, the pure part: what a revision of the upstream asks for. An     *)
(* entry's source is a path of the marketplace's own repository ("own"), a  *)
(* pinned commit elsewhere ("pin"), something whose archive is refused      *)
(* ("bad"), or a source of no supported kind ("").                          *)

\* The catalog cannot be read: no or malformed marketplace.json, no plugins
\* in it; an archive that is no tar, or is too large.
ParseFails(k, rev) == Catalogs[rev] = None \/ (k = "plugin" /\ Catalogs[rev] = << >>)

\* A skill is a directory with a valid SKILL.md; one that has none is not there.
DiscoverSkillsInTree(rev) == SelectSeq(Catalogs[rev], LAMBDA e : e.src # "")

applyFilters(list, f) ==
    SelectSeq(list, LAMBDA e : (f.include = {} \/ e.name \in f.include) /\ e.name \notin f.exclude)

includeMatched(list, f) ==
    f.include = {} \/ \E i \in DOMAIN list : list[i].name \in f.include

\* The first of the entries with one folded name stays.
Dedup(list) ==
    LET First(i) == \A j \in 1..(i - 1) : Fold(list[j].name) # Fold(list[i].name)
    IN  FoldLeftDomain(LAMBDA out, i : IF First(i) THEN Append(out, list[i]) ELSE out, << >>, list)

Stage1Fails(k, rev, f) ==
    IF ParseFails(k, rev) THEN TRUE ELSE k = "plugin" /\ ~ includeMatched(Catalogs[rev], f)

Listed(k, rev, f) ==
    IF k = "plugin" THEN Dedup(applyFilters(Catalogs[rev], f)) ELSE DiscoverSkillsInTree(rev)

NamesOf(list) == {list[i].name : i \in DOMAIN list}

\* The names a readable catalog does not list.
Unlisted(rev, f) ==
    IF Stage1Fails(kind, rev, f) THEN {} ELSE Names \ NamesOf(Listed(kind, rev, f))

Init ==
    /\ kind \in Kinds
    /\ head \in Revs
    /\ \E f \in Filters :
           /\ cr = [state |-> "live", fin |-> FALSE, gen |-> 1, spec |-> f, annot |-> FALSE]
           /\ gone = Unlisted(head, f)
    /\ status = [obs |-> 0, fresh |-> FALSE]
    /\ mrow = None
    /\ rows = [n \in Names |-> 0]
    /\ files = [n \in Names |-> 0]
    /\ force = {}
    /\ lost = {}
    /\ pass = Idle
    /\ moves = 0

\* A call of the pass fails, or the world moves.
Move == moves < MaxMoves /\ moves' = moves + 1
GiveUp == Move /\ pass' = Idle

-----------------------------------------------------------------------------
(* A refresh *)

AddFinalizer ==
    /\ pass.pc = "idle" /\ cr.state = "live" /\ ~ cr.fin
    /\ cr' = [cr EXCEPT !.fin = TRUE]
    /\ UNCHANGED <<kind, status, mrow, rows, files, force, head, gone, lost, pass, moves>>

\* As if the interval were not part of it.
GatedForever == status.obs = cr.gen /\ ~ cr.annot /\ force = {}

\* The gate: MaxMarketplaceForceRefresh is the youngest marker of any row.
Gated == status.fresh /\ status.obs = cr.gen /\ ~ cr.annot /\ force = {}

Begin ==
    /\ pass.pc = "idle" /\ cr.state = "live" /\ cr.fin
    /\ ~ Gated
    /\ pass' = [Idle EXCEPT !.pc = "stage 1", !.gen = cr.gen, !.spec = cr.spec, !.annot = cr.annot]
    /\ UNCHANGED <<kind, cr, status, mrow, rows, files, force, head, gone, lost, moves>>

\* The secret, the fetch, the catalog in the archive, the filters. Whatever
\* fails leaves every row and every archive as it is.
Stage1 ==
    /\ pass.pc = "stage 1"
    /\ \/ /\ ~ Stage1Fails(kind, head, pass.spec)
          /\ LET list == Listed(kind, head, pass.spec)
             IN  pass' = [pass EXCEPT !.pc = "stage 2", !.rev = head, !.list = list, !.todo = list]
          /\ UNCHANGED moves
       \/ /\ Stage1Fails(kind, head, pass.spec)
          /\ pass' = [pass EXCEPT !.pc = "failed"]
          /\ UNCHANGED moves
       \/ Move /\ pass' = [pass EXCEPT !.pc = "failed"]
       \/ GiveUp
    /\ UNCHANGED <<kind, cr, status, mrow, rows, files, force, head, lost>>
    /\ gone' = gone \cup Unlisted(head, pass.spec)

\* markSyncedFalse: the status, then the marketplace's row.
markSyncedFalse ==
    /\ pass.pc = "failed"
    /\ \/ status' = [status EXCEPT !.obs = pass.gen] /\ mrow' = "False" /\ UNCHANGED moves
       \/ Move /\ status' = [status EXCEPT !.obs = pass.gen] /\ UNCHANGED mrow
       \/ Move /\ UNCHANGED <<status, mrow>>
    /\ pass' = Idle
    /\ UNCHANGED <<kind, cr, rows, files, force, head, gone, lost>>

\* An entry that fails is skipped; what it had before stays.
SkipEntry ==
    pass' = [pass EXCEPT !.pc = "stage 2", !.todo = Tail(@), !.body = 0,
                         !.failed = @ \cup {Head(pass.todo).name}]

\* dispatchMarketplacePlugin: a path of the marketplace's own repository is
\* resolved anew for each entry, a pinned commit is what it was.
dispatchMarketplacePlugin(e) == IF e.src = "own" THEN head ELSE 1

\* As if each skill were fetched again.
SliceAtHead(e) == head

\* SliceSkillSubtree: every skill comes out of the one archive stage 1 read.
SliceSkillSubtree(e) == pass.rev

Fetched(e) == IF kind = "plugin" THEN dispatchMarketplacePlugin(e) ELSE SliceSkillSubtree(e)

\* A source git can clone, and an archive that passes the checks below.
Verified(e) == e.src \notin {"", "bad"}

\* Fetch, size cap, staging, VerifyPluginContents or VerifySkillContents.
Materialize ==
    /\ pass.pc = "stage 2" /\ pass.todo # << >>
    /\ LET e == Head(pass.todo)
       IN  \/ /\ Verified(e)
              /\ pass' = [pass EXCEPT !.pc = "rename", !.body = Fetched(e)]
              /\ UNCHANGED moves
           \/ ~ Verified(e) /\ SkipEntry /\ UNCHANGED moves
           \/ Move /\ SkipEntry
    /\ UNCHANGED <<kind, cr, status, mrow, rows, files, force, head, gone, lost>>

Rename ==
    /\ pass.pc = "rename"
    /\ LET n == Head(pass.todo).name
       IN  \/ /\ files' = [files EXCEPT ![n] = pass.body]
              /\ lost' = lost \ {n}
              /\ pass' = [pass EXCEPT !.pc = "upsert"]
              /\ UNCHANGED moves
           \/ Move /\ SkipEntry /\ UNCHANGED <<files, lost>>
    /\ UNCHANGED <<kind, cr, status, mrow, rows, force, head, gone>>

\* The row takes the revision and loses its own marker only.
UpsertRow ==
    /\ pass.pc = "upsert"
    /\ LET n == Head(pass.todo).name
       IN  \/ /\ rows' = [rows EXCEPT ![n] = pass.body]
              /\ force' = force \ {n}
              /\ gone' = (gone \ {n}) \cup Unlisted(head, cr.spec)
              /\ pass' = [pass EXCEPT !.pc = "stage 2", !.todo = Tail(@), !.body = 0]
              /\ UNCHANGED moves
           \/ Move /\ SkipEntry /\ UNCHANGED <<rows, force, gone>>
    /\ UNCHANGED <<kind, cr, status, mrow, files, head, lost>>

\* As if an entry that failed counted as one that left the catalog.
VanishedOrFailed == {n \in Names : rows[n] # 0 /\ n \notin NamesOf(pass.list) \ pass.failed}

\* The rows whose name the pass's catalog does not list.
Vanished == {n \in Names : rows[n] # 0 /\ n \notin NamesOf(pass.list)}

ListRows ==
    /\ pass.pc = "stage 2" /\ pass.todo = << >>
    /\ \/ /\ pass' = IF Vanished = {} THEN [pass EXCEPT !.pc = "status"]
                                      ELSE [pass EXCEPT !.pc = "remove", !.sweep = Vanished]
          /\ UNCHANGED moves
       \/ GiveUp
    /\ UNCHANGED <<kind, cr, status, mrow, rows, files, force, head, gone, lost>>

\* A failure here ends the pass with an error: no status is written.
RemoveFile ==
    /\ pass.pc = "remove"
    /\ \/ \E n \in pass.sweep :
              /\ files' = [files EXCEPT ![n] = 0]
              /\ pass' = [pass EXCEPT !.pc = "delete", !.todo = <<[name |-> n, src |-> ""]>>]
              /\ UNCHANGED moves
       \/ GiveUp /\ UNCHANGED files
    /\ UNCHANGED <<kind, cr, status, mrow, rows, force, head, gone, lost>>

DeleteRow ==
    /\ pass.pc = "delete"
    /\ LET n == Head(pass.todo).name
           rest == pass.sweep \ {n}
       IN  \/ /\ rows' = [rows EXCEPT ![n] = 0]
              /\ force' = force \ {n}
              /\ pass' = [pass EXCEPT !.pc = IF rest = {} THEN "status" ELSE "remove",
                                      !.todo = << >>, !.sweep = rest]
              /\ UNCHANGED moves
           \/ GiveUp /\ UNCHANGED <<rows, force>>
    /\ UNCHANGED <<kind, cr, status, mrow, files, head, gone, lost>>

\* markSyncedTrue: the status, which renews the pass's resource version and
\* ages every marker set so far, then the marketplace's row.
markSyncedTrue ==
    /\ pass.pc = "status"
    /\ \/ /\ status' = [obs |-> pass.gen, fresh |-> TRUE]
          /\ force' = {}
          /\ \/ /\ mrow' = "True"
                /\ pass' = IF pass.annot THEN [pass EXCEPT !.pc = "clear", !.stale = FALSE] ELSE Idle
                /\ UNCHANGED moves
             \/ GiveUp /\ UNCHANGED mrow
       \/ GiveUp /\ UNCHANGED <<status, force, mrow>>
    /\ UNCHANGED <<kind, cr, rows, files, head, gone, lost>>

\* The annotation is removed by writing the pass's whole copy of the resource.
ClearAnnotation ==
    /\ pass.pc = "clear"
    /\ \/ /\ cr' = IF pass.stale THEN cr
                   ELSE [cr EXCEPT !.annot = FALSE, !.spec = pass.spec,
                                   !.gen = IF cr.spec = pass.spec THEN @ ELSE @ + 1]
          /\ gone' = gone \cup Unlisted(head, cr'.spec)
          /\ UNCHANGED moves
       \/ Move /\ UNCHANGED <<cr, gone>>
    /\ pass' = Idle
    /\ UNCHANGED <<kind, status, mrow, rows, files, force, head, lost>>

-----------------------------------------------------------------------------
(* Deletion: the subtree, each row, the marketplace's row, the finalizer.  *)

Deleting(pc) == cr.state = "deleting" /\ pass.pc = pc

RemoveSubtree ==
    /\ Deleting("idle") /\ cr.fin
    /\ \/ files' = [n \in Names |-> 0] /\ pass' = [Idle EXCEPT !.pc = "delete rows"] /\ UNCHANGED moves
       \/ GiveUp /\ UNCHANGED files
    /\ UNCHANGED <<kind, cr, status, mrow, rows, force, head, gone, lost>>

reconcileDelete ==
    /\ Deleting("delete rows")
    /\ \/ \E n \in Names :
              /\ rows[n] # 0
              /\ rows' = [rows EXCEPT ![n] = 0]
              /\ force' = force \ {n}
              /\ UNCHANGED <<pass, moves>>
       \/ /\ \A n \in Names : rows[n] = 0
          /\ pass' = [pass EXCEPT !.pc = "delete marketplace"]
          /\ UNCHANGED <<rows, force, moves>>
       \/ GiveUp /\ UNCHANGED <<rows, force>>
    /\ UNCHANGED <<kind, cr, status, mrow, files, head, gone, lost>>

\* As if an error of the delete were only logged.
DeleteMarketplaceUnchecked ==
    /\ Deleting("delete marketplace")
    /\ \/ mrow' = None /\ UNCHANGED moves
       \/ Move /\ UNCHANGED mrow
    /\ pass' = [pass EXCEPT !.pc = "finalize"]
    /\ UNCHANGED <<kind, cr, status, rows, files, force, head, gone, lost>>

DeleteMarketplace ==
    /\ Deleting("delete marketplace")
    /\ \/ mrow' = None /\ pass' = [pass EXCEPT !.pc = "finalize"] /\ UNCHANGED moves
       \/ GiveUp /\ UNCHANGED mrow
    /\ UNCHANGED <<kind, cr, status, rows, files, force, head, gone, lost>>

RemoveFinalizer ==
    /\ Deleting("finalize")
    /\ \/ /\ cr' = [cr EXCEPT !.state = "absent", !.fin = FALSE, !.annot = FALSE]
          /\ status' = [obs |-> 0, fresh |-> FALSE]
          /\ lost' = {}
          /\ UNCHANGED moves
       \/ Move /\ UNCHANGED <<cr, status, lost>>
    /\ pass' = Idle
    /\ UNCHANGED <<kind, mrow, rows, files, force, head, gone>>

PassStep ==
    \/ AddFinalizer \/ Begin \/ Stage1 \/ markSyncedFalse
    \/ Materialize \/ Rename \/ UpsertRow
    \/ ListRows \/ RemoveFile \/ DeleteRow
    \/ markSyncedTrue \/ ClearAnnotation
    \/ RemoveSubtree \/ reconcileDelete \/ DeleteMarketplace \/ RemoveFinalizer

-----------------------------------------------------------------------------
(* The world *)

Outdated == pass' = [pass EXCEPT !.stale = pass.pc # "idle"]

EditSpec ==
    /\ Move /\ cr.state = "live"
    /\ \E f \in Filters \ {cr.spec} :
           /\ cr' = [cr EXCEPT !.spec = f, !.gen = @ + 1]
           /\ gone' = gone \cup Unlisted(head, f)
    /\ Outdated
    /\ UNCHANGED <<kind, status, mrow, rows, files, force, head, lost>>

Annotate ==
    /\ Move /\ cr.state = "live" /\ ~ cr.annot
    /\ cr' = [cr EXCEPT !.annot = TRUE]
    /\ Outdated
    /\ UNCHANGED <<kind, status, mrow, rows, files, force, head, gone, lost>>

Delete ==
    /\ Move /\ cr.state = "live" /\ cr.fin
    /\ cr' = [cr EXCEPT !.state = "deleting"]
    /\ Outdated
    /\ UNCHANGED <<kind, status, mrow, rows, files, force, head, gone, lost>>

Recreate ==
    /\ Move /\ cr.state = "absent"
    /\ cr' = [cr EXCEPT !.state = "live", !.gen = 1]
    /\ UNCHANGED <<kind, status, mrow, rows, files, force, head, gone, lost, pass>>

\* The admin API marks every row of the marketplace, if there is one.
SetForceRefresh ==
    /\ Move
    /\ force # {n \in Names : rows[n] # 0}
    /\ force' = {n \in Names : rows[n] # 0}
    /\ UNCHANGED <<kind, cr, status, mrow, rows, files, head, gone, lost, pass>>

UpstreamMoves ==
    /\ Move /\ head < Len(Catalogs)
    /\ head' = head + 1
    /\ gone' = gone \cup Unlisted(head + 1, cr.spec)
    /\ UNCHANGED <<kind, cr, status, mrow, rows, files, force, lost, pass>>

Restart ==
    /\ Move /\ pass.pc # "idle"
    /\ pass' = Idle
    /\ UNCHANGED <<kind, cr, status, mrow, rows, files, force, head, gone, lost>>

\* The operator starts on an empty volume: the column it resets is read by no
\* decision of the pass.
VolumeReplaced ==
    /\ Move /\ \E n \in Names : files[n] # 0
    /\ lost' = lost \cup {n \in Names : files[n] # 0}
    /\ files' = [n \in Names |-> 0]
    /\ pass' = Idle
    /\ UNCHANGED <<kind, cr, status, mrow, rows, force, head, gone>>

\* The interval since the last success ends; the work queue runs the pass.
IntervalEnds ==
    /\ status.fresh
    /\ status' = [status EXCEPT !.fresh = FALSE]
    /\ UNCHANGED <<kind, cr, mrow, rows, files, force, head, gone, lost, pass, moves>>

World ==
    \/ EditSpec \/ Annotate \/ Delete \/ Recreate \/ SetForceRefresh
    \/ UpstreamMoves \/ Restart \/ VolumeReplaced

Next == PassStep \/ World \/ IntervalEnds

Spec == Init /\ [][Next]_vars

-----------------------------------------------------------------------------
TypeOK ==
    /\ kind \in Kinds
    /\ cr \in [state : {"live", "deleting", "absent"}, fin : BOOLEAN, gen : Nat \ {0},
               spec : Filters, annot : BOOLEAN]
    /\ status \in [obs : Nat, fresh : BOOLEAN]
    /\ mrow \in {"True", "False", None}
    /\ rows \in [Names -> 0..Len(Catalogs)]
    /\ files \in [Names -> 0..Len(Catalogs)]
    /\ force \subseteq {n \in Names : rows[n] # 0}
    /\ head \in Revs
    /\ gone \subseteq Names /\ lost \subseteq Names
    /\ pass.pc \in {"idle", "stage 1", "failed", "stage 2", "rename", "upsert", "remove", "delete",
                    "status", "clear", "delete rows", "delete marketplace", "finalize"}
    /\ pass.pc \in {"rename", "upsert"} => pass.body \in Revs
    /\ pass.todo \in Seq(Entry)
    /\ moves \in 0..MaxMoves

\* Stage 1 fails closed and stage 2 keeps what it had: an entry loses its row
\* only if a readable catalog, at some time since the row was written, did not
\* list it (or the marketplace is deleted). A catalog that cannot be read, a
\* filter that matches nothing and an entry that fails to download drop nothing.
ListedIsKept ==
    \A n \in Names : rows[n] # 0 /\ rows'[n] = 0 => n \in gone \/ cr.state = "deleting"

\* The archive is renamed into place before its row is written, and removed
\* before it: a row without its archive belongs to an entry on its way out, or
\* to a volume that was lost, whatever step the operator died at.
RowHasArchive ==
    \A n \in Names :
        rows[n] # 0 /\ files[n] = 0 => n \in gone \cup lost \/ cr.state = "deleting"

\* The skills of one marketplace are served from one commit: when a pass that
\* skipped nothing reports success, every row has the revision of its catalog.
SkillsOfOneRevision ==
    markSyncedTrue /\ kind = "skill" /\ pass.failed = {} =>
        \A n \in Names : rows[n] # 0 => rows[n] = pass.rev

\* The finalizer goes last: a deleted marketplace leaves no archive and no row.
NothingLeftBehind ==
    cr.state = "absent" => mrow = None /\ \A n \in Names : rows[n] = 0 /\ files[n] = 0

\* The mirror is right for the current catalog.
Mirrored ==
    LET list == Listed(kind, head, cr.spec)
    IN  /\ \A n \in Names \ NamesOf(list) : rows[n] = 0
        /\ \A i \in DOMAIN list :
               Verified(list[i]) =>
                   LET n == list[i].name
                       rev == IF kind = "plugin" /\ list[i].src = "pin" THEN 1 ELSE head
                   IN  rows[n] = rev /\ files[n] = rev
        /\ mrow = "True"

\* Whatever was interrupted or lost is made good: the rows and the archives are
\* those of the current catalog (in the end, once the world is quiet).
MirrorCurrent ==
    cr.state = "live" /\ ~ Stage1Fails(kind, head, cr.spec) => Mirrored
=============================================================================
