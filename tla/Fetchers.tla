----------------------------- MODULE Fetchers -----------------------------
(***************************************************************************)
(* The source fetchers the operator's passes call with the revision of     *)
(* their last success (PriorRev): git (ls-remote, clone, fetch and checkout *)
(* of the resolved commit), S3 (HeadObject, GetObject), GCS (Attrs,         *)
(* NewReader) and HTTP (one conditional GET). The upstream may be rewritten *)
(* between any two of a fetch's calls, also back to an earlier content, and *)
(* any call may fail.                                                       *)
(***************************************************************************)
EXTENDS Naturals

CONSTANTS
    Kinds,     \* the source types explored, of {"git", "s3", "gcs", "http", "httpPlain"}
    Contents,  \* what the branch, object or page may hold
    MaxMoves,  \* bound: rewrites of the upstream
    MaxFails,  \* bound: failed calls
    None

VARIABLES
    kind,      \* spec.type; "httpPlain" is a server that sends no validators
    up,        \* the upstream: its content (None: absent) and how often it was written
    pc,        \* the fetch's next call
    prior,     \* req.PriorRev
    rev,       \* the revision this fetch resolved
    clone,     \* the temporary clone's working tree, None when there is no clone
    body,      \* the open body, None when there is none
    kept,      \* what the pass recorded on success: revision and content
    torn,      \* history: the upstream was rewritten between the probe and the
               \* body of the fetch that was kept, and the source is S3
    moves, fails

vars == <<kind, up, pc, prior, rev, clone, body, kept, torn, moves, fails>>

Calls == {"idle", "dispatch", "clone", "fetchSHA", "checkout", "tar", "get", "reader", "stage"}

Nothing == [rev |-> None, content |-> None]

\* UpstreamRev of a content written as the n-th. A commit's SHA and an S3
\* ETag follow from the content, a GCS generation never comes back, and a
\* page without ETag and Last-Modified has the revision "|".
RevOf(k, c, n) ==
    CASE k = "gcs" -> <<"generation", n>>
      [] k = "httpPlain" -> <<"|">>
      [] OTHER -> <<"hash", c>>

TypeOK ==
    /\ kind \in Kinds
    /\ up.content \in Contents \cup {None} /\ up.gen \in 0..MaxMoves
    /\ pc \in Calls
    /\ clone \in Contents \cup {None}
    /\ body \in Contents \cup {None}
    /\ kept.content \in Contents \cup {None}
    /\ torn \in BOOLEAN /\ moves \in 0..MaxMoves /\ fails \in 0..MaxFails

Init ==
    /\ kind \in Kinds
    /\ up \in [content : Contents, gen : {0}]
    /\ pc = "idle" /\ prior = None /\ rev = None
    /\ clone = None /\ body = None /\ kept = Nothing /\ torn = FALSE
    /\ moves = 0 /\ fails = 0

----------------------------------------------------------------------------
\* The driver hands over the recorded revision, or none after a spec change.
Begin(p) ==
    /\ pc = "idle"
    /\ p \in {None, kept.rev}
    /\ pc' = "dispatch" /\ prior' = p
    /\ UNCHANGED <<kind, up, rev, clone, body, kept, torn, moves, fails>>

\* NotModified: no body, the recorded revision and content stay.
NotModified ==
    /\ pc' = "idle"
    /\ UNCHANGED <<kind, up, prior, rev, clone, body, kept, torn, moves, fails>>

\* The probe's answer: an equal revision ends the fetch.
Resolved(r, next) ==
    IF prior # None /\ prior = r THEN NotModified
    ELSE /\ rev' = r
         /\ pc' = next
         /\ UNCHANGED <<kind, up, prior, clone, body, kept, torn, moves, fails>>

\* FetchViaProvider: LsRemote resolves spec.ref, a branch before a tag.
LsRemote ==
    /\ pc = "dispatch" /\ kind = "git"
    /\ up.content # None
    /\ Resolved(RevOf(kind, up.content, up.gen), "clone")

\* git clone --depth=1 --branch=<ref>: whatever the ref holds now.
GitClone ==
    /\ pc = "clone"
    /\ up.content # None
    /\ clone' = up.content /\ pc' = "fetchSHA"
    /\ UNCHANGED <<kind, up, prior, rev, body, kept, torn, moves, fails>>

\* git fetch origin <sha>: the server still has the commit, reachable or not.
GitFetchSHA ==
    /\ pc = "fetchSHA"
    /\ pc' = "checkout"
    /\ UNCHANGED <<kind, up, prior, rev, clone, body, kept, torn, moves, fails>>

GitCheckoutHead ==  \* As if the branch were used as cloned.
    /\ pc = "checkout"
    /\ pc' = "tar"
    /\ UNCHANGED <<kind, up, prior, rev, clone, body, kept, torn, moves, fails>>

\* git checkout --detach <sha>.
GitCheckout ==
    /\ pc = "checkout"
    /\ clone' = rev[2] /\ pc' = "tar"
    /\ UNCHANGED <<kind, up, prior, rev, body, kept, torn, moves, fails>>

\* tarSubtree: the working tree or the subtree as a tar, a single file raw.
GitTar ==
    /\ pc = "tar"
    /\ body' = clone /\ pc' = "stage"
    /\ UNCHANGED <<kind, up, prior, rev, clone, kept, torn, moves, fails>>

\* Fetch of S3: HeadObject for the ETag.
HeadObject ==
    /\ pc = "dispatch" /\ kind = "s3"
    /\ up.content # None
    /\ Resolved(RevOf(kind, up.content, up.gen), "get")

GetObjectConditional ==  \* As if GetObject sent the ETag just read as If-None-Match.
    /\ pc = "get"
    /\ up.content # None
    /\ IF rev = RevOf(kind, up.content, up.gen) THEN NotModified
       ELSE /\ body' = up.content /\ pc' = "stage"
            /\ UNCHANGED <<kind, up, prior, rev, clone, kept, torn, moves, fails>>

\* GetObject, without a condition.
GetObject ==
    /\ pc = "get"
    /\ up.content # None
    /\ body' = up.content /\ pc' = "stage"
    /\ UNCHANGED <<kind, up, prior, rev, clone, kept, torn, moves, fails>>

AttrsOfContent ==  \* As if the object's hash were the revision.
    /\ pc = "dispatch" /\ kind = "gcs"
    /\ up.content # None
    /\ Resolved(RevOf("s3", up.content, up.gen), "reader")

\* Fetch of GCS: Attrs for the generation.
Attrs ==
    /\ pc = "dispatch" /\ kind = "gcs"
    /\ up.content # None
    /\ Resolved(RevOf(kind, up.content, up.gen), "reader")

\* NewReader is not pinned to the generation.
NewReader ==
    /\ pc = "reader"
    /\ up.content # None
    /\ body' = up.content /\ pc' = "stage"
    /\ UNCHANGED <<kind, up, prior, rev, clone, kept, torn, moves, fails>>

\* splitPriorRev: the revision "|" has two empty halves and sets no condition.
splitPriorRev(p) == IF p = RevOf("httpPlain", None, 0) THEN None ELSE p

\* Fetch of HTTP: 304 when the condition holds, else the page and its
\* validators in one response.
HttpGet ==
    LET r == RevOf(kind, up.content, up.gen) IN
    /\ pc = "dispatch" /\ kind \in {"http", "httpPlain"}
    /\ up.content # None
    /\ IF splitPriorRev(prior) # None /\ splitPriorRev(prior) = r THEN NotModified
       ELSE /\ rev' = r
            /\ body' = up.content /\ pc' = "stage"
            /\ UNCHANGED <<kind, up, prior, clone, kept, torn, moves, fails>>

\* Close: of a git body removes the clone, of a GCS body closes the client.
CloseLeaving == clone  \* As if closing the body left the clone.
Close == None

\* The pass staged and published the body, and recorded both.
Staged ==
    /\ pc = "stage"
    /\ kept' = [rev |-> rev, content |-> body]
    /\ torn' = (kind = "s3" /\ rev # RevOf(kind, body, 0))
    /\ clone' = Close /\ body' = None /\ pc' = "idle"
    /\ UNCHANGED <<kind, up, prior, rev, moves, fails>>

----------------------------------------------------------------------------
\* A failed call ends the fetch without a body; a clone in progress is removed.
Failed ==
    /\ up.content = None \/ fails < MaxFails
    /\ fails' = IF up.content = None THEN fails ELSE fails + 1
    /\ clone' = None /\ body' = None /\ pc' = "idle"
    /\ UNCHANGED <<kind, up, prior, rev, kept, torn, moves>>

\* The source is not configured: no fetcher for the type, a bad identifier, no
\* credential in the Secret.
Refused == pc = "dispatch" /\ Failed

\* Whatever git printed, the error is Unauthorized, NotFound, UpstreamInvalid
\* or Unreachable; a clone over its size cap and a subtree that is not there
\* are UpstreamInvalid.
GitFails == kind = "git" /\ pc \in {"dispatch", "clone", "fetchSHA", "checkout", "tar"} /\ Failed
S3Fails == kind = "s3" /\ pc \in {"dispatch", "get"} /\ Failed
GCSFails == kind = "gcs" /\ pc \in {"dispatch", "reader"} /\ Failed
HttpFails == kind \in {"http", "httpPlain"} /\ pc = "dispatch" /\ Failed

\* The body is over the pass's size cap or cannot be written.
StageFails ==
    /\ pc = "stage" /\ fails < MaxFails
    /\ fails' = fails + 1
    /\ clone' = Close /\ body' = None /\ pc' = "idle"
    /\ UNCHANGED <<kind, up, prior, rev, kept, torn, moves>>

\* The branch is pushed (or forced back), the object or page rewritten.
Rewrite(c) ==
    /\ moves < MaxMoves /\ c # up.content
    /\ moves' = moves + 1
    /\ up' = [content |-> c, gen |-> up.gen + 1]
    /\ UNCHANGED <<kind, pc, prior, rev, clone, body, kept, torn, fails>>

FetchStep ==
    \/ \E p \in {None, kept.rev} : Begin(p)
    \/ LsRemote \/ GitClone \/ GitFetchSHA \/ GitCheckout \/ GitTar
    \/ HeadObject \/ GetObject \/ Attrs \/ NewReader \/ HttpGet
    \/ Staged \/ StageFails
    \/ Refused \/ GitFails \/ S3Fails \/ GCSFails \/ HttpFails

Next == FetchStep \/ \E c \in Contents \cup {None} : Rewrite(c)

Spec == Init /\ [][Next]_vars

----------------------------------------------------------------------------
\* A fetch that ends with NotModified ends on a copy that is the upstream's
\* content. Excepted is a copy kept from an S3 object that was rewritten
\* between HeadObject and GetObject: its ETag comes back when the object is
\* restored.
NotModifiedIsCurrent ==
    pc = "dispatch" /\ pc' = "idle" /\ fails' = fails /\ up.content # None
      => kept.content = up.content \/ torn

\* The commit recorded for a git source is the one whose tree was kept,
\* whatever happened to the branch during the fetch.
GitPinned == kind = "git" /\ kept # Nothing => kept.rev = RevOf(kind, kept.content, 0)

\* No clone outlives its fetch, whichever call failed.
CloneRemoved == pc = "idle" => clone = None

\* The copy is the upstream's content (in the end, once the upstream is left
\* alone and the calls succeed), unless the upstream is gone or the copy is the
\* torn S3 one.
FetchCurrent == up.content \in {None, kept.content} \/ torn

============================================================================
