--------------------------- MODULE OperatorReads ---------------------------
(***************************************************************************)
(* How the operator reads LiteLLM.  Every call goes through                *)
(* connection.Client, which picks the REST client published by the latest  *)
(* LiteLLMConnection probe; a REST client caches the bodies of its GETs    *)
(* for a few seconds and drops them when one of its writes returns.  Two   *)
(* users share it: the Snapshotter, which lists LiteLLM's catalogs on a    *)
(* timer, publishes them and projects them into runtime_catalog_entries,   *)
(* and an Environment reconcile, which repairs the team mirror and then    *)
(* reads the teams back to see whether the repair took.                    *)
(*                                                                         *)
(* A path's content is its history of name sets: a body is an index into   *)
(* it, and gone[p][i] the ticks since version i stopped being the current  *)
(* one (0 while it is), capped.                                            *)
(***************************************************************************)
EXTENDS Integers, Sequences, FiniteSets

CONSTANTS Names,       \* guardrail names
          Routes,      \* paths this LiteLLM serves; any other is a 404
          TTL,         \* operatorReadCacheTTL, in ticks
          CallTime,    \* most ticks one refresh or one repair takes
          Interval,    \* the Snapshotter's refresh interval, in ticks
          MaxClients, MaxWrites,   \* bounds
          MaxMoves,    \* bound: failing calls, and edits of LiteLLM by others
          None

VARIABLES hist, gone,    \* LiteLLM: the versions of each path's body
          cur, cache,    \* connection.Cache and the clients' read caches
          snap,          \* the Snapshotter's goroutine
          view,          \* the LiteLLMSnapshot it publishes
          rows,          \* runtime_catalog_entries: name -> status
          rec,           \* the Environment reconcile's repair
          floor,         \* per client: the teams' version current when its last
                         \* write returned (history, read by no action)
          fails, edits

vars == <<hist, gone, cur, cache, snap, view, rows, rec, floor, fails, edits>>

Teams == "/v2/team/list"

\* The lists one refresh reads, in order; the two guardrail endpoints are one
\* ListGuardrails call.
Lists == <<Teams, "/guardrails/list", "/v2/guardrails/list">>

Paths == {Lists[i] : i \in 1..Len(Lists)}

Guardrails == (Paths \cap Routes) \ {Teams}

Clients == 1..MaxClients

\* The oldest a body can be when it is used: read, cached, hit, used.
Bound == CallTime + (TTL - 1) + CallTime

Current(p) == Len(hist[p])

NoRead == [cl |-> 0, gen |-> 0, body |-> 0]

SnapIdle == [pc |-> "idle", i |-> 0, t |-> 0, err |-> FALSE, got |-> <<>>, read |-> NoRead,
             wait |-> 0, backoff |-> 1]

RecIdle == [pc |-> "idle", t |-> 0, wrote |-> 0, verify |-> None, read |-> NoRead]

EnableReadCache == [gen |-> 0, m |-> [p \in Paths |-> None]]

Init ==
  /\ hist = [p \in Paths |-> <<IF p = Teams THEN {} ELSE Names>>]
  /\ gone = [p \in Paths |-> <<0>>]
  /\ cur = [ready |-> FALSE, client |-> 0]
  /\ cache = [c \in Clients |-> EnableReadCache]
  /\ snap = SnapIdle
  /\ view = [names |-> None, stale |-> FALSE]
  /\ rows = [n \in Names |-> "none"]
  /\ rec = RecIdle
  /\ floor = [c \in Clients |-> 0]
  /\ fails = 0 /\ edits = 0

------------------------------------------------------------------------------
(* The read cache of one REST client.                                       *)

\* The body a GET finds cached, 0 when it has to ask.
get(c, p) == LET e == cache[c].m[p] IN IF e # None /\ e.age < TTL THEN e.body ELSE 0

\* As if a body were stored whatever was written since it was asked for.
putAnyGen(c, p, gen, b) == [cache EXCEPT ![c].m[p] = [body |-> b, age |-> 0]]

\* A body is stored only if no write of this client returned meanwhile.
put(c, p, gen, b) ==
  IF gen = cache[c].gen THEN [cache EXCEPT ![c].m[p] = [body |-> b, age |-> 0]] ELSE cache

\* Any write that returns, failed or not, empties the client's cache.
drop(c) == [cache EXCEPT ![c] = [gen |-> @.gen + 1, m |-> [p \in Paths |-> None]]]

\* connection.Client.current: the ready client, if there is one.
current == IF cur.ready THEN cur.client ELSE 0

\* What the server answers to a GET: its current version, or 0 for an error;
\* a route it does not have is a 404, -1.
Answers(p) == IF p \in Routes THEN {Current(p)} \cup (IF fails + edits < MaxMoves THEN {0} ELSE {})
                              ELSE {-1}

Fail(b) == fails' = IF b = 0 THEN fails + 1 ELSE fails

------------------------------------------------------------------------------
(* The connection: each successful probe publishes a fresh client.          *)

\* (A client no call still holds is garbage.)
Rebuild ==
  /\ cur.client < MaxClients
  /\ cur' = [ready |-> TRUE, client |-> cur.client + 1]
  /\ cache' = [c \in Clients |-> IF c \in {snap.read.cl, rec.read.cl} THEN cache[c] ELSE EnableReadCache]
  /\ UNCHANGED <<hist, gone, snap, view, rows, rec, floor, fails, edits>>

RebuildNotReady ==
  /\ cur.ready /\ cur.client < MaxClients
  /\ fails + edits < MaxMoves /\ fails' = fails + 1
  /\ cur' = [cur EXCEPT !.ready = FALSE]
  /\ UNCHANGED <<hist, gone, cache, snap, view, rows, rec, floor, edits>>

------------------------------------------------------------------------------
(* The Snapshotter.                                                         *)

Wake ==
  /\ snap.pc = "idle" /\ snap.wait = 0
  /\ snap' = [snap EXCEPT !.pc = "list", !.i = 1]
  /\ UNCHANGED <<hist, gone, cur, cache, view, rows, rec, floor, fails, edits>>

\* The next list, or the end of the refresh.
After(i) == IF i = Len(Lists) THEN "publish" ELSE "list"

Got(b) == [snap EXCEPT !.got = Append(@, b), !.pc = After(snap.i), !.i = snap.i + 1]

\* As if only the failing endpoint were left out of the union.
FailedPartly == Got(-1)

\* A list that fails fails the refresh, and the first guardrail endpoint's
\* failure ends ListGuardrails; the other lists are still read.
Failed == [snap EXCEPT !.err = TRUE, !.got = Append(@, -1),
                       !.pc = IF snap.i = 1 THEN "list" ELSE "publish", !.i = snap.i + 1]

\* makeRequest: a list call takes the current client (ListGuardrails once for
\* both endpoints) and returns a cached body when there is one.
List ==
  LET p == Lists[snap.i]
      c == IF snap.i = 3 THEN snap.read.cl ELSE current
  IN /\ snap.pc = "list"
     /\ snap' = IF c = 0 THEN Failed
                ELSE IF get(c, p) # 0
                     THEN [Got(get(c, p)) EXCEPT !.read = [NoRead EXCEPT !.cl = c]]
                     ELSE [snap EXCEPT !.pc = "wire", !.read = [cl |-> c, gen |-> cache[c].gen, body |-> 0]]
     /\ UNCHANGED <<hist, gone, cur, cache, view, rows, rec, floor, fails, edits>>

ListAnswered ==
  /\ snap.pc = "wire"
  /\ \E b \in Answers(Lists[snap.i]) :
       /\ snap' = [snap EXCEPT !.pc = "reply", !.read.body = b]
       /\ Fail(b)
  /\ UNCHANGED <<hist, gone, cur, cache, view, rows, rec, floor, edits>>

ListReturns ==
  LET r == snap.read
  IN /\ snap.pc = "reply"
     /\ cache' = IF r.body > 0 THEN put(r.cl, Lists[snap.i], r.gen, r.body) ELSE cache
     /\ snap' = [IF r.body = 0 THEN Failed ELSE Got(r.body) EXCEPT !.read = [NoRead EXCEPT !.cl = r.cl]]
     /\ UNCHANGED <<hist, gone, cur, view, rows, rec, floor, fails, edits>>

\* guardrailsByName over the union of the endpoints that answered.
Union == UNION {hist[Lists[i]][snap.got[i]] : i \in {j \in 2..Len(snap.got) : snap.got[j] > 0}}

Lesser(a, b) == IF a < b THEN a ELSE b

\* Start's loop: the interval after a success, a doubling backoff after a
\* failure -- which starts over once it has reached the interval.
NextWait(ok) ==
  LET w == IF ok THEN Interval ELSE Lesser(snap.backoff, Interval)
  IN [SnapIdle EXCEPT !.wait = w,
                      !.backoff = IF w = Interval THEN 1 ELSE Lesser(2 * snap.backoff, Interval)]

Publish ==
  /\ snap.pc = "publish"
  /\ IF snap.err
     THEN /\ view' = [view EXCEPT !.stale = TRUE]
          /\ snap' = NextWait(FALSE)
     ELSE /\ view' = [names |-> Union, stale |-> FALSE]
          /\ snap' = [snap EXCEPT !.pc = "persist", !.got = <<>>, !.read = NoRead]
  /\ UNCHANGED <<hist, gone, cur, cache, rows, rec, floor, fails, edits>>

\* As if what LiteLLM no longer lists stayed as it was.
ReplaceRuntimeCatalogUpserts(names) ==
  [n \in Names |-> IF n \in names THEN "active" ELSE rows[n]]

\* One transaction: what was listed is active, what was active and was not
\* listed is missing.
ReplaceRuntimeCatalog(names) ==
  [n \in Names |-> IF n \in names THEN "active"
                   ELSE IF rows[n] = "active" THEN "missing" ELSE rows[n]]

Persist ==
  /\ snap.pc = "persist"
  /\ \/ rows' = ReplaceRuntimeCatalog(view.names) /\ UNCHANGED fails
     \/ fails + edits < MaxMoves /\ fails' = fails + 1 /\ UNCHANGED rows   \* logged, not retried
  /\ snap' = NextWait(TRUE)
  /\ UNCHANGED <<hist, gone, cur, cache, view, rec, floor, edits>>

------------------------------------------------------------------------------
(* The Environment reconcile: write, then read the teams back.              *)

RecDone(v) == [RecIdle EXCEPT !.wrote = rec.wrote, !.verify = v]

WriteStarts ==
  /\ rec.pc = "idle" /\ current # 0
  /\ rec.wrote < MaxWrites
  /\ rec' = [rec EXCEPT !.pc = "write", !.verify = None, !.read.cl = current]
  /\ UNCHANGED <<hist, gone, cur, cache, snap, view, rows, floor, fails, edits>>

\* LiteLLM's new version of a path.
Change(p, names) ==
  /\ hist' = [hist EXCEPT ![p] = Append(@, names)]
  /\ gone' = [gone EXCEPT ![p] = Append(@, 0)]

\* The PUT takes effect at LiteLLM; a failed one may have too.
WriteLands ==
  /\ rec.pc = "write" /\ rec.read.body = 0
  /\ \/ /\ Change(Teams, {})
        /\ rec' = [rec EXCEPT !.pc = "wrote", !.wrote = @ + 1, !.read.body = Current(Teams) + 1]
        /\ UNCHANGED fails
     \/ /\ fails + edits < MaxMoves /\ fails' = fails + 1
        /\ rec' = [rec EXCEPT !.pc = "wrote"]
        /\ \/ Change(Teams, {})
           \/ UNCHANGED <<hist, gone>>
  /\ UNCHANGED <<cur, cache, snap, view, rows, floor, edits>>

\* The answer is back: the cache is dropped, and a write that succeeded is
\* verified.
WriteReturns ==
  LET c == rec.read.cl
  IN /\ rec.pc = "wrote"
     /\ cache' = drop(c)
     /\ floor' = [floor EXCEPT ![c] = Current(Teams)]
     /\ rec' = IF rec.read.body = 0 THEN RecDone(None) ELSE [rec EXCEPT !.pc = "verify"]
     /\ UNCHANGED <<hist, gone, cur, snap, view, rows, fails, edits>>

\* mirrorRepairStep over the teams read back: drift if they predate the write.
Judge(b) == RecDone(IF b < rec.read.body THEN "drift" ELSE "converged")

Verify ==
  LET c == current
  IN /\ rec.pc = "verify"
     /\ rec' = IF c = 0 THEN RecDone(None)
               ELSE IF get(c, Teams) # 0 THEN Judge(get(c, Teams))
               ELSE [rec EXCEPT !.pc = "wire", !.read.cl = c, !.read.gen = cache[c].gen]
     /\ UNCHANGED <<hist, gone, cur, cache, snap, view, rows, floor, fails, edits>>

VerifyAnswered ==
  LET r == rec.read
  IN /\ rec.pc = "wire"
     /\ \E b \in Answers(Teams) :
          /\ Fail(b)
          /\ cache' = IF b > 0 THEN put(r.cl, Teams, r.gen, b) ELSE cache
          /\ rec' = IF b > 0 THEN Judge(b) ELSE RecDone(None)
     /\ UNCHANGED <<hist, gone, cur, snap, view, rows, floor, edits>>

------------------------------------------------------------------------------
(* LiteLLM's administrators, and time.                                      *)

Edit ==
  /\ fails + edits < MaxMoves /\ edits' = edits + 1
  /\ \E p \in Guardrails, ns \in SUBSET Names : ns # hist[p][Current(p)] /\ Change(p, ns)
  /\ UNCHANGED <<cur, cache, snap, view, rows, rec, floor, fails>>

Older(n, cap) == IF n < cap THEN n + 1 ELSE n

Tick ==
  /\ IF snap.pc = "idle" THEN snap.wait > 0 ELSE snap.t < CallTime
  /\ rec.pc = "idle" \/ rec.t < CallTime
  /\ snap' = IF snap.pc = "idle" THEN [snap EXCEPT !.wait = @ - 1] ELSE [snap EXCEPT !.t = @ + 1]
  /\ rec' = IF rec.pc = "idle" THEN rec ELSE [rec EXCEPT !.t = @ + 1]
  /\ gone' = [p \in Paths |-> [i \in 1..Current(p) |->
                IF i = Current(p) \/ p = Teams THEN 0 ELSE Older(gone[p][i], Bound + 1)]]
  /\ cache' = [c \in Clients |-> [cache[c] EXCEPT !.m =
                [p \in Paths |-> IF @[p] = None THEN None
                                 ELSE [@[p] EXCEPT !.age = Older(@, TTL)]]]]
  /\ UNCHANGED <<hist, cur, view, rows, floor, fails, edits>>

SnapStep == Wake \/ List \/ ListAnswered \/ ListReturns \/ Publish \/ Persist

RecStep == WriteStarts \/ WriteLands \/ WriteReturns \/ Verify \/ VerifyAnswered

Next == Rebuild \/ RebuildNotReady \/ SnapStep \/ RecStep \/ Edit \/ Tick

Spec == Init /\ [][Next]_vars

------------------------------------------------------------------------------

TypeOK ==
  /\ \A p \in Paths : Len(hist[p]) = Len(gone[p]) /\ Current(p) \in 1..(1 + MaxWrites + MaxMoves)
  /\ cur.client \in 0..MaxClients /\ cur.ready \in BOOLEAN
  /\ \A c \in Clients : cache[c].gen \in 0..(MaxWrites + MaxMoves)
  /\ snap.pc \in {"idle", "list", "wire", "reply", "publish", "persist"}
  /\ snap.wait \in 0..Interval /\ snap.backoff \in 1..Interval
  /\ rows \in [Names -> {"none", "active", "missing"}]
  /\ rec.pc \in {"idle", "write", "wrote", "verify", "wire"}
  /\ rec.verify \in {None, "drift", "converged"}

(***************************************************************************)
(* A REST client never serves from its cache what it had read before its   *)
(* own last write returned, whatever GETs were in flight around that write *)
(* (readCache.put's generation guard).                                     *)
(***************************************************************************)
NoPreWriteBody ==
  \A c \in Clients : get(c, Teams) # 0 => get(c, Teams) >= floor[c]

(***************************************************************************)
(* A guardrail LiteLLM listed all along is never marked missing: the row   *)
(* of a name goes from active to missing only if every endpoint that       *)
(* answers had, within the age a cached read can have, a version without   *)
(* it.  A failing endpoint or an expired cache entry marks nothing.        *)
(***************************************************************************)
NoBlipTombstone ==
  \A n \in Names :
    rows[n] = "active" /\ rows'[n] = "missing" =>
      \A p \in Guardrails :
        \E i \in 1..Current(p) : n \notin hist[p][i] /\ gone[p][i] <= Bound

(***************************************************************************)
(* Once LiteLLM's catalogs, the connection and Postgres settle, the rows   *)
(* that are active are exactly the guardrails LiteLLM lists: a refresh     *)
(* that failed, or whose projection failed, is made up for by a later one. *)
(***************************************************************************)
CatalogCurrent ==
  {n \in Names : rows[n] = "active"} = UNION {hist[p][Current(p)] : p \in Guardrails}
==============================================================================
