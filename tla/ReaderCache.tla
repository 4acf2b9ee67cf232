----------------------------- MODULE ReaderCache -----------------------------
(***************************************************************************)
(* The refresh loop of a Postgres-backed cache (db.RunRefreshLoop): the    *)
(* forwarder's envstore and bipcache and the content service's envcache.   *)
(* Two goroutines refresh one pointer: the loop itself, first at start and *)
(* then on a ticker, and one that a NOTIFY triggers.  Each reads the whole *)
(* table and then stores the snapshot, so the two may store out of order.  *)
(* NOTIFYs travel over a LISTEN session that can drop and does not replay. *)
(*                                                                         *)
(* Time is relative: ages of the writes and of the running refreshes, and  *)
(* the time left to the next tick.  A refresh lasts at most RefreshTime.   *)
(***************************************************************************)
EXTENDS Integers, Sequences

CONSTANTS Interval,     \* the ticker's period (refreshInterval)
          RefreshTime,  \* bound: duration of one refresh, below Interval
          MaxVer,       \* bound: writes to the table
          MaxFails,     \* bound: refreshes that fail
          None

Threads == {"loop", "trigger"}
Bound == Interval + 2 * RefreshTime

VARIABLES
    age,     \* age[v]: time since write v committed, capped at Bound + 1
    view,    \* the version behind the cache's pointer, 0 for the empty map
    flight,  \* flight[t]: None, or the refresh thread t runs
    started, \* whether the initial refresh is over and the ticker runs
    left,    \* time to the next tick
    ticked,  \* the ticker's channel: a tick not yet taken
    notice,  \* a NOTIFY committed and not yet delivered
    trigger, \* the size-1 trigger channel
    up,      \* whether the LISTEN session is up
    fails    \* counter of the bound

vars == <<age, view, flight, started, left, ticked, notice, trigger, up, fails>>

Running == [ver : 0..MaxVer \cup {None}, since : 0..RefreshTime]

TypeOK ==
    /\ age \in Seq(0..Bound + 1) /\ Len(age) <= MaxVer /\ view \in 0..Len(age)
    /\ \A t \in Threads : flight[t] = None \/ flight[t] \in Running
    /\ left \in 1..Interval /\ fails \in 0..MaxFails
    /\ {started, ticked, notice, trigger, up} \subseteq BOOLEAN

Begun == [ver |-> None, since |-> 0]

Init ==
    /\ age = <<>> /\ view = 0
    /\ flight = [t \in Threads |-> IF t = "loop" THEN Begun ELSE None]
    /\ started = FALSE /\ left = Interval /\ ticked = FALSE
    /\ notice = FALSE /\ trigger = FALSE /\ up = FALSE /\ fails = 0

(* The operator's write and its NOTIFY commit together. *)
WithTxNotify ==
    /\ Len(age) < MaxVer
    /\ age' = Append(age, 0) /\ notice' = up
    /\ UNCHANGED <<view, flight, started, left, ticked, trigger, up, fails>>

(* The listener's goroutine: a delivered NOTIFY leaves one pending trigger. *)
signalTrigger ==
    /\ notice /\ up
    /\ notice' = FALSE /\ trigger' = TRUE
    /\ UNCHANGED <<age, view, flight, started, left, ticked, up, fails>>

(* The session opens once the loop has started it, and again after a loss. *)
runOnce ==
    /\ started /\ ~up /\ up' = TRUE
    /\ UNCHANGED <<age, view, flight, started, left, ticked, notice, trigger, fails>>

SessionLost ==
    /\ up /\ up' = FALSE /\ notice' = FALSE
    /\ UNCHANGED <<age, view, flight, started, left, ticked, trigger, fails>>

runRefreshTriggers ==
    /\ started /\ trigger /\ flight["trigger"] = None
    /\ trigger' = FALSE /\ flight' = [flight EXCEPT !["trigger"] = Begun]
    /\ UNCHANGED <<age, view, started, left, ticked, notice, up, fails>>

(* As if the loop relied on NOTIFY alone after the initial refresh. *)
RunRefreshLoopNotifyOnly ==
    /\ started /\ ticked /\ flight["loop"] = None
    /\ ticked' = FALSE
    /\ UNCHANGED <<flight, age, view, started, left, notice, trigger, up, fails>>

RunRefreshLoop ==
    /\ started /\ ticked /\ flight["loop"] = None
    /\ ticked' = FALSE /\ flight' = [flight EXCEPT !["loop"] = Begun]
    /\ UNCHANGED <<age, view, started, left, notice, trigger, up, fails>>

(* The SELECT's snapshot. *)
List(t) ==
    /\ flight[t] # None /\ flight[t].ver = None
    /\ flight' = [flight EXCEPT ![t].ver = Len(age)]
    /\ UNCHANGED <<age, view, started, left, ticked, notice, trigger, up, fails>>

(* The swap of the pointer ends the refresh; the first one starts the rest. *)
Refresh(t) ==
    /\ flight[t] # None /\ flight[t].ver # None
    /\ view' = flight[t].ver
    /\ flight' = [flight EXCEPT ![t] = None] /\ started' = TRUE
    /\ UNCHANGED <<age, left, ticked, notice, trigger, up, fails>>

RefreshFails(t) ==
    /\ flight[t] # None /\ fails < MaxFails
    /\ fails' = fails + 1 /\ flight' = [flight EXCEPT ![t] = None] /\ started' = TRUE
    /\ UNCHANGED <<age, view, left, ticked, notice, trigger, up>>

(* Time passes.  A pending tick is taken at once if its goroutine is idle,  *)
(* and no refresh outlasts RefreshTime.  The ticker drops a tick its reader *)
(* is too slow for.                                                         *)
Tick ==
    /\ \A t \in Threads : flight[t] # None => flight[t].since < RefreshTime
    /\ ticked => flight["loop"] # None
    /\ age' = [v \in DOMAIN age |-> IF age[v] > Bound THEN age[v] ELSE age[v] + 1]
    /\ flight' = [t \in Threads |->
                    IF flight[t] = None THEN None ELSE [flight[t] EXCEPT !.since = @ + 1]]
    /\ left' = IF ~started \/ left = 1 THEN Interval ELSE left - 1
    /\ ticked' = (ticked \/ (started /\ left = 1))
    /\ UNCHANGED <<view, started, notice, trigger, up, fails>>

RefreshStep == \E t \in Threads : List(t) \/ Refresh(t)
Next == \/ WithTxNotify \/ signalTrigger \/ runOnce \/ SessionLost
        \/ runRefreshTriggers \/ RunRefreshLoop \/ RefreshStep \/ Tick
        \/ \E t \in Threads : RefreshFails(t)

Spec == Init /\ [][Next]_vars

(* The cache is a view that is stale by less than a tick and two refreshes, *)
(* whatever order the two goroutines store in and whichever NOTIFYs are     *)
(* lost, as long as no refresh failed.                                      *)
View == INSTANCE StaleView WITH ok <- (fails = 0)
ImplementsStaleView == View!Spec

(* After the last write the cache ends up showing it for good, also after   *)
(* failed refreshes.                                                        *)
CaughtUp == view = Len(age)
=============================================================================
