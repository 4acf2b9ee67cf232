-------------------------- MODULE ReaderCacheProofs --------------------------
(***************************************************************************)
(* The refresh loop implements the stale view for every period, duration   *)
(* of a refresh and number of writes.  The loop's next store is never      *)
(* further away than a tick and a refresh; a version that is stored was    *)
(* current when its refresh began; so the sum of the age of what the view  *)
(* misses and of the time to the loop's next store stays within the bound, *)
(* whatever the other goroutine stores in between.                         *)
(***************************************************************************)
EXTENDS ReaderCache, TLAPS

ReaderAssumption ==
    /\ Interval \in Nat \ {0} /\ RefreshTime \in Nat /\ MaxVer \in Nat /\ MaxFails \in Nat
    /\ None \notin Nat /\ None \notin Running

TypeInv ==
    /\ age \in Seq(Nat) /\ view \in Nat /\ view <= Len(age) /\ Len(age) <= MaxVer
    /\ flight \in [Threads -> Running \cup {None}]
    /\ left \in 1..Interval /\ fails \in Nat
    /\ started \in BOOLEAN /\ ticked \in BOOLEAN

\* Version v misses nothing written more than d ago (a: the ages of the writes).
Misses(a, v, d) == v < Len(a) => a[v + 1] <= d

\* What a refresh read was current when the refresh began, or later.
ReadInv ==
    \A t \in Threads : flight[t] # None /\ flight[t].ver # None =>
        flight[t].ver <= Len(age) /\ Misses(age, flight[t].ver, flight[t].since)

\* Until the initial refresh is over, the loop runs it and the view is empty.
StartInv ==
    ~ started => /\ flight["loop"] # None /\ flight["trigger"] = None
                 /\ view = 0 /\ Misses(age, 0, flight["loop"].since)

\* The loop's next store is at most this far away (f: its refresh, p: a tick is
\* pending, l: the time to the next one).
StoreIn(f, p, l) ==
    IF f # None THEN RefreshTime - f.since ELSE IF p THEN RefreshTime ELSE l + RefreshTime
ToStore == StoreIn(flight["loop"], ticked, left)

FreshInv == fails = 0 => Misses(age, view, Bound - ToStore)

IInv == TypeInv /\ ReadInv /\ StartInv /\ FreshInv

-----------------------------------------------------------------------------
LEMMA StoreBound ==
    ASSUME ReaderAssumption, NEW f \in Running \cup {None}, NEW p, NEW l \in 1..Interval
    PROVE  StoreIn(f, p, l) \in 0..(Interval + RefreshTime)
BY DEF ReaderAssumption, Running, StoreIn

LEMMA Types ==
    ASSUME ReaderAssumption, TypeInv
    PROVE  /\ Bound \in Nat /\ Bound = Interval + 2 * RefreshTime
           /\ Begun \in Running /\ Begun # None /\ Begun.ver = None /\ Begun.since = 0
           /\ "loop" \in Threads /\ "trigger" \in Threads
           /\ \A t \in Threads : flight[t] # None =>
                 flight[t].since \in 0..RefreshTime /\ flight[t].ver \in 0..MaxVer \cup {None}
           /\ ToStore \in 0..(Interval + RefreshTime)
<1>1. Begun \in Running /\ Begun.ver = None /\ Begun.since = 0
      BY DEF ReaderAssumption, Begun, Running
<1>2. "loop" \in Threads /\ "trigger" \in Threads
      BY DEF Threads
<1>3. \A t \in Threads : flight[t] # None =>
         flight[t].since \in 0..RefreshTime /\ flight[t].ver \in 0..MaxVer \cup {None}
      BY DEF TypeInv, Running
<1>4. ToStore \in 0..(Interval + RefreshTime)
      BY <1>2, StoreBound DEF ToStore, StoreIn, TypeInv
<1> QED BY <1>1, <1>2, <1>3, <1>4 DEF ReaderAssumption, Bound

\* A write is missed by every version, for no time yet.
LEMMA WriteMisses ==
    ASSUME age \in Seq(Nat), age' = Append(age, 0)
    PROVE  /\ age' \in Seq(Nat) /\ Len(age') = Len(age) + 1
           /\ \A v, d \in Nat : v <= Len(age) /\ Misses(age, v, d) => Misses(age', v, d)
BY DEF Misses

\* Time adds one to what a version misses.
LEMMA TickMisses ==
    ASSUME age \in Seq(Nat), Bound \in Nat,
           age' = [v \in DOMAIN age |-> IF age[v] > Bound THEN age[v] ELSE age[v] + 1]
    PROVE  /\ age' \in Seq(Nat) /\ Len(age') = Len(age)
           /\ \A v, d \in Nat : Misses(age, v, d) => Misses(age', v, d + 1)
<1>1. DOMAIN age = 1..Len(age) /\ Len(age) \in Nat /\ \A i \in 1..Len(age) : age[i] \in Nat
      OBVIOUS
<1>2. DOMAIN age' = 1..Len(age) /\ \A i \in 1..Len(age) : age'[i] \in Nat /\ age'[i] <= age[i] + 1
      BY <1>1
<1>3. age' \in Seq(Nat) /\ Len(age') = Len(age)
      BY <1>1, <1>2
<1> QED BY <1>1, <1>2, <1>3 DEF Misses

\* A longer time misses no more.
LEMMA MissesLonger ==
    ASSUME age \in Seq(Nat), NEW v \in Nat, NEW d \in Int, NEW e \in Int, d <= e, Misses(age, v, d)
    PROVE  Misses(age, v, e)
<1>1. v < Len(age) => age[v + 1] \in Nat
      OBVIOUS
<1> QED BY <1>1 DEF Misses

-----------------------------------------------------------------------------
\* Each step keeps the invariant.
LEMMA Inductive ==
    ASSUME ReaderAssumption, IInv, [Next]_vars
    PROVE  IInv'
<1>1. TypeInv /\ ReadInv /\ StartInv /\ FreshInv /\ ReaderAssumption
      BY DEF IInv
<1>2. /\ Bound \in Nat /\ Bound = Interval + 2 * RefreshTime
      /\ Begun \in Running /\ Begun # None /\ Begun.ver = None /\ Begun.since = 0
      /\ "loop" \in Threads /\ "trigger" \in Threads
      /\ \A t \in Threads : flight[t] # None =>
            flight[t].since \in 0..RefreshTime /\ flight[t].ver \in 0..MaxVer \cup {None}
      /\ ToStore \in 0..(Interval + RefreshTime)
      BY <1>1, Types
<1>3. CASE WithTxNotify
  <2>1. /\ age' = Append(age, 0) /\ Len(age) < MaxVer
        /\ UNCHANGED <<view, flight, started, left, ticked, trigger, up, fails>>
        BY <1>3 DEF WithTxNotify
  <2>2. /\ age' \in Seq(Nat) /\ Len(age') = Len(age) + 1 /\ Len(age) \in Nat
        /\ \A v, d \in Nat : v <= Len(age) /\ Misses(age, v, d) => Misses(age', v, d)
        BY <1>1, <2>1, WriteMisses DEF TypeInv
  <2>3. TypeInv'
        BY <1>1, <2>1, <2>2 DEF TypeInv, ReaderAssumption
  <2>4. ReadInv'
        BY <1>1, <1>2, <2>1, <2>2 DEF ReadInv, ReaderAssumption
  <2>5. StartInv'
        BY <1>1, <1>2, <2>1, <2>2 DEF StartInv
  <2>6. FreshInv'
    <3>1. ToStore' = ToStore
          BY <2>1 DEF ToStore, StoreIn
    <3>2. Bound - ToStore \in Nat
          BY <1>1, <1>2 DEF ReaderAssumption
    <3>3. fails = 0 => Misses(age', view, Bound - ToStore)
          BY <1>1, <2>1, <2>2, <3>2 DEF FreshInv, TypeInv
    <3> QED BY <2>1, <3>1, <3>3 DEF FreshInv
  <2> QED BY <2>3, <2>4, <2>5, <2>6 DEF IInv
<1>4. CASE signalTrigger \/ runOnce \/ SessionLost \/ UNCHANGED vars
  <2>1. UNCHANGED <<age, view, flight, started, left, ticked, fails>>
        BY <1>4 DEF signalTrigger, runOnce, SessionLost, vars
  <2> QED BY <1>1, <2>1 DEF IInv, TypeInv, ReadInv, StartInv, FreshInv, ToStore, StoreIn, Misses
<1>5. CASE runRefreshTriggers
  <2>1. /\ started /\ flight' = [flight EXCEPT !["trigger"] = Begun] /\ flight["trigger"] = None
        /\ UNCHANGED <<age, view, started, left, ticked, fails>>
        BY <1>5 DEF runRefreshTriggers
  <2>2. flight' \in [Threads -> Running \cup {None}] /\ flight'["loop"] = flight["loop"]
        /\ flight'["trigger"] = Begun
        BY <1>1, <1>2, <2>1 DEF TypeInv, Threads
  <2>3. ToStore' = ToStore
        BY <2>1, <2>2 DEF ToStore, StoreIn
  <2>4. ReadInv'
        BY <1>1, <1>2, <2>1, <2>2 DEF ReadInv, Threads, Misses
  <2> QED BY <1>1, <2>1, <2>2, <2>3, <2>4 DEF IInv, TypeInv, StartInv, FreshInv, Misses
<1>6. CASE RunRefreshLoop
  <2>1. /\ started /\ flight' = [flight EXCEPT !["loop"] = Begun] /\ flight["loop"] = None
        /\ ticked /\ ticked' = FALSE
        /\ UNCHANGED <<age, view, started, left, fails>>
        BY <1>6 DEF RunRefreshLoop
  <2>2. flight' \in [Threads -> Running \cup {None}] /\ flight'["trigger"] = flight["trigger"]
        /\ flight'["loop"] = Begun
        BY <1>1, <1>2, <2>1 DEF TypeInv, Threads
  <2>3. ToStore' = ToStore
        BY <1>1, <1>2, <2>1, <2>2 DEF ToStore, StoreIn, ReaderAssumption
  <2>4. ReadInv'
        BY <1>1, <1>2, <2>1, <2>2 DEF ReadInv, Threads, Misses
  <2> QED BY Zenon, <1>1, <2>1, <2>2, <2>3, <2>4 DEF IInv, TypeInv, StartInv, FreshInv, Misses
<1>7. ASSUME NEW t \in Threads, List(t) PROVE IInv'
  <2>1. /\ flight[t] # None /\ flight' = [flight EXCEPT ![t].ver = Len(age)]
        /\ UNCHANGED <<age, view, started, left, ticked, fails>>
        BY <1>7 DEF List
  <2>2. /\ Len(age) \in 0..MaxVer /\ flight[t] \in Running
        /\ flight'[t] = [flight[t] EXCEPT !.ver = Len(age)]
        /\ \A u \in Threads \ {t} : flight'[u] = flight[u]
        BY <1>1, <2>1 DEF TypeInv, ReaderAssumption
  <2>3. flight'[t] \in Running /\ flight'[t].ver = Len(age) /\ flight'[t].since = flight[t].since
        BY <2>2 DEF Running
  <2>4. flight'[t] # None
        BY <1>1, <2>3 DEF ReaderAssumption
  <2>5. flight' \in [Threads -> Running \cup {None}]
        BY <1>1, <2>1, <2>2, <2>3 DEF TypeInv
  <2>6. ToStore' = ToStore
        BY <1>2, <2>1, <2>2, <2>3, <2>4 DEF ToStore, StoreIn
  <2>7. ReadInv'
    <3> SUFFICES ASSUME NEW u \in Threads, flight'[u] # None, flight'[u].ver # None
                 PROVE  flight'[u].ver <= Len(age) /\ Misses(age, flight'[u].ver, flight'[u].since)
        BY <2>1 DEF ReadInv, Misses
    <3>1. CASE u = t
      <4>1. Len(age) \in Nat /\ Misses(age, Len(age), flight'[t].since)
            BY <1>1 DEF TypeInv, Misses
      <4> QED BY <2>3, <3>1, <4>1
    <3>2. CASE u # t
          BY <1>1, <2>2, <3>2 DEF ReadInv
    <3> QED BY <3>1, <3>2
  <2>8. StartInv'
        BY <1>1, <1>2, <2>1, <2>2, <2>3, <2>4 DEF StartInv, Threads, Misses
  <2> QED BY <1>1, <2>1, <2>5, <2>6, <2>7, <2>8 DEF IInv, TypeInv, FreshInv, Misses
<1>8. ASSUME NEW t \in Threads, Refresh(t) \/ RefreshFails(t) PROVE IInv'
  <2>1. /\ flight[t] # None /\ flight' = [flight EXCEPT ![t] = None] /\ started' = TRUE
        /\ UNCHANGED <<age, left, ticked>>
        BY <1>8 DEF Refresh, RefreshFails
  <2>2. flight'[t] = None /\ \A u \in Threads \ {t} : flight'[u] = flight[u]
        BY <1>1, <2>1 DEF TypeInv
  <2>3. flight' \in [Threads -> Running \cup {None}]
        BY <1>1, <2>1 DEF TypeInv
  <2>4. ReadInv'
        BY <1>1, <2>1, <2>2 DEF ReadInv, Misses
  <2>5. StartInv'
        BY <2>1 DEF StartInv
  <2>6. TypeInv' /\ FreshInv'
    <3>1. CASE Refresh(t)
      <4>1. view' = flight[t].ver /\ flight[t].ver # None /\ UNCHANGED fails
            BY <3>1 DEF Refresh
      <4>2. view' \in Nat /\ view' <= Len(age) /\ Misses(age, view', flight[t].since)
            BY <1>1, <1>2, <2>1, <4>1 DEF ReadInv
      <4>3. TypeInv'
            BY <1>1, <2>1, <2>3, <4>1, <4>2 DEF TypeInv
      <4>4. ToStore' \in 0..(Interval + RefreshTime)
            BY Zenon, <1>1, <1>2, <2>3, <4>3, StoreBound DEF ToStore, StoreIn, TypeInv
      <4>5. flight[t].since <= Bound - ToStore' /\ Bound - ToStore' \in Int /\ flight[t].since \in Int
            BY <1>1, <1>2, <2>1, <4>4 DEF ReaderAssumption
      <4>6. Misses(age, view', Bound - ToStore')
            BY <1>1, <4>2, <4>5, MissesLonger DEF TypeInv
      <4> QED BY <2>1, <4>3, <4>6 DEF FreshInv, Misses
    <3>2. CASE RefreshFails(t)
          BY <1>1, <2>1, <2>3, <3>2 DEF RefreshFails, TypeInv, FreshInv
    <3> QED BY <1>8, <3>1, <3>2
  <2> QED BY <2>4, <2>5, <2>6 DEF IInv
<1>9. CASE Tick
  <2>1. /\ \A t \in Threads : flight[t] # None => flight[t].since < RefreshTime
        /\ ticked => flight["loop"] # None
        /\ age' = [v \in DOMAIN age |-> IF age[v] > Bound THEN age[v] ELSE age[v] + 1]
        /\ left' = IF ~started \/ left = 1 THEN Interval ELSE left - 1
        /\ ticked' = (ticked \/ (started /\ left = 1))
        /\ UNCHANGED <<view, started, fails>>
        BY <1>9 DEF Tick
  <2>2. /\ age' \in Seq(Nat) /\ Len(age') = Len(age)
        /\ \A v, d \in Nat : Misses(age, v, d) => Misses(age', v, d + 1)
        BY <1>1, <1>2, <2>1, TickMisses DEF TypeInv
  <2>3. \A t \in Threads :
          /\ flight[t] = None => flight'[t] = None
          /\ flight[t] # None => flight'[t] = [flight[t] EXCEPT !.since = @ + 1]
        BY <1>9 DEF Tick
  <2>4. \A t \in Threads : flight[t] # None =>
          /\ flight'[t] \in Running /\ flight'[t] # None
          /\ flight'[t].ver = flight[t].ver /\ flight'[t].since = flight[t].since + 1
    <3> SUFFICES ASSUME NEW t \in Threads, flight[t] # None
                 PROVE  /\ flight'[t] \in Running /\ flight'[t] # None
                        /\ flight'[t].ver = flight[t].ver
                        /\ flight'[t].since = flight[t].since + 1
        OBVIOUS
    <3>0. flight[t] \in Running
          BY <1>1 DEF TypeInv
    <3>1. flight[t] \in Running /\ flight[t].since + 1 \in 0..RefreshTime
      <4>1. flight[t].since \in 0..RefreshTime
            BY <3>0 DEF Running
      <4>2. flight[t].since < RefreshTime /\ RefreshTime \in Nat
            BY <2>1 DEF ReaderAssumption
      <4> QED BY <3>0, <4>1, <4>2
    <3>2. /\ flight'[t] \in Running /\ flight'[t].ver = flight[t].ver
          /\ flight'[t].since = flight[t].since + 1
          BY Zenon, <2>3, <3>1 DEF Running
    <3> QED BY <1>1, <3>2 DEF ReaderAssumption
  <2>5. flight' \in [Threads -> Running \cup {None}]
    <3>1. flight' = [t \in Threads |-> flight'[t]]
          BY <1>9 DEF Tick
    <3> QED BY <2>3, <2>4, <3>1
  <2>6. TypeInv'
        BY <1>1, <2>1, <2>2, <2>5 DEF TypeInv, ReaderAssumption
  <2>7. ReadInv'
    <3> SUFFICES ASSUME NEW t \in Threads, flight'[t] # None, flight'[t].ver # None
                 PROVE  flight'[t].ver <= Len(age') /\ Misses(age', flight'[t].ver, flight'[t].since)
        BY DEF ReadInv, Misses
    <3>1. /\ flight[t] # None /\ flight'[t].ver = flight[t].ver
          /\ flight'[t].since = flight[t].since + 1
          BY Zenon, <2>3, <2>4
    <3>2. flight[t].ver \in Nat /\ flight[t].since \in Nat
          BY <1>1, <1>2, <3>1 DEF ReaderAssumption
    <3>3. flight[t].ver <= Len(age) /\ Misses(age, flight[t].ver, flight[t].since)
          BY <1>1, <3>1 DEF ReadInv
    <3>4. Misses(age', flight[t].ver, flight[t].since + 1)
          BY <2>2, <3>2, <3>3
    <3> QED BY <2>2, <3>1, <3>3, <3>4 DEF Misses
  <2>8. StartInv'
    <3> SUFFICES ASSUME ~ started'
                 PROVE  /\ flight'["loop"] # None /\ flight'["trigger"] = None
                        /\ view' = 0 /\ Misses(age', 0, flight'["loop"].since)
        BY DEF StartInv
    <3>1. /\ flight["loop"] # None /\ flight["trigger"] = None
          /\ view = 0 /\ Misses(age, 0, flight["loop"].since)
          BY <1>1, <2>1 DEF StartInv
    <3>2. flight'["loop"].since = flight["loop"].since + 1 /\ flight["loop"].since \in Nat
          BY <1>1, <1>2, <2>4, <3>1 DEF ReaderAssumption
    <3>3. Misses(age', 0, flight["loop"].since + 1)
          BY <2>2, <3>1, <3>2
    <3> QED BY Zenon, <1>2, <2>1, <2>3, <2>4, <3>1, <3>2, <3>3 DEF Misses
  <2>9. FreshInv'
    <3>1. ToStore' = ToStore - 1
      <4>1. CASE flight["loop"] # None
            BY <1>1, <1>2, <2>4, <4>1 DEF ToStore, StoreIn, ReaderAssumption
      <4>2. CASE flight["loop"] = None
        <5>1. started /\ ~ ticked /\ flight'["loop"] = None
              BY Zenon, <1>1, <1>2, <2>1, <2>3, <4>2 DEF StartInv
        <5>2. left \in Nat /\ RefreshTime \in Nat /\ ToStore = left + RefreshTime
              BY <1>1, <4>2, <5>1 DEF ToStore, StoreIn, TypeInv, ReaderAssumption
        <5>3. CASE left = 1
          <6>1. ticked'
                BY Zenon, <2>1, <5>1, <5>3
          <6> QED BY <5>1, <5>2, <5>3, <6>1 DEF ToStore, StoreIn
        <5>4. CASE left # 1
          <6>1. ~ ticked' /\ left' = left - 1
                BY Zenon, <2>1, <5>1, <5>4
          <6> QED BY <5>1, <5>2, <6>1 DEF ToStore, StoreIn
        <5> QED BY <5>3, <5>4
      <4> QED BY <4>1, <4>2
    <3>2. Bound - ToStore \in Nat /\ Bound - ToStore' = (Bound - ToStore) + 1
          BY <1>1, <1>2, <3>1 DEF ReaderAssumption
    <3>3. fails = 0 => Misses(age', view, (Bound - ToStore) + 1)
          BY <1>1, <2>2, <3>2 DEF FreshInv, TypeInv
    <3> QED BY <2>1, <3>2, <3>3 DEF FreshInv, Misses
  <2> QED BY <2>6, <2>7, <2>8, <2>9 DEF IInv
<1> QED BY <1>3, <1>4, <1>5, <1>6, <1>7, <1>8, <1>9 DEF Next, RefreshStep

-----------------------------------------------------------------------------
\* The invariant of the loop, for every period and duration of a refresh.
THEOREM Invariance ==
    ASSUME ReaderAssumption
    PROVE  Spec => []IInv
<1>1. Init => IInv
  <2> SUFFICES ASSUME Init PROVE IInv
      OBVIOUS
  <2>1. Begun \in Running /\ Begun # None /\ Begun.ver = None /\ Begun.since = 0
        BY DEF ReaderAssumption, Begun, Running
  <2>2. flight["loop"] = Begun /\ flight["trigger"] = None
        BY DEF Init, Threads
  <2>3. TypeInv
    <3>1. age \in Seq(Nat) /\ Len(age) = 0 /\ view = 0 /\ fails = 0
          BY DEF Init
    <3>2. flight \in [Threads -> Running \cup {None}]
          BY <2>1 DEF Init
    <3>3. left \in 1..Interval /\ 0 <= MaxVer
      <4>1. left = Interval
            BY DEF Init
      <4> QED BY <4>1 DEF ReaderAssumption
    <3>4. started \in BOOLEAN /\ ticked \in BOOLEAN
          BY Zenon DEF Init
    <3> QED BY <3>1, <3>2, <3>3, <3>4 DEF TypeInv
  <2>4. ReadInv
        BY <2>1, <2>2 DEF ReadInv, Threads
  <2>5. StartInv /\ FreshInv
    <3>1. view = 0 /\ \A d : Misses(age, 0, d)
      <4>1. view = 0 /\ Len(age) = 0
            BY DEF Init
      <4> QED BY <4>1 DEF Misses
    <3> QED BY <2>1, <2>2, <3>1 DEF StartInv, FreshInv
  <2> QED BY <2>3, <2>4, <2>5 DEF IInv
<1>2. IInv /\ [Next]_vars => IInv'
      BY Inductive
<1> QED BY <1>1, <1>2, PTL DEF Spec

\* RunRefreshLoop: whichever NOTIFYs are lost and in whatever order the two
\* goroutines store, the cache is a view that is never more than a period and
\* two refreshes behind the table, until a refresh fails.
THEOREM Refinement ==
    ASSUME ReaderAssumption
    PROVE  Spec => ImplementsStaleView
<1>1. Init => View!Init
      BY DEF Init, View!Init
<1>2. IInv /\ IInv' /\ [Next]_vars => [View!Next]_View!vars
  <2> SUFFICES ASSUME IInv, IInv', [Next]_vars PROVE [View!Next]_View!vars
      OBVIOUS
  <2>1. CASE WithTxNotify
        BY <2>1 DEF WithTxNotify, View!Next, View!Write
  <2>2. CASE \/ signalTrigger \/ runOnce \/ SessionLost \/ runRefreshTriggers \/ RunRefreshLoop
             \/ (\E t \in Threads : List(t)) \/ UNCHANGED vars
        BY <2>2 DEF signalTrigger, runOnce, SessionLost, runRefreshTriggers, RunRefreshLoop,
           List, vars, View!vars
  <2>3. ASSUME NEW t \in Threads, Refresh(t) PROVE View!Show
    <3>1. view' = flight[t].ver /\ flight[t] # None /\ flight[t].ver # None /\ UNCHANGED <<age, fails>>
          BY <2>3 DEF Refresh
    <3>2. view' \in Nat /\ view' <= Len(age) /\ Len(age) \in Nat
          BY <3>1 DEF IInv, TypeInv
    <3>3. Misses(age, view', flight[t].since) /\ flight[t].since \in 0..RefreshTime
          BY <3>1, Types DEF IInv, ReadInv
    <3>4. view' = Len(age) \/ age[view' + 1] <= Bound
      <4>1. RefreshTime <= Bound /\ RefreshTime \in Nat /\ Bound \in Nat
            BY DEF ReaderAssumption, Bound
      <4>2. view' < Len(age) => age[view' + 1] \in Nat
            BY <3>2 DEF IInv, TypeInv
      <4> QED BY <3>2, <3>3, <4>1, <4>2 DEF Misses
    <3> QED BY <3>1, <3>2, <3>4 DEF View!Show, View!Fresh
  <2>4. CASE Tick
    <3>1. /\ age' = [v \in DOMAIN age |-> IF age[v] > Bound THEN age[v] ELSE age[v] + 1]
          /\ UNCHANGED <<view, fails>>
          BY <2>4 DEF Tick
    <3>2. fails = 0 => view = Len(age') \/ age'[view + 1] <= Bound
      <4>1. ToStore' \in Nat /\ Bound \in Nat
        <5>1. flight'["loop"] \in Running \cup {None} /\ left' \in 1..Interval
              BY DEF IInv, TypeInv, Threads
        <5>2. ToStore' \in 0..(Interval + RefreshTime)
              BY <5>1, StoreBound DEF ToStore, StoreIn
        <5> QED BY <5>2 DEF ReaderAssumption, Bound
      <4>2. /\ age' \in Seq(Nat) /\ view' \in Nat /\ view' <= Len(age')
            /\ fails' = 0 => Misses(age', view', Bound - ToStore')
            BY DEF IInv, TypeInv, FreshInv
      <4>3. view' < Len(age') => age'[view' + 1] \in Nat
            BY <4>2
      <4> QED BY <3>1, <4>1, <4>2, <4>3 DEF Misses
    <3>3. Len(age') = Len(age)
          BY <3>1, Types, TickMisses DEF IInv, TypeInv
    <3> QED BY <3>1, <3>2, <3>3 DEF View!Next, View!Tick
  <2>5. ASSUME NEW t \in Threads, RefreshFails(t) PROVE View!Fail
    <3>1. UNCHANGED <<age, view>> /\ fails' = fails + 1 /\ fails \in Nat
          BY <2>5 DEF RefreshFails, IInv, TypeInv
    <3>2. (fails' = 0) = FALSE
          BY <3>1
    <3> QED BY <3>1, <3>2 DEF View!Fail
  <2> QED BY <2>1, <2>2, <2>3, <2>4, <2>5 DEF Next, RefreshStep, View!Next
<1> QED BY <1>1, <1>2, Invariance, PTL DEF Spec, ImplementsStaleView, View!Spec

=============================================================================
