--------------------------- MODULE KeyCacheProofs ---------------------------
(***************************************************************************)
(* The guarantees of the key cache for every number of replicas, callers,  *)
(* every TTL, timeout and window that satisfy the assumptions of KeyCache. *)
(***************************************************************************)
EXTENDS KeyCache, TLAPS

\* The clock and the row's expiry: a pk_ expires at most a window ahead, never
\* past its lifetime, and not before a window after its last use.
RowInv ==
    KeyType = "pk" =>
        /\ row.expires <= Lifetime
        /\ row.expires <= now + Window
        /\ row.expires >= LesserOf(row.lastUsed + Window, Lifetime)
        /\ row.status # "suspended"

\* What a lookup that found the key live at time r, expiring at e, still means.
HitOK(e, r) ==
    /\ r <= now
    /\ e <= row.expires
    /\ KeyType = "ek" => e = row.expires
    /\ KeyType = "pk" => e >= LesserOf(r - Debounce + Window, Lifetime)
    /\ row.status # "active" => r <= deadSince

\* What a lookup that found no live key at time r still means.
MissOK(r) ==
    /\ r <= now
    /\ \/ row.status # "active"
       \/ r <= liveSince
       \/ row.expires <= r
       \/ KeyType = "pk" /\ Lifetime <= r

FillOK(f) ==
    /\ f.anchor <= f.readAt
    /\ f.hit => HitOK(f.expires, f.readAt)
    /\ ~f.hit => MissOK(f.readAt)

\* A flight is younger than the leader timeout.
FlightInv ==
    \A i \in Replicas :
        /\ fphase[i] # "none" => /\ ffill[i].anchor <= now
                                 /\ now <= ffill[i].anchor + LeaderTimeout
        /\ fphase[i] = "read" => FillOK(ffill[i])

\* A caller between the flight and its answer holds a recent fill.
CallerOK(c) ==
    /\ pc[c] \in {"fill", "set"} => /\ FillOK(got[c])
                                    /\ since[c] <= now
                                    /\ now <= since[c] + Lag
    /\ pc[c] = "fill" => since[c] <= got[c].anchor + LeaderTimeout
    /\ pc[c] = "set" => /\ got[c].hit
                        /\ since[c] <= got[c].anchor + LeaderTimeout + Lag
                        /\ since[c] < got[c].expires
                        /\ left[c] > 0
                        /\ left[c] <= TTL - (since[c] - got[c].anchor)
                        /\ left[c] <= got[c].expires - since[c]

CallerInv == \A c \in Callers : CallerOK(c)

\* A cache entry is anchored at its database read.
CacheInv ==
    redis.full => /\ HitOK(redis.expires, redis.readAt)
                  /\ now < redis.until
                  /\ redis.until <= redis.readAt + TTL + Lag
                  /\ redis.until <= redis.expires + Lag

\* The inductive invariant.
IInv == TypeOK /\ RowInv /\ FlightInv /\ CallerInv /\ CacheInv

-----------------------------------------------------------------------------

\* A fill that a flight anchored, at the moment its caller looks at it.
LEMMA FillAge ==
    ASSUME NEW n \in Int, NEW since0 \in Int, NEW anchor \in Int, NEW readAt \in Int,
           n <= since0 + Lag, since0 <= anchor + LeaderTimeout, anchor <= readAt
    PROVE  n <= readAt + LeaderTimeout + Lag
BY KeyCacheAssumption

LEMMA SinceNow ==
    ASSUME NEW n \in Int, NEW since0 \in Int, NEW anchor \in Int,
           n <= since0 + Lag, since0 <= anchor + LeaderTimeout
    PROVE  n <= anchor + LeaderTimeout + Lag /\ n <= n /\ n <= n + Lag
BY KeyCacheAssumption

\* Every variable keeps its type.
LEMMA TypeInductive == TypeOK /\ [Next]_vars => TypeOK'
<1> SUFFICES ASSUME TypeOK, [Next]_vars PROVE TypeOK'
  OBVIOUS
<1>a. NoFill \in Fill /\ [NoFill EXCEPT !.anchor = now] \in Fill
  <2>1. NoFill \in Fill
    BY DEF NoFill, Fill
  <2> QED BY <2>1 DEF TypeOK, Fill
<1>b. NoEntry \in [full : BOOLEAN, expires : Int, until : Int, readAt : Nat]
  BY DEF NoEntry
<1>c. \A f \in Fill : /\ f.hit \in BOOLEAN /\ f.expires \in Int
                     /\ f.anchor \in Nat /\ f.readAt \in Nat
  BY DEF Fill
<1> USE KeyCacheAssumption, <1>a, <1>b DEF TypeOK, Phases, Stages, Answered, LesserOf
<1>1. ASSUME NEW c \in Callers, CacheHit(c) PROVE TypeOK'
  BY <1>1 DEF CacheHit, Answer, Goto, rowVars, flightVars
<1>2. ASSUME NEW c \in Callers, CacheMiss(c) PROVE TypeOK'
  BY <1>2 DEF CacheMiss, Goto, rowVars, flightVars
<1>3. ASSUME NEW c \in Callers, NEW i \in Replicas, Join(c, i) PROVE TypeOK'
  <2>1. fphase' \in [Replicas -> Phases] /\ ffill' \in [Replicas -> Fill]
    BY <1>3 DEF Join
  <2>2. fjoined' \in [Replicas -> SUBSET Callers]
    BY <1>3 DEF Join
  <2>3. pc' \in [Callers -> Stages] /\ since' \in [Callers -> Nat]
    BY <1>3 DEF Join, Goto
  <2> QED BY <1>3, <2>1, <2>2, <2>3 DEF Join, rowVars
<1>4. ASSUME NEW c \in Callers, Abandon(c) PROVE TypeOK'
  BY <1>4 DEF Abandon, Answer, Goto, rowVars, flightVars
<1>5. ASSUME NEW c \in Callers, Decide(c) PROVE TypeOK'
  <2>1. Remaining(got[c]) \in Int
    BY <1>c DEF Remaining
  <2> QED BY <1>5, <2>1 DEF Decide, Answer, Goto, rowVars, flightVars
<1>6. ASSUME NEW c \in Callers, SetApplied(c) PROVE TypeOK'
  BY <1>6, <1>c DEF SetApplied, Answer, Goto, rowVars, flightVars
<1>7. ASSUME NEW c \in Callers, SetFails(c) PROVE TypeOK'
  BY <1>7 DEF SetFails, Answer, Goto, rowVars, flightVars
<1>8. ASSUME NEW c \in Callers, Finish(c) PROVE TypeOK'
  BY <1>8 DEF Finish, Goto, rowVars, flightVars
<1>9. ASSUME NEW i \in Replicas, LeaderRead(i) PROVE TypeOK'
  <2>1. ResolvedRow \in [table : {"ek", "pk"}, status : {"active", "suspended", "revoked"}, lastUsed : Int, expires : Int]
    BY DEF ResolvedRow
  <2>2. Live \in BOOLEAN
    BY DEF Live
  <2>3. ffill' \in [Replicas -> Fill]
    BY <1>9, <1>c, <2>1, <2>2 DEF LeaderRead, Fill
  <2> QED BY <1>9, <2>1, <2>2, <2>3 DEF LeaderRead, callerVars
<1>10. ASSUME NEW i \in Replicas, LeaderReturns(i) PROVE TypeOK'
  BY <1>10 DEF LeaderReturns, FlightEnds, rowVars
<1>11. ASSUME NEW i \in Replicas, LeaderFails(i) PROVE TypeOK'
  BY <1>11 DEF LeaderFails, FlightEnds, rowVars
<1>12. CASE Suspend
  BY <1>12 DEF Suspend, flightVars, callerVars
<1>13. CASE Resume
  BY <1>13 DEF Resume, flightVars, callerVars
<1>14. CASE Revoke
  BY <1>14 DEF Revoke, flightVars, callerVars
<1>15. CASE Invalidate
  BY <1>15 DEF Invalidate, flightVars, callerVars
<1>16. CASE Tick
  BY <1>16 DEF Tick, rowVars, flightVars, callerVars
<1>17. CASE UNCHANGED vars
  BY <1>17 DEF vars
<1> QED
  BY <1>1, <1>2, <1>3, <1>4, <1>5, <1>6, <1>7, <1>8, <1>9, <1>10, <1>11, <1>12,
     <1>13, <1>14, <1>15, <1>16, <1>17 DEF Next, CallerStep, FlightStep

\* The row keeps its expiry discipline.
LEMMA RowInductive == TypeOK /\ RowInv /\ [Next]_vars => RowInv'
<1> SUFFICES ASSUME TypeOK, RowInv, [Next]_vars PROVE RowInv'
  OBVIOUS
<1> USE KeyCacheAssumption DEF TypeOK, RowInv, LesserOf, KeyType
<1>1. CASE UNCHANGED <<row, now>>
  BY <1>1
<1>2. ASSUME NEW i \in Replicas, LeaderRead(i) PROVE RowInv'
  BY <1>2 DEF LeaderRead, ResolvedRow, Live
<1>3. CASE Suspend \/ Resume \/ Revoke
  BY <1>3 DEF Suspend, Resume, Revoke
<1>4. CASE Tick
  BY <1>4 DEF Tick, rowVars
<1>5. CASE Invalidate
  BY <1>1, <1>5 DEF Invalidate
<1>6. ASSUME NEW c \in Callers, CallerStep(c) PROVE UNCHANGED <<row, now>>
  BY <1>6 DEF CallerStep, CacheHit, CacheMiss, Join, Abandon, Decide, SetApplied, SetFails,
              Finish, rowVars
<1>7. ASSUME NEW i \in Replicas, LeaderReturns(i) \/ LeaderFails(i) PROVE UNCHANGED <<row, now>>
  BY <1>7 DEF LeaderReturns, LeaderFails, FlightEnds, rowVars
<1>8. CASE UNCHANGED vars
  BY <1>1, <1>8 DEF vars
<1> QED
  BY <1>1, <1>2, <1>3, <1>4, <1>5, <1>6, <1>7, <1>8 DEF Next, FlightStep

\* A positive lookup result keeps its meaning while it is carried around.
LEMMA HitPreserved ==
    ASSUME TypeOK, RowInv, [Next]_vars, NEW e \in Int, NEW r \in Nat, HitOK(e, r)
    PROVE  HitOK(e, r)'
<1> USE KeyCacheAssumption DEF TypeOK, RowInv, HitOK, LesserOf, KeyType
<1>1. CASE UNCHANGED <<row, deadSince, now>>
  BY <1>1
<1>2. ASSUME NEW i \in Replicas, LeaderRead(i) PROVE HitOK(e, r)'
  BY <1>2 DEF LeaderRead, ResolvedRow, Live
<1>3. CASE Suspend \/ Resume \/ Revoke
  BY <1>3 DEF Suspend, Resume, Revoke
<1>4. CASE Tick
  BY <1>4 DEF Tick, rowVars
<1>5. CASE Invalidate
  BY <1>1, <1>5 DEF Invalidate
<1>6. ASSUME NEW c \in Callers, CallerStep(c) PROVE UNCHANGED <<row, deadSince, now>>
  BY <1>6 DEF CallerStep, CacheHit, CacheMiss, Join, Abandon, Decide, SetApplied, SetFails,
              Finish, rowVars
<1>7. ASSUME NEW i \in Replicas, LeaderReturns(i) \/ LeaderFails(i)
      PROVE  UNCHANGED <<row, deadSince, now>>
  BY <1>7 DEF LeaderReturns, LeaderFails, FlightEnds, rowVars
<1>8. CASE UNCHANGED vars
  BY <1>1, <1>8 DEF vars
<1> QED
  BY <1>1, <1>2, <1>3, <1>4, <1>5, <1>6, <1>7, <1>8 DEF Next, FlightStep

\* So does a negative one.
LEMMA MissPreserved ==
    ASSUME TypeOK, RowInv, [Next]_vars, NEW r \in Nat, MissOK(r)
    PROVE  MissOK(r)'
<1> USE KeyCacheAssumption DEF TypeOK, RowInv, MissOK, LesserOf, KeyType
<1>1. CASE UNCHANGED <<row, liveSince, now>>
  BY <1>1
<1>2. ASSUME NEW i \in Replicas, LeaderRead(i) PROVE MissOK(r)'
  BY <1>2 DEF LeaderRead, ResolvedRow, Live
<1>3. CASE Suspend \/ Resume \/ Revoke
  BY <1>3 DEF Suspend, Resume, Revoke
<1>4. CASE Tick
  BY <1>4 DEF Tick, rowVars
<1>5. CASE Invalidate
  BY <1>1, <1>5 DEF Invalidate
<1>6. ASSUME NEW c \in Callers, CallerStep(c) PROVE UNCHANGED <<row, liveSince, now>>
  BY <1>6 DEF CallerStep, CacheHit, CacheMiss, Join, Abandon, Decide, SetApplied, SetFails,
              Finish, rowVars
<1>7. ASSUME NEW i \in Replicas, LeaderReturns(i) \/ LeaderFails(i)
      PROVE  UNCHANGED <<row, liveSince, now>>
  BY <1>7 DEF LeaderReturns, LeaderFails, FlightEnds, rowVars
<1>8. CASE UNCHANGED vars
  BY <1>1, <1>8 DEF vars
<1> QED
  BY <1>1, <1>2, <1>3, <1>4, <1>5, <1>6, <1>7, <1>8 DEF Next, FlightStep

\* So does a fillResult.
LEMMA FillPreserved ==
    ASSUME TypeOK, RowInv, [Next]_vars, NEW f \in Fill, FillOK(f)
    PROVE  FillOK(f)'
<1>1. f.expires \in Int /\ f.readAt \in Nat /\ f.hit \in BOOLEAN
  BY DEF Fill
<1>2. CASE f.hit
  BY <1>1, <1>2, HitPreserved DEF FillOK
<1>3. CASE ~f.hit
  BY <1>1, <1>3, MissPreserved DEF FillOK
<1> QED BY <1>1, <1>2, <1>3

\* Flights stay within the leader timeout and hold what they read.
LEMMA FlightInductive == TypeOK /\ RowInv /\ FlightInv /\ [Next]_vars => FlightInv'
<1> SUFFICES ASSUME TypeOK, RowInv, FlightInv, [Next]_vars,
                    NEW i \in Replicas
             PROVE  /\ fphase'[i] # "none" => /\ ffill'[i].anchor <= now'
                                              /\ now' <= ffill'[i].anchor + LeaderTimeout
                    /\ fphase'[i] = "read" => FillOK(ffill[i])'
  BY DEF FlightInv
<1> DEFINE Goal == /\ fphase'[i] # "none" => /\ ffill'[i].anchor <= now'
                                             /\ now' <= ffill'[i].anchor + LeaderTimeout
                   /\ fphase'[i] = "read" => FillOK(ffill[i])'
<1>a. /\ ffill[i] \in Fill /\ ffill[i].anchor \in Nat /\ now \in Nat
      /\ LeaderTimeout \in Nat
  BY KeyCacheAssumption DEF TypeOK, Fill
<1>b. FillOK(ffill[i]) => (ffill'[i] = ffill[i] => FillOK(ffill[i])')
  <2>1. ASSUME NEW f \in Fill, FillOK(f), ffill'[i] = f PROVE FillOK(ffill[i])'
    BY <2>1, FillPreserved DEF FillOK, HitOK, MissOK
  <2> QED BY <1>a, <2>1
<1>1. CASE UNCHANGED <<fphase, ffill, now>>
  BY <1>1, <1>a, <1>b DEF FlightInv
<1>2. ASSUME NEW c \in Callers, NEW j \in Replicas, Join(c, j) PROVE Goal
  <2>1. CASE fphase[i] = "none" /\ j = i
    <3>1. fphase'[i] = "anchored" /\ now' = now
      BY <1>2, <2>1 DEF Join, TypeOK
    <3>2. ffill'[i] = [NoFill EXCEPT !.anchor = now]
      BY <1>2, <2>1 DEF Join, TypeOK
    <3>3. ffill'[i].anchor = now
      BY <3>2 DEF NoFill
    <3> QED BY <3>1, <3>3, <1>a
  <2>2. CASE ~(fphase[i] = "none" /\ j = i)
    <3>1. fphase'[i] = fphase[i] /\ ffill'[i] = ffill[i] /\ now' = now
      BY <1>2, <2>2 DEF Join, TypeOK
    <3> QED BY <3>1, <1>a, <1>b DEF FlightInv
  <2> QED BY <2>1, <2>2
<1>3. ASSUME NEW j \in Replicas, LeaderRead(j) PROVE Goal
  <2>1. CASE j = i
    <3>1. /\ ffill'[i].anchor = ffill[i].anchor /\ ffill'[i].readAt = now
          /\ ffill'[i].hit = Live
          /\ ffill'[i].expires = IF Live THEN ResolvedRow.expires ELSE 0
      BY <1>3, <2>1 DEF LeaderRead, TypeOK
    <3>2. now' = now /\ fphase[i] = "anchored"
      BY <1>3, <2>1 DEF LeaderRead
    <3>3. CASE Live
      <4>1. row' = ResolvedRow /\ row.status = "active" /\ now < row.expires
        BY <1>3, <3>3 DEF LeaderRead, Live
      <4>2. ResolvedRow.status = "active"
        BY <4>1 DEF ResolvedRow
      <4>3. KeyType = "pk" =>
              ResolvedRow.expires >= LesserOf(now - Debounce + Window, Lifetime)
        BY KeyCacheAssumption DEF ResolvedRow, RowInv, TypeOK, LesserOf
      <4>4. HitOK(ffill[i].expires, ffill[i].readAt)'
        <5>1. row'.expires = ResolvedRow.expires /\ ResolvedRow.expires \in Int
          BY <4>1, KeyCacheAssumption DEF ResolvedRow, TypeOK, LesserOf
        <5>2. ffill'[i].expires = ResolvedRow.expires /\ ffill'[i].readAt = now
          BY <3>1, <3>3
        <5>3. KeyType' = KeyType
          BY <4>1 DEF ResolvedRow, KeyType
        <5> QED BY <3>2, <4>1, <4>2, <4>3, <5>1, <5>2, <5>3, <1>a DEF HitOK, LesserOf
      <4> QED BY <3>1, <3>2, <3>3, <4>4, <1>a DEF FlightInv, FillOK
    <3>4. CASE ~Live
      <4>1. row' = row /\ liveSince' = liveSince
        BY <1>3, <3>4 DEF LeaderRead
      <4>2. MissOK(now)'
        BY <3>2, <3>4, <4>1, KeyCacheAssumption DEF MissOK, Live, TypeOK, KeyType
      <4> QED BY <3>1, <3>2, <3>4, <4>2, <1>a DEF FlightInv, FillOK
    <3> QED BY <3>3, <3>4
  <2>2. CASE j # i
    <3>1. fphase'[i] = fphase[i] /\ ffill'[i] = ffill[i] /\ now' = now
      BY <1>3, <2>2 DEF LeaderRead, TypeOK
    <3> QED BY <3>1, <1>a, <1>b DEF FlightInv
  <2> QED BY <2>1, <2>2
<1>4. ASSUME NEW j \in Replicas, LeaderReturns(j) \/ LeaderFails(j) PROVE Goal
  <2>1. CASE j = i
    <3>1. fphase'[i] = "none"
      BY <1>4, <2>1 DEF LeaderReturns, LeaderFails, FlightEnds, TypeOK
    <3> QED BY <3>1
  <2>2. CASE j # i
    <3>1. fphase'[i] = fphase[i] /\ ffill'[i] = ffill[i] /\ now' = now
      BY <1>4, <2>2 DEF LeaderReturns, LeaderFails, FlightEnds, TypeOK
    <3> QED BY <3>1, <1>a, <1>b DEF FlightInv
  <2> QED BY <2>1, <2>2
<1>5. CASE Tick
  BY <1>5, <1>a, <1>b DEF Tick, flightVars, FlightInv
<1>6. CASE Suspend \/ Resume \/ Revoke \/ Invalidate
  BY <1>1, <1>6 DEF Suspend, Resume, Revoke, Invalidate, flightVars
<1>7. ASSUME NEW c \in Callers, CallerStep(c), ~(\E j \in Replicas : Join(c, j)) PROVE Goal
  BY <1>1, <1>7 DEF CallerStep, CacheHit, CacheMiss, Abandon, Decide, SetApplied, SetFails,
                    Finish, flightVars
<1>8. CASE UNCHANGED vars
  BY <1>1, <1>8 DEF vars
<1> QED
  BY <1>2, <1>3, <1>4, <1>5, <1>6, <1>7, <1>8 DEF Next, CallerStep, FlightStep

\* Callers hold recent fills, and a TTL measured from the fill's anchor.
LEMMA CallerInductive ==
    TypeOK /\ RowInv /\ FlightInv /\ CallerInv /\ [Next]_vars => CallerInv'
<1> SUFFICES ASSUME TypeOK, RowInv, FlightInv, CallerInv, [Next]_vars, NEW d \in Callers
             PROVE  CallerOK(d)'
  BY DEF CallerInv
<1>a. CallerOK(d)
  BY DEF CallerInv
<1>b. /\ got[d] \in Fill /\ got[d].anchor \in Nat /\ got[d].expires \in Int /\ got[d].readAt \in Nat
      /\ since[d] \in Nat /\ left[d] \in Int /\ now \in Nat
      /\ LeaderTimeout \in Nat /\ Lag \in Nat /\ TTL \in Nat
  BY KeyCacheAssumption DEF TypeOK, Fill
<1>c. \A f \in Fill : FillOK(f) /\ got'[d] = f => FillOK(got[d])'
  <2>1. ASSUME NEW f \in Fill, FillOK(f), got'[d] = f PROVE FillOK(got[d])'
    BY <2>1, FillPreserved DEF FillOK, HitOK, MissOK
  <2> QED BY <2>1
<1>1. ASSUME pc'[d] = pc[d], got'[d] = got[d], left'[d] = left[d], since'[d] = since[d], now' = now
      PROVE  CallerOK(d)'
  BY <1>1, <1>a, <1>b, <1>c DEF CallerOK
<1>2. ASSUME pc'[d] \notin {"fill", "set"} PROVE CallerOK(d)'
  BY <1>2 DEF CallerOK
<1>3. ASSUME NEW c \in Callers, CallerStep(c), ~Decide(c) PROVE CallerOK(d)'
  <2>1. CASE c = d
    <3>1. pc'[d] \notin {"fill", "set"}
      BY <1>3, <2>1 DEF CallerStep, CacheHit, CacheMiss, Join, Abandon, SetApplied, SetFails,
                        Finish, Answer, Goto, TypeOK
    <3> QED BY <1>2, <3>1
  <2>2. CASE c # d
    <3>1. pc'[d] = pc[d] /\ since'[d] = since[d] /\ now' = now
      BY <1>3, <2>2 DEF CallerStep, CacheHit, CacheMiss, Join, Abandon, SetApplied, SetFails,
                        Finish, Answer, Goto, TypeOK
    <3>2. got'[d] = got[d] /\ left'[d] = left[d]
      BY <1>3, <2>2 DEF CallerStep, CacheHit, CacheMiss, Join, Abandon, SetApplied, SetFails,
                        Finish, Answer, TypeOK
    <3> QED BY <1>1, <3>1, <3>2
  <2> QED BY <2>1, <2>2
<1>4. ASSUME NEW c \in Callers, Decide(c) PROVE CallerOK(d)'
  <2>1. CASE c # d
    <3>1. pc'[d] = pc[d] /\ since'[d] = since[d] /\ now' = now
      BY <1>4, <2>1 DEF Decide, Answer, Goto, TypeOK
    <3>2. got'[d] = got[d] /\ left'[d] = left[d]
      BY <1>4, <2>1 DEF Decide, Answer, Goto, TypeOK
    <3> QED BY <1>1, <3>1, <3>2
  <2>2. CASE c = d /\ (Answer(d, "refused") \/ Answer(d, "admitted"))
    BY <2>2, <1>2 DEF Answer, Goto, TypeOK
  <2>3. ASSUME c = d, got[d].hit, now < got[d].expires, Remaining(got[d]) > 0, Goto(d, "set"),
               left' = [left EXCEPT ![d] = Remaining(got[d])], UNCHANGED got
        PROVE  CallerOK(d)'
    <3>1. pc[d] = "fill" /\ now' = now
      BY <1>4, <2>3 DEF Decide
    <3>2. pc'[d] = "set" /\ since'[d] = now /\ left'[d] = Remaining(got[d]) /\ got'[d] = got[d]
      BY <2>3 DEF Goto, Timed, TypeOK
    <3>3. /\ Remaining(got[d]) \in Int
          /\ Remaining(got[d]) <= TTL - (now - got[d].anchor)
          /\ Remaining(got[d]) <= got[d].expires - now
      BY <1>b DEF Remaining, LesserOf
    <3>4. FillOK(got[d])'
      BY <1>a, <1>b, <1>c, <3>1, <3>2 DEF CallerOK
    <3> HIDE DEF Remaining
    <3>5. /\ since'[d] <= now' /\ now' <= since'[d] + Lag
          /\ since'[d] <= got'[d].anchor + LeaderTimeout + Lag
      <4>1. now <= since[d] + Lag /\ since[d] <= got[d].anchor + LeaderTimeout
        BY <1>a, <3>1 DEF CallerOK
      <4>2. now \in Int /\ since[d] \in Int /\ got[d].anchor \in Int
        BY <1>b
      <4>3. now <= now /\ now <= now + Lag /\ now <= got[d].anchor + LeaderTimeout + Lag
        BY Zenon, <4>1, <4>2, SinceNow
      <4> QED BY <3>1, <3>2, <4>3
    <3>6. /\ got'[d].hit /\ since'[d] < got'[d].expires /\ left'[d] > 0
          /\ left'[d] <= TTL - (since'[d] - got'[d].anchor)
          /\ left'[d] <= got'[d].expires - since'[d]
      BY <2>3, <3>2, <3>3
    <3> QED BY <3>2, <3>4, <3>5, <3>6 DEF CallerOK
  <2> QED BY <1>4, <2>1, <2>2, <2>3 DEF Decide
<1>5. ASSUME NEW i \in Replicas, LeaderReturns(i) PROVE CallerOK(d)'
  <2>1. CASE d \in fjoined[i]
    <3>1. pc'[d] = "fill" /\ since'[d] = now /\ now' = now /\ got'[d] = ffill[i]
      BY <1>5, <2>1 DEF LeaderReturns, FlightEnds, Timed
    <3>2. /\ ffill[i] \in Fill /\ FillOK(ffill[i])
          /\ now <= ffill[i].anchor + LeaderTimeout
      BY <1>5 DEF LeaderReturns, FlightInv, TypeOK
    <3>3. FillOK(got[d])'
      BY <1>c, <3>1, <3>2
    <3> QED BY <1>b, <3>1, <3>2, <3>3 DEF CallerOK
  <2>2. CASE d \notin fjoined[i]
    <3>1. /\ pc'[d] = pc[d] /\ since'[d] = since[d] /\ now' = now /\ got'[d] = got[d]
          /\ left'[d] = left[d]
      BY <1>5, <2>2 DEF LeaderReturns, FlightEnds
    <3> QED BY <1>1, <3>1
  <2> QED BY <2>1, <2>2
<1>6. ASSUME NEW i \in Replicas, LeaderFails(i) PROVE CallerOK(d)'
  <2>1. CASE d \in fjoined[i]
    BY <1>2, <1>6, <2>1 DEF LeaderFails, FlightEnds
  <2>2. CASE d \notin fjoined[i]
    <3>1. /\ pc'[d] = pc[d] /\ since'[d] = since[d] /\ now' = now /\ got'[d] = got[d]
          /\ left'[d] = left[d]
      BY <1>6, <2>2 DEF LeaderFails, FlightEnds
    <3> QED BY <1>1, <3>1
  <2> QED BY <2>1, <2>2
<1>7. ASSUME NEW i \in Replicas, LeaderRead(i) PROVE CallerOK(d)'
  BY <1>1, <1>7 DEF LeaderRead, callerVars
<1>8. CASE Tick
  BY <1>8, <1>a, <1>b, <1>c DEF Tick, callerVars, CallerOK
<1>9. CASE Suspend \/ Resume \/ Revoke \/ Invalidate
  BY <1>1, <1>9 DEF Suspend, Resume, Revoke, Invalidate, callerVars
<1>10. CASE UNCHANGED vars
  BY <1>1, <1>10 DEF vars
<1> QED
  BY <1>3, <1>4, <1>5, <1>6, <1>7, <1>8, <1>9, <1>10 DEF Next, FlightStep

\* The entry never outlives the ceiling measured from its read.
LEMMA CacheInductive ==
    TypeOK /\ RowInv /\ CallerInv /\ CacheInv /\ [Next]_vars => CacheInv'
<1> SUFFICES ASSUME TypeOK, RowInv, CallerInv, CacheInv, [Next]_vars PROVE CacheInv'
  OBVIOUS
<1>a. /\ redis.expires \in Int /\ redis.until \in Int /\ redis.readAt \in Nat /\ now \in Nat
      /\ TTL \in Nat /\ Lag \in Nat
  BY KeyCacheAssumption DEF TypeOK
<1>b. ASSUME redis.full, redis' = redis PROVE HitOK(redis.expires, redis.readAt)'
  <2>1. ASSUME NEW e \in Int, NEW r \in Nat, HitOK(e, r), redis'.expires = e, redis'.readAt = r
        PROVE  HitOK(redis.expires, redis.readAt)'
    BY <2>1, HitPreserved DEF HitOK
  <2> QED BY <1>a, <1>b, <2>1 DEF CacheInv
<1>1. CASE redis' = redis /\ now' = now
  BY <1>1, <1>b DEF CacheInv
<1>2. CASE redis' = NoEntry
  BY <1>2 DEF CacheInv, NoEntry
<1>3. ASSUME NEW c \in Callers, SetApplied(c) PROVE CacheInv'
  <2>1. /\ got[c] \in Fill /\ got[c].anchor \in Nat /\ got[c].expires \in Int
        /\ got[c].readAt \in Nat /\ since[c] \in Nat /\ left[c] \in Int
    BY DEF TypeOK, Fill
  <2>2. CallerOK(c) /\ pc[c] = "set" /\ now' = now
    BY <1>3 DEF CallerInv, SetApplied
  <2>3. /\ redis'.full /\ redis'.expires = got[c].expires
        /\ redis'.until = now + left[c] /\ redis'.readAt = got[c].readAt
    BY <1>3 DEF SetApplied
  <2>4. HitOK(redis.expires, redis.readAt)'
    <3>1. ASSUME NEW e \in Int, NEW r \in Nat, HitOK(e, r), redis'.expires = e, redis'.readAt = r
          PROVE  HitOK(redis.expires, redis.readAt)'
      BY <3>1, HitPreserved DEF HitOK
    <3> QED BY <2>1, <2>2, <2>3, <3>1 DEF CallerOK, FillOK
  <2> QED BY SMTT(30), <1>a, <2>1, <2>2, <2>3, <2>4 DEF CallerOK, CacheInv, FillOK
<1>4. ASSUME NEW c \in Callers, CallerStep(c), ~SetApplied(c) PROVE CacheInv'
  BY <1>1, <1>4 DEF CallerStep, CacheHit, CacheMiss, Join, Abandon, Decide, SetFails, Finish
<1>5. ASSUME NEW i \in Replicas, FlightStep(i) PROVE CacheInv'
  BY <1>1, <1>5 DEF FlightStep, LeaderRead, LeaderReturns, LeaderFails, FlightEnds
<1>6. CASE Suspend \/ Resume \/ Revoke
  BY <1>1, <1>6 DEF Suspend, Resume, Revoke
<1>7. CASE Invalidate
  BY <1>1, <1>2, <1>7 DEF Invalidate
<1>8. CASE Tick
  BY <1>2, <1>8, <1>a, <1>b DEF Tick, CacheInv
<1>9. CASE UNCHANGED vars
  BY <1>1, <1>9 DEF vars
<1> QED
  BY <1>3, <1>4, <1>5, <1>6, <1>7, <1>8, <1>9 DEF Next

-----------------------------------------------------------------------------

\* The initial states satisfy the invariant.
LEMMA InitIInv == Init => IInv
<1> SUFFICES ASSUME Init PROVE IInv
  OBVIOUS
<1>1. NoFill \in Fill
  BY DEF NoFill, Fill
<1>2. NoEntry \in [full : BOOLEAN, expires : Int, until : Int, readAt : Nat] /\ ~NoEntry.full
  BY DEF NoEntry
<1>3. PICK t \in KeyTypes : \E e \in IF t = "pk" THEN {LesserOf(Window, Lifetime)} ELSE Expiries :
         row = [table |-> t, status |-> "active", lastUsed |-> NeverUsed, expires |-> e]
  BY Zenon DEF Init
<1>3a. PICK e \in IF t = "pk" THEN {LesserOf(Window, Lifetime)} ELSE Expiries :
         row = [table |-> t, status |-> "active", lastUsed |-> NeverUsed, expires |-> e]
  BY <1>3
<1>3b. /\ row \in [table : {"ek", "pk"}, status : {"active", "suspended", "revoked"},
                  lastUsed : Int, expires : Int]
       /\ row.table = "pk" => row.expires = LesserOf(Window, Lifetime)
       /\ row.lastUsed = NeverUsed /\ row.status = "active"
  <2>1. NeverUsed \in Int /\ e \in Int
    BY KeyCacheAssumption DEF NeverUsed, LesserOf
  <2> QED BY <1>3a, <2>1, KeyCacheAssumption
<1>4. TypeOK
  BY <1>1, <1>2, <1>3b DEF Init, TypeOK, Phases, Stages
<1>5. RowInv
  BY <1>3b, KeyCacheAssumption DEF Init, RowInv, KeyType, NeverUsed, LesserOf
<1>6. FlightInv /\ CallerInv /\ CacheInv
  BY <1>2 DEF Init, FlightInv, CallerInv, CallerOK, CacheInv
<1> QED BY <1>4, <1>5, <1>6 DEF IInv

\* Every reachable state of the resolver satisfies the inductive invariant.
THEOREM Invariance == Spec => []IInv
<1>1. IInv /\ [Next]_vars => IInv'
  BY TypeInductive, RowInductive, FlightInductive, CallerInductive, CacheInductive DEF IInv
<1> QED BY <1>1, InitIInv, PTL DEF Spec

\* The variables of the resolver always have their types.
THEOREM TypeCorrect == Spec => []TypeOK
<1>1. IInv => TypeOK
  BY DEF IInv
<1> QED BY <1>1, Invariance, PTL

\* A caller is admitted by the cache or from a fill that is at most
\* LeaderTimeout + 2 Lag old; in both cases the row was live at the read.
LEMMA AdmissionFromRead ==
    ASSUME IInv, [Next]_vars, NEW c \in Callers, Admits(c)
    PROVE  /\ now < row.expires + Lag
           /\ row.status # "active" => now <= deadSince + AdmissionBound
<1> USE KeyCacheAssumption
<1>a. /\ TypeOK /\ CallerOK(c) /\ CacheInv /\ now \in Nat /\ row.expires \in Int /\ deadSince \in Nat
      /\ redis.expires \in Int /\ redis.until \in Int /\ redis.readAt \in Nat
      /\ since[c] \in Nat /\ got[c].anchor \in Nat /\ got[c].readAt \in Nat
      /\ got[c].expires \in Int /\ got[c].hit \in BOOLEAN
  BY DEF IInv, TypeOK, Fill, CallerInv
<1>b. /\ AdmissionBound \in Nat /\ AdmissionBound >= TTL + Lag
      /\ AdmissionBound >= LeaderTimeout + Lag + Lag
  BY DEF AdmissionBound
<1>1. CASE CacheHit(c)
  <2>1. redis.full /\ now < redis.expires
    BY <1>1, <1>a DEF CacheHit, Answer, Goto, Admits, TypeOK
  <2> QED BY <2>1, <1>a, <1>b DEF CacheInv, HitOK
<1>2. CASE Decide(c)
  <2>1. pc[c] = "fill" /\ got[c].hit /\ now < got[c].expires
    BY <1>2, <1>a DEF Decide, Answer, Goto, Admits, TypeOK
  <2>2. /\ HitOK(got[c].expires, got[c].readAt) /\ got[c].anchor <= got[c].readAt
        /\ now <= since[c] + Lag /\ since[c] <= got[c].anchor + LeaderTimeout
    BY Zenon, <2>1, <1>a DEF CallerOK, FillOK
  <2>3. now <= got[c].readAt + LeaderTimeout + Lag
    <3>1. now \in Int /\ since[c] \in Int /\ got[c].anchor \in Int /\ got[c].readAt \in Int
      BY <1>a
    <3> QED BY Zenon, <2>2, <3>1, FillAge
  <2>4. got[c].expires <= row.expires /\ (row.status # "active" => got[c].readAt <= deadSince)
    BY <2>2 DEF HitOK
  <2> QED BY <2>1, <2>3, <2>4, <1>a, <1>b
<1>3. CASE SetApplied(c) \/ SetFails(c)
  <2>1. pc[c] = "set"
    BY <1>3 DEF SetApplied, SetFails
  <2> QED BY <2>1, <1>a, <1>b DEF CallerOK, FillOK, HitOK
<1>4. CASE CacheMiss(c) \/ (\E i \in Replicas : Join(c, i)) \/ Abandon(c) \/ Finish(c)
  BY <1>4, <1>a DEF CacheMiss, Join, Abandon, Finish, Answer, Goto, Admits, TypeOK
<1>5. ASSUME NEW d \in Callers, CallerStep(d), d # c PROVE FALSE
  BY <1>5, <1>a DEF CallerStep, CacheHit, CacheMiss, Join, Abandon, Decide, SetApplied, SetFails,
                    Finish, Answer, Goto, Admits, TypeOK
<1>6. ASSUME NEW i \in Replicas, FlightStep(i) PROVE FALSE
  BY <1>6 DEF FlightStep, LeaderRead, LeaderReturns, LeaderFails, FlightEnds, callerVars, Admits
<1>7. CASE Suspend \/ Resume \/ Revoke \/ Invalidate \/ Tick \/ UNCHANGED vars
  BY <1>7 DEF Suspend, Resume, Revoke, Invalidate, Tick, callerVars, vars, Admits
<1> QED
  BY <1>1, <1>2, <1>3, <1>4, <1>5, <1>6, <1>7 DEF Next, CallerStep

\* The revocation-propagation guarantee, whatever the number of replicas and
\* the fate of the DEL.
THEOREM RevocationPropagation == Spec => RevocationPropagates
<1>1. IInv /\ [Next]_vars =>
        [\A c \in Callers :
            (Admits(c) /\ row.status # "active") => now <= deadSince + AdmissionBound]_vars
  <2> SUFFICES ASSUME IInv, [Next]_vars, NEW c \in Callers, Admits(c), row.status # "active"
               PROVE  now <= deadSince + AdmissionBound
    OBVIOUS
  <2> QED BY AdmissionFromRead
<1> QED BY <1>1, Invariance, PTL DEF Spec, RevocationPropagates

\* No request is admitted once the row's expiry, or the 90-day cap, has passed.
THEOREM ExpiryEnforced == Spec => NeverAdmittedPastExpiry
<1>1. IInv /\ [Next]_vars =>
        [\A c \in Callers :
            Admits(c) => /\ now < row.expires + Lag
                         /\ KeyType = "pk" => now < Lifetime + Lag]_vars
  <2> SUFFICES ASSUME IInv, [Next]_vars, NEW c \in Callers, Admits(c)
               PROVE  /\ now < row.expires + Lag
                      /\ KeyType = "pk" => now < Lifetime + Lag
    OBVIOUS
  <2>1. now < row.expires + Lag
    BY AdmissionFromRead
  <2>2. KeyType = "pk" => row.expires <= Lifetime
    BY DEF IInv, RowInv
  <2> QED BY <2>1, <2>2, KeyCacheAssumption DEF IInv, TypeOK
<1> QED BY <1>1, Invariance, PTL DEF Spec, NeverAdmittedPastExpiry

\* A live key is refused only by a flight older than its resume: neither a
\* negative nor an outdated expiry is ever served from the cache.
THEOREM NoLastingRefusal == Spec => LiveKeyRefusedOnlyBriefly
<1>1. ASSUME IInv, [Next]_vars, NEW c \in Callers, Refuses(c), Live
      PROVE  now <= liveSince + LeaderTimeout + Lag
  <2> USE KeyCacheAssumption, WindowAssumption
  <2>a. /\ TypeOK /\ CallerOK(c) /\ CacheInv /\ RowInv /\ now \in Nat /\ row.expires \in Int
        /\ liveSince \in Nat /\ redis.expires \in Int /\ redis.until \in Int
        /\ redis.readAt \in Nat /\ since[c] \in Nat /\ got[c].anchor \in Nat
        /\ got[c].readAt \in Nat /\ got[c].expires \in Int /\ got[c].hit \in BOOLEAN
        /\ KeyType \in {"ek", "pk"}
    BY <1>1 DEF IInv, TypeOK, Fill, CallerInv, KeyType
  <2>1. CASE CacheHit(c)
    <3>1. redis.full /\ ~(now < redis.expires)
      BY <1>1, <2>1, <2>a DEF CacheHit, Answer, Goto, Refuses, TypeOK
    <3> QED BY <1>1, <3>1, <2>a DEF CacheInv, HitOK, Live, LesserOf
  <2>2. CASE Decide(c)
    <3>1. pc[c] = "fill" /\ (~got[c].hit \/ now >= got[c].expires)
      BY <1>1, <2>2, <2>a DEF Decide, Answer, Goto, Refuses, TypeOK
    <3>2. CASE ~got[c].hit
      <4>1. MissOK(got[c].readAt)
            BY <3>1, <3>2, <2>a DEF CallerOK, FillOK
      <4>2. now >= got[c].readAt
            BY <4>1, <2>a DEF MissOK
      <4>3. got[c].readAt <= liveSince
            BY <1>1, <4>1, <4>2, <2>a DEF MissOK, Live
      <4>4. now <= since[c] + Lag /\ since[c] <= got[c].anchor + LeaderTimeout
            /\ got[c].anchor <= got[c].readAt
            BY <3>1, <2>a DEF CallerOK, FillOK
      <4>5. /\ now \in Nat /\ since[c] \in Nat /\ got[c].anchor \in Nat /\ got[c].readAt \in Nat
            /\ liveSince \in Nat /\ Lag \in Nat /\ LeaderTimeout \in Nat
            BY <2>a
      <4> QED BY <4>3, <4>4, <4>5
    <3>3. CASE got[c].hit /\ now >= got[c].expires
      <4>1. HitOK(got[c].expires, got[c].readAt)
            BY <3>1, <3>3, <2>a DEF CallerOK, FillOK
      <4>2. now <= got[c].readAt + LeaderTimeout + Lag
        <5>1. /\ got[c].anchor <= got[c].readAt /\ now <= since[c] + Lag
              /\ since[c] <= got[c].anchor + LeaderTimeout
              BY Zenon, <3>1, <2>a DEF CallerOK, FillOK
        <5>2. now \in Int /\ since[c] \in Int /\ got[c].anchor \in Int /\ got[c].readAt \in Int
              BY <2>a
        <5> QED BY Zenon, <5>1, <5>2, FillAge
      <4>3. KeyType = "pk" /\ got[c].expires >= LesserOf(got[c].readAt - Debounce + Window, Lifetime)
        <5>1. now < row.expires
              BY <1>1 DEF Live
        <5>2. got[c].expires # row.expires
              BY <3>3, <5>1, <2>a
        <5>3. KeyType # "ek"
              BY <4>1, <5>2 DEF HitOK
        <5>4. KeyType = "pk"
              BY <5>3, <2>a
        <5> QED BY <4>1, <5>4 DEF HitOK
      <4> QED BY <1>1, <3>3, <4>2, <4>3, <2>a DEF Live, LesserOf
    <3> QED BY <3>1, <3>2, <3>3, <2>a
  <2>3. CASE CacheMiss(c) \/ (\E i \in Replicas : Join(c, i)) \/ Abandon(c)
             \/ SetApplied(c) \/ SetFails(c) \/ Finish(c)
    BY <1>1, <2>3, <2>a DEF CacheMiss, Join, Abandon, SetApplied, SetFails, Finish,
                            Answer, Goto, Refuses, TypeOK
  <2>4. ASSUME NEW d \in Callers, CallerStep(d), d # c PROVE FALSE
    BY <1>1, <2>4, <2>a DEF CallerStep, CacheHit, CacheMiss, Join, Abandon, Decide, SetApplied,
                            SetFails, Finish, Answer, Goto, Refuses, TypeOK
  <2>5. ASSUME NEW i \in Replicas, FlightStep(i) PROVE FALSE
    BY <1>1, <2>5 DEF FlightStep, LeaderRead, LeaderReturns, LeaderFails, FlightEnds,
                      callerVars, Refuses
  <2>6. CASE Suspend \/ Resume \/ Revoke \/ Invalidate \/ Tick \/ UNCHANGED vars
    BY <1>1, <2>6 DEF Suspend, Resume, Revoke, Invalidate, Tick, callerVars, vars, Refuses
  <2> QED
    BY <1>1, <2>1, <2>2, <2>3, <2>4, <2>5, <2>6 DEF Next, CallerStep
<1>2. IInv /\ [Next]_vars =>
        [\A c \in Callers :
            (Refuses(c) /\ Live) => now <= liveSince + LeaderTimeout + Lag]_vars
  BY <1>1
<1> QED BY <1>2, Invariance, PTL DEF Spec, LiveKeyRefusedOnlyBriefly
=============================================================================
