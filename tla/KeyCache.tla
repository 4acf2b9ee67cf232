------------------------------ MODULE KeyCache ------------------------------
(***************************************************************************)
(* Request-time resolution of one credential: the Redis read-through cache *)
(* of internal/keystore in front of the Postgres lookup, shared by several *)
(* replicas, while the key-management handlers flip the row and DEL the    *)
(* entry.  Time is a discrete clock; deadlines the code enforces (the      *)
(* singleflight leader timeout) and the scheduling delay it tolerates (Lag)*)
(* are guards of Tick.                                                     *)
(***************************************************************************)
EXTENDS Integers

CONSTANTS
    Replicas,       \* processes, each with its own singleflight group
    Callers,        \* concurrent requests presenting the credential
    KeyTypes,       \* the kinds of key considered, of "ek" and "pk"
    TTL,            \* defaultTTL
    LeaderTimeout,  \* sfLeaderTimeout
    Lag,            \* longest delay of a scheduled goroutine or a Redis write
    Window,         \* pk_: sliding window (7 days)
    Debounce,       \* pk_: last_used_at debounce (5 minutes)
    Lifetime,       \* pk_: created_at + 90 days, the row being created at 0
    Expiries,       \* ek_: the expires_at values considered
    MaxDels,        \* bound on handlers between their flip and their DEL
    MaxTime         \* bound on the clock

\* A time no run reaches: the expires_at of a perpetual ek_.
Never == MaxTime + 1

ASSUME KeyCacheAssumption ==
    /\ KeyTypes \subseteq {"ek", "pk"}
    /\ TTL \in Nat \ {0}
    /\ LeaderTimeout \in Nat
    /\ Lag \in Nat
    /\ Window \in Nat
    /\ Debounce \in Nat
    /\ Lifetime \in Nat
    /\ Expiries \subseteq Nat
    /\ MaxDels \in Nat
    /\ MaxTime \in Nat

\* The sliding window dwarfs every delay of the resolver: 7 days against
\* 5 minutes, 60 seconds and 10 seconds.
ASSUME WindowAssumption ==
    /\ Window > Debounce + TTL + Lag
    /\ Window > Debounce + LeaderTimeout + Lag + Lag

VARIABLES
    now,        \* wall clock
    row,        \* the personal_keys / environment_keys row
    deadSince,  \* history: when the status last left 'active'
    liveSince,  \* history: when the status last became 'active'
    dels,       \* Redis DELs of key handlers still to be issued
    redis,      \* the cache entry
    fphase,     \* per replica: the singleflight in progress
    ffill,      \* per replica: the leader's fillResult
    fjoined,    \* per replica: the callers waiting for the flight
    pc,         \* per caller: where Resolve stands
    got,        \* per caller: the fillResult received from the flight
    left,       \* per caller: the TTL computed for the SET
    since       \* per caller: when the caller reached its pc

rowVars == <<row, deadSince, liveSince, dels>>
flightVars == <<fphase, ffill, fjoined>>
callerVars == <<pc, got, left, since>>
vars == <<now, row, deadSince, liveSince, dels, redis,
          fphase, ffill, fjoined, pc, got, left, since>>

\* What a lookup returned (hit is info # nil), with the clock before the read
\* (anchor) and, as history, the clock at the read.
Fill == [hit : BOOLEAN, expires : Int, anchor : Nat, readAt : Nat]
NoFill == [hit |-> FALSE, expires |-> 0, anchor |-> 0, readAt |-> 0]

\* The Redis key is absent.
NoEntry == [full |-> FALSE, expires |-> 0, until |-> 0, readAt |-> 0]

Phases == {"none", "anchored", "read"}
Answered == {"admitted", "refused"}
Stages == {"idle", "join", "wait", "fill", "set"} \cup Answered

\* The stages whose entry time matters.
Timed == {"fill", "set"}

\* last_used_at IS NULL.
NeverUsed == -(Debounce + 1)

\* The table the key's row is in: personal_keys or environment_keys.
KeyType == row.table

LesserOf(a, b) == IF a < b THEN a ELSE b

-----------------------------------------------------------------------------

\* EkResolve and the candidate CTE of checkAndExtend: status and expiry decide.
Live ==
    /\ row.status = "active"
    /\ now < row.expires
    /\ KeyType = "pk" => now < Lifetime

\* Mutant: the slide forgets the 90-day cap.
ResolvedRowUncapped ==
    IF KeyType = "pk" /\ row.lastUsed < now - Debounce
    THEN [table |-> row.table, status |-> row.status, lastUsed |-> now,
          expires |-> now + Window]
    ELSE row

\* checkAndExtend slides a pk_ whose last use is older than the debounce, never
\* past created_at + 90 days; an ek_ lookup leaves the expiry alone.
ResolvedRow ==
    IF KeyType = "pk" /\ row.lastUsed < now - Debounce
    THEN [table |-> row.table, status |-> row.status, lastUsed |-> now,
          expires |-> LesserOf(now + Window, Lifetime)]
    ELSE row

Init ==
    /\ now = 0
    /\ \E t \in KeyTypes :
          \E e \in IF t = "pk" THEN {LesserOf(Window, Lifetime)} ELSE Expiries :
             row = [table |-> t, status |-> "active", lastUsed |-> NeverUsed, expires |-> e]
    /\ deadSince = 0
    /\ liveSince = 0
    /\ dels = 0
    /\ redis = NoEntry
    /\ fphase = [i \in Replicas |-> "none"]
    /\ ffill = [i \in Replicas |-> NoFill]
    /\ fjoined = [i \in Replicas |-> {}]
    /\ pc = [c \in Callers |-> "idle"]
    /\ got = [c \in Callers |-> NoFill]
    /\ left = [c \in Callers |-> 0]
    /\ since = [c \in Callers |-> 0]

-----------------------------------------------------------------------------
(* Requests *)

Goto(c, stage) ==
    /\ pc' = [pc EXCEPT ![c] = stage]
    /\ since' = [since EXCEPT ![c] = IF stage \in Timed THEN now ELSE 0]

\* A caller leaves Resolve: its locals are gone.
Answer(c, stage) ==
    /\ Goto(c, stage)
    /\ got' = [got EXCEPT ![c] = NoFill]
    /\ left' = [left EXCEPT ![c] = 0]

\* A new request calls Resolve and hits the cache: an entry whose ExpiresAt
\* passed is refused without asking the database.
CacheHit(c) ==
    /\ pc[c] = "idle"
    /\ redis.full
    /\ Answer(c, IF now < redis.expires THEN "admitted" ELSE "refused")
    /\ UNCHANGED <<now, rowVars, redis, flightVars>>

\* A new request misses, or its GET fails: both fall through to the lookup.
CacheMiss(c) ==
    /\ pc[c] = "idle"
    /\ Goto(c, "join")
    /\ UNCHANGED <<now, rowVars, redis, flightVars, got, left>>

\* sfdetach.Do on the replica the request was routed to: join its flight, or
\* lead one, which takes the anchor.
Join(c, i) ==
    /\ pc[c] = "join"
    /\ Goto(c, "wait")
    /\ fjoined' = [fjoined EXCEPT ![i] = @ \cup {c}]
    /\ IF fphase[i] = "none"
       THEN /\ fphase' = [fphase EXCEPT ![i] = "anchored"]
            /\ ffill' = [ffill EXCEPT ![i] = [NoFill EXCEPT !.anchor = now]]
       ELSE UNCHANGED <<fphase, ffill>>
    /\ UNCHANGED <<now, rowVars, redis, got, left>>

\* The caller's own context ends while it waits; the flight goes on.
Abandon(c) ==
    /\ pc[c] = "wait"
    /\ Answer(c, "idle")
    /\ fjoined' = [i \in Replicas |-> fjoined[i] \ {c}]
    /\ UNCHANGED <<now, rowVars, redis, fphase, ffill>>

\* Mutant: the fill carries the expiry from before the slide.
LeaderReadOldExpiry(i) ==
    /\ fphase[i] = "anchored"
    /\ fphase' = [fphase EXCEPT ![i] = "read"]
    /\ ffill' = [ffill EXCEPT ![i] = [hit |-> Live, anchor |-> ffill[i].anchor,
                                     readAt |-> now, expires |-> row.expires]]
    /\ row' = IF Live THEN ResolvedRow ELSE row
    /\ UNCHANGED <<now, deadSince, liveSince, dels, redis, fjoined, callerVars>>

\* The leader's SQL statement commits.
LeaderRead(i) ==
    /\ fphase[i] = "anchored"
    /\ fphase' = [fphase EXCEPT ![i] = "read"]
    /\ ffill' = [ffill EXCEPT ![i] =
                    [hit |-> Live, anchor |-> ffill[i].anchor, readAt |-> now,
                     expires |-> IF Live THEN ResolvedRow.expires ELSE 0]]
    /\ row' = IF Live THEN ResolvedRow ELSE row
    /\ UNCHANGED <<now, deadSince, liveSince, dels, redis, fjoined, callerVars>>

\* The flight ends with the stage its waiting callers go to.
FlightEnds(i, stage, fill) ==
    /\ fphase' = [fphase EXCEPT ![i] = "none"]
    /\ ffill' = [ffill EXCEPT ![i] = NoFill]
    /\ fjoined' = [fjoined EXCEPT ![i] = {}]
    /\ pc' = [c \in Callers |-> IF c \in fjoined[i] THEN stage ELSE pc[c]]
    /\ got' = [c \in Callers |-> IF c \in fjoined[i] THEN fill ELSE got[c]]
    /\ since' = [c \in Callers |-> IF c \in fjoined[i] /\ stage \in Timed THEN now ELSE since[c]]
    /\ UNCHANGED <<now, rowVars, redis, left>>

\* Every joined caller receives the leader's fillResult, anchor included.
LeaderReturns(i) ==
    /\ fphase[i] = "read"
    /\ FlightEnds(i, "fill", ffill[i])

\* The lookup fails or meets the leader timeout: every joined caller fails.
LeaderFails(i) ==
    /\ fphase[i] # "none"
    /\ FlightEnds(i, "idle", NoFill)

\* Mutant: a slow fill gets a fresh TTL.
RemainingFromSet(f) == LesserOf(TTL, f.expires - now)

\* What is left of the ceiling, measured from the anchor and capped by the expiry.
Remaining(f) == LesserOf(TTL - (now - f.anchor), f.expires - now)

\* The code after the flight: refuse, answer uncached, or go on to the SET.
Decide(c) ==
    LET f == got[c] IN
    /\ pc[c] = "fill"
    /\ \/ /\ ~f.hit \/ now >= f.expires
          /\ Answer(c, "refused")
       \/ /\ f.hit /\ now < f.expires /\ Remaining(f) <= 0
          /\ Answer(c, "admitted")
       \/ /\ f.hit /\ now < f.expires /\ Remaining(f) > 0
          /\ Goto(c, "set")
          /\ left' = [left EXCEPT ![c] = Remaining(f)]
          /\ UNCHANGED got
    /\ UNCHANGED <<now, rowVars, redis, flightVars>>

\* Redis applies the SET; its TTL counts from this moment.
SetApplied(c) ==
    /\ pc[c] = "set"
    /\ redis' = [full |-> TRUE, expires |-> got[c].expires,
                 until |-> now + left[c], readAt |-> got[c].readAt]
    /\ Answer(c, "admitted")
    /\ UNCHANGED <<now, rowVars, flightVars>>

\* The SET is best-effort: without it the caller is answered all the same.
SetFails(c) ==
    /\ pc[c] = "set"
    /\ Answer(c, "admitted")
    /\ UNCHANGED <<now, rowVars, redis, flightVars>>

\* The answered request is over; the client may send another.
Finish(c) ==
    /\ pc[c] \in Answered
    /\ Goto(c, "idle")
    /\ UNCHANGED <<now, rowVars, redis, flightVars, got, left>>

-----------------------------------------------------------------------------
(* Key management and time *)

\* SuspendEnvironmentKey, then the DEL still to come.  The handler looked at
\* the expiry before; the statement itself only asks for 'active'.
Suspend ==
    /\ KeyType = "ek"
    /\ row.status = "active"
    /\ dels < MaxDels
    /\ row' = [row EXCEPT !.status = "suspended"]
    /\ deadSince' = now
    /\ dels' = dels + 1
    /\ UNCHANGED <<now, liveSince, redis, flightVars, callerVars>>

\* ResumeEnvironmentKey: suspended and not expired.
Resume ==
    /\ KeyType = "ek"
    /\ row.status = "suspended" /\ now < row.expires
    /\ dels < MaxDels
    /\ row' = [row EXCEPT !.status = "active"]
    /\ liveSince' = now
    /\ dels' = dels + 1
    /\ UNCHANGED <<now, deadSince, redis, flightVars, callerVars>>

\* RevokeEnvironmentKey (from any other status, followed by a DEL) and
\* RevokePersonalKey (from active, no DEL).
Revoke ==
    /\ IF KeyType = "ek" THEN row.status # "revoked" ELSE row.status = "active"
    /\ dels < MaxDels
    /\ row' = [row EXCEPT !.status = "revoked"]
    /\ deadSince' = IF row.status = "active" THEN now ELSE deadSince
    /\ dels' = IF KeyType = "ek" THEN dels + 1 ELSE dels
    /\ UNCHANGED <<now, liveSince, redis, flightVars, callerVars>>

\* Mutant: a handler issues its DEL twice.
InvalidateTwice ==
    /\ dels > 0
    /\ dels' = dels - 2
    /\ redis' = NoEntry
    /\ UNCHANGED <<now, row, deadSince, liveSince, flightVars, callerVars>>

\* invalidate: a DEL that Redis executes, or that is lost.
Invalidate ==
    /\ dels > 0
    /\ dels' = dels - 1
    /\ \/ redis' = NoEntry
       \/ UNCHANGED redis
    /\ UNCHANGED <<now, row, deadSince, liveSince, flightVars, callerVars>>

\* Time passes while no deadline is due: a flight ends within LeaderTimeout of
\* its anchor, a goroutine that received its result or issued its SET is done
\* within Lag.  Redis drops the entry whose TTL ran out.
Tick ==
    /\ now < MaxTime
    /\ \A i \in Replicas : fphase[i] # "none" => now < ffill[i].anchor + LeaderTimeout
    /\ \A c \in Callers : pc[c] \in {"fill", "set"} => now < since[c] + Lag
    /\ now' = now + 1
    /\ redis' = IF now' < redis.until THEN redis ELSE NoEntry
    /\ UNCHANGED <<rowVars, flightVars, callerVars>>

CallerStep(c) ==
    \/ CacheHit(c) \/ CacheMiss(c) \/ Abandon(c)
    \/ \E i \in Replicas : Join(c, i)
    \/ Decide(c) \/ SetApplied(c) \/ SetFails(c) \/ Finish(c)

FlightStep(i) == LeaderRead(i) \/ LeaderReturns(i) \/ LeaderFails(i)

Next ==
    \/ \E c \in Callers : CallerStep(c)
    \/ \E i \in Replicas : FlightStep(i)
    \/ Suspend \/ Resume \/ Revoke \/ Invalidate \/ Tick

Spec == Init /\ [][Next]_vars

-----------------------------------------------------------------------------
(* Properties *)

TypeOK ==
    /\ now \in Nat
    /\ row \in [table : {"ek", "pk"}, status : {"active", "suspended", "revoked"},
               lastUsed : Int, expires : Int]
    /\ deadSince \in Nat
    /\ liveSince \in Nat
    /\ dels \in Nat
    /\ redis \in [full : BOOLEAN, expires : Int, until : Int, readAt : Nat]
    /\ fphase \in [Replicas -> Phases]
    /\ ffill \in [Replicas -> Fill]
    /\ fjoined \in [Replicas -> SUBSET Callers]
    /\ pc \in [Callers -> Stages]
    /\ got \in [Callers -> Fill]
    /\ left \in [Callers -> Int]
    /\ since \in [Callers -> Nat]

\* The longest a key may still be admitted after its row stopped being active:
\* through the cache, or as the answer of a flight that read the row before.
AdmissionBound ==
    IF TTL + Lag >= LeaderTimeout + 2 * Lag THEN TTL + Lag ELSE LeaderTimeout + 2 * Lag

\* The steps in which Resolve answers caller c.
Admits(c) == pc'[c] # pc[c] /\ pc'[c] = "admitted"
Refuses(c) == pc'[c] # pc[c] /\ pc'[c] = "refused"

\* keystore.go's "revocation-propagation guarantee": whatever replica answers,
\* whatever fill raced the flip and whether or not the DEL was executed, no
\* request is admitted more than AdmissionBound after the row was suspended or
\* revoked.
RevocationPropagates ==
    [][\A c \in Callers :
          (Admits(c) /\ row.status # "active") => now <= deadSince + AdmissionBound]_vars

\* AC-10: no request is admitted once the key's expires_at has passed (up to
\* the delay between the check and the answer), and a pk_ never outlives
\* created_at + 90 days however often the window slid.
NeverAdmittedPastExpiry ==
    [][\A c \in Callers :
          Admits(c) => /\ now < row.expires + Lag
                       /\ KeyType = "pk" => now < Lifetime + Lag]_vars

\* Negative answers are never cached (Resolve returns nil without a SET) and a
\* cached expiry never understates the row's: a key that is live is refused
\* only by a flight that read the row before the resume, hence no longer than
\* a flight lasts.
LiveKeyRefusedOnlyBriefly ==
    [][\A c \in Callers :
          (Refuses(c) /\ Live) => now <= liveSince + LeaderTimeout + Lag]_vars

=============================================================================
