----------------------------- MODULE TeamsCache -----------------------------
(***************************************************************************)
(* The team-membership cache in front of LiteLLM (keystore/teamsresolver): *)
(* one user's teams, cached in Redis under two lifetimes, a short one for  *)
(* an empty answer.  Concurrent misses of one process share a detached     *)
(* flight, and each caller of it then writes the entry itself.             *)
(*                                                                         *)
(* Time is relative: ages of the last changes and of what is running.      *)
(***************************************************************************)
EXTENDS Integers, TLAPS

CONSTANTS Replicas, Callers, Teams,
          TTL,            \* defaultTTL
          NegTTL,         \* negativeTeamsTTL
          LeaderTimeout,  \* sfLeaderTimeout
          Lag,            \* longest delay of a caller's SET
          None

StaleBound(ttl) == ttl + LeaderTimeout + Lag
Cap == StaleBound(TTL) + 1

VARIABLES
    teams,  \* the user's teams in LiteLLM
    out,    \* out[t]: time since t was last a team of the user, capped
    member, \* time since the user last had no team, capped
    redis,  \* None, or the entry: its teams and the time it has left
    flight, \* flight[i]: None, or replica i's flight
    caller  \* caller[c]: where Resolve stands for c

vars == <<teams, out, member, redis, flight, caller>>

Idle == [at |-> "idle", got |-> {}, since |-> 0]

TypeOK ==
    /\ teams \in SUBSET Teams
    /\ out \in [Teams -> 0..Cap] /\ member \in 0..Cap
    /\ redis = None \/ redis \in [got : SUBSET Teams, left : Nat]
    /\ \A i \in Replicas :
         flight[i] = None \/ flight[i] \in [got : (SUBSET Teams) \cup {None},
                                            since : 0..LeaderTimeout, by : SUBSET Callers]
    /\ caller \in [Callers -> [at : {"idle", "wait", "set", "answered"},
                               got : SUBSET Teams, since : 0..Lag]]

Init ==
    /\ teams \in SUBSET Teams
    /\ out = [t \in Teams |-> IF t \in teams THEN 0 ELSE Cap]
    /\ member = IF teams = {} THEN 0 ELSE Cap
    /\ redis = None /\ flight = [i \in Replicas |-> None]
    /\ caller = [c \in Callers |-> Idle]

MembershipChanges ==
    /\ teams' \in SUBSET Teams \ {teams}
    /\ out' = [t \in Teams |-> IF t \in teams \cup teams' THEN 0 ELSE out[t]]
    /\ member' = IF teams = {} \/ teams' = {} THEN 0 ELSE member
    /\ UNCHANGED <<redis, flight, caller>>

(* As if a hit renewed the entry. *)
CacheHitSliding(c) ==
    /\ caller[c].at = "idle" /\ redis # None
    /\ caller' = [caller EXCEPT ![c] = [at |-> "answered", got |-> redis.got, since |-> 0]]
    /\ redis' = [redis EXCEPT !.left = IF redis.got = {} THEN NegTTL ELSE TTL]
    /\ UNCHANGED <<teams, out, member, flight>>

CacheHit(c) ==
    /\ caller[c].at = "idle" /\ redis # None
    /\ caller' = [caller EXCEPT ![c] = [at |-> "answered", got |-> redis.got, since |-> 0]]
    /\ UNCHANGED <<teams, out, member, redis, flight>>

(* A miss, or a GET that fails.  sfdetach.Do: lead a flight on this replica, or join the one running. *)
Join(c, i) ==
    /\ caller[c].at = "idle"
    /\ caller' = [caller EXCEPT ![c].at = "wait"]
    /\ flight' = [flight EXCEPT ![i] =
          IF flight[i] = None THEN [got |-> None, since |-> 0, by |-> {c}]
                              ELSE [flight[i] EXCEPT !.by = @ \cup {c}]]
    /\ UNCHANGED <<teams, out, member, redis>>

(* The leader's UserInfoByEmail; an unknown user has no teams. *)
UserInfoByEmail(i) ==
    /\ flight[i] # None /\ flight[i].got = None
    /\ flight' = [flight EXCEPT ![i].got = teams]
    /\ UNCHANGED <<teams, out, member, redis, caller>>

FlightEnds(i) ==
    /\ flight[i] # None /\ flight[i].got # None
    /\ caller' = [c \in Callers |-> IF c \in flight[i].by
                    THEN [at |-> "set", got |-> flight[i].got, since |-> 0] ELSE caller[c]]
    /\ flight' = [flight EXCEPT ![i] = None]
    /\ UNCHANGED <<teams, out, member, redis>>

(* The lookup fails or times out: nobody writes the entry. *)
FlightFails(i) ==
    /\ flight[i] # None
    /\ caller' = [c \in Callers |-> IF c \in flight[i].by THEN Idle ELSE caller[c]]
    /\ flight' = [flight EXCEPT ![i] = None]
    /\ UNCHANGED <<teams, out, member, redis>>

(* The caller's own context ends; the flight goes on. *)
Abandon(c) ==
    /\ caller[c].at = "wait"
    /\ caller' = [caller EXCEPT ![c] = Idle]
    /\ flight' = [i \in Replicas |-> IF flight[i] = None THEN None
                                     ELSE [flight[i] EXCEPT !.by = @ \ {c}]]
    /\ UNCHANGED <<teams, out, member, redis>>

(* As if every answer had the full lifetime. *)
EntryTTLFull(got) == TTL

EntryTTL(got) == IF got = {} THEN NegTTL ELSE TTL

(* The SET, best-effort, and the answer. *)
Set(c) ==
    /\ caller[c].at = "set"
    /\ \/ redis' = [got |-> caller[c].got, left |-> EntryTTL(caller[c].got)]
       \/ UNCHANGED redis
    /\ caller' = [caller EXCEPT ![c].at = "answered", ![c].since = 0]
    /\ UNCHANGED <<teams, out, member, flight>>

Answered(c) ==
    /\ caller[c].at = "answered"
    /\ caller' = [caller EXCEPT ![c] = Idle]
    /\ UNCHANGED <<teams, out, member, redis, flight>>

Older(n) == IF n = Cap THEN Cap ELSE n + 1

(* Time passes: a flight ends within its timeout, a SET within Lag, and an *)
(* answered caller is gone at once.                                        *)
Tick ==
    /\ \A i \in Replicas : flight[i] # None => flight[i].since < LeaderTimeout
    /\ \A c \in Callers : /\ caller[c].at = "set" => caller[c].since < Lag
                          /\ caller[c].at # "answered"
    /\ out' = [t \in Teams |-> IF t \in teams THEN 0 ELSE Older(out[t])]
    /\ member' = IF teams = {} THEN 0 ELSE Older(member)
    /\ redis' = IF redis = None \/ redis.left = 1 THEN None ELSE [redis EXCEPT !.left = @ - 1]
    /\ flight' = [i \in Replicas |-> IF flight[i] = None THEN None
                                     ELSE [flight[i] EXCEPT !.since = @ + 1]]
    /\ caller' = [c \in Callers |-> IF caller[c].at = "set"
                                    THEN [caller[c] EXCEPT !.since = @ + 1] ELSE caller[c]]
    /\ UNCHANGED teams

Next ==
    \/ MembershipChanges \/ Tick
    \/ \E i \in Replicas : UserInfoByEmail(i) \/ FlightEnds(i) \/ FlightFails(i)
    \/ \E c \in Callers : \/ CacheHit(c) \/ Abandon(c) \/ Set(c) \/ Answered(c)
                          \/ \E i \in Replicas : Join(c, i)

Spec == Init /\ [][Next]_vars

(* A user who left a team is treated as a member no longer than an entry,   *)
(* a flight and a delayed SET last, whichever replica wrote last.           *)
LeftTeamForgotten ==
    \A c \in Callers : caller[c].at = "answered" =>
        \A t \in caller[c].got : t \in teams \/ out[t] <= StaleBound(TTL)

(* "Self-heals in seconds": an empty answer, such as the one read before    *)
(* LiteLLM knew of the new member, is given no longer than the short        *)
(* lifetime and a flight after the user joined a team.                      *)
EmptyAnswerHeals ==
    \A c \in Callers : caller[c].at = "answered" /\ caller[c].got = {} =>
        member <= StaleBound(NegTTL)

(* Both: what UserTeams answers is true, or was within the bound.           *)
TeamsCurrent == LeftTeamForgotten /\ EmptyAnswerHeals

-----------------------------------------------------------------------------
(* The same for any replicas, callers, teams and lifetimes.  Everything     *)
(* that holds an answer, a flight, a caller about to write, the entry, an   *)
(* answered caller, holds one that was true within the time it has had it.  *)

Entry == [got : SUBSET Teams, left : Nat]
Flight == [got : (SUBSET Teams) \cup {None}, since : Nat, by : SUBSET Callers]
Caller == [at : {"idle", "wait", "set", "answered"}, got : SUBSET Teams, since : Nat]

TeamsAssumption ==
    /\ TTL \in Nat \ {0} /\ NegTTL \in Nat \ {0} /\ LeaderTimeout \in Nat /\ Lag \in Nat
    /\ None \notin SUBSET Teams /\ None \notin Entry /\ None \notin Flight

TypeInv ==
    /\ teams \in SUBSET Teams /\ out \in [Teams -> Nat] /\ member \in Nat
    /\ redis \in Entry \cup {None}
    /\ flight \in [Replicas -> Flight \cup {None}]
    /\ caller \in [Callers -> Caller]

(* The answer was true at most d ago.                                       *)
Recent(got, d) ==
    /\ \A t \in got : out[t] <= d
    /\ got = {} => member <= d

FlightOK(f) == f # None /\ f.got # None => Recent(f.got, f.since)
CallerOK(r) ==
    /\ r.at = "set" => r.since <= Lag /\ Recent(r.got, LeaderTimeout + r.since)
    /\ r.at = "answered" => Recent(r.got, LeaderTimeout + Lag + EntryTTL(r.got))
EntryOK(e) ==
    e # None => /\ e.left >= 1 /\ e.left <= EntryTTL(e.got)
                /\ Recent(e.got, LeaderTimeout + Lag + EntryTTL(e.got) - e.left)

IInv ==
    /\ TypeInv
    /\ Recent(teams, 0)
    /\ \A i \in Replicas : flight[i] # None => flight[i].since <= LeaderTimeout
    /\ \A i \in Replicas : FlightOK(flight[i])
    /\ \A c \in Callers : CallerOK(caller[c])
    /\ EntryOK(redis)

RecentNext(got, d) ==
    /\ \A t \in got : out'[t] <= d
    /\ got = {} => member' <= d

LEMMA CapIsNat == ASSUME TeamsAssumption PROVE Cap \in Nat
BY DEF TeamsAssumption, Cap, StaleBound

(* A change of membership makes no answer older.                            *)
LEMMA ChangesKeep ==
    ASSUME TeamsAssumption, IInv, MembershipChanges
    PROVE  IInv'
<1>1. /\ TypeInv /\ teams' \in SUBSET Teams /\ UNCHANGED <<redis, flight, caller>>
      /\ out' = [t \in Teams |-> IF t \in teams \cup teams' THEN 0 ELSE out[t]]
      /\ member' = IF teams = {} \/ teams' = {} THEN 0 ELSE member
      BY DEF IInv, MembershipChanges
<1>2. TypeInv'
      BY <1>1 DEF TypeInv
<1>3. \A got \in SUBSET Teams, d \in Nat : Recent(got, d) => RecentNext(got, d)
      BY <1>1 DEF TypeInv, Recent, RecentNext
<1>4. Recent(teams, 0)'
      BY <1>1 DEF Recent
<1>5. ASSUME NEW i \in Replicas PROVE FlightOK(flight[i])'
  <2>1. CASE flight[i] # None /\ flight[i].got # None
    <3>1. flight[i].got \in SUBSET Teams /\ flight[i].since \in Nat
      <4>1. flight[i] \in Flight
            BY <1>1, <2>1 DEF TypeInv
      <4> QED BY <2>1, <4>1 DEF Flight
    <3> QED BY <1>1, <1>3, <2>1, <3>1 DEF IInv, FlightOK, Recent, RecentNext
  <2> QED BY <1>1, <2>1 DEF FlightOK
<1>6. ASSUME NEW c \in Callers PROVE CallerOK(caller[c])'
  <2>1. caller[c].got \in SUBSET Teams /\ caller[c].since \in Nat
        BY <1>1 DEF TypeInv, Caller
  <2>2. LeaderTimeout + caller[c].since \in Nat /\ LeaderTimeout + Lag + EntryTTL(caller[c].got) \in Nat
        BY <2>1 DEF TeamsAssumption, EntryTTL
  <2> QED BY <1>1, <1>3, <2>1, <2>2 DEF IInv, CallerOK, Recent, RecentNext, EntryTTL
<1>7. EntryOK(redis)'
  <2>1. CASE redis # None
    <3>1. redis.got \in SUBSET Teams /\ redis.left \in Nat /\ EntryOK(redis)
          BY <1>1, <2>1 DEF IInv, TypeInv, Entry
    <3>2. LeaderTimeout + Lag + EntryTTL(redis.got) - redis.left \in Nat
          BY <2>1, <3>1 DEF EntryOK, TeamsAssumption, EntryTTL
    <3> QED BY <1>1, <1>3, <2>1, <3>1, <3>2 DEF EntryOK, Recent, RecentNext, EntryTTL
  <2> QED BY <1>1, <2>1 DEF EntryOK
<1> QED BY <1>1, <1>2, <1>4, <1>5, <1>6, <1>7 DEF IInv

(* What the callers and the flights do at one instant.                      *)
LEMMA InstantKeeps ==
    ASSUME IInv, UNCHANGED <<teams, out, member>>, TypeInv',
           \A i \in Replicas : flight'[i] # None => flight'[i].since <= LeaderTimeout,
           \A i \in Replicas : FlightOK(flight'[i]),
           \A c \in Callers : CallerOK(caller'[c]),
           EntryOK(redis')
    PROVE  IInv'
BY DEF IInv, FlightOK, CallerOK, EntryOK, Recent, EntryTTL

LEMMA HitKeeps ==
    ASSUME TeamsAssumption, IInv, NEW c \in Callers, CacheHit(c)
    PROVE  IInv'
<1> DEFINE r == [at |-> "answered", got |-> redis.got, since |-> 0]
<1>1. /\ TypeInv /\ UNCHANGED <<teams, out, member, redis, flight>> /\ redis # None
      /\ caller' = [caller EXCEPT ![c] = r]
      BY DEF IInv, CacheHit
<1>2. redis.got \in SUBSET Teams /\ redis.left \in Nat /\ EntryOK(redis)
      BY <1>1 DEF IInv, TypeInv, Entry
<1>3. r \in Caller /\ CallerOK(r)
  <2>1. r \in Caller
        BY <1>2 DEF Caller
  <2>2. \A t \in Teams : out[t] \in Nat
        BY <1>1 DEF TypeInv
  <2>3. Recent(redis.got, LeaderTimeout + Lag + EntryTTL(redis.got))
        BY <1>1, <1>2, <2>2 DEF EntryOK, Recent, TeamsAssumption, EntryTTL, TypeInv
  <2> QED BY <2>1, <2>3 DEF CallerOK
<1>4. TypeInv'
      BY <1>1, <1>3 DEF TypeInv
<1> QED BY <1>1, <1>3, <1>4, InstantKeeps DEF IInv, TypeInv

(* A caller that goes back to idle, or on to wait.                          *)
LEMMA RestingCaller ==
    ASSUME TypeInv, NEW c \in Callers
    PROVE  /\ Idle \in Caller /\ CallerOK(Idle)
           /\ [caller[c] EXCEPT !.at = "wait"] \in Caller /\ CallerOK([caller[c] EXCEPT !.at = "wait"])
           /\ caller[c].got \in SUBSET Teams /\ caller[c].since \in Nat
<1>1. caller[c] \in Caller
      BY DEF TypeInv
<1> QED BY <1>1 DEF Idle, Caller, CallerOK

LEMMA FlightFields ==
    ASSUME TypeInv, NEW i \in Replicas, flight[i] # None
    PROVE  /\ flight[i] \in Flight /\ flight[i].since \in Nat /\ flight[i].by \subseteq Callers
           /\ flight[i].got \in (SUBSET Teams) \cup {None}
<1>1. flight[i] \in Flight
      BY DEF TypeInv
<1> QED BY <1>1 DEF Flight

LEMMA JoinKeeps ==
    ASSUME TeamsAssumption, IInv, NEW c \in Callers, NEW i \in Replicas, Join(c, i)
    PROVE  IInv'
<1> DEFINE f == IF flight[i] = None THEN [got |-> None, since |-> 0, by |-> {c}]
                                    ELSE [flight[i] EXCEPT !.by = @ \cup {c}]
<1>1. /\ TypeInv /\ UNCHANGED <<teams, out, member, redis>> /\ flight' = [flight EXCEPT ![i] = f]
      /\ caller' = [caller EXCEPT ![c] = [caller[c] EXCEPT !.at = "wait"]]
      BY DEF IInv, Join
<1>2. f \in Flight /\ f.since <= LeaderTimeout /\ FlightOK(f)
  <2>1. CASE flight[i] = None
        BY <2>1 DEF Flight, FlightOK, TeamsAssumption
  <2>2. CASE flight[i] # None
    <3>1. flight[i] \in Flight /\ flight[i].since <= LeaderTimeout /\ FlightOK(flight[i])
          BY <1>1, <2>2, FlightFields DEF IInv
    <3>2. f \in Flight /\ f.got = flight[i].got /\ f.since = flight[i].since
          BY <2>2, <3>1 DEF Flight
    <3> HIDE DEF f
    <3> QED BY <2>2, <3>1, <3>2 DEF FlightOK
  <2> QED BY <2>1, <2>2
<1> HIDE DEF f
<1>3. [caller[c] EXCEPT !.at = "wait"] \in Caller /\ CallerOK([caller[c] EXCEPT !.at = "wait"])
      BY <1>1, RestingCaller
<1>4. TypeInv'
      BY <1>1, <1>2, <1>3 DEF TypeInv
<1>5. \A j \in Replicas : FlightOK(flight'[j]) /\ (flight'[j] # None => flight'[j].since <= LeaderTimeout)
      BY <1>1, <1>2 DEF IInv, TypeInv
<1>6. \A d \in Callers : CallerOK(caller'[d])
      BY <1>1, <1>3 DEF IInv, TypeInv
<1> QED BY <1>1, <1>4, <1>5, <1>6, InstantKeeps DEF IInv

(* The leader reads the teams as they are.                                  *)
LEMMA ReadKeeps ==
    ASSUME TeamsAssumption, IInv, NEW i \in Replicas, UserInfoByEmail(i)
    PROVE  IInv'
<1> DEFINE f == [flight[i] EXCEPT !.got = teams]
<1>1. /\ TypeInv /\ UNCHANGED <<teams, out, member, redis, caller>> /\ flight' = [flight EXCEPT ![i] = f]
      /\ flight[i] # None
      BY DEF IInv, UserInfoByEmail
<1>2. flight[i] \in Flight /\ flight[i].since \in Nat /\ flight[i].since <= LeaderTimeout
      BY <1>1, FlightFields DEF IInv
<1>3. f \in Flight /\ f.got = teams /\ f.since = flight[i].since
      BY <1>1, <1>2 DEF Flight, TypeInv
<1>4. Recent(teams, flight[i].since)
      BY <1>1, <1>2 DEF IInv, Recent, TypeInv
<1> HIDE DEF f
<1>5. FlightOK(f) /\ f.since <= LeaderTimeout
      BY <1>2, <1>3, <1>4 DEF FlightOK
<1>6. TypeInv'
      BY <1>1, <1>3 DEF TypeInv
<1>7. \A j \in Replicas : FlightOK(flight'[j]) /\ (flight'[j] # None => flight'[j].since <= LeaderTimeout)
      BY <1>1, <1>5 DEF IInv, TypeInv
<1> QED BY <1>1, <1>6, <1>7, InstantKeeps DEF IInv

LEMMA FlightKeeps ==
    ASSUME TeamsAssumption, IInv, NEW i \in Replicas, FlightEnds(i) \/ FlightFails(i)
    PROVE  IInv'
<1>1. /\ TypeInv /\ UNCHANGED <<teams, out, member, redis>> /\ flight' = [flight EXCEPT ![i] = None]
      /\ flight[i] # None
      BY DEF IInv, FlightEnds, FlightFails
<1>2. PICK x : /\ caller' = [c \in Callers |-> IF c \in flight[i].by THEN x ELSE caller[c]]
               /\ \/ x = Idle
                  \/ flight[i].got # None /\ x = [at |-> "set", got |-> flight[i].got, since |-> 0]
      BY DEF FlightEnds, FlightFails
<1>3. /\ flight[i].got \in (SUBSET Teams) \cup {None} /\ flight[i].since \in Nat
      /\ flight[i].since <= LeaderTimeout /\ FlightOK(flight[i])
      BY <1>1, FlightFields DEF IInv
<1>4. flight[i].by # {} => x \in Caller /\ CallerOK(x)
  <2>1. CASE x = Idle
        BY <2>1 DEF Idle, Caller, CallerOK
  <2>2. CASE flight[i].got # None /\ x = [at |-> "set", got |-> flight[i].got, since |-> 0]
    <3>1. Recent(flight[i].got, LeaderTimeout + 0)
          BY <1>1, <1>3, <2>2 DEF FlightOK, Recent, TypeInv, TeamsAssumption
    <3> QED BY <1>3, <2>2, <3>1 DEF Caller, CallerOK, TeamsAssumption
  <2> QED BY <1>2, <2>1, <2>2
<1>5. TypeInv'
      BY <1>1, <1>2, <1>4 DEF TypeInv
<1>6. \A j \in Replicas : FlightOK(flight'[j]) /\ (flight'[j] # None => flight'[j].since <= LeaderTimeout)
      BY <1>1 DEF IInv, TypeInv, FlightOK
<1>7. \A d \in Callers : CallerOK(caller'[d])
      BY <1>2, <1>4 DEF IInv
<1> QED BY <1>1, <1>5, <1>6, <1>7, InstantKeeps DEF IInv

LEMMA AbandonKeeps ==
    ASSUME TeamsAssumption, IInv, NEW c \in Callers, Abandon(c) \/ Answered(c)
    PROVE  IInv'
<1>1. TypeInv /\ UNCHANGED <<teams, out, member, redis>> /\ caller' = [caller EXCEPT ![c] = Idle]
      BY DEF IInv, Abandon, Answered
<1>2. ASSUME NEW i \in Replicas
      PROVE  /\ flight'[i] \in Flight \cup {None} /\ FlightOK(flight'[i])
             /\ flight'[i] # None => flight'[i].since <= LeaderTimeout
  <2>1. CASE flight[i] # None /\ Abandon(c)
    <3> DEFINE f == [flight[i] EXCEPT !.by = @ \ {c}]
    <3>1. flight[i] \in Flight /\ flight[i].since <= LeaderTimeout /\ FlightOK(flight[i])
          BY <1>1, <2>1, FlightFields DEF IInv
    <3>2. f \in Flight /\ f.got = flight[i].got /\ f.since = flight[i].since
          BY <3>1 DEF Flight
    <3>3. flight'[i] = f
          BY <2>1 DEF Abandon
    <3> HIDE DEF f
    <3> QED BY <2>1, <3>1, <3>2, <3>3 DEF FlightOK
  <2>2. CASE flight[i] = None \/ Answered(c)
    <3>1. flight'[i] = flight[i]
          BY <2>2 DEF Abandon, Answered
    <3> QED BY <1>1, <3>1 DEF IInv, TypeInv
  <2> QED BY <2>1, <2>2
<1>3. flight' \in [Replicas -> Flight \cup {None}]
  <2>1. CASE Abandon(c)
    <3> DEFINE g(i) == IF flight[i] = None THEN None ELSE [flight[i] EXCEPT !.by = @ \ {c}]
    <3>1. flight' = [i \in Replicas |-> g(i)]
          BY <2>1 DEF Abandon
    <3> HIDE DEF g
    <3> QED BY <1>2, <3>1
  <2>2. CASE Answered(c)
        BY <1>1, <2>2 DEF Answered, TypeInv
  <2> QED BY <2>1, <2>2
<1>4. Idle \in Caller /\ CallerOK(Idle)
      BY Zenon, <1>1, RestingCaller
<1>5. TypeInv'
      BY <1>1, <1>3, <1>4 DEF TypeInv
<1>6. \A d \in Callers : CallerOK(caller'[d])
      BY <1>1, <1>4 DEF IInv, TypeInv
<1> QED BY <1>1, <1>2, <1>5, <1>6, InstantKeeps DEF IInv

(* The entry starts its lifetime as old as the flight and the delay made it. *)
LEMMA SetKeeps ==
    ASSUME TeamsAssumption, IInv, NEW c \in Callers, Set(c)
    PROVE  IInv'
<1> DEFINE e == [got |-> caller[c].got, left |-> EntryTTL(caller[c].got)]
           r == [caller[c] EXCEPT !.at = "answered", !.since = 0]
<1>1. /\ TypeInv /\ UNCHANGED <<teams, out, member, flight>> /\ caller[c].at = "set"
      /\ redis' = e \/ redis' = redis
      BY DEF IInv, Set
<1>2. caller' = [caller EXCEPT ![c] = r]
      BY Zenon DEF Set
<1>3. /\ caller[c] \in Caller /\ caller[c].got \in SUBSET Teams /\ caller[c].since \in Nat
      /\ caller[c].since <= Lag /\ Recent(caller[c].got, LeaderTimeout + caller[c].since)
      BY Zenon, <1>1, RestingCaller DEF IInv, CallerOK, TypeInv
<1>4. EntryTTL(caller[c].got) \in Nat /\ EntryTTL(caller[c].got) >= 1
      BY DEF EntryTTL, TeamsAssumption
<1>5. \A d \in Nat : d >= LeaderTimeout + Lag => Recent(caller[c].got, d)
      BY <1>1, <1>3 DEF Recent, TypeInv, TeamsAssumption
<1>6. e \in Entry /\ EntryOK(e)
  <2>1. e \in Entry /\ e.got = caller[c].got /\ e.left = EntryTTL(caller[c].got)
        BY <1>3, <1>4 DEF Entry
  <2>2. LeaderTimeout + Lag + EntryTTL(caller[c].got) - EntryTTL(caller[c].got) = LeaderTimeout + Lag
        BY <1>4 DEF TeamsAssumption
  <2>3. Recent(caller[c].got, LeaderTimeout + Lag)
        BY <1>5 DEF TeamsAssumption
  <2> HIDE DEF e
  <2> QED BY <1>4, <2>1, <2>2, <2>3 DEF EntryOK
<1>7. r \in Caller /\ CallerOK(r)
  <2>1. r \in Caller /\ r.at = "answered" /\ r.got = caller[c].got
        BY Zenon, <1>3 DEF Caller
  <2>2. Recent(caller[c].got, LeaderTimeout + Lag + EntryTTL(caller[c].got))
        BY <1>4, <1>5 DEF TeamsAssumption
  <2> HIDE DEF r
  <2> QED BY <2>1, <2>2 DEF CallerOK
<1> HIDE DEF e, r
<1>8. TypeInv'
      BY <1>1, <1>2, <1>6, <1>7 DEF TypeInv
<1>9. \A d \in Callers : CallerOK(caller'[d])
      BY <1>1, <1>2, <1>7 DEF IInv, TypeInv
<1> QED BY <1>1, <1>6, <1>8, <1>9, InstantKeeps DEF IInv

(* Time passes: every answer is one older, and so is what holds it.          *)
LEMMA TickKeeps ==
    ASSUME TeamsAssumption, IInv, Tick
    PROVE  IInv'
<1>1. /\ TypeInv /\ teams' = teams
      /\ out' = [t \in Teams |-> IF t \in teams THEN 0 ELSE Older(out[t])]
      /\ member' = IF teams = {} THEN 0 ELSE Older(member)
      /\ redis' = IF redis = None \/ redis.left = 1 THEN None ELSE [redis EXCEPT !.left = @ - 1]
      /\ flight' = [i \in Replicas |-> IF flight[i] = None THEN None
                                       ELSE [flight[i] EXCEPT !.since = @ + 1]]
      /\ caller' = [c \in Callers |-> IF caller[c].at = "set"
                                      THEN [caller[c] EXCEPT !.since = @ + 1] ELSE caller[c]]
      BY DEF IInv, Tick
<1>2. /\ \A n \in Nat : Older(n) \in Nat /\ Older(n) <= n + 1
      BY CapIsNat DEF Older
<1>3. out' \in [Teams -> Nat] /\ member' \in Nat
      BY <1>1, <1>2 DEF TypeInv
<1>4. \A t \in Teams : out'[t] <= out[t] + 1
      BY <1>1, <1>2 DEF TypeInv
<1>5. member' <= member + 1
      BY <1>1, <1>2 DEF TypeInv
<1>6. ASSUME NEW got \in SUBSET Teams, NEW d \in Nat, Recent(got, d)
      PROVE  RecentNext(got, d + 1)
  <2>1. \A t \in got : out[t] \in Nat /\ out'[t] \in Nat
        BY <1>1, <1>3 DEF TypeInv
  <2> QED BY <1>1, <1>3, <1>4, <1>5, <1>6, <2>1 DEF Recent, RecentNext, TypeInv
<1>7. Recent(teams, 0)'
      BY <1>1 DEF Recent, TypeInv
<1>8. ASSUME NEW i \in Replicas
      PROVE  /\ flight'[i] \in Flight \cup {None} /\ FlightOK(flight[i])'
             /\ flight'[i] # None => flight'[i].since <= LeaderTimeout
  <2>1. CASE flight[i] = None
        BY <1>1, <2>1 DEF FlightOK
  <2>2. CASE flight[i] # None
    <3> DEFINE f == [flight[i] EXCEPT !.since = @ + 1]
    <3>1. /\ flight[i] \in Flight /\ flight[i].since \in Nat /\ FlightOK(flight[i])
          /\ flight[i].got \in (SUBSET Teams) \cup {None}
          BY <1>1, <2>2, FlightFields DEF IInv
    <3>2. flight[i].since < LeaderTimeout
          BY <2>2 DEF Tick
    <3>3. flight'[i] = f /\ f \in Flight /\ f.got = flight[i].got /\ f.since = flight[i].since + 1
          BY <1>1, <2>2, <3>1 DEF Flight
    <3>4. f.since <= LeaderTimeout
          BY <3>1, <3>2, <3>3 DEF TeamsAssumption
    <3> HIDE DEF f
    <3>5. flight[i].got # None => RecentNext(flight[i].got, flight[i].since + 1)
          BY <1>6, <2>2, <3>1 DEF FlightOK
    <3> QED BY <3>3, <3>4, <3>5 DEF FlightOK, Recent, RecentNext
  <2> QED BY <2>1, <2>2
<1>9. flight' \in [Replicas -> Flight \cup {None}]
  <2> DEFINE g(i) == IF flight[i] = None THEN None ELSE [flight[i] EXCEPT !.since = @ + 1]
  <2>1. flight' = [i \in Replicas |-> g(i)]
        BY <1>1
  <2> HIDE DEF g
  <2> QED BY <1>8, <2>1
<1>10. ASSUME NEW c \in Callers PROVE caller'[c] \in Caller /\ CallerOK(caller[c])'
  <2>1. caller[c] \in Caller /\ caller[c].got \in SUBSET Teams /\ caller[c].since \in Nat
        BY Zenon, <1>1, RestingCaller DEF TypeInv
  <2>2. CASE caller[c].at = "set"
    <3> DEFINE r == [caller[c] EXCEPT !.since = @ + 1]
    <3>1. caller[c].since < Lag /\ Recent(caller[c].got, LeaderTimeout + caller[c].since)
          BY <2>2 DEF Tick, IInv, CallerOK
    <3>2. /\ caller'[c] = r /\ r \in Caller /\ r.at = "set" /\ r.got = caller[c].got
          /\ r.since = caller[c].since + 1
          BY <1>1, <2>1, <2>2 DEF Caller
    <3> HIDE DEF r
    <3>3. r.since <= Lag
          BY <2>1, <3>1, <3>2 DEF TeamsAssumption
    <3>4. /\ LeaderTimeout + caller[c].since \in Nat
          /\ LeaderTimeout + r.since = (LeaderTimeout + caller[c].since) + 1
          BY <2>1, <3>2 DEF TeamsAssumption
    <3>5. RecentNext(r.got, LeaderTimeout + r.since)
          BY <1>6, <2>1, <3>1, <3>2, <3>4
    <3> QED BY <3>2, <3>3, <3>5 DEF CallerOK, Recent, RecentNext
  <2>3. CASE caller[c].at # "set"
        BY <1>1, <2>1, <2>3 DEF Tick, CallerOK
  <2> QED BY <2>2, <2>3
<1>11. caller' \in [Callers -> Caller]
  <2> DEFINE g(c) == IF caller[c].at = "set" THEN [caller[c] EXCEPT !.since = @ + 1] ELSE caller[c]
  <2>1. caller' = [c \in Callers |-> g(c)]
        BY <1>1
  <2> HIDE DEF g
  <2> QED BY <1>10, <2>1
<1>12. redis' \in Entry \cup {None} /\ EntryOK(redis)'
  <2>1. CASE redis = None \/ redis.left = 1
        BY <1>1, <2>1 DEF EntryOK
  <2>2. CASE redis # None /\ redis.left # 1
    <3> DEFINE e == [redis EXCEPT !.left = @ - 1]
               d == LeaderTimeout + Lag + EntryTTL(redis.got) - redis.left
    <3>1. /\ redis \in Entry /\ redis.got \in SUBSET Teams /\ redis.left \in Nat /\ redis.left >= 1
          /\ redis.left <= EntryTTL(redis.got) /\ Recent(redis.got, d)
          BY <1>1, <2>2 DEF IInv, TypeInv, Entry, EntryOK
    <3>2. EntryTTL(redis.got) \in Nat
          BY DEF EntryTTL, TeamsAssumption
    <3>3. redis' = e /\ e \in Entry /\ e.got = redis.got /\ e.left = redis.left - 1
          BY <1>1, <2>2, <3>1 DEF Entry
    <3> HIDE DEF e
    <3>4. /\ d \in Nat /\ d + 1 = LeaderTimeout + Lag + EntryTTL(e.got) - e.left
          /\ e.left >= 1 /\ e.left <= EntryTTL(e.got)
          BY <2>2, <3>1, <3>2, <3>3 DEF TeamsAssumption
    <3> HIDE DEF d
    <3>5. RecentNext(e.got, d + 1)
          BY <1>6, <3>1, <3>3, <3>4
    <3> QED BY <3>3, <3>4, <3>5 DEF EntryOK, Recent, RecentNext, EntryTTL
  <2> QED BY <2>1, <2>2
<1>13. TypeInv'
      BY <1>1, <1>3, <1>9, <1>11, <1>12 DEF TypeInv
<1> QED BY <1>7, <1>8, <1>10, <1>12, <1>13 DEF IInv

LEMMA InitOK == ASSUME TeamsAssumption, Init PROVE IInv
<1>1. teams \in SUBSET Teams /\ out \in [Teams -> Nat] /\ member \in Nat
      BY CapIsNat DEF Init
<1>2. Recent(teams, 0)
      BY DEF Init, Recent
<1>3. /\ redis = None /\ flight = [i \in Replicas |-> None] /\ caller = [c \in Callers |-> Idle]
      BY DEF Init
<1>4. Idle \in Caller /\ CallerOK(Idle)
      BY DEF Idle, Caller, CallerOK
<1> QED BY <1>1, <1>2, <1>3, <1>4 DEF IInv, TypeInv, FlightOK, EntryOK

LEMMA StepOK == ASSUME TeamsAssumption, IInv, [Next]_vars PROVE IInv'
<1>1. ASSUME NEW i \in Replicas, UserInfoByEmail(i) \/ FlightEnds(i) \/ FlightFails(i) PROVE IInv'
      BY <1>1, ReadKeeps, FlightKeeps
<1>2. ASSUME NEW c \in Callers, CacheHit(c) \/ Abandon(c) \/ Set(c) \/ Answered(c) PROVE IInv'
      BY <1>2, HitKeeps, AbandonKeeps, SetKeeps
<1>3. ASSUME NEW c \in Callers, NEW i \in Replicas, Join(c, i) PROVE IInv'
      BY <1>3, JoinKeeps
<1>4. CASE UNCHANGED vars
      BY <1>4, InstantKeeps DEF vars, IInv, TypeInv
<1> QED BY <1>1, <1>2, <1>3, <1>4, ChangesKeep, TickKeeps DEF Next

(* An answer of UserTeams names no team the user left longer ago than an    *)
(* entry's lifetime, a flight and a delayed SET, and an empty answer is no  *)
(* older than the short lifetime allows, for any number of replicas and     *)
(* callers and however their flights and SETs interleave.                   *)
THEOREM TeamsStayCurrent == ASSUME TeamsAssumption PROVE Spec => []TeamsCurrent
<1>1. Init => IInv
      BY InitOK
<1>2. IInv /\ [Next]_vars => IInv'
      BY StepOK
<1>3. IInv => TeamsCurrent
  <2> SUFFICES ASSUME IInv, NEW c \in Callers, caller[c].at = "answered"
               PROVE  /\ \A t \in caller[c].got : out[t] <= StaleBound(TTL)
                      /\ caller[c].got = {} => member <= StaleBound(NegTTL)
      BY DEF TeamsCurrent, LeftTeamForgotten, EmptyAnswerHeals
  <2>1. Recent(caller[c].got, LeaderTimeout + Lag + EntryTTL(caller[c].got))
        BY DEF IInv, CallerOK
  <2> QED BY <2>1 DEF Recent, EntryTTL, StaleBound, TeamsAssumption
<1> QED BY <1>1, <1>2, <1>3, PTL DEF Spec

=============================================================================
