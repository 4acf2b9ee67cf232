------------------------- MODULE OAuthSessionsProofs -------------------------
(***************************************************************************)
(* Ended sessions stay ended, for any number of requests, records and      *)
(* EndSessions calls and any lifetimes with requests shorter than records. *)
(* The generation a record carries decides, and the generation counter     *)
(* itself expires: the proof is that everything stamped under the counter  *)
(* that a request may still present is gone before the counter is.  And a  *)
(* refresh token is never in two places: whoever takes it has its name     *)
(* alone until it is put back, spent or lost.                              *)
(***************************************************************************)
EXTENDS OAuthSessions, TLAPS

\* The request carries a session: a login past its read of the generation, or a
\* request that a record was presented to.
InSession(x) == x.for # "none" \/ x.pc = "provision"

\* Only a code is carried past liveSession's read without one of its own.
HasRead(x) == x.pc # "live" /\ ~ (x.pc = "issue" /\ x.for = "code")

\* A generation against the current one, g.
Stamped(own, fate, g) == (fate = "open" => own = g) /\ (fate = "ended" => own < g)

\* A record, when the counter stands at g and has l left.
RecInv(r, g, l) ==
    /\ r.kind = "code" => r.left = 1
    /\ r # NoRec /\ r.fate # "unread" =>
          /\ Stamped(r.gen, r.fate, g)
          /\ g > 0 => r.left <= l /\ (r.kind = "code" => RefreshTTL <= l)

\* What a request presents and for whom.
PathInv(x) ==
    /\ x.pc \in {"idle", "putrt", "readgen"} => x.for = "none" /\ x.fate = "open" /\ ~ x.late
    /\ x.pc = "live" => x.for \in {"refresh", "web"}
    /\ x.pc = "issue" => x.for \in {"code", "refresh"}
    /\ x.pc \in {"ensure", "mint", "pair"} => x.for # "none"
    /\ x.late => x.fate = "ended" /\ InSession(x) /\ ~ HasRead(x)

\* A request, when the counter stands at g and has l left.
ReqInv(x, g, l) ==
    /\ PathInv(x)
    /\ InSession(x) /\ x.fate # "unread" =>
          /\ Stamped(x.gen, x.fate, g)
          /\ g > 0 => /\ HasRead(x) => GenTTL <= l + x.age
                      /\ x.pc = "issue" => RefreshTTL <= l + x.age

IInv ==
    /\ TypeOK
    /\ gen = 0 <=> genLeft = 0
    /\ EndNotUndone
    /\ \A s \in Sids : RecInv(rec[s], gen, genLeft)
    /\ \A p \in Handlers : ReqInv(h[p], gen, genLeft)

-----------------------------------------------------------------------------
USE OAuthAssumption

LEMMA Constants ==
    /\ RefreshTTL \in Nat /\ RotatingTTL \in Nat /\ GenTTL \in Nat /\ MaxGen \in Nat
    /\ GenTTL = RefreshTTL + RotatingTTL /\ 1 <= RefreshTTL /\ RotatingTTL < RefreshTTL
BY DEF GenTTL

LEMMA RestTypes ==
    /\ Idle \in Handler /\ NoRec.kind = "none" /\ NoRec.left = 0 /\ NoRec \notin Rec
    /\ \A g, l : ReqInv(Idle, g, l) /\ RecInv(NoRec, g, l)
<1>1. Idle \in Handler
      BY DEF Idle, Handler, Pcs, Kinds, DexTokens, Fates
<1>2. NoRec.kind = "none" /\ NoRec.left = 0 /\ NoRec \notin Rec
      BY DEF NoRec, Rec, Kinds
<1>3. Idle.pc = "idle" /\ Idle.for = "none" /\ Idle.fate = "open" /\ Idle.late = FALSE
      BY DEF Idle
<1> QED BY <1>1, <1>2, <1>3 DEF ReqInv, PathInv, InSession, RecInv

\* The fields of a request, and what the updates of one leave alone.
LEMMA Fields ==
    ASSUME NEW x \in Handler
    PROVE  /\ x.pc \in Pcs /\ x.gen \in 0..MaxGen /\ x.left \in 0..RefreshTTL
           /\ x.tok \in DexTokens /\ x.age \in 0..RotatingTTL /\ x.fate \in Fates /\ x.late \in BOOLEAN
           /\ x.for \in Kinds \cup {"none"} /\ x.sid \in Sids \cup {NoSid}
BY DEF Handler

Alike(y, x) ==
    y.for = x.for /\ y.gen = x.gen /\ y.age = x.age /\ y.fate = x.fate /\ y.late = x.late

LEMMA Moved ==
    ASSUME NEW x \in Handler, NEW c \in Pcs
    PROVE  LET y == [x EXCEPT !.pc = c] IN y \in Handler /\ y.pc = c /\ Alike(y, x)
BY DEF Handler, Alike

LEMMA MovedWithToken ==
    ASSUME NEW x \in Handler, NEW c \in Pcs, NEW t \in DexTokens
    PROVE  LET y == [x EXCEPT !.pc = c, !.tok = t] IN y \in Handler /\ y.pc = c /\ Alike(y, x)
BY Zenon DEF Handler, Alike

LEMMA Retoken ==
    ASSUME NEW x \in Handler
    PROVE  LET y == [x EXCEPT !.tok = Aged(x.tok)] IN y \in Handler /\ y.pc = x.pc /\ Alike(y, x)
<1>1. Aged(x.tok) \in DexTokens
      BY DEF Handler, Aged, DexTokens
<1> QED BY <1>1 DEF Handler, Alike

\* The counter's TTL only grows when it is read.
LEMMA Slid ==
    ASSUME IInv, SlideGen
    PROVE  /\ genLeft' \in 0..(RefreshTTL + RotatingTTL) /\ genLeft <= genLeft'
           /\ gen = 0 <=> genLeft' = 0
           /\ gen > 0 => genLeft' = GenTTL
BY Constants DEF IInv, TypeOK, SlideGen

LEMMA Longer ==
    ASSUME NEW g \in Nat, NEW l \in Nat, NEW m \in Nat, l <= m
    PROVE  /\ \A r \in Rec \cup {NoRec} : RecInv(r, g, l) => RecInv(r, g, m)
           /\ \A x \in Handler : ReqInv(x, g, l) => ReqInv(x, g, m)
<1>1. \A r \in Rec : r.left \in Nat
      BY DEF Rec
<1>2. \A r \in Rec \cup {NoRec} : RecInv(r, g, l) => RecInv(r, g, m)
      BY <1>1, Constants, RestTypes DEF RecInv
<1>3. \A x \in Handler : x.age \in Nat
      BY Fields
<1>4. \A x \in Handler : ReqInv(x, g, l) => ReqInv(x, g, m)
      BY <1>3, Constants DEF ReqInv
<1> QED BY <1>2, <1>4

-----------------------------------------------------------------------------
(* One request takes a step. *)

\* What is asked of the records after a step that leaves the generation alone.
RecsKept ==
    /\ rec' \in [Sids -> Rec \cup {NoRec}]
    /\ \A s \in Sids : RecInv(rec'[s], gen, genLeft')

\* What is asked of the shared state.
RestKept ==
    /\ gen' = gen /\ genLeft <= genLeft' /\ genLeft' \in 0..(RefreshTTL + RotatingTTL)
    /\ gen = 0 <=> genLeft' = 0
    /\ dexrt' \in DexTokens /\ pk' \in BOOLEAN /\ relogin' \in BOOLEAN
    /\ ender' \in {"idle", "bump", "del", "flip", "bumpLast", "delLast"}
    /\ EndNotUndone'
    /\ RecsKept

\* The other requests are as they were, but for tokens that Dex replaced.
LEMMA Step ==
    ASSUME IInv, RestKept, NEW p \in Handlers,
           h' \in [Handlers -> Handler], ReqInv(h'[p], gen, genLeft'),
           \A q \in Handlers \ {p} : h'[q] = h[q] \/ h'[q] = [h[q] EXCEPT !.tok = Aged(h[q].tok)]
    PROVE  IInv'
<1>1. gen \in Nat /\ genLeft \in Nat /\ genLeft' \in Nat /\ h \in [Handlers -> Handler]
      BY Constants DEF IInv, TypeOK, RestKept
<1>2. \A q \in Handlers : ReqInv(h'[q], gen', genLeft')
  <2> SUFFICES ASSUME NEW q \in Handlers \ {p} PROVE ReqInv(h'[q], gen, genLeft')
      BY DEF RestKept
  <2>1. h[q] \in Handler /\ ReqInv(h[q], gen, genLeft')
        BY <1>1, Longer DEF IInv, RestKept
  <2>2. h'[q].pc = h[q].pc /\ Alike(h'[q], h[q])
        BY ZenonT(60), <2>1, Retoken DEF Alike
  <2> QED BY <2>1, <2>2 DEF ReqInv, PathInv, InSession, HasRead, Alike
<1>3. TypeOK'
      BY DEF IInv, TypeOK, RestKept, RecsKept
<1> QED BY <1>2, <1>3 DEF IInv, RestKept, RecsKept

\* The request alone.
LEMMA StepAlone ==
    ASSUME IInv, RestKept, NEW p \in Handlers, NEW y \in Handler, h' = [h EXCEPT ![p] = y],
           ReqInv(y, gen, genLeft')
    PROVE  IInv'
<1>1. /\ h' \in [Handlers -> Handler] /\ h'[p] = y /\ \A q \in Handlers \ {p} : h'[q] = h[q]
      BY DEF IInv, TypeOK
<1> QED BY <1>1, Step

\* The request, while Dex replaces the user's token.
LEMMA StepAging ==
    ASSUME IInv, RestKept, NEW p \in Handlers, NEW y \in Handler, ReqInv(y, gen, genLeft'),
           h' = [q \in Handlers |-> IF q = p THEN y ELSE [h[q] EXCEPT !.tok = Aged(h[q].tok)]]
    PROVE  IInv'
<1>1. \A q \in Handlers : [h[q] EXCEPT !.tok = Aged(h[q].tok)] \in Handler
      BY Zenon, Retoken DEF IInv, TypeOK
<1>2. /\ h' \in [Handlers -> Handler] /\ h'[p] = y
      /\ \A q \in Handlers \ {p} : h'[q] = [h[q] EXCEPT !.tok = Aged(h[q].tok)]
      BY <1>1
<1> QED BY Zenon, <1>2, Step

\* The records: left alone, or one of them replaced.
LEMMA RecsSame ==
    ASSUME IInv, rec' = rec, genLeft' \in Nat, genLeft <= genLeft'
    PROVE  RecsKept
<1>1. gen \in Nat /\ genLeft \in Nat /\ \A s \in Sids : rec[s] \in Rec \cup {NoRec}
      BY Constants DEF IInv, TypeOK
<1> QED BY <1>1, Longer DEF IInv, TypeOK, RecsKept

LEMMA RecsPut ==
    ASSUME IInv, NEW s, NEW r \in Rec \cup {NoRec}, rec' = [rec EXCEPT ![s] = r],
           genLeft' \in Nat, genLeft <= genLeft', RecInv(r, gen, genLeft')
    PROVE  RecsKept
<1>1. gen \in Nat /\ genLeft \in Nat /\ \A t \in Sids : rec[t] \in Rec \cup {NoRec}
      BY Constants DEF IInv, TypeOK
<1>2. \A t \in Sids : rec'[t] = IF t = s THEN r ELSE rec[t]
      BY DEF IInv, TypeOK
<1>3. rec' \in [Sids -> Rec \cup {NoRec}]
      BY Zenon DEF IInv, TypeOK
<1> QED BY <1>1, <1>2, <1>3, Longer DEF IInv, RecsKept

\* No request changes.
LEMMA StepNone ==
    ASSUME IInv, RestKept, h' = h
    PROVE  IInv'
<1>1. gen \in Nat /\ genLeft \in Nat /\ genLeft' \in Nat /\ h \in [Handlers -> Handler]
      BY Constants DEF IInv, TypeOK, RestKept
<1>2. \A q \in Handlers : ReqInv(h'[q], gen', genLeft')
      BY <1>1, Longer DEF IInv, RestKept
<1>3. TypeOK'
      BY DEF IInv, TypeOK, RestKept, RecsKept
<1> QED BY <1>2, <1>3 DEF IInv, RestKept, RecsKept

\* The Dex token is kept, deleted or aged, is replaced while there is one, or is
\* stored by a login.
LEMMA DexTokenKept ==
    ASSUME IInv,
           \/ dexrt' \in {dexrt, "none", Aged(dexrt)} /\ relogin' = relogin
           \/ dexrt' \in DexTokens /\ relogin' = TRUE
           \/ dexrt # "none" /\ dexrt' \in DexTokens /\ relogin' = relogin
           \/ dexrt' = "none" /\ relogin' = FALSE
    PROVE  dexrt' \in DexTokens /\ relogin' \in BOOLEAN /\ EndNotUndone'
<1>1. dexrt \in DexTokens /\ relogin \in BOOLEAN /\ (dexrt # "none" => relogin)
      BY DEF IInv, TypeOK, EndNotUndone
<1>2. Aged(dexrt) \in DexTokens /\ (Aged(dexrt) # "none" => dexrt # "none")
      BY <1>1 DEF Aged, DexTokens
<1>3. dexrt' \in DexTokens /\ relogin' \in BOOLEAN
      BY Zenon, <1>1, <1>2 DEF DexTokens
<1>4. dexrt' # "none" => relogin'
      BY <1>1, <1>2
<1> QED BY <1>3, <1>4 DEF EndNotUndone

\* The counter is left alone, or read.
LEMMA CounterKept ==
    ASSUME IInv, UNCHANGED genLeft \/ SlideGen
    PROVE  /\ genLeft' \in 0..(RefreshTTL + RotatingTTL) /\ genLeft <= genLeft' /\ genLeft' \in Nat
           /\ gen = 0 <=> genLeft' = 0
BY Slid, Constants DEF IInv, TypeOK

\* A request that has read the generation goes on.
LEMMA Carried ==
    ASSUME NEW g \in Nat, NEW l \in Nat, NEW x \in Handler, NEW y \in Handler, Alike(y, x),
           ReqInv(x, g, l), HasRead(x), x.pc # "provision",
           y.pc \in {"call", "deny", "denyrow", "putdex", "issue", "ensure", "mint", "pair"},
           y.pc = "issue" => y.for = "refresh",
           y.pc \in {"ensure", "mint", "pair"} => y.for # "none"
    PROVE  ReqInv(y, g, l)
<1>1. x.age \in Nat /\ RefreshTTL <= GenTTL
      BY Fields, Constants
<1>2. InSession(y) => InSession(x)
      BY DEF InSession, Alike
<1>3. PathInv(y)
      BY <1>2 DEF ReqInv, PathInv, Alike, InSession, HasRead
<1>4. InSession(y) /\ y.fate # "unread" /\ g > 0 => RefreshTTL <= l + y.age /\ GenTTL <= l + y.age
      BY <1>1, <1>2, Constants DEF ReqInv, Alike
<1>5. InSession(y) /\ y.fate # "unread" => Stamped(y.gen, y.fate, g)
      BY <1>2 DEF ReqInv, Alike
<1> QED BY <1>3, <1>4, <1>5 DEF ReqInv

\* liveSession's read lets a request go on only in the current generation.
LEMMA CarriedLive ==
    ASSUME NEW g \in Nat, NEW l \in Nat, NEW x \in Handler, NEW y \in Handler, Alike(y, x),
           ReqInv(x, g, l), x.pc \in {"live", "issue"}, x.gen = g, g > 0 => l = GenTTL,
           y.pc \in {"dex", "ensure"}
    PROVE  ReqInv(y, g, l)
<1>1. x.age \in Nat
      BY Fields
<1>2. x.for # "none"
      BY Fields DEF ReqInv, PathInv
<1>3. InSession(x)
      BY <1>2 DEF InSession
<1>4. ~ x.late
      BY <1>3 DEF ReqInv, PathInv, Stamped
<1>5. PathInv(y)
      BY <1>2, <1>4 DEF ReqInv, PathInv, Alike, InSession, HasRead
<1>6. y.fate # "unread" => Stamped(y.gen, y.fate, g)
      BY <1>3 DEF ReqInv, Alike
<1>7. g > 0 => GenTTL <= l + y.age
      BY <1>1, Constants DEF Alike
<1> QED BY <1>5, <1>6, <1>7 DEF ReqInv

\* What a request leaves behind when it ends.
LEMMA RecsRestored ==
    ASSUME IInv, NEW p \in Handlers, rec' = Restored(p), UNCHANGED genLeft \/ SlideGen
    PROVE  RecsKept
<1>1. genLeft \in Nat /\ genLeft' \in Nat /\ genLeft <= genLeft' /\ gen \in Nat
      BY CounterKept, Constants DEF IInv, TypeOK
<1>2. h[p] \in Handler /\ ReqInv(h[p], gen, genLeft')
      BY <1>1, Longer DEF IInv, TypeOK
<1>3. CASE h[p].for = "refresh"
  <2> DEFINE r == [kind |-> "refresh", gen |-> h[p].gen, left |-> RefreshTTL,
                   fate |-> IF h[p].pc = "live" THEN "unread" ELSE h[p].fate]
  <2>1. rec' = [rec EXCEPT ![h[p].sid] = r]
        BY <1>3 DEF Restored
  <2>2. h[p].gen \in 0..MaxGen /\ h[p].fate \in Fates /\ h[p].age \in 0..RotatingTTL
        BY <1>2, Fields
  <2>3. r \in Rec
        BY <2>2, Constants DEF Rec, Kinds, Fates
  <2>4. r.fate # "unread" => /\ HasRead(h[p]) /\ InSession(h[p]) /\ h[p].fate # "unread"
                             /\ r.fate = h[p].fate /\ r.gen = h[p].gen
        BY <1>3 DEF HasRead, InSession
  <2>5. r.fate # "unread" => Stamped(r.gen, r.fate, gen)
        BY <2>4, <1>2 DEF ReqInv
  <2>6. r.fate # "unread" /\ gen > 0 => GenTTL <= genLeft' + h[p].age
        BY <2>4, <1>2 DEF ReqInv
  <2>7. r.fate # "unread" /\ gen > 0 => RefreshTTL <= genLeft'
        BY <2>6, <2>2, <1>1, Constants
  <2>8. RecInv(r, gen, genLeft')
        BY <2>5, <2>7 DEF RecInv
  <2> QED BY Zenon, <2>1, <2>3, <2>8, <1>1, RecsPut
<1>4. CASE h[p].for # "refresh"
      BY <1>4, <1>1, RecsSame DEF Restored
<1> QED BY <1>3, <1>4

LEMMA RecsRefused ==
    ASSUME IInv, NEW p \in Handlers, rec' = RefusedRec(p), UNCHANGED genLeft \/ SlideGen
    PROVE  RecsKept
<1>1. genLeft' \in Nat /\ genLeft <= genLeft'
      BY CounterKept
<1>2. CASE h[p].for = "web"
      BY Zenon, <1>2, <1>1, RecsPut, RestTypes DEF RefusedRec
<1>3. CASE h[p].for # "web"
      BY <1>3, <1>1, RecsSame DEF RefusedRec
<1> QED BY <1>2, <1>3

-----------------------------------------------------------------------------
(* The requests. *)

\* Requests as they begin.
LEMMA Begun ==
    /\ LET y == [Idle EXCEPT !.pc = "putrt", !.tok = "cur"]
       IN  y \in Handler /\ \A g, l : ReqInv(y, g, l)
    /\ LET y == [Idle EXCEPT !.pc = "dex"]
       IN  y \in Handler /\ \A g, l : ReqInv(y, g, l)
<1> DEFINE a == [Idle EXCEPT !.pc = "putrt", !.tok = "cur"]
<1> DEFINE b == [Idle EXCEPT !.pc = "dex"]
<1>1. a \in Handler /\ b \in Handler
      BY ZenonT(60), RestTypes DEF Handler, Pcs, DexTokens
<1>2. a.pc = "putrt" /\ a.for = "none" /\ a.fate = "open" /\ a.late = FALSE
      BY DEF Idle
<1>3. b.pc = "dex" /\ b.for = "none" /\ b.fate = "open" /\ b.late = FALSE
      BY DEF Idle
<1>4. \A g, l : ReqInv(a, g, l)
      BY <1>2 DEF ReqInv, PathInv, InSession
<1>5. \A g, l : ReqInv(b, g, l)
      BY <1>3 DEF ReqInv, PathInv, InSession
<1> QED BY <1>1, <1>4, <1>5

\* A request that a record was presented to, as the three of them begin.
Presented(y, r) == y.gen = r.gen /\ y.fate = r.fate /\ y.late = (r.fate = "ended") /\ y.age = 0

LEMMA TakenCode ==
    ASSUME NEW r \in Rec
    PROVE  LET y == [Idle EXCEPT !.pc = "issue", !.for = "code", !.gen = r.gen,
                                 !.fate = r.fate, !.late = r.fate = "ended"]
           IN  y \in Handler /\ y.pc = "issue" /\ y.for = "code" /\ Presented(y, r)
<1>1. Idle \in Handler /\ Idle.age = 0 /\ r.gen \in 0..MaxGen /\ r.fate \in Fates
      BY RestTypes DEF Idle, Rec
<1> QED BY ZenonT(60), <1>1 DEF Handler, Pcs, Kinds, Presented

LEMMA TakenRefresh ==
    ASSUME NEW r \in Rec, NEW s \in Sids
    PROVE  LET y == [Idle EXCEPT !.pc = "live", !.for = "refresh", !.sid = s, !.gen = r.gen,
                                 !.fate = r.fate, !.late = r.fate = "ended"]
           IN  y \in Handler /\ y.pc = "live" /\ y.for = "refresh" /\ Presented(y, r)
<1>1. Idle \in Handler /\ Idle.age = 0 /\ r.gen \in 0..MaxGen /\ r.fate \in Fates
      BY RestTypes DEF Idle, Rec
<1> QED BY ZenonT(60), <1>1 DEF Handler, Pcs, Kinds, Presented

LEMMA LookedAt ==
    ASSUME NEW r \in Rec, NEW s \in Sids
    PROVE  LET y == [Idle EXCEPT !.pc = "live", !.for = "web", !.sid = s, !.gen = r.gen,
                                 !.left = r.left, !.fate = r.fate, !.late = r.fate = "ended"]
           IN  y \in Handler /\ y.pc = "live" /\ y.for = "web" /\ Presented(y, r)
<1>1. Idle \in Handler /\ Idle.age = 0 /\ r.gen \in 0..MaxGen /\ r.fate \in Fates
      BY RestTypes DEF Idle, Rec
<1>2. r.left \in 0..RefreshTTL
      BY DEF Rec
<1> QED BY ZenonT(60), <1>1, <1>2 DEF Handler, Pcs, Kinds, Presented

LEMMA PresentedKept ==
    ASSUME NEW g \in Nat, NEW l \in Nat, NEW r \in Rec, NEW y \in Handler, Presented(y, r),
           RecInv(r, g, l), r.kind = y.for,
           (y.pc = "issue" /\ y.for = "code") \/ (y.pc = "live" /\ y.for \in {"refresh", "web"})
    PROVE  ReqInv(y, g, l)
<1>1. r # NoRec
      BY RestTypes
<1>2. InSession(y) /\ ~ HasRead(y)
      BY DEF InSession, HasRead
<1>3. PathInv(y)
      BY Zenon, <1>2 DEF PathInv, Presented
<1>4. y.fate # "unread" => Stamped(y.gen, y.fate, g)
      BY <1>1 DEF RecInv, Presented
<1>5. y.fate # "unread" /\ g > 0 /\ y.pc = "issue" => RefreshTTL <= l + y.age
      BY <1>1, Constants DEF RecInv, Presented
<1> QED BY <1>2, <1>3, <1>4, <1>5 DEF ReqInv

\* A login's read of the generation, and its way to the console.
LEMMA LoginReads ==
    ASSUME NEW g \in 0..MaxGen, NEW l \in Nat, NEW x \in Handler, ReqInv(x, g, l),
           x.pc = "readgen", g > 0 => l = GenTTL
    PROVE  LET y == [x EXCEPT !.pc = "provision", !.gen = g]
           IN  y \in Handler /\ ReqInv(y, g, l)
<1> DEFINE y == [x EXCEPT !.pc = "provision", !.gen = g]
<1>1. y \in Handler /\ y.pc = "provision" /\ y.gen = g
      BY Zenon DEF Handler, Pcs
<1>2. y.for = x.for /\ y.fate = x.fate /\ y.late = x.late /\ y.age = x.age
      BY DEF Handler
<1>3. x.for = "none" /\ x.fate = "open" /\ ~ x.late /\ x.age \in Nat
      BY Fields DEF ReqInv, PathInv
<1>4. PathInv(y)
      BY <1>1, <1>2, <1>3 DEF PathInv
<1>5. Stamped(y.gen, y.fate, g)
      BY <1>1, <1>2, <1>3 DEF Stamped
<1>6. g > 0 => GenTTL <= l + y.age
      BY <1>2, <1>3, Constants
<1>7. y.pc # "issue"
      BY <1>1
<1>8. ReqInv(y, g, l)
      BY <1>4, <1>5, <1>6, <1>7 DEF ReqInv
<1> QED BY <1>1, <1>8

LEMMA LoginToConsole ==
    ASSUME NEW g \in Nat, NEW l \in Nat, NEW x \in Handler, NEW s \in Sids, ReqInv(x, g, l),
           x.pc = "provision"
    PROVE  LET y == [x EXCEPT !.pc = "ensure", !.for = "web", !.sid = s, !.left = RefreshTTL]
           IN  y \in Handler /\ ReqInv(y, g, l)
<1> DEFINE y == [x EXCEPT !.pc = "ensure", !.for = "web", !.sid = s, !.left = RefreshTTL]
<1>1. y \in Handler /\ y.pc = "ensure" /\ y.for = "web"
  <2>1. RefreshTTL \in 0..RefreshTTL
        BY Constants
  <2> QED BY Zenon, <2>1 DEF Handler, Pcs, Kinds
<1>2. y.gen = x.gen /\ y.fate = x.fate /\ y.late = x.late /\ y.age = x.age
      BY DEF Handler
<1>3. InSession(x) /\ HasRead(x)
      BY DEF InSession, HasRead
<1>4. ~ x.late
      BY <1>3 DEF ReqInv, PathInv
<1>5. PathInv(y)
      BY <1>1, <1>2, <1>4 DEF PathInv
<1>6. ReqInv(y, g, l)
      BY <1>1, <1>2, <1>3, <1>5 DEF ReqInv
<1> QED BY <1>1, <1>6

\* The facts about a state that every step below starts from.
LEMMA Now ==
    ASSUME IInv
    PROVE  /\ gen \in Nat /\ gen \in 0..MaxGen /\ genLeft \in Nat /\ pk \in BOOLEAN
           /\ relogin \in BOOLEAN /\ dexrt \in DexTokens
           /\ ender \in {"idle", "bump", "del", "flip", "bumpLast", "delLast"}
           /\ \A p \in Handlers : h[p] \in Handler /\ ReqInv(h[p], gen, genLeft)
           /\ \A s \in Sids : rec[s] \in Rec \cup {NoRec} /\ RecInv(rec[s], gen, genLeft)
           /\ \A s \in Sids : rec[s].kind # "none" => rec[s] \in Rec
BY Constants, RestTypes DEF IInv, TypeOK

LEMMA LoginInductive ==
    ASSUME IInv, NEW p \in Handlers,
           \/ LoginExchange(p) \/ LoginPutDexToken(p) \/ LoginReadGen(p)
           \/ LoginFinish(p) \/ LoginConsole(p)
    PROVE  IInv'
<1>1. h[p] \in Handler /\ ReqInv(h[p], gen, genLeft) /\ gen \in Nat /\ genLeft \in Nat
      BY Now
<1>2. CASE LoginExchange(p)
  <2>1. dexrt' \in DexTokens /\ relogin' \in BOOLEAN /\ EndNotUndone'
        BY <1>2, DexTokenKept DEF LoginExchange
  <2>2. RecsKept
        BY <1>1, <1>2, RecsSame DEF LoginExchange
  <2>3. RestKept
        BY <1>2, <2>1, <2>2, Now, CounterKept DEF LoginExchange, RestKept
  <2> QED BY <1>2, <2>3, Begun, StepAging DEF LoginExchange
<1>3. CASE LoginPutDexToken(p)
  <2>1. h[p].tok \in DexTokens
        BY <1>1, Fields
  <2>2. dexrt' \in DexTokens /\ relogin' \in BOOLEAN /\ EndNotUndone'
        BY Zenon, <1>3, <2>1, DexTokenKept DEF LoginPutDexToken
  <2>3. RecsKept
        BY <1>1, <1>3, RecsSame DEF LoginPutDexToken
  <2>4. RestKept
        BY <1>3, <2>2, <2>3, Now, CounterKept DEF LoginPutDexToken, RestKept
  <2> DEFINE y == [h[p] EXCEPT !.pc = "readgen"]
  <2>5. y \in Handler /\ y.pc = "readgen" /\ Alike(y, h[p])
        BY Zenon, <1>1, Moved DEF Pcs
  <2>6. h[p].pc = "putrt" /\ h' = [h EXCEPT ![p] = y] /\ genLeft' = genLeft
        BY <1>3 DEF LoginPutDexToken, Goto
  <2>7. ReqInv(y, gen, genLeft')
        BY <1>1, <2>5, <2>6 DEF ReqInv, PathInv, Alike, InSession
  <2> QED BY Zenon, <2>4, <2>5, <2>6, <2>7, StepAlone
<1>4. CASE LoginReadGen(p)
  <2>1. genLeft' \in Nat /\ genLeft <= genLeft' /\ (gen > 0 => genLeft' = GenTTL)
        BY <1>4, Slid, CounterKept DEF LoginReadGen
  <2>2. RecsKept
        BY <1>4, <2>1, RecsSame DEF LoginReadGen
  <2>3. dexrt' \in DexTokens /\ relogin' \in BOOLEAN /\ EndNotUndone'
        BY <1>4, DexTokenKept DEF LoginReadGen
  <2>4. RestKept
        BY <1>4, <2>2, <2>3, Now, CounterKept DEF LoginReadGen, RestKept
  <2> DEFINE y == [h[p] EXCEPT !.pc = "provision", !.gen = gen]
  <2>5. h[p].pc = "readgen" /\ h' = [h EXCEPT ![p] = y]
        BY Zenon, <1>4 DEF LoginReadGen
  <2>6. ReqInv(h[p], gen, genLeft')
        BY <1>1, <2>1, Longer
  <2>7. y \in Handler /\ ReqInv(y, gen, genLeft')
        BY Zenon, <1>1, <2>1, <2>5, <2>6, Now, LoginReads
  <2> QED BY Zenon, <2>4, <2>5, <2>7, StepAlone
<1>5. CASE LoginFinish(p)
  <2> DEFINE r == [kind |-> "code", gen |-> h[p].gen, left |-> 1, fate |-> h[p].fate]
  <2>1. PICK s \in Sids : rec' = [rec EXCEPT ![s] = r]
        BY Zenon, <1>5 DEF LoginFinish
  <2>2. h[p].gen \in 0..MaxGen /\ h[p].fate \in Fates /\ h[p].age \in 0..RotatingTTL
        BY <1>1, Fields
  <2>3. r \in Rec
        BY <2>2, Constants DEF Rec, Kinds
  <2>4. InSession(h[p]) /\ HasRead(h[p])
        BY <1>5 DEF LoginFinish, InSession, HasRead
  <2>5. r.fate # "unread" => Stamped(r.gen, r.fate, gen)
        BY <1>1, <2>4 DEF ReqInv
  <2>6. r.fate # "unread" /\ gen > 0 => GenTTL <= genLeft + h[p].age
        BY <1>1, <2>4 DEF ReqInv
  <2>7. r.fate # "unread" /\ gen > 0 => RefreshTTL <= genLeft /\ 1 <= genLeft
        BY <1>1, <2>2, <2>6, Constants
  <2>8. RecInv(r, gen, genLeft)
        BY <2>5, <2>7 DEF RecInv
  <2>9. genLeft' = genLeft /\ h' = [h EXCEPT ![p] = Idle]
        BY <1>5 DEF LoginFinish, EndRequest
  <2> HIDE DEF r
  <2>10. RecsKept
    <3>1. r \in Rec \cup {NoRec} /\ genLeft' \in Nat /\ genLeft <= genLeft' /\ RecInv(r, gen, genLeft')
          BY <1>1, <2>3, <2>8, <2>9
    <3> QED BY Zenon, <2>1, <3>1, RecsPut
  <2>11. dexrt' \in DexTokens /\ relogin' \in BOOLEAN /\ EndNotUndone'
        BY <1>5, DexTokenKept DEF LoginFinish
  <2>12. RestKept
        BY <1>5, <2>10, <2>11, Now, CounterKept DEF LoginFinish, RestKept
  <2> QED BY Zenon, <2>9, <2>12, RestTypes, StepAlone
<1>6. CASE LoginConsole(p)
  <2>1. PICK s \in Sids : h' = [h EXCEPT ![p] = [h[p] EXCEPT !.pc = "ensure", !.for = "web", !.sid = s,
                                                             !.left = RefreshTTL]]
        BY ZenonT(60), <1>6 DEF LoginConsole
  <2> DEFINE y == [h[p] EXCEPT !.pc = "ensure", !.for = "web", !.sid = s, !.left = RefreshTTL]
  <2>2. y \in Handler /\ ReqInv(y, gen, genLeft)
        BY Zenon, <1>1, <1>6, LoginToConsole DEF LoginConsole
  <2>3. RecsKept
    <3>1. rec' = rec /\ genLeft' = genLeft
          BY Zenon, <1>6 DEF LoginConsole
    <3> QED BY <1>1, <3>1, RecsSame
  <2>4. dexrt' \in DexTokens /\ relogin' \in BOOLEAN /\ EndNotUndone'
        BY Zenon, <1>6, DexTokenKept DEF LoginConsole
  <2>5. RestKept /\ genLeft' = genLeft
        BY Zenon, <1>6, <2>3, <2>4, Now, CounterKept DEF LoginConsole, RestKept
  <2> QED BY Zenon, <2>1, <2>2, <2>5, StepAlone
<1> QED BY <1>2, <1>3, <1>4, <1>5, <1>6

LEMMA PresentInductive ==
    ASSUME IInv, NEW p \in Handlers, NEW s \in Sids,
           TakeCode(p, s) \/ TakeRefresh(p, s) \/ OpenConsole(p, s)
    PROVE  IInv'
<1>1. /\ gen \in Nat /\ genLeft \in Nat /\ rec[s] \in Rec /\ RecInv(rec[s], gen, genLeft)
      /\ gen' = gen /\ genLeft' = genLeft /\ pk' = pk /\ ender' = ender
      /\ dexrt' = dexrt /\ relogin' = relogin
      BY Now DEF TakeCode, TakeRefresh, OpenConsole
<1>2. dexrt' \in DexTokens /\ relogin' \in BOOLEAN /\ EndNotUndone'
      BY <1>1, DexTokenKept
<1>3. rec' = [rec EXCEPT ![s] = NoRec] \/ rec' = rec
      BY DEF TakeCode, TakeRefresh, OpenConsole
<1>4. RecsKept
      BY <1>1, <1>3, RecsSame, RecsPut, RestTypes
<1>5. RestKept
      BY <1>1, <1>2, <1>4, Now, CounterKept DEF RestKept
<1>6. CASE TakeCode(p, s)
  <2> DEFINE y == [Idle EXCEPT !.pc = "issue", !.for = "code", !.gen = rec[s].gen,
                               !.fate = rec[s].fate, !.late = rec[s].fate = "ended"]
  <2>1. y \in Handler /\ y.pc = "issue" /\ y.for = "code" /\ Presented(y, rec[s])
        BY Zenon, <1>1, TakenCode
  <2>2. h' = [h EXCEPT ![p] = y] /\ rec[s].kind = "code"
        BY <1>6 DEF TakeCode
  <2> HIDE DEF y
  <2>3. ReqInv(y, gen, genLeft')
        BY <1>1, <2>1, <2>2, PresentedKept
  <2> QED BY Zenon, <1>5, <2>1, <2>2, <2>3, StepAlone
<1>7. CASE TakeRefresh(p, s)
  <2> DEFINE y == [Idle EXCEPT !.pc = "live", !.for = "refresh", !.sid = s, !.gen = rec[s].gen,
                               !.fate = rec[s].fate, !.late = rec[s].fate = "ended"]
  <2>1. y \in Handler /\ y.pc = "live" /\ y.for = "refresh" /\ Presented(y, rec[s])
        BY Zenon, <1>1, TakenRefresh
  <2>2. h' = [h EXCEPT ![p] = y] /\ rec[s].kind = "refresh"
        BY <1>7 DEF TakeRefresh
  <2> HIDE DEF y
  <2>3. ReqInv(y, gen, genLeft')
        BY <1>1, <2>1, <2>2, PresentedKept
  <2> QED BY Zenon, <1>5, <2>1, <2>2, <2>3, StepAlone
<1>8. CASE OpenConsole(p, s)
  <2> DEFINE y == [Idle EXCEPT !.pc = "live", !.for = "web", !.sid = s, !.gen = rec[s].gen,
                               !.left = rec[s].left, !.fate = rec[s].fate, !.late = rec[s].fate = "ended"]
  <2>1. y \in Handler /\ y.pc = "live" /\ y.for = "web" /\ Presented(y, rec[s])
        BY Zenon, <1>1, LookedAt
  <2>2. h' = [h EXCEPT ![p] = y] /\ rec[s].kind = "web"
        BY <1>8 DEF OpenConsole
  <2> HIDE DEF y
  <2>3. ReqInv(y, gen, genLeft')
        BY <1>1, <2>1, <2>2, PresentedKept
  <2> QED BY Zenon, <1>5, <2>1, <2>2, <2>3, StepAlone
<1> QED BY <1>6, <1>7, <1>8

\* A step that leaves the Dex token and the records alone, but for what one
\* request does.
LEMMA QuietRest ==
    ASSUME IInv, gen' = gen, UNCHANGED genLeft \/ SlideGen, pk' \in BOOLEAN,
           ender' \in {"idle", "bump", "del", "flip", "bumpLast", "delLast"},
           dexrt' \in {dexrt, "none", Aged(dexrt)}, relogin' = relogin, RecsKept
    PROVE  RestKept
<1>1. dexrt' \in DexTokens /\ relogin' \in BOOLEAN /\ EndNotUndone'
      BY Zenon, DexTokenKept
<1> QED BY <1>1, CounterKept DEF RestKept

LEMMA SyncInductive ==
    ASSUME IInv, NEW p \in Handlers,
           \/ StartSync(p) \/ CheckLive(p) \/ GetDexToken(p) \/ DexRotates(p)
           \/ DexRotatesUnheard(p) \/ DexReuses(p)
    PROVE  IInv'
<1>1. h[p] \in Handler /\ ReqInv(h[p], gen, genLeft) /\ gen \in Nat /\ genLeft \in Nat
      BY Now
<1>2. CASE StartSync(p)
  <2>1. /\ UNCHANGED <<gen, genLeft, dexrt, pk, rec, ender, relogin>>
        /\ h' = [h EXCEPT ![p] = [Idle EXCEPT !.pc = "dex"]]
        BY <1>2 DEF StartSync
  <2>2. RecsKept
        BY <1>1, <2>1, RecsSame
  <2>3. RestKept
        BY <2>1, <2>2, Now, QuietRest
  <2> QED BY Zenon, <2>1, <2>3, Begun, StepAlone
<1>3. CASE CheckLive(p)
  <2>1. /\ UNCHANGED <<gen, dexrt, pk, ender, relogin>> /\ SlideGen /\ h[p].pc = "live"
        BY <1>3 DEF CheckLive
  <2>2. genLeft' \in Nat /\ genLeft <= genLeft' /\ (gen > 0 => genLeft' = GenTTL)
        BY <2>1, Slid, CounterKept
  <2>3. CASE h[p].gen = gen
    <3> DEFINE y == [h[p] EXCEPT !.pc = "dex"]
    <3>1. h' = [h EXCEPT ![p] = y] /\ rec' = rec
          BY <1>3, <2>3 DEF CheckLive, Goto
    <3>2. y \in Handler /\ y.pc = "dex" /\ Alike(y, h[p])
          BY Zenon, <1>1, Moved DEF Pcs
    <3> HIDE DEF y
    <3>3. ReqInv(h[p], gen, genLeft')
          BY <1>1, <2>2, Longer
    <3>4. ReqInv(y, gen, genLeft')
          BY <1>1, <2>1, <2>2, <2>3, <3>2, <3>3, CarriedLive
    <3>5. RecsKept
          BY <2>2, <3>1, RecsSame
    <3>6. RestKept
          BY <2>1, <3>5, Now, QuietRest
    <3> QED BY Zenon, <3>1, <3>2, <3>4, <3>6, StepAlone
  <2>4. CASE h[p].gen # gen
    <3>1. h' = [h EXCEPT ![p] = Idle] /\ rec' = RefusedRec(p)
          BY <1>3, <2>4 DEF CheckLive, EndRequest
    <3>2. RecsKept
          BY <2>1, <3>1, RecsRefused
    <3>3. RestKept
          BY <2>1, <3>2, Now, QuietRest
    <3> QED BY Zenon, <3>1, <3>3, RestTypes, StepAlone
  <2> QED BY <2>3, <2>4
<1>4. CASE GetDexToken(p)
  <2>1. UNCHANGED <<gen, genLeft, dexrt, pk, ender, relogin>> /\ h[p].pc = "dex"
        BY <1>4 DEF GetDexToken
  <2>2. CASE dexrt = "none"
    <3>1. h' = [h EXCEPT ![p] = Idle] /\ rec' = RefusedRec(p)
          BY <1>4, <2>2 DEF GetDexToken, EndRequest
    <3>2. RecsKept
          BY <2>1, <3>1, RecsRefused
    <3>3. RestKept
          BY <2>1, <3>2, Now, QuietRest
    <3> QED BY Zenon, <3>1, <3>3, RestTypes, StepAlone
  <2>3. CASE dexrt # "none"
    <3> DEFINE y == [h[p] EXCEPT !.pc = "call", !.tok = dexrt]
    <3>1. h' = [h EXCEPT ![p] = y] /\ rec' = rec
          BY Zenon, <1>4, <2>3 DEF GetDexToken
    <3>2. y \in Handler /\ y.pc = "call" /\ Alike(y, h[p])
          BY Zenon, <1>1, MovedWithToken, Now DEF Pcs
    <3> HIDE DEF y
    <3>3. HasRead(h[p])
          BY <2>1 DEF HasRead
    <3>4. ReqInv(y, gen, genLeft')
          BY <1>1, <2>1, <3>2, <3>3, Carried
    <3>5. RecsKept
          BY <1>1, <2>1, <3>1, RecsSame
    <3>6. RestKept
          BY <2>1, <3>5, Now, QuietRest
    <3> QED BY Zenon, <3>1, <3>2, <3>4, <3>6, StepAlone
  <2> QED BY <2>2, <2>3
<1>5. CASE DexRotates(p)
  <2> DEFINE y == [h[p] EXCEPT !.pc = "putdex"]
  <2>1. /\ UNCHANGED <<gen, genLeft, pk, rec, ender, relogin>> /\ h[p].pc = "call"
        /\ dexrt' = Aged(dexrt)
        /\ h' = [q \in Handlers |-> IF q = p THEN y ELSE [h[q] EXCEPT !.tok = Aged(h[q].tok)]]
        BY <1>5 DEF DexRotates
  <2>2. y \in Handler /\ y.pc = "putdex" /\ Alike(y, h[p])
        BY Zenon, <1>1, Moved DEF Pcs
  <2> HIDE DEF y
  <2>3. HasRead(h[p])
        BY <2>1 DEF HasRead
  <2>4. ReqInv(y, gen, genLeft')
        BY <1>1, <2>1, <2>2, <2>3, Carried
  <2>5. RecsKept
        BY <1>1, <2>1, RecsSame
  <2>6. RestKept
        BY <2>1, <2>5, Now, QuietRest
  <2> QED BY <2>1, <2>2, <2>4, <2>6, StepAging
<1>6. CASE DexRotatesUnheard(p)
  <2>1. /\ UNCHANGED <<gen, genLeft, pk, ender, relogin>>
        /\ dexrt' = Aged(dexrt) /\ rec' = Restored(p)
        /\ h' = [q \in Handlers |-> IF q = p THEN Idle ELSE [h[q] EXCEPT !.tok = Aged(h[q].tok)]]
        BY <1>6 DEF DexRotatesUnheard
  <2>2. RecsKept
        BY <2>1, RecsRestored
  <2>3. RestKept
        BY <2>1, <2>2, Now, QuietRest
  <2> QED BY <2>1, <2>3, RestTypes, StepAging
<1>7. CASE DexReuses(p)
  <2> DEFINE y == [h[p] EXCEPT !.pc = "putdex", !.tok = "cur"]
  <2>1. /\ UNCHANGED <<gen, genLeft, dexrt, pk, rec, ender, relogin>> /\ h[p].pc = "call"
        /\ h' = [h EXCEPT ![p] = y]
        BY Zenon, <1>7 DEF DexReuses
  <2>2. y \in Handler /\ y.pc = "putdex" /\ Alike(y, h[p])
        BY Zenon, <1>1, MovedWithToken DEF Pcs, DexTokens
  <2> HIDE DEF y
  <2>3. HasRead(h[p])
        BY <2>1 DEF HasRead
  <2>4. ReqInv(y, gen, genLeft')
        BY <1>1, <2>1, <2>2, <2>3, Carried
  <2>5. RecsKept
        BY <1>1, <2>1, RecsSame
  <2>6. RestKept
        BY <2>1, <2>5, Now, QuietRest
  <2> QED BY Zenon, <2>1, <2>2, <2>4, <2>6, StepAlone
<1> QED BY <1>2, <1>3, <1>4, <1>5, <1>6, <1>7

LEMMA DenyInductive ==
    ASSUME IInv, NEW p \in Handlers,
           DexDenies(p) \/ DenyDelete(p) \/ DenyRevoke(p) \/ PutDexToken(p)
    PROVE  IInv'
<1>1. h[p] \in Handler /\ ReqInv(h[p], gen, genLeft) /\ gen \in Nat /\ genLeft \in Nat
      BY Now
<1>2. CASE DexDenies(p)
  <2> DEFINE y == [h[p] EXCEPT !.pc = "deny"]
  <2>1. /\ UNCHANGED <<gen, genLeft, dexrt, pk, rec, ender, relogin>> /\ h[p].pc = "call"
        /\ h' = [h EXCEPT ![p] = y]
        BY <1>2 DEF DexDenies, Goto
  <2>2. y \in Handler /\ y.pc = "deny" /\ Alike(y, h[p])
        BY Zenon, <1>1, Moved DEF Pcs
  <2> HIDE DEF y
  <2>3. HasRead(h[p])
        BY <2>1 DEF HasRead
  <2>4. ReqInv(y, gen, genLeft')
        BY <1>1, <2>1, <2>2, <2>3, Carried
  <2>5. RecsKept
        BY <1>1, <2>1, RecsSame
  <2>6. RestKept
        BY <2>1, <2>5, Now, QuietRest
  <2> QED BY Zenon, <2>1, <2>2, <2>4, <2>6, StepAlone
<1>3. CASE DenyDelete(p)
  <2> DEFINE y == [h[p] EXCEPT !.pc = "denyrow"]
  <2>1. /\ UNCHANGED <<gen, genLeft, pk, rec, ender, relogin>> /\ h[p].pc = "deny"
        /\ h' = [h EXCEPT ![p] = y] /\ dexrt' \in {dexrt, "none"}
        BY <1>3 DEF DenyDelete, Goto
  <2>2. y \in Handler /\ y.pc = "denyrow" /\ Alike(y, h[p])
        BY Zenon, <1>1, Moved DEF Pcs
  <2> HIDE DEF y
  <2>3. HasRead(h[p])
        BY <2>1 DEF HasRead
  <2>4. ReqInv(y, gen, genLeft')
        BY <1>1, <2>1, <2>2, <2>3, Carried
  <2>5. RecsKept
        BY <1>1, <2>1, RecsSame
  <2>6. RestKept
        BY <2>1, <2>5, Now, QuietRest
  <2> QED BY Zenon, <2>1, <2>2, <2>4, <2>6, StepAlone
<1>4. CASE DenyRevoke(p)
  <2>1. /\ UNCHANGED <<gen, genLeft, dexrt, ender, relogin>>
        /\ pk' \in {pk, FALSE} /\ rec' = RefusedRec(p) /\ h' = [h EXCEPT ![p] = Idle]
        BY Zenon, <1>4 DEF DenyRevoke, EndRequest
  <2>2. RecsKept
        BY <2>1, RecsRefused
  <2>3. pk' \in BOOLEAN
        BY Zenon, <2>1, Now
  <2>4. RestKept
        BY <2>1, <2>2, <2>3, Now, QuietRest
  <2> QED BY Zenon, <2>1, <2>4, RestTypes, StepAlone
<1>5. CASE PutDexToken(p)
  <2>1. UNCHANGED <<gen, genLeft, pk, ender, relogin>> /\ h[p].pc = "putdex"
        BY <1>5 DEF PutDexToken
  <2>2. CASE dexrt = "none"
    <3>1. h' = [h EXCEPT ![p] = Idle] /\ rec' = RefusedRec(p) /\ dexrt' = dexrt
          BY <1>5, <2>2 DEF PutDexToken, EndRequest
    <3>2. RecsKept
          BY <2>1, <3>1, RecsRefused
    <3>3. RestKept
          BY <2>1, <3>1, <3>2, Now, QuietRest
    <3> QED BY Zenon, <3>1, <3>3, RestTypes, StepAlone
  <2>3. CASE dexrt # "none"
    <3> DEFINE a == [h[p] EXCEPT !.pc = "issue", !.tok = "none"]
    <3> DEFINE b == [h[p] EXCEPT !.pc = "ensure", !.tok = "none"]
    <3>1. /\ rec' = rec /\ dexrt' = h[p].tok
          /\ h' = [h EXCEPT ![p] = CASE h[p].for = "refresh" -> a [] h[p].for = "web" -> b
                                     [] OTHER -> Idle]
          BY <1>5, <2>3 DEF PutDexToken
    <3>2. a \in Handler /\ a.pc = "issue" /\ Alike(a, h[p])
          BY Zenon, <1>1, MovedWithToken DEF Pcs, DexTokens
    <3>3. b \in Handler /\ b.pc = "ensure" /\ Alike(b, h[p])
          BY Zenon, <1>1, MovedWithToken DEF Pcs, DexTokens
    <3> HIDE DEF a, b
    <3>4. HasRead(h[p])
          BY <2>1 DEF HasRead
    <3>5. h[p].for = "refresh" => ReqInv(a, gen, genLeft')
      <4>1. HAVE h[p].for = "refresh"
      <4>2. a.for = "refresh"
            BY <3>2, <4>1 DEF Alike
      <4> QED BY <1>1, <2>1, <3>2, <3>4, <4>2, Carried
    <3>6. h[p].for = "web" => ReqInv(b, gen, genLeft')
      <4>1. HAVE h[p].for = "web"
      <4>2. b.for = "web"
            BY <3>3, <4>1 DEF Alike
      <4> QED BY <1>1, <2>1, <3>3, <3>4, <4>2, Carried
    <3>7. h[p].tok \in DexTokens
          BY <1>1, Fields
    <3>8. dexrt' \in DexTokens /\ relogin' \in BOOLEAN /\ EndNotUndone'
          BY Zenon, <2>1, <2>3, <3>1, <3>7, DexTokenKept
    <3>9. RecsKept
          BY <1>1, <2>1, <3>1, RecsSame
    <3>10. RestKept
          BY <2>1, <3>8, <3>9, Now, CounterKept DEF RestKept
    <3>11. CASE h[p].for = "refresh"
      <4>1. h' = [h EXCEPT ![p] = a]
            BY <3>1, <3>11
      <4> QED BY Zenon, <3>2, <3>5, <3>10, <3>11, <4>1, StepAlone
    <3>12. CASE h[p].for = "web"
      <4>1. h' = [h EXCEPT ![p] = b]
            BY <3>1, <3>12
      <4> QED BY Zenon, <3>3, <3>6, <3>10, <3>12, <4>1, StepAlone
    <3>13. CASE h[p].for \notin {"refresh", "web"}
      <4>1. h' = [h EXCEPT ![p] = Idle]
            BY Zenon, <3>1, <3>13
      <4> QED BY Zenon, <3>10, <4>1, RestTypes, StepAlone
    <3> QED BY <3>11, <3>12, <3>13
  <2> QED BY <2>2, <2>3
<1> QED BY <1>2, <1>3, <1>4, <1>5

LEMMA IssueInductive ==
    ASSUME IInv, NEW p \in Handlers,
           Issue(p) \/ EnsureRow(p) \/ MintRow(p) \/ RequestFails(p) \/ Crash(p)
    PROVE  IInv'
<1>1. h[p] \in Handler /\ ReqInv(h[p], gen, genLeft) /\ gen \in Nat /\ genLeft \in Nat
      BY Now
<1>2. CASE Issue(p)
  <2>1. UNCHANGED <<gen, dexrt, pk, ender, relogin>> /\ SlideGen /\ h[p].pc = "issue"
        BY <1>2 DEF Issue
  <2>2. genLeft' \in Nat /\ genLeft <= genLeft' /\ (gen > 0 => genLeft' = GenTTL)
        BY <2>1, Slid, CounterKept
  <2>3. CASE h[p].gen = gen
    <3> DEFINE y == [h[p] EXCEPT !.pc = "ensure"]
    <3>1. h' = [h EXCEPT ![p] = y] /\ rec' = rec
          BY <1>2, <2>3 DEF Issue, Goto
    <3>2. y \in Handler /\ y.pc = "ensure" /\ Alike(y, h[p])
          BY Zenon, <1>1, Moved DEF Pcs
    <3> HIDE DEF y
    <3>3. ReqInv(h[p], gen, genLeft')
          BY <1>1, <2>2, Longer
    <3>4. ReqInv(y, gen, genLeft')
          BY <1>1, <2>1, <2>2, <2>3, <3>2, <3>3, CarriedLive
    <3>5. RecsKept
          BY <2>2, <3>1, RecsSame
    <3>6. RestKept
          BY <2>1, <3>5, Now, QuietRest
    <3> QED BY Zenon, <3>1, <3>2, <3>4, <3>6, StepAlone
  <2>4. CASE h[p].gen # gen
    <3>1. h' = [h EXCEPT ![p] = Idle] /\ rec' = Restored(p)
          BY <1>2, <2>4 DEF Issue, EndRequest
    <3>2. RecsKept
          BY <2>1, <3>1, RecsRestored
    <3>3. RestKept
          BY <2>1, <3>2, Now, QuietRest
    <3> QED BY Zenon, <3>1, <3>3, RestTypes, StepAlone
  <2> QED BY <2>3, <2>4
<1>3. ASSUME NEW c \in {"mint", "pair"}, h[p].pc \in {"ensure", "mint"},
             h' = [h EXCEPT ![p] = [h[p] EXCEPT !.pc = c]], pk' \in BOOLEAN,
             UNCHANGED <<gen, genLeft, dexrt, rec, ender, relogin>>
      PROVE  IInv'
  <2> DEFINE y == [h[p] EXCEPT !.pc = c]
  <2>1. y \in Handler /\ y.pc = c /\ Alike(y, h[p])
    <3>1. c \in Pcs
          BY <1>3 DEF Pcs
    <3> QED BY <1>1, <3>1, Moved
  <2>2. h' = [h EXCEPT ![p] = y]
        BY <1>3
  <2> HIDE DEF y
  <2>3. HasRead(h[p])
        BY <1>3 DEF HasRead
  <2>4. y.for # "none"
        BY <1>1, <1>3, <2>1 DEF ReqInv, PathInv, Alike
  <2>5. ReqInv(y, gen, genLeft)
        BY <1>1, <1>3, <2>1, <2>3, <2>4, Carried
  <2>6. RecsKept
        BY <1>1, <1>3, RecsSame
  <2>7. RestKept
        BY <1>3, <2>6, Now, QuietRest
  <2> QED BY Zenon, <1>3, <2>1, <2>2, <2>5, <2>7, StepAlone
<1>4. CASE EnsureRow(p)
  <2>1. UNCHANGED <<gen, genLeft, dexrt, rec, ender, relogin>> /\ h[p].pc = "ensure"
        BY <1>4 DEF EnsureRow
  <2>2. PICK c \in {"mint", "pair"} : h' = [h EXCEPT ![p] = [h[p] EXCEPT !.pc = c]]
        BY <1>4 DEF EnsureRow, Goto
  <2>3. pk' \in BOOLEAN
        BY Zenon, <1>4, Now DEF EnsureRow
  <2> QED BY Zenon, <1>3, <2>1, <2>2, <2>3
<1>5. ASSUME h' = [h EXCEPT ![p] = Idle], rec' = Restored(p) \/ rec' = rec,
             UNCHANGED <<gen, genLeft, dexrt, pk, ender, relogin>>
      PROVE  IInv'
  <2>1. RecsKept
        BY <1>1, <1>5, RecsRestored, RecsSame
  <2>2. RestKept
        BY <1>5, <2>1, Now, QuietRest
  <2> QED BY Zenon, <1>5, <2>2, RestTypes, StepAlone
<1>6. CASE MintRow(p)
  <2>1. CASE pk
        BY <1>5, <1>6, <2>1 DEF MintRow, EndRequest
  <2>2. CASE ~ pk
    <3>1. /\ UNCHANGED <<gen, genLeft, dexrt, rec, ender, relogin>> /\ h[p].pc = "mint"
          /\ h' = [h EXCEPT ![p] = [h[p] EXCEPT !.pc = "pair"]] /\ pk' = TRUE
          BY <1>6, <2>2 DEF MintRow, Goto
    <3> QED BY <1>3, <3>1
  <2> QED BY <2>1, <2>2
<1>7. CASE RequestFails(p)
      BY <1>5, <1>7 DEF RequestFails, EndRequest
<1>8. CASE Crash(p)
      BY <1>5, <1>8 DEF Crash, EndRequest
<1> QED BY <1>2, <1>4, <1>6, <1>7, <1>8

LEMMA PairInductive ==
    ASSUME IInv, NEW p \in Handlers, Pair(p)
    PROVE  IInv'
<1>1. h[p] \in Handler /\ ReqInv(h[p], gen, genLeft) /\ gen \in Nat /\ genLeft \in Nat
      BY Now
<1>2. /\ UNCHANGED <<gen, genLeft, dexrt, pk, ender, relogin>> /\ h[p].pc = "pair"
      /\ h' = [h EXCEPT ![p] = Idle]
      BY DEF Pair, EndRequest
<1>3. h[p].for # "none" /\ HasRead(h[p])
      BY <1>1, <1>2 DEF ReqInv, PathInv, HasRead
<1>4. InSession(h[p])
      BY <1>3 DEF InSession
<1>5. /\ h[p].gen \in 0..MaxGen /\ h[p].fate \in Fates /\ h[p].age \in 0..RotatingTTL
      /\ h[p].left \in 0..RefreshTTL
      BY <1>1, Fields
<1>6. h[p].fate # "unread" => Stamped(h[p].gen, h[p].fate, gen)
      BY <1>1, <1>4 DEF ReqInv
<1>7. h[p].fate # "unread" /\ gen > 0 => RefreshTTL <= genLeft
  <2>1. h[p].fate # "unread" /\ gen > 0 => GenTTL <= genLeft + h[p].age
        BY <1>1, <1>3, <1>4 DEF ReqInv
  <2> QED BY <1>1, <1>5, <2>1, Constants
<1>8. ASSUME NEW k \in {"web", "refresh"}, NEW l \in 1..RefreshTTL
      PROVE  LET r == [kind |-> k, gen |-> h[p].gen, left |-> l, fate |-> h[p].fate]
             IN  r \in Rec \cup {NoRec} /\ RecInv(r, gen, genLeft)
  <2> DEFINE r == [kind |-> k, gen |-> h[p].gen, left |-> l, fate |-> h[p].fate]
  <2>1. r \in Rec
        BY <1>5 DEF Rec, Kinds
  <2>2. r.kind # "code" /\ r.gen = h[p].gen /\ r.left = l /\ r.fate = h[p].fate
        OBVIOUS
  <2>3. h[p].fate # "unread" /\ gen > 0 => l <= genLeft
        BY <1>1, <1>7, Constants
  <2> HIDE DEF r
  <2>4. RecInv(r, gen, genLeft)
        BY <1>6, <2>2, <2>3 DEF RecInv
  <2> QED BY <2>1, <2>4 DEF r
<1>9. ASSUME NEW s, NEW r \in Rec \cup {NoRec}, rec' = [rec EXCEPT ![s] = r],
             RecInv(r, gen, genLeft)
      PROVE  RecsKept
  <2>1. genLeft' \in Nat /\ genLeft <= genLeft' /\ RecInv(r, gen, genLeft')
        BY <1>1, <1>2, <1>9
  <2> QED BY Zenon, <1>9, <2>1, RecsPut
<1>10. RecsKept
  <2>1. CASE h[p].for = "web" /\ h[p].left = 0
    <3>1. rec' = [rec EXCEPT ![h[p].sid] = NoRec]
          BY <2>1 DEF Pair
    <3> QED BY Zenon, <1>9, <3>1, RestTypes
  <2>2. CASE h[p].for = "web" /\ h[p].left # 0
    <3> DEFINE r == [kind |-> "web", gen |-> h[p].gen, left |-> h[p].left, fate |-> h[p].fate]
    <3>1. rec' = [rec EXCEPT ![h[p].sid] = r]
          BY <2>2 DEF Pair
    <3>2. h[p].left \in 1..RefreshTTL
          BY <1>5, <2>2
    <3>3. r \in Rec \cup {NoRec} /\ RecInv(r, gen, genLeft)
          BY <1>8, <3>2
    <3> HIDE DEF r
    <3> QED BY Zenon, <1>9, <3>1, <3>3
  <2>3. CASE h[p].for # "web"
    <3> DEFINE r == [kind |-> "refresh", gen |-> h[p].gen, left |-> RefreshTTL, fate |-> h[p].fate]
    <3>1. PICK s \in Sids : rec' = [rec EXCEPT ![s] = r]
          BY <2>3 DEF Pair
    <3>2. RefreshTTL \in 1..RefreshTTL
          BY Constants
    <3>3. r \in Rec \cup {NoRec} /\ RecInv(r, gen, genLeft)
          BY <1>8, <3>2
    <3> HIDE DEF r
    <3> QED BY Zenon, <1>9, <3>1, <3>3
  <2> QED BY <2>1, <2>2, <2>3
<1>11. RestKept
      BY <1>2, <1>10, Now, QuietRest
<1> QED BY Zenon, <1>2, <1>11, RestTypes, StepAlone

-----------------------------------------------------------------------------
(* Steps of no request. *)

LEMMA RecordInductive ==
    ASSUME IInv, NEW s \in Sids, RefuseWrongClient(s) \/ ConsoleLogout(s)
    PROVE  IInv'
<1>1. UNCHANGED <<gen, genLeft, dexrt, pk, h, ender, relogin>>
      BY DEF RefuseWrongClient, ConsoleLogout
<1>2. rec[s] \in Rec /\ genLeft \in Nat
      BY Now DEF RefuseWrongClient, ConsoleLogout
<1>3. CASE RefuseWrongClient(s)
  <2> DEFINE r == [rec[s] EXCEPT !.left = RefreshTTL, !.fate = "unread"]
  <2>1. rec' = [rec EXCEPT ![s] = r] /\ rec[s].kind = "refresh"
        BY Zenon, <1>3 DEF RefuseWrongClient
  <2>2. r \in Rec /\ r.kind = "refresh" /\ r.fate = "unread"
    <3>1. RefreshTTL \in 1..RefreshTTL
          BY Constants
    <3> QED BY Zenon, <1>2, <2>1, <3>1 DEF Rec, Fates
  <2> HIDE DEF r
  <2>3. RecInv(r, gen, genLeft')
        BY <2>2 DEF RecInv
  <2>4. RecsKept
    <3>1. genLeft' \in Nat /\ genLeft <= genLeft' /\ r \in Rec \cup {NoRec}
          BY <1>1, <1>2, <2>2
    <3> QED BY Zenon, <2>1, <2>3, <3>1, RecsPut
  <2>5. RestKept
        BY <1>1, <2>4, Now, QuietRest
  <2> QED BY <1>1, <2>5, StepNone
<1>4. CASE ConsoleLogout(s)
  <2>1. RecsKept
    <3>1. genLeft' \in Nat /\ genLeft <= genLeft' /\ rec' = [rec EXCEPT ![s] = NoRec]
          BY <1>1, <1>2, <1>4 DEF ConsoleLogout
    <3> QED BY Zenon, <3>1, RecsPut, RestTypes
  <2>2. RestKept
        BY <1>1, <2>1, Now, QuietRest
  <2> QED BY <1>1, <2>2, StepNone
<1> QED BY <1>3, <1>4

LEMMA RevokeInductive ==
    ASSUME IInv,
           OwnerRevokes \/ AdminRevokes \/ EndSessionsFails \/ FlipRow \/ DelDexToken \/ DexTokenExpires
    PROVE  IInv'
<1>1. /\ UNCHANGED <<gen, genLeft, rec, h>>
      /\ ender' \in {"idle", "bump", "del", "flip", "bumpLast", "delLast"}
      BY Now DEF OwnerRevokes, AdminRevokes, EndSessionsFails, FlipRow, DelDexToken, DexTokenExpires
<1>2. pk' \in BOOLEAN
      BY Zenon, Now DEF OwnerRevokes, AdminRevokes, EndSessionsFails, FlipRow, DelDexToken, DexTokenExpires
<1>3. \/ dexrt' \in {dexrt, "none", Aged(dexrt)} /\ relogin' = relogin
      \/ dexrt' = "none" /\ relogin' = FALSE
      BY DEF OwnerRevokes, AdminRevokes, EndSessionsFails, FlipRow, DelDexToken, DexTokenExpires
<1>4. dexrt' \in DexTokens /\ relogin' \in BOOLEAN /\ EndNotUndone'
      BY Zenon, <1>3, DexTokenKept
<1>5. RecsKept
      BY <1>1, Now, RecsSame
<1>6. RestKept
      BY <1>1, <1>2, <1>4, <1>5, CounterKept DEF RestKept
<1> QED BY <1>1, <1>6, StepNone

\* EndSessions: what was stamped with the generation it ends is behind the new one.
LEMMA EndedRec ==
    ASSUME NEW g \in Nat, NEW l \in Nat, NEW r \in Rec, RecInv(r, g, l)
    PROVE  LET q == [r EXCEPT !.fate = Ended(r.fate)]
           IN  q \in Rec \cup {NoRec} /\ RecInv(q, g + 1, GenTTL)
<1> DEFINE q == [r EXCEPT !.fate = Ended(r.fate)]
<1>1. r # NoRec /\ r.fate \in Fates /\ r.gen \in Nat /\ r.left \in 1..RefreshTTL
      BY RestTypes DEF Rec
<1>2. Ended(r.fate) \in Fates /\ Ended(r.fate) # "open" /\ (Ended(r.fate) = "unread" <=> r.fate = "unread")
      BY <1>1 DEF Ended, Fates
<1>3. q \in Rec /\ q.kind = r.kind /\ q.gen = r.gen /\ q.left = r.left /\ q.fate = Ended(r.fate)
      BY <1>2 DEF Rec
<1>4. r.fate # "unread" => r.gen < g + 1
      BY <1>1 DEF RecInv, Stamped, Fates
<1>5. r.kind = "code" => r.left = 1
      BY DEF RecInv
<1>6. RefreshTTL <= GenTTL /\ r.left <= GenTTL
      BY <1>1, Constants
<1> HIDE DEF q
<1>7. RecInv(q, g + 1, GenTTL)
      BY <1>2, <1>3, <1>4, <1>5, <1>6 DEF RecInv, Stamped
<1> QED BY <1>3, <1>7 DEF q

LEMMA EndedRequest ==
    ASSUME NEW g \in Nat, NEW l \in Nat, NEW x \in Handler, ReqInv(x, g, l),
           x.pc \notin {"idle", "putrt", "readgen"}
    PROVE  LET y == [x EXCEPT !.fate = Ended(x.fate)]
           IN  y \in Handler /\ ReqInv(y, g + 1, GenTTL)
<1> DEFINE y == [x EXCEPT !.fate = Ended(x.fate)]
<1>1. x.fate \in Fates /\ x.gen \in Nat /\ x.age \in Nat
      BY Fields
<1>2. Ended(x.fate) \in Fates /\ Ended(x.fate) # "open" /\ (Ended(x.fate) = "unread" <=> x.fate = "unread")
      BY <1>1 DEF Ended, Fates
<1>3. /\ y \in Handler /\ y.pc = x.pc /\ y.for = x.for /\ y.gen = x.gen /\ y.age = x.age
      /\ y.late = x.late /\ y.fate = Ended(x.fate)
      BY <1>2 DEF Handler
<1>4. x.late => Ended(x.fate) = "ended"
      BY DEF ReqInv, PathInv, Ended
<1> HIDE DEF y
<1>5. PathInv(y)
      BY <1>3, <1>4 DEF ReqInv, PathInv, InSession, HasRead
<1>6. InSession(y) /\ y.fate # "unread" => Stamped(y.gen, y.fate, g + 1)
      BY <1>1, <1>2, <1>3 DEF ReqInv, Stamped, InSession, Fates
<1>7. GenTTL <= GenTTL + y.age /\ RefreshTTL <= GenTTL + y.age
      BY <1>1, <1>3, Constants
<1>8. ReqInv(y, g + 1, GenTTL)
      BY <1>5, <1>6, <1>7 DEF ReqInv
<1> QED BY <1>3, <1>8 DEF y

LEMMA BumpInductive ==
    ASSUME IInv, Bump
    PROVE  IInv'
<1>1. /\ gen' = gen + 1 /\ genLeft' = GenTTL /\ UNCHANGED <<dexrt, pk, relogin>> /\ gen < MaxGen
      BY DEF Bump
<1>2. gen' \in 0..MaxGen /\ genLeft' \in 0..(RefreshTTL + RotatingTTL) /\ gen' # 0 /\ genLeft' # 0
      BY <1>1, Now, Constants
<1>3. ender' \in {"idle", "bump", "del", "flip", "bumpLast", "delLast"}
      BY DEF Bump
<1>4. dexrt' \in DexTokens /\ relogin' \in BOOLEAN /\ EndNotUndone'
      BY <1>1, DexTokenKept
<1>5. /\ rec' \in [Sids -> Rec \cup {NoRec}]
      /\ \A s \in Sids : RecInv(rec'[s], gen', genLeft')
  <2>1. rec' = [s \in Sids |-> IF rec[s] = NoRec THEN NoRec ELSE [rec[s] EXCEPT !.fate = Ended(rec[s].fate)]]
        BY DEF Bump
  <2>2. \A s \in Sids : rec'[s] \in Rec \cup {NoRec} /\ RecInv(rec'[s], gen + 1, GenTTL)
    <3>1. TAKE s \in Sids
    <3>2. CASE rec[s] = NoRec
          BY <2>1, <3>2, RestTypes
    <3>3. CASE rec[s] # NoRec
      <4>1. rec'[s] = [rec[s] EXCEPT !.fate = Ended(rec[s].fate)]
            BY <2>1, <3>3
      <4>2. rec[s] \in Rec /\ RecInv(rec[s], gen, genLeft) /\ gen \in Nat /\ genLeft \in Nat
            BY <3>3, Now
      <4> QED BY <4>1, <4>2, EndedRec
    <3> QED BY <3>2, <3>3
  <2>3. rec' \in [Sids -> Rec \cup {NoRec}]
        BY <2>1, <2>2
  <2> QED BY <1>1, <2>2, <2>3
<1>6. h' \in [Handlers -> Handler] /\ \A p \in Handlers : ReqInv(h'[p], gen', genLeft')
  <2>1. h' = [p \in Handlers |-> IF h[p].pc \in {"idle", "putrt", "readgen"} THEN h[p]
                                 ELSE [h[p] EXCEPT !.fate = Ended(h[p].fate)]]
        BY DEF Bump
  <2>2. \A p \in Handlers : h'[p] \in Handler /\ ReqInv(h'[p], gen + 1, GenTTL)
    <3>1. TAKE p \in Handlers
    <3>2. h[p] \in Handler /\ ReqInv(h[p], gen, genLeft) /\ gen \in Nat /\ genLeft \in Nat
          BY Now
    <3>3. CASE h[p].pc \in {"idle", "putrt", "readgen"}
      <4>1. h'[p] = h[p]
            BY <2>1, <3>3
      <4> QED BY <3>2, <3>3, <4>1 DEF ReqInv, PathInv, InSession
    <3>4. CASE h[p].pc \notin {"idle", "putrt", "readgen"}
      <4>1. h'[p] = [h[p] EXCEPT !.fate = Ended(h[p].fate)]
            BY <2>1, <3>4
      <4> QED BY <3>2, <3>4, <4>1, EndedRequest
    <3> QED BY <3>3, <3>4
  <2>3. h' \in [Handlers -> Handler]
        BY <2>1, <2>2
  <2> QED BY <1>1, <2>2, <2>3
<1>7. TypeOK'
      BY <1>1, <1>2, <1>3, <1>4, <1>5, <1>6, Now DEF TypeOK
<1> QED BY <1>2, <1>4, <1>5, <1>6, <1>7 DEF IInv

\* A unit of time passes.  When the counter runs out, so has every record
\* stamped under it that a request could still be held to, and no request that
\* read it is that old.
Left(l) == IF l = 0 THEN 0 ELSE l - 1

LEMMA OlderRec ==
    ASSUME NEW g \in Nat, NEW l \in Nat, NEW r \in Rec \cup {NoRec}, RecInv(r, g, l),
           g = 0 <=> l = 0
    PROVE  LET q == IF r.left <= 1 THEN NoRec ELSE [r EXCEPT !.left = r.left - 1]
           IN  q \in Rec \cup {NoRec} /\ RecInv(q, IF Left(l) = 0 THEN 0 ELSE g, Left(l))
<1> DEFINE c == IF Left(l) = 0 THEN 0 ELSE g
<1>1. CASE r.left <= 1
      BY <1>1, RestTypes
<1>2. CASE ~ (r.left <= 1)
  <2> DEFINE q == [r EXCEPT !.left = r.left - 1]
  <2>1. r \in Rec
        BY <1>2, RestTypes
  <2>2. r.left \in 1..RefreshTTL /\ r # NoRec
        BY <2>1, RestTypes DEF Rec
  <2>3. r.left - 1 \in 1..RefreshTTL
        BY <1>2, <2>2, Constants
  <2>4. q \in Rec /\ q.kind = r.kind /\ q.gen = r.gen /\ q.fate = r.fate /\ q.left = r.left - 1
        BY <2>1, <2>3 DEF Rec
  <2>5. q.kind # "code"
        BY <1>2, <2>4 DEF RecInv
  <2>6. r.fate # "unread" => Stamped(r.gen, r.fate, g) /\ (g > 0 => r.left <= l)
        BY <2>2 DEF RecInv
  <2>7. r.fate # "unread" => c = g
        BY <1>2, <2>2, <2>6 DEF Left
  <2>8. r.fate # "unread" /\ c > 0 => r.left - 1 <= Left(l)
        BY <1>2, <2>2, <2>6, <2>7 DEF Left
  <2> HIDE DEF q, c
  <2>9. RecInv(q, c, Left(l))
        BY <2>4, <2>5, <2>6, <2>7, <2>8 DEF RecInv
  <2> QED BY <1>2, <2>4, <2>9 DEF q, c
<1> QED BY <1>1, <1>2

LEMMA OlderRequest ==
    ASSUME NEW g \in Nat, NEW l \in Nat, NEW x \in Handler, ReqInv(x, g, l), g = 0 <=> l = 0,
           x.pc # "live", x.pc # "idle", x.age < RotatingTTL
    PROVE  LET y == [x EXCEPT !.age = x.age + 1, !.left = IF x.left = 0 THEN 0 ELSE x.left - 1]
           IN  y \in Handler /\ ReqInv(y, IF Left(l) = 0 THEN 0 ELSE g, Left(l))
<1> DEFINE y == [x EXCEPT !.age = x.age + 1, !.left = IF x.left = 0 THEN 0 ELSE x.left - 1]
<1> DEFINE c == IF Left(l) = 0 THEN 0 ELSE g
<1>1. x.age \in 0..RotatingTTL /\ x.left \in 0..RefreshTTL
      BY Fields
<1>2. x.age + 1 \in 0..RotatingTTL /\ (IF x.left = 0 THEN 0 ELSE x.left - 1) \in 0..RefreshTTL
      BY <1>1, Constants
<1>3. /\ y \in Handler /\ y.pc = x.pc /\ y.for = x.for /\ y.gen = x.gen /\ y.age = x.age + 1
      /\ y.late = x.late /\ y.fate = x.fate
      BY Zenon, <1>2 DEF Handler
<1>4. PathInv(y)
      BY <1>3 DEF ReqInv, PathInv, InSession, HasRead
<1>5. InSession(y) <=> InSession(x)
      BY <1>3 DEF InSession
<1>6. HasRead(y) <=> HasRead(x)
      BY <1>3 DEF HasRead
<1>7. HasRead(x) \/ x.pc = "issue"
      BY DEF HasRead
<1>8. InSession(x) /\ x.fate # "unread" /\ g > 0 => RefreshTTL <= l + x.age
      BY <1>1, <1>7, Constants DEF ReqInv
<1>9. InSession(x) /\ x.fate # "unread" => c = g
      BY <1>1, <1>8, Constants DEF Left
<1>10. InSession(x) /\ x.fate # "unread" => Stamped(x.gen, x.fate, g)
      BY DEF ReqInv
<1>11. InSession(x) /\ x.fate # "unread" /\ c > 0 =>
          /\ HasRead(x) => GenTTL <= Left(l) + (x.age + 1)
          /\ x.pc = "issue" => RefreshTTL <= Left(l) + (x.age + 1)
  <2>1. HAVE InSession(x) /\ x.fate # "unread" /\ c > 0
  <2>2. g > 0 /\ Left(l) = l - 1
        BY <2>1, <1>9 DEF Left
  <2>3. /\ HasRead(x) => GenTTL <= l + x.age
        /\ x.pc = "issue" => RefreshTTL <= l + x.age
        BY <2>1, <2>2 DEF ReqInv
  <2>4. Left(l) + (x.age + 1) = l + x.age
        BY <1>1, <2>2, Constants
  <2> QED BY <2>3, <2>4
<1> HIDE DEF y, c
<1>12. ReqInv(y, c, Left(l))
      BY <1>3, <1>4, <1>5, <1>6, <1>9, <1>10, <1>11 DEF ReqInv
<1> QED BY <1>3, <1>12 DEF y, c

LEMMA TickInductive ==
    ASSUME IInv, Tick
    PROVE  IInv'
<1>1. /\ UNCHANGED <<dexrt, pk, ender, relogin>> /\ genLeft' = Left(genLeft)
      /\ gen' = IF Left(genLeft) = 0 THEN 0 ELSE gen
      BY Zenon DEF Tick, Left
<1>2. gen \in Nat /\ genLeft \in Nat /\ (gen = 0 <=> genLeft = 0)
      BY Now DEF IInv
<1>3. gen' \in 0..MaxGen /\ genLeft' \in 0..(RefreshTTL + RotatingTTL) /\ (gen' = 0 <=> genLeft' = 0)
  <2>1. genLeft \in 0..(RefreshTTL + RotatingTTL) /\ gen \in 0..MaxGen
        BY DEF IInv, TypeOK
  <2> QED BY <1>1, <1>2, <2>1, Constants DEF Left
<1>4. dexrt' \in DexTokens /\ relogin' \in BOOLEAN /\ EndNotUndone'
      BY <1>1, DexTokenKept
<1>5. /\ rec' \in [Sids -> Rec \cup {NoRec}]
      /\ \A s \in Sids : RecInv(rec'[s], gen', genLeft')
  <2>1. rec' = [s \in Sids |-> IF rec[s].left <= 1 THEN NoRec
                               ELSE [rec[s] EXCEPT !.left = rec[s].left - 1]]
        BY Zenon DEF Tick
  <2>2. \A s \in Sids : rec'[s] \in Rec \cup {NoRec} /\ RecInv(rec'[s], gen', genLeft')
    <3>1. TAKE s \in Sids
    <3>2. rec'[s] = IF rec[s].left <= 1 THEN NoRec ELSE [rec[s] EXCEPT !.left = rec[s].left - 1]
          BY <2>1
    <3>3. rec[s] \in Rec \cup {NoRec} /\ RecInv(rec[s], gen, genLeft)
          BY Now
    <3> QED BY <1>1, <1>2, <3>2, <3>3, OlderRec
  <2>3. rec' \in [Sids -> Rec \cup {NoRec}]
        BY <2>1, <2>2
  <2> QED BY <2>2, <2>3
<1>6. h' \in [Handlers -> Handler] /\ \A p \in Handlers : ReqInv(h'[p], gen', genLeft')
  <2>1. h' = [p \in Handlers |->
                IF h[p].pc = "idle" THEN Idle
                ELSE [h[p] EXCEPT !.age = h[p].age + 1, !.left = IF h[p].left = 0 THEN 0 ELSE h[p].left - 1]]
        BY Zenon DEF Tick
  <2>2. \A p \in Handlers : h'[p] \in Handler /\ ReqInv(h'[p], gen', genLeft')
    <3>1. TAKE p \in Handlers
    <3>2. CASE h[p].pc = "idle"
          BY Zenon, <2>1, <3>2, RestTypes
    <3>3. CASE h[p].pc # "idle"
      <4>1. h'[p] = [h[p] EXCEPT !.age = h[p].age + 1,
                                 !.left = IF h[p].left = 0 THEN 0 ELSE h[p].left - 1]
            BY Zenon, <2>1, <3>3
      <4>2. h[p].pc # "live" /\ h[p].age < RotatingTTL
            BY Zenon, <3>3 DEF Tick
      <4>3. h[p] \in Handler /\ ReqInv(h[p], gen, genLeft)
            BY Now
      <4>4. LET y == [h[p] EXCEPT !.age = h[p].age + 1,
                                  !.left = IF h[p].left = 0 THEN 0 ELSE h[p].left - 1]
            IN  y \in Handler /\ ReqInv(y, IF Left(genLeft) = 0 THEN 0 ELSE gen, Left(genLeft))
            BY Zenon, <1>2, <3>3, <4>2, <4>3, OlderRequest
      <4> QED BY <1>1, <4>1, <4>4
    <3> QED BY <3>2, <3>3
  <2>3. h' \in [Handlers -> Handler]
        BY Zenon, <2>1, <2>2
  <2> QED BY <2>2, <2>3
<1>7. TypeOK'
      BY <1>1, <1>3, <1>4, <1>5, <1>6, Now DEF TypeOK
<1> QED BY <1>3, <1>4, <1>5, <1>6, <1>7 DEF IInv

-----------------------------------------------------------------------------
(* Results. *)

LEMMA Initially ==
    ASSUME Init
    PROVE  IInv
<1>1. TypeOK
  <2>1. 0 \in 0..MaxGen /\ 0 \in 0..(RefreshTTL + RotatingTTL) /\ Idle \in Handler
        BY RestTypes, Constants
  <2> QED BY Zenon, <2>1 DEF Init, TypeOK, DexTokens
<1>2. \A s \in Sids : RecInv(rec[s], gen, genLeft)
      BY RestTypes DEF Init
<1>3. \A p \in Handlers : ReqInv(h[p], gen, genLeft)
      BY RestTypes DEF Init
<1> QED BY <1>1, <1>2, <1>3 DEF IInv, Init, EndNotUndone

LEMMA Stutter ==
    ASSUME IInv, UNCHANGED vars
    PROVE  IInv'
BY DEF IInv, vars, TypeOK, EndNotUndone

\* The inductive invariant: every record and every request in a session is
\* stamped with the generation it should be, and does not outlive the counter.
THEOREM Invariance == Spec => []IInv
<1>1. Init => IInv
      BY Initially
<1>2. IInv /\ [Next]_vars => IInv'
  <2> SUFFICES ASSUME IInv, [Next]_vars PROVE IInv'
      OBVIOUS
  <2>1. CASE \E p \in Handlers : Request(p)
    <3>1. PICK p \in Handlers : Request(p)
          BY <2>1
    <3> QED BY <3>1, LoginInductive, PresentInductive, SyncInductive, DenyInductive,
               IssueInductive, PairInductive DEF Request
  <2>2. CASE \E s \in Sids : RefuseWrongClient(s) \/ ConsoleLogout(s)
        BY <2>2, RecordInductive
  <2>3. CASE \/ OwnerRevokes \/ AdminRevokes \/ EndSessionsFails \/ FlipRow \/ DelDexToken
             \/ DexTokenExpires
        BY <2>3, RevokeInductive
  <2>4. CASE Bump
        BY <2>4, BumpInductive
  <2>5. CASE Tick
        BY <2>5, TickInductive
  <2>6. CASE UNCHANGED vars
        BY <2>6, Stutter
  <2> QED BY <2>1, <2>2, <2>3, <2>4, <2>5, <2>6 DEF Next
<1> QED BY <1>1, <1>2, PTL DEF Spec

\* liveSession: a record of an ended session never leads to a pk_ row or a
\* token pair, whatever the lifetimes and however many requests there are.
THEOREM EndedSessionsStayEnded == Spec => []EndedStaysEnded
<1>1. IInv => EndedStaysEnded
  <2> SUFFICES ASSUME IInv, NEW p \in Handlers, h[p].pc \in {"ensure", "mint", "pair"}
               PROVE  ~ h[p].late
      BY DEF EndedStaysEnded
  <2>1. ReqInv(h[p], gen, genLeft)
        BY DEF IInv
  <2> QED BY <2>1 DEF ReqInv, PathInv, HasRead
<1> QED BY <1>1, Invariance, PTL

\* revalidateAtIdP's PutIfExists: no refresh in flight brings back the Dex token
\* that EndSessions deleted.
THEOREM DexTokenStaysDeleted == Spec => []EndNotUndone
<1>1. IInv => EndNotUndone
      BY DEF IInv
<1> QED BY <1>1, Invariance, PTL

-----------------------------------------------------------------------------
(* A refresh token is in the store or in one request's hands. *)

\* What a request holds: a taken token's name belongs to it alone, and a name it
\* took from a console session is not that of a token.
HoldsIts(p) ==
    /\ h[p].for \in {"none", "code"} => h[p].sid = NoSid
    /\ h[p].for = "web" => h[p].sid \in Sids /\ rec[h[p].sid].kind \in {"none", "web"}
    /\ h[p].for = "refresh" =>
          /\ h[p].sid \in Sids /\ rec[h[p].sid].kind = "none"
          /\ \A q \in Handlers : h[q].sid = h[p].sid => q = p
Holds == \A p \in Handlers : HoldsIts(p)

\* A step in which no request takes a record's name...
Keeping(y, x) == y.for = x.for /\ y.sid = x.sid
LettingGo(y) == y.for = "none" /\ y.sid = NoSid
NoneTakes == \A q \in Handlers : Keeping(h'[q], h[q]) \/ LettingGo(h'[q])

\* ...and a record comes to be only under a name no token was taken from.
Harmless(s) ==
    \/ rec'[s].kind \in {rec[s].kind, "none"}
    \/ \A q \in Handlers : h'[q].sid # s
    \/ rec'[s].kind = "web" /\ \A q \in Handlers : h'[q].sid = s => h'[q].for = "web"

LEMMA HoldsKept ==
    ASSUME IInv, Holds, NoneTakes, \A s \in Sids : Harmless(s)
    PROVE  Holds'
<1> SUFFICES ASSUME NEW p \in Handlers PROVE HoldsIts(p)'
    BY DEF Holds
<1>1. CASE LettingGo(h'[p])
      BY <1>1 DEF LettingGo, HoldsIts
<1>2. CASE Keeping(h'[p], h[p])
  <2>1. h'[p].for \in {"none", "code"} => h'[p].sid = NoSid
        BY <1>2 DEF Keeping, Holds, HoldsIts
  <2>2. ASSUME h'[p].for = "web"
        PROVE  h'[p].sid \in Sids /\ rec'[h'[p].sid].kind \in {"none", "web"}
    <3>1. h'[p].sid \in Sids /\ rec[h'[p].sid].kind \in {"none", "web"}
          BY Zenon, <1>2, <2>2 DEF Keeping, Holds, HoldsIts
    <3> QED BY <3>1 DEF Harmless
  <2>3. ASSUME h'[p].for = "refresh"
        PROVE  /\ h'[p].sid \in Sids /\ rec'[h'[p].sid].kind = "none"
               /\ \A q \in Handlers : h'[q].sid = h'[p].sid => q = p
    <3>1. h'[p].sid \in Sids /\ rec[h'[p].sid].kind = "none"
          BY Zenon, <1>2, <2>3 DEF Keeping, Holds, HoldsIts
    <3>2. rec'[h'[p].sid].kind = "none"
          BY <2>3, <3>1 DEF Harmless
    <3>3. ASSUME NEW q \in Handlers, h'[q].sid = h'[p].sid
          PROVE  q = p
      <4>1. h'[q].sid # NoSid
            BY <3>1, <3>3
      <4>2. h[q].sid = h[p].sid /\ h[p].for = "refresh"
            BY <1>2, <2>3, <3>3, <4>1 DEF NoneTakes, Keeping, LettingGo
      <4> QED BY <4>2 DEF Holds, HoldsIts
    <3> QED BY <3>1, <3>2, <3>3
  <2> QED BY <2>1, <2>2, <2>3 DEF HoldsIts
<1> QED BY <1>1, <1>2 DEF NoneTakes

\* One request's step, the others where they were.
LEMMA OneMoves ==
    ASSUME IInv, NEW p \in Handlers, NEW y, h' = [h EXCEPT ![p] = y],
           Keeping(y, h[p]) \/ LettingGo(y)
    PROVE  NoneTakes /\ h'[p] = y
<1>1. h'[p] = y /\ \A q \in Handlers \ {p} : h'[q] = h[q]
      BY DEF IInv, TypeOK
<1> QED BY <1>1 DEF NoneTakes, Keeping

LEMMA IdleLetsGo == LettingGo(Idle)
BY DEF LettingGo, Idle

LEMMA NotedKind == NoRec.kind = "none" /\ \A r \in Rec \cup {NoRec} : r.kind = "none" => r = NoRec
BY DEF NoRec, Rec, Kinds

\* A token put back by the request that took it, which then lets go of it.
LEMMA RestoredHarmless ==
    ASSUME IInv, Holds, NEW p \in Handlers, NoneTakes, LettingGo(h'[p]), rec' = Restored(p)
    PROVE  \A s \in Sids : Harmless(s)
<1> SUFFICES ASSUME NEW s \in Sids PROVE Harmless(s)
    OBVIOUS
<1>1. CASE h[p].for # "refresh"
      BY <1>1 DEF Restored, Harmless
<1>2. CASE h[p].for = "refresh" /\ s # h[p].sid
  <2>1. rec'[s] = rec[s]
        BY <1>2 DEF Restored, IInv, TypeOK
  <2> QED BY <2>1 DEF Harmless
<1>3. CASE h[p].for = "refresh" /\ s = h[p].sid
  <2>1. ASSUME NEW q \in Handlers, h'[q].sid = s
        PROVE  FALSE
    <3>1. h'[q].sid # NoSid
          BY <2>1
    <3>2. h[q].sid = s /\ q # p
          BY <2>1, <3>1 DEF NoneTakes, Keeping, LettingGo
    <3> QED BY <1>3, <3>2 DEF Holds, HoldsIts
  <2> QED BY <2>1 DEF Harmless
<1> QED BY <1>1, <1>2, <1>3

LEMMA RefusedHarmless ==
    ASSUME IInv, NEW p \in Handlers, rec' = RefusedRec(p)
    PROVE  \A s \in Sids : Harmless(s)
<1> SUFFICES ASSUME NEW s \in Sids PROVE Harmless(s)
    OBVIOUS
<1>1. rec'[s] \in {rec[s], NoRec}
      BY DEF RefusedRec, IInv, TypeOK
<1> QED BY <1>1, NotedKind DEF Harmless

LEMMA SameHarmless ==
    ASSUME rec' = rec
    PROVE  \A s \in Sids : Harmless(s)
BY DEF Harmless

\* A record stored under a name nobody has.
LEMMA PutHarmless ==
    ASSUME IInv, NEW s \in Sids, NEW r, rec' = [rec EXCEPT ![s] = r],
           \/ r.kind \in {rec[s].kind, "none"}
           \/ \A q \in Handlers : h'[q].sid # s
           \/ r.kind = "web" /\ \A q \in Handlers : h'[q].sid = s => h'[q].for = "web"
    PROVE  \A t \in Sids : Harmless(t)
<1>1. rec'[s] = r /\ \A t \in Sids \ {s} : rec'[t] = rec[t]
      BY DEF IInv, TypeOK
<1> QED BY <1>1 DEF Harmless

\* A request ends or moves on, its record untouched, put back, or deleted with
\* the console session.
LEMMA HoldsMoved ==
    ASSUME IInv, Holds, NEW p \in Handlers, NEW y, h' = [h EXCEPT ![p] = y],
           \/ (Keeping(y, h[p]) \/ LettingGo(y)) /\ rec' \in {rec, RefusedRec(p)}
           \/ LettingGo(y) /\ rec' = Restored(p)
    PROVE  Holds'
<1>1. NoneTakes /\ h'[p] = y
      BY Zenon, OneMoves
<1> QED BY <1>1, SameHarmless, RefusedHarmless, RestoredHarmless, HoldsKept

\* The updates of a request that leave its record's name alone.
LEMMA StillHolding ==
    ASSUME NEW x \in Handler
    PROVE  /\ \A c \in Pcs : Keeping([x EXCEPT !.pc = c], x)
           /\ \A c \in Pcs, t \in DexTokens : Keeping([x EXCEPT !.pc = c, !.tok = t], x)
           /\ \A c, g : Keeping([x EXCEPT !.pc = c, !.gen = g], x)
           /\ \A t : Keeping([x EXCEPT !.tok = t], x)
           /\ \A f : Keeping([x EXCEPT !.fate = f], x)
           /\ \A a, l : Keeping([x EXCEPT !.age = a, !.left = l], x)
BY DEF Handler, Keeping

\* One request's step, at which the others' copies of the Dex token age.
LEMMA OthersAge ==
    ASSUME IInv, NEW p \in Handlers, NEW y, Keeping(y, h[p]) \/ LettingGo(y),
           h' = [q \in Handlers |-> IF q = p THEN y ELSE [h[q] EXCEPT !.tok = Aged(h[q].tok)]]
    PROVE  NoneTakes /\ h'[p] = y
<1>1. h'[p] = y
      OBVIOUS
<1>2. ASSUME NEW q \in Handlers, q # p
      PROVE  Keeping(h'[q], h[q])
  <2>1. h'[q] = [h[q] EXCEPT !.tok = Aged(h[q].tok)] /\ h[q] \in Handler
        BY <1>2, Now
  <2> QED BY <2>1 DEF Handler, Keeping
<1> QED BY <1>1, <1>2 DEF NoneTakes

\* asCallback up to where the session is named, and the start of a request that
\* presents no record of its own.
LEMMA LoginHolds ==
    ASSUME IInv, Holds, NEW p \in Handlers,
           LoginExchange(p) \/ LoginPutDexToken(p) \/ LoginReadGen(p) \/ LoginFinish(p) \/ StartSync(p)
    PROVE  Holds'
<1>1. h[p] \in Handler
      BY Now
<1>2. CASE LoginExchange(p)
  <2>1. NoneTakes
    <3>1. LettingGo([Idle EXCEPT !.pc = "putrt", !.tok = "cur"])
          BY DEF LettingGo, Idle
    <3> QED BY <1>2, <3>1, OthersAge DEF LoginExchange
  <2>2. rec' = rec
        BY <1>2 DEF LoginExchange
  <2> QED BY <2>1, <2>2, SameHarmless, HoldsKept
<1>3. CASE LoginPutDexToken(p)
  <2>1. h' = [h EXCEPT ![p] = [h[p] EXCEPT !.pc = "readgen"]] /\ rec' = rec
        BY <1>3 DEF LoginPutDexToken, Goto
  <2>2. Keeping([h[p] EXCEPT !.pc = "readgen"], h[p])
        BY Zenon, <1>1, StillHolding DEF Pcs
  <2> QED BY Zenon, <2>1, <2>2, HoldsMoved
<1>4. CASE LoginReadGen(p)
  <2>1. h' = [h EXCEPT ![p] = [h[p] EXCEPT !.pc = "provision", !.gen = gen]] /\ rec' = rec
        BY Zenon, <1>4 DEF LoginReadGen
  <2>2. Keeping([h[p] EXCEPT !.pc = "provision", !.gen = gen], h[p])
        BY Zenon, <1>1, StillHolding DEF Pcs
  <2> QED BY Zenon, <2>1, <2>2, HoldsMoved
<1>5. CASE LoginFinish(p)
  <2>1. PICK s \in Sids : /\ Free(s)
                          /\ rec' = [rec EXCEPT ![s] = [kind |-> "code", gen |-> h[p].gen, left |-> 1,
                                                        fate |-> h[p].fate]]
        BY Zenon, <1>5 DEF LoginFinish
  <2>2. h' = [h EXCEPT ![p] = Idle]
        BY <1>5 DEF LoginFinish, EndRequest
  <2>3. NoneTakes
        BY Zenon, <2>2, IdleLetsGo, OneMoves
  <2>4. \A q \in Handlers : h'[q].sid # s
        BY <2>1, <2>3 DEF Free, NoneTakes, Keeping, LettingGo
  <2>5. \A t \in Sids : Harmless(t)
        BY Zenon, <2>1, <2>4, PutHarmless
  <2> QED BY <2>3, <2>5, HoldsKept
<1>6. CASE StartSync(p)
  <2>1. h' = [h EXCEPT ![p] = [Idle EXCEPT !.pc = "dex"]] /\ rec' = rec
        BY <1>6 DEF StartSync
  <2>2. LettingGo([Idle EXCEPT !.pc = "dex"])
        BY DEF LettingGo, Idle
  <2> QED BY Zenon, <2>1, <2>2, HoldsMoved
<1> QED BY <1>2, <1>3, <1>4, <1>5, <1>6

\* liveSession and revalidateAtIdP.
LEMMA SyncHolds ==
    ASSUME IInv, Holds, NEW p \in Handlers,
           \/ CheckLive(p) \/ GetDexToken(p) \/ DexRotates(p) \/ DexRotatesUnheard(p) \/ DexReuses(p)
    PROVE  Holds'
<1>1. h[p] \in Handler /\ dexrt \in DexTokens
      BY Now
<1>2. CASE CheckLive(p)
  <2>1. CASE h[p].gen = gen
    <3>1. h' = [h EXCEPT ![p] = [h[p] EXCEPT !.pc = "dex"]] /\ rec' = rec
          BY <1>2, <2>1 DEF CheckLive, Goto
    <3>2. Keeping([h[p] EXCEPT !.pc = "dex"], h[p])
          BY Zenon, <1>1, StillHolding DEF Pcs
    <3> QED BY Zenon, <3>1, <3>2, HoldsMoved
  <2>2. CASE h[p].gen # gen
    <3>1. h' = [h EXCEPT ![p] = Idle] /\ rec' = RefusedRec(p)
          BY <1>2, <2>2 DEF CheckLive, EndRequest
    <3> QED BY Zenon, <3>1, IdleLetsGo, HoldsMoved
  <2> QED BY <2>1, <2>2
<1>3. CASE GetDexToken(p)
  <2>1. CASE dexrt = "none"
    <3>1. h' = [h EXCEPT ![p] = Idle] /\ rec' = RefusedRec(p)
          BY <1>3, <2>1 DEF GetDexToken, EndRequest
    <3> QED BY Zenon, <3>1, IdleLetsGo, HoldsMoved
  <2>2. CASE dexrt # "none"
    <3>1. h' = [h EXCEPT ![p] = [h[p] EXCEPT !.pc = "call", !.tok = dexrt]] /\ rec' = rec
          BY Zenon, <1>3, <2>2 DEF GetDexToken
    <3>2. Keeping([h[p] EXCEPT !.pc = "call", !.tok = dexrt], h[p])
          BY Zenon, <1>1, StillHolding DEF Pcs
    <3> QED BY Zenon, <3>1, <3>2, HoldsMoved
  <2> QED BY <2>1, <2>2
<1>4. CASE DexRotates(p)
  <2>1. NoneTakes
    <3> DEFINE y == [h[p] EXCEPT !.pc = "putdex"]
    <3>1. Keeping(y, h[p])
          BY Zenon, <1>1, StillHolding DEF Pcs
    <3>2. h' = [q \in Handlers |-> IF q = p THEN y ELSE [h[q] EXCEPT !.tok = Aged(h[q].tok)]]
          BY <1>4 DEF DexRotates
    <3> QED BY <3>1, <3>2, OthersAge
  <2>2. rec' = rec
        BY <1>4 DEF DexRotates
  <2> QED BY <2>1, <2>2, SameHarmless, HoldsKept
<1>5. CASE DexRotatesUnheard(p)
  <2>1. NoneTakes /\ LettingGo(h'[p])
        BY <1>5, IdleLetsGo, OthersAge DEF DexRotatesUnheard
  <2>2. rec' = Restored(p)
        BY <1>5 DEF DexRotatesUnheard
  <2> QED BY <2>1, <2>2, RestoredHarmless, HoldsKept
<1>6. CASE DexReuses(p)
  <2>1. h' = [h EXCEPT ![p] = [h[p] EXCEPT !.pc = "putdex", !.tok = "cur"]] /\ rec' = rec
        BY Zenon, <1>6 DEF DexReuses
  <2>2. Keeping([h[p] EXCEPT !.pc = "putdex", !.tok = "cur"], h[p])
        BY Zenon, <1>1, StillHolding DEF Pcs, DexTokens
  <2> QED BY Zenon, <2>1, <2>2, HoldsMoved
<1> QED BY <1>2, <1>3, <1>4, <1>5, <1>6

\* A refused refresh, and the rotated Dex token's way to the store.
LEMMA DenyHolds ==
    ASSUME IInv, Holds, NEW p \in Handlers,
           DexDenies(p) \/ DenyDelete(p) \/ DenyRevoke(p) \/ PutDexToken(p)
    PROVE  Holds'
<1>1. h[p] \in Handler
      BY Now
<1>2. CASE DexDenies(p)
  <2>1. h' = [h EXCEPT ![p] = [h[p] EXCEPT !.pc = "deny"]] /\ rec' = rec
        BY <1>2 DEF DexDenies, Goto
  <2>2. Keeping([h[p] EXCEPT !.pc = "deny"], h[p])
        BY Zenon, <1>1, StillHolding DEF Pcs
  <2> QED BY Zenon, <2>1, <2>2, HoldsMoved
<1>3. CASE DenyDelete(p)
  <2>1. h' = [h EXCEPT ![p] = [h[p] EXCEPT !.pc = "denyrow"]] /\ rec' = rec
        BY <1>3 DEF DenyDelete, Goto
  <2>2. Keeping([h[p] EXCEPT !.pc = "denyrow"], h[p])
        BY Zenon, <1>1, StillHolding DEF Pcs
  <2> QED BY Zenon, <2>1, <2>2, HoldsMoved
<1>4. CASE DenyRevoke(p)
  <2>1. h' = [h EXCEPT ![p] = Idle] /\ rec' = RefusedRec(p)
        BY <1>4 DEF DenyRevoke, EndRequest
  <2> QED BY Zenon, <2>1, IdleLetsGo, HoldsMoved
<1>5. CASE PutDexToken(p) /\ dexrt = "none"
  <2>1. h' = [h EXCEPT ![p] = Idle] /\ rec' = RefusedRec(p)
        BY <1>5 DEF PutDexToken, EndRequest
  <2> QED BY Zenon, <2>1, IdleLetsGo, HoldsMoved
<1>6. CASE PutDexToken(p) /\ dexrt # "none"
  <2> DEFINE y == CASE h[p].for = "refresh" -> [h[p] EXCEPT !.pc = "issue", !.tok = "none"]
                    [] h[p].for = "web" -> [h[p] EXCEPT !.pc = "ensure", !.tok = "none"]
                    [] OTHER -> Idle
  <2>1. h' = [h EXCEPT ![p] = y] /\ rec' = rec
        BY <1>6 DEF PutDexToken
  <2>2. /\ Keeping([h[p] EXCEPT !.pc = "issue", !.tok = "none"], h[p])
        /\ Keeping([h[p] EXCEPT !.pc = "ensure", !.tok = "none"], h[p])
        BY Zenon, <1>1, StillHolding DEF Pcs, DexTokens
  <2>3. \/ y = [h[p] EXCEPT !.pc = "issue", !.tok = "none"]
        \/ y = [h[p] EXCEPT !.pc = "ensure", !.tok = "none"]
        \/ y = Idle
        OBVIOUS
  <2> HIDE DEF y
  <2>4. Keeping(y, h[p]) \/ LettingGo(y)
        BY <2>2, <2>3, IdleLetsGo
  <2> QED BY Zenon, <2>1, <2>4, HoldsMoved
<1> QED BY <1>2, <1>3, <1>4, <1>5, <1>6

\* issue, ensureOAuthPK, and every way a request fails.
LEMMA IssueHolds ==
    ASSUME IInv, Holds, NEW p \in Handlers,
           Issue(p) \/ EnsureRow(p) \/ MintRow(p) \/ RequestFails(p) \/ Crash(p)
    PROVE  Holds'
<1>1. h[p] \in Handler
      BY Now
<1>2. /\ Keeping([h[p] EXCEPT !.pc = "ensure"], h[p])
      /\ Keeping([h[p] EXCEPT !.pc = "mint"], h[p])
      /\ Keeping([h[p] EXCEPT !.pc = "pair"], h[p])
      BY Zenon, <1>1, StillHolding DEF Pcs
<1>3. CASE Issue(p) \/ MintRow(p) \/ RequestFails(p)
  <2>1. \/ h' = [h EXCEPT ![p] = Idle] /\ rec' = Restored(p)
        \/ h' = [h EXCEPT ![p] = [h[p] EXCEPT !.pc = "ensure"]] /\ rec' = rec
        \/ h' = [h EXCEPT ![p] = [h[p] EXCEPT !.pc = "pair"]] /\ rec' = rec
        BY <1>3 DEF Issue, MintRow, RequestFails, EndRequest, Goto
  <2> QED BY <1>2, <2>1, IdleLetsGo, HoldsMoved
<1>4. CASE EnsureRow(p)
  <2>1. \/ h' = [h EXCEPT ![p] = [h[p] EXCEPT !.pc = "pair"]] /\ rec' = rec
        \/ h' = [h EXCEPT ![p] = [h[p] EXCEPT !.pc = "mint"]] /\ rec' = rec
        BY <1>4 DEF EnsureRow, Goto
  <2> QED BY <1>2, <2>1, HoldsMoved
<1>5. CASE Crash(p)
  <2>1. h' = [h EXCEPT ![p] = Idle] /\ rec' = rec
        BY <1>5 DEF Crash, EndRequest
  <2> QED BY Zenon, <2>1, IdleLetsGo, HoldsMoved
<1> QED BY <1>3, <1>4, <1>5

\* The pair: the new token goes under a free name or the spent token's own.
LEMMA PairHolds ==
    ASSUME IInv, Holds, NEW p \in Handlers, Pair(p)
    PROVE  Holds'
<1>1. h[p] \in Handler /\ h' = [h EXCEPT ![p] = Idle]
      BY Now DEF Pair, EndRequest
<1>2. NoneTakes /\ LettingGo(h'[p])
      BY Zenon, <1>1, IdleLetsGo, OneMoves
<1>3. CASE h[p].for = "web"
  <2> DEFINE r == IF h[p].left = 0 THEN NoRec
                  ELSE [kind |-> "web", gen |-> h[p].gen, left |-> h[p].left, fate |-> h[p].fate]
  <2>1. rec' = [rec EXCEPT ![h[p].sid] = r] /\ r.kind \in {"none", "web"}
        BY Zenon, <1>3, NotedKind DEF Pair
  <2>2. h[p].sid \in Sids
        BY <1>3 DEF Holds, HoldsIts
  <2> HIDE DEF r
  <2>3. ASSUME NEW q \in Handlers, h'[q].sid = h[p].sid
        PROVE  h'[q].for = "web"
    <3>1. q # p /\ h'[q].sid # NoSid
          BY <1>2, <2>2, <2>3 DEF LettingGo
    <3>2. h[q].sid = h[p].sid /\ h'[q].for = h[q].for
          BY <1>2, <2>3, <3>1 DEF NoneTakes, Keeping, LettingGo
    <3>3. h[q].for \notin {"none", "code", "refresh"}
          BY <2>2, <3>1, <3>2 DEF Holds, HoldsIts
    <3>4. h[q].for \in {"code", "refresh", "web", "none"}
          BY Now, Fields DEF Kinds
    <3> QED BY <3>2, <3>3, <3>4
  <2>4. \A s \in Sids : Harmless(s)
        BY Zenon, <2>1, <2>2, <2>3, PutHarmless
  <2> QED BY <1>2, <2>4, HoldsKept
<1>4. CASE h[p].for # "web"
  <2>1. PICK s \in Sids :
          /\ Free(s) \/ s = h[p].sid
          /\ rec' = [rec EXCEPT ![s] = [kind |-> "refresh", gen |-> h[p].gen, left |-> RefreshTTL,
                                        fate |-> h[p].fate]]
        BY Zenon, <1>4 DEF Pair
  <2>2. ASSUME NEW q \in Handlers, h'[q].sid = s
        PROVE  FALSE
    <3>1. q # p /\ h[q].sid = s
          BY <1>2, <2>2 DEF NoneTakes, Keeping, LettingGo
    <3>2. s = h[p].sid
          BY <2>1, <3>1 DEF Free
    <3>3. h[p].for \in {"code", "refresh", "none"}
          BY <1>1, <1>4, Fields DEF Kinds
    <3> QED BY <3>1, <3>2, <3>3 DEF Holds, HoldsIts
  <2>3. \A t \in Sids : Harmless(t)
        BY Zenon, <2>1, <2>2, PutHarmless
  <2> QED BY <1>2, <2>3, HoldsKept
<1> QED BY <1>3, <1>4

\* A request that stays as it is while another takes a record's name.
LEMMA BystanderHolds ==
    ASSUME Holds, NEW q \in Handlers, h'[q] = h[q],
           \A s \in Sids : rec'[s] = rec[s] \/ rec'[s].kind = "none",
           h[q].for = "refresh" => \A t \in Handlers : h'[t].sid = h[q].sid => h[t].sid = h[q].sid
    PROVE  HoldsIts(q)'
<1>1. HoldsIts(q)
      BY DEF Holds
<1>2. h[q].sid \in Sids /\ rec[h[q].sid].kind \in {"none", "web"} =>
          rec'[h[q].sid].kind \in {rec[h[q].sid].kind, "none"}
      OBVIOUS
<1>3. CASE h[q].for = "refresh"
      BY <1>1, <1>2, <1>3 DEF HoldsIts
<1>4. CASE h[q].for # "refresh"
      BY <1>1, <1>2, <1>4 DEF HoldsIts
<1> QED BY <1>3, <1>4

\* The steps in which a request takes a record's name: a code's is not kept, a
\* token's nobody else has, a console session's or a new one's is no token's.
LEMMA TakeHolds ==
    ASSUME IInv, Holds, NEW p \in Handlers, NEW s \in Sids, TakeRefresh(p, s)
    PROVE  Holds'
<1>1. ASSUME NEW q \in Handlers PROVE h[q].sid # s
  <2>1. h[q].for \in {"code", "refresh", "web", "none"}
        BY Now, Fields DEF Kinds
  <2>2. rec[s].kind = "refresh"
        BY DEF TakeRefresh
  <2> QED BY <2>1, <2>2 DEF Holds, HoldsIts
<1> DEFINE y == [Idle EXCEPT !.pc = "live", !.for = "refresh", !.sid = s, !.gen = rec[s].gen,
                             !.fate = rec[s].fate, !.late = rec[s].fate = "ended"]
<1>2. h' = [h EXCEPT ![p] = y] /\ rec' = [rec EXCEPT ![s] = NoRec]
      BY DEF TakeRefresh
<1>3. y.for = "refresh" /\ y.sid = s
      BY DEF Idle
<1> HIDE DEF y
<1>4. h'[p] = y /\ \A q \in Handlers \ {p} : h'[q] = h[q]
      BY <1>2 DEF IInv, TypeOK
<1>5. rec'[s].kind = "none" /\ \A t \in Sids \ {s} : rec'[t] = rec[t]
      BY <1>2, NotedKind DEF IInv, TypeOK
<1>6. \A q \in Handlers : h'[q].sid = s => q = p
      BY <1>1, <1>4
<1>7. ASSUME NEW q \in Handlers \ {p}
      PROVE  HoldsIts(q)'
  <2>1. h'[q] = h[q] /\ h[q].sid # s
        BY <1>1, <1>4
  <2>2. \A t \in Handlers : h'[t].sid = h[q].sid => h[t].sid = h[q].sid
        BY <1>3, <1>4, <2>1
  <2> QED BY <1>5, <2>1, <2>2, BystanderHolds
<1>8. HoldsIts(p)'
      BY <1>3, <1>4, <1>5, <1>6 DEF HoldsIts
<1> QED BY <1>7, <1>8 DEF Holds

LEMMA ConsoleHolds ==
    ASSUME IInv, Holds, NEW p \in Handlers, NEW s \in Sids, NEW y,
           h' = [h EXCEPT ![p] = y], y.for = "web", y.sid = s, rec' = rec,
           rec[s].kind = "web" \/ Free(s)
    PROVE  Holds'
<1>1. h'[p] = y /\ \A q \in Handlers \ {p} : h'[q] = h[q]
      BY DEF IInv, TypeOK
<1>2. rec[s].kind \in {"none", "web"}
      BY NotedKind DEF Free
<1>3. ASSUME NEW q \in Handlers, h[q].for = "refresh" PROVE h[q].sid # s
      BY <1>3 DEF Holds, HoldsIts, Free
<1>4. ASSUME NEW q \in Handlers \ {p}
      PROVE  HoldsIts(q)'
  <2>1. h[q].for = "refresh" => \A t \in Handlers : h'[t].sid = h[q].sid => h[t].sid = h[q].sid
        BY <1>1, <1>3
  <2> QED BY <1>1, <2>1, BystanderHolds
<1>5. HoldsIts(p)'
      BY <1>1, <1>2 DEF HoldsIts
<1> QED BY <1>4, <1>5 DEF Holds

LEMMA PresentHolds ==
    ASSUME IInv, Holds, NEW p \in Handlers,
           LoginConsole(p) \/ \E s \in Sids : TakeCode(p, s) \/ TakeRefresh(p, s) \/ OpenConsole(p, s)
    PROVE  Holds'
<1>1. CASE LoginConsole(p)
  <2>1. PICK s \in Sids : Free(s) /\ h' = [h EXCEPT ![p] = [h[p] EXCEPT !.pc = "ensure", !.for = "web",
                                                            !.sid = s, !.left = RefreshTTL]]
        BY ZenonT(60), <1>1 DEF LoginConsole
  <2> DEFINE y == [h[p] EXCEPT !.pc = "ensure", !.for = "web", !.sid = s, !.left = RefreshTTL]
  <2>2. h[p] \in Handler /\ rec' = rec
        BY Zenon, <1>1, Now DEF LoginConsole
  <2>3. y.for = "web" /\ y.sid = s
        BY <2>2 DEF Handler
  <2> QED BY Zenon, <2>1, <2>2, <2>3, ConsoleHolds
<1>2. ASSUME NEW s \in Sids, TakeCode(p, s)
      PROVE  Holds'
  <2> DEFINE y == [Idle EXCEPT !.pc = "issue", !.for = "code", !.gen = rec[s].gen,
                               !.fate = rec[s].fate, !.late = rec[s].fate = "ended"]
  <2>1. h' = [h EXCEPT ![p] = y] /\ rec' = [rec EXCEPT ![s] = NoRec] /\ h[p].pc = "idle"
        BY Zenon, <1>2 DEF TakeCode
  <2>2. y.for = "code" /\ y.sid = NoSid
        BY DEF Idle
  <2> HIDE DEF y
  <2>3. h'[p] = y /\ \A q \in Handlers \ {p} : h'[q] = h[q]
        BY <2>1 DEF IInv, TypeOK
  <2>4. \A t \in Sids : rec'[t] = rec[t] \/ rec'[t].kind = "none"
        BY <2>1, NotedKind DEF IInv, TypeOK
  <2>5. ASSUME NEW q \in Handlers \ {p}
        PROVE  HoldsIts(q)'
    <3>1. h[q].for = "refresh" => h[q].sid \in Sids
          BY DEF Holds, HoldsIts
    <3>2. h[q].for = "refresh" => \A t \in Handlers : h'[t].sid = h[q].sid => h[t].sid = h[q].sid
          BY <2>2, <2>3, <3>1
    <3> QED BY <2>3, <2>4, <3>2, BystanderHolds
  <2>6. HoldsIts(p)'
        BY <2>2, <2>3 DEF HoldsIts
  <2> QED BY <2>5, <2>6 DEF Holds
<1>3. ASSUME NEW s \in Sids, OpenConsole(p, s)
      PROVE  Holds'
  <2> DEFINE y == [Idle EXCEPT !.pc = "live", !.for = "web", !.sid = s, !.gen = rec[s].gen,
                               !.left = rec[s].left, !.fate = rec[s].fate, !.late = rec[s].fate = "ended"]
  <2>1. h' = [h EXCEPT ![p] = y] /\ rec' = rec /\ rec[s].kind = "web"
        BY Zenon, <1>3 DEF OpenConsole
  <2>2. y.for = "web" /\ y.sid = s
        BY DEF Idle
  <2> HIDE DEF y
  <2> QED BY Zenon, <2>1, <2>2, ConsoleHolds
<1> QED BY <1>1, <1>2, <1>3, TakeHolds

\* What happens to the records by themselves.
LEMMA RecordHolds ==
    ASSUME IInv, Holds, NEW s \in Sids, RefuseWrongClient(s) \/ ConsoleLogout(s)
    PROVE  Holds'
<1>1. h' = h
      BY DEF RefuseWrongClient, ConsoleLogout
<1>2. NoneTakes
      BY <1>1 DEF NoneTakes, Keeping
<1>3. ASSUME NEW t \in Sids PROVE rec'[t].kind \in {rec[t].kind, "none"}
  <2>1. rec \in [Sids -> Rec \cup {NoRec}] /\ (rec[s].kind # "none" => rec[s] \in Rec)
        BY Now DEF IInv, TypeOK
  <2>2. CASE RefuseWrongClient(s)
    <3>1. rec[s] \in Rec /\ rec' = [rec EXCEPT ![s].left = RefreshTTL, ![s].fate = "unread"]
          BY <2>1, <2>2 DEF RefuseWrongClient
    <3> QED BY <2>1, <3>1 DEF Rec
  <2>3. CASE ConsoleLogout(s)
    <3>1. rec' = [rec EXCEPT ![s] = NoRec]
          BY <2>3 DEF ConsoleLogout
    <3> QED BY <2>1, <3>1, NotedKind
  <2> QED BY <2>2, <2>3
<1>4. \A t \in Sids : Harmless(t)
      BY <1>3 DEF Harmless
<1> QED BY <1>2, <1>4, HoldsKept

\* An end of sessions stamps every record and request, and time ages them.
LEMMA BumpHolds ==
    ASSUME IInv, Holds, Bump
    PROVE  Holds'
<1>1. ASSUME NEW q \in Handlers PROVE Keeping(h'[q], h[q])
  <2>1. h[q] \in Handler /\ h'[q] \in {h[q], [h[q] EXCEPT !.fate = Ended(h[q].fate)]}
        BY Now DEF Bump
  <2> QED BY <2>1 DEF Handler, Keeping
<1>2. ASSUME NEW t \in Sids PROVE rec'[t].kind \in {rec[t].kind, "none"}
  <2>1. /\ rec[t] \in Rec \cup {NoRec}
        /\ rec[t] = NoRec => rec'[t] = NoRec
        /\ rec[t] # NoRec => rec'[t] = [rec[t] EXCEPT !.fate = Ended(rec[t].fate)]
        BY Now DEF Bump
  <2> QED BY <2>1 DEF Rec
<1>3. NoneTakes /\ \A t \in Sids : Harmless(t)
      BY <1>1, <1>2 DEF NoneTakes, Harmless
<1> QED BY <1>3, HoldsKept

LEMMA TickHolds ==
    ASSUME IInv, Holds, Tick
    PROVE  Holds'
<1>1. ASSUME NEW q \in Handlers PROVE Keeping(h'[q], h[q]) \/ LettingGo(h'[q])
  <2>1. CASE h[q].pc = "idle"
    <3>1. h'[q] = Idle
          BY Zenon, <2>1 DEF Tick
    <3> QED BY <3>1, IdleLetsGo
  <2>2. CASE h[q].pc # "idle"
    <3>1. /\ h[q] \in Handler
          /\ h'[q] = [h[q] EXCEPT !.age = h[q].age + 1,
                                  !.left = IF h[q].left = 0 THEN 0 ELSE h[q].left - 1]
          BY Zenon, <2>2, Now DEF Tick
    <3> QED BY <3>1 DEF Handler, Keeping
  <2> QED BY <2>1, <2>2
<1>2. ASSUME NEW t \in Sids PROVE rec'[t].kind \in {rec[t].kind, "none"}
  <2>1. CASE rec[t].left <= 1
    <3>1. rec'[t] = NoRec
          BY Zenon, <2>1 DEF Tick
    <3> QED BY <3>1, NotedKind
  <2>2. CASE ~ (rec[t].left <= 1)
    <3>1. rec[t] \in Rec
          BY <2>2, Now, RestTypes
    <3>2. rec'[t] = [rec[t] EXCEPT !.left = rec[t].left - 1]
          BY Zenon, <2>2 DEF Tick
    <3> QED BY <3>1, <3>2 DEF Rec
  <2> QED BY <2>1, <2>2
<1>3. NoneTakes /\ \A t \in Sids : Harmless(t)
      BY <1>1, <1>2 DEF NoneTakes, Harmless
<1> QED BY <1>3, HoldsKept

\* refreshToken takes the token before it asks Dex and puts it back only when no
\* pair went out: a refresh token is in the store or in one request's hands,
\* whatever crashes, fails or expires, and it is never redeemed twice at once.
THEOREM RefreshTokenHeldOnce == Spec => []RefreshHeldOnce
<1>1. Init => Holds
  <2> SUFFICES ASSUME Init PROVE Holds
      OBVIOUS
  <2>1. \A p \in Handlers : LettingGo(h[p])
        BY IdleLetsGo DEF Init
  <2> QED BY <2>1 DEF Holds, HoldsIts, LettingGo
<1>2. IInv /\ Holds /\ [Next]_vars => Holds'
  <2> SUFFICES ASSUME IInv, Holds, [Next]_vars PROVE Holds'
      OBVIOUS
  <2>1. CASE \E p \in Handlers : Request(p)
    <3>1. PICK p \in Handlers : Request(p)
          BY <2>1
    <3> QED BY <3>1, LoginHolds, PresentHolds, SyncHolds, DenyHolds, IssueHolds, PairHolds DEF Request
  <2>2. CASE \E s \in Sids : RefuseWrongClient(s) \/ ConsoleLogout(s)
        BY <2>2, RecordHolds
  <2>3. CASE \/ OwnerRevokes \/ AdminRevokes \/ EndSessionsFails \/ FlipRow \/ DelDexToken
             \/ DexTokenExpires \/ UNCHANGED vars
    <3>1. rec' = rec /\ h' = h
          BY <2>3 DEF OwnerRevokes, AdminRevokes, EndSessionsFails, FlipRow, DelDexToken, DexTokenExpires,
                      vars
    <3> QED BY <3>1 DEF Holds, HoldsIts
  <2>4. CASE Bump \/ Tick
        BY <2>4, BumpHolds, TickHolds
  <2> QED BY <2>1, <2>2, <2>3, <2>4 DEF Next
<1>3. IInv /\ Holds => RefreshHeldOnce
  <2> SUFFICES ASSUME IInv, Holds, NEW p \in Handlers, h[p].for = "refresh"
               PROVE  /\ rec[h[p].sid] = NoRec
                      /\ \A q \in Handlers : h[q].for = "refresh" /\ h[q].sid = h[p].sid => q = p
      BY DEF RefreshHeldOnce
  <2> QED BY Now, NotedKind DEF Holds, HoldsIts
<1> QED BY <1>1, <1>2, <1>3, Invariance, PTL DEF Spec
=============================================================================
