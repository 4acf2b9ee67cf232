---------------------------- MODULE OAuthSessions ----------------------------
(***************************************************************************)
(* internal/platformapi/auth: the OAuth sessions of one user.  Redis holds *)
(* the session records (codes and device approvals, refresh tokens,        *)
(* console sessions), the user's one Dex refresh token and the session     *)
(* generation; Postgres holds the purpose='oauth' pk_ row.  Logins,        *)
(* grants, console requests and pk_ revocations run concurrently on any    *)
(* replica, every store access a step of its own.                          *)
(*                                                                         *)
(* Dex, external, keeps one refresh token per user and client: each login  *)
(* and each refresh replaces it.  A Dex token is "cur" while Dex would     *)
(* take it and "old" after that.                                           *)
(***************************************************************************)
EXTENDS Naturals, FiniteSets

CONSTANTS
    Handlers,     \* requests in flight
    Sids,         \* names of session records
    NoSid,
    RefreshTTL,   \* lifetime of refresh tokens, console sessions, the Dex token
    RotatingTTL,  \* longest time a request takes, rotatingTTL
    MaxGen        \* bound on EndSessions calls

ASSUME OAuthAssumption ==
    /\ NoSid \notin Sids
    /\ RotatingTTL \in Nat
    /\ RefreshTTL \in Nat
    /\ RefreshTTL > RotatingTTL   \* days against seconds
    /\ MaxGen \in Nat

VARIABLES
    gen,      \* session_gen as SessionGen reads it, 0 when absent
    genLeft,  \* what is left of its TTL
    dexrt,    \* the stored Dex refresh token
    pk,       \* TRUE while the user has an active purpose='oauth' row
    rec,      \* the session records
    h,        \* the requests in flight
    ender,    \* where the pk_ revocation in progress stands
    relogin   \* history: a login stored its Dex token since EndSessions deleted it

vars == <<gen, genLeft, dexrt, pk, rec, h, ender, relogin>>

DexTokens == {"none", "cur", "old"}
Kinds == {"code", "refresh", "web"}

\* A record: what it is, the generation it is stamped with, the rest of its
\* TTL, and (history) its fate: EndSessions ended its session, or it was put
\* back unread, by a request that had not read the generation.
Fates == {"open", "ended", "unread"}
NoRec == [kind |-> "none", gen |-> 0, left |-> 0, fate |-> "open"]
Rec == [kind : Kinds, gen : 0 .. MaxGen, left : 1 .. RefreshTTL, fate : Fates]

\* A request: where it stands, the kind of record it works for, the record it
\* holds (refresh) or looks at (web), that record's generation and TTL, the Dex
\* token in hand, its age, and (history) the fate of its session, and whether
\* it had been ended when the record was presented.
Idle == [pc |-> "idle", for |-> "none", sid |-> NoSid, gen |-> 0, left |-> 0, tok |-> "none",
         age |-> 0, fate |-> "open", late |-> FALSE]
Pcs == {"idle", "putrt", "readgen", "provision", "live", "dex", "call", "deny", "denyrow", "putdex", "issue",
        "ensure", "mint", "pair"}
Handler == [pc : Pcs, for : Kinds \cup {"none"}, sid : Sids \cup {NoSid}, gen : 0 .. MaxGen,
            left : 0 .. RefreshTTL, tok : DexTokens, age : 0 .. RotatingTTL,
            fate : Fates, late : BOOLEAN]

TypeOK ==
    /\ gen \in 0 .. MaxGen
    /\ genLeft \in 0 .. (RefreshTTL + RotatingTTL)
    /\ dexrt \in DexTokens
    /\ pk \in BOOLEAN
    /\ rec \in [Sids -> Rec \cup {NoRec}]
    /\ h \in [Handlers -> Handler]
    /\ ender \in {"idle", "bump", "del", "flip", "bumpLast", "delLast"}
    /\ relogin \in BOOLEAN

Init ==
    /\ gen = 0
    /\ genLeft = 0
    /\ dexrt = "none"
    /\ pk = FALSE
    /\ rec = [s \in Sids |-> NoRec]
    /\ h = [p \in Handlers |-> Idle]
    /\ ender = "idle"
    /\ relogin = FALSE

\* Mutant: the counter lives as long as a record, no longer.
GenTTLShort == RefreshTTL

\* SessionGen slides the counter's TTL (sessionGenTTL); an absent counter stays
\* absent.
GenTTL == RefreshTTL + RotatingTTL
SlideGen == genLeft' = IF genLeft = 0 THEN 0 ELSE GenTTL

\* The user's Dex token changes at Dex: every copy but the new one is stale.
Aged(tok) == IF tok = "cur" THEN "old" ELSE tok

Goto(p, step) == h' = [h EXCEPT ![p].pc = step]
EndRequest(p) == h' = [h EXCEPT ![p] = Idle]
Free(s) == rec[s] = NoRec /\ \A q \in Handlers : h[q].sid # s

-----------------------------------------------------------------------------
(* asCallback *)

\* dexExchange: Dex logs the user in and replaces their token.
LoginExchange(p) ==
    /\ h[p].pc = "idle"
    /\ dexrt' = Aged(dexrt)
    /\ h' = [q \in Handlers |-> IF q = p THEN [Idle EXCEPT !.pc = "putrt", !.tok = "cur"]
                                ELSE [h[q] EXCEPT !.tok = Aged(h[q].tok)]]
    /\ UNCHANGED <<gen, genLeft, pk, rec, ender, relogin>>

\* The Dex token is stored before anything else can fail.
LoginPutDexToken(p) ==
    /\ h[p].pc = "putrt"
    /\ dexrt' = h[p].tok
    /\ relogin' = TRUE
    /\ Goto(p, "readgen")
    /\ UNCHANGED <<gen, genLeft, pk, rec, ender>>

\* The generation the session will carry.
LoginReadGen(p) ==
    /\ h[p].pc = "readgen"
    /\ h' = [h EXCEPT ![p].pc = "provision", ![p].gen = gen]
    /\ SlideGen
    /\ UNCHANGED <<gen, dexrt, pk, rec, ender, relogin>>

\* provisionUser, then finish or deviceFinish: the code or the approved device
\* record is there to be taken.
LoginFinish(p) ==
    /\ h[p].pc = "provision"
    /\ \E s \in Sids :
          /\ Free(s)
          /\ rec' = [rec EXCEPT ![s] =
                       [kind |-> "code", gen |-> h[p].gen, left |-> 1, fate |-> h[p].fate]]
    /\ EndRequest(p)
    /\ UNCHANGED <<gen, genLeft, dexrt, pk, ender, relogin>>

\* consoleFinish: on to ensureOAuthPK, the generation not looked at again.
LoginConsole(p) ==
    /\ h[p].pc = "provision"
    /\ \E s \in Sids :
          /\ Free(s)
          /\ h' = [h EXCEPT ![p].pc = "ensure", ![p].for = "web", ![p].sid = s,
                            ![p].left = RefreshTTL]
    /\ UNCHANGED <<gen, genLeft, dexrt, pk, rec, ender, relogin>>

-----------------------------------------------------------------------------
(* Grants and console requests *)

\* authorization_code and device_code: the record is taken, then issue.
TakeCode(p, s) ==
    /\ h[p].pc = "idle"
    /\ rec[s].kind = "code"
    /\ rec' = [rec EXCEPT ![s] = NoRec]
    /\ h' = [h EXCEPT ![p] = [Idle EXCEPT !.pc = "issue", !.for = "code", !.gen = rec[s].gen,
                                          !.fate = rec[s].fate, !.late = rec[s].fate = "ended"]]
    /\ UNCHANGED <<gen, genLeft, dexrt, pk, ender, relogin>>

\* Mutant: the token is read, not taken.
TakeRefreshLeaving(p, s) ==
    /\ h[p].pc = "idle"
    /\ rec[s].kind = "refresh"
    /\ h' = [h EXCEPT ![p] =
               [Idle EXCEPT !.pc = "live", !.for = "refresh", !.sid = s, !.gen = rec[s].gen,
                            !.fate = rec[s].fate, !.late = rec[s].fate = "ended"]]
    /\ UNCHANGED <<gen, genLeft, dexrt, pk, rec, ender, relogin>>

\* refresh_token: taken before anything is asked.
TakeRefresh(p, s) ==
    /\ h[p].pc = "idle"
    /\ rec[s].kind = "refresh"
    /\ rec' = [rec EXCEPT ![s] = NoRec]
    /\ h' = [h EXCEPT ![p] =
               [Idle EXCEPT !.pc = "live", !.for = "refresh", !.sid = s, !.gen = rec[s].gen,
                            !.fate = rec[s].fate, !.late = rec[s].fate = "ended"]]
    /\ UNCHANGED <<gen, genLeft, dexrt, pk, ender, relogin>>

\* Another client's token: refused and put back, with a full TTL and without
\* looking at the generation.
RefuseWrongClient(s) ==
    /\ rec[s].kind = "refresh"
    /\ rec' = [rec EXCEPT ![s].left = RefreshTTL, ![s].fate = "unread"]
    /\ UNCHANGED <<gen, genLeft, dexrt, pk, h, ender, relogin>>

\* ConsoleSession: the record is read and stays where it is.
OpenConsole(p, s) ==
    /\ h[p].pc = "idle"
    /\ rec[s].kind = "web"
    /\ h' = [h EXCEPT ![p] =
               [Idle EXCEPT !.pc = "live", !.for = "web", !.sid = s, !.gen = rec[s].gen,
                            !.left = rec[s].left, !.fate = rec[s].fate, !.late = rec[s].fate = "ended"]]
    /\ UNCHANGED <<gen, genLeft, dexrt, pk, rec, ender, relogin>>

\* consoleLogout.
ConsoleLogout(s) ==
    /\ rec[s].kind = "web"
    /\ rec' = [rec EXCEPT ![s] = NoRec]
    /\ UNCHANGED <<gen, genLeft, dexrt, pk, h, ender, relogin>>

\* Refresh (POST /platform/refresh) revalidates without a session record.
StartSync(p) ==
    /\ h[p].pc = "idle"
    /\ pk
    /\ h' = [h EXCEPT ![p] = [Idle EXCEPT !.pc = "dex"]]
    /\ UNCHANGED <<gen, genLeft, dexrt, pk, rec, ender, relogin>>

\* A console session that is refused is deleted; a refresh token that was taken
\* is simply not put back.
RefusedRec(p) == IF h[p].for = "web" THEN [rec EXCEPT ![h[p].sid] = NoRec] ELSE rec

\* liveSession: only a record of the current generation goes on to
\* revalidateAtIdP.
CheckLive(p) ==
    /\ h[p].pc = "live"
    /\ IF h[p].gen = gen
       THEN Goto(p, "dex") /\ rec' = rec
       ELSE EndRequest(p) /\ rec' = RefusedRec(p)
    /\ SlideGen
    /\ UNCHANGED <<gen, dexrt, pk, ender, relogin>>

-----------------------------------------------------------------------------
(* revalidateAtIdP *)

\* restore: a taken refresh token is put back with a full TTL.
Restored(p) ==
    IF h[p].for = "refresh"
    THEN [rec EXCEPT ![h[p].sid] =
            [kind |-> "refresh", gen |-> h[p].gen, left |-> RefreshTTL,
             fate |-> IF h[p].pc = "live" THEN "unread" ELSE h[p].fate]]
    ELSE rec

\* The stored Dex token is read; none means the sessions were ended.
GetDexToken(p) ==
    /\ h[p].pc = "dex"
    /\ IF dexrt = "none"
       THEN EndRequest(p) /\ rec' = RefusedRec(p)
       ELSE h' = [h EXCEPT ![p].pc = "call", ![p].tok = dexrt] /\ rec' = rec
    /\ UNCHANGED <<gen, genLeft, dexrt, pk, ender, relogin>>

\* Dex takes its current token and rotates it...
DexRotates(p) ==
    /\ h[p].pc = "call" /\ h[p].tok = "cur"
    /\ dexrt' = Aged(dexrt)
    /\ h' = [q \in Handlers |-> IF q = p THEN [h[q] EXCEPT !.pc = "putdex"]
                                ELSE [h[q] EXCEPT !.tok = Aged(h[q].tok)]]
    /\ UNCHANGED <<gen, genLeft, pk, rec, ender, relogin>>

\* ...or does so and the answer never arrives (dexRefreshTimeout).
DexRotatesUnheard(p) ==
    /\ h[p].pc = "call" /\ h[p].tok = "cur"
    /\ dexrt' = Aged(dexrt)
    /\ h' = [q \in Handlers |-> IF q = p THEN Idle ELSE [h[q] EXCEPT !.tok = Aged(h[q].tok)]]
    /\ rec' = Restored(p)
    /\ UNCHANGED <<gen, genLeft, pk, ender, relogin>>

\* A token replaced only just now is answered with its replacement (Dex's reuse
\* interval).
DexReuses(p) ==
    /\ h[p].pc = "call" /\ h[p].tok = "old"
    /\ h' = [h EXCEPT ![p].pc = "putdex", ![p].tok = "cur"]
    /\ UNCHANGED <<gen, genLeft, dexrt, pk, rec, ender, relogin>>

\* A stale token is refused with invalid_grant, and so is a current one whose
\* user the identity provider no longer honours.
DexDenies(p) ==
    /\ h[p].pc = "call"
    /\ Goto(p, "deny")
    /\ UNCHANGED <<gen, genLeft, dexrt, pk, rec, ender, relogin>>

\* Sessions ended: the Dex token goes, whatever it is by now, unless the store
\* errs, ...
DenyDelete(p) ==
    /\ h[p].pc = "deny"
    /\ dexrt' \in {dexrt, "none"}
    /\ Goto(p, "denyrow")
    /\ UNCHANGED <<gen, genLeft, pk, rec, ender, relogin>>

\* ...and so does the pk_ row, unless that fails.
DenyRevoke(p) ==
    /\ h[p].pc = "denyrow"
    /\ pk' \in {pk, FALSE}
    /\ rec' = RefusedRec(p)
    /\ EndRequest(p)
    /\ UNCHANGED <<gen, genLeft, dexrt, ender, relogin>>

\* Mutant: the rotated token is stored whether or not one is there.
PutDexTokenAlways(p) ==
    /\ h[p].pc = "putdex"
    /\ dexrt' = h[p].tok
    /\ Goto(p, CASE h[p].for = "refresh" -> "issue" [] h[p].for = "web" -> "ensure" [] OTHER -> "idle")
    /\ UNCHANGED <<gen, genLeft, pk, rec, ender, relogin>>

\* PutIfExists: the rotated token is stored only while one is there.
PutDexToken(p) ==
    /\ h[p].pc = "putdex"
    /\ IF dexrt = "none"
       THEN EndRequest(p) /\ rec' = RefusedRec(p) /\ dexrt' = dexrt
       ELSE /\ dexrt' = h[p].tok
            /\ h' = [h EXCEPT ![p] =
                       CASE h[p].for = "refresh" -> [h[p] EXCEPT !.pc = "issue", !.tok = "none"]
                         [] h[p].for = "web" -> [h[p] EXCEPT !.pc = "ensure", !.tok = "none"]
                         [] OTHER -> Idle]
            /\ rec' = rec
    /\ UNCHANGED <<gen, genLeft, pk, ender, relogin>>

-----------------------------------------------------------------------------
(* issue and ensureOAuthPK *)

\* Every grant crosses liveSession here; a refresh token that fails is put back
\* even so.
Issue(p) ==
    /\ h[p].pc = "issue"
    /\ IF h[p].gen = gen
       THEN Goto(p, "ensure") /\ rec' = rec
       ELSE EndRequest(p) /\ rec' = Restored(p)
    /\ SlideGen
    /\ UNCHANGED <<gen, dexrt, pk, ender, relogin>>

\* ensureOAuthPK: the active row is reused, or revoked to be replaced.
EnsureRow(p) ==
    /\ h[p].pc = "ensure"
    /\ \/ pk /\ Goto(p, "pair") /\ pk' = pk
       \/ Goto(p, "mint") /\ pk' = FALSE
    /\ UNCHANGED <<gen, genLeft, dexrt, rec, ender, relogin>>

\* MintPK: the INSERT fails when another grant's row is active by now
\* (personal_keys_one_active_oauth_per_owner).
MintRow(p) ==
    /\ h[p].pc = "mint"
    /\ IF pk
       THEN EndRequest(p) /\ rec' = Restored(p) /\ pk' = pk
       ELSE Goto(p, "pair") /\ pk' = TRUE /\ rec' = rec
    /\ UNCHANGED <<gen, genLeft, dexrt, ender, relogin>>

\* The new refresh token, or the console session with its new RevalidateAt, is
\* stored and the answer goes out.
Pair(p) ==
    /\ h[p].pc = "pair"
    /\ IF h[p].for = "web"
       THEN rec' = [rec EXCEPT ![h[p].sid] =
                      IF h[p].left = 0 THEN NoRec
                      ELSE [kind |-> "web", gen |-> h[p].gen, left |-> h[p].left, fate |-> h[p].fate]]
       ELSE \E s \in Sids :
               /\ Free(s) \/ s = h[p].sid  \* the spent token's name may be used again
               /\ rec' = [rec EXCEPT ![s] =
                            [kind |-> "refresh", gen |-> h[p].gen, left |-> RefreshTTL, fate |-> h[p].fate]]
    /\ EndRequest(p)
    /\ UNCHANGED <<gen, genLeft, dexrt, pk, ender, relogin>>

\* Dex or LiteLLM is unreachable, or the store or the database errs: no pair
\* goes out and a refresh token is put back.
RequestFails(p) ==
    /\ h[p].pc \notin {"idle", "deny", "denyrow"}
    /\ EndRequest(p)
    /\ rec' = Restored(p)
    /\ UNCHANGED <<gen, genLeft, dexrt, pk, ender, relogin>>

\* The process dies, and with it what the request held.
Crash(p) ==
    /\ h[p].pc # "idle"
    /\ EndRequest(p)
    /\ UNCHANGED <<gen, genLeft, dexrt, pk, rec, ender, relogin>>

-----------------------------------------------------------------------------
(* pk_ revocation and EndSessions *)

\* The owner's DELETE and the admin's bulk sweep end the sessions first.
OwnerRevokes ==
    /\ ender = "idle" /\ gen < MaxGen
    /\ ender' = "bump"
    /\ UNCHANGED <<gen, genLeft, dexrt, pk, rec, h, relogin>>

\* The admin's single revocation flips an active row first.
AdminRevokes ==
    /\ ender = "idle" /\ gen < MaxGen /\ pk
    /\ pk' = FALSE
    /\ ender' = "bumpLast"
    /\ UNCHANGED <<gen, genLeft, dexrt, rec, h, relogin>>

Ended(fate) == IF fate = "open" THEN "ended" ELSE fate

\* BumpSessionGen: every session there is, in the store or in a request, is over.
Bump ==
    /\ ender \in {"bump", "bumpLast"} /\ gen < MaxGen
    /\ gen' = gen + 1
    /\ genLeft' = GenTTL
    /\ rec' = [s \in Sids |-> IF rec[s] = NoRec THEN NoRec ELSE [rec[s] EXCEPT !.fate = Ended(@)]]
    /\ h' = [p \in Handlers |-> IF h[p].pc \in {"idle", "putrt", "readgen"} THEN h[p]
                                ELSE [h[p] EXCEPT !.fate = Ended(@)]]
    /\ ender' = IF ender = "bump" THEN "del" ELSE "delLast"
    /\ UNCHANGED <<dexrt, pk, relogin>>

\* The Dex token goes.
DelDexToken ==
    /\ ender \in {"del", "delLast"}
    /\ dexrt' = "none"
    /\ relogin' = FALSE
    /\ ender' = IF ender = "del" THEN "flip" ELSE "idle"
    /\ UNCHANGED <<gen, genLeft, pk, rec, h>>

\* Either half may fail; both are tried and the revocation goes on.
EndSessionsFails ==
    /\ ender \in {"bump", "del", "bumpLast", "delLast"}
    /\ ender' = CASE ender = "bump" -> "del" [] ender = "del" -> "flip"
                  [] ender = "bumpLast" -> "delLast" [] ender = "delLast" -> "idle"
    /\ UNCHANGED <<gen, genLeft, dexrt, pk, rec, h, relogin>>

\* RevokePersonalKeyByOwner.
FlipRow ==
    /\ ender = "flip"
    /\ pk' = FALSE
    /\ ender' = "idle"
    /\ UNCHANGED <<gen, genLeft, dexrt, rec, h, relogin>>

\* The Dex token has its own TTL, renewed by every login and refresh; it may run
\* out at any moment here.
DexTokenExpires ==
    /\ dexrt # "none"
    /\ dexrt' = "none"
    /\ UNCHANGED <<gen, genLeft, pk, rec, h, ender, relogin>>

\* Redis drops what has expired; a request is over within RotatingTTL,
\* and liveSession's read follows the Take or Get of the record at once.
Tick ==
    /\ \A p \in Handlers : h[p].pc # "idle" => h[p].pc # "live" /\ h[p].age < RotatingTTL
    /\ genLeft' = IF genLeft = 0 THEN 0 ELSE genLeft - 1
    /\ gen' = IF genLeft' = 0 THEN 0 ELSE gen
    /\ rec' = [s \in Sids |-> IF rec[s].left <= 1 THEN NoRec ELSE [rec[s] EXCEPT !.left = @ - 1]]
    /\ h' = [p \in Handlers |->
               IF h[p].pc = "idle" THEN Idle
               ELSE [h[p] EXCEPT !.age = @ + 1, !.left = IF @ = 0 THEN 0 ELSE @ - 1]]
    /\ UNCHANGED <<dexrt, pk, ender, relogin>>

Request(p) ==
    \/ LoginExchange(p) \/ LoginPutDexToken(p) \/ LoginReadGen(p) \/ LoginFinish(p) \/ LoginConsole(p)
    \/ \E s \in Sids : TakeCode(p, s) \/ TakeRefresh(p, s) \/ OpenConsole(p, s)
    \/ StartSync(p) \/ CheckLive(p) \/ GetDexToken(p) \/ DexRotates(p) \/ DexRotatesUnheard(p) \/ DexReuses(p)
    \/ DexDenies(p) \/ DenyDelete(p) \/ DenyRevoke(p) \/ PutDexToken(p) \/ Issue(p) \/ EnsureRow(p)
    \/ MintRow(p) \/ Pair(p) \/ RequestFails(p) \/ Crash(p)

Next ==
    \/ \E p \in Handlers : Request(p)
    \/ \E s \in Sids : RefuseWrongClient(s) \/ ConsoleLogout(s)
    \/ OwnerRevokes \/ AdminRevokes \/ Bump \/ DelDexToken \/ EndSessionsFails \/ FlipRow
    \/ DexTokenExpires \/ Tick

Spec == Init /\ [][Next]_vars

-----------------------------------------------------------------------------
(* Properties *)

\* liveSession, "a code or device approval from before an EndSessions buys
\* nothing": a request that presents a record of an ended session never gets to
\* a pk_ row or a token pair, however late a failed grant puts a token back and
\* although the generation counter itself expires.  (A token put back without a
\* read of the counter, another client's or after a failed read, may outlive
\* the counter and is not covered.)
EndedStaysEnded == \A p \in Handlers : h[p].pc \in {"ensure", "mint", "pair"} => ~h[p].late

\* revalidateAtIdP's PutIfExists: a refresh in flight does not bring back the
\* Dex token that EndSessions deleted; only a login does.
EndNotUndone == dexrt # "none" => relogin

\* refreshToken takes the token before it asks Dex and puts it back only when
\* no pair went out: a refresh token is in the store or in one request's hands.
RefreshHeldOnce ==
    \A p \in Handlers :
        h[p].for = "refresh" =>
            /\ rec[h[p].sid] = NoRec
            /\ \A q \in Handlers : h[q].for = "refresh" /\ h[q].sid = h[p].sid => q = p
=============================================================================
