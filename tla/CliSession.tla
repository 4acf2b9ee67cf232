----------------------------- MODULE CliSession -----------------------------
(***************************************************************************)
(* The user's ~/.config/ach/config.yaml (internal/cli/config): profiles,   *)
(* each with its own credential (an OAuth token pair or a key) and the     *)
(* keys saved by `keys create`, and the default profile.  Every command    *)
(* loads the whole file, may call the Hub, and writes the whole file back; *)
(* the write is atomic, the read and the write together are not.  Only     *)
(* `ach-cli token`, the credential helper, holds token.lock meanwhile.     *)
(* Commands run concurrently: tools run the helper on their own timers.    *)
(*                                                                         *)
(* A token pair is abstracted to the serial number of its refresh token;   *)
(* the authorization server accepts each once and answers with the next.   *)
(* Whether the access token is within refreshSkew of its expiry is left    *)
(* open.  One Hub; transport and name checks are refusals before any step. *)
(***************************************************************************)
EXTENDS Integers, FiniteSets

CONSTANTS Procs,     \* ach-cli processes
          Names,     \* profile names
          KeyNames,  \* names of keys created with `keys create`
          MaxTok,    \* bound: refresh tokens issued
          Ops,       \* the commands run, a subset of AllOps
          MaxRuns,   \* bound: commands run
          None, Key  \* no credential; an ek- key

AllOps == {"token", "api", "create", "revoke", "login", "logout", "add", "use",
           "rename", "remove"}

Flags == {"force", "default"}
Toks == 1..MaxTok
Profile == [cred : Toks \cup {Key, None}, keys : SUBSET KeyNames]
File == [prof : [Names -> Profile \cup {None}], default : Names \cup {None}]

VARIABLES
    file,    \* config.yaml
    live,    \* the refresh tokens the server accepts
    issued,  \* how many it has issued
    hubKeys, \* the keys alive on the Hub
    lock,    \* the process that holds token.lock, or None
    proc,    \* proc[p]: what process p is doing
    lost,    \* history: tokens spent by a command that stopped before its write
    clobber, \* history: some command wrote over a file changed since its load
    bare,    \* history: some command refreshed a pair without the lock
    runs     \* counter of the bound

vars == <<file, live, issued, hubKeys, lock, proc, lost, clobber, bare, runs>>

Idle == [pc |-> "idle"]
Active == [pc : {"wait", "bearer", "persist", "call", "browser", "store"}, op : Ops,
           name : Names, arg : Names \cup KeyNames \cup SUBSET Flags \cup {None},
           copy : File \cup {None}, base : File \cup {None}, old : Toks \cup {None}]

TypeOK ==
    /\ file \in File
    /\ live \subseteq 1..issued /\ issued \in 0..MaxTok /\ lost \subseteq 1..issued
    /\ hubKeys \subseteq KeyNames /\ clobber \in BOOLEAN /\ bare \in BOOLEAN /\ runs \in 0..MaxRuns
    /\ lock \in Procs \cup {None}
    /\ \A p \in Procs : proc[p] = Idle \/ proc[p] \in Active

Init ==
    /\ file = [prof |-> [n \in Names |-> None], default |-> None]
    /\ live = {} /\ issued = 0 /\ hubKeys = {} /\ lock = None /\ runs = 0
    /\ proc = [p \in Procs |-> Idle] /\ lost = {} /\ clobber = FALSE /\ bare = FALSE

(**************************** The file's edits *****************************)

Has(f, n) == f.prof[n] # None
KeysOf(f, n) == IF Has(f, n) THEN f.prof[n].keys ELSE {}

(* --profile, else the default, else the only one; None if there is none. *)
ResolveActive(f, flag) ==
    LET names == {m \in Names : Has(f, m)} IN
    CASE flag # None -> IF flag \in names THEN flag ELSE None
      [] f.default # None -> f.default
      [] Cardinality(names) = 1 -> CHOOSE m \in names : TRUE
      [] OTHER -> None

SetCred(f, n, c) == [f EXCEPT !.prof[n].cred = c]

(* As if login wrote a fresh profile. *)
PutProfileFresh(f, n, c, dflt) ==
    [prof |-> [f.prof EXCEPT ![n] = [cred |-> c, keys |-> {}]],
     default |-> IF dflt \/ f.default = None THEN n ELSE f.default]

(* login and profile add replace the credential and keep the saved keys. *)
PutProfile(f, n, c, dflt) ==
    [prof |-> [f.prof EXCEPT ![n] = [cred |-> c, keys |-> KeysOf(f, n)]],
     default |-> IF dflt \/ f.default = None THEN n ELSE f.default]

(* As if a removed default stayed the default. *)
RemoveProfileOnly(f, n) == [f EXCEPT !.prof[n] = None]

(* A removed default passes to some other profile (the first by name). *)
RemoveProfile(f, n) ==
    LET rest == {m \in Names : Has(f, m)} \ {n} IN
    [prof |-> [f.prof EXCEPT ![n] = None],
     default |-> IF f.default # n THEN f.default
                 ELSE IF rest = {} THEN None ELSE CHOOSE m \in rest : TRUE]

RenameProfile(f, n, m) ==
    [prof |-> [f.prof EXCEPT ![n] = None, ![m] = f.prof[n]],
     default |-> IF f.default = n THEN m ELSE f.default]

(* Commands that edit the file without calling the Hub: the file to write,  *)
(* or None where the command refuses.                                       *)
LocalEdit(op, f, n, arg) ==
    CASE op = "logout" -> IF Has(f, n) THEN SetCred(f, n, None) ELSE None
      [] op = "add" -> IF Has(f, n) /\ "force" \notin arg THEN None
                        ELSE PutProfile(f, n, Key, "default" \in arg)
      [] op = "use" -> IF Has(f, n) THEN [f EXCEPT !.default = n] ELSE None
      [] op = "rename" -> IF Has(f, n) /\ ~Has(f, arg) THEN RenameProfile(f, n, arg) ELSE None
      [] OTHER -> IF Has(f, n) /\ (f.default = n => "force" \in arg) THEN RemoveProfile(f, n) ELSE None

(******************************** Commands *********************************)

Finish(p) == proc' = [proc EXCEPT ![p] = Idle] /\ lock' = IF lock = p THEN None ELSE lock

Begin(p, op, pc, n, arg, loaded) ==
    /\ proc[p] = Idle /\ op \in Ops /\ runs < MaxRuns /\ runs' = runs + 1
    /\ proc' = [proc EXCEPT ![p] =
          [pc |-> pc, op |-> op, name |-> n, arg |-> arg, old |-> None,
           copy |-> IF loaded THEN file ELSE None, base |-> IF loaded THEN file ELSE None]]
    /\ UNCHANGED <<file, live, issued, hubKeys, lost, clobber, bare>>

(* login loads the file, then waits minutes for the browser. *)
runLogin(p, n) == Begin(p, "login", "browser", n, None, TRUE) /\ UNCHANGED lock

(* The helper loads the file inside the lock. *)
newTokenCmd(p, n) == Begin(p, "token", "wait", n, None, FALSE) /\ UNCHANGED lock

(* As if the helper did not wait for the lock. *)
AcquireLockNow(p) ==
    /\ proc[p].pc = "wait"
    /\ lock' = p
    /\ proc' = [proc EXCEPT ![p].pc = "bearer", ![p].copy = file, ![p].base = file]
    /\ UNCHANGED <<file, live, issued, hubKeys, lost, clobber, bare, runs>>

AcquireLock(p) ==
    /\ proc[p].pc = "wait" /\ lock = None
    /\ lock' = p
    /\ proc' = [proc EXCEPT ![p].pc = "bearer", ![p].copy = file, ![p].base = file]
    /\ UNCHANGED <<file, live, issued, hubKeys, lost, clobber, bare, runs>>

(* Every network command resolves its credential first; a key that is to be *)
(* created must not be saved under that name already.                       *)
resolveCred(p, op, flag, arg) ==
    LET n == ResolveActive(file, flag) IN
    /\ n # None
    /\ op = "create" => arg \notin KeysOf(file, n)
    /\ Begin(p, op, "bearer", n, arg, TRUE) /\ UNCHANGED lock

EditProfiles(p, op, n, arg) ==
    /\ LocalEdit(op, file, n, arg) # None
    /\ Begin(p, op, "store", n, arg, TRUE) /\ UNCHANGED lock

(* What a command does once it has its bearer. *)
AfterBearer(p) == IF proc[p].op \in {"token", "api"} THEN Finish(p)
                  ELSE proc' = [proc EXCEPT ![p].pc = "call"] /\ UNCHANGED lock

(* A profile with a key, or a pair that is not near its expiry. *)
profileBearer(p) ==
    /\ proc[p].pc = "bearer" /\ Has(proc[p].copy, proc[p].name)
    /\ proc[p].copy.prof[proc[p].name].cred # None
    /\ AfterBearer(p)
    /\ UNCHANGED <<file, live, issued, hubKeys, lost, clobber, bare, runs>>

(* A pair near its expiry: the server spends the refresh token. *)
Refresh(p) ==
    LET n == proc[p].name
        tok == proc[p].copy.prof[n].cred
    IN  /\ proc[p].pc = "bearer" /\ Has(proc[p].copy, n) /\ tok \in live
        /\ issued < MaxTok
        /\ issued' = issued + 1 /\ live' = (live \ {tok}) \cup {issued'}
        /\ proc' = [proc EXCEPT ![p].pc = "persist", ![p].old = tok,
                                ![p].copy = SetCred(@, n, issued')]
        /\ bare' = (bare \/ lock # p)
        /\ UNCHANGED <<file, hubKeys, lock, lost, clobber, runs>>

(* The write of the whole copy over whatever the file has become. *)
SaveFile(p, f) ==
    /\ file' = f
    /\ clobber' = (clobber \/ file # proc[p].base)
    /\ UNCHANGED lost

(* As if the rotated pair were used and not written. *)
SaveRotatedNot(p) ==
    /\ proc[p].pc = "persist"
    /\ UNCHANGED <<file, live, issued, hubKeys, bare, runs, lost, clobber>>
    /\ IF proc[p].op \in {"token", "api"} THEN Finish(p)
       ELSE /\ proc' = [proc EXCEPT ![p].pc = "call", ![p].old = None]
            /\ UNCHANGED lock

SaveRotated(p) ==
    /\ proc[p].pc = "persist"
    /\ UNCHANGED <<live, issued, hubKeys, bare, runs>>
    /\ SaveFile(p, proc[p].copy)
    /\ IF proc[p].op \in {"token", "api"} THEN Finish(p)
       ELSE /\ proc' = [proc EXCEPT ![p].pc = "call", ![p].base = proc[p].copy, ![p].old = None]
            /\ UNCHANGED lock

(* keys create and keys revoke: the Hub first, the saved copy after. *)
runKeysCreate(p) ==
    LET n == proc[p].name IN
    /\ proc[p].pc = "call" /\ proc[p].op = "create"
    /\ hubKeys' = hubKeys \cup {proc[p].arg}
    /\ proc' = [proc EXCEPT ![p].pc = "store", ![p].copy.prof[n].keys = @ \cup {proc[p].arg}]
    /\ UNCHANGED <<file, live, issued, lock, lost, clobber, bare, runs>>

(* A name stands for the saved key, else for the Hub's key of that name. *)
resolveKeyID(f, n, k) == k \in KeysOf(f, n) \cup hubKeys

forgetSavedKey(p) ==
    LET n == proc[p].name IN
    /\ proc[p].pc = "call" /\ proc[p].op = "revoke"
    /\ resolveKeyID(proc[p].copy, n, proc[p].arg)
    /\ hubKeys' = hubKeys \ {proc[p].arg}
    /\ IF proc[p].arg \in KeysOf(proc[p].copy, n)
       THEN /\ proc' = [proc EXCEPT ![p].pc = "store", ![p].copy.prof[n].keys = @ \ {proc[p].arg}]
            /\ UNCHANGED lock
       ELSE Finish(p)
    /\ UNCHANGED <<file, live, issued, lost, clobber, bare, runs>>

(* The browser came back and the code was exchanged for a new pair. *)
LoggedIn(p) ==
    /\ proc[p].pc = "browser" /\ issued < MaxTok
    /\ issued' = issued + 1 /\ live' = live \cup {issued'}
    /\ proc' = [proc EXCEPT ![p].pc = "store",
                            ![p].copy = PutProfile(@, proc[p].name, issued', FALSE)]
    /\ UNCHANGED <<file, hubKeys, lock, lost, clobber, bare, runs>>

Store(p) ==
    /\ proc[p].pc = "store"
    /\ UNCHANGED <<live, issued, hubKeys, bare, runs>>
    /\ SaveFile(p, IF proc[p].op \in {"login", "create", "revoke"} THEN proc[p].copy
                   ELSE LocalEdit(proc[p].op, proc[p].copy, proc[p].name, proc[p].arg))
    /\ Finish(p)

(* An error return, a lock timeout or a kill, at any point. *)
Fails(p) ==
    /\ proc[p] # Idle
    /\ lost' = IF proc[p].old # None THEN lost \cup {proc[p].old} ELSE lost
    /\ Finish(p)
    /\ UNCHANGED <<file, live, issued, hubKeys, clobber, bare, runs>>

Next == \E p \in Procs :
    \/ \E n \in Names :
          \/ runLogin(p, n) \/ newTokenCmd(p, n)
          \/ EditProfiles(p, "logout", n, None) \/ EditProfiles(p, "use", n, None)
          \/ \E fl \in SUBSET Flags : EditProfiles(p, "add", n, fl)
          \/ \E fl \in SUBSET {"force"} : EditProfiles(p, "remove", n, fl)
          \/ \E m \in Names : EditProfiles(p, "rename", n, m)
    \/ \E flag \in Names \cup {None} :
          \/ resolveCred(p, "api", flag, None)
          \/ \E k \in KeyNames : resolveCred(p, "create", flag, k) \/ resolveCred(p, "revoke", flag, k)
    \/ AcquireLock(p) \/ profileBearer(p) \/ Refresh(p) \/ SaveRotated(p)
    \/ runKeysCreate(p) \/ forgetSavedKey(p) \/ LoggedIn(p) \/ Store(p) \/ Fails(p)

Spec == Init /\ [][Next]_vars

(******************************* Properties ********************************)

(* The default always names a profile of the file, and there is one as soon *)
(* as there is a profile ("Never leave default dangling"), whichever        *)
(* commands overlap.                                                        *)
DefaultExists ==
    IF file.default = None THEN \A n \in Names : ~Has(file, n) ELSE Has(file, file.default)

(* What newTokenCmd's lock is for: a stored refresh token is one the server *)
(* accepts, or a command that has spent it is about to store its successor  *)
(* (or stopped before it could).                                            *)
RotationKept ==
    \A n \in Names : (Has(file, n) /\ file.prof[n].cred \in Toks) =>
        \/ file.prof[n].cred \in live \cup lost
        \/ \E p \in Procs : proc[p] # Idle /\ proc[p].old = file.prof[n].cred

(* Unless a command wrote over a file that had changed since its load, the  *)
(* session survives helpers and network commands that refresh the same      *)
(* pair at once, with and without the lock.                                 *)
RefreshersKeepSession == clobber \/ RotationKept

(* A helper that has the lock holds a pair that is still good, also when it *)
(* waited for a helper that rotated it: it loads the file inside the lock.  *)
HelperSeesRotation ==
    \A p \in Procs : (lock = p /\ proc[p].pc = "bearer" /\ Has(proc[p].copy, proc[p].name)) =>
        \/ proc[p].copy.prof[proc[p].name].cred \in live \cup lost \cup {Key, None}
        \/ bare \/ clobber

(* Without overlapping writes a saved key leaves a profile only by revoking *)
(* that key or removing or renaming the profile: login, logout and          *)
(* profile add --force keep it.                                             *)
SavedKeysKept ==
    \A n \in Names, k \in KeyNames :
       (k \in KeysOf(file, n) /\ k \notin KeysOf(file', n))
         => \/ clobber'
            \/ \E p \in Procs : /\ proc[p] # Idle /\ proc[p].name = n
                                /\ \/ proc[p].op \in {"remove", "rename"}
                                   \/ proc[p].op = "revoke" /\ proc[p].arg = k

=============================================================================
