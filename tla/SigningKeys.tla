---------------------------- MODULE SigningKeys ----------------------------
(***************************************************************************)
(* The Ed25519 signing keys: operators racing to mint the Secret at their  *)
(* first boot, an administrator rotating it (next published for an overlap,*)
(* then promoted) and sometimes breaking it, the forwarder replicas that   *)
(* follow it by informer, the services that re-read it from a mounted      *)
(* volume, and a backend that caches the JWKS of whichever replica answers.*)
(* The two slots of a signer are stored and loaded one after the other.    *)
(* A tick is longer than a reload and a key set fetch.                     *)
(***************************************************************************)
EXTENDS Integers, Sequences

CONSTANTS Minters,      \* operators booting at once: each would mint its own key
          Forwarders, Mounted,   \* the processes holding a signer
          RotationKeys, \* keys an administrator generates
          MaxAge,       \* ticks a backend keeps a JWKS (max-age)
          Overlap,      \* ticks both slots are published before the promotion
          MaxFaults,    \* bound on malformed edits and restarts
          None

Procs == Forwarders \cup Mounted

VARIABLES hist,         \* the contents the Secret has had, oldest first
          minter,       \* EnsureSigningKeys in each operator
          sig,          \* the slots of each process's Ed25519Signer
          load,         \* a load in progress in each process
          at,           \* the version of the Secret an informer or volume shows
          read, cache,  \* a JWKS answer being put together; the backend's copy
          since,        \* ticks the Secret has held both slots
          faults

vars == <<hist, minter, sig, load, at, read, cache, since, faults>>

\* A key id names the key of its seed; a seed that is not 32 bytes is None.
Key(k) == [kid |-> k, seed |-> k]

newSignerSlot(s) == s # None /\ s.seed # None

Whole(c) == newSignerSlot(c.cur) /\ (c.nxt = None \/ newSignerSlot(c.nxt))

Secret == hist[Len(hist)]

NoSlots == [cur |-> None, nxt |-> None]
LoadIdle == [pc |-> "idle", v |-> 0, kid |-> None]

Loaded(p) == sig[p].cur # None

Init ==
  /\ hist = <<>> /\ minter = [m \in Minters |-> "get"]
  /\ sig = [p \in Procs |-> NoSlots] /\ load = [p \in Procs |-> LoadIdle]
  /\ at = [p \in Procs |-> 0]
  /\ read = None /\ cache = None
  /\ since = 0 /\ faults = 0

------------------------------------------------------------------------------
(* EnsureSigningKeys: the minter's own name stands for the key it generates.*)

EnsureGet(m) ==
  /\ minter[m] = "get"
  /\ minter' = [minter EXCEPT ![m] = IF hist = <<>> THEN "create" ELSE "done"]
  /\ UNCHANGED <<hist, sig, load, at, read, cache, since, faults>>

EnsureCreate(m) ==
  /\ minter[m] = "create"
  /\ minter' = [minter EXCEPT ![m] = "done"]
  /\ hist' = IF hist = <<>> THEN <<[cur |-> Key(m), nxt |-> None]>> ELSE hist
  /\ UNCHANGED <<sig, load, at, read, cache, since, faults>>

------------------------------------------------------------------------------
(* The administrator's edits of the Secret.                                 *)

Edit(c) ==
  /\ hist' = Append(hist, c)
  /\ since' = 0
  /\ UNCHANGED <<minter, sig, load, at, read, cache>>

Unused == {k \in RotationKeys : \A i \in 1..Len(hist) :
             hist[i].cur.kid # k /\ (hist[i].nxt # None => hist[i].nxt.kid # k)}

AddNext ==
  /\ hist # <<>> /\ Whole(Secret) /\ Secret.nxt = None
  /\ \E k \in Unused : Edit([Secret EXCEPT !.nxt = Key(k)])
  /\ UNCHANGED faults

Promote ==
  /\ hist # <<>> /\ Whole(Secret) /\ Secret.nxt # None /\ since >= Overlap
  /\ Edit([cur |-> Secret.nxt, nxt |-> None])
  /\ UNCHANGED faults

\* A slot is given a seed of the wrong length, and later its own again.
Spoil ==
  /\ hist # <<>> /\ Whole(Secret) /\ faults < MaxFaults
  /\ \/ Edit([Secret EXCEPT !.cur.seed = None])
     \/ Secret.nxt # None /\ Edit([Secret EXCEPT !.nxt.seed = None])
  /\ faults' = faults + 1

Repair ==
  /\ hist # <<>> /\ ~Whole(Secret)
  /\ Edit([cur |-> Key(Secret.cur.kid), nxt |-> IF Secret.nxt = None THEN None ELSE Key(Secret.nxt.kid)])
  /\ UNCHANGED faults

------------------------------------------------------------------------------
(* SecretLoader, in a forwarder.  A store between the two loads of a JWKS   *)
(* answer makes the answer straddle it.                                     *)

Straddled(p) == IF read # None /\ read.by = p THEN [read EXCEPT !.straddles = TRUE] ELSE read

\* Refuses to start on a malformed current slot.
LoadOnce(f) ==
  /\ ~Loaded(f) /\ hist # <<>> /\ newSignerSlot(Secret.cur)
  /\ sig' = [sig EXCEPT ![f] = [cur |-> Secret.cur,
                                nxt |-> IF newSignerSlot(Secret.nxt) THEN Secret.nxt ELSE None]]
  /\ at' = [at EXCEPT ![f] = Len(hist)]
  /\ UNCHANGED <<hist, minter, load, read, cache, since, faults>>

\* Refuses to update on a malformed current slot: both slots stay.
Reload(f) ==
  /\ Loaded(f) /\ load[f].pc = "idle"
  /\ \E v \in at[f] + 1 .. Len(hist) :
       /\ at' = [at EXCEPT ![f] = v]
       /\ IF newSignerSlot(hist[v].cur)
          THEN /\ sig' = [sig EXCEPT ![f].cur = hist[v].cur]
               /\ load' = [load EXCEPT ![f] = [pc |-> "next", v |-> v, kid |-> None]]
               /\ read' = Straddled(f)
          ELSE UNCHANGED <<sig, load, read>>
  /\ UNCHANGED <<hist, minter, cache, since, faults>>

applyNextSlot(f) ==
  /\ load[f].pc = "next"
  /\ LET s == hist[load[f].v].nxt
     IN sig' = [sig EXCEPT ![f].nxt = IF newSignerSlot(s) THEN s ELSE None]
  /\ load' = [load EXCEPT ![f] = LoadIdle]
  /\ read' = Straddled(f)
  /\ UNCHANGED <<hist, minter, at, cache, since, faults>>

------------------------------------------------------------------------------
(* LoadFromDir and WatchDir, in a service with the Secret mounted.  The     *)
(* kubelet repoints ..data and then removes the directory it pointed at.    *)

Kubelet(m) ==
  /\ at[m] < Len(hist)
  /\ at' = [at EXCEPT ![m] = Len(hist)]
  /\ UNCHANGED <<hist, minter, sig, load, read, cache, since, faults>>

\* As if the files were opened through ..data each time.
DirLive(m) == at[m]

\* The directory ..data was resolved to when the load began.
Dir(m) == load[m].v

Gone(m) == Dir(m) # at[m]

Put(m, s, l) ==
  /\ sig' = [sig EXCEPT ![m] = s]
  /\ load' = [load EXCEPT ![m] = l]
  /\ UNCHANGED <<hist, minter, at, read, cache, since, faults>>

\* Re-reading files that are loaded, with no swap to come, changes nothing.
EvalSymlinks(m) ==
  /\ load[m].pc = "idle" /\ at[m] > 0
  /\ sig[m] # hist[at[m]] \/ at[m] < Len(hist)
  /\ Put(m, sig[m], [pc |-> "kid", v |-> at[m], kid |-> None])

\* readSlotFiles of the current slot: a failed read, or a malformed slot,
\* keeps both slots until the next interval.
ReadKid(m) ==
  /\ load[m].pc = "kid"
  /\ \/ Put(m, sig[m], [load[m] EXCEPT !.pc = "seed", !.kid = hist[Dir(m)].cur.kid])
     \/ Gone(m) /\ Put(m, sig[m], LoadIdle)

\* As if a failed read ended WatchDir's loop.
ReadSeedGivesUp(m) ==
  /\ load[m].pc = "seed"
  /\ LET s == [kid |-> load[m].kid, seed |-> hist[Dir(m)].cur.seed]
     IN \/ newSignerSlot(s) /\ Put(m, [sig[m] EXCEPT !.cur = s], [load[m] EXCEPT !.pc = "nkid"])
        \/ (~newSignerSlot(s) \/ Gone(m)) /\ Put(m, sig[m], [LoadIdle EXCEPT !.pc = "next"])

ReadSeed(m) ==
  /\ load[m].pc = "seed"
  /\ LET s == [kid |-> load[m].kid, seed |-> hist[Dir(m)].cur.seed]
     IN \/ newSignerSlot(s) /\ Put(m, [sig[m] EXCEPT !.cur = s], [load[m] EXCEPT !.pc = "nkid"])
        \/ (~newSignerSlot(s) \/ Gone(m)) /\ Put(m, sig[m], LoadIdle)

\* A next slot that is absent, unreadable or malformed clears the slot.
ReadNextKid(m) ==
  /\ load[m].pc = "nkid"
  /\ LET s == hist[Dir(m)].nxt
     IN \/ s # None /\ Put(m, sig[m], [load[m] EXCEPT !.pc = "nseed", !.kid = s.kid])
        \/ (s = None \/ Gone(m)) /\ Put(m, [sig[m] EXCEPT !.nxt = None], LoadIdle)

ReadNextSeed(m) ==
  /\ load[m].pc = "nseed"
  /\ LET c == hist[Dir(m)].nxt
         s == [kid |-> load[m].kid, seed |-> IF c = None THEN None ELSE c.seed]
     IN \/ newSignerSlot(s) /\ Put(m, [sig[m] EXCEPT !.nxt = s], LoadIdle)
        \/ (~newSignerSlot(s) \/ Gone(m)) /\ Put(m, [sig[m] EXCEPT !.nxt = None], LoadIdle)

------------------------------------------------------------------------------
(* The JWKS endpoint, the tokens, the clock.                                *)

\* JWKS: current.Load(), then next.Load().
JWKSCurrent(f) ==
  /\ read = None /\ Loaded(f)
  /\ read' = [by |-> f, keys |-> {sig[f].cur.kid}, straddles |-> FALSE]
  /\ UNCHANGED <<hist, minter, sig, load, at, cache, since, faults>>

\* As if only the slot that signs were published.
JWKSNextOmitted(f) ==
  /\ read # None /\ read.by = f
  /\ cache' = [keys |-> read.keys, age |-> 0, straddles |-> read.straddles]
  /\ read' = None
  /\ UNCHANGED <<hist, minter, sig, load, at, since, faults>>

JWKSNext(f) ==
  /\ read # None /\ read.by = f
  /\ cache' = [keys |-> read.keys \cup (IF sig[f].nxt = None THEN {} ELSE {sig[f].nxt.kid}),
               age |-> 0, straddles |-> read.straddles]
  /\ read' = None
  /\ UNCHANGED <<hist, minter, sig, load, at, since, faults>>

\* The kid of a token signed now: Sign loads current alone.
Sign(f) == sig[f].cur.kid

Crash(p) ==
  /\ faults < MaxFaults /\ Loaded(p)
  /\ faults' = faults + 1
  /\ sig' = [sig EXCEPT ![p] = NoSlots]
  /\ load' = [load EXCEPT ![p] = LoadIdle]
  /\ read' = IF read # None /\ read.by = p THEN None ELSE read
  /\ UNCHANGED <<hist, minter, at, cache, since>>

\* The running forwarders have seen the Secret as it is before a tick passes.
Tick ==
  /\ hist # <<>> /\ read = None
  /\ \A f \in Forwarders : Loaded(f) => at[f] = Len(hist) /\ load[f].pc = "idle"
  /\ since < Overlap \/ cache # None 
  /\ since' = IF since < Overlap THEN since + 1 ELSE since
  /\ cache' = IF cache = None \/ cache.age = MaxAge THEN None ELSE [cache EXCEPT !.age = @ + 1]
  /\ UNCHANGED <<hist, minter, sig, load, at, read, faults>>

Follow(f) == LoadOnce(f) \/ Reload(f) \/ applyNextSlot(f)

WatchDir(m) == EvalSymlinks(m) \/ ReadKid(m) \/ ReadSeed(m) \/ ReadNextKid(m) \/ ReadNextSeed(m)

Next ==
  \/ \E m \in Minters : EnsureGet(m) \/ EnsureCreate(m)
  \/ AddNext \/ Promote \/ Spoil \/ Repair
  \/ \E f \in Forwarders : Follow(f) \/ JWKSCurrent(f) \/ JWKSNext(f)
  \/ \E m \in Mounted : Kubelet(m) \/ WatchDir(m)
  \/ \E p \in Procs : Crash(p)
  \/ Tick

Spec == Init /\ [][Next]_vars

------------------------------------------------------------------------------
Slots == {Key(k) : k \in Minters \cup RotationKeys} \cup {None}

\* Signers hold well-formed slots or none, and a next slot only beside a
\* current one (SecretLoader, LoadFromDir).
TypeOK ==
  /\ \A p \in Procs : /\ at[p] \in 0..Len(hist)
                      /\ sig[p].nxt # None => Loaded(p)
                      /\ load[p].pc \in {"idle", "next", "kid", "seed", "nkid", "nseed"}
  /\ \A f \in Forwarders : sig[f].cur \in Slots /\ sig[f].nxt \in Slots
  /\ since \in 0..Overlap
  /\ cache # None => cache.age \in 0..MaxAge

\* No slot pairs the kid of one key with the seed of another, although the
\* volume is swapped between the reads of its two files (LoadFromDir).
SlotWhole == \A p \in Procs : sig[p].cur \in Slots /\ sig[p].nxt \in Slots

\* The key that was promoted last, as a forwarder that has reloaded signs.
Promoted == LET good == {i \in 1..Len(hist) : newSignerSlot(hist[i].cur)}
            IN hist[CHOOSE i \in good : \A j \in good : j <= i].cur.kid

\* A backend holding an unexpired JWKS knows the promoted key by the time any
\* replica signs with it, unless its answer was put together while that
\* replica stored its slots (JWKS, Reload, the >= 24 h overlap).
PromotedKeyKnown ==
  \A f \in Forwarders :
    Loaded(f) /\ Sign(f) = Promoted /\ cache # None /\ ~cache.straddles
      => Promoted \in cache.keys

\* A signer that follows the Secret ends up holding what it holds, whatever
\* was malformed, cut off by a volume swap or lost in a restart on the way
\* (SecretLoader.Reload, WatchDir).
Followed == hist # <<>> /\ \A p \in Procs : sig[p] = Secret

==============================================================================
