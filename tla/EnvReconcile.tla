---- MODULE EnvReconcile ----
(***************************************************************************)
(* The steady state of the Environment reconciler: one Environment, the    *)
(* operator's snapshot of what LiteLLM serves, and the pass that resolves  *)
(* the spec, provisions the shell team, writes the access group, verifies  *)
(* the mirror and projects the result to the environments row.             *)
(*                                                                         *)
(* controller-runtime runs one pass of an Environment at a time.  Between  *)
(* any two of its calls the rest of the world moves: the spec is edited,   *)
(* LiteLLM's registry loads or forgets, somebody saves a team in LiteLLM's *)
(* UI, a user gets a shell or leaves a team, the operator restarts.        *)
(***************************************************************************)
EXTENDS Integers, FiniteSets

CONSTANTS
  Models,     \* model names and model group tags
  Servers,    \* MCP servers and A2A agents
  Tagged,     \* the servers that carry the access-group tag of LiteLLM
  Humans,     \* the teams an Environment can authorize
  EnvShell,   \* the deny-all shell team of the Environment
  UserShell,  \* the deny-all shell team of a user
  Guard,      \* a guardrail
  Specs,      \* the contents the spec can have
  MaxMoves,   \* bound: moves of the world, failing calls included
  MaxGen      \* bound: metadata.generation

ASSUME AccessGroupAssumption ==
  /\ Tagged \subseteq Servers
  /\ EnvShell \notin Humans /\ UserShell \notin Humans /\ EnvShell # UserShell
  /\ Specs \subseteq [models: SUBSET Models, servers: SUBSET Servers, tag: BOOLEAN,
                      guard: BOOLEAN, teams: SUBSET Humans]
  /\ Specs # {} /\ MaxGen \in Nat \ {0} /\ MaxMoves \in Nat

-----------------------------------------------------------------------------
(* The access group of the Environment: what a PUT does to it, and the     *)
(* pure functions with which the operator decides what to PUT.             *)
(*                                                                         *)
(* LiteLLM keeps the relation between a group and its teams twice: as the  *)
(* group's assigned_team_ids, and mirrored as access_group_ids of each     *)
(* team.  It grants off the mirror, and writes the mirror only of the      *)
(* teams that enter or leave the assigned list.                            *)
(*                                                                         *)
(* A group is [exists, models, servers, teams]; `servers' stands for the   *)
(* ids of the MCP servers and of the A2A agents, which are handled alike.  *)
(* A name and the id it resolves to are one value.                         *)

Teams == Humans \cup {EnvShell, UserShell}

Groups ==
  [exists: BOOLEAN, models: SUBSET Models, servers: SUBSET Servers, teams: SUBSET Teams]

NoGroup == [exists |-> FALSE, models |-> {}, servers |-> {}, teams |-> {}]

Bindings(models, servers, teams) ==
  [exists |-> TRUE, models |-> models, servers |-> servers, teams |-> teams]

(* PUT /v1/access_group/{id}: the lists are replaced, and the mirror of    *)
(* the teams that enter or leave is rewritten.                             *)
MirrorAfter(mirror, old, new) == (mirror \cup (new \ old)) \ (old \ new)

(* The mirror of every team in or out of the wanted list agrees with it.   *)
MirrorDrifted(want, mirror) ==
  \/ \E t \in want : t \notin mirror
  \/ \E t \in mirror : t \notin want

(* The first PUT of a repair: without the wanted teams whose mirror is     *)
(* missing, so that the second PUT makes them enter, and with the unwanted *)
(* ones whose mirror is stale, so that the second PUT makes them leave.    *)
IntermediateEmpty(want, mirror) == {}
Intermediate(want, mirror) == (want \cap mirror) \cup (mirror \ want)

mirrorRepairStep(want, mirror) ==
  [intermediate |-> Intermediate(want, mirror), needed |-> MirrorDrifted(want, mirror)]

computeAccessGroupDriftGroupSide(existing, desired, mirror) ==
  existing # desired
computeAccessGroupDrift(existing, desired, mirror) ==
  \/ existing # desired
  \/ mirrorRepairStep(desired.teams, mirror).needed

(* An id leaves only when LiteLLM lists it and the spec does not want it:  *)
(* a list read while the registry loads is partial and proves nothing.     *)
withoutListedUnwanted(existing, desired, listed) ==
  {id \in existing : id \notin listed \/ id \in desired}

(* What is left of the group while a reference of the spec is unresolved.  *)
ShrunkKeepingTeams(existing, desired, listed) ==
  Bindings(existing.models \cap desired.models,
           withoutListedUnwanted(existing.servers, desired.servers, listed),
           existing.teams)
Shrunk(existing, desired, listed) ==
  Bindings(existing.models \cap desired.models,
           withoutListedUnwanted(existing.servers, desired.servers, listed),
           existing.teams \cap desired.teams)

-----------------------------------------------------------------------------
(* The state *)

VARIABLES
  spec,     \* the Environment: its generation and what it names
  reg,      \* the names LiteLLM's list endpoints answer with
  group,    \* the access group
  mirror,   \* the teams that carry the group in their access_group_ids
  shell,    \* the Environment's shell team
  ushell,   \* the user's shell exists (it is created with the first pk_)
  member,   \* the human teams the user is a member of
  content,  \* every plugin and skill of spec.context is content-present
  honest,   \* LiteLLM writes the mirror of teams that enter or leave
  snap,     \* the operator's snapshot: ever refreshed, and the names in it
  unconv,   \* mirrorUnconverged: the generation whose repair failed, or 0
  pass,     \* the locals of the pass under way
  row,      \* the environments row
  dirty,    \* history: the world moved since the last projected pass began
  moves     \* the moves of the world so far

world == <<spec, reg, ushell, member, content, honest>>
litellm == <<group, mirror, shell>>
vars == <<world, litellm, snap, unconv, pass, row, dirty, moves>>

Names == Models \cup Servers \cup Humans \cup {Guard}

Shells == [exists: BOOLEAN, marked: BOOLEAN, deny: BOOLEAN, guard: BOOLEAN]
NoShell == [exists |-> FALSE, marked |-> FALSE, deny |-> FALSE, guard |-> FALSE]

(* The reasons of AccessGroupSynced.                                       *)
Reasons == {"Synced", "UnresolvedReferences", "ResolveFailed", "ShellTeamFailed",
            "AccessGroupCreateFailed", "AccessGroupUpdateFailed", "MirrorUnconverged"}

EnvSpecs == {[gen |-> g, models |-> s.models, servers |-> s.servers, tag |-> s.tag,
              guard |-> s.guard, teams |-> s.teams] : g \in 1..MaxGen, s \in Specs}

Phases == {"idle", "lists", "teams", "shell", "group", "shrink", "create",
           "put1", "put2", "verify", "project"}

Passes == [pc: Phases, spec: EnvSpecs, exec: BOOLEAN, guardOK: BOOLEAN,
           expanded: SUBSET Servers, listed: SUBSET Servers, authorized: SUBSET Humans,
           mirror: SUBSET Teams, seen: SUBSET {EnvShell, UserShell}, unresolved: BOOLEAN,
           existing: Groups, desired: Groups, repair: BOOLEAN, reason: Reasons]

Idle == [pc |-> "idle", spec |-> CHOOSE e \in EnvSpecs : e.gen = 1, exec |-> FALSE,
         guardOK |-> FALSE, expanded |-> {}, listed |-> {}, authorized |-> {}, mirror |-> {},
         seen |-> {}, unresolved |-> FALSE, existing |-> NoGroup, desired |-> NoGroup,
         repair |-> FALSE, reason |-> "ResolveFailed"]

TypeOK ==
  /\ spec \in EnvSpecs /\ reg \subseteq Names
  /\ group \in Groups /\ mirror \subseteq Teams /\ shell \in Shells
  /\ ushell \in BOOLEAN /\ member \subseteq Humans /\ content \in BOOLEAN /\ honest \in BOOLEAN
  /\ snap \in [ready: BOOLEAN, known: SUBSET Names]
  /\ unconv \in 0..MaxGen
  /\ pass \in Passes
  /\ row \in [available: BOOLEAN, reason: Reasons, gen: 0..MaxGen, servers: SUBSET Servers]
  /\ dirty \in BOOLEAN /\ moves \in 0..MaxMoves

Init ==
  /\ spec \in {e \in EnvSpecs : e.gen = 1}
  /\ reg = Names /\ member = Humans /\ ushell \in BOOLEAN /\ content = TRUE /\ honest \in BOOLEAN
  /\ group = NoGroup /\ mirror = {} /\ shell = NoShell
  /\ snap = [ready |-> FALSE, known |-> {}]
  /\ unconv = 0
  /\ pass = Idle
  /\ row = [available |-> FALSE, reason |-> "ResolveFailed", gen |-> 0, servers |-> {}]
  /\ dirty = TRUE /\ moves = 0

----------------------------------------------------------------------------
(* The snapshot.  A refresh that fails keeps the prior snapshot and only   *)
(* flips Stale, which shortens the requeue: it changes nothing here.       *)

refresh ==
  /\ snap' = [ready |-> TRUE, known |-> reg]
  /\ snap' # snap
  /\ UNCHANGED <<world, litellm, unconv, pass, row, dirty, moves>>

----------------------------------------------------------------------------
(* The pass.                                                               *)

(* What is left to do needs the reason, and forgets what was read.         *)
Ends(reason) ==
  pass' = [Idle EXCEPT !.pc = "project", !.reason = reason, !.spec = pass.spec,
                       !.exec = pass.exec, !.expanded = pass.expanded]

(* A call that answers with an error, counted with the moves of the world. *)
CallFails == moves < MaxMoves /\ moves' = moves + 1 /\ dirty' = TRUE
CallAnswers == UNCHANGED <<moves, dirty>>

expandRuntimeGroups(s, known) ==
  IF s.tag THEN (Tagged \cap known) \ s.servers ELSE {}

runtimeUnresolved(s, known) ==
  (s.models \cup s.servers \cup (IF s.guard THEN {Guard} ELSE {})) \ known

(* Groups are not expanded against a snapshot that was never refreshed.    *)
Reconcile ==
  /\ pass.pc = "idle"
  /\ spec.tag => snap.ready
  /\ pass' = [Idle EXCEPT !.pc = "lists", !.spec = spec,
                          !.exec = runtimeUnresolved(spec, snap.known) = {} /\ content,
                          !.guardOK = spec.guard => Guard \in snap.known,
                          !.expanded = expandRuntimeGroups(spec, snap.known)]
  /\ dirty' = FALSE
  /\ UNCHANGED <<world, litellm, snap, unconv, row, moves>>

(* ListMCPServers, ListA2AAgents.                                          *)
ReadLists ==
  /\ pass.pc = "lists"
  /\ \/ pass' = [pass EXCEPT !.pc = "teams", !.listed = reg \cap Servers] /\ CallAnswers
     \/ Ends("ResolveFailed") /\ CallFails
  /\ UNCHANGED <<world, litellm, snap, unconv, row>>

(* ListAllTeams: the aliases resolved and the mirror, from one answer.     *)
ReadTeams ==
  /\ pass.pc = "teams"
  /\ \/ /\ pass' = [pass EXCEPT
             !.pc = "shell",
             !.authorized = pass.spec.teams \cap reg,
             !.mirror = mirror,
             !.seen = (IF shell.exists THEN {EnvShell} ELSE {})
                        \cup (IF ushell THEN {UserShell} ELSE {}),
             !.unresolved = \/ ~(pass.spec.servers \subseteq pass.listed)
                            \/ ~(pass.spec.teams \subseteq reg)
                            \/ ~pass.guardOK]
        /\ CallAnswers
     \/ Ends("ResolveFailed") /\ CallFails
  /\ UNCHANGED <<world, litellm, snap, unconv, row>>

Foreign(team) == team.exists /\ ~team.marked /\ ~team.deny

(* Marked, deny-all, with the guardrails of the spec.                      *)
ShellFor(s) == [exists |-> TRUE, marked |-> TRUE, deny |-> TRUE, guard |-> s.guard]

(* Only looked up while a reference is unresolved; created when absent;    *)
(* refused when ACH cannot have made it; repaired when drifted or unmarked.*)
ensureShellTeam ==
  /\ pass.pc = "shell"
  /\ \/ pass.unresolved /\ pass' = [pass EXCEPT !.pc = "group"] /\ CallAnswers /\ UNCHANGED shell
     \/ /\ ~pass.unresolved /\ ~Foreign(shell)
        /\ pass' = [pass EXCEPT !.pc = "group", !.seen = @ \cup {EnvShell}]
        /\ shell' = ShellFor(pass.spec) /\ CallAnswers
     \/ ~pass.unresolved /\ Foreign(shell) /\ Ends("ShellTeamFailed") /\ CallAnswers /\ UNCHANGED shell
     \/ /\ ~pass.unresolved /\ ~Foreign(shell) /\ Ends("ShellTeamFailed") /\ CallFails
        /\ shell' \in {shell, ShellFor(pass.spec)}
  /\ UNCHANGED <<world, group, mirror, snap, unconv, row>>

(* The shells of the members of the authorized teams, from GetTeamInfo.    *)
entitledUserShellIDs(authorized, seen) ==
  IF member \cap authorized # {} THEN seen \cap {UserShell} ELSE {}

DesiredBindings(p) ==
  Bindings(p.spec.models,
           (p.spec.servers \cup p.expanded) \cap p.listed,
           p.authorized \cup (p.seen \cap {EnvShell}) \cup entitledUserShellIDs(p.authorized, p.seen))

RepairSuppressedForever(gen) == unconv # 0
RepairSuppressed(gen) == unconv = gen

(* GetTeamInfo of each authorized team, GetAccessGroupByName, and what to  *)
(* do about what was read.  A mirror repair is not tried twice at the same *)
(* generation; a group found in order clears that memory.                  *)
ReadGroup ==
  /\ pass.pc = "group"
  /\ LET desired == DesiredBindings(pass)
         repair == mirrorRepairStep(desired.teams, pass.mirror).needed
         drift == computeAccessGroupDrift(group, desired, pass.mirror)
         inOrder == ~pass.unresolved /\ group.exists /\ ~drift
         suppressed == ~pass.unresolved /\ group.exists /\ repair /\ RepairSuppressed(pass.spec.gen)
         read == [pass EXCEPT !.desired = desired, !.existing = group, !.repair = repair]
     IN \/ /\ pass.unresolved
           /\ pass' = [read EXCEPT !.pc = "shrink"]
           /\ CallAnswers /\ UNCHANGED unconv
        \/ /\ ~pass.unresolved /\ ~group.exists
           /\ pass' = [read EXCEPT !.pc = "create"]
           /\ CallAnswers /\ UNCHANGED unconv
        \/ /\ suppressed
           /\ Ends("MirrorUnconverged")
           /\ CallAnswers /\ UNCHANGED unconv
        \/ /\ ~pass.unresolved /\ group.exists /\ drift /\ ~suppressed
           /\ pass' = [read EXCEPT !.pc = IF repair THEN "put1" ELSE "put2"]
           /\ CallAnswers /\ UNCHANGED unconv
        \/ /\ inOrder
           /\ Ends("Synced")
           /\ CallAnswers /\ unconv' = 0
        \/ /\ Ends("ResolveFailed")
           /\ CallFails /\ UNCHANGED unconv
  /\ UNCHANGED <<world, litellm, snap, row>>

(* PUT /v1/access_group/{id}.                                              *)
Put(g) ==
  /\ group' = g
  /\ mirror' = IF honest THEN MirrorAfter(mirror, group.teams, g.teams) ELSE mirror

(* A write whose answer is an error may have been applied.                 *)
PutFails(g, reason) ==
  /\ Put(g) \/ UNCHANGED <<group, mirror>>
  /\ Ends(reason) /\ CallFails

(* What the spec took away leaves at once, nothing enters.                 *)
shrinkAccessGroup ==
  /\ pass.pc = "shrink"
  /\ LET left == Shrunk(pass.existing, pass.desired, pass.listed)
     IN \/ /\ ~pass.existing.exists \/ left = pass.existing
           /\ Ends("UnresolvedReferences") /\ CallAnswers /\ UNCHANGED <<group, mirror>>
        \/ /\ pass.existing.exists /\ left # pass.existing
           /\ \/ Put(left) /\ Ends("UnresolvedReferences") /\ CallAnswers
              \/ PutFails(left, "AccessGroupUpdateFailed")
  /\ UNCHANGED <<world, shell, snap, unconv, row>>

createAccessGroup ==
  /\ pass.pc = "create"
  /\ \/ Put(pass.desired) /\ Ends("Synced") /\ CallAnswers
     \/ PutFails(pass.desired, "AccessGroupCreateFailed")
  /\ UNCHANGED <<world, shell, snap, unconv, row>>

(* The first PUT of a mirror repair.                                       *)
repairStep1 ==
  /\ pass.pc = "put1"
  /\ LET half == [pass.desired EXCEPT
             !.teams = mirrorRepairStep(pass.desired.teams, pass.mirror).intermediate]
     IN \/ Put(half) /\ pass' = [pass EXCEPT !.pc = "put2"] /\ CallAnswers
        \/ PutFails(half, "AccessGroupUpdateFailed")
  /\ UNCHANGED <<world, shell, snap, unconv, row>>

(* The PUT of the desired state, alone or as the second of a repair.       *)
repairAccessGroup ==
  /\ pass.pc = "put2"
  /\ \/ /\ Put(pass.desired) /\ CallAnswers
        /\ IF pass.repair THEN pass' = [pass EXCEPT !.pc = "verify"] ELSE Ends("Synced")
     \/ PutFails(pass.desired, "AccessGroupUpdateFailed")
  /\ UNCHANGED <<world, shell, snap, unconv, row>>

recordUnconvergedNot(gen) == UNCHANGED unconv
recordUnconvergedNext(gen) == unconv' = gen + 1
recordUnconverged(gen) == unconv' = gen

(* The mirrors are read once more; a repair that did not take is recorded. *)
verifyMirror ==
  /\ pass.pc = "verify"
  /\ \/ /\ MirrorDrifted(pass.desired.teams, mirror)
        /\ Ends("MirrorUnconverged") /\ recordUnconverged(pass.spec.gen) /\ CallAnswers
     \/ /\ ~MirrorDrifted(pass.desired.teams, mirror)
        /\ Ends("Synced") /\ unconv' = 0 /\ CallAnswers
     \/ Ends("ResolveFailed") /\ CallFails /\ UNCHANGED unconv
  /\ UNCHANGED <<world, litellm, snap, row>>

(* computeAvailable over the two required conditions, and the row.  A      *)
(* failed transaction leaves the row and retries the whole pass.           *)
computeAvailable(synced, exec) == synced /\ exec

writeEnvironmentProjection ==
  /\ pass.pc = "project"
  /\ \/ /\ row' = [available |-> computeAvailable(pass.reason = "Synced", pass.exec),
                   reason |-> pass.reason, gen |-> pass.spec.gen,
                   servers |-> pass.spec.servers \cup pass.expanded]
        /\ CallAnswers
     \/ CallFails /\ UNCHANGED row
  /\ pass' = Idle
  /\ UNCHANGED <<world, litellm, snap, unconv>>

PassStep ==
  \/ Reconcile \/ ReadLists \/ ReadTeams \/ ensureShellTeam \/ ReadGroup
  \/ shrinkAccessGroup \/ createAccessGroup \/ repairStep1 \/ repairAccessGroup \/ verifyMirror
  \/ writeEnvironmentProjection

----------------------------------------------------------------------------
(* The rest of the world.                                                  *)

Moves == moves < MaxMoves /\ moves' = moves + 1 /\ dirty' = TRUE

Toggle(set, x) == IF x \in set THEN set \ {x} ELSE set \cup {x}

SpecEdited ==
  /\ Moves
  /\ spec' \in {e \in EnvSpecs : e.gen = spec.gen + 1}
  /\ UNCHANGED <<reg, ushell, member, content, honest, litellm, snap, unconv, pass, row>>

RegistryMoves ==
  /\ Moves
  /\ \E n \in Names : reg' = Toggle(reg, n)
  /\ UNCHANGED <<spec, ushell, member, content, honest, litellm, snap, unconv, pass, row>>

(* A user joins or leaves a team; the first pk_ of a user makes the shell. *)
PeopleMove ==
  /\ Moves
  /\ \/ \E t \in Humans : member' = Toggle(member, t) /\ UNCHANGED ushell
     \/ ~ushell /\ ushell' = TRUE /\ UNCHANGED member
  /\ UNCHANGED <<spec, reg, content, honest, litellm, snap, unconv, pass, row>>

ContentMoves ==
  /\ Moves
  /\ content' = ~content
  /\ UNCHANGED <<spec, reg, ushell, member, honest, litellm, snap, unconv, pass, row>>

(* A save in LiteLLM's UI: a team's groups, the group's lists, the shell.  *)
HandEdit ==
  /\ Moves
  /\ \/ /\ group.exists
        /\ \E t \in Teams : mirror' = Toggle(mirror, t)
        /\ UNCHANGED <<group, shell>>
     \/ /\ group.exists
        /\ \/ \E t \in Teams : group' = [group EXCEPT !.teams = Toggle(@, t)]
           \/ \E s \in Servers : group' = [group EXCEPT !.servers = Toggle(@, s)]
        /\ UNCHANGED <<mirror, shell>>
     \/ /\ shell.exists
        /\ \/ shell' = [shell EXCEPT !.marked = FALSE, !.guard = FALSE]
           \/ shell' = [shell EXCEPT !.deny = FALSE]
           \/ shell' = [shell EXCEPT !.marked = FALSE, !.deny = FALSE, !.guard = FALSE]
        /\ UNCHANGED <<group, mirror>>
  /\ UNCHANGED <<world, snap, unconv, pass, row>>

(* The operator restarts: the pass, the snapshot and mirrorUnconverged go. *)
Restart ==
  /\ Moves
  /\ pass' = Idle /\ snap' = [ready |-> FALSE, known |-> {}] /\ unconv' = 0
  /\ UNCHANGED <<world, litellm, row>>

WorldMoves ==
  SpecEdited \/ RegistryMoves \/ PeopleMove \/ ContentMoves \/ HandEdit \/ Restart

Next == refresh \/ PassStep \/ WorldMoves

Spec == Init /\ [][Next]_vars

----------------------------------------------------------------------------
(* Properties.                                                             *)

(* What the spec and LiteLLM, as they are now, entitle the group to.       *)
WantedTeams ==
  (spec.teams \cap reg) \cup {EnvShell}
    \cup (IF ushell /\ member \cap spec.teams \cap reg # {} THEN {UserShell} ELSE {})

(* Between passes, nothing having moved since the last one began.          *)
Settled == pass.pc = "idle" /\ ~dirty

(* When the row says Available and the world has not moved since, LiteLLM  *)
(* enforces what the spec says: the group binds the spec's models, all its *)
(* servers and no server the row does not list, exactly the wanted teams   *)
(* carry it in their mirror, and the shell team that caps the ek_ keys is  *)
(* marked, deny-all and carries the spec's guardrail (reconcileAccessGroup *)
(* answers Synced on four paths, of which one verifies the mirror).        *)
AvailableMeansGranted ==
  Settled /\ row.available /\ honest =>
    /\ group.exists /\ group.models = spec.models
    /\ spec.servers \subseteq group.servers /\ group.servers \subseteq row.servers
    /\ group.teams = WantedTeams /\ mirror = WantedTeams
    /\ shell = ShellFor(spec)

(* What the spec no longer names is out of the group after a pass that met *)
(* no error, even while another reference is unresolved and nothing may be *)
(* added: no unwanted team is assigned, no unwanted model or listed server *)
(* is bound (shrinkAccessGroup).                                           *)
RemovalsLand ==
  Settled /\ row.reason \in {"Synced", "UnresolvedReferences"} /\ group.exists =>
    /\ group.teams \subseteq WantedTeams
    /\ group.models \subseteq spec.models
    /\ group.servers \cap reg \subseteq row.servers

(* No write of the operator takes away, even between the two PUTs of a     *)
(* repair, what its own spec grants and LiteLLM was seen to grant: a       *)
(* wanted team with a healthy mirror keeps it, and a named server stays    *)
(* bound although a loading registry does not list it.  (A team that       *)
(* somebody assigns between the pass's read of the group and a PUT that    *)
(* shrinks it is overwritten: LiteLLM has no conditional PUT.)             *)
WantedAccessNeverBlinks ==
  [][ moves' = moves /\ pass.pc \in {"shrink", "create", "put1", "put2"} =>
        /\ (pass.pc = "shrink" => group = pass.existing)
             => (pass.desired.teams \cap pass.mirror) \cap mirror \subseteq mirror'
        /\ (pass.spec.servers \cap pass.existing.servers) \cap group.servers
             \subseteq group'.servers ]_vars

(* The operator stops writing: once the world and LiteLLM's failures end,  *)
(* the group is left alone for good, also when LiteLLM ignores the deltas  *)
(* and no repair can work (mirrorUnconverged).                             *)
WritesStop == <>[][group' = group /\ shell' = shell]_vars

(* Something the passes cannot mend.                                       *)
Blocked ==
  \/ ~((spec.servers \cup spec.models \cup spec.teams
         \cup (IF spec.guard THEN {Guard} ELSE {})) \subseteq reg)
  \/ ~content
  \/ Foreign(shell)
  \/ unconv = spec.gen

(* Once the world stops moving the Environment is Available at its current *)
(* generation, unless a reference does not exist, its content never came,  *)
(* its shell alias is taken or the mirror repair failed at this generation.*)
Converged == Blocked \/ (row.available /\ row.gen = spec.gen)
====
