---- MODULE EnvReconcileProofs ----
(***************************************************************************)
(* For every spec, every registry and every number of moves of the world:  *)
(* an Available Environment is granted as its spec says, removals land, and *)
(* no write of the operator takes wanted access away (EnvReconcile).       *)
(*                                                                         *)
(* The three properties look at a pass after it ended.  What makes them    *)
(* true is that, while nothing has moved since the pass began, every local *)
(* of the pass still equals what it was read from; the inductive invariant *)
(* says so phase by phase.                                                 *)
(***************************************************************************)
EXTENDS EnvReconcile, TLAPS

(* The inductive invariant. *)

(* The last pass with this outcome left LiteLLM as the spec says.          *)
Outcome(reason, servers) ==
  /\ reason = "Synced" =>
       /\ group.exists /\ group.models = spec.models
       /\ spec.servers \subseteq group.servers /\ group.servers \subseteq servers
       /\ group.teams = WantedTeams /\ (honest => mirror = WantedTeams)
       /\ shell = ShellFor(spec)
  /\ reason = "UnresolvedReferences" /\ group.exists =>
       /\ group.teams \subseteq WantedTeams
       /\ group.models \subseteq spec.models
       /\ group.servers \cap reg \subseteq servers

Decided == {"shrink", "create", "put1", "put2", "verify"}
HasTeams == {"shell", "group"} \cup Decided
HasLists == {"teams"} \cup HasTeams

(* What the locals of the pass say of each other, whatever else moves.     *)
LocalsAgree ==
  /\ pass.pc \in {"create", "put1", "put2", "verify"} => ~pass.unresolved
  /\ pass.pc \in HasTeams /\ ~pass.unresolved => pass.spec.servers \subseteq pass.listed
  /\ pass.pc \in Decided =>
       /\ pass.desired.exists
       /\ pass.desired.servers = (pass.spec.servers \cup pass.expanded) \cap pass.listed

(* While nothing has moved since the pass began, what it read is current.  *)
ReadsCurrent ==
  /\ pass.pc # "idle" => pass.spec = spec
  /\ pass.pc \in HasLists => pass.listed = reg \cap Servers
  /\ pass.pc \in HasTeams =>
       pass.authorized = spec.teams \cap reg /\ (UserShell \in pass.seen <=> ushell)
  /\ pass.pc \in {"shell", "group", "shrink", "create", "put1"} => pass.mirror = mirror
  /\ pass.pc \in {"group"} \cup Decided /\ ~pass.unresolved =>
       EnvShell \in pass.seen /\ shell = ShellFor(spec)

(* ... and what it decided is what the spec entitles the group to.         *)
DecisionCurrent ==
  /\ pass.pc \in Decided =>
       /\ pass.desired.models = spec.models
       /\ pass.desired.teams \subseteq WantedTeams
       /\ ~pass.unresolved => pass.desired.teams = WantedTeams
  /\ pass.pc \in {"shrink", "create", "put1"} => pass.existing = group
  /\ pass.pc = "create" => ~group.exists
  /\ pass.pc = "put1" => pass.repair
  /\ pass.pc = "put2" /\ pass.repair /\ honest => mirror = group.teams
  /\ pass.pc = "put2" /\ ~pass.repair => mirror = pass.desired.teams
  /\ pass.pc = "verify" => group = pass.desired

(* A group that was never made has no mirror.                              *)
Vacant == ~group.exists => group = NoGroup /\ mirror = {}

Current ==
  /\ ReadsCurrent /\ DecisionCurrent
  /\ pass.pc = "project" => Outcome(pass.reason, pass.spec.servers \cup pass.expanded)
  /\ pass.pc = "idle" => Outcome(row.reason, row.servers)

IInv ==
  /\ TypeOK /\ Vacant /\ LocalsAgree
  /\ row.available => row.reason = "Synced"
  /\ ~dirty => Current

-----------------------------------------------------------------------------
(* The records.                                                            *)

LEMMA SpecFields ==
  ASSUME NEW e \in EnvSpecs
  PROVE  /\ e.gen \in 1..MaxGen /\ e.models \subseteq Models /\ e.servers \subseteq Servers
         /\ e.tag \in BOOLEAN /\ e.guard \in BOOLEAN /\ e.teams \subseteq Humans
<1>1. PICK g \in 1..MaxGen, s \in Specs :
        e = [gen |-> g, models |-> s.models, servers |-> s.servers, tag |-> s.tag,
             guard |-> s.guard, teams |-> s.teams]
      BY DEF EnvSpecs
<1>2. s \in [models: SUBSET Models, servers: SUBSET Servers, tag: BOOLEAN,
             guard: BOOLEAN, teams: SUBSET Humans]
      BY AccessGroupAssumption
<1> QED BY <1>1, <1>2

LEMMA NoGroupIsAGroup == NoGroup \in Groups
BY DEF NoGroup, Groups

LEMMA BindingsAreAGroup ==
  ASSUME NEW m \in SUBSET Models, NEW s \in SUBSET Servers, NEW t \in SUBSET Teams
  PROVE  /\ Bindings(m, s, t) \in Groups /\ Bindings(m, s, t).exists
         /\ Bindings(m, s, t).models = m /\ Bindings(m, s, t).servers = s
         /\ Bindings(m, s, t).teams = t
BY DEF Bindings, Groups

LEMMA IdlePass == Idle \in Passes /\ Idle.pc = "idle"
<1>1. PICK s \in Specs : TRUE
      BY AccessGroupAssumption
<1> DEFINE first == [gen |-> 1, models |-> s.models, servers |-> s.servers, tag |-> s.tag,
                     guard |-> s.guard, teams |-> s.teams]
<1>2. first \in EnvSpecs /\ first.gen = 1
      BY <1>1, AccessGroupAssumption DEF EnvSpecs
<1> DEFINE chosen == CHOOSE e \in EnvSpecs : e.gen = 1
<1>3. chosen \in EnvSpecs
      BY <1>2
<1> HIDE DEF chosen
<1>4. Idle = [pc |-> "idle", spec |-> chosen, exec |-> FALSE,
         guardOK |-> FALSE, expanded |-> {}, listed |-> {}, authorized |-> {}, mirror |-> {},
         seen |-> {}, unresolved |-> FALSE, existing |-> NoGroup, desired |-> NoGroup,
         repair |-> FALSE, reason |-> "ResolveFailed"]
      BY DEF Idle, chosen
<1> QED BY <1>3, <1>4, NoGroupIsAGroup DEF Passes, Phases, Reasons

(* The locals of a pass that goes on to its projection.                    *)
LEMMA Ended ==
  ASSUME pass \in Passes, NEW r \in Reasons, Ends(r)
  PROVE  /\ pass' \in Passes /\ pass'.pc = "project" /\ pass'.reason = r
         /\ pass'.spec = pass.spec /\ pass'.expanded = pass.expanded
BY Zenon, IdlePass DEF Ends, Passes, Phases

LEMMA PassFields ==
  ASSUME NEW p \in Passes
  PROVE  /\ p.pc \in Phases /\ p.spec \in EnvSpecs /\ p.expanded \subseteq Servers
         /\ p.listed \subseteq Servers /\ p.authorized \subseteq Humans
         /\ p.mirror \subseteq Teams /\ p.seen \subseteq {EnvShell, UserShell}
         /\ p.unresolved \in BOOLEAN /\ p.existing \in Groups /\ p.desired \in Groups
         /\ p.repair \in BOOLEAN /\ p.reason \in Reasons
BY DEF Passes

LEMMA GroupFields ==
  ASSUME NEW g \in Groups
  PROVE  /\ g.exists \in BOOLEAN /\ g.models \subseteq Models /\ g.servers \subseteq Servers
         /\ g.teams \subseteq Teams
BY DEF Groups

(* Two groups with the same fields are one group.                          *)
LEMMA SameGroup ==
  ASSUME NEW g \in Groups, NEW k \in Groups, g.exists = k.exists, g.models = k.models,
         g.servers = k.servers, g.teams = k.teams
  PROVE  g = k
BY DEF Groups

(* The mirror.                                                             *)
LEMMA NoDrift ==
  ASSUME NEW want, NEW has, ~MirrorDrifted(want, has)
  PROVE  want = has
BY DEF MirrorDrifted

(* The first list of a repair is the mirror itself: nobody enters, nobody  *)
(* leaves whose mirror would have to change.                               *)
LEMMA HalfIsTheMirror ==
  ASSUME NEW want, NEW has
  PROVE  mirrorRepairStep(want, has).intermediate = has
<1>1. (want \cap has) \cup (has \ want) = has
      OBVIOUS
<1> QED BY <1>1 DEF mirrorRepairStep, Intermediate

LEMMA MirrorFollows ==
  ASSUME NEW new, NEW old
  PROVE  MirrorAfter(old, old, new) = new /\ MirrorAfter(new, old, new) = new
BY DEF MirrorAfter

LEMMA MirrorType ==
  ASSUME NEW m \in SUBSET Teams, NEW new \in SUBSET Teams, NEW old
  PROVE  MirrorAfter(m, old, new) \subseteq Teams
BY DEF MirrorAfter

LEMMA PutType ==
  ASSUME TypeOK, NEW g \in Groups, Put(g)
  PROVE  group' \in Groups /\ mirror' \subseteq Teams
BY GroupFields, MirrorType DEF Put, TypeOK

(* What a pass decides is a group.                                         *)
LEMMA DesiredIsAGroup ==
  ASSUME NEW p \in Passes
  PROVE  /\ DesiredBindings(p) \in Groups /\ DesiredBindings(p).exists
         /\ DesiredBindings(p).models = p.spec.models
         /\ DesiredBindings(p).servers = (p.spec.servers \cup p.expanded) \cap p.listed
         /\ DesiredBindings(p).teams = p.authorized \cup (p.seen \cap {EnvShell})
                                         \cup entitledUserShellIDs(p.authorized, p.seen)
<1>1. p.spec.models \subseteq Models /\ (p.spec.servers \cup p.expanded) \cap p.listed \subseteq Servers
      BY PassFields, SpecFields
<1>2. p.authorized \cup (p.seen \cap {EnvShell}) \cup entitledUserShellIDs(p.authorized, p.seen)
        \subseteq Teams
      BY PassFields DEF Teams, entitledUserShellIDs
<1> QED BY <1>1, <1>2, BindingsAreAGroup DEF DesiredBindings

-----------------------------------------------------------------------------
(* The steps of a pass.                                                    *)

LEMMA CallType ==
  ASSUME TypeOK, CallFails \/ CallAnswers
  PROVE  moves' \in 0..MaxMoves /\ dirty' \in BOOLEAN
<1>1. MaxMoves \in Nat
      BY AccessGroupAssumption
<1>2. moves \in 0..MaxMoves /\ dirty \in BOOLEAN
      BY DEF TypeOK
<1>3. moves' \in 0..MaxMoves
      BY <1>1, <1>2 DEF CallFails, CallAnswers
<1>4. dirty' \in BOOLEAN
      BY Zenon, <1>2 DEF CallFails, CallAnswers
<1> QED BY <1>3, <1>4

(* A pass that ends, by an error or with its outcome.                      *)
LEMMA EndsRight ==
  ASSUME IInv, NEW r \in Reasons, Ends(r), pass.pc # "idle", UNCHANGED spec,
         \/ CallFails
         \/ /\ CallAnswers
            /\ ~dirty => Outcome(pass.reason, pass.spec.servers \cup pass.expanded)'
  PROVE  LocalsAgree' /\ (~dirty' => Current')
<1>1. /\ pass' \in Passes /\ pass'.pc = "project" /\ pass'.spec = pass.spec
      BY Ended DEF IInv, TypeOK
<1>2. LocalsAgree'
      BY <1>1 DEF LocalsAgree, HasTeams, Decided
<1>3. ASSUME ~dirty' PROVE Current'
  <2>1. ~dirty /\ CallAnswers
        BY <1>3 DEF CallFails, CallAnswers
  <2>2. ReadsCurrent' /\ DecisionCurrent'
        BY <1>1, <2>1 DEF IInv, Current, ReadsCurrent, DecisionCurrent, HasLists, HasTeams, Decided
  <2>3. Outcome(pass.reason, pass.spec.servers \cup pass.expanded)'
        BY <1>3, <2>1 DEF CallFails
  <2> QED BY <1>1, <2>2, <2>3 DEF Current
<1> QED BY <1>2, <1>3

LEMMA ReconcileStep == IInv /\ Reconcile => IInv'
<1> SUFFICES ASSUME IInv, Reconcile PROVE IInv'
    OBVIOUS
<1> DEFINE exp == expandRuntimeGroups(spec, snap.known)
<1>1. exp \subseteq Servers
      BY AccessGroupAssumption DEF expandRuntimeGroups
<1>2. spec \in EnvSpecs
      BY DEF IInv, TypeOK
<1> HIDE DEF exp
<1>3. pass' \in Passes /\ pass'.pc = "lists" /\ pass'.spec = spec
  <2>1. pass' = [Idle EXCEPT !.pc = "lists", !.spec = spec,
                          !.exec = runtimeUnresolved(spec, snap.known) = {} /\ content,
                          !.guardOK = spec.guard => Guard \in snap.known,
                          !.expanded = exp]
        BY DEF Reconcile, exp
  <2>2. (runtimeUnresolved(spec, snap.known) = {} /\ content) \in BOOLEAN
        /\ (spec.guard => Guard \in snap.known) \in BOOLEAN
        OBVIOUS
  <2> QED BY ZenonT(60), <1>1, <1>2, <2>1, <2>2, IdlePass DEF Passes, Phases
<1>4. TypeOK'
      BY Zenon, <1>3 DEF IInv, TypeOK, Reconcile, world, litellm
<1>5. Vacant' /\ (row.available => row.reason = "Synced")'
      BY DEF IInv, Vacant, Reconcile, litellm
<1>6. LocalsAgree' /\ Current'
      BY <1>3 DEF LocalsAgree, Current, ReadsCurrent, DecisionCurrent, HasLists, HasTeams, Decided,
           Reconcile, world
<1> QED BY <1>4, <1>5, <1>6 DEF IInv

LEMMA ReadListsStep == IInv /\ ReadLists => IInv'
<1> SUFFICES ASSUME IInv, ReadLists PROVE IInv'
    OBVIOUS
<1>1. TypeOK /\ pass \in Passes /\ pass.pc = "lists"
      BY DEF IInv, TypeOK, ReadLists
<1>2. Vacant' /\ (row.available => row.reason = "Synced")'
      BY DEF IInv, Vacant, ReadLists, litellm
<1>3. CASE pass' = [pass EXCEPT !.pc = "teams", !.listed = reg \cap Servers] /\ CallAnswers
  <2>1. /\ pass' \in Passes /\ pass'.pc = "teams" /\ pass'.spec = pass.spec
        /\ pass'.listed = reg \cap Servers
        BY Zenon, <1>1, <1>3 DEF Passes, Phases
  <2>2. TypeOK'
        BY <1>1, <1>3, <2>1, CallType DEF TypeOK, ReadLists, world, litellm
  <2>3. LocalsAgree' /\ (~dirty' => Current')
        BY <1>1, <1>3, <2>1 DEF IInv, LocalsAgree, Current, ReadsCurrent, DecisionCurrent, HasLists,
             HasTeams, Decided, ReadLists, world, CallAnswers
  <2> QED BY <1>2, <2>2, <2>3 DEF IInv
<1>4. CASE Ends("ResolveFailed") /\ CallFails
  <2>1. "ResolveFailed" \in Reasons
        BY DEF Reasons
  <2>2. TypeOK'
        BY <1>1, <1>4, <2>1, Ended, CallType DEF TypeOK, ReadLists, world, litellm
  <2>3. LocalsAgree' /\ (~dirty' => Current')
        BY <1>1, <1>4, <2>1, EndsRight DEF ReadLists, world
  <2> QED BY <1>2, <2>2, <2>3 DEF IInv
<1> QED BY <1>3, <1>4 DEF ReadLists

LEMMA ReadTeamsStep == IInv /\ ReadTeams => IInv'
<1> SUFFICES ASSUME IInv, ReadTeams PROVE IInv'
    OBVIOUS
<1>1. TypeOK /\ pass \in Passes /\ pass.pc = "teams" /\ pass.spec.teams \subseteq Humans
      BY PassFields, SpecFields DEF IInv, TypeOK, ReadTeams
<1>2. Vacant' /\ (row.available => row.reason = "Synced")'
      BY DEF IInv, Vacant, ReadTeams, litellm
<1> DEFINE see == (IF shell.exists THEN {EnvShell} ELSE {}) \cup (IF ushell THEN {UserShell} ELSE {})
           open == \/ ~(pass.spec.servers \subseteq pass.listed)
                   \/ ~(pass.spec.teams \subseteq reg)
                   \/ ~pass.guardOK
           auth == pass.spec.teams \cap reg
<1>3. CASE /\ pass' = [pass EXCEPT !.pc = "shell", !.authorized = auth, !.mirror = mirror,
                                   !.seen = see, !.unresolved = open]
           /\ CallAnswers
  <2>1. /\ see \subseteq {EnvShell, UserShell} /\ (UserShell \in see <=> ushell)
        /\ open \in BOOLEAN /\ auth \subseteq Humans /\ mirror \subseteq Teams
        /\ ~open => pass.spec.servers \subseteq pass.listed
        BY <1>1, AccessGroupAssumption DEF TypeOK
  <2> HIDE DEF see, open, auth
  <2>2. /\ pass' \in Passes /\ pass'.pc = "shell" /\ pass'.spec = pass.spec
        /\ pass'.listed = pass.listed /\ pass'.authorized = auth /\ pass'.mirror = mirror
        /\ pass'.seen = see /\ pass'.unresolved = open
        BY Zenon, <1>1, <1>3, <2>1 DEF Passes, Phases
  <2>3. TypeOK'
        BY <1>1, <1>3, <2>2, CallType DEF TypeOK, ReadTeams, world, litellm
  <2>4. LocalsAgree'
        BY <2>1, <2>2 DEF LocalsAgree, HasTeams, Decided
  <2>5. ASSUME ~dirty' PROVE Current'
        BY <1>1, <1>3, <2>1, <2>2, <2>5 DEF IInv, Current, ReadsCurrent, DecisionCurrent, HasLists,
             HasTeams, Decided, ReadTeams, world, litellm, CallAnswers, auth
  <2> QED BY <1>2, <2>3, <2>4, <2>5 DEF IInv
<1>4. CASE Ends("ResolveFailed") /\ CallFails
  <2>1. "ResolveFailed" \in Reasons
        BY DEF Reasons
  <2>2. TypeOK'
        BY <1>1, <1>4, <2>1, Ended, CallType DEF TypeOK, ReadTeams, world, litellm
  <2>3. LocalsAgree' /\ (~dirty' => Current')
        BY <1>1, <1>4, <2>1, EndsRight DEF ReadTeams, world
  <2> QED BY <1>2, <2>2, <2>3 DEF IInv
<1> QED BY <1>3, <1>4 DEF ReadTeams

LEMMA ShellStep == IInv /\ ensureShellTeam => IInv'
<1> SUFFICES ASSUME IInv, ensureShellTeam PROVE IInv'
    OBVIOUS
<1>1. TypeOK /\ pass \in Passes /\ pass.pc = "shell" /\ pass.seen \subseteq {EnvShell, UserShell}
      BY PassFields DEF IInv, TypeOK, ensureShellTeam
<1>2. Vacant' /\ (row.available => row.reason = "Synced")' /\ UNCHANGED <<world, row>>
      BY DEF IInv, Vacant, ensureShellTeam
<1>3. ShellFor(pass.spec) \in Shells
      BY <1>1, PassFields, SpecFields DEF ShellFor, Shells
<1>4. CASE pass.unresolved /\ pass' = [pass EXCEPT !.pc = "group"] /\ CallAnswers /\ UNCHANGED shell
  <2>1. /\ pass' \in Passes /\ pass'.pc = "group" /\ pass'.spec = pass.spec
        /\ pass'.listed = pass.listed /\ pass'.authorized = pass.authorized
        /\ pass'.mirror = pass.mirror /\ pass'.seen = pass.seen /\ pass'.unresolved = pass.unresolved
        BY Zenon, <1>1, <1>4 DEF Passes, Phases
  <2>2. TypeOK'
        BY <1>1, <1>4, <2>1, CallType DEF TypeOK, ensureShellTeam, world
  <2>3. LocalsAgree'
        BY <1>1, <1>4, <2>1 DEF IInv, LocalsAgree, HasTeams, Decided
  <2>4. ASSUME ~dirty' PROVE Current'
        BY <1>1, <1>4, <2>1, <2>4 DEF IInv, Current, ReadsCurrent, DecisionCurrent, HasLists,
             HasTeams, Decided, ensureShellTeam, world, CallAnswers
  <2> QED BY <1>2, <2>2, <2>3, <2>4 DEF IInv
<1>5. CASE /\ ~pass.unresolved
           /\ pass' = [pass EXCEPT !.pc = "group", !.seen = @ \cup {EnvShell}]
           /\ shell' = ShellFor(pass.spec) /\ CallAnswers
  <2>1. /\ pass' \in Passes /\ pass'.pc = "group" /\ pass'.spec = pass.spec
        /\ pass'.listed = pass.listed /\ pass'.authorized = pass.authorized
        /\ pass'.mirror = pass.mirror /\ pass'.seen = pass.seen \cup {EnvShell}
        /\ pass'.unresolved = pass.unresolved
        BY Zenon, <1>1, <1>5 DEF Passes, Phases
  <2>2. TypeOK'
        BY <1>1, <1>3, <1>5, <2>1, CallType DEF TypeOK, ensureShellTeam, world
  <2>3. LocalsAgree'
        BY <1>1, <1>5, <2>1 DEF IInv, LocalsAgree, HasTeams, Decided
  <2>4. ASSUME ~dirty' PROVE Current'
    <3>1. UserShell \in pass'.seen <=> UserShell \in pass.seen
          BY <2>1, AccessGroupAssumption
    <3> QED BY <1>1, <1>5, <2>1, <2>4, <3>1 DEF IInv, Current, ReadsCurrent, DecisionCurrent, HasLists,
             HasTeams, Decided, ensureShellTeam, world, CallAnswers
  <2> QED BY <1>2, <2>2, <2>3, <2>4 DEF IInv
<1>6. CASE Ends("ShellTeamFailed") /\ (CallAnswers \/ CallFails) /\ shell' \in {shell, ShellFor(pass.spec)}
  <2>1. "ShellTeamFailed" \in Reasons /\ "ShellTeamFailed" \notin {"Synced", "UnresolvedReferences"}
        BY DEF Reasons
  <2>2. pass' \in Passes /\ pass'.reason = "ShellTeamFailed"
        BY <1>1, <1>6, <2>1, Ended
  <2>3. TypeOK'
        BY <1>1, <1>3, <1>6, <2>2, CallType DEF TypeOK, ensureShellTeam, world
  <2>4. Outcome(pass.reason, pass.spec.servers \cup pass.expanded)'
        BY <2>1, <2>2 DEF Outcome
  <2>5. LocalsAgree' /\ (~dirty' => Current')
        BY <1>1, <1>2, <1>6, <2>1, <2>4, EndsRight DEF world
  <2> QED BY <1>2, <2>3, <2>5 DEF IInv
<1> QED BY <1>4, <1>5, <1>6 DEF ensureShellTeam

(* What the pass wants is what the spec entitles the group to, and all of  *)
(* it once the shell team is there.                                        *)
LEMMA DecidesRight ==
  ASSUME IInv, pass.pc = "group", ~dirty
  PROVE  /\ DesiredBindings(pass).models = spec.models
         /\ DesiredBindings(pass).teams \subseteq WantedTeams
         /\ ~pass.unresolved => DesiredBindings(pass).teams = WantedTeams
<1>1. /\ pass \in Passes /\ pass.spec = spec /\ pass.authorized = spec.teams \cap reg
      /\ UserShell \in pass.seen <=> ushell
      /\ ~pass.unresolved => EnvShell \in pass.seen
      BY DEF IInv, TypeOK, Current, ReadsCurrent, HasTeams, Decided
<1>2. entitledUserShellIDs(pass.authorized, pass.seen)
        = IF ushell /\ member \cap spec.teams \cap reg # {} THEN {UserShell} ELSE {}
  <2>1. member \cap pass.authorized = member \cap spec.teams \cap reg
        BY <1>1
  <2>2. pass.seen \cap {UserShell} = IF ushell THEN {UserShell} ELSE {}
        BY <1>1
  <2> QED BY <2>1, <2>2 DEF entitledUserShellIDs
<1> QED BY Zenon, <1>1, <1>2, DesiredIsAGroup DEF WantedTeams

LEMMA ReadGroupStep == IInv /\ ReadGroup => IInv'
<1> SUFFICES ASSUME IInv, ReadGroup PROVE IInv'
    OBVIOUS
<1>1. TypeOK /\ pass \in Passes /\ pass.pc = "group" /\ UNCHANGED <<world, litellm, snap, row>>
      BY DEF IInv, TypeOK, ReadGroup
<1>2. Vacant' /\ (row.available => row.reason = "Synced")'
      BY <1>1 DEF IInv, Vacant, litellm
<1> DEFINE desired == DesiredBindings(pass)
           repair == mirrorRepairStep(desired.teams, pass.mirror).needed
           drift == computeAccessGroupDrift(group, desired, pass.mirror)
           read(pc) == [[pass EXCEPT !.desired = desired, !.existing = group, !.repair = repair]
                          EXCEPT !.pc = pc]
<1>3. desired \in Groups /\ desired.exists
      /\ desired.servers = (pass.spec.servers \cup pass.expanded) \cap pass.listed
      BY <1>1, DesiredIsAGroup
<1>4. repair \in BOOLEAN /\ (repair <=> MirrorDrifted(desired.teams, pass.mirror))
      BY DEF mirrorRepairStep, MirrorDrifted
<1>5. ~drift => group = desired /\ ~repair
      BY DEF computeAccessGroupDrift
<1>6. ~dirty => /\ desired.models = spec.models /\ desired.teams \subseteq WantedTeams
                /\ ~pass.unresolved => desired.teams = WantedTeams
      BY <1>1, DecidesRight
<1>7. /\ ~pass.unresolved => pass.spec.servers \subseteq pass.listed
      /\ ~dirty => /\ pass.spec = spec /\ pass.listed = reg \cap Servers /\ pass.mirror = mirror
                   /\ pass.authorized = spec.teams \cap reg /\ (UserShell \in pass.seen <=> ushell)
                   /\ ~pass.unresolved => EnvShell \in pass.seen /\ shell = ShellFor(spec)
      BY <1>1 DEF IInv, LocalsAgree, Current, ReadsCurrent, HasLists, HasTeams, Decided
<1>8. WantedTeams' = WantedTeams
      BY <1>1 DEF WantedTeams, world
<1> HIDE DEF desired, repair, drift
<1>9. ASSUME NEW pc \in {"shrink", "create", "put1", "put2"}, pass' = read(pc), CallAnswers,
             UNCHANGED unconv, pc # "shrink" => ~pass.unresolved, pc = "create" => ~group.exists,
             pc = "put2" => ~repair, pc = "put1" => repair
      PROVE  IInv'
  <2>1. /\ pass' \in Passes /\ pass'.pc = pc /\ pass'.spec = pass.spec /\ pass'.expanded = pass.expanded
        /\ pass'.listed = pass.listed /\ pass'.authorized = pass.authorized
        /\ pass'.mirror = pass.mirror /\ pass'.seen = pass.seen /\ pass'.unresolved = pass.unresolved
        /\ pass'.desired = desired /\ pass'.existing = group /\ pass'.repair = repair
        BY Zenon, <1>1, <1>3, <1>4, <1>9 DEF Passes, Phases, TypeOK
  <2>2. TypeOK'
        BY <1>1, <1>9, <2>1, CallType DEF TypeOK, world, litellm
  <2>3. LocalsAgree'
        BY <1>3, <1>7, <1>9, <2>1 DEF LocalsAgree, HasTeams, Decided
  <2>4. ASSUME ~dirty' PROVE Current'
    <3>1. ~dirty
          BY <1>9, <2>4 DEF CallAnswers
    <3>2. ReadsCurrent'
          BY <1>1, <1>7, <1>9, <2>1, <3>1 DEF ReadsCurrent, HasLists, HasTeams, Decided, world, litellm
    <3>3. pc = "put2" => mirror = desired.teams
          BY <1>4, <1>7, <1>9, <3>1, NoDrift
    <3>4. DecisionCurrent'
          BY <1>1, <1>3, <1>6, <1>8, <1>9, <2>1, <3>1, <3>3 DEF DecisionCurrent, Decided, world, litellm
    <3> QED BY <1>9, <2>1, <3>2, <3>4 DEF Current
  <2> QED BY <1>2, <2>2, <2>3, <2>4 DEF IInv
<1>10. ASSUME NEW r \in {"MirrorUnconverged", "Synced", "ResolveFailed"}, Ends(r),
              CallAnswers \/ CallFails, unconv' \in {unconv, 0},
              r = "Synced" => ~pass.unresolved /\ ~drift
       PROVE  IInv'
  <2>1. r \in Reasons /\ r # "UnresolvedReferences"
        BY <1>10 DEF Reasons
  <2>2. /\ pass' \in Passes /\ pass'.reason = r /\ pass'.spec = pass.spec
        /\ pass'.expanded = pass.expanded
        BY <1>1, <1>10, <2>1, Ended
  <2>3. TypeOK'
        BY <1>1, <1>10, <2>2, CallType, AccessGroupAssumption DEF TypeOK, world, litellm
  <2>4. ASSUME ~dirty PROVE Outcome(pass.reason, pass.spec.servers \cup pass.expanded)'
    <3>1. CASE r = "Synced"
      <4>1. group = desired /\ mirror = desired.teams /\ ~pass.unresolved
            BY <1>4, <1>5, <1>7, <1>10, <2>4, <3>1, NoDrift
      <4>2. /\ group.exists /\ group.models = spec.models /\ group.teams = WantedTeams
            /\ mirror = WantedTeams /\ shell = ShellFor(spec)
            BY <1>3, <1>6, <1>7, <2>4, <4>1
      <4>3. spec.servers \subseteq group.servers
            /\ group.servers \subseteq pass.spec.servers \cup pass.expanded
            BY <1>3, <1>7, <2>4, <4>1
      <4> QED BY <1>1, <1>8, <2>1, <2>2, <4>2, <4>3 DEF Outcome, world, litellm, ShellFor
    <3>2. CASE r # "Synced"
          BY <2>1, <2>2, <3>2 DEF Outcome
    <3> QED BY <3>1, <3>2
  <2>5. LocalsAgree' /\ (~dirty' => Current')
        BY <1>1, <1>10, <2>1, <2>4, EndsRight DEF world
  <2> QED BY <1>2, <2>3, <2>5 DEF IInv
<1>11. CASE pass.unresolved /\ pass' = read("shrink") /\ CallAnswers /\ UNCHANGED unconv
       BY <1>9, <1>11
<1>12. CASE ~pass.unresolved /\ ~group.exists /\ pass' = read("create") /\ CallAnswers /\ UNCHANGED unconv
       BY <1>9, <1>12
<1>13. CASE /\ ~pass.unresolved /\ pass' = read(IF repair THEN "put1" ELSE "put2")
            /\ CallAnswers /\ UNCHANGED unconv
       BY Zenon, <1>9, <1>13
<1>14. CASE Ends("MirrorUnconverged") /\ CallAnswers /\ UNCHANGED unconv
       BY <1>10, <1>14
<1>15. CASE ~pass.unresolved /\ ~drift /\ Ends("Synced") /\ CallAnswers /\ unconv' = 0
       BY <1>10, <1>15
<1>16. CASE Ends("ResolveFailed") /\ CallFails /\ UNCHANGED unconv
       BY <1>10, <1>16
<1> QED BY <1>11, <1>12, <1>13, <1>14, <1>15, <1>16 DEF ReadGroup, desired, repair, drift

-----------------------------------------------------------------------------
(* The writes.                                                             *)

(* A write that fails, applied or not, ends the pass.                      *)
LEMMA PutFailsStep ==
  ASSUME IInv, NEW g \in Groups, g.exists, pass.pc # "idle",
         NEW r \in {"AccessGroupUpdateFailed", "AccessGroupCreateFailed"}, PutFails(g, r),
         UNCHANGED <<world, shell, snap, unconv, row>>
  PROVE  IInv'
<1>1. TypeOK /\ pass \in Passes /\ r \in Reasons /\ Ends(r) /\ CallFails
      BY DEF IInv, TypeOK, Reasons, PutFails
<1>2. group' \in Groups /\ mirror' \subseteq Teams /\ Vacant'
  <2>1. CASE Put(g)
        BY <1>1, <2>1, PutType DEF Put, Vacant
  <2>2. CASE UNCHANGED <<group, mirror>>
        BY <1>1, <2>2 DEF IInv, TypeOK, Vacant
  <2> QED BY <2>1, <2>2 DEF PutFails
<1>3. TypeOK'
      BY <1>1, <1>2, Ended, CallType DEF TypeOK, world
<1>4. LocalsAgree' /\ (~dirty' => Current')
      BY <1>1, EndsRight DEF world
<1> QED BY <1>2, <1>3, <1>4 DEF IInv

(* A write that lands and is the pass's last.                              *)
LEMMA PutEnds ==
  ASSUME IInv, NEW g \in Groups, g.exists, pass.pc # "idle",
         NEW r \in {"Synced", "UnresolvedReferences"}, Put(g), Ends(r), CallAnswers,
         UNCHANGED <<world, shell, snap, unconv, row>>,
         ~dirty => Outcome(pass.reason, pass.spec.servers \cup pass.expanded)'
  PROVE  IInv'
<1>1. TypeOK /\ pass \in Passes /\ r \in Reasons
      BY DEF IInv, TypeOK, Reasons
<1>2. group' \in Groups /\ mirror' \subseteq Teams /\ Vacant'
      BY <1>1, PutType DEF Put, Vacant
<1>3. TypeOK'
      BY <1>1, <1>2, Ended, CallType DEF TypeOK, world
<1>4. LocalsAgree' /\ (~dirty' => Current')
      BY <1>1, EndsRight DEF world
<1> QED BY <1>2, <1>3, <1>4 DEF IInv

LEMMA ShrinkStep == IInv /\ shrinkAccessGroup => IInv'
<1> SUFFICES ASSUME IInv, shrinkAccessGroup PROVE IInv'
    OBVIOUS
<1> DEFINE left == Shrunk(pass.existing, pass.desired, pass.listed)
<1>1. /\ TypeOK /\ pass \in Passes /\ pass.pc = "shrink"
      /\ UNCHANGED <<world, shell, snap, unconv, row>>
      BY DEF IInv, TypeOK, shrinkAccessGroup
<1>2. /\ pass.existing \in Groups /\ pass.desired \in Groups /\ pass.existing.models \subseteq Models
      /\ pass.existing.servers \subseteq Servers /\ pass.existing.teams \subseteq Teams
      BY <1>1, PassFields, GroupFields
<1>3. /\ left \in Groups /\ left.exists
      /\ left.models = pass.existing.models \cap pass.desired.models
      /\ left.teams = pass.existing.teams \cap pass.desired.teams
      /\ left.servers = {id \in pass.existing.servers : id \notin pass.listed \/ id \in pass.desired.servers}
  <2> DEFINE m == pass.existing.models \cap pass.desired.models
             t == pass.existing.teams \cap pass.desired.teams
             v == withoutListedUnwanted(pass.existing.servers, pass.desired.servers, pass.listed)
  <2>1. m \in SUBSET Models /\ t \in SUBSET Teams
        BY <1>2
  <2>2. v = {id \in pass.existing.servers : id \notin pass.listed \/ id \in pass.desired.servers}
        BY DEF withoutListedUnwanted
  <2>3. v \in SUBSET Servers
        BY <1>2, <2>2
  <2>4. left = Bindings(m, v, t)
        BY DEF Shrunk
  <2> HIDE DEF m, t, v, left
  <2>5. left \in Groups /\ left.exists /\ left.models = m /\ left.servers = v /\ left.teams = t
        BY <2>1, <2>3, <2>4, BindingsAreAGroup
  <2> QED BY <2>2, <2>5 DEF m, t
<1> HIDE DEF left
<1>4. pass.desired.servers \subseteq pass.spec.servers \cup pass.expanded
      BY <1>1 DEF IInv, LocalsAgree, Decided
<1>5. ~dirty => /\ pass.existing = group /\ pass.desired.models = spec.models
                /\ pass.desired.teams \subseteq WantedTeams /\ pass.listed = reg \cap Servers
      BY <1>1 DEF IInv, Current, ReadsCurrent, DecisionCurrent, HasLists, HasTeams, Decided
(* Whatever the group is after the step, it is within what is left.        *)
<1>6. ASSUME Ends("UnresolvedReferences"), ~dirty, group'.exists => group' = left
      PROVE  Outcome(pass.reason, pass.spec.servers \cup pass.expanded)'
  <2>1. /\ pass'.reason = "UnresolvedReferences" /\ pass'.spec = pass.spec
        /\ pass'.expanded = pass.expanded
        BY <1>1, <1>6, Ended DEF Reasons
  <2>2. WantedTeams' = WantedTeams
        BY <1>1 DEF WantedTeams, world
  <2>3. left.servers \cap reg \subseteq pass.spec.servers \cup pass.expanded
        BY <1>2, <1>3, <1>4, <1>5, <1>6
  <2>4. left.teams \subseteq WantedTeams /\ left.models \subseteq spec.models
        BY <1>3, <1>5, <1>6
  <2> QED BY <1>1, <1>6, <2>1, <2>2, <2>3, <2>4 DEF Outcome, world
<1>7. CASE /\ ~pass.existing.exists \/ left = pass.existing
           /\ Ends("UnresolvedReferences") /\ CallAnswers /\ UNCHANGED <<group, mirror>>
  <2>1. ~dirty => Outcome(pass.reason, pass.spec.servers \cup pass.expanded)'
        BY <1>5, <1>6, <1>7
  <2>2. "UnresolvedReferences" \in Reasons
        BY DEF Reasons
  <2>3. TypeOK' /\ Vacant'
        BY <1>1, <1>7, <2>2, Ended, CallType DEF IInv, TypeOK, Vacant, world
  <2>4. LocalsAgree' /\ (~dirty' => Current')
        BY <1>1, <1>7, <2>1, <2>2, EndsRight DEF world
  <2> QED BY <1>1, <2>3, <2>4 DEF IInv
<1>8. CASE Put(left) /\ Ends("UnresolvedReferences") /\ CallAnswers
  <2>1. ~dirty => Outcome(pass.reason, pass.spec.servers \cup pass.expanded)'
        BY <1>6, <1>8 DEF Put
  <2> QED BY <1>1, <1>3, <1>8, <2>1, PutEnds
<1>9. CASE PutFails(left, "AccessGroupUpdateFailed")
      BY <1>1, <1>3, <1>9, PutFailsStep
<1> QED BY <1>7, <1>8, <1>9 DEF shrinkAccessGroup, left

(* The last write of a pass that is Synced.                                *)
LEMMA SyncedRight ==
  ASSUME IInv, pass.pc \in Decided, ~pass.unresolved, ~dirty, Ends("Synced"),
         UNCHANGED <<world, shell>>, group' = pass.desired, honest => mirror' = pass.desired.teams
  PROVE  Outcome(pass.reason, pass.spec.servers \cup pass.expanded)'
<1>1. /\ pass'.reason = "Synced" /\ pass'.spec = pass.spec /\ pass'.expanded = pass.expanded
      BY Ended DEF IInv, TypeOK, Reasons
<1>2. /\ pass.spec = spec /\ shell = ShellFor(spec) /\ pass.spec.servers \subseteq pass.listed
      /\ pass.desired.exists /\ pass.desired.models = spec.models /\ pass.desired.teams = WantedTeams
      /\ pass.desired.servers = (pass.spec.servers \cup pass.expanded) \cap pass.listed
      BY DEF IInv, LocalsAgree, Current, ReadsCurrent, DecisionCurrent, HasTeams, Decided
<1>3. WantedTeams' = WantedTeams
      BY DEF WantedTeams, world
<1> QED BY <1>1, <1>2, <1>3 DEF Outcome, world, ShellFor

LEMMA CreateStep == IInv /\ createAccessGroup => IInv'
<1> SUFFICES ASSUME IInv, createAccessGroup PROVE IInv'
    OBVIOUS
<1>1. /\ TypeOK /\ pass \in Passes /\ pass.pc = "create" /\ pass.desired \in Groups
      /\ UNCHANGED <<world, shell, snap, unconv, row>>
      BY PassFields DEF IInv, TypeOK, createAccessGroup
<1>2. ~pass.unresolved /\ pass.desired.exists /\ pass.pc \in Decided
      BY <1>1 DEF IInv, LocalsAgree, Decided
<1>3. CASE Put(pass.desired) /\ Ends("Synced") /\ CallAnswers
  <2>1. ASSUME ~dirty, honest PROVE mirror' = pass.desired.teams
    <3>1. group.teams = {} /\ mirror = {}
          BY <1>1, <2>1 DEF IInv, Current, DecisionCurrent, Vacant, NoGroup
    <3> QED BY <1>3, <2>1, <3>1, MirrorFollows DEF Put
  <2>2. ~dirty => Outcome(pass.reason, pass.spec.servers \cup pass.expanded)'
        BY <1>1, <1>2, <1>3, <2>1, SyncedRight DEF Put
  <2> QED BY <1>1, <1>2, <1>3, <2>2, PutEnds
<1>4. CASE PutFails(pass.desired, "AccessGroupCreateFailed")
      BY <1>1, <1>2, <1>4, PutFailsStep
<1> QED BY <1>3, <1>4 DEF createAccessGroup

LEMMA RepairStep1Step == IInv /\ repairStep1 => IInv'
<1> SUFFICES ASSUME IInv, repairStep1 PROVE IInv'
    OBVIOUS
<1>1. /\ TypeOK /\ pass \in Passes /\ pass.pc = "put1" /\ pass.desired \in Groups
      /\ pass.mirror \subseteq Teams /\ UNCHANGED <<world, shell, snap, unconv, row>>
      BY PassFields DEF IInv, TypeOK, repairStep1
<1> DEFINE half == [pass.desired EXCEPT
             !.teams = mirrorRepairStep(pass.desired.teams, pass.mirror).intermediate]
<1>2. half = [pass.desired EXCEPT !.teams = pass.mirror]
      BY HalfIsTheMirror
<1>3. half \in Groups /\ half.exists /\ half.teams = pass.mirror
  <2>1. pass.desired.exists
        BY <1>1 DEF IInv, LocalsAgree, Decided
  <2> QED BY <1>1, <1>2, <2>1 DEF Groups
<1> HIDE DEF half
<1>4. CASE Put(half) /\ pass' = [pass EXCEPT !.pc = "put2"] /\ CallAnswers
  <2>1. /\ pass' \in Passes /\ pass'.pc = "put2" /\ pass'.spec = pass.spec /\ pass'.expanded = pass.expanded
        /\ pass'.listed = pass.listed /\ pass'.authorized = pass.authorized
        /\ pass'.seen = pass.seen /\ pass'.unresolved = pass.unresolved
        /\ pass'.desired = pass.desired /\ pass'.repair = pass.repair
        BY <1>1, <1>4 DEF Passes, Phases
  <2>2. group' = half /\ mirror' \subseteq Teams /\ Vacant'
        BY <1>1, <1>3, <1>4, PutType DEF Put, Vacant
  <2>3. TypeOK'
        BY <1>1, <1>3, <1>4, <2>1, <2>2, CallType DEF TypeOK, world
  <2>4. LocalsAgree'
        BY <1>1, <2>1 DEF IInv, LocalsAgree, HasTeams, Decided
  <2>5. ASSUME ~dirty' PROVE Current'
    <3>1. ~dirty /\ UNCHANGED <<world, shell>>
          BY <1>1, <1>4, <2>5 DEF CallAnswers
    <3>2. ReadsCurrent'
          BY <1>1, <2>1, <3>1 DEF IInv, Current, ReadsCurrent, HasLists, HasTeams, Decided, world, ShellFor
    <3>3. pass.repair
          BY <1>1, <3>1 DEF IInv, Current, DecisionCurrent
    <3>4. honest => mirror' = pass.mirror
      <4>1. mirror = pass.mirror
            BY <1>1, <3>1 DEF IInv, Current, ReadsCurrent
      <4> QED BY <1>3, <1>4, <4>1, MirrorFollows DEF Put
    <3>5. WantedTeams' = WantedTeams
          BY <3>1 DEF WantedTeams, world
    <3>6. DecisionCurrent'
          BY <1>1, <1>3, <2>1, <2>2, <3>1, <3>3, <3>4, <3>5 DEF IInv, Current, DecisionCurrent, Decided, world
    <3> QED BY <2>1, <3>2, <3>6 DEF Current
  <2> QED BY <1>1, <2>2, <2>3, <2>4, <2>5 DEF IInv
<1>5. CASE PutFails(half, "AccessGroupUpdateFailed")
      BY <1>1, <1>3, <1>5, PutFailsStep
<1> QED BY <1>4, <1>5 DEF repairStep1, half

LEMMA RepairStep2Step == IInv /\ repairAccessGroup => IInv'
<1> SUFFICES ASSUME IInv, repairAccessGroup PROVE IInv'
    OBVIOUS
<1>1. /\ TypeOK /\ pass \in Passes /\ pass.pc = "put2" /\ pass.desired \in Groups
      /\ UNCHANGED <<world, shell, snap, unconv, row>>
      BY PassFields DEF IInv, TypeOK, repairAccessGroup
<1>2. ~pass.unresolved /\ pass.desired.exists /\ pass.pc \in Decided
      BY <1>1 DEF IInv, LocalsAgree, Decided
<1>3. CASE Put(pass.desired) /\ CallAnswers /\ ~pass.repair /\ Ends("Synced")
  <2>1. ASSUME ~dirty, honest PROVE mirror' = pass.desired.teams
    <3>1. mirror = pass.desired.teams
          BY <1>1, <1>3, <2>1 DEF IInv, Current, DecisionCurrent
    <3> QED BY <1>3, <2>1, <3>1, MirrorFollows DEF Put
  <2>2. ~dirty => Outcome(pass.reason, pass.spec.servers \cup pass.expanded)'
        BY <1>1, <1>2, <1>3, <2>1, SyncedRight DEF Put
  <2> QED BY <1>1, <1>2, <1>3, <2>2, PutEnds
<1>4. CASE Put(pass.desired) /\ CallAnswers /\ pass' = [pass EXCEPT !.pc = "verify"]
  <2>1. /\ pass' \in Passes /\ pass'.pc = "verify" /\ pass'.spec = pass.spec /\ pass'.expanded = pass.expanded
        /\ pass'.listed = pass.listed /\ pass'.authorized = pass.authorized
        /\ pass'.seen = pass.seen /\ pass'.unresolved = pass.unresolved
        /\ pass'.desired = pass.desired
        BY <1>1, <1>4 DEF Passes, Phases
  <2>2. group' = pass.desired /\ mirror' \subseteq Teams /\ Vacant'
        BY <1>1, <1>2, <1>4, PutType DEF Put, Vacant
  <2>3. TypeOK'
        BY <1>1, <1>4, <2>1, <2>2, CallType DEF TypeOK, world
  <2>4. LocalsAgree'
        BY <1>1, <2>1 DEF IInv, LocalsAgree, HasTeams, Decided
  <2>5. ASSUME ~dirty' PROVE Current'
    <3>1. ~dirty /\ UNCHANGED <<world, shell>>
          BY <1>1, <1>4, <2>5 DEF CallAnswers
    <3>2. ReadsCurrent'
          BY <1>1, <2>1, <3>1 DEF IInv, Current, ReadsCurrent, HasLists, HasTeams, Decided, world, ShellFor
    <3>3. WantedTeams' = WantedTeams
          BY <3>1 DEF WantedTeams, world
    <3>4. DecisionCurrent'
          BY Zenon, <1>1, <2>1, <2>2, <3>1, <3>3 DEF IInv, Current, DecisionCurrent, Decided, world
    <3> QED BY <2>1, <3>2, <3>4 DEF Current
  <2> QED BY <1>1, <2>2, <2>3, <2>4, <2>5 DEF IInv
<1>5. CASE PutFails(pass.desired, "AccessGroupUpdateFailed")
      BY <1>1, <1>2, <1>5, PutFailsStep
<1> QED BY <1>3, <1>4, <1>5 DEF repairAccessGroup

LEMMA VerifyStep == IInv /\ verifyMirror => IInv'
<1> SUFFICES ASSUME IInv, verifyMirror PROVE IInv'
    OBVIOUS
<1>1. /\ TypeOK /\ pass \in Passes /\ pass.pc = "verify" /\ pass.spec.gen \in 1..MaxGen
      /\ UNCHANGED <<world, litellm, snap, row>>
      BY PassFields, SpecFields DEF IInv, TypeOK, verifyMirror
<1>2. Vacant' /\ (row.available => row.reason = "Synced")'
      BY <1>1 DEF IInv, Vacant, litellm
<1>3. ASSUME NEW r \in {"MirrorUnconverged", "Synced", "ResolveFailed"}, Ends(r),
             CallAnswers \/ CallFails, unconv' \in {unconv, 0, pass.spec.gen},
             r = "Synced" => ~MirrorDrifted(pass.desired.teams, mirror)
      PROVE  IInv'
  <2>1. r \in Reasons /\ r # "UnresolvedReferences"
        BY <1>3 DEF Reasons
  <2>2. pass' \in Passes /\ pass'.reason = r
        BY <1>1, <1>3, <2>1, Ended
  <2>3. unconv' \in 0..MaxGen
        BY <1>1, <1>3, AccessGroupAssumption DEF TypeOK
  <2>4. TypeOK'
        BY <1>1, <1>3, <2>2, <2>3, CallType DEF TypeOK, world, litellm
  <2>5. ASSUME ~dirty PROVE Outcome(pass.reason, pass.spec.servers \cup pass.expanded)'
    <3>1. CASE r = "Synced"
      <4>1. ~pass.unresolved /\ pass.pc \in Decided /\ group = pass.desired
            BY <1>1, <2>5 DEF IInv, LocalsAgree, Current, DecisionCurrent, Decided
      <4>2. mirror = pass.desired.teams
            BY <1>3, <3>1, NoDrift
      <4> QED BY <1>1, <1>3, <2>5, <3>1, <4>1, <4>2, SyncedRight DEF litellm
    <3>2. CASE r # "Synced"
          BY <2>1, <2>2, <3>2 DEF Outcome
    <3> QED BY <3>1, <3>2
  <2>6. LocalsAgree' /\ (~dirty' => Current')
        BY <1>1, <1>3, <2>1, <2>5, EndsRight DEF world
  <2> QED BY <1>2, <2>4, <2>6 DEF IInv
<1>4. CASE Ends("MirrorUnconverged") /\ recordUnconverged(pass.spec.gen) /\ CallAnswers
      BY <1>3, <1>4 DEF recordUnconverged
<1>5. CASE /\ ~MirrorDrifted(pass.desired.teams, mirror)
           /\ Ends("Synced") /\ unconv' = 0 /\ CallAnswers
      BY <1>3, <1>5
<1>6. CASE Ends("ResolveFailed") /\ CallFails /\ UNCHANGED unconv
      BY <1>3, <1>6
<1> QED BY <1>4, <1>5, <1>6 DEF verifyMirror

LEMMA ProjectStep == IInv /\ writeEnvironmentProjection => IInv'
<1> SUFFICES ASSUME IInv, writeEnvironmentProjection PROVE IInv'
    OBVIOUS
<1>1. /\ TypeOK /\ pass \in Passes /\ pass.pc = "project" /\ pass' = Idle
      /\ UNCHANGED <<world, litellm, snap, unconv>>
      BY DEF IInv, TypeOK, writeEnvironmentProjection
<1>2. Vacant' /\ pass' \in Passes /\ pass'.pc = "idle"
      BY <1>1, IdlePass DEF IInv, Vacant, litellm
<1>3. LocalsAgree'
      BY <1>2 DEF LocalsAgree, HasTeams, Decided
<1>4. CASE /\ row' = [available |-> computeAvailable(pass.reason = "Synced", pass.exec),
                      reason |-> pass.reason, gen |-> pass.spec.gen,
                      servers |-> pass.spec.servers \cup pass.expanded]
           /\ CallAnswers
  <2>1. /\ row'.available => row'.reason = "Synced"
        /\ row'.reason = pass.reason /\ row'.servers = pass.spec.servers \cup pass.expanded
        BY Zenon, <1>4 DEF computeAvailable
  <2>2. row' \in [available: BOOLEAN, reason: Reasons, gen: 0..MaxGen, servers: SUBSET Servers]
    <3>1. /\ pass.reason \in Reasons /\ pass.spec.servers \cup pass.expanded \subseteq Servers
          /\ pass.spec.gen \in 1..MaxGen
          BY <1>1, PassFields, SpecFields
    <3>2. computeAvailable(pass.reason = "Synced", pass.exec) \in BOOLEAN
          BY DEF computeAvailable
    <3>3. pass.spec.gen \in 0..MaxGen
          BY <3>1, AccessGroupAssumption
    <3> QED BY <1>4, <3>1, <3>2, <3>3
  <2>3. TypeOK'
        BY <1>1, <1>2, <1>4, <2>2, CallType DEF TypeOK, world, litellm
  <2>4. ASSUME ~dirty' PROVE Current'
    <3>1. Outcome(pass.reason, pass.spec.servers \cup pass.expanded)
          BY <1>1, <1>4, <2>4 DEF IInv, Current, CallAnswers
    <3>2. Outcome(row.reason, row.servers)'
      <4>1. WantedTeams' = WantedTeams
            BY <1>1 DEF WantedTeams, world
      <4> QED BY <1>1, <2>1, <3>1, <4>1 DEF Outcome, world, litellm, ShellFor
    <3> QED BY <1>2, <3>2 DEF Current, ReadsCurrent, DecisionCurrent, HasLists, HasTeams, Decided
  <2> QED BY <1>2, <1>3, <2>1, <2>3, <2>4 DEF IInv
<1>5. CASE CallFails /\ UNCHANGED row
  <2>1. TypeOK'
        BY <1>1, <1>2, <1>5, CallType DEF TypeOK, world, litellm
  <2> QED BY <1>2, <1>3, <1>5, <2>1 DEF IInv, CallFails
<1> QED BY <1>4, <1>5 DEF writeEnvironmentProjection

-----------------------------------------------------------------------------
(* The rest of the world, and the refresh of the snapshot.                 *)

(* Current reads no snapshot. *)
LEMMA CurrentFrame ==
  ASSUME Current, UNCHANGED <<spec, reg, ushell, member, content, honest, group, mirror, shell>>,
         UNCHANGED <<pass, row>>
  PROVE  Current'
<1>1. ReadsCurrent'
      BY DEF Current, ReadsCurrent
<1>2. DecisionCurrent'
      BY DEF Current, DecisionCurrent, WantedTeams
<1>3. \A r, s : Outcome(r, s) => Outcome(r, s)'
      BY DEF Outcome, WantedTeams
<1> QED BY <1>1, <1>2, <1>3 DEF Current

LEMMA RefreshStep == IInv /\ refresh => IInv'
<1> SUFFICES ASSUME IInv, refresh PROVE IInv'
    OBVIOUS
<1>1. /\ UNCHANGED <<spec, reg, ushell, member, content, honest, group, mirror, shell>>
      /\ UNCHANGED <<unconv, pass, row, dirty, moves>>
      BY DEF refresh, world, litellm
<1>2. TypeOK'
      BY <1>1 DEF IInv, TypeOK, refresh
<1>3. Vacant' /\ LocalsAgree' /\ (row.available => row.reason = "Synced")'
      BY <1>1 DEF IInv, Vacant, LocalsAgree
<1>4. Current => Current'
      BY <1>1, CurrentFrame
<1> QED BY <1>1, <1>2, <1>3, <1>4 DEF IInv

LEMMA MoveStep == IInv /\ WorldMoves => IInv'
<1> SUFFICES ASSUME IInv, WorldMoves PROVE IInv'
    OBVIOUS
<1>1. Moves /\ UNCHANGED row
      BY DEF WorldMoves, SpecEdited, RegistryMoves, PeopleMove, ContentMoves, HandEdit, Restart
<1>2. dirty' = TRUE /\ moves' \in 0..MaxMoves
  <2>1. MaxMoves \in Nat /\ moves \in 0..MaxMoves
        BY AccessGroupAssumption DEF IInv, TypeOK
  <2> QED BY <1>1, <2>1 DEF Moves
<1>3. pass' \in Passes /\ LocalsAgree'
  <2>1. CASE UNCHANGED pass
        BY <2>1 DEF IInv, TypeOK, LocalsAgree
  <2>2. CASE pass' = Idle
        BY <2>2, IdlePass DEF LocalsAgree, HasTeams, Decided
  <2> QED BY <2>1, <2>2
          DEF WorldMoves, SpecEdited, RegistryMoves, PeopleMove, ContentMoves, HandEdit, Restart
<1>4. group' \in Groups /\ mirror' \subseteq Teams /\ shell' \in Shells /\ Vacant'
  <2>1. CASE UNCHANGED litellm
        BY <2>1 DEF IInv, TypeOK, Vacant, litellm
  <2>2. CASE HandEdit
    <3>1. CASE group.exists /\ (\E t \in Teams : mirror' = Toggle(mirror, t)) /\ UNCHANGED <<group, shell>>
          BY <3>1 DEF IInv, TypeOK, Vacant, Toggle
    <3>2. CASE /\ group.exists /\ UNCHANGED <<mirror, shell>>
               /\ \/ \E t \in Teams : group' = [group EXCEPT !.teams = Toggle(@, t)]
                  \/ \E s \in Servers : group' = [group EXCEPT !.servers = Toggle(@, s)]
      <4>1. group \in Groups /\ group.teams \subseteq Teams /\ group.servers \subseteq Servers
            BY GroupFields DEF IInv, TypeOK
      <4>2. /\ \A t \in Teams : Toggle(group.teams, t) \in SUBSET Teams
            /\ \A s \in Servers : Toggle(group.servers, s) \in SUBSET Servers
            BY <4>1 DEF Toggle
      <4>3. \/ \E x \in SUBSET Teams : group' = [group EXCEPT !.teams = x]
            \/ \E x \in SUBSET Servers : group' = [group EXCEPT !.servers = x]
            BY <3>2, <4>2
      <4>4. group' \in Groups /\ group'.exists
            BY <3>2, <4>1, <4>3 DEF Groups
      <4> QED BY <3>2, <4>4 DEF IInv, TypeOK, Vacant
    <3>3. CASE /\ UNCHANGED <<group, mirror>>
               /\ \/ shell' = [shell EXCEPT !.marked = FALSE, !.guard = FALSE]
                  \/ shell' = [shell EXCEPT !.deny = FALSE]
                  \/ shell' = [shell EXCEPT !.marked = FALSE, !.deny = FALSE, !.guard = FALSE]
      <4>1. shell' \in Shells
            BY Zenon, <3>3 DEF IInv, TypeOK, Shells
      <4> QED BY <3>3, <4>1 DEF IInv, TypeOK, Vacant
    <3> QED BY <2>2, <3>1, <3>2, <3>3 DEF HandEdit
  <2> QED BY <2>1, <2>2 DEF WorldMoves, SpecEdited, RegistryMoves, PeopleMove, ContentMoves, Restart
<1>5. spec' \in EnvSpecs /\ reg' \subseteq Names /\ ushell' \in BOOLEAN /\ member' \subseteq Humans
      BY Zenon DEF IInv, TypeOK, WorldMoves, SpecEdited, RegistryMoves, PeopleMove, ContentMoves, HandEdit,
           Restart, world, Toggle
<1>6. content' \in BOOLEAN /\ honest' \in BOOLEAN
  <2>1. content \in BOOLEAN /\ honest \in BOOLEAN
        BY DEF IInv, TypeOK
  <2>2. UNCHANGED honest /\ (UNCHANGED content \/ content' = ~content)
        BY DEF WorldMoves, SpecEdited, RegistryMoves, PeopleMove, ContentMoves, HandEdit, Restart, world
  <2> QED BY Zenon, <2>1, <2>2
<1>7. snap' \in [ready: BOOLEAN, known: SUBSET Names] /\ unconv' \in 0..MaxGen
  <2>1. snap \in [ready: BOOLEAN, known: SUBSET Names] /\ unconv \in 0..MaxGen /\ 0 \in 0..MaxGen
        BY AccessGroupAssumption DEF IInv, TypeOK
  <2>2. \/ UNCHANGED <<snap, unconv>>
        \/ snap' = [ready |-> FALSE, known |-> {}] /\ unconv' = 0
        BY DEF WorldMoves, SpecEdited, RegistryMoves, PeopleMove, ContentMoves, HandEdit, Restart
  <2>3. [ready |-> FALSE, known |-> {}] \in [ready: BOOLEAN, known: SUBSET Names]
        OBVIOUS
  <2>4. CASE UNCHANGED <<snap, unconv>>
        BY <2>1, <2>4
  <2>5. CASE snap' = [ready |-> FALSE, known |-> {}] /\ unconv' = 0
        BY <2>1, <2>3, <2>5
  <2> QED BY <2>2, <2>4, <2>5
<1>8. TypeOK'
      BY <1>1, <1>2, <1>3, <1>4, <1>5, <1>6, <1>7 DEF IInv, TypeOK
<1> QED BY <1>1, <1>2, <1>3, <1>4, <1>8 DEF IInv

-----------------------------------------------------------------------------
(* The theorems.                                                           *)

LEMMA InitIInv == Init => IInv
<1> SUFFICES ASSUME Init PROVE IInv
    OBVIOUS
<1>1. Vacant /\ ~row.available /\ dirty
      BY DEF Init, Vacant, NoGroup
<1>2. pass \in Passes /\ LocalsAgree
      BY IdlePass DEF Init, LocalsAgree, HasTeams, Decided
<1>3. row \in [available: BOOLEAN, reason: Reasons, gen: 0..MaxGen, servers: SUBSET Servers]
      BY AccessGroupAssumption DEF Init, Reasons
<1>4. /\ spec \in EnvSpecs /\ reg \subseteq Names /\ mirror \subseteq Teams /\ shell \in Shells
      /\ ushell \in BOOLEAN /\ member \subseteq Humans /\ content \in BOOLEAN /\ honest \in BOOLEAN
      /\ snap \in [ready: BOOLEAN, known: SUBSET Names] /\ dirty \in BOOLEAN
      BY DEF Init, Shells, NoShell
<1>5. unconv \in 0..MaxGen /\ moves \in 0..MaxMoves
      BY AccessGroupAssumption DEF Init
<1>6. TypeOK
      BY <1>2, <1>3, <1>4, <1>5, NoGroupIsAGroup DEF Init, TypeOK
<1> QED BY <1>1, <1>2, <1>6 DEF IInv

(* The invariant is inductive: every read of a pass is current until       *)
(* something moves, and every write of it lands as decided.                *)
THEOREM Invariance == Spec => []IInv
<1>1. IInv /\ [Next]_vars => IInv'
  <2> SUFFICES ASSUME IInv, [Next]_vars PROVE IInv'
      OBVIOUS
  <2>1. CASE PassStep
        BY <2>1, ReconcileStep, ReadListsStep, ReadTeamsStep, ShellStep, ReadGroupStep, ShrinkStep,
           CreateStep, RepairStep1Step, RepairStep2Step, VerifyStep, ProjectStep DEF PassStep
  <2>2. CASE refresh \/ WorldMoves
        BY <2>2, RefreshStep, MoveStep
  <2>3. CASE UNCHANGED vars
    <3>1. /\ UNCHANGED <<spec, reg, ushell, member, content, honest, group, mirror, shell>>
          /\ UNCHANGED <<snap, unconv, pass, row, dirty, moves>>
          BY <2>3 DEF vars, world, litellm
    <3>2. TypeOK' /\ Vacant' /\ LocalsAgree'
          BY <3>1 DEF IInv, TypeOK, Vacant, LocalsAgree
    <3>3. Current => Current'
          BY <3>1, CurrentFrame
    <3> QED BY <3>1, <3>2, <3>3 DEF IInv
  <2> QED BY <2>1, <2>2, <2>3 DEF Next
<1> QED BY InitIInv, <1>1, PTL DEF Spec

(* When the row says Available and nothing has moved since, LiteLLM        *)
(* enforces what the spec says, on each of the four paths on which         *)
(* reconcileAccessGroup answers Synced.                                    *)
THEOREM AvailableIsGranted == Spec => []AvailableMeansGranted
<1>1. IInv => AvailableMeansGranted
      BY DEF IInv, Current, Outcome, AvailableMeansGranted, Settled
<1> QED BY <1>1, Invariance, PTL

(* What the spec no longer names is out of the group after every pass that *)
(* met no error, also while a reference is unresolved (shrinkAccessGroup). *)
THEOREM RemovalsAlwaysLand == Spec => []RemovalsLand
<1>1. IInv => RemovalsLand
  <2> SUFFICES ASSUME IInv, Settled, row.reason \in {"Synced", "UnresolvedReferences"}, group.exists
               PROVE  /\ group.teams \subseteq WantedTeams /\ group.models \subseteq spec.models
                      /\ group.servers \cap reg \subseteq row.servers
      BY DEF RemovalsLand
  <2>1. Outcome(row.reason, row.servers)
        BY DEF IInv, Current, Settled
  <2> QED BY <2>1 DEF Outcome
<1> QED BY <1>1, Invariance, PTL

(* No write of the operator takes away, even between the two PUTs of a     *)
(* repair, what its spec grants and LiteLLM was seen to grant.             *)
THEOREM AccessIsKept == Spec => WantedAccessNeverBlinks
<1> DEFINE Kept == moves' = moves /\ pass.pc \in {"shrink", "create", "put1", "put2"} =>
        /\ (pass.pc = "shrink" => group = pass.existing)
             => (pass.desired.teams \cap pass.mirror) \cap mirror \subseteq mirror'
        /\ (pass.spec.servers \cap pass.existing.servers) \cap group.servers
             \subseteq group'.servers
<1>1. ASSUME IInv, [Next]_vars, moves' = moves, pass.pc \in {"shrink", "create", "put1", "put2"}
      PROVE  /\ (pass.pc = "shrink" => group = pass.existing)
                  => (pass.desired.teams \cap pass.mirror) \cap mirror \subseteq mirror'
             /\ (pass.spec.servers \cap pass.existing.servers) \cap group.servers
                  \subseteq group'.servers
  <2>1. moves \in Nat
        BY <1>1 DEF IInv, TypeOK
  <2>2. ~CallFails /\ ~Moves
        BY <1>1, <2>1 DEF CallFails, Moves
  <2>3. /\ pass \in Passes /\ pass.existing \in Groups /\ pass.desired \in Groups
        /\ pass.desired.servers = (pass.spec.servers \cup pass.expanded) \cap pass.listed
        /\ pass.pc # "shrink" => pass.spec.servers \subseteq pass.listed
        BY <1>1, PassFields DEF IInv, TypeOK, LocalsAgree, HasTeams, Decided
  <2>4. CASE UNCHANGED <<group, mirror>>
        BY <2>4
  <2>5. CASE pass.pc = "shrink" /\ Put(Shrunk(pass.existing, pass.desired, pass.listed))
        BY <2>3, <2>5 DEF Put, Shrunk, Bindings, withoutListedUnwanted, MirrorAfter
  <2>6. CASE pass.pc \in {"create", "put2"} /\ Put(pass.desired)
        BY <2>3, <2>6 DEF Put, MirrorAfter
  <2>7. CASE pass.pc = "put1" /\ repairStep1
    <3>1. Put([pass.desired EXCEPT !.teams = pass.mirror])
          BY <2>2, <2>7, HalfIsTheMirror DEF repairStep1, PutFails
    <3>2. /\ [pass.desired EXCEPT !.teams = pass.mirror].servers = pass.desired.servers
          /\ [pass.desired EXCEPT !.teams = pass.mirror].teams = pass.mirror
          BY <2>3 DEF Groups
    <3> QED BY <2>3, <2>7, <3>1, <3>2 DEF Put, MirrorAfter
  <2>8. CASE UNCHANGED vars \/ refresh
        BY <2>4, <2>8 DEF vars, refresh, litellm
  <2>9. CASE PassStep
        BY <1>1, <2>2, <2>4, <2>5, <2>6, <2>7, <2>9
           DEF PassStep, Reconcile, ReadLists, ReadTeams, ensureShellTeam, ReadGroup, shrinkAccessGroup,
             createAccessGroup, repairStep1, repairAccessGroup, verifyMirror,
             writeEnvironmentProjection, PutFails, litellm
  <2>10. ~WorldMoves
         BY <2>2 DEF WorldMoves, SpecEdited, RegistryMoves, PeopleMove, ContentMoves, HandEdit, Restart
  <2> QED BY <1>1, <2>8, <2>9, <2>10 DEF Next
<1>2. IInv /\ [Next]_vars => [Kept]_vars
      BY <1>1
<1> QED BY <1>2, Invariance, PTL DEF Spec, WantedAccessNeverBlinks
====
