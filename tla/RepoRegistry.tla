---------------------------- MODULE RepoRegistry ----------------------------
(***************************************************************************)
(* `ach-cli repo add`, `update` and `remove` (cmd/ach-cli/cmd/repo.go):    *)
(* the registered repositories of repos.json and their tokens in           *)
(* credentials.json (internal/cli/localpkg/store).  A command resolves the *)
(* branch to a revision, fetches that revision, detects which lenses the   *)
(* tree provides (internal/cli/localpkg/discover) and writes the two files *)
(* one after the other.  It may fail or be killed between any two steps,   *)
(* and the upstream moves meanwhile.  One command runs at a time.          *)
(*                                                                         *)
(* A tree is abstracted to what Detect looks for: a marketplace manifest   *)
(* that parses, the roots under which skills lie, a plugin and a skill at  *)
(* the top.  "" stands for no --path and for the top of the tree.          *)
(***************************************************************************)
EXTENDS Integers, FiniteSets

CONSTANTS Repos,    \* names of repositories
          Trees,    \* Trees[v]: the tree of revision v
          MaxRev,   \* bound: revisions of the upstream
          None

Roots == {"", "skills"}
Tree == [market : BOOLEAN, skillsAt : SUBSET Roots, plugin : BOOLEAN, skill : BOOLEAN]
Lenses == {"plugin-marketplace", "skill-marketplace", "plugin", "skill"}

VARIABLES
    head,  \* the revision the branch points at
    repos, \* repos.json: an entry for each registered repository
    creds, \* credentials.json: the repositories with a token
    cmd,   \* the command that runs, Idle if none does
    halfAdded \* history: an add of the repository stopped after its token was saved

vars == <<head, repos, creds, cmd, halfAdded>>

Idle == [pc |-> "idle"]
Entry == [sha : 1..MaxRev, provides : SUBSET Lenses, hint : Roots, hasToken : BOOLEAN]
Active == [pc : {"lsremote", "fetch", "token", "save"}, op : {"add", "update", "remove"},
           repo : Repos, entry : Entry \cup {None}, hint : Roots, token : BOOLEAN,
           sha : 0..MaxRev]

TypeOK ==
    /\ head \in 1..MaxRev
    /\ repos \in [Repos -> Entry \cup {None}]
    /\ creds \subseteq Repos /\ halfAdded \subseteq Repos
    /\ cmd = Idle \/ cmd \in Active

Init ==
    /\ head = 1 /\ repos = [x \in Repos |-> None] /\ creds = {} /\ halfAdded = {}
    /\ cmd = Idle

(******************************** Detection ********************************)

(* The root the skill walk matches: the hint alone, or the first of the     *)
(* candidates; None if no skill lies there.                                 *)
SkillsRoot(tree, hint) ==
    LET tried == IF hint # "" THEN {hint} ELSE Roots
        found == tried \cap tree.skillsAt
    IN  IF found = {} THEN None ELSE IF "" \in found THEN "" ELSE "skills"

Detect(tree, hint) ==
    [lenses |-> {l \in Lenses : CASE l = "plugin-marketplace" -> tree.market
                                  [] l = "skill-marketplace" -> SkillsRoot(tree, hint) # None
                                  [] l = "plugin" -> tree.plugin /\ ~tree.market
                                  [] OTHER -> tree.skill},
     root |-> LET r == SkillsRoot(tree, hint) IN IF r = None THEN "" ELSE r]

(******************************** Commands *********************************)

Begin(op, x, hint, token) ==
    /\ cmd = Idle
    /\ IF op = "add" THEN repos[x] = None ELSE repos[x] # None
    /\ cmd' = [pc |-> IF op = "remove" THEN "token" ELSE "lsremote", op |-> op, repo |-> x,
               entry |-> repos[x], hint |-> hint, token |-> token, sha |-> 0]
    /\ UNCHANGED <<head, repos, creds, halfAdded>>

RepoAdd(x, hint, token) == Begin("add", x, hint, token)
RepoUpdate(x) == repos[x] # None /\ Begin("update", x, repos[x].hint, FALSE)
RepoRemove(x) == Begin("remove", x, "", FALSE)

LsRemote ==
    /\ cmd.pc = "lsremote"
    /\ cmd' = [cmd EXCEPT !.pc = "fetch", !.sha = head]
    /\ UNCHANGED <<head, repos, creds, halfAdded>>

(* As if the fetch followed the branch instead of the resolved revision. *)
FetchedHead == head

(* The tree that is inspected is the one of the resolved revision. *)
FetchedRev == cmd.sha

(* Fetch and inspect.  An add that finds no lens is refused, an update that *)
(* finds the recorded revision is done.                                     *)
resolveAndDetect ==
    LET d == Detect(Trees[FetchedRev], cmd.hint)
        e == [sha |-> cmd.sha, provides |-> d.lenses, hint |-> d.root,
              hasToken |-> IF cmd.op = "add" THEN cmd.token ELSE cmd.entry.hasToken]
    IN  /\ cmd.pc = "fetch"
        /\ cmd' = CASE cmd.op = "add" /\ d.lenses = {} -> Idle
                    [] cmd.op = "update" /\ cmd.sha = cmd.entry.sha -> Idle
                    [] cmd.op = "add" /\ cmd.token -> [cmd EXCEPT !.pc = "token", !.entry = e]
                    [] OTHER -> [cmd EXCEPT !.pc = "save", !.entry = e]
        /\ UNCHANGED <<head, repos, creds, halfAdded>>

(* As if a remove dropped the entry first and its token after. *)
TokenLast ==
    /\ cmd.pc = "token"
    /\ IF cmd.op = "add" THEN creds' = creds \cup {cmd.repo} /\ repos' = repos
       ELSE creds' = creds /\ repos' = [repos EXCEPT ![cmd.repo] = None]
    /\ halfAdded' = IF cmd.op = "add" THEN halfAdded \cup {cmd.repo} ELSE halfAdded
    /\ cmd' = [cmd EXCEPT !.pc = "save"]
    /\ UNCHANGED head

(* SaveToken of an add, DeleteToken of a remove: before the entry. *)
TokenFirst ==
    /\ cmd.pc = "token"
    /\ creds' = IF cmd.op = "add" THEN creds \cup {cmd.repo} ELSE creds \ {cmd.repo}
    /\ halfAdded' = IF cmd.op = "add" THEN halfAdded \cup {cmd.repo} ELSE halfAdded
    /\ cmd' = [cmd EXCEPT !.pc = "save"]
    /\ UNCHANGED <<head, repos>>

SaveRepos ==
    /\ cmd.pc = "save"
    /\ repos' = [repos EXCEPT ![cmd.repo] = IF cmd.op = "remove" THEN None ELSE cmd.entry]
    /\ halfAdded' = halfAdded \ {cmd.repo}
    /\ cmd' = Idle
    /\ UNCHANGED <<head, creds>>

(* The process dies, or a call it makes fails. *)
Fails ==
    /\ cmd # Idle
    /\ cmd' = Idle
    /\ UNCHANGED <<head, repos, creds, halfAdded>>

UpstreamMoves ==
    /\ head < MaxRev
    /\ head' = head + 1
    /\ UNCHANGED <<repos, creds, cmd, halfAdded>>

Next ==
    \/ \E x \in Repos, h \in Roots, t \in BOOLEAN : RepoAdd(x, h, t)
    \/ \E x \in Repos : RepoUpdate(x) \/ RepoRemove(x)
    \/ LsRemote \/ resolveAndDetect \/ TokenFirst \/ SaveRepos \/ Fails \/ UpstreamMoves

Spec == Init /\ [][Next]_vars

(******************************* Properties ********************************)

(* An entry that lists the skill-marketplace lens names a root under which  *)
(* its revision really has skills, and every other lens it lists is one its *)
(* revision provides, even if the branch moved between ls-remote and fetch  *)
(* or a persisted root outlived the tree it was found in.                   *)
LensesOfRevision ==
    \A x \in Repos : repos[x] # None =>
        LET tree == Trees[repos[x].sha] IN
        /\ "skill-marketplace" \in repos[x].provides => repos[x].hint \in tree.skillsAt
        /\ "plugin-marketplace" \in repos[x].provides <=> tree.market
        /\ "plugin" \in repos[x].provides <=> tree.plugin /\ ~tree.market
        /\ "skill" \in repos[x].provides <=> tree.skill

(* A token outlives its entry only where an add stopped half-way: a remove  *)
(* that stops after DeleteToken leaves the entry, so that it can be retried.*)
NoTokenWithoutEntry ==
    \A x \in creds : repos[x] # None \/ x \in halfAdded
=============================================================================
