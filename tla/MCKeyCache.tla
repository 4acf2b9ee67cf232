----------------------------- MODULE MCKeyCache -----------------------------
(***************************************************************************)
(* The forwarder's way from a credential to a request LiteLLM receives:    *)
(* the cache of resolved keys, the cache of a user's teams and the request *)
(* path itself.  They share no variable, so they are explored one at a     *)
(* time: the initial state picks one (part) and the variables of the       *)
(* others stay at rest.                                                    *)
(***************************************************************************)
EXTENDS KeyCache, TLC

CONSTANTS
    None, team, shell, env1, env2

VARIABLES
    part,   \* the component this behaviour is of
    memberOf, out, member, entry, flight, caller,
    world, changes, at, req, id, raw, groups, jwt, up, reply, was

memberVars ==
    <<memberOf, out, member, entry, flight, caller>>
pathVars ==
    <<world, changes, at, req, id, raw, groups, jwt, up, reply, was>>
mcVars == <<part, vars, memberVars, pathVars>>

\* Neither the replicas nor the requests are told apart.
Symmetry == Permutations(Replicas) \cup Permutations(Callers)

\* Bound: an ek_, whose expiry never moves, is followed until every answer from before it
\* has gone out; only a pk_ slides on to the end of its lifetime.
Bounds == KeyType = "ek" => now <= 4

\* The requests: every way to present credentials on two routes, and every
\* kind of body on every route.
Headers == << [name |-> "ach", mode |-> "resolve"], [name |-> "xapi", mode |-> "passthrough"] >>
Presented == [ach : {None, "ek", "pk", "typo", "other"}, xapi : {None, "ek", "other"},
              authorization : {None, "pk", "jws", "other"}]
Plain == [kind |-> "empty", top |-> {}, params |-> {}]
Fields == {"tags", "metadata.tags", "unparsed metadata", "control", "other model"}
Bodies ==
    {[kind |-> k, top |-> f, params |-> {}] :
        k \in {"json", "multipart", "odd"}, f \in {{}} \cup {{x} : x \in Fields}}
    \cup {[kind |-> "json", top |-> {"tags"}, params |-> {f}] : f \in Fields}
Routes == {<<"v1", "chat">>, <<"v1", "realtime">>, <<"gemini", "generateContent">>,
           <<"gemini", "list">>, <<"gemini", "tuning">>, <<"mcp", "call">>, <<"a2a", "call">>}
Request(route, h, b) ==
    [route |-> route[1], action |-> route[2], name |-> "n", header |-> h, body |-> b, spoof |-> TRUE]
Requests ==
    {Request(route, h, Plain) : route \in {<<"v1", "realtime">>, <<"mcp", "call">>}, h \in Presented}
    \cup {Request(route, [ach |-> k, xapi |-> None, authorization |-> "other"], b) :
             route \in Routes, b \in Bodies, k \in {None, "ek"}}

\* The caches on arrival: what the key's Environment env1 and another one host and
\* whom they admit, the owner's teams and the policy.
Env(names, teams) == [names |-> names, teams |-> teams]
Worlds ==
    {[env |-> env1 :> w[1] @@ env2 :> w[2], teams |-> w[3], policy |-> w[4]] : w \in
        {<<Env({"n"}, {team}), Env({"n"}, {shell}), {team, shell}, "on">>, <<Env({}, {team}), Env({"n"}, {shell}), {team, shell}, "off">>,
         <<Env({"n"}, {}), Env({"n"}, {team}), {team, shell}, None>>, <<Env({"n"}, {team}), Env({}, {}), {team}, None>>}}

MemberTeams == {team}

Member == INSTANCE TeamsCache WITH
          Teams <- MemberTeams, TTL <- 4, NegTTL <- 1, Lag <- 1, LeaderTimeout <- 1, teams
          <- memberOf, redis <- entry

PathEnvs == {env1, env2}
PathTeams == {team, shell}
PathShellTeams == {shell}
PathNames == {"n"}

Path == INSTANCE RequestPath WITH
          Envs <- PathEnvs, Teams <- PathTeams, ShellTeams <- PathShellTeams, Bound <- env1,
          Names <- PathNames, MaxChanges <- 1

\* The key cache at rest: its step properties are evaluated in every part.
NoKeys == Init /\ row.table = "ek"

NoMember ==
    /\ memberOf = None /\ out = None /\ member = None /\ entry = None /\ flight = None
    /\ caller = None

NoPath ==
    /\ world = None /\ changes = None /\ at = None /\ req = None /\ id = None
    /\ raw = None /\ groups = None /\ jwt = None /\ up = None /\ reply = None
    /\ was = None

MCInit ==
    \/ part = "keys" /\ Init /\ NoMember /\ NoPath
    \/ part = "teams" /\ Member!Init /\ NoKeys /\ NoPath
    \/ part = "request" /\ Path!Init /\ NoKeys /\ NoMember

MCNext ==
    \/ part = "keys" /\ Next /\ UNCHANGED <<part, memberVars, pathVars>>
    \/ part = "teams" /\ Member!Next /\ UNCHANGED <<part, vars, pathVars>>
    \/ part = "request" /\ Path!Next /\ UNCHANGED <<part, vars, memberVars>>

MCSpec == MCInit /\ [][MCNext]_mcVars

-----------------------------------------------------------------------------
\* The teams of a user as UserTeams answers them, whichever replica wrote the entry
\* last: a team left is forgotten within an entry, a flight and a delayed SET, and an
\* empty answer heals within the short lifetime (negativeTeamsTTL).
TeamsCurrent ==
    /\ part = "keys" => TypeOK
    /\ part = "teams" => Member!TypeOK /\ Member!TeamsCurrent

\* What reaches LiteLLM speaks for the caller alone, however the caches changed while
\* the request ran: its tags are the caller's and none the client sent (stampTags,
\* stripBodyTags), an ek_ travels with its JWT or with nothing (the identity policy),
\* its groups were granted by an Environment hosting the target (checkPk, checkEk) and
\* its owner shared a team with the key's Environment (CheckEkOwner).  A 401 that comes
\* back from an agent names ACH's authorization server (rewriteChallengeHost).
RequestIsTheCallers ==
    part = "request" =>
        /\ Path!TypeOK
        /\ Path!AttributionIsTheCallers /\ Path!AgentKeyTravelsAlone
        /\ Path!GroupsWereHeld /\ Path!AgentKeyStaysHome /\ Path!ChallengeNamesACH

=============================================================================
