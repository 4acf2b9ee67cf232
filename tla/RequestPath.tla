----------------------------- MODULE RequestPath -----------------------------
(***************************************************************************)
(* One request through the forwarder: Authn, the owner gate, the route's   *)
(* handler (body scan, pre-check, identity policy, JWT) and the reverse    *)
(* proxy's Director and response hooks.  The caches the steps read (the    *)
(* Environments, the owner's teams, the policies) may change between any   *)
(* two of them.                                                            *)
(*                                                                         *)
(* A header holds a credential by its kind: "ek" and "pk" keys, "typo" (an *)
(* ACH prefix that resolves to nothing), "jws", or "other".  A body is its *)
(* encoding and the fields that matter, at the top level and in params.    *)
(***************************************************************************)
EXTENDS Integers, Sequences, FiniteSetsExt

CONSTANTS Requests,   \* the requests considered
          Worlds,     \* the states of the caches it may meet on arrival
          Headers,    \* the declared credential slots, in order
          Envs, Teams, ShellTeams,
          Bound,      \* the Environment an ek_ is bound to
          Names,      \* MCP servers and A2A agents
          MaxChanges, \* bound: changes of the caches during the request
          None

VARIABLES
    world,   \* env: hosted names and authorized teams; teams: the owner's; policy
    changes, \* counter of the bound
    at,      \* the step the request is at
    req,     \* its route, headers and body as they stand
    id,      \* the KeyContext, None without ACH identity
    raw,     \* whether a passthrough credential is forwarded as it came
    groups,  \* what the pre-check granted
    jwt,     \* the minted ACH JWT's groups, or None
    up,      \* the request as LiteLLM receives it
    reply,   \* the answer to the client
    was      \* history: the worlds since the request arrived

vars == <<world, changes, at, req, id, raw, groups, jwt, up, reply, was>>

Agents == {"mcp", "a2a"}
Done == {"answered", "streamed"}
AgentRoute == req.route \in Agents

(* What Environment e of the world w grants the owner on the named target. *)
Grants(w, e, n) == IF n \in w.env[e].names THEN w.env[e].teams \cap w.teams ELSE {}

TypeOK ==
    /\ at \in {"authn", "gate", "scan", "check", "policy", "forward", "upstream"} \cup Done
    /\ id = None \/ id \in [type : {"ek", "pk"}]
    /\ groups \in SUBSET Teams /\ (jwt = None \/ jwt \in SUBSET Teams)
    /\ changes \in 0..MaxChanges /\ (at \in Done <=> reply # None)

Init ==
    /\ req \in Requests
    /\ world \in Worlds /\ was = {world}
    /\ changes = 0 /\ at = "authn" /\ id = None /\ raw = FALSE
    /\ groups = {} /\ jwt = None /\ up = None /\ reply = None

Answer(code) == at' = "answered" /\ reply' = code

-----------------------------------------------------------------------------
(* Authn *)

isACHKey(v) == v \in {"ek", "pk", "typo"}

(* The first declared slot present decides; Authorization comes last. *)
credential(h) ==
    LET present == {i \in DOMAIN Headers : h[Headers[i].name] # None} IN
    IF present # {} THEN LET s == Headers[Min(present)] IN
         [value |-> h[s.name], from |-> s.name,
          mode |-> IF isACHKey(h[s.name]) THEN "resolve" ELSE s.mode]
    ELSE [value |-> h.authorization, from |-> "authorization",
          mode |-> IF h.authorization = None THEN "none"
                   ELSE IF isACHKey(h.authorization) \/ h.authorization = "jws" THEN "resolve"
                   ELSE "foreign"]

(* A resolved key, or no identity: unknown, expired or revoked. *)
Resolves(v) == {None} \cup (CASE v = "ek" -> {[type |-> "ek"]}
                              [] v \in {"pk", "jws"} -> {[type |-> "pk"]}
                              [] OTHER -> {})

Authn ==
    LET c == credential(req.header) IN
    /\ at = "authn"
    /\ \/ /\ c.mode = "none" /\ Answer(401) /\ UNCHANGED <<req, id, raw>>
       \/ /\ c.mode \in {"passthrough", "foreign"} /\ at' = "gate"
          /\ raw' = (c.mode = "passthrough") /\ UNCHANGED <<req, id, reply>>
       \/ /\ c.mode = "resolve" /\ \E code \in {403, 500, 503} : Answer(code)
          /\ UNCHANGED <<req, id, raw>>
       \/ /\ c.mode = "resolve" /\ \E i \in Resolves(c.value) :
                IF i = None THEN Answer(401) /\ UNCHANGED <<req, id>>
                ELSE /\ at' = "gate" /\ id' = i /\ UNCHANGED reply
                     /\ req' = [req EXCEPT !.header[c.from] = None]
          /\ UNCHANGED raw
    /\ UNCHANGED <<world, changes, groups, jwt, up, was>>

-----------------------------------------------------------------------------
(* The owner gate and the pre-check *)

(* As if an ek_ were usable whoever owns it. *)
CheckEkOwnerAny == TRUE

(* D-30: the owner still shares a team with the key's Environment. *)
CheckEkOwner == world.env[Bound].teams \cap world.teams # {}

EkOwnerGate ==
    /\ at = "gate"
    /\ \/ /\ id # None /\ id.type = "ek"
          /\ \/ ~CheckEkOwner /\ Answer(403)
             \/ Answer(503)
       \/ /\ id # None /\ id.type = "ek" => CheckEkOwner
          /\ at' = "scan" /\ UNCHANGED reply
    /\ UNCHANGED <<world, changes, req, id, raw, groups, jwt, up, was>>

(* As if an Environment granted a target it does not host. *)
checkPkUnhosted == UNION {world.env[e].teams \cap world.teams : e \in Envs}

checkPk == UNION {Grants(world, e, req.name) : e \in Envs}

(* The name must be one of the bound Environment's; the groups are the owner's. *)
checkEk == IF req.name \in world.env[Bound].names THEN checkPk ELSE {}

(* Step 4 of the agent routes.  Without identity there is nothing to check. *)
Check ==
    LET granted == IF id.type = "ek" THEN checkEk ELSE checkPk IN
    /\ at = "check"
    /\ \/ /\ id = None /\ at' = "forward" /\ UNCHANGED <<groups, reply>>
       \/ /\ id # None /\ granted = {} /\ Answer(403) /\ UNCHANGED groups
       \/ /\ id # None /\ Answer(503) /\ UNCHANGED groups
       \/ /\ id # None /\ granted # {} /\ at' = "policy" /\ groups' = granted
          /\ UNCHANGED reply
    /\ UNCHANGED <<world, changes, req, id, raw, jwt, up, was>>

-----------------------------------------------------------------------------
(* The body scan *)

Bad(code) == [ok |-> FALSE, code |-> code, fields |-> {}]
Kept(fields) == [ok |-> TRUE, code |-> 200, fields |-> fields]

(* LiteLLM's own controls, and tools of type "mcp". *)
refuseParams(fields) == "control" \in fields

(* Of one object: metadata sent as a string must parse. *)
stripObjTags(fields) ==
    IF refuseParams(fields) \/ "unparsed metadata" \in fields THEN Bad(400)
    ELSE Kept(fields \ {"tags", "metadata.tags"})

(* As if the objects under params were not looked at. *)
stripJSONTagsTop(b) ==
    IF ~stripObjTags(b.top).ok THEN None
    ELSE [b EXCEPT !.top = stripObjTags(b.top).fields]

stripJSONTags(b) ==
    IF ~(stripObjTags(b.top).ok /\ stripObjTags(b.params).ok) THEN None
    ELSE [b EXCEPT !.top = stripObjTags(b.top).fields, !.params = stripObjTags(b.params).fields]

(* Of a form: a tag-bearing field is refused, not stripped. *)
checkForm(b) == IF b.top \cap {"tags", "metadata.tags", "unparsed metadata", "control"} = {}
                THEN b ELSE None

(* The body to forward, or None for a 400. *)
stripBodyTags(b) ==
    CASE b.kind = "empty" -> b
      [] b.kind = "json" -> stripJSONTags(b)
      [] b.kind \in {"multipart", "urlencoded"} -> checkForm(b)
      [] OTHER -> None

(* /gemini: an allowed model action, and no other model in a JSON body. *)
geminiPathModel == req.action \in {"generateContent", "list"}
bodyModelMatches(b) ==
    b.kind = "empty" \/ (b.kind = "json" /\ "other model" \notin b.top \cup b.params)

Scan ==
    LET b == stripBodyTags(req.body) IN
    /\ at = "scan"
    /\ IF req.route = "gemini" /\ ~geminiPathModel THEN Answer(404) /\ UNCHANGED req
       ELSE IF req.route = "mcp" THEN at' = "check" /\ UNCHANGED <<req, reply>>
       ELSE IF b = None THEN \E code \in {400, 413} : Answer(code) /\ UNCHANGED req
       ELSE IF req.route = "gemini" /\ req.action # "list" /\ ~bodyModelMatches(b)
            THEN Answer(400) /\ UNCHANGED req
       ELSE /\ req' = [req EXCEPT !.body = b] /\ UNCHANGED reply
            /\ at' = IF AgentRoute THEN "check" ELSE "forward"
    /\ UNCHANGED <<world, changes, id, raw, groups, jwt, up, was>>

-----------------------------------------------------------------------------
(* The identity policy and the JWT *)

filterShellTeams(ts) == ts \ ShellTeams

(* As if an agent key's request kept the client's Authorization. *)
PolicyKeepsAuthorization ==
    /\ at = "policy"
    /\ \/ /\ world.policy # "on" /\ at' = "forward" /\ UNCHANGED <<jwt, reply, req>>
       \/ /\ world.policy = "on" /\ jwt' = filterShellTeams(groups) /\ at' = "forward"
          /\ UNCHANGED <<reply, req>>
    /\ UNCHANGED <<world, changes, id, raw, groups, up, was>>

(* No policy, or one that opts out: an ek_ travels with nothing. *)
Policy ==
    /\ at = "policy"
    /\ \/ /\ world.policy # "on" /\ at' = "forward" /\ UNCHANGED <<jwt, reply>>
          /\ req' = IF id.type = "ek" THEN [req EXCEPT !.header.authorization = None] ELSE req
       \/ /\ world.policy = "on" /\ jwt' = filterShellTeams(groups) /\ at' = "forward"
          /\ UNCHANGED <<reply, req>>
       \/ /\ world.policy = "on" /\ Answer(500) /\ UNCHANGED <<jwt, req>>
    /\ UNCHANGED <<world, changes, id, raw, groups, up, was>>

-----------------------------------------------------------------------------
(* The Director, the upstream and the response *)

tagsForContext ==
    IF id = None THEN {} ELSE {"user"} \cup (IF id.type = "ek" THEN {"env", "key"} ELSE {})

stampTags == tagsForContext

(* x-ach-* goes; the LiteLLM key is the caller's own, sealed or as presented. *)
stripAndRewrite(h) == [h EXCEPT !.ach = None]
Material == IF raw THEN "presented" ELSE IF id # None THEN "own" ELSE None

Director ==
    [tags |-> stampTags, body |-> req.body, key |-> Material,
     authorization |-> IF jwt # None THEN "ach jwt"
                       ELSE IF req.action = "realtime" /\ Material # None THEN "litellm key"
                       ELSE stripAndRewrite(req.header).authorization]

Forward ==
    /\ at = "forward"
    /\ up' = Director /\ at' = "upstream"
    /\ UNCHANGED <<world, changes, req, id, raw, groups, jwt, reply, was>>

Challenges == [scheme : {None, "Bearer", "Basic"}, pointer : {None, "litellm", "foreign path"}]

(* As if a pointer were only rewritten, never added. *)
rewriteChallengeHostOnly(code, c) ==
    IF code \in {401, 403} /\ c.pointer = "litellm" THEN [c EXCEPT !.pointer = "ach"] ELSE c

insertResourceMetadata(code, c) ==
    IF c.scheme = "Bearer" \/ (c.scheme = None /\ code = 401)
    THEN [scheme |-> "Bearer", pointer |-> "ach"] ELSE c

(* Every 401 and 403 challenge with a metadata pointer names ACH's document. *)
rewriteChallengeHost(code, c) ==
    CASE code \notin {401, 403} -> c
      [] c.pointer = "litellm" -> [c EXCEPT !.pointer = "ach"]
      [] c.pointer = "foreign path" -> c
      [] OTHER -> IF AgentRoute THEN insertResourceMetadata(code, c) ELSE c

(* LiteLLM answers; a challenge without a scheme has no pointer. *)
ModifyResponse ==
    /\ at = "upstream"
    /\ \E code \in {200, 401, 403}, c \in Challenges :
          /\ c.scheme # "Bearer" => c.pointer = None
          /\ code = 200 => c.scheme = None
          /\ reply' = [status |-> code, challenge |-> rewriteChallengeHost(code, c)]
    /\ at' = "streamed"
    /\ UNCHANGED <<world, changes, req, id, raw, groups, jwt, up, was>>

(* No answer: the key ended while waiting, the client left, or LiteLLM is down. *)
ErrorHandler ==
    /\ at = "upstream"
    /\ \/ id # None /\ Answer(401)
       \/ Answer(499)
       \/ Answer(502)
    /\ UNCHANGED <<world, changes, req, id, raw, groups, jwt, up, was>>

-----------------------------------------------------------------------------

(* A cache is refreshed: an Environment, the owner's teams, or the policy. *)
WorldChanges ==
    /\ at \notin Done /\ changes < MaxChanges
    /\ changes' = changes + 1
    /\ \/ \E e \in Envs, ns \in SUBSET Names, ts \in SUBSET Teams :
             world' = [world EXCEPT !.env[e] = [names |-> ns, teams |-> ts]]
       \/ \E ts \in SUBSET Teams : world' = [world EXCEPT !.teams = ts]
       \/ \E p \in {None, "off", "on"} : world' = [world EXCEPT !.policy = p]
    /\ was' = was \cup {world'}
    /\ UNCHANGED <<at, req, id, raw, groups, jwt, up, reply>>

Next == Authn \/ EkOwnerGate \/ Scan \/ Check \/ Policy \/ Forward
        \/ ModifyResponse \/ ErrorHandler \/ WorldChanges

Spec == Init /\ [][Next]_vars

-----------------------------------------------------------------------------

(* "A client never chooses its own attribution": what LiteLLM charges is    *)
(* exactly the caller's identity, neither in the tag header, whatever the   *)
(* client named in Connection, nor in a body LiteLLM reads tags from.       *)
AttributionIsTheCallers ==
    up # None =>
        /\ up.tags = tagsForContext
        /\ req.route # "mcp" => {"tags", "metadata.tags"} \cap (up.body.top \cup up.body.params) = {}

(* "An ek_ reaches a backend with its JWT or with nothing", whichever slot  *)
(* carried the key and whatever the client put into Authorization.          *)
AgentKeyTravelsAlone ==
    up # None /\ id # None /\ id.type = "ek" /\ AgentRoute =>
        up.authorization \in {None, "ach jwt"}

(* A request that reaches an agent with an ACH identity carries only groups  *)
(* that an Environment hosting the target granted its owner while it ran,    *)
(* and no shell team, however the caches changed under it.                   *)
GroupsWereHeld ==
    up # None /\ id # None /\ AgentRoute =>
        /\ groups # {} /\ \E w \in was : groups = UNION {Grants(w, e, req.name) : e \in Envs}
        /\ jwt # None => jwt \cap ShellTeams = {}

(* D-30: an ek_ is forwarded only if its owner shared a team with its        *)
(* Environment while the request ran, and to an agent only if that           *)
(* Environment hosted it.                                                    *)
AgentKeyStaysHome ==
    up # None /\ id # None /\ id.type = "ek" =>
        /\ \E w \in was : w.env[Bound].teams \cap w.teams # {}
        /\ AgentRoute => \E w \in was : req.name \in w.env[Bound].names

(* A 401 leaving an agent route sends the client to ACH's authorization     *)
(* server: the challenge has ACH's pointer unless the upstream's scheme is  *)
(* not Bearer or its pointer is no metadata path.                           *)
ChallengeNamesACH ==
    at = "streamed" /\ AgentRoute /\ reply.status = 401 =>
        reply.challenge.pointer = "ach" \/ reply.challenge.pointer = "foreign path"
        \/ reply.challenge.scheme = "Basic"
=============================================================================
