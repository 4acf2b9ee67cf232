----------------------------- MODULE LoginFlows -----------------------------
(***************************************************************************)
(* internal/platformapi/auth: from "log me in" to a credential.  A tool    *)
(* registers as a client and sends a browser to /authorize, or asks for a  *)
(* device code that a person types into a browser, or the web console asks *)
(* for itself.  Each parks a pending record in Redis, binds it to the      *)
(* browser with a cookie and sends that browser to Dex; as-callback takes  *)
(* the record and ends in an authorization code, an approved device or a   *)
(* console session, by way of a consent broker where the MCP server's      *)
(* policy asks for one.                                                    *)
(*                                                                         *)
(* Dex's and the broker's URLs may be opened in any browser; every record  *)
(* may expire at any time; requests of different flows interleave at their *)
(* store accesses.  What a credential is worth later is OAuthSessions.     *)
(***************************************************************************)
EXTENDS Naturals, FiniteSets

CONSTANTS
    Browsers,
    Clients,     \* tools that may register
    Flows,       \* names of pending records
    Devices,     \* names of device codes
    URIs,        \* redirect URIs: [loop, host, port]
    Hosts,       \* RedirectHosts
    None

VARIABLES
    client,   \* the registered redirect of each client
    pend,     \* pending records
    cookie,   \* the flows each browser holds a binding cookie for
    hs,       \* what the request that took a flow's record holds, and where it stands
    chain,    \* flows parked while the browser is at the consent broker
    code,     \* authorization codes, named after their flows
    dev,      \* device records
    index,    \* the devices whose user code still leads to them
    polls,    \* polls of a device that have seen it approved and not yet taken it
    granted,  \* browsers whose user has consented at the broker
    starter,  \* history: the browser that started a flow, the client that asked for a device
    answers, \* history: the flows that approved or denied a device
    degraded, \* history: flows whose consent could not be asked for
    won       \* history: the credentials handed out

vars == <<client, pend, cookie, hs, chain, code, dev, index, polls, granted, starter, answers, degraded, won>>

Idle == [pc |-> "idle", user |-> None, p |-> None, status |-> "none"]
Pending == [kind : {"code", "device", "console"}, client : Clients \cup {None}, uri : URIs \cup {None},
            device : Devices \cup {None}, mcp : BOOLEAN, binding : Browsers]
Handler == [pc : {"idle", "exchange", "branch", "probe", "start", "reprobe", "finish", "get", "put", "del"},
            user : Browsers \cup {None}, p : Pending \cup {None}, status : {"none", "approved", "denied"}]
\* A person is known by the browser they are signed in with.
Code == [client : Clients, uri : URIs, user : Browsers]
Device == [client : Clients, status : {"pending", "approved", "denied"}, user : Browsers \cup {None}]

TypeOK ==
    /\ client \in [Clients -> URIs \cup {None}]
    /\ \A f \in Flows :
          /\ pend[f] \in Pending \cup {None}
          /\ hs[f] \in Handler
          /\ chain[f] \in [p : Pending, user : Browsers] \cup {None}
          /\ code[f] \in Code \cup {None}
    /\ cookie \in [Browsers -> SUBSET Flows]
    /\ dev \in [Devices -> Device \cup {None}]
    /\ index \subseteq Devices
    /\ polls \in [Devices -> 0 .. 2]
    /\ granted \subseteq Browsers
    /\ starter \in [Flows \cup Devices -> Browsers \cup Clients \cup {None}]
    /\ answers \in [Devices -> SUBSET Flows]
    /\ degraded \subseteq Flows

Init ==
    /\ client = [c \in Clients |-> None]
    /\ pend = [f \in Flows |-> None]
    /\ cookie = [b \in Browsers |-> {}]
    /\ hs = [f \in Flows |-> Idle]
    /\ chain = [f \in Flows |-> None]
    /\ code = [f \in Flows |-> None]
    /\ dev = [d \in Devices |-> None]
    /\ index = {}
    /\ polls = [d \in Devices |-> 0]
    /\ granted = {}
    /\ starter = [x \in Flows \cup Devices |-> None]
    /\ answers = [d \in Devices |-> {}]
    /\ degraded = {}
    /\ won = {}

isLoopback(u) == u.loop
redirectAllowed(u) == isLoopback(u) \/ u.host \in Hosts

\* Exact, but a loopback redirect may change its port.
redirectMatches(registered, presented) ==
    \/ registered = presented
    \/ isLoopback(registered) /\ isLoopback(presented) /\ registered.host = presented.host

-----------------------------------------------------------------------------
(* Starting a login *)

register(c, u) ==
    /\ client[c] = None
    /\ redirectAllowed(u)
    /\ client' = [client EXCEPT ![c] = u]
    /\ UNCHANGED <<pend, cookie, hs, chain, code, dev, index, polls, granted, starter, answers, degraded, won>>

\* The record, the browser's binding cookie and the redirect to Dex.
Park(f, b, p) ==
    /\ starter[f] = None
    /\ starter' = [starter EXCEPT ![f] = b]
    /\ pend' = [pend EXCEPT ![f] = p]
    /\ cookie' = [cookie EXCEPT ![b] = @ \cup {f}]
    /\ UNCHANGED <<client, hs, chain, code, dev, index, polls, granted, answers, degraded, won>>

authorize(b, c, u, f, mcp) ==
    /\ client[c] # None
    /\ redirectMatches(client[c], u) /\ redirectAllowed(u)
    /\ Park(f, b, [kind |-> "code", client |-> c, uri |-> u, device |-> None, mcp |-> mcp, binding |-> b])

consoleLogin(b, f) ==
    Park(f, b, [kind |-> "console", client |-> None, uri |-> None, device |-> None, mcp |-> FALSE, binding |-> b])

\* The device record and the user code's entry are two writes; the tool learns
\* of neither when the second fails.
deviceAuthorization(c, d) ==
    /\ client[c] # None
    /\ starter[d] = None
    /\ starter' = [starter EXCEPT ![d] = c]
    /\ dev' = [dev EXCEPT ![d] = [client |-> c, status |-> "pending", user |-> None]]
    /\ index' \in {index, index \cup {d}}
    /\ UNCHANGED <<client, pend, cookie, hs, chain, code, polls, granted, answers, degraded, won>>

\* The person confirms the code in their browser.
devicePage(b, d, f) ==
    /\ d \in index
    /\ Park(f, b, [kind |-> "device", client |-> None, uri |-> None, device |-> d, mcp |-> FALSE, binding |-> b])

-----------------------------------------------------------------------------
(* asCallback *)

\* One more credential for a flow or a device.
Win(id, to, user) ==
    won' = won \cup {[id |-> id, to |-> to, user |-> user, nth |-> Cardinality({w \in won : w.id = id})]}

\* The browser has no binding cookie for a flow that is over or not its own.
DropCookie(b, f) == cookie' = [cookie EXCEPT ![b] = @ \ {f}]

\* As if whoever arrives with the state were taken for the one who started.
asCallbackUnbound(b, f, refused) ==
    /\ pend[f] # None
    /\ pend' = [pend EXCEPT ![f] = None]
    /\ hs' = [hs EXCEPT ![f] = [Idle EXCEPT !.pc = "exchange", !.user = b, !.p = pend[f]]]
    /\ UNCHANGED <<client, cookie, chain, code, dev, index, polls, granted, starter, answers, degraded, won>>

\* Dex sends browser b back, signed in or refused.  The record is taken before
\* the cookie is looked at: a wrong browser burns it.
asCallback(b, f, refused) ==
    LET p == pend[f] IN
    /\ p # None
    /\ pend' = [pend EXCEPT ![f] = None]
    /\ CASE f \notin cookie[b] \/ p.binding # b -> hs' = hs /\ DropCookie(b, f)
         [] refused /\ p.kind = "device" ->
               /\ hs' = [hs EXCEPT ![f] = [Idle EXCEPT !.pc = "get", !.p = p, !.status = "denied"]]
               /\ DropCookie(b, f)
         [] refused /\ p.kind # "device" -> UNCHANGED <<hs, cookie>>
         [] OTHER -> /\ hs' = [hs EXCEPT ![f] = [Idle EXCEPT !.pc = "exchange", !.user = b, !.p = p]]
                     /\ UNCHANGED cookie
    /\ UNCHANGED <<client, chain, code, dev, index, polls, granted, starter, answers, degraded, won>>

Goto(f, pc) == hs' = [hs EXCEPT ![f].pc = pc]
End(f) == hs' = [hs EXCEPT ![f] = Idle]

\* dexExchange, the Dex token's Put, SessionGen and provisionUser: any of them
\* may fail and end the login.
Exchange(f) ==
    /\ hs[f].pc = "exchange"
    /\ Goto(f, "branch") \/ End(f)
    /\ UNCHANGED <<client, pend, cookie, chain, code, dev, index, polls, granted, starter, answers, degraded, won>>

\* The pk_ row is there, then the session and its cookie.
consoleFinish(f) ==
    /\ hs[f].pc = "branch" /\ hs[f].p.kind = "console"
    /\ Win(f, hs[f].p.binding, hs[f].user)
    /\ DropCookie(hs[f].p.binding, f)
    /\ End(f)
    /\ UNCHANGED <<client, pend, chain, code, dev, index, polls, granted, starter, answers, degraded>>

\* What comes after provisioning for a device, a plain code and one whose MCP
\* server has a consent policy.
Branch(f) ==
    /\ hs[f].pc = "branch" /\ hs[f].p.kind # "console"
    /\ hs' = [hs EXCEPT ![f].pc = CASE hs[f].p.kind = "device" -> "get"
                                    [] hs[f].p.mcp -> "probe"
                                    [] OTHER -> "finish",
                        ![f].status = IF hs[f].p.kind = "device" THEN "approved" ELSE "none"]
    /\ UNCHANGED <<client, pend, cookie, chain, code, dev, index, polls, granted, starter, answers, degraded, won>>

\* finish: the code, and the browser goes back to the tool.
finish(f) ==
    /\ hs[f].pc = "finish"
    /\ code' = [code EXCEPT ![f] = [client |-> hs[f].p.client, uri |-> hs[f].p.uri, user |-> hs[f].user]]
    /\ DropCookie(hs[f].p.binding, f)
    /\ End(f)
    /\ UNCHANGED <<client, pend, chain, dev, index, polls, granted, starter, answers, degraded, won>>

\* The process dies in the middle of a request.
Dies(f) ==
    /\ hs[f].pc # "idle"
    /\ End(f)
    /\ UNCHANGED <<client, pend, cookie, chain, code, dev, index, polls, granted, starter, answers, degraded, won>>

-----------------------------------------------------------------------------
(* The consent broker *)

\* probeGrant asks the MCP server as the user: it works, it wants consent, or
\* there is no telling.
probeGrant(user) == {"other"} \cup IF user \in granted THEN {"ok"} ELSE {"auth_required"}

\* Only auth_required starts the chain; a policy or a probe that cannot be read
\* issues without it.
Probe(f) ==
    /\ hs[f].pc = "probe"
    /\ \E o \in probeGrant(hs[f].user) :
          /\ Goto(f, IF o = "auth_required" THEN "start" ELSE "finish")
          /\ degraded' = IF o = "other" THEN degraded \cup {f} ELSE degraded
    /\ UNCHANGED <<client, pend, cookie, chain, code, dev, index, polls, granted, starter, answers, won>>

\* chainStart: the flow is parked once more while the browser is at the broker,
\* or the broker cannot be used and the code is issued without it.
chainStart(f) ==
    /\ hs[f].pc = "start"
    /\ \/ /\ chain' = [chain EXCEPT ![f] = [p |-> hs[f].p, user |-> hs[f].user]]
          /\ End(f)
          /\ UNCHANGED degraded
       \/ /\ Goto(f, "finish")
          /\ degraded' = degraded \cup {f}
          /\ UNCHANGED chain
    /\ UNCHANGED <<client, pend, cookie, code, dev, index, polls, granted, starter, answers, won>>

\* The user consents at the broker.
Consent(b) ==
    /\ b \notin granted
    /\ granted' = granted \cup {b}
    /\ UNCHANGED <<client, pend, cookie, hs, chain, code, dev, index, polls, starter, answers, degraded, won>>

brokerCallback(b, f) ==
    LET c == chain[f] IN
    /\ c # None
    /\ chain' = [chain EXCEPT ![f] = None]
    /\ IF f \in cookie[b] /\ c.p.binding = b
       THEN /\ hs' = [hs EXCEPT ![f] = [Idle EXCEPT !.pc = "reprobe", !.user = c.user, !.p = c.p]]
            /\ UNCHANGED cookie
       ELSE hs' = hs /\ DropCookie(b, f)
    /\ UNCHANGED <<client, pend, code, dev, index, polls, granted, starter, answers, degraded, won>>

\* As if coming back from the broker without an error were consent.
ReprobeTrusting(f) ==
    /\ hs[f].pc = "reprobe"
    /\ Goto(f, "finish")
    /\ UNCHANGED <<client, pend, cookie, chain, code, dev, index, polls, granted, starter, answers, degraded, won>>

\* What the broker said does not matter: the server is asked again.
Reprobe(f) ==
    /\ hs[f].pc = "reprobe"
    /\ \E o \in probeGrant(hs[f].user) :
          IF o = "ok" THEN Goto(f, "finish") /\ UNCHANGED cookie
          ELSE End(f) /\ DropCookie(hs[f].p.binding, f)
    /\ UNCHANGED <<client, pend, chain, code, dev, index, polls, granted, starter, answers, degraded, won>>

-----------------------------------------------------------------------------
(* Devices *)

\* deviceFinish: only a pending device goes on, ...
DeviceGet(f) ==
    /\ hs[f].pc = "get"
    /\ DropCookie(hs[f].p.binding, f)
    /\ LET d == dev[hs[f].p.device]
       IN IF d # None /\ d.status = "pending"
          THEN hs' = [hs EXCEPT ![f].pc = "put", ![f].p.client = d.client]
          ELSE End(f)
    /\ UNCHANGED <<client, pend, chain, code, dev, index, polls, granted, starter, answers, degraded, won>>

\* ...it is written back with the outcome, ...
DevicePut(f) ==
    LET d == hs[f].p.device IN
    /\ hs[f].pc = "put"
    /\ dev' = [dev EXCEPT ![d] = [client |-> hs[f].p.client, status |-> hs[f].status, user |-> hs[f].user]]
    /\ answers' = [answers EXCEPT ![d] = @ \cup {f}]
    /\ Goto(f, "del")
    /\ UNCHANGED <<client, pend, cookie, chain, code, index, polls, granted, starter, degraded, won>>

\* ...and its user code dies.
DeviceDel(f) ==
    /\ hs[f].pc = "del"
    /\ index' = index \ {hs[f].p.device}
    /\ End(f)
    /\ UNCHANGED <<client, pend, cookie, chain, code, dev, polls, granted, starter, answers, degraded, won>>

\* deviceToken: a denied record is dropped, an approved one is seen...
devicePoll(c, d) ==
    /\ dev[d] # None /\ dev[d].client = c
    /\ \/ /\ dev[d].status = "denied"
          /\ dev' = [dev EXCEPT ![d] = None]
          /\ UNCHANGED polls
       \/ /\ dev[d].status = "approved" /\ polls[d] < 2
          /\ polls' = [polls EXCEPT ![d] = @ + 1]
          /\ UNCHANGED dev
    /\ UNCHANGED <<client, pend, cookie, hs, chain, code, index, granted, starter, answers, degraded, won>>

\* As if the approved record were left for the next poll.
deviceTakeLeaving(d) ==
    /\ polls[d] > 0
    /\ polls' = [polls EXCEPT ![d] = @ - 1]
    /\ IF dev[d] = None THEN won' = won ELSE Win(d, dev[d].client, dev[d].user)
    /\ UNCHANGED <<client, pend, cookie, hs, chain, code, dev, index, granted, starter, answers, degraded>>

\* ...and then taken, by one poll; the tokens are the approver's.
deviceTake(d) ==
    /\ polls[d] > 0
    /\ polls' = [polls EXCEPT ![d] = @ - 1]
    /\ dev' = [dev EXCEPT ![d] = None]
    /\ IF dev[d] = None THEN won' = won ELSE Win(d, dev[d].client, dev[d].user)
    /\ UNCHANGED <<client, pend, cookie, hs, chain, code, index, granted, starter, answers, degraded>>

-----------------------------------------------------------------------------
(* Redeeming a code; expiry *)

\* token, grant_type=authorization_code: taken whatever follows.  Only the tool
\* that began the flow has its PKCE verifier.
redeemCode(c, u, f) ==
    /\ code[f] # None
    /\ code' = [code EXCEPT ![f] = None]
    /\ IF code[f].client = c /\ redirectMatches(code[f].uri, u) THEN Win(f, c, code[f].user) ELSE won' = won
    /\ UNCHANGED <<client, pend, cookie, hs, chain, dev, index, polls, granted, starter, answers, degraded>>

Expire ==
    /\ \/ \E f \in Flows : pend[f] # None /\ pend' = [pend EXCEPT ![f] = None] /\ UNCHANGED <<chain, code, dev, index>>
       \/ \E f \in Flows : chain[f] # None /\ chain' = [chain EXCEPT ![f] = None] /\ UNCHANGED <<pend, code, dev, index>>
       \/ \E f \in Flows : code[f] # None /\ code' = [code EXCEPT ![f] = None] /\ UNCHANGED <<pend, chain, dev, index>>
       \/ \E d \in Devices : dev[d] # None /\ dev' = [dev EXCEPT ![d] = None] /\ UNCHANGED <<pend, chain, code, index>>
       \/ \E d \in index : index' = index \ {d} /\ UNCHANGED <<pend, chain, code, dev>>
    /\ UNCHANGED <<client, cookie, hs, polls, granted, starter, answers, degraded, won>>

Next ==
    \/ \E c \in Clients, u \in URIs : register(c, u)
    \/ \E b \in Browsers, f \in Flows :
          \/ \E c \in Clients, u \in URIs, mcp \in BOOLEAN : authorize(b, c, u, f, mcp)
          \/ consoleLogin(b, f)
          \/ \E d \in Devices : devicePage(b, d, f)
          \/ \E refused \in BOOLEAN : asCallback(b, f, refused)
          \/ brokerCallback(b, f)
    \/ \E f \in Flows :
          \/ Exchange(f) \/ consoleFinish(f) \/ Branch(f) \/ finish(f) \/ Probe(f) \/ chainStart(f)
          \/ Reprobe(f) \/ Dies(f) \/ DeviceGet(f) \/ DevicePut(f) \/ DeviceDel(f)
          \/ \E c \in Clients, u \in URIs : redeemCode(c, u, f)
    \/ \E b \in Browsers : Consent(b)
    \/ \E d \in Devices :
          \/ \E c \in Clients : deviceAuthorization(c, d) \/ devicePoll(c, d)
          \/ deviceTake(d)
    \/ Expire

Spec == Init /\ [][Next]_vars

-----------------------------------------------------------------------------
(* Properties *)

\* The binding cookie (oauthPending): whatever browser a Dex or broker URL ends
\* up in, a code or a session is only ever for the person who started the flow,
\* and a device that gets someone's tokens gets those of a person who confirmed
\* its code themselves.
SignedInAsTheStarter ==
    \A w \in won :
        IF w.id \in Flows THEN w.user = starter[w.id]
        ELSE /\ w.to = starter[w.id]
             /\ w.user # None => \E f \in answers[w.id] : starter[f] = w.user

\* asCallback, token and deviceToken take what they redeem: a flow buys one
\* credential, and a device one for each flow that answered it.  (Two flows that
\* confirm one code at the same time both find it pending: the second write
\* brings a redeemed record back.)
RedeemedOnce ==
    /\ \A w \in won : w.id \in Flows => w.nth = 0
    /\ \A d \in Devices : Cardinality({w \in won : w.id = d}) <= Cardinality(answers[d])

\* deviceFinish says of a cancelled device "no credential was issued", and
\* deviceToken issues when it finds the record approved: a device's tokens are
\* someone's.
DeviceTokensAreSomeones == \A w \in won : w.id \in Devices => w.user # None

\* chainStart and brokerCallback: a code for an MCP server that asks for consent
\* is issued to a user who has consented, or when consent could not be asked for.
ConsentedOrDegraded ==
    \A f \in Flows : hs[f].pc = "finish" /\ hs[f].p.mcp => hs[f].user \in granted \/ f \in degraded
=============================================================================
