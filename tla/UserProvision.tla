---------------------------- MODULE UserProvision ----------------------------
(***************************************************************************)
(* What a login and a grant leave in LiteLLM for one person                *)
(* (platformapi/auth/sso.go, teams.go, mint.go, ensureOAuthPK; the user,   *)
(* team and tag calls of internal/litellm): the user record, the team      *)
(* memberships, the spend ceiling on the tag user:<email>, the personal    *)
(* shell team and the key behind the person's oauth pk_ row.               *)
(*                                                                         *)
(* Logins, grants and an administrator's PATCH of the ceiling run          *)
(* concurrently on any replica; every call to LiteLLM is a step, and may   *)
(* fail.  LiteLLM has no transactions and no upsert.                       *)
(***************************************************************************)
EXTENDS Naturals, FiniteSets

CONSTANTS
    Procs,       \* logins and grants
    Admin,       \* the PATCH request
    Default,     \* teams every login must join
    Extra,       \* teams the chart maps to this person
    Keys,        \* LiteLLM keys
    Ceiling,     \* the chart's default budget
    Patched,     \* the administrator's
    MaxMoves,    \* bound on what is done to LiteLLM behind ACH's back
    MaxFails,    \* bound on failing calls
    None

VARIABLES
    teams,     \* the teams that exist
    members,   \* the teams the person is in
    users,     \* the person's user record: {} or {"email"} (user_id = email)
    tag,       \* the tag: "absent", "bare" (auto-created, no budget) or "bound"
    budget,    \* the budget object named after the tag
    shell,     \* the personal shell team: "none", "deny", "drift"
    live,      \* keys LiteLLM honours
    row,       \* the key of the active purpose='oauth' row
    p,         \* the requests
    moves,
    fails,
    torn,      \* history: the tag was deleted by a rebind that never bound it
    left       \* history: the requests since whose start the person was taken out of a team

vars == <<teams, members, users, tag, budget, shell, live, row, p, moves, fails, torn, left>>

Actors == Procs \cup {Admin}
Idle == [pc |-> "idle", kind |-> "none", todo |-> {}, info |-> "absent", want |-> None, key |-> None, alone |-> FALSE]
Pcs == {"idle", "lookup", "new", "enrol", "extra", "seed", "info", "budget", "update", "drop", "bind",
        "row", "revoke", "shell", "repair", "generate", "insert", "compensate", "done", "over"}

TypeOK ==
    /\ teams \subseteq Default \cup Extra
    /\ members \subseteq Default \cup Extra
    /\ users \subseteq {"email"}
    /\ tag \in {"absent", "bare", "bound"}
    /\ budget \in {None, Ceiling, Patched}
    /\ shell \in {"none", "deny", "drift"}
    /\ live \subseteq Keys
    /\ row \in Keys \cup {None}
    /\ \A a \in Actors : p[a].pc \in Pcs /\ p[a].todo \subseteq Default \cup Extra /\ p[a].key \in Keys \cup {None}
    /\ moves \in 0 .. MaxMoves /\ fails \in 0 .. MaxFails
    /\ torn \in BOOLEAN /\ left \subseteq Procs

Init ==
    /\ teams = Default \cup Extra
    /\ members = {}
    /\ users = {}
    /\ tag \in {"absent", "bare"}
    /\ budget = None
    /\ shell = "none"
    /\ row \in {None, CHOOSE k \in Keys : TRUE} /\ live = {row} \ {None}
    /\ p = [a \in Actors |-> Idle]
    /\ moves = 0 /\ fails = 0
    /\ torn = FALSE /\ left = {}

LiteLLM == <<teams, members, users, tag, budget, shell, live, row>>
Goto(a, pc) == p' = [p EXCEPT ![a].pc = pc]
End(a) == p' = [p EXCEPT ![a] = [Idle EXCEPT !.pc = "over"]]
Upserting == {"info", "budget", "update", "drop", "bind"}
\* The request's answer; what it held is forgotten.
Done(a) == p' = [p EXCEPT ![a] = [Idle EXCEPT !.pc = "done", !.kind = p[a].kind, !.alone = p[a].alone]]

-----------------------------------------------------------------------------
(* provisionUser *)

\* ResolveTeamIDs comes first: a default team that is missing fails the login.
StartLogin(a) ==
    /\ p[a].pc = "idle"
    /\ IF Default \subseteq teams
       THEN p' = [p EXCEPT ![a] = [Idle EXCEPT !.pc = "lookup", !.kind = "login", !.todo = Default]]
       ELSE End(a)
    /\ left' = left \ {a}
    /\ UNCHANGED <<LiteLLM, moves, fails, torn>>

\* UserInfoByEmail: by id, then by email.  LiteLLM's answer may miss a user that
\* is there (its placeholder answer).
UserInfoByEmail(a) ==
    /\ p[a].pc = "lookup"
    /\ \/ users # {} /\ Goto(a, "enrol")
       \/ Goto(a, "new")
    /\ UNCHANGED <<LiteLLM, moves, fails, torn, left>>

\* UserNew, with user_id = email and the default teams; a duplicate is the user
\* the lookup missed.
UserNew(a) ==
    /\ p[a].pc = "new"
    /\ users' = users \cup {"email"}
    /\ members' = IF "email" \in users THEN members ELSE members \cup (p[a].todo \cap teams)
    /\ Goto(a, "enrol")
    /\ UNCHANGED <<teams, tag, budget, shell, live, row, moves, fails, torn, left>>

\* As if a user LiteLLM knows were in their teams already.
EnrolDefaultsOfNew(a) ==
    /\ p[a].pc = "enrol"
    /\ p' = [p EXCEPT ![a].pc = "extra", ![a].todo = Extra]
    /\ UNCHANGED <<LiteLLM, moves, fails, torn, left>>

\* enrolDefaults: every default team, for new users and known ones; being there
\* already is fine, a team that is gone fails the login.
EnrolDefaults(a) ==
    /\ p[a].pc = "enrol"
    /\ \/ /\ p[a].todo = {}
          /\ p' = [p EXCEPT ![a].pc = "extra", ![a].todo = Extra]
          /\ UNCHANGED members
       \/ \E t \in p[a].todo :
             IF t \in teams
             THEN /\ members' = members \cup {t}
                  /\ p' = [p EXCEPT ![a].todo = @ \ {t}]
             ELSE End(a) /\ UNCHANGED members
    /\ UNCHANGED <<teams, users, tag, budget, shell, live, row, moves, fails, torn, left>>

\* enrollExtraTeams: what exists is joined; nothing here fails a login.
EnrollExtraTeams(a) ==
    /\ p[a].pc = "extra"
    /\ members' = members \cup (p[a].todo \cap teams)
    /\ p' = [p EXCEPT ![a].pc = "seed", ![a].todo = {}, ![a].want = Ceiling]
    /\ UNCHANGED <<teams, users, tag, budget, shell, live, row, moves, fails, torn, left>>

-----------------------------------------------------------------------------
(* The spend ceiling *)

Upserted(a) == IF p[a].kind = "grant" THEN Goto(a, "row") ELSE Done(a)

\* upsertUserBudgetTag: a tag that has a budget is left alone.
Seed(a) ==
    /\ p[a].pc = "seed"
    /\ IF tag = "bound"
       THEN Upserted(a)
       ELSE p' = [p EXCEPT ![a].pc = "info", ![Admin].alone = @ /\ p[Admin].pc = "done"]
    /\ UNCHANGED <<LiteLLM, moves, fails, torn, left>>

\* PATCH /platform/admin/users/{email}/budget.  (History: does anyone else set
\* the ceiling while the PATCH runs?)
AdminPatch ==
    /\ p[Admin].pc = "idle"
    /\ p' = [p EXCEPT ![Admin] = [Idle EXCEPT !.pc = "info", !.kind = "patch", !.want = Patched,
                                              !.alone = \A a \in Procs : p[a].pc \notin Upserting]]
    /\ UNCHANGED <<LiteLLM, moves, fails, torn, left>>

\* UpsertTagBudget reads the tag, and writes nothing when it is bound to this
\* very ceiling.
TagInfo(a) ==
    /\ p[a].pc = "info"
    /\ IF tag = "bound" /\ budget = p[a].want THEN Upserted(a)
       ELSE p' = [p EXCEPT ![a].pc = IF tag = "bound" THEN "update" ELSE "budget", ![a].info = tag]
    /\ UNCHANGED <<LiteLLM, moves, fails, torn, left>>

\* The tag is bound: only the budget object changes.
BudgetUpdate(a) ==
    /\ p[a].pc = "update"
    /\ budget' = p[a].want
    /\ Upserted(a)
    /\ UNCHANGED <<teams, members, users, tag, shell, live, row, moves, fails, torn, left>>

\* /budget/new, or /budget/update when there is one by that name.
BudgetNew(a) ==
    /\ p[a].pc = "budget"
    /\ budget' = p[a].want
    /\ Goto(a, IF p[a].info = "absent" THEN "bind" ELSE "drop")
    /\ UNCHANGED <<teams, members, users, tag, shell, live, row, moves, fails, torn, left>>

\* A tag without a budget cannot be bound to one: it is deleted...
TagDelete(a) ==
    /\ p[a].pc = "drop"
    /\ tag' = "absent"
    /\ torn' = TRUE
    /\ Goto(a, "bind")
    /\ UNCHANGED <<teams, members, users, budget, shell, live, row, moves, fails, left>>

\* As if the answer of /tag/new did not matter.
TagNewUnchecked(a) ==
    /\ p[a].pc = "bind"
    /\ tag' = IF tag = "absent" THEN "bound" ELSE tag
    /\ torn' = IF tag = "absent" THEN FALSE ELSE torn
    /\ Upserted(a)
    /\ UNCHANGED <<teams, members, users, budget, shell, live, row, moves, fails, left>>

\* ...and made again, bound; /tag/new fails when someone else has made it by now.
TagNew(a) ==
    /\ p[a].pc = "bind"
    /\ IF tag = "absent"
       THEN tag' = "bound" /\ torn' = FALSE /\ Upserted(a)
       ELSE /\ UNCHANGED <<tag, torn>>
            /\ IF p[a].kind = "grant" THEN Goto(a, "row") ELSE End(a)
    /\ UNCHANGED <<teams, members, users, budget, shell, live, row, moves, fails, left>>

-----------------------------------------------------------------------------
(* ensureOAuthPK and MintPK *)

\* Every grant crosses here, a session's first and each refresh.
StartGrant(a) ==
    /\ p[a].pc = "idle"
    /\ p' = [p EXCEPT ![a] = [Idle EXCEPT !.pc = "seed", !.kind = "grant", !.want = Ceiling]]
    /\ UNCHANGED <<LiteLLM, moves, fails, torn, left>>

\* The active row is good while it is not about to expire and LiteLLM has its
\* key; else it is revoked first, for an owner has one active oauth row.
LookupRow(a) ==
    /\ p[a].pc = "row"
    /\ \/ row # None /\ row \in live /\ Done(a)
       \/ row # None /\ p' = [p EXCEPT ![a].pc = "revoke", ![a].key = row]
       \/ row = None /\ Goto(a, "shell")
    /\ UNCHANGED <<LiteLLM, moves, fails, torn, left>>

\* RevokePersonalKey flips that row if it is still the active one, and the key
\* of a row it flipped is revoked; a failure of that is only logged.
RevokeRow(a) ==
    /\ p[a].pc = "revoke"
    /\ IF row = p[a].key
       THEN /\ row' = None
            /\ \/ live' = live \ {p[a].key} /\ UNCHANGED fails
               \/ live' = live /\ fails < MaxFails /\ fails' = fails + 1
       ELSE UNCHANGED <<row, live, fails>>
    /\ p' = [p EXCEPT ![a].pc = "shell", ![a].key = None]
    /\ UNCHANGED <<teams, members, users, tag, budget, shell, moves, torn, left>>

\* CreateTeam; a shell that exists is read and repaired when it drifted.
EnsureShell(a) ==
    /\ p[a].pc = "shell"
    /\ shell' = IF shell = "none" THEN "deny" ELSE shell
    /\ Goto(a, IF shell = "drift" THEN "repair" ELSE "generate")
    /\ UNCHANGED <<teams, members, users, tag, budget, live, row, moves, fails, torn, left>>

\* repairUserShell: budget, models and membership of the person's shell as the
\* chart has them.  (A team of that name that ACH did not make is left alone.)
RepairShell(a) ==
    /\ p[a].pc = "repair"
    /\ shell' = IF shell = "drift" THEN "deny" ELSE shell
    /\ Goto(a, "generate")
    /\ UNCHANGED <<teams, members, users, tag, budget, live, row, moves, fails, torn, left>>

Unused == Keys \ (live \cup {row} \cup {p[a].key : a \in Actors})

KeyGenerate(a) ==
    /\ p[a].pc = "generate"
    /\ \E k \in Unused :
          /\ live' = live \cup {k}
          /\ p' = [p EXCEPT ![a].pc = "insert", ![a].key = k]
    /\ UNCHANGED <<teams, members, users, tag, budget, shell, row, moves, fails, torn, left>>

\* As if the second of two grants overwrote the row of the first.
InsertOver(a) ==
    /\ p[a].pc = "insert"
    /\ row' = p[a].key
    /\ Done(a)
    /\ UNCHANGED <<teams, members, users, tag, budget, shell, live, moves, fails, torn, left>>

\* The INSERT meets the unique index when another grant's row is active.
InsertRow(a) ==
    /\ p[a].pc = "insert"
    /\ IF row = None THEN row' = p[a].key /\ Done(a) ELSE row' = row /\ Goto(a, "compensate")
    /\ UNCHANGED <<teams, members, users, tag, budget, shell, live, moves, fails, torn, left>>

\* The key that has no row is revoked.
Compensate(a) ==
    /\ p[a].pc = "compensate"
    /\ live' = live \ {p[a].key}
    /\ End(a)
    /\ UNCHANGED <<teams, members, users, tag, budget, shell, row, moves, fails, torn, left>>

-----------------------------------------------------------------------------
(* Failures, and what happens behind ACH's back *)

\* A call fails, or the process dies: a login and a PATCH end, a grant goes on
\* without a ceiling or a repair but not without a row; an INSERT that failed is
\* compensated.
Fails(a) ==
    /\ p[a].pc \notin {"idle", "done", "over"} /\ fails < MaxFails
    /\ fails' = fails + 1
    /\ \/ End(a)
       \/ p[a].kind = "grant" /\ p[a].pc \in Upserting \cup {"seed"} /\ Goto(a, "row")
       \/ p[a].pc = "extra" /\ p' = [p EXCEPT ![a].pc = "seed", ![a].todo = {}, ![a].want = Ceiling]
       \/ p[a].pc = "repair" /\ Goto(a, "generate")
       \/ p[a].pc = "insert" /\ Goto(a, "compensate")
    /\ UNCHANGED <<LiteLLM, moves, torn, left>>

Behind ==
    /\ moves < MaxMoves
    /\ moves' = moves + 1
    /\ \/ /\ \E t \in members : members' = members \ {t}         \* an administrator of LiteLLM
          /\ left' = Procs
          /\ UNCHANGED <<teams, tag, shell, live>>
       \/ /\ \E t \in Default \cup Extra :
                teams' = IF t \in teams THEN teams \ {t} ELSE teams \cup {t}
          /\ members' = members \cap teams'
          /\ left' = IF members' = members THEN left ELSE Procs
          /\ UNCHANGED <<tag, shell, live>>
       \/ tag = "absent" /\ tag' = "bare" /\ UNCHANGED <<teams, members, shell, live, left>>   \* traffic names the tag
       \/ shell = "deny" /\ shell' = "drift" /\ UNCHANGED <<teams, members, tag, live, left>>
       \/ \E k \in live : live' = live \ {k} /\ UNCHANGED <<teams, members, tag, shell, left>>
    /\ UNCHANGED <<users, budget, row, p, fails, torn>>

Request(a) ==
    \/ StartLogin(a) \/ StartGrant(a) \/ UserInfoByEmail(a) \/ UserNew(a) \/ EnrolDefaults(a) \/ EnrollExtraTeams(a)
    \/ LookupRow(a) \/ RevokeRow(a) \/ EnsureShell(a) \/ RepairShell(a) \/ KeyGenerate(a) \/ InsertRow(a)
    \/ Compensate(a)

Next ==
    \/ \E a \in Procs : Request(a)
    \/ AdminPatch
    \/ \E a \in Actors :
          Seed(a) \/ TagInfo(a) \/ BudgetUpdate(a) \/ BudgetNew(a) \/ TagDelete(a) \/ TagNew(a) \/ Fails(a)
    \/ Behind

Spec == Init /\ [][Next]_vars

-----------------------------------------------------------------------------
(* Properties *)

\* UserBudgetHandler, "The value written here is durable": a ceiling that an
\* administrator set while nobody else was setting one stays, whatever logins,
\* grants, failures and traffic come after it.  (A login that found no ceiling
\* just before the PATCH still writes the default over it.)
PatchedCeilingStays ==
    p[Admin].pc = "done" /\ p[Admin].alone => tag = "bound" /\ budget = Patched

\* upsertUserBudgetTag is fail-loud: after a login the person has a ceiling,
\* unless a concurrent rebind of the tag has deleted it and not made it again.
LoggedInIsCapped ==
    (\E a \in Procs : p[a].pc = "done" /\ p[a].kind = "login") => tag = "bound" \/ torn

\* provisionUser enrols known users too: a login that went through leaves the
\* person in every default team, whoever took them out before it.
LoggedInIsMember ==
    \A a \in Procs : p[a].pc = "done" /\ p[a].kind = "login" /\ a \notin left => Default \subseteq members

\* MintPK's compensation and the order of ensureOAuthPK: a key LiteLLM honours
\* is the active row's or a request's, but for one each time a call failed.
NoStrayKey ==
    Cardinality(live \ ({row} \cup {p[a].key : a \in Actors})) <= fails
=============================================================================
