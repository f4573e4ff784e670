-------------------------------- MODULE Staff --------------------------------
(***************************************************************************)
(* The users of the dashboard: the app_user rows that Seed                 *)
(* (internal/store/seed.go) writes at every start of cmd/api/main.go, the  *)
(* browsers that act under one of their ids (internal/api/server.go), and  *)
(* the rows of other tables that point at them.                            *)
(*                                                                         *)
(* A row's id is a random uuid.  Seed compares ids, so an id is a number   *)
(* and a new row may get any that was never given out.  Left out: the      *)
(* routing rules Seed writes last, and routing_rule.target_user_id, which  *)
(* no statement of the program sets.                                       *)
(***************************************************************************)
EXTENDS Integers, FiniteSets, Sequences

CONSTANTS
    Roster,     \* the users slice of Seed: their roles and teams, in order
    UserIds,    \* ids the database may give
    Browsers,   \* signed-in dashboards; each keeps its X-Actor-Id
    None,
    MaxStarts   \* bound: starts of the process

Roles == {"sales_rep", "support_agent", "ops_admin", "manager"}

People == DOMAIN Roster

ASSUME StaffAssumption ==
    /\ Roster \in Seq([role : Roles, team : STRING])
    /\ UserIds \subseteq Nat
    /\ None \notin Nat
    /\ MaxStarts \in Nat

VARIABLES
    user,       \* app_user: who of Roster each row is
    issued,     \* ids given out so far
    boot,       \* the process: "down", in Seed ("users", "dedupe"), "up", or
                \* "refused": Seed returned an error and main exited
    next,       \* the user whose INSERT is next in Seed
    starts,     \* how much of the bound is used
    owners,     \* ids in crm_record.owner_user_id
    approvers,  \* ids in approval_action.actor_user_id
    resolvers,  \* ids in duplicate_match_candidate.resolved_by
    session     \* the id each browser acts under

table == <<user, issued>>
process == <<boot, next, starts>>
pointers == <<owners, approvers, resolvers>>
staffVars == <<table, process, pointers, session>>

Rows == {u \in UserIds : user[u] # None}

StaffTypeOK ==
    /\ user \in [UserIds -> People \cup {None}]
    /\ issued \subseteq UserIds
    /\ Rows \subseteq issued
    /\ boot \in {"down", "users", "dedupe", "up", "refused"}
    /\ next \in Nat
    /\ boot = "users" => next \in People
    /\ starts \in Nat
    /\ owners \subseteq UserIds
    /\ approvers \subseteq UserIds
    /\ resolvers \subseteq UserIds
    /\ session \in [Browsers -> UserIds \cup {None}]

StaffInit ==
    /\ user = [u \in UserIds |-> None]
    /\ issued = {}
    /\ boot = "down"
    /\ next = 1
    /\ starts = 0
    /\ owners = {}
    /\ approvers = {}
    /\ resolvers = {}
    /\ session = [b \in Browsers |-> None]

-----------------------------------------------------------------------------
(* Seed.  Every statement commits on its own.                              *)

Start ==
    /\ boot \in {"down", "refused"}
    /\ starts < MaxStarts
    /\ starts' = starts + 1
    /\ next' = 1
    /\ boot' = IF People = {} THEN "dedupe" ELSE "users"
    /\ UNCHANGED <<table, pointers, session>>

\* Variant: the loop runs once too often.
InsertUserOnceMore(u) ==
    /\ boot = "users"
    /\ u \in UserIds \ issued
    /\ user' = [user EXCEPT ![u] = next]
    /\ issued' = issued \cup {u}
    /\ next' = next + 1
    /\ boot' = IF next \in People THEN "users" ELSE "dedupe"
    /\ UNCHANGED <<starts, pointers, session>>

\* ON CONFLICT DO NOTHING: no unique index, so there is never a conflict.
InsertUser(u) ==
    /\ boot = "users"
    /\ u \in UserIds \ issued
    /\ user' = [user EXCEPT ![u] = next]
    /\ issued' = issued \cup {u}
    /\ next' = next + 1
    /\ boot' = IF next + 1 \in People THEN "users" ELSE "dedupe"
    /\ UNCHANGED <<starts, pointers, session>>

\* Variants of the DELETE: every copy goes; records are forgotten; the copy
\* that stays must be unnamed as well.
SurplusEveryCopy(u) ==
    /\ \E v \in Rows \ {u} : user[v] = user[u]
    /\ u \notin owners \cup approvers

SurplusOwners(u) ==
    /\ \E v \in Rows : user[v] = user[u] /\ v < u
    /\ u \notin approvers

SurplusUnnamed(u) ==
    /\ \E v \in Rows : user[v] = user[u] /\ v < u /\ v \notin owners \cup approvers
    /\ u \notin owners \cup approvers

\* A row of the same name has a smaller id, and neither a record nor an
\* approval points at this one.
Surplus(u) ==
    /\ \E v \in Rows : user[v] = user[u] /\ v < u
    /\ u \notin owners \cup approvers

Doomed == {u \in Rows : Surplus(u)}

Referenced == owners \cup approvers \cup resolvers

\* Variant: the foreign keys are not declared.
DeleteUnchecked ==
    /\ boot = "dedupe"
    /\ user' = [u \in UserIds |-> IF u \in Doomed THEN None ELSE user[u]]
    /\ boot' = "up"
    /\ UNCHANGED <<issued, next, starts, pointers, session>>

\* A doomed row something else points at violates its foreign key: the whole
\* DELETE fails, Seed returns the error and main exits.
DeleteDuplicates ==
    /\ boot = "dedupe"
    /\ IF Doomed \cap Referenced = {}
       THEN /\ user' = [u \in UserIds |-> IF u \in Doomed THEN None ELSE user[u]]
            /\ boot' = "up"
       ELSE /\ boot' = "refused"
            /\ UNCHANGED user
    /\ UNCHANGED <<issued, next, starts, pointers, session>>

\* A shutdown, a crash, or a statement of Seed that fails.
Stop ==
    /\ boot \in {"users", "dedupe", "up"}
    /\ boot' = "down"
    /\ UNCHANGED <<table, next, starts, pointers, session>>

-----------------------------------------------------------------------------
(* While it serves.                                                        *)

\* GET /api/users, and the choice of one.
SignIn(b, u) ==
    /\ boot = "up"
    /\ u \in Rows
    /\ session' = [session EXCEPT ![b] = u]
    /\ UNCHANGED <<table, process, pointers>>

\* requireActor: the id in the header has a row.
Known(b) == boot = "up" /\ session[b] \in Rows

\* UpsertCRMRecord with the owner PickOwner found.
Own(u) ==
    /\ boot = "up"
    /\ u \in Rows
    /\ owners' = owners \cup {u}
    /\ UNCHANGED <<approvers, resolvers>>

\* handleDecision and handleResolveDuplicate refuse managers.
MayAct(b) == Known(b) /\ Roster[user[session[b]]].role # "manager"

Approve(b) ==
    /\ MayAct(b)
    /\ approvers' = approvers \cup {session[b]}
    /\ UNCHANGED <<owners, resolvers>>

Resolve(b) ==
    /\ MayAct(b)
    /\ resolvers' = resolvers \cup {session[b]}
    /\ UNCHANGED <<owners, approvers>>

StaffNext ==
    \/ Start
    \/ \E u \in UserIds : InsertUser(u)
    \/ DeleteDuplicates
    \/ Stop
    \/ \E b \in Browsers, u \in UserIds : SignIn(b, u)
    \/ /\ \/ \E u \in UserIds : Own(u)
          \/ \E b \in Browsers : Approve(b) \/ Resolve(b)
       /\ UNCHANGED <<table, process, session>>

StaffSpec == StaffInit /\ [][StaffNext]_staffVars

-----------------------------------------------------------------------------
(* Safety.                                                                 *)

(***************************************************************************)
(* Whatever was deleted, and however often a start was cut short, a        *)
(* process that serves has a row for everybody on the roster: no team is   *)
(* left without its owner, and everybody can sign in.                      *)
(***************************************************************************)
EverybodyIsThere ==
    boot = "up" => \A p \in People : \E u \in Rows : user[u] = p

(***************************************************************************)
(* Seed deletes no row a record, an approval or a resolution names: the    *)
(* owner of a record and the actor of a decision can always be looked up.  *)
(***************************************************************************)
ReferencesHold == Referenced \subseteq Rows

(***************************************************************************)
(* The only rows a start leaves twice are those the guards of the DELETE   *)
(* name: of two rows of one user, the one with the larger id owns a record *)
(* or made a decision.                                                     *)
(***************************************************************************)
TwiceOnlyIfNamed ==
    boot = "up" =>
        \A u, v \in Rows :
            user[u] = user[v] /\ v < u => u \in owners \cup approvers

(***************************************************************************)
(* Seed fails for one reason only: the DELETE looks at the records and the *)
(* approvals, and not at duplicate_match_candidate.resolved_by.  As long   *)
(* as nobody has resolved a match, every start succeeds.                   *)
(***************************************************************************)
RefusedOnlyByResolution == boot = "refused" => resolvers # {}

-----------------------------------------------------------------------------
(* What the code's comments say and a run refutes.                         *)

(***************************************************************************)
(* seed.go:12-13, "Both are idempotent, so a restart never duplicates      *)
(* them": a Seed that succeeded once succeeds again.                       *)
(***************************************************************************)
SeedIsIdempotent == boot # "refused"
=============================================================================
