------------------------------ MODULE Sessions ------------------------------
(***************************************************************************)
(* Who may change what on the dashboard.  A request fetches its session,   *)
(* then the user's role, and only then runs its handler, which checks the  *)
(* token of the page the request came from and, for a guild, the user's    *)
(* grant.  Superadmins meanwhile change roles and grants, each by one or   *)
(* two statements, and then raise the epoch of all sessions, so that pages *)
(* rendered before no longer work; an error there is ignored.  One guild;  *)
(* a user has one session at a time.                                       *)
(***************************************************************************)
EXTENDS Handlers, FiniteSets

CONSTANTS User, Seed,   \* AdminUserIDs: superadmins without a row
          NoSession,
          StartAdmins   \* what the tables may say to begin with: [roles, grants]

Role == {"superadmin", "admin", "viewer"}
NoRoleRow == "norow"

ASSUME SessionsAssumption ==
    /\ User # {} /\ Seed \subseteq User
    /\ NoSession \notin [id : Nat, epoch : Nat]
    /\ \A a \in StartAdmins : a.roles \in [User -> Role \cup {NoRoleRow}] /\ a.grants \subseteq User

VARIABLES
    adminRole,    \* the table admins, NoRoleRow where there is no row
    guildAdmins,  \* the table guild_admins
    sessions,     \* dashboard_sessions: [id, epoch]
    sessionIDs,   \* how many sessions there have been
    page,         \* the last page each user's browser has: the token in its forms
    requests,     \* where each request stands
    misused       \* history: what was done without the right to it

sessionVars == <<adminRole, guildAdmins, sessions, sessionIDs, page, requests, misused>>

NoPage == [id |-> 0, epoch |-> 0, old |-> TRUE]
NoRequest == [pc |-> "idle", user |-> CHOOSE u \in User : TRUE, op |-> "view",
              target |-> CHOOSE u \in User : TRUE, sess |-> NoSession, role |-> NoRoleRow, token |-> NoPage,
              held |-> {}, granted |-> FALSE, aged |-> FALSE, guessed |-> FALSE]

(* resolveRole when both queries work.                                       *)
RoleOf(u) == IF adminRole[u] # NoRoleRow THEN adminRole[u] ELSE IF u \in Seed THEN "superadmin" ELSE NoRoleRow

SessionsInit ==
    /\ \E a \in StartAdmins : adminRole = a.roles /\ guildAdmins = a.grants
    /\ sessions = [u \in User |-> IF RoleOf(u) = NoRoleRow THEN NoSession ELSE [id |-> 1, epoch |-> 0]]
    /\ sessionIDs = 1
    /\ page = [u \in User |-> IF sessions[u] = NoSession THEN NoPage ELSE [id |-> 1, epoch |-> 0, old |-> FALSE]]
    /\ requests = [p \in Proc |-> NoRequest]
    /\ misused = {}

RequestOver(p) == requests' = [requests EXCEPT ![p] = NoRequest]

(* What the requests under way have seen once the tables have changed.       *)
Seen(rs, roles, grants) ==
    [p \in Proc |-> LET u == rs[p].user IN
        [rs[p] EXCEPT !.held = IF rs[p].pc = "idle" THEN {} ELSE
                             @ \cup {IF roles[u] # NoRoleRow THEN roles[u] ELSE IF u \in Seed THEN "superadmin" ELSE NoRoleRow},
                      !.granted = rs[p].pc # "idle" /\ (@ \/ u \in grants)]]

---------------------------------------------------------------------------
(* handleAuthCallback for an administrator.                                  *)
Login(u) ==
    /\ Called
    /\ RoleOf(u) # NoRoleRow
    /\ sessionIDs' = sessionIDs + 1
    /\ sessions' = [sessions EXCEPT ![u] = [id |-> sessionIDs + 1, epoch |-> 0]]
    /\ UNCHANGED <<adminRole, guildAdmins, page, requests, misused>>

(* handleAuthLogout, or the session expires.                                 *)
Logout(u) ==
    /\ Called
    /\ sessions' = [sessions EXCEPT ![u] = NoSession]
    /\ UNCHANGED <<adminRole, guildAdmins, sessionIDs, page, requests, misused>>

View == {"view"}
GuildOps == {"guild"}
ConsoleOps == {"message"}
AdminOps == {"setRole", "delete", "grant", "revoke", "logoutAll", "settings"}

(* authMiddleware: GetSession.                                               *)
Request(p) ==
    /\ Called
    /\ requests[p].pc = "idle"
    /\ \E u \in User, op \in View \cup GuildOps \cup ConsoleOps \cup AdminOps :
          /\ sessions[u] # NoSession
          /\ requests' = [requests EXCEPT ![p] =
                [NoRequest EXCEPT !.pc = "role", !.user = u, !.op = op, !.sess = sessions[u], !.token = page[u],
                                  !.held = {RoleOf(u)}, !.granted = u \in guildAdmins]]
    /\ UNCHANGED <<adminRole, guildAdmins, sessions, sessionIDs, page, misused>>

Passed(role, op) ==
    \/ op \in View
    \/ op \in GuildOps \cup ConsoleOps /\ role # "viewer"
    \/ op \in AdminOps /\ role = "superadmin"

(* resolveRole: an error of the query is taken for a missing row.  Without a *)
(* role the session is deleted; then requireWriter and requireSuperadmin.    *)
ResolveRole(p) ==
    LET it == requests[p]
        fallback == IF it.user \in Seed THEN "superadmin" ELSE NoRoleRow
        With(role, guessed) ==
            /\ requests' = [requests EXCEPT ![p] =
                  IF role = NoRoleRow THEN [@ EXCEPT !.pc = "drop"]
                  ELSE IF Passed(role, it.op) THEN [@ EXCEPT !.pc = "token", !.role = role, !.guessed = guessed]
                  ELSE NoRequest]
    IN
    /\ it.pc = "role"
    /\ \/ With(RoleOf(it.user), FALSE) /\ UNCHANGED env
       \/ Fault /\ With(fallback, adminRole[it.user] # NoRoleRow)
    /\ UNCHANGED <<adminRole, guildAdmins, sessions, sessionIDs, page, misused>>

DropSession(p) ==
    LET it == requests[p] IN
    /\ it.pc = "drop"
    /\ sessions' = [sessions EXCEPT ![it.user] = IF @ # NoSession /\ @.id = it.sess.id THEN NoSession ELSE @]
    /\ RequestOver(p)
    /\ UNCHANGED <<env, adminRole, guildAdmins, sessionIDs, page, misused>>

\* Mutant: the token does not depend on the epoch.
TokenOfSession(token, sess) == token.id = sess.id

ValidateCSRF(token, sess) == token.id = sess.id /\ token.epoch = sess.epoch

(* The handler: a page is rendered with the session as it was fetched; a     *)
(* form is refused unless its token fits that session.  The console posts a  *)
(* message to a channel of any guild without asking for a grant.             *)
CheckToken(p) ==
    LET it == requests[p] IN
    /\ it.pc = "token"
    /\ IF it.op \in View
       THEN page' = [page EXCEPT ![it.user] = [id |-> it.sess.id, epoch |-> it.sess.epoch, old |-> it.aged]] /\ RequestOver(p)
       ELSE /\ requests' = [requests EXCEPT ![p] =
                  IF ~ValidateCSRF(it.token, it.sess) THEN NoRequest
                  ELSE [@ EXCEPT !.pc = IF it.op \in GuildOps /\ it.role = "admin" THEN "scope" ELSE it.op]]
            /\ UNCHANGED page
    /\ UNCHANGED <<env, adminRole, guildAdmins, sessions, sessionIDs, misused>>

(* canManageGuild of an admin; an error means no.                            *)
CanManageGuild(p) ==
    LET it == requests[p] IN
    /\ it.pc = "scope"
    /\ \/ it.user \in guildAdmins /\ requests' = [requests EXCEPT ![p].pc = it.op] /\ UNCHANGED env
       \/ it.user \notin guildAdmins /\ RequestOver(p) /\ UNCHANGED env
       \/ Fault /\ RequestOver(p)
    /\ UNCHANGED <<adminRole, guildAdmins, sessions, sessionIDs, page, misused>>

---------------------------------------------------------------------------
(* What was wrong with a request that goes through after all.                *)
Wrongs(it) ==
    {w \in {"role", "scope", "page"} :
        \/ /\ w = "role" /\ ~it.guessed
           /\ \A r \in it.held : r = NoRoleRow \/ ~Passed(r, it.op)
        \/ /\ w = "scope" /\ ~it.guessed /\ it.op \in GuildOps
           /\ "superadmin" \notin it.held /\ ~it.granted
        \/ w = "page" /\ it.token.old}

Judges(it) == misused' = misused \cup Wrongs(it)

(* The handlers that change a guild, a case or the settings, and the         *)
(* console's message: what they do is the business of other modules.         *)
Mutate(p) ==
    LET it == requests[p] IN
    /\ it.pc \in {"guild", "message", "settings"}
    /\ Judges(it)
    /\ RequestOver(p)
    /\ UNCHANGED <<env, adminRole, guildAdmins, sessions, sessionIDs, page>>

(* Rows of the tables change; the epochs are next, or a second statement.    *)
Changes(p, roles, grants, pc, target) ==
    /\ adminRole' = roles /\ guildAdmins' = grants
    /\ requests' = Seen([requests EXCEPT ![p].pc = pc, ![p].target = target], roles, grants)
    /\ Judges(requests[p])
    /\ UNCHANGED <<env, sessions, sessionIDs, page>>

(* handleAdminsAdd writes a row, handleAdminsRole changes one.               *)
AdminsRole(p) ==
    /\ requests[p].pc = "setRole"
    /\ \E u \in User, r \in Role : Changes(p, [adminRole EXCEPT ![u] = r], guildAdmins, "bump", u)

GuildAdminGrant(p) ==
    /\ requests[p].pc = "grant"
    /\ \E u \in User : Changes(p, adminRole, guildAdmins \cup {u}, "bump", u)

GuildAdminRevoke(p) ==
    /\ requests[p].pc = "revoke"
    /\ \E u \in User : Changes(p, adminRole, guildAdmins \ {u}, "bump", u)

(* DeleteAdmin: the row, then the grants; when they cannot be deleted, the   *)
(* epochs stay too.                                                          *)
AdminsDelete(p) ==
    /\ requests[p].pc = "delete"
    /\ \E u \in User : Changes(p, [adminRole EXCEPT ![u] = NoRoleRow], guildAdmins, "deleteGrants", u)

DeleteGrants(p) ==
    /\ requests[p].pc = "deleteGrants"
    /\ \/ LET u == requests[p].target IN Changes(p, adminRole, guildAdmins \ {u}, "bump", u)
       \/ /\ Fault /\ RequestOver(p)
          /\ UNCHANGED <<adminRole, guildAdmins, sessions, sessionIDs, page, misused>>

(* BumpAllSessionEpochs                                                      *)
BumpEpochs(p) ==
    /\ requests[p].pc = "bump"
    /\ \/ /\ sessions' = [u \in User |-> IF sessions[u] = NoSession THEN NoSession ELSE [sessions[u] EXCEPT !.epoch = @ + 1]]
          /\ page' = [u \in User |-> [page[u] EXCEPT !.old = TRUE]]
          /\ requests' = [q \in Proc |-> IF q = p THEN NoRequest ELSE [requests[q] EXCEPT !.aged = requests[q].pc # "idle"]]
          /\ UNCHANGED env
       \/ Fault /\ RequestOver(p) /\ UNCHANGED <<sessions, page>>
    /\ UNCHANGED <<adminRole, guildAdmins, sessionIDs, misused>>

(* handleAdminsLogoutAll                                                     *)
LogoutAll(p) ==
    LET it == requests[p] IN
    /\ it.pc = "logoutAll"
    /\ sessions' = [u \in User |-> NoSession]
    /\ page' = [u \in User |-> [page[u] EXCEPT !.old = TRUE]]
    /\ requests' = [q \in Proc |-> IF q = p THEN NoRequest ELSE [requests[q] EXCEPT !.aged = requests[q].pc # "idle"]]
    /\ Judges(it)
    /\ UNCHANGED <<env, adminRole, guildAdmins, sessionIDs>>

(* The rows and the pages in the browsers stay.                              *)
DashboardRestart ==
    /\ Fault
    /\ requests' = [p \in Proc |-> NoRequest]
    /\ UNCHANGED <<adminRole, guildAdmins, sessions, sessionIDs, page, misused>>

SessionsNext ==
    \/ \E u \in User : Login(u) \/ Logout(u)
    \/ \E p \in Proc : \/ Request(p) \/ ResolveRole(p) \/ DropSession(p) \/ CheckToken(p) \/ CanManageGuild(p)
                       \/ Mutate(p) \/ AdminsRole(p) \/ GuildAdminGrant(p) \/ GuildAdminRevoke(p)
                       \/ AdminsDelete(p) \/ DeleteGrants(p) \/ BumpEpochs(p) \/ LogoutAll(p)
    \/ DashboardRestart

SessionsSpec == HandlersInit /\ SessionsInit /\ [][SessionsNext]_<<env, sessionVars>>

---------------------------------------------------------------------------
Token == [id : Nat, epoch : Nat, old : BOOLEAN]

SessionsTypeOK ==
    /\ adminRole \in [User -> Role \cup {NoRoleRow}]
    /\ guildAdmins \subseteq User
    /\ \A u \in User : sessions[u] = NoSession \/ sessions[u] \in [id : 1..sessionIDs, epoch : Nat]
    /\ page \in [User -> Token]
    /\ \A p \in Proc : LET it == requests[p] IN
          /\ it.pc \in {"idle", "role", "drop", "token", "scope", "deleteGrants", "bump"} \cup GuildOps \cup ConsoleOps \cup AdminOps
          /\ it.user \in User /\ it.target \in User /\ it.token \in Token
          /\ it.pc \in {"idle", "role", "drop"} \/ it.role \in Role
    /\ misused \subseteq {"role", "scope", "page"}

(* Nothing is changed from the dashboard but by a user who had the role for  *)
(* it at some moment of the request, the query of whose role did not fail    *)
(* for a seeded administrator; and who, if it was a guild's configuration,   *)
(* cases or members, had the grant for it then.  The console's message to a  *)
(* channel needs the role alone.  Nor is anything changed from a page        *)
(* rendered before a change of roles or grants whose raising of the epochs   *)
(* the request has come after.                                               *)
RevokedIsOut == misused = {}
=============================================================================
