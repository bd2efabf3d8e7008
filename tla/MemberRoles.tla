---------------------------- MODULE MemberRoles ----------------------------
(***************************************************************************)
(* The roles of one member, which jail and temporary roles both rewrite:   *)
(* .jail puts the member's roles away in jail_backups and gives the jail   *)
(* role instead, .unjail brings them back, .temprole grants a role with a  *)
(* row in temp_roles, and the sweeper takes the role away when the row     *)
(* falls due.  What each handler does to a member does not depend on any   *)
(* other member.                                                           *)
(*                                                                         *)
(* Every command runs in a goroutine of its own and is split at its        *)
(* Discord and database calls.  A failing call has no effect; a call on    *)
(* somebody who is not in the guild fails.  Roles are those the bot may    *)
(* manage; the jail role is not one of them.  The handlers' mod_cases rows *)
(* and audit messages, written last, are left out.                         *)
(*                                                                         *)
(* Bounds: MaxRows, MaxTime, MaxFaults (failing calls) and MaxMoves (what   *)
(* happens around the commands: restarts, others changing the member's      *)
(* roles or presence, or the configuration).                               *)
(***************************************************************************)
EXTENDS Naturals, FiniteSets, Sweeps

CONSTANTS Role,           \* roles the bot may give and take
          Jailer,         \* goroutines running .jail or .unjail
          Granter,        \* goroutines running .temprole
          TempRoleBatch,  \* rows one sweep reads (25 in the code)
          MaxRows, MaxMoves

ASSUME MemberAssumption ==
    /\ TempRoleBatch \in Nat \ {0}
    /\ MaxRows \in Nat /\ MaxMoves \in Nat

VARIABLES
    configured, \* guild_config names the jail role
    present,   \* the member is in the guild
    roles,     \* the member's roles on Discord, the jail role aside
    jailed,    \* the member has the jail role
    backup,    \* the member's row of jail_backups
    created,   \* rows of temp_roles inserted so far
    rows,      \* temp_roles, by id
    cmd,       \* where each .jail or .unjail stands
    grant,     \* where each .temprole stands
    batch,     \* the due rows the running sweep still has to handle
    current,   \* the row whose role it has just tried to take (0: none)
    tried,     \* history: the rows whose role the sweeper has tried to take
    owed,      \* history: the roles staff gave for good and nobody took
    lost,      \* history: the roles a failed .jail could not give back
    stray,     \* history: the roles given when nothing was left to take them
    doubtful,  \* history: commands overlapped, or .unjail took a member for gone
    unreleased, \* history: .unjail ran while no jail role was configured
    moves      \* moves so far

around == <<now, configured, moves>>
tempVars == <<created, rows, batch, current, tried>>
history == <<owed, lost, stray, doubtful, unreleased>>
vars == <<around, present, roles, jailed, backup, tempVars, cmd, grant, history, faults>>

RowId == 1..MaxRows
NoBackup == [held |-> FALSE, roles |-> {}]
Backup == [held : BOOLEAN, roles : SUBSET Role]
NoRow == [st |-> "none", role |-> "none", exp |-> 0]
Row == [st : {"none", "live", "removed"}, role : Role \cup {"none"}, exp : Time]

(* .jail and .unjail: what comes next, the roles that were read (from the    *)
(* member, or from the backup), those still to be handled, those that failed. *)
At(pc, snap) == [pc |-> pc, snap |-> snap, todo |-> {}, failed |-> {}]
Idle == At("idle", {})
Running == [pc : {"idle", "looked", "checked", "strip", "rollback",
                  "read", "clear", "found", "restore"},
            snap : SUBSET Role, todo : SUBSET Role, failed : SUBSET Role]
Goto(c, state) == cmd' = [cmd EXCEPT ![c] = state]

(* .temprole: what comes next, and the row it inserted.                      *)
NoGrant == [pc |-> "idle", row |-> 0]
Granting == [pc : {"idle", "grant", "withdraw"}, row : RowId \cup {0}]

Init ==
    /\ now = 0 /\ configured = TRUE /\ present = TRUE /\ jailed = FALSE /\ backup = NoBackup
    /\ roles \in SUBSET Role /\ owed = roles
    /\ created = 0 /\ rows = [n \in RowId |-> NoRow]
    /\ cmd = [c \in Jailer |-> Idle] /\ grant = [c \in Granter |-> NoGrant]
    /\ batch = {} /\ current = 0 /\ tried = {}
    /\ lost = {} /\ stray = {} /\ doubtful = FALSE /\ unreleased = FALSE
    /\ faults = 0 /\ moves = 0

(* A Discord call about the member: it fails if the member is not there.     *)
Succeeds == present /\ UNCHANGED faults
FailsOnDiscord == IF present THEN Fault ELSE UNCHANGED faults

---------------------------------------------------------------------------
(* .jail *)

(* A command that starts while another one is at work on the member.         *)
Begins(c) == doubtful' = (doubtful \/ \E d \in Jailer \ {c} : cmd[d].pc # "idle")

(* The configuration and the member are loaded, the hierarchy checks pass.   *)
JailLookup(c) ==
    /\ cmd[c].pc = "idle" /\ configured /\ present
    /\ Goto(c, At("looked", roles))
    /\ Begins(c)
    /\ UNCHANGED <<around, present, roles, jailed, backup, tempVars, grant, owed, lost,
                   stray, unreleased, faults>>

\* Mutant: somebody who is jailed already is jailed again.
JailCheckNothing(c) ==
    /\ cmd[c].pc = "looked"
    /\ Goto(c, [cmd[c] EXCEPT !.pc = "checked"])
    /\ UNCHANGED <<around, present, roles, jailed, backup, tempVars, grant, history, faults>>

JailCheck(c) ==
    /\ cmd[c].pc = "looked"
    /\ \/ ~backup.held /\ Goto(c, [cmd[c] EXCEPT !.pc = "checked"]) /\ UNCHANGED faults
       \/ Goto(c, Idle) /\ IF backup.held THEN UNCHANGED faults ELSE Fault
    /\ UNCHANGED <<around, present, roles, jailed, backup, tempVars, grant, history>>

(* An upsert: it replaces a backup that was written after the check.         *)
SaveJailBackup(c) ==
    /\ cmd[c].pc = "checked"
    /\ \/ /\ backup' = [held |-> TRUE, roles |-> cmd[c].snap]
          /\ Goto(c, [cmd[c] EXCEPT !.pc = "strip", !.todo = cmd[c].snap])
          /\ UNCHANGED faults
       \/ Fault /\ Goto(c, Idle) /\ UNCHANGED backup
    /\ UNCHANGED <<around, present, roles, jailed, tempVars, grant, history>>

(* If a role cannot be taken those already taken are given back.             *)
JailStrip(c) ==
    /\ cmd[c].pc = "strip"
    /\ \E r \in cmd[c].todo :
          \/ /\ Succeeds
             /\ roles' = roles \ {r}
             /\ Goto(c, [cmd[c] EXCEPT !.todo = @ \ {r}])
          \/ /\ FailsOnDiscord
             /\ Goto(c, [cmd[c] EXCEPT !.pc = "rollback", !.todo = cmd[c].snap \ @])
             /\ UNCHANGED roles
    /\ UNCHANGED <<around, present, jailed, backup, tempVars, grant, history>>

(* If the jail role cannot be given all roles are given back and the backup  *)
(* is deleted; the backup of somebody who had no roles stays.                *)
JailAddRole(c) ==
    /\ cmd[c].pc = "strip" /\ cmd[c].todo = {}
    /\ \/ Succeeds /\ jailed' = TRUE /\ Goto(c, Idle)
       \/ /\ FailsOnDiscord
          /\ Goto(c, IF cmd[c].snap = {} THEN Idle
                     ELSE [cmd[c] EXCEPT !.pc = "rollback", !.todo = cmd[c].snap])
          /\ UNCHANGED jailed
    /\ UNCHANGED <<around, present, roles, backup, tempVars, grant, history>>

(* The member is meant to have role r: staff gave it, or a row whose role    *)
(* was granted is not yet due.                                               *)
Meant(r) ==
    \/ r \in owed
    \/ \E n \in RowId \ {grant[c].row : c \in Granter} :
          rows[n].st = "live" /\ rows[n].role = r /\ now < rows[n].exp

GiveBack(r) ==
    /\ roles' = roles \cup {r}
    /\ stray' = IF Meant(r) THEN stray ELSE stray \cup {r}

(* Errors are ignored. *)
JailGiveBack(c) ==
    /\ cmd[c].pc = "rollback"
    /\ \E r \in cmd[c].todo :
          /\ Goto(c, [cmd[c] EXCEPT !.todo = @ \ {r}])
          /\ \/ Succeeds /\ GiveBack(r) /\ UNCHANGED lost
             \/ FailsOnDiscord /\ lost' = lost \cup {r} /\ UNCHANGED <<roles, stray>>
    /\ UNCHANGED <<around, present, jailed, backup, tempVars, grant, owed, doubtful,
                   unreleased>>

(* DeleteJailBackup, whose errors every caller ignores.                      *)
DeleteJailBackup ==
    \/ backup' = NoBackup /\ UNCHANGED faults
    \/ Fault /\ UNCHANGED backup

JailGiveUp(c) ==
    /\ cmd[c].pc = "rollback" /\ cmd[c].todo = {}
    /\ DeleteJailBackup
    /\ Goto(c, Idle)
    /\ UNCHANGED <<around, present, roles, jailed, tempVars, grant, history>>

---------------------------------------------------------------------------
(* .unjail *)

UnjailRead(c) ==
    /\ cmd[c].pc = "idle" /\ backup.held
    /\ Goto(c, At("read", backup.roles))
    /\ Begins(c)
    /\ UNCHANGED <<around, present, roles, jailed, backup, tempVars, grant, owed, lost,
                   stray, unreleased, faults>>

(* A member who cannot be loaded, for whatever reason, is taken to have      *)
(* left.  If the configuration names no jail role none is taken.             *)
UnjailLookup(c) ==
    /\ cmd[c].pc = "read"
    /\ \/ Fault /\ Goto(c, Idle) /\ UNCHANGED <<doubtful, unreleased>>
       \/ /\ Succeeds
          /\ Goto(c, IF configured THEN [cmd[c] EXCEPT !.pc = "found"]
                     ELSE [cmd[c] EXCEPT !.pc = "restore", !.todo = cmd[c].snap])
          /\ unreleased' = (unreleased \/ ~configured)
          /\ UNCHANGED doubtful
       \/ /\ FailsOnDiscord
          /\ Goto(c, [cmd[c] EXCEPT !.pc = "clear"])
          /\ doubtful' = (doubtful \/ present)
          /\ UNCHANGED unreleased
    /\ UNCHANGED <<around, present, roles, jailed, backup, tempVars, grant, owed, lost,
                   stray>>

UnjailClear(c) ==
    /\ cmd[c].pc = "clear"
    /\ DeleteJailBackup
    /\ Goto(c, Idle)
    /\ UNCHANGED <<around, present, roles, jailed, tempVars, grant, history>>

\* Mutant: the jail role could not be taken, and the command goes on.
UnjailReleaseIgnoringError(c) ==
    /\ cmd[c].pc = "found"
    /\ Goto(c, [cmd[c] EXCEPT !.pc = "restore", !.todo = cmd[c].snap])
    /\ \/ Succeeds /\ jailed' = FALSE
       \/ FailsOnDiscord /\ UNCHANGED jailed
    /\ UNCHANGED <<around, present, roles, backup, tempVars, grant, history>>

UnjailRelease(c) ==
    /\ cmd[c].pc = "found"
    /\ \/ /\ Succeeds /\ jailed' = FALSE
          /\ Goto(c, [cmd[c] EXCEPT !.pc = "restore", !.todo = cmd[c].snap])
       \/ FailsOnDiscord /\ Goto(c, Idle) /\ UNCHANGED jailed
    /\ UNCHANGED <<around, present, roles, backup, tempVars, grant, history>>

UnjailGiveBack(c) ==
    /\ cmd[c].pc = "restore"
    /\ \E r \in cmd[c].todo :
          \/ Succeeds /\ GiveBack(r) /\ Goto(c, [cmd[c] EXCEPT !.todo = @ \ {r}])
          \/ /\ FailsOnDiscord
             /\ Goto(c, [cmd[c] EXCEPT !.todo = @ \ {r}, !.failed = @ \cup {r}])
             /\ UNCHANGED <<roles, stray>>
    /\ UNCHANGED <<around, present, jailed, backup, tempVars, grant, owed, lost, doubtful,
                   unreleased>>

(* The backup is kept for another try if a role could not be given back.     *)
UnjailFinish(c) ==
    /\ cmd[c].pc = "restore" /\ cmd[c].todo = {}
    /\ IF cmd[c].failed = {} THEN DeleteJailBackup ELSE UNCHANGED <<backup, faults>>
    /\ Goto(c, Idle)
    /\ UNCHANGED <<around, present, roles, jailed, tempVars, grant, history>>

---------------------------------------------------------------------------
(* .temprole: the row, then the role. *)

InsertRow(r, d) ==
    /\ created' = created + 1
    /\ rows' = [rows EXCEPT ![created + 1] = [st |-> "live", role |-> r, exp |-> now + d]]

\* Mutant: the role is granted although the row could not be written.
AddTempRoleWithoutRow(c, r, d) ==
    /\ grant[c].pc = "idle" /\ created < MaxRows /\ now + d <= MaxTime
    /\ grant' = [grant EXCEPT ![c] = [pc |-> "grant", row |-> created + 1]]
    /\ created' = created + 1
    /\ rows' = [rows EXCEPT ![created + 1] = [st |-> "removed", role |-> r, exp |-> now + d]]
    /\ UNCHANGED <<around, present, roles, jailed, backup, batch, current, tried, cmd,
                   history, faults>>

(* If the INSERT fails the command ends and nothing has changed.             *)
AddTempRole(c, r, d) ==
    /\ grant[c].pc = "idle" /\ created < MaxRows /\ now + d <= MaxTime
    /\ InsertRow(r, d)
    /\ grant' = [grant EXCEPT ![c] = [pc |-> "grant", row |-> created + 1]]
    /\ UNCHANGED <<around, present, roles, jailed, backup, batch, current, tried, cmd,
                   history, faults>>

TempRoleGrant(c) ==
    LET row == rows[grant[c].row]
    IN /\ grant[c].pc = "grant"
       /\ \/ /\ Succeeds
             /\ roles' = roles \cup {row.role}
             /\ stray' = IF now < row.exp THEN stray ELSE stray \cup {row.role}
             /\ grant' = [grant EXCEPT ![c] = NoGrant]
          \/ /\ FailsOnDiscord
             /\ grant' = [grant EXCEPT ![c].pc = "withdraw"]
             /\ UNCHANGED <<roles, stray>>
       /\ UNCHANGED <<around, present, jailed, backup, tempVars, cmd, owed, lost, doubtful,
                      unreleased>>

MarkTempRoleRemoved(n) ==
    \/ rows' = [rows EXCEPT ![n].st = "removed"] /\ UNCHANGED faults
    \/ Fault /\ UNCHANGED rows

(* The grant failed: the row is withdrawn, and an error doing so is ignored. *)
TempRoleWithdraw(c) ==
    /\ grant[c].pc = "withdraw"
    /\ MarkTempRoleRemoved(grant[c].row)
    /\ grant' = [grant EXCEPT ![c] = NoGrant]
    /\ UNCHANGED <<around, present, roles, jailed, backup, created, batch, current, tried,
                   cmd, history>>

---------------------------------------------------------------------------
(* The sweeper. *)

\* Mutant: the query without its expiry condition.
AllLiveRows == {n \in 1..created : rows[n].st = "live"}

DueTempRoles == {n \in 1..created : rows[n].st = "live" /\ rows[n].exp <= now}

Expiry == [n \in RowId |-> rows[n].exp]

\* Mutant: a sweep that takes the whole table.
SweepReadAll ==
    /\ batch = {} /\ DueTempRoles # {}
    /\ batch' = DueTempRoles
    /\ UNCHANGED <<around, present, roles, jailed, backup, created, rows, current, tried,
                   cmd, grant, history, faults>>

SweepRead ==
    /\ batch = {} /\ DueTempRoles # {}
    /\ batch' \in Earliest(DueTempRoles, TempRoleBatch, Expiry)
    /\ UNCHANGED <<around, present, roles, jailed, backup, created, rows, current, tried,
                   cmd, grant, history, faults>>

(* Taking a role the member does not have succeeds and changes nothing.      *)
SweepTake ==
    /\ current = 0
    /\ \E n \in First(batch, Expiry) :
          /\ current' = n
          /\ tried' = tried \cup {n}
          /\ \/ /\ Succeeds
                /\ roles' = roles \ {rows[n].role}
                /\ owed' = owed \ {rows[n].role}
                /\ UNCHANGED stray
             \/ /\ FailsOnDiscord
                /\ stray' = IF present THEN stray \cup {rows[n].role} ELSE stray
                /\ UNCHANGED <<roles, owed>>
    /\ UNCHANGED <<around, present, jailed, backup, created, rows, batch, cmd, grant, lost,
                   doubtful, unreleased>>

(* The row is consumed whether or not the role was taken.  If the UPDATE     *)
(* fails the loop goes on and the row is still due at the next sweep.        *)
SweepMark ==
    /\ current # 0
    /\ batch' = batch \ {current}
    /\ current' = 0
    /\ MarkTempRoleRemoved(current)
    /\ UNCHANGED <<around, present, roles, jailed, backup, created, tried, cmd, grant,
                   history>>

---------------------------------------------------------------------------
(* What happens around these commands: roles given and taken by .role, role  *)
(* panels, autorole, automation and staff; leaving the guild, which costs    *)
(* all roles, and coming back; the configuration; the clock; restarts.       *)

Meddling == moves < MaxMoves /\ moves' = moves + 1

StaffGive(r) ==
    /\ Meddling /\ present /\ r \notin roles
    /\ roles' = roles \cup {r} /\ owed' = owed \cup {r}
    /\ UNCHANGED <<now, configured, present, jailed, backup, tempVars, cmd, grant, lost,
                   stray, doubtful, unreleased, faults>>

StaffTake(r) ==
    /\ Meddling /\ present /\ r \in roles
    /\ roles' = roles \ {r} /\ owed' = owed \ {r}
    /\ UNCHANGED <<now, configured, present, jailed, backup, tempVars, cmd, grant, lost,
                   stray, doubtful, unreleased, faults>>

LeaveOrJoin ==
    /\ Meddling
    /\ present' = ~present
    /\ roles' = {} /\ owed' = {} /\ jailed' = FALSE
    /\ UNCHANGED <<now, configured, backup, tempVars, cmd, grant, lost, stray, doubtful,
                   unreleased, faults>>

Elsewhere ==
    UNCHANGED <<now, present, roles, jailed, backup, tempVars, cmd, grant, history, faults>>

(* /config set jail_role.  The jail role is never replaced by another one.   *)
ConfigSet == Meddling /\ ~configured /\ configured' = TRUE /\ Elsewhere

(* The dashboard's form knows no jail role and saves the guild without one.  *)
GuildsUpdate == Meddling /\ configured' = FALSE /\ Elsewhere

Tick ==
    /\ now < MaxTime
    /\ now' = now + 1
    /\ UNCHANGED <<configured, moves, present, roles, jailed, backup, tempVars, cmd, grant,
                   history, faults>>

(* The process dies and comes back: goroutines are gone, Discord and the     *)
(* database keep what they had.                                              *)
Crash ==
    /\ Meddling
    /\ cmd' = [c \in Jailer |-> Idle] /\ grant' = [c \in Granter |-> NoGrant]
    /\ batch' = {} /\ current' = 0
    /\ UNCHANGED <<now, configured, present, roles, jailed, backup, created, rows, tried,
                   history, faults>>

---------------------------------------------------------------------------
Jail(c) ==
    \/ JailLookup(c) \/ JailCheck(c) \/ SaveJailBackup(c) \/ JailStrip(c)
    \/ JailAddRole(c) \/ JailGiveBack(c) \/ JailGiveUp(c)

Unjail(c) ==
    \/ UnjailRead(c) \/ UnjailLookup(c) \/ UnjailClear(c) \/ UnjailRelease(c)
    \/ UnjailGiveBack(c) \/ UnjailFinish(c)

TempRole(c) ==
    \/ \E r \in Role, d \in 1..MaxTime : AddTempRole(c, r, d)
    \/ TempRoleGrant(c) \/ TempRoleWithdraw(c)

Sweep == SweepRead \/ SweepTake \/ SweepMark

Others ==
    \/ Tick \/ Crash \/ LeaveOrJoin \/ ConfigSet \/ GuildsUpdate
    \/ \E r \in Role : StaffGive(r) \/ StaffTake(r)

Next ==
    \/ Sweep \/ Others
    \/ \E c \in Jailer : Jail(c) \/ Unjail(c)
    \/ \E c \in Granter : TempRole(c)

Spec == Init /\ [][Next]_vars

---------------------------------------------------------------------------
(* Types: what each variable holds; the sweep at most one batch.             *)
TypeOK ==
    /\ now \in Time
    /\ configured \in BOOLEAN /\ present \in BOOLEAN /\ jailed \in BOOLEAN
    /\ doubtful \in BOOLEAN /\ unreleased \in BOOLEAN
    /\ roles \subseteq Role /\ owed \subseteq Role
    /\ lost \subseteq Role /\ stray \subseteq Role
    /\ backup \in Backup
    /\ created \in 0..MaxRows
    /\ rows \in [RowId -> Row]
    /\ cmd \in [Jailer -> Running] /\ grant \in [Granter -> Granting]
    /\ batch \subseteq RowId /\ Cardinality(batch) <= TempRoleBatch
    /\ current \in batch \cup {0}
    /\ tried \subseteq RowId
    /\ faults \in 0..MaxFaults /\ moves \in 0..MaxMoves

(* README "snapshot saved for restore": through failing calls, restarts,     *)
(* expiring roles and departures a role the member is owed is on the member  *)
(* or in the backup, unless a .jail that failed twice lost it.  Nothing is   *)
(* promised once two commands have overlapped on the member, or .unjail has  *)
(* taken a member it could not load for one who had left.                    *)
RolesSurvive ==
    doubtful \/ owed \subseteq roles \cup lost \cup (IF backup.held THEN backup.roles ELSE {})

(* With the same reservation, somebody in jail can be let out again, unless  *)
(* .unjail found no jail role in the configuration.                          *)
JailHasBackup == doubtful \/ unreleased \/ (jailed => backup.held)

(* README "Grant a role that auto-expires": every role of the member was     *)
(* given by staff or has a row that will take it away.  The row is written   *)
(* before the role is given and consumed after it is taken, so the only      *)
(* exceptions are those of stray: the call that takes the role failed, the   *)
(* role was given after it had expired, or a jail gave it back by then.      *)
TempRoleEnds ==
    roles \subseteq owed \cup stray
                    \cup {rows[n].role : n \in {m \in RowId : rows[m].st = "live"}}

(* README "Release a jailed member: removes the jail role and restores the   *)
(* saved role set": a command that reports "Member Released", every role     *)
(* given back, leaves nobody in jail.                                        *)
UnjailReleases ==
    \A c \in Jailer :
        cmd[c].pc = "restore" /\ cmd[c].todo = {} /\ cmd[c].failed = {} => ~jailed

(* temp_roles is a table of deadline jobs (see DeadlineJobs).  A .temprole   *)
(* writes its row first and holds it until the role is given or the row is   *)
(* withdrawn.                                                                *)
InHand == {grant[c].row : c \in Granter} \ {0}

JobStatus(n) ==
    CASE rows[n].st = "none" -> "none"
      [] rows[n].st = "removed" -> "done"
      [] OTHER -> IF n \in tried THEN "tried" ELSE "waiting"

Jobs == INSTANCE DeadlineJobs
            WITH Job <- RowId, clock <- now,
                 status <- [n \in RowId |-> JobStatus(n)],
                 deadline <- Expiry,
                 creating <- InHand

(* No role is taken before its row is due; a row is consumed only after the  *)
(* sweeper has tried to take its role, unless the .temprole that wrote it    *)
(* could not give the role and withdraws it; a consumed row never comes      *)
(* back.                                                                     *)
RefinesDeadlineJobs == Jobs!SafeSpec
=============================================================================
