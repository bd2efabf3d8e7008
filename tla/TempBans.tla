------------------------------ MODULE TempBans ------------------------------
(***************************************************************************)
(* Bans that lift themselves: the .tempban and .ban commands, the console  *)
(* ban and unban of the dashboard, the temp_bans table and the sweeper     *)
(* that drains it, in one guild.                                           *)
(*                                                                         *)
(* A command runs in a goroutine of its own and stops at every Discord or  *)
(* database call, so its handler is split at those calls and interleaves   *)
(* with other commands and with the sweeper.  There is one sweeper         *)
(* (sched.Loop runs its job to the end before it arms the next timer).     *)
(* A row of temp_bans is always created with a fresh case number, so the   *)
(* model keys the row by its case number instead of its AUTOINCREMENT id.  *)
(*                                                                         *)
(* Bounds: those of Sweeps, MaxCases, MaxCrashes.                          *)
(***************************************************************************)
EXTENDS Naturals, Sequences, FiniteSets, Sweeps

CONSTANTS User,          \* people who may be banned
          Cmd,           \* goroutines running a moderation command
          TempBanBatch,  \* rows one sweep reads (25 in the code)
          MaxCases, MaxCrashes

ASSUME TempBanAssumption ==
    /\ TempBanBatch \in Nat \ {0}
    /\ MaxCases \in Nat /\ MaxCrashes \in Nat

VARIABLES
    ban,      \* Discord's ban list: for each user, "none" or what last banned them
    cases,    \* mod_cases of the guild; case number n is cases[n]
    tempBans, \* temp_bans, keyed by case number
    cmd,      \* where each command goroutine stands
    batch,    \* the due rows the running sweep still has to handle
    current,  \* the row whose ban it has just tried to lift (0: none)
    tried,    \* history: the rows whose ban the sweeper has tried to lift
    crashes   \* restarts so far

tempBanVars == <<now, ban, cases, tempBans, cmd, batch, current, tried, faults, crashes>>

CaseNo == 1..MaxCases

Someone == User \cup {"nobody"}
CaseRecord == [type : {"tempban", "ban"}, user : User, active : BOOLEAN]

NoTempBan == [st |-> "none", user |-> "nobody", exp |-> 0]
TempBanRow == [st : {"none", "live", "unbanned"}, user : Someone, exp : Time]

(* A command: what its last call left done, for whom, and for .tempban until *)
(* when and under which case number.                                         *)
Idle == [pc |-> "idle", user |-> "nobody", exp |-> 0, case |-> 0]
Running == [pc : {"idle", "recorded", "rollback", "banned", "permBanned"},
            user : Someone, exp : Time, case : Nat]

LiveRows == {n \in CaseNo : tempBans[n].st = "live"}
LiveRowsOf(u) == {n \in LiveRows : tempBans[n].user = u}

TempBanInit ==
    /\ now = 0
    /\ ban = [u \in User |-> "none"]
    /\ cases = <<>>
    /\ tempBans = [n \in CaseNo |-> NoTempBan]
    /\ cmd = [c \in Cmd |-> Idle]
    /\ batch = {} /\ current = 0 /\ tried = {}
    /\ faults = 0 /\ crashes = 0

TempBanTick ==
    /\ now < MaxTime
    /\ now' = now + 1
    /\ UNCHANGED <<ban, cases, tempBans, cmd, batch, current, tried, faults, crashes>>

---------------------------------------------------------------------------
(* .tempban: the case, the ban, the row, in this order. *)

AppendCase(type, u) ==
    cases' = Append(cases, [type |-> type, user |-> u, active |-> TRUE])

\* Mutant: the handler of .tempban goes on when the case was not recorded.
TempBanRecordIgnoringError(c, u, d) ==
    /\ cmd[c].pc = "idle" /\ Len(cases) < MaxCases /\ now + d <= MaxTime
    /\ cmd' = [cmd EXCEPT ![c] = [pc |-> "recorded", user |-> u, exp |-> now + d,
                                  case |-> Len(cases) + 1]]
    /\ \/ AppendCase("tempban", u) /\ UNCHANGED faults
       \/ Fault /\ UNCHANGED cases
    /\ UNCHANGED <<now, ban, tempBans, batch, current, tried, crashes>>

(* The hierarchy checks have passed.  An INSERT that fails ends the command; *)
(* so does a failing read-back of the row that was inserted.                 *)
TempBanRecord(c, u, d) ==
    /\ cmd[c].pc = "idle" /\ Len(cases) < MaxCases /\ now + d <= MaxTime
    /\ \/ /\ AppendCase("tempban", u)
          /\ cmd' = [cmd EXCEPT ![c] = [pc |-> "recorded", user |-> u, exp |-> now + d,
                                        case |-> Len(cases) + 1]]
          /\ UNCHANGED faults
       \/ Fault /\ AppendCase("tempban", u) /\ UNCHANGED cmd
    /\ UNCHANGED <<now, ban, tempBans, batch, current, tried, crashes>>

TempBanOnDiscord(c) ==
    /\ cmd[c].pc = "recorded"
    /\ \/ /\ ban' = [ban EXCEPT ![cmd[c].user] = "temp"]
          /\ cmd' = [cmd EXCEPT ![c].pc = "banned"]
          /\ UNCHANGED faults
       \/ Fault /\ cmd' = [cmd EXCEPT ![c].pc = "rollback"] /\ UNCHANGED ban
    /\ UNCHANGED <<now, cases, tempBans, batch, current, tried, crashes>>

(* The ban failed: the case is deactivated, and an error doing so is ignored. *)
TempBanRollback(c) ==
    /\ cmd[c].pc = "rollback"
    /\ cmd' = [cmd EXCEPT ![c] = Idle]
    /\ \/ cases' = [cases EXCEPT ![cmd[c].case].active = FALSE] /\ UNCHANGED faults
       \/ Fault /\ UNCHANGED cases
    /\ UNCHANGED <<now, ban, tempBans, batch, current, tried, crashes>>

InsertRow(c) ==
    tempBans' = [tempBans EXCEPT ![cmd[c].case] =
                [st |-> "live", user |-> cmd[c].user, exp |-> cmd[c].exp]]

\* Mutant: temp_bans without its partial unique index.
CreateTempBanNoIndex(c) ==
    /\ cmd[c].pc = "banned"
    /\ cmd' = [cmd EXCEPT ![c] = Idle]
    /\ InsertRow(c)
    /\ UNCHANGED <<now, ban, cases, batch, current, tried, faults, crashes>>

(* idx_temp_bans_active admits one live row per user; a second one is        *)
(* refused and the command answers that the earliest expiry wins.            *)
CreateTempBan(c) ==
    /\ cmd[c].pc = "banned"
    /\ cmd' = [cmd EXCEPT ![c] = Idle]
    /\ \/ LiveRowsOf(cmd[c].user) = {} /\ InsertRow(c) /\ UNCHANGED faults
       \/ LiveRowsOf(cmd[c].user) # {} /\ UNCHANGED <<tempBans, faults>>
       \/ Fault /\ UNCHANGED tempBans
    /\ UNCHANGED <<now, ban, cases, batch, current, tried, crashes>>

---------------------------------------------------------------------------
(* .ban (the ban, then the case, whose errors are swallowed), and the bans   *)
(* and unbans that leave temp_bans alone: the dashboard console's, and those *)
(* of people in the Discord client.                                          *)

BanOnDiscord(c, u) ==
    /\ cmd[c].pc = "idle" /\ Len(cases) < MaxCases
    /\ ban' = [ban EXCEPT ![u] = "perm"]
    /\ cmd' = [cmd EXCEPT ![c] = [pc |-> "permBanned", user |-> u, exp |-> 0, case |-> 0]]
    /\ UNCHANGED <<now, cases, tempBans, batch, current, tried, faults, crashes>>

BanRecord(c) ==
    /\ cmd[c].pc = "permBanned"
    /\ cmd' = [cmd EXCEPT ![c] = Idle]
    /\ \/ Len(cases) < MaxCases /\ AppendCase("ban", cmd[c].user) /\ UNCHANGED faults
       \/ Fault /\ UNCHANGED cases
    /\ UNCHANGED <<now, ban, tempBans, batch, current, tried, crashes>>

ConsoleBan(u) ==
    /\ ban' = [ban EXCEPT ![u] = "perm"]
    /\ UNCHANGED <<now, cases, tempBans, cmd, batch, current, tried, faults, crashes>>

ConsoleUnban(u) ==
    /\ ban[u] # "none"
    /\ ban' = [ban EXCEPT ![u] = "none"]
    /\ UNCHANGED <<now, cases, tempBans, cmd, batch, current, tried, faults, crashes>>

---------------------------------------------------------------------------
(* The sweeper. *)

\* Mutant: the query without its expiry condition.
AllLiveRows == LiveRows

DueTempBans == {n \in LiveRows : tempBans[n].exp <= now}

Expiry == [n \in CaseNo |-> tempBans[n].exp]

\* Mutant: a sweep that takes the whole table.
SweepReadAll ==
    /\ batch = {} /\ DueTempBans # {}
    /\ batch' = DueTempBans
    /\ UNCHANGED <<now, ban, cases, tempBans, cmd, current, tried, faults, crashes>>

\* Mutant: the row is consumed when it is read, before its ban is lifted.
SweepReadAndMark ==
    /\ batch = {} /\ DueTempBans # {}
    /\ batch' \in Earliest(DueTempBans, TempBanBatch, Expiry)
    /\ tempBans' = [n \in CaseNo |-> IF n \in batch' THEN [tempBans[n] EXCEPT !.st = "unbanned"]
                                                ELSE tempBans[n]]
    /\ UNCHANGED <<now, ban, cases, cmd, current, tried, faults, crashes>>

SweepRead ==
    /\ batch = {} /\ DueTempBans # {}
    /\ batch' \in Earliest(DueTempBans, TempBanBatch, Expiry)
    /\ UNCHANGED <<now, ban, cases, tempBans, cmd, current, tried, faults, crashes>>

(* GuildBanDelete.  Lifting a ban that is not there fails and changes nothing. *)
SweepLift ==
    /\ current = 0
    /\ \E n \in First(batch, Expiry) :
          /\ current' = n
          /\ tried' = tried \cup {n}
          /\ \/ ban' = [ban EXCEPT ![tempBans[n].user] = "none"] /\ UNCHANGED faults
             \/ Fault /\ UNCHANGED ban
    /\ UNCHANGED <<now, cases, tempBans, cmd, batch, crashes>>

(* The row is consumed whether or not the ban was lifted.  If the UPDATE     *)
(* fails the loop goes on and the row is still due at the next sweep.        *)
SweepMark ==
    /\ current # 0
    /\ batch' = batch \ {current}
    /\ current' = 0
    /\ \/ tempBans' = [tempBans EXCEPT ![current].st = "unbanned"] /\ UNCHANGED faults
       \/ Fault /\ UNCHANGED tempBans
    /\ UNCHANGED <<now, ban, cases, cmd, tried, crashes>>

(* The process dies and comes back: goroutines are gone, Discord and the     *)
(* database keep what they had.                                              *)
Crash ==
    /\ crashes < MaxCrashes
    /\ crashes' = crashes + 1
    /\ cmd' = [c \in Cmd |-> Idle]
    /\ batch' = {} /\ current' = 0
    /\ UNCHANGED <<now, ban, cases, tempBans, tried, faults>>

---------------------------------------------------------------------------
Command(c) ==
    \/ \E u \in User, d \in 1..MaxTime : TempBanRecord(c, u, d)
    \/ TempBanOnDiscord(c) \/ TempBanRollback(c) \/ CreateTempBan(c)
    \/ \E u \in User : BanOnDiscord(c, u)
    \/ BanRecord(c)

TempBanSweep == SweepRead \/ SweepLift \/ SweepMark

TempBanNext ==
    \/ TempBanTick \/ TempBanSweep \/ Crash
    \/ \E c \in Cmd : Command(c)
    \/ \E u \in User : ConsoleBan(u) \/ ConsoleUnban(u)

TempBanSpec == TempBanInit /\ [][TempBanNext]_tempBanVars

(* sched.Loop re-arms its timer after every sweep, panics included, so the   *)
(* sweeper keeps taking steps while the process is up.  Nothing obliges a    *)
(* moderator to act, and MaxFaults and MaxCrashes make the faults finite.    *)
TempBanFairSpec == TempBanSpec /\ WF_tempBanVars(TempBanSweep)

---------------------------------------------------------------------------
(* Types: what each variable holds, and that a sweep never holds more rows   *)
(* than one batch (the LIMIT of DueTempBans).                                *)
TempBanTypeOK ==
    /\ now \in Time
    /\ ban \in [User -> {"none", "temp", "perm"}]
    /\ cases \in Seq(CaseRecord)
    /\ Len(cases) <= MaxCases
    /\ tempBans \in [CaseNo -> TempBanRow]
    /\ cmd \in [Cmd -> Running]
    /\ batch \subseteq CaseNo /\ Cardinality(batch) <= TempBanBatch
    /\ current \in batch \cup {0}
    /\ tried \subseteq CaseNo
    /\ faults \in 0..MaxFaults /\ crashes \in 0..MaxCrashes

(* README "one live tempban per user": whatever commands, sweeps and         *)
(* restarts interleave, a user never has two rows waiting to unban them.     *)
OneLiveTempBan == \A m, n \in LiveRows : tempBans[m].user = tempBans[n].user => m = n

(* A sweep works on copies of the rows it read.  No other goroutine consumes *)
(* a row, so every row still in its batch is live and due when the loop      *)
(* comes to it, however long the Discord calls before it took.               *)
BatchStaysDue == batch \subseteq DueTempBans

(* Nobody is under a temporary ban of which mod_cases knows nothing: the     *)
(* case is written before the ban is.                                        *)
TempBanHasCase ==
    \A u \in User : ban[u] = "temp" =>
        \E n \in 1..Len(cases) : cases[n].type = "tempban" /\ cases[n].user = u

(* The sweeper never lifts the ban of somebody whose scheduled unban is      *)
(* still in the future, although it bans and unbans by user and not by row.  *)
(* It relies on the unique index and on the row being consumed after the     *)
(* lift: either one missing, a new temporary ban could be lifted by a sweep  *)
(* that was busy with the one before it.                                     *)
NoEarlyLift ==
    [][\A u \in User : current # current' /\ ban'[u] # ban[u] =>
           \A n \in LiveRowsOf(u) : tempBans[n].exp <= now]_tempBanVars

(* tempban.go answers "they already had an active tempban scheduled - the    *)
(* earliest expiry wins": after that answer, and after any other tempban     *)
(* whose row was written, the ban is scheduled to end.  A command between    *)
(* its ban and its row is still busy scheduling it.                          *)
AutoUnbanScheduled ==
    \A u \in User : ban[u] = "temp" =>
        \/ LiveRowsOf(u) # {}
        \/ \E c \in Cmd : cmd[c].pc = "banned" /\ cmd[c].user = u

(* temp_bans is a table of deadline jobs (see DeadlineJobs).  tempban.go     *)
(* writes its row last, so no row is ever its creator's to withdraw.         *)
JobStatus(n) ==
    CASE tempBans[n].st = "none" -> "none"
      [] tempBans[n].st = "unbanned" -> "done"
      [] OTHER -> IF n \in tried THEN "tried" ELSE "waiting"

Jobs == INSTANCE DeadlineJobs
            WITH Job <- CaseNo, clock <- now,
                 status <- [n \in CaseNo |-> JobStatus(n)],
                 deadline <- [n \in CaseNo |-> tempBans[n].exp],
                 creating <- {}

(* The sweeper tries to lift the ban of a row only when the row is due, and  *)
(* consumes the row only after it has tried; a consumed row never comes      *)
(* back, and a due row is eventually consumed, through failing calls and     *)
(* restarts.                                                                 *)
RefinesDeadlineJobs == Jobs!Spec
=============================================================================
