--------------------------- MODULE TempBansProofs ---------------------------
(***************************************************************************)
(* Theorems about TempBans, for any users, commands, batch size and        *)
(* bounds.  The inductive invariant adds to the properties of the runs     *)
(* what makes them stable: who holds a case number, and which rows the     *)
(* sweeper can be working on.                                              *)
(***************************************************************************)
EXTENDS TempBans, TLAPS, FiniteSetTheorems, SequenceTheorems

Types ==
    /\ now \in Time
    /\ ban \in [User -> {"none", "temp", "perm"}]
    /\ cases \in Seq(CaseRecord)
    /\ Len(cases) <= MaxCases
    /\ tempBans \in [CaseNo -> TempBanRow]
    /\ cmd \in [Cmd -> Running]
    /\ batch \subseteq CaseNo
    /\ current \in CaseNo \cup {0}
    /\ tried \subseteq CaseNo

(* A .tempban command owns its case number until its row is written. *)
Holds(c) == cmd[c].pc \in {"recorded", "rollback", "banned"}

CmdInv ==
    /\ \A c \in Cmd : cmd[c].pc # "idle" => cmd[c].user \in User
    /\ \A c \in Cmd : Holds(c) =>
          /\ cmd[c].case \in 1..Len(cases)
          /\ tempBans[cmd[c].case].st = "none"
          /\ cases[cmd[c].case].type = "tempban"
          /\ cases[cmd[c].case].user = cmd[c].user
    /\ \A c, d \in Cmd : Holds(c) /\ Holds(d) /\ c # d => cmd[c].case # cmd[d].case

RowInv ==
    \A n \in CaseNo :
        /\ tempBans[n].st # "none" => n <= Len(cases) /\ tempBans[n].user \in User
        /\ tempBans[n].st = "none" => n \notin tried

SweepInv ==
    /\ BatchStaysDue
    /\ current # 0 => current \in batch /\ current \in tried

IInv == Types /\ CmdInv /\ RowInv /\ SweepInv /\ OneLiveTempBan /\ TempBanHasCase

---------------------------------------------------------------------------
(* What the two writes to mod_cases do to the sequence of cases. *)

LEMMA AppendedCase ==
    ASSUME Types, NEW type \in {"tempban", "ban"}, NEW u \in User, AppendCase(type, u),
           Len(cases) < MaxCases
    PROVE  /\ cases' \in Seq(CaseRecord)
           /\ Len(cases') = Len(cases) + 1
           /\ Len(cases') <= MaxCases
           /\ \A i \in 1..Len(cases) : i \in 1..Len(cases') /\ cases'[i] = cases[i]
           /\ cases'[Len(cases) + 1].type = type
           /\ cases'[Len(cases) + 1].user = u
<1> DEFINE r == [type |-> type, user |-> u, active |-> TRUE]
<1>1. r \in CaseRecord
  BY DEF CaseRecord
<1>2. cases' = Append(cases, r)
  BY DEF AppendCase
<1>. QED
  BY <1>1, <1>2, TempBanAssumption, SweepsAssumption DEF Types

LEMMA DeactivatedCase ==
    ASSUME Types, NEW k \in 1..Len(cases), cases' = [cases EXCEPT ![k].active = FALSE]
    PROVE  /\ cases' \in Seq(CaseRecord)
           /\ Len(cases') = Len(cases)
           /\ \A i \in 1..Len(cases) : /\ cases'[i].type = cases[i].type
                                       /\ cases'[i].user = cases[i].user
<1> DEFINE r == [cases[k] EXCEPT !.active = FALSE]
<1>1. cases[k] \in CaseRecord
  BY ElementOfSeq DEF Types
<1>2. r \in CaseRecord /\ r.type = cases[k].type /\ r.user = cases[k].user
  BY <1>1 DEF CaseRecord
<1>3. cases' = [cases EXCEPT ![k] = r]
  OBVIOUS
<1>4. /\ cases' \in Seq(CaseRecord) /\ Len(cases') = Len(cases)
      /\ \A j \in 1..Len(cases) : cases'[j] = IF j = k THEN r ELSE cases[j]
  <2>1. cases \in Seq(CaseRecord)
    BY DEF Types
  <2> HIDE DEF r
  <2>2. ASSUME NEW e \in CaseRecord
        PROVE  /\ [cases EXCEPT ![k] = e] \in Seq(CaseRecord)
               /\ Len([cases EXCEPT ![k] = e]) = Len(cases)
               /\ \A j \in 1..Len(cases) :
                     [cases EXCEPT ![k] = e][j] = IF j = k THEN e ELSE cases[j]
    BY <2>1, ExceptSeq
  <2>3. r \in CaseRecord
    BY <1>2
  <2>4. /\ [cases EXCEPT ![k] = r] \in Seq(CaseRecord)
        /\ Len([cases EXCEPT ![k] = r]) = Len(cases)
        /\ \A j \in 1..Len(cases) : [cases EXCEPT ![k] = r][j] = IF j = k THEN r ELSE cases[j]
    BY ONLY <2>2, <2>3
  <2>. QED
    BY ONLY <1>3, <2>4
<1>. QED
  BY <1>2, <1>4

---------------------------------------------------------------------------
LEMMA InitIInv == TempBanInit => IInv
<1> SUFFICES ASSUME TempBanInit PROVE IInv
  OBVIOUS
<1>1. Types
  BY TempBanAssumption, SweepsAssumption DEF TempBanInit, Types, Time, TempBanRow, NoTempBan, Running, Idle, Someone
<1>2. CmdInv
  BY DEF TempBanInit, CmdInv, Holds, Idle
<1>3. RowInv /\ SweepInv /\ OneLiveTempBan /\ TempBanHasCase
  BY DEF TempBanInit, RowInv, SweepInv, BatchStaysDue, OneLiveTempBan, TempBanHasCase,
         LiveRows, NoTempBan
<1>. QED
  BY <1>1, <1>2, <1>3 DEF IInv

(* Steps that touch neither commands, cases, rows nor the sweeper. *)
LEMMA BanListStep ==
    ASSUME IInv, NEW u \in User, NEW b \in {"none", "perm"},
           ban' = [ban EXCEPT ![u] = b],
           UNCHANGED <<now, cases, tempBans, cmd, batch, current, tried>>
    PROVE  IInv'
<1>1. Types'
  BY DEF IInv, Types
<1>2. CmdInv' /\ RowInv' /\ SweepInv' /\ OneLiveTempBan'
  BY DEF IInv, CmdInv, Holds, RowInv, SweepInv, BatchStaysDue, DueTempBans, OneLiveTempBan,
         LiveRows
<1>3. TempBanHasCase'
  BY DEF IInv, TempBanHasCase, Types
<1>. QED
  BY <1>1, <1>2, <1>3 DEF IInv

LEMMA RecordStep ==
    ASSUME IInv, NEW c \in Cmd, NEW u \in User, NEW d \in 1..MaxTime, TempBanRecord(c, u, d)
    PROVE  IInv'
<1> USE DEF IInv
<1>1. /\ AppendCase("tempban", u) /\ Len(cases) < MaxCases
      /\ UNCHANGED <<now, ban, tempBans, batch, current, tried>>
  BY DEF TempBanRecord
<1>2. /\ cases' \in Seq(CaseRecord) /\ Len(cases) \in Nat
      /\ Len(cases') = Len(cases) + 1 /\ Len(cases') <= MaxCases
      /\ \A i \in 1..Len(cases) : i \in 1..Len(cases') /\ cases'[i] = cases[i]
      /\ cases'[Len(cases) + 1].type = "tempban"
      /\ cases'[Len(cases) + 1].user = u
  BY <1>1, AppendedCase DEF Types
<1>3. \/ UNCHANGED cmd
      \/ cmd' = [cmd EXCEPT ![c] = [pc |-> "recorded", user |-> u, exp |-> now + d,
                                    case |-> Len(cases) + 1]]
  BY DEF TempBanRecord
<1>4. now + d \in Time
  BY TempBanAssumption, SweepsAssumption DEF TempBanRecord, Time, Types
<1>5. Types'
  <2>1. cmd' \in [Cmd -> Running]
    <3>1. [pc |-> "recorded", user |-> u, exp |-> now + d, case |-> Len(cases) + 1] \in Running
      BY <1>2, <1>4 DEF Running, Someone
    <3>. QED
      BY <1>3, <3>1 DEF Types
  <2>. QED
    BY <1>1, <1>2, <2>1 DEF Types
<1>6. Len(cases) + 1 \in CaseNo /\ tempBans[Len(cases) + 1].st = "none"
  BY <1>1, <1>2, TempBanAssumption, SweepsAssumption DEF CaseNo, RowInv
<1>7. CmdInv'
  <2>1. CASE UNCHANGED cmd
    BY <1>1, <1>2, <2>1 DEF CmdInv, Holds
  <2>2. CASE cmd' = [cmd EXCEPT ![c] = [pc |-> "recorded", user |-> u, exp |-> now + d,
                                        case |-> Len(cases) + 1]]
    <3>1. cmd'[c] = [pc |-> "recorded", user |-> u, exp |-> now + d, case |-> Len(cases) + 1]
      BY <2>2 DEF Types
    <3>2. \A e \in Cmd \ {c} : cmd'[e] = cmd[e]
      BY <2>2 DEF Types
    <3>. QED
      BY <1>1, <1>2, <1>6, <3>1, <3>2 DEF CmdInv, Holds
  <2>. QED
    BY <1>3, <2>1, <2>2
<1>8. RowInv' /\ SweepInv' /\ OneLiveTempBan'
  BY <1>1, <1>2 DEF RowInv, SweepInv, BatchStaysDue, DueTempBans, OneLiveTempBan, LiveRows,
                    CaseNo
<1>9. TempBanHasCase'
  BY <1>1, <1>2 DEF TempBanHasCase
<1>. QED
  BY <1>5, <1>7, <1>8, <1>9

LEMMA OnDiscordStep ==
    ASSUME IInv, NEW c \in Cmd, TempBanOnDiscord(c)
    PROVE  IInv'
<1> USE DEF IInv
<1>1. UNCHANGED <<now, cases, tempBans, batch, current, tried>> /\ cmd[c].pc = "recorded"
  BY DEF TempBanOnDiscord
<1>2. PICK pc \in {"banned", "rollback"} : cmd' = [cmd EXCEPT ![c].pc = pc]
  BY DEF TempBanOnDiscord
<1>3. ban' = ban \/ ban' = [ban EXCEPT ![cmd[c].user] = "temp"]
  BY DEF TempBanOnDiscord
<1>4. Types'
  BY <1>1, <1>2, <1>3 DEF Types, Running
<1>5. CmdInv'
  <2>1. /\ cmd'[c].pc \in {"banned", "rollback"} /\ Holds(c)
        /\ cmd'[c].user = cmd[c].user /\ cmd'[c].case = cmd[c].case
    BY <1>1, <1>2 DEF Types, Running, Holds
  <2>2. \A e \in Cmd \ {c} : cmd'[e] = cmd[e]
    BY <1>2 DEF Types
  <2>. QED
    BY <1>1, <2>1, <2>2 DEF CmdInv, Holds
<1>6. RowInv' /\ SweepInv' /\ OneLiveTempBan'
  BY <1>1 DEF RowInv, SweepInv, BatchStaysDue, DueTempBans, OneLiveTempBan, LiveRows
<1>7. TempBanHasCase'
  <2>1. /\ cmd[c].user \in User /\ cmd[c].case \in 1..Len(cases)
        /\ cases[cmd[c].case].type = "tempban" /\ cases[cmd[c].case].user = cmd[c].user
    BY <1>1 DEF CmdInv, Holds
  <2>. QED
    BY <1>1, <1>3, <2>1 DEF TempBanHasCase, Types
<1>. QED
  BY <1>4, <1>5, <1>6, <1>7

(* A command that ends gives up the case number it held, if any. *)
LEMMA CommandEnds ==
    ASSUME Types, CmdInv, NEW c \in Cmd, cmd' = [cmd EXCEPT ![c] = Idle]
    PROVE  /\ cmd' \in [Cmd -> Running]
           /\ cmd'[c].pc = "idle" /\ ~Holds(c)'
           /\ \A e \in Cmd \ {c} : cmd'[e] = cmd[e] /\ (Holds(e)' <=> Holds(e))
<1>1. Idle \in Running
  BY TempBanAssumption, SweepsAssumption DEF Idle, Running, Someone, Time
<1>. QED
  BY <1>1 DEF Types, Holds, Idle

LEMMA RollbackStep ==
    ASSUME IInv, NEW c \in Cmd, TempBanRollback(c)
    PROVE  IInv'
<1> USE DEF IInv
<1>1. /\ UNCHANGED <<now, ban, tempBans, batch, current, tried>>
      /\ cmd' = [cmd EXCEPT ![c] = Idle]
      /\ Holds(c)
      /\ cases' = cases \/ cases' = [cases EXCEPT ![cmd[c].case].active = FALSE]
  BY DEF TempBanRollback, Holds
<1>2. /\ cases' \in Seq(CaseRecord) /\ Len(cases') = Len(cases)
      /\ \A i \in 1..Len(cases) : cases'[i].type = cases[i].type /\ cases'[i].user = cases[i].user
  BY <1>1, DeactivatedCase DEF Types, CmdInv
<1>3. /\ cmd' \in [Cmd -> Running]
      /\ cmd'[c].pc = "idle" /\ ~Holds(c)'
      /\ \A e \in Cmd \ {c} : cmd'[e] = cmd[e] /\ (Holds(e)' <=> Holds(e))
  BY <1>1, CommandEnds
<1>4. Types'
  BY <1>1, <1>2, <1>3 DEF Types
<1>5. CmdInv'
  BY <1>1, <1>2, <1>3 DEF CmdInv
<1>6. RowInv' /\ SweepInv' /\ OneLiveTempBan'
  BY <1>1, <1>2 DEF RowInv, SweepInv, BatchStaysDue, DueTempBans, OneLiveTempBan, LiveRows
<1>7. TempBanHasCase'
  BY <1>1, <1>2 DEF TempBanHasCase
<1>. QED
  BY <1>4, <1>5, <1>6, <1>7

LEMMA CreateStep ==
    ASSUME IInv, NEW c \in Cmd, CreateTempBan(c)
    PROVE  IInv'
<1> USE DEF IInv
<1> DEFINE k == cmd[c].case
           u == cmd[c].user
<1>1. /\ UNCHANGED <<now, ban, cases, batch, current, tried>>
      /\ cmd' = [cmd EXCEPT ![c] = Idle] /\ cmd[c].pc = "banned" /\ Holds(c)
  BY DEF CreateTempBan, Holds
<1>2. /\ cmd' \in [Cmd -> Running]
      /\ cmd'[c].pc = "idle" /\ ~Holds(c)'
      /\ \A e \in Cmd \ {c} : cmd'[e] = cmd[e] /\ (Holds(e)' <=> Holds(e))
  BY <1>1, CommandEnds
<1>3. /\ k \in CaseNo /\ k \in 1..Len(cases) /\ u \in User
      /\ tempBans[k].st = "none" /\ cmd[c].exp \in Time
  BY <1>1, TempBanAssumption, SweepsAssumption DEF CmdInv, Types, CaseNo, Running
<1>4. CASE UNCHANGED tempBans
  <2>1. Types' /\ CmdInv'
    BY <1>1, <1>2, <1>4 DEF Types, CmdInv
  <2>2. RowInv' /\ SweepInv' /\ OneLiveTempBan' /\ TempBanHasCase'
    BY <1>1, <1>4 DEF RowInv, SweepInv, BatchStaysDue, DueTempBans, OneLiveTempBan,
                      LiveRows, TempBanHasCase
  <2>. QED
    BY <2>1, <2>2
<1>5. CASE LiveRowsOf(u) = {} /\ InsertRow(c)
  <2>1. /\ tempBans' \in [CaseNo -> TempBanRow]
        /\ tempBans'[k] = [st |-> "live", user |-> u, exp |-> cmd[c].exp]
        /\ \A n \in CaseNo \ {k} : tempBans'[n] = tempBans[n]
    BY <1>3, <1>5 DEF InsertRow, Types, TempBanRow, Someone
  <2>2. Types'
    BY <1>1, <1>2, <2>1 DEF Types
  <2>3. CmdInv'
    <3>1. \A e \in Cmd : Holds(e)' => /\ e # c /\ cmd'[e] = cmd[e] /\ Holds(e)
                                      /\ cmd[e].case \in CaseNo \ {k}
      BY <1>1, <1>2, TempBanAssumption, SweepsAssumption DEF CmdInv, CaseNo, Types
    <3>. QED
      BY <1>1, <1>2, <2>1, <3>1 DEF CmdInv
  <2>4. RowInv'
    BY <1>1, <1>3, <2>1, TempBanAssumption, SweepsAssumption DEF RowInv, CaseNo, Types
  <2>5. k \notin batch
    BY <1>3 DEF SweepInv, BatchStaysDue, DueTempBans, LiveRows
  <2>6. SweepInv'
    BY <1>1, <2>1, <2>5 DEF SweepInv, BatchStaysDue, DueTempBans, LiveRows, Types
  <2>7. OneLiveTempBan'
    BY <1>3, <1>5, <2>1 DEF OneLiveTempBan, LiveRows, LiveRowsOf
  <2>8. TempBanHasCase'
    BY <1>1 DEF TempBanHasCase
  <2>. QED
    BY <2>2, <2>3, <2>4, <2>6, <2>7, <2>8
<1>. QED
  BY <1>4, <1>5 DEF CreateTempBan

LEMMA BanOnDiscordStep ==
    ASSUME IInv, NEW c \in Cmd, NEW u \in User, BanOnDiscord(c, u)
    PROVE  IInv'
<1> USE DEF IInv
<1>1. /\ UNCHANGED <<now, cases, tempBans, batch, current, tried>>
      /\ ban' = [ban EXCEPT ![u] = "perm"]
      /\ cmd' = [cmd EXCEPT ![c] = [pc |-> "permBanned", user |-> u, exp |-> 0, case |-> 0]]
  BY DEF BanOnDiscord
<1>2. [pc |-> "permBanned", user |-> u, exp |-> 0, case |-> 0] \in Running
  BY TempBanAssumption, SweepsAssumption DEF Running, Someone, Time
<1>3. Types'
  BY <1>1, <1>2 DEF Types
<1>4. /\ cmd'[c].pc = "permBanned" /\ cmd'[c].user = u
      /\ \A e \in Cmd \ {c} : cmd'[e] = cmd[e]
  BY <1>1 DEF Types, Idle
<1>5. CmdInv'
  BY <1>1, <1>4 DEF CmdInv, Holds
<1>6. RowInv' /\ SweepInv' /\ OneLiveTempBan'
  BY <1>1 DEF RowInv, SweepInv, BatchStaysDue, DueTempBans, OneLiveTempBan, LiveRows
<1>7. TempBanHasCase'
  BY <1>1 DEF TempBanHasCase, Types
<1>. QED
  BY <1>3, <1>5, <1>6, <1>7

LEMMA BanRecordStep ==
    ASSUME IInv, NEW c \in Cmd, BanRecord(c)
    PROVE  IInv'
<1> USE DEF IInv
<1>1. /\ UNCHANGED <<now, ban, tempBans, batch, current, tried>>
      /\ cmd' = [cmd EXCEPT ![c] = Idle] /\ cmd[c].pc = "permBanned"
  BY DEF BanRecord
<1>2. /\ cmd' \in [Cmd -> Running]
      /\ cmd'[c].pc = "idle" /\ ~Holds(c)'
      /\ \A e \in Cmd \ {c} : cmd'[e] = cmd[e] /\ (Holds(e)' <=> Holds(e))
  BY <1>1, CommandEnds
<1>3. /\ cases' \in Seq(CaseRecord) /\ Len(cases') <= MaxCases
      /\ Len(cases) \in Nat /\ Len(cases') \in Nat /\ Len(cases) <= Len(cases')
      /\ \A i \in 1..Len(cases) : i \in 1..Len(cases') /\ cases'[i] = cases[i]
  <2>1. CASE UNCHANGED cases
    BY <2>1, LenProperties DEF Types
  <2>2. CASE Len(cases) < MaxCases /\ AppendCase("ban", cmd[c].user)
    BY <1>1, <2>2, AppendedCase, LenProperties DEF Types, CmdInv
  <2>. QED
    BY <2>1, <2>2 DEF BanRecord
<1>4. Types'
  BY <1>1, <1>2, <1>3 DEF Types
<1>5. CmdInv'
  BY <1>1, <1>2, <1>3 DEF CmdInv
<1>6. RowInv' /\ SweepInv' /\ OneLiveTempBan'
  BY <1>1, <1>3 DEF RowInv, SweepInv, BatchStaysDue, DueTempBans, OneLiveTempBan, LiveRows,
                    CaseNo
<1>7. TempBanHasCase'
  BY <1>1, <1>3 DEF TempBanHasCase
<1>. QED
  BY <1>4, <1>5, <1>6, <1>7

LEMMA SweepStep ==
    ASSUME IInv, TempBanSweep
    PROVE  IInv'
<1> USE DEF IInv
<1>1. CASE SweepRead
  <2>1. /\ batch' \subseteq DueTempBans /\ batch = {}
        /\ UNCHANGED <<now, ban, cases, tempBans, cmd, current, tried>>
    BY <1>1 DEF SweepRead, Earliest
  <2>2. Types' /\ CmdInv' /\ RowInv'
    BY <2>1 DEF Types, CmdInv, Holds, RowInv, DueTempBans, LiveRows
  <2>3. SweepInv' /\ OneLiveTempBan' /\ TempBanHasCase'
    BY <2>1 DEF SweepInv, BatchStaysDue, DueTempBans, LiveRows, OneLiveTempBan,
                TempBanHasCase
  <2>. QED
    BY <2>2, <2>3
<1>2. CASE SweepLift
  <2>1. PICK n \in batch :
            /\ current' = n /\ tried' = tried \cup {n}
            /\ ban' = ban \/ ban' = [ban EXCEPT ![tempBans[n].user] = "none"]
    BY <1>2 DEF SweepLift, First
  <2>2. UNCHANGED <<now, cases, tempBans, cmd, batch>>
    BY <1>2 DEF SweepLift, First
  <2>3. n \in CaseNo /\ tempBans[n].st = "live"
    BY DEF SweepInv, BatchStaysDue, DueTempBans, LiveRows
  <2>4. Types'
    BY <2>1, <2>2, <2>3 DEF Types
  <2>5. CmdInv' /\ RowInv'
    BY <2>1, <2>2, <2>3 DEF CmdInv, Holds, RowInv
  <2>6. SweepInv' /\ OneLiveTempBan'
    BY <2>1, <2>2 DEF SweepInv, BatchStaysDue, DueTempBans, LiveRows, OneLiveTempBan
  <2>7. TempBanHasCase'
    BY <2>1, <2>2 DEF TempBanHasCase, Types
  <2>. QED
    BY <2>4, <2>5, <2>6, <2>7
<1>3. CASE SweepMark
  <2>1. /\ batch' = batch \ {current} /\ current' = 0 /\ current \in CaseNo
        /\ current \in batch /\ UNCHANGED <<now, ban, cases, cmd, tried>>
        /\ tempBans' = tempBans \/ tempBans' = [tempBans EXCEPT ![current].st = "unbanned"]
    BY <1>3 DEF SweepMark, SweepInv, Types
  <2>2. /\ tempBans' \in [CaseNo -> TempBanRow]
        /\ \A n \in CaseNo :
              /\ n # current => tempBans'[n] = tempBans[n]
              /\ tempBans'[n].user = tempBans[n].user /\ tempBans'[n].exp = tempBans[n].exp
              /\ tempBans'[n].st = tempBans[n].st \/ (n = current /\ tempBans'[n].st = "unbanned")
    BY <2>1 DEF Types, TempBanRow
  <2>3. tempBans[current].st = "live"
    BY <2>1 DEF SweepInv, BatchStaysDue, DueTempBans, LiveRows
  <2>4. Types'
    BY <2>1, <2>2 DEF Types
  <2>5. CmdInv'
    <3>1. \A c \in Cmd : Holds(c) => cmd[c].case \in CaseNo /\ cmd[c].case # current
      BY <2>3, TempBanAssumption, SweepsAssumption DEF CmdInv, Types, CaseNo
    <3>. QED
      BY <2>1, <2>2, <3>1 DEF CmdInv, Holds
  <2>6. RowInv'
    BY <2>1, <2>2, <2>3 DEF RowInv
  <2>7. SweepInv'
    BY <2>1, <2>2 DEF SweepInv, BatchStaysDue, DueTempBans, LiveRows
  <2>8. OneLiveTempBan'
    BY <2>2 DEF OneLiveTempBan, LiveRows
  <2>9. TempBanHasCase'
    BY <2>1 DEF TempBanHasCase
  <2>. QED
    BY <2>4, <2>5, <2>6, <2>7, <2>8, <2>9
<1>. QED
  BY <1>1, <1>2, <1>3 DEF TempBanSweep

LEMMA ClockAndCrashStep ==
    ASSUME IInv, TempBanTick \/ Crash
    PROVE  IInv'
<1> USE DEF IInv
<1>1. CASE TempBanTick
  <2>1. /\ now \in Nat /\ now' \in Time /\ now <= now'
        /\ UNCHANGED <<ban, cases, tempBans, cmd, batch, current, tried>>
    BY <1>1, TempBanAssumption, SweepsAssumption DEF TempBanTick, Types, Time
  <2>2. \A n \in CaseNo : tempBans[n].exp \in Nat
    BY DEF Types, TempBanRow, Time
  <2>3. Types' /\ CmdInv' /\ RowInv'
    BY <2>1 DEF Types, CmdInv, Holds, RowInv
  <2>4. SweepInv' /\ OneLiveTempBan' /\ TempBanHasCase'
    BY <2>1, <2>2 DEF SweepInv, BatchStaysDue, DueTempBans, LiveRows, OneLiveTempBan,
                      TempBanHasCase, Time
  <2>. QED
    BY <2>3, <2>4
<1>2. CASE Crash
  <2>1. /\ UNCHANGED <<now, ban, cases, tempBans, tried>>
        /\ cmd' = [c \in Cmd |-> Idle] /\ batch' = {} /\ current' = 0
    BY <1>2 DEF Crash
  <2>2. Idle \in Running
    BY TempBanAssumption, SweepsAssumption DEF Idle, Running, Someone, Time
  <2>3. Types'
    BY <2>1, <2>2 DEF Types
  <2>4. CmdInv'
    BY <2>1 DEF CmdInv, Holds, Idle
  <2>5. RowInv' /\ SweepInv' /\ OneLiveTempBan' /\ TempBanHasCase'
    BY <2>1 DEF RowInv, SweepInv, BatchStaysDue, LiveRows, OneLiveTempBan, TempBanHasCase
  <2>. QED
    BY <2>3, <2>4, <2>5
<1>. QED
  BY <1>1, <1>2

LEMMA NextIInv == IInv /\ [TempBanNext]_tempBanVars => IInv'
<1> SUFFICES ASSUME IInv, [TempBanNext]_tempBanVars PROVE IInv'
  OBVIOUS
<1>1. ASSUME NEW u \in User, ConsoleBan(u) \/ ConsoleUnban(u)
      PROVE  IInv'
  BY <1>1, BanListStep DEF ConsoleBan, ConsoleUnban
<1>2. ASSUME NEW c \in Cmd, Command(c)
      PROVE  IInv'
  BY <1>2, RecordStep, OnDiscordStep, RollbackStep, CreateStep, BanOnDiscordStep, BanRecordStep
     DEF Command
<1>3. CASE UNCHANGED tempBanVars
  BY <1>3 DEF tempBanVars, IInv, Types, CmdInv, Holds, RowInv, SweepInv, BatchStaysDue, DueTempBans,
              OneLiveTempBan, LiveRows, TempBanHasCase
<1>. QED
  BY <1>1, <1>2, <1>3, SweepStep, ClockAndCrashStep DEF TempBanNext

---------------------------------------------------------------------------
(* The invariants the runs check, for any number of users, commands and      *)
(* cases: one live row per user, a batch whose rows stay due, a case for     *)
(* every temporary ban.                                                      *)
THEOREM Invariance == TempBanSpec => [](OneLiveTempBan /\ BatchStaysDue /\ TempBanHasCase)
<1>1. IInv => OneLiveTempBan /\ BatchStaysDue /\ TempBanHasCase
  BY DEF IInv, SweepInv
<1>. QED
  BY <1>1, InitIInv, NextIInv, PTL DEF TempBanSpec

(* A temporary ban Discord has taken on has its case, though the case is     *)
(* written first and withdrawn when the ban fails.                           *)
THEOREM CaseKept == TempBanSpec => []TempBanHasCase
  BY Invariance, PTL

(* The sweeper's batch stays within its LIMIT and the two fault counters     *)
(* within their bounds.                                                      *)
Bounded ==
    /\ Cardinality(batch) <= TempBanBatch
    /\ faults \in 0..MaxFaults
    /\ crashes \in 0..MaxCrashes

LEMMA BoundedStep == IInv /\ Bounded /\ [TempBanNext]_tempBanVars => Bounded'
<1> SUFFICES ASSUME IInv, Bounded, [TempBanNext]_tempBanVars PROVE Bounded'
  OBVIOUS
<1> USE TempBanAssumption, SweepsAssumption
<1>1. faults' \in 0..MaxFaults
  <2>1. faults' = faults \/ Fault
    BY DEF TempBanNext, tempBanVars, TempBanTick, Crash, TempBanSweep, SweepRead, SweepLift, SweepMark, Command,
           TempBanRecord, TempBanOnDiscord, TempBanRollback, CreateTempBan, BanOnDiscord,
           BanRecord, ConsoleBan, ConsoleUnban
  <2>. QED
    BY <2>1 DEF Bounded, Fault
<1>2. crashes' \in 0..MaxCrashes
  <2>1. crashes' = crashes \/ Crash
    BY DEF TempBanNext, tempBanVars, TempBanTick, TempBanSweep, SweepRead, SweepLift, SweepMark, Command,
           TempBanRecord, TempBanOnDiscord, TempBanRollback, CreateTempBan, BanOnDiscord,
           BanRecord, ConsoleBan, ConsoleUnban
  <2>. QED
    BY <2>1 DEF Bounded, Crash
<1>3. Cardinality(batch') <= TempBanBatch
  <2>1. \A S \in SUBSET CaseNo : IsFiniteSet(S) /\ Cardinality(S) \in Nat
    <3>1. IsFiniteSet(CaseNo)
      BY FS_Interval DEF CaseNo
    <3>. QED
      BY <3>1, FS_Subset, FS_CardinalityType
  <2>2. CASE SweepRead
    <3>1. DueTempBans \in SUBSET CaseNo
      BY DEF DueTempBans, LiveRows
    <3>2. Cardinality(DueTempBans) \in Nat
      BY <2>1, <3>1
    <3>. QED
      BY <2>2, <3>2 DEF SweepRead, Earliest
  <2>3. CASE SweepMark
    <3>1. batch' = batch \ {current} /\ batch \in SUBSET CaseNo
      BY <2>3 DEF SweepMark, IInv, Types
    <3>2. Cardinality(batch') <= Cardinality(batch) /\ Cardinality(batch) \in Nat
      BY <2>1, <3>1, FS_RemoveElement
    <3>3. Cardinality(batch') \in Nat
      BY <2>1, <3>1
    <3>. QED
      BY <3>2, <3>3 DEF Bounded
  <2>4. CASE Crash
    BY <2>4, FS_EmptySet DEF Crash
  <2>5. batch' = batch \/ SweepRead \/ SweepMark \/ Crash
    BY DEF TempBanNext, tempBanVars, TempBanTick, TempBanSweep, SweepLift, Command, TempBanRecord, TempBanOnDiscord,
           TempBanRollback, CreateTempBan, BanOnDiscord, BanRecord, ConsoleBan, ConsoleUnban
  <2>. QED
    BY <2>2, <2>3, <2>4, <2>5 DEF Bounded
<1>. QED
  BY <1>1, <1>2, <1>3 DEF Bounded

(* TypeOK holds in every reachable state. *)
THEOREM TypeCorrect == TempBanSpec => []TempBanTypeOK
<1>1. TempBanInit => Bounded
  BY TempBanAssumption, SweepsAssumption, FS_EmptySet DEF TempBanInit, Bounded
<1>2. IInv /\ Bounded => TempBanTypeOK
  BY DEF IInv, Types, SweepInv, Bounded, TempBanTypeOK
<1>. QED
  BY <1>1, <1>2, InitIInv, NextIInv, BoundedStep, PTL DEF TempBanSpec

---------------------------------------------------------------------------
(* NoEarlyLift: the sweeper lifts the ban of the user of a due row, and that *)
(* row is the only live one the user has.                                    *)
THEOREM SweeperIsNeverEarly == TempBanSpec => NoEarlyLift
<1> DEFINE Punctual ==
      \A u \in User : current # current' /\ ban'[u] # ban[u] =>
          \A n \in LiveRowsOf(u) : tempBans[n].exp <= now
<1>1. ASSUME IInv, [TempBanNext]_tempBanVars PROVE [Punctual]_tempBanVars
  <2>1. SUFFICES ASSUME NEW u \in User, current # current', ban'[u] # ban[u],
                        NEW n \in LiveRowsOf(u)
                 PROVE  tempBans[n].exp <= now
    OBVIOUS
  <2>2. SweepLift
    BY <1>1, <2>1 DEF TempBanNext, tempBanVars, TempBanTick, Crash, TempBanSweep, SweepRead, SweepMark, Command,
                      TempBanRecord, TempBanOnDiscord, TempBanRollback, CreateTempBan,
                      BanOnDiscord, BanRecord, ConsoleBan, ConsoleUnban
  <2>3. PICK k \in batch : ban' = ban \/ ban' = [ban EXCEPT ![tempBans[k].user] = "none"]
    BY <2>2 DEF SweepLift, First
  <2>4. tempBans[k].user = u
    BY <1>1, <2>1, <2>3 DEF IInv, Types
  <2>5. k \in LiveRows /\ tempBans[k].exp <= now
    BY <1>1 DEF IInv, SweepInv, BatchStaysDue, DueTempBans
  <2>6. k = n
    BY <1>1, <2>1, <2>4, <2>5 DEF IInv, OneLiveTempBan, LiveRowsOf
  <2>. QED
    BY <2>5, <2>6
<1>. QED
  BY <1>1, InitIInv, NextIInv, PTL DEF TempBanSpec, NoEarlyLift

---------------------------------------------------------------------------
(* temp_bans, as the commands and the sweeper use it, is a table of deadline *)
(* jobs: no row is acted on before it is due, none is consumed without an    *)
(* attempt to lift its ban, none comes back.  (That a due row is eventually  *)
(* consumed is left to TLC.)                                                 *)

LEMMA MappedStep == IInv /\ [TempBanNext]_tempBanVars => [Jobs!Next]_(Jobs!jobVars)
<1> SUFFICES ASSUME IInv, [TempBanNext]_tempBanVars
             PROVE  Jobs!Next \/ UNCHANGED Jobs!jobVars
  OBVIOUS
<1> USE DEF IInv
<1> DEFINE status == [n \in CaseNo |-> JobStatus(n)]
           deadline == [n \in CaseNo |-> tempBans[n].exp]
<1>1. ASSUME UNCHANGED <<now, tempBans, tried>>
      PROVE  UNCHANGED Jobs!jobVars
  BY <1>1 DEF Jobs!jobVars, JobStatus
<1>2. CASE TempBanTick
  BY <1>2 DEF TempBanTick, Jobs!Next, Jobs!Tick, JobStatus
<1>3. ASSUME NEW c \in Cmd, CreateTempBan(c), ~UNCHANGED tempBans
      PROVE  Jobs!Next
  <2>1. /\ UNCHANGED <<now, tried>> /\ InsertRow(c) /\ Holds(c)
    BY <1>3 DEF CreateTempBan, Holds
  <2>2. PICK k \in CaseNo : k = cmd[c].case
    BY <2>1, TempBanAssumption, SweepsAssumption DEF CmdInv, Types, CaseNo
  <2>3. tempBans[k].st = "none" /\ cmd[c].exp \in Time /\ k \notin tried
    BY <2>1, <2>2 DEF CmdInv, Types, Running, RowInv
  <2>4. /\ tempBans'[k].st = "live" /\ tempBans'[k].exp = cmd[c].exp
        /\ \A n \in CaseNo \ {k} : tempBans'[n] = tempBans[n]
    BY <2>1, <2>2 DEF InsertRow, Types
  <2>5. status' = [status EXCEPT ![k] = "waiting"] /\ status[k] = "none"
    BY <2>1, <2>3, <2>4 DEF JobStatus
  <2>6. deadline' = [deadline EXCEPT ![k] = cmd[c].exp]
    BY <2>4
  <2>7. Jobs!Schedule(k)
    BY <2>1, <2>3, <2>5, <2>6 DEF Jobs!Schedule
  <2>. QED
    BY <2>7 DEF Jobs!Next
<1>4. CASE SweepLift
  <2>1. PICK n \in batch : tried' = tried \cup {n}
    BY <1>4 DEF SweepLift, First
  <2>2. UNCHANGED <<now, tempBans>>
    BY <1>4 DEF SweepLift, First
  <2>3. n \in CaseNo /\ tempBans[n].st = "live" /\ tempBans[n].exp <= now
    BY DEF SweepInv, BatchStaysDue, DueTempBans, LiveRows
  <2>4. CASE n \in tried
    BY <1>1, <2>1, <2>2, <2>4
  <2>5. CASE n \notin tried
    <3>1. status' = [status EXCEPT ![n] = "tried"] /\ status[n] = "waiting"
      BY <2>1, <2>2, <2>3, <2>5 DEF JobStatus
    <3>2. Jobs!Try(n)
      BY <2>2, <2>3, <3>1 DEF Jobs!Try
    <3>. QED
      BY <2>3, <3>2 DEF Jobs!Next
  <2>. QED
    BY <2>4, <2>5
<1>5. ASSUME SweepMark, ~UNCHANGED tempBans
      PROVE  Jobs!Next
  <2>1. /\ tempBans' = [tempBans EXCEPT ![current].st = "unbanned"] /\ UNCHANGED <<now, tried>>
        /\ current \in CaseNo /\ current \in tried /\ current \in batch
    BY <1>5 DEF SweepMark, SweepInv, Types
  <2>2. /\ tempBans[current].st = "live" /\ tempBans'[current].st = "unbanned"
        /\ \A n \in CaseNo : tempBans'[n].exp = tempBans[n].exp /\ (n # current => tempBans'[n] = tempBans[n])
    BY <2>1 DEF SweepInv, BatchStaysDue, DueTempBans, LiveRows, Types, TempBanRow
  <2>3. status' = [status EXCEPT ![current] = "done"] /\ status[current] = "tried"
    BY <2>1, <2>2 DEF JobStatus
  <2>4. Jobs!Consume(current)
    BY <2>1, <2>2, <2>3 DEF Jobs!Consume
  <2>. QED
    BY <2>1, <2>4 DEF Jobs!Next
<1>6. CASE SweepRead \/ Crash
  BY <1>1, <1>6 DEF SweepRead, Crash
<1>7. ASSUME NEW u \in User, ConsoleBan(u) \/ ConsoleUnban(u)
      PROVE  UNCHANGED Jobs!jobVars
  BY <1>1, <1>7 DEF ConsoleBan, ConsoleUnban
<1>8. ASSUME NEW c \in Cmd, Command(c)
      PROVE  Jobs!Next \/ UNCHANGED Jobs!jobVars
  <2>1. CreateTempBan(c) \/ UNCHANGED <<now, tempBans, tried>>
    BY <1>8 DEF Command, TempBanRecord, TempBanOnDiscord, TempBanRollback, BanOnDiscord, BanRecord
  <2>2. CreateTempBan(c) => UNCHANGED <<now, tried>>
    BY DEF CreateTempBan
  <2>. QED
    BY <1>1, <1>3, <2>1, <2>2
<1>9. SweepMark => UNCHANGED <<now, tried>>
  BY DEF SweepMark
<1>10. CASE UNCHANGED tempBanVars
  BY <1>1, <1>10 DEF tempBanVars
<1>. QED
  BY <1>1, <1>2, <1>4, <1>5, <1>6, <1>7, <1>8, <1>9, <1>10 DEF TempBanNext, TempBanSweep

THEOREM Refinement == TempBanSpec => Jobs!SafeSpec
<1>1. TempBanInit => Jobs!Init
  BY DEF TempBanInit, Jobs!Init, JobStatus, NoTempBan
<1>. QED
  BY <1>1, InitIInv, NextIInv, MappedStep, PTL DEF TempBanSpec, Jobs!SafeSpec
=============================================================================
