-------------------------- MODULE MemberRolesProofs --------------------------
(***************************************************************************)
(* Theorems about MemberRoles, for any roles, commands, rows and bounds.   *)
(* The inductive invariant says where a lone .jail or .unjail stands with  *)
(* respect to the backup, and why the member has each of the roles.        *)
(***************************************************************************)
EXTENDS MemberRoles, TLAPS, FiniteSetTheorems

Types ==
    /\ now \in Time
    /\ configured \in BOOLEAN /\ present \in BOOLEAN /\ jailed \in BOOLEAN
    /\ doubtful \in BOOLEAN /\ unreleased \in BOOLEAN
    /\ roles \subseteq Role /\ owed \subseteq Role
    /\ lost \subseteq Role /\ stray \subseteq Role
    /\ backup \in Backup
    /\ created \in 0..MaxRows
    /\ rows \in [RowId -> Row]
    /\ cmd \in [Jailer -> Running]
    /\ grant \in [Granter -> Granting]
    /\ batch \subseteq RowId
    /\ current \in RowId \cup {0}
    /\ tried \subseteq RowId

(* A row exists from its insertion on, and only an existing row is tried.    *)
RowInv ==
    \A n \in RowId :
        /\ rows[n].st # "none" <=> n <= created
        /\ n \in tried => n <= created /\ rows[n].exp <= now
        /\ rows[n].st # "none" => rows[n].role \in Role

(* The sweep in hand: all of its rows were due, the current one is tried.    *)
SweepInv ==
    /\ \A n \in batch : rows[n].st # "none" /\ rows[n].exp <= now
    /\ current # 0 => current \in batch /\ current \in tried

(* A .temprole at work has a row of its own, live as long as it is not due,  *)
(* and nobody else withdraws it.                                             *)
GrantInv ==
    /\ \A g \in Granter : IF grant[g].pc = "idle" THEN grant[g].row = 0
                          ELSE grant[g].row \in RowId /\ grant[g].row <= created
    /\ \A g \in Granter : grant[g].pc = "grant" /\ now < rows[grant[g].row].exp =>
                             rows[grant[g].row].st = "live"
    /\ \A g, h \in Granter : grant[g].pc # "idle" /\ grant[g].row = grant[h].row => g = h

(* What justifies a role of the member: staff, the stray roles, or a live    *)
(* row that no .temprole may still withdraw and the sweeper has not reached. *)
Pending == {grant[g].row : g \in Granter}
Justified(r) ==
    \/ r \in owed \cup stray
    \/ \E n \in RowId \ Pending : n # current /\ rows[n].st = "live" /\ rows[n].role = r

TempInv == RowInv /\ SweepInv /\ GrantInv /\ \A r \in roles : Justified(r)

(* Where a command on the member stands, while no two have overlapped.       *)
Stands(c) ==
    LET it == cmd[c]
    IN /\ it.pc = "checked" => ~backup.held
       /\ it.pc \in {"strip", "rollback", "read", "found", "restore"} =>
             backup.held /\ backup.roles = it.snap
       /\ it.pc \in {"strip", "rollback", "clear", "restore"} => ~jailed \/ unreleased
       /\ it.pc = "strip" => /\ it.todo \subseteq it.snap
                             /\ owed \subseteq roles \cup lost \cup (it.snap \ it.todo)
       /\ it.pc = "rollback" => owed \subseteq roles \cup lost \cup it.todo
       /\ it.pc = "clear" => owed \subseteq roles \cup lost
       /\ it.pc = "restore" => owed \subseteq roles \cup lost \cup it.todo \cup it.failed

Absent == ~present => roles = {} /\ owed = {} /\ ~jailed
Alone == \A c, d \in Jailer : cmd[c].pc # "idle" /\ cmd[d].pc # "idle" => c = d

JailInv ==
    /\ Absent
    /\ RolesSurvive /\ JailHasBackup
    /\ ~doubtful => Alone /\ \A c \in Jailer : Stands(c)

IInv == Types /\ TempInv /\ JailInv

---------------------------------------------------------------------------
LEMMA InitIInv == Init => IInv
<1> SUFFICES ASSUME Init PROVE IInv
  OBVIOUS
<1>1. Types
  <2>1. Idle \in Running /\ NoGrant \in Granting /\ NoRow \in Row /\ NoBackup \in Backup
    BY MemberAssumption, SweepsAssumption DEF Idle, At, Running, NoGrant, Granting, NoRow, Row, Time, NoBackup, Backup
  <2>2. /\ now \in Time /\ created \in 0..MaxRows
        /\ roles \subseteq Role /\ owed \subseteq Role /\ lost \subseteq Role
        /\ stray \subseteq Role /\ batch \subseteq RowId /\ tried \subseteq RowId
        /\ current \in RowId \cup {0}
    BY MemberAssumption, SweepsAssumption DEF Init, Time
  <2>3. /\ configured \in BOOLEAN /\ present \in BOOLEAN /\ jailed \in BOOLEAN
        /\ doubtful \in BOOLEAN /\ unreleased \in BOOLEAN
    BY DEF Init
  <2>4. /\ backup \in Backup /\ rows \in [RowId -> Row]
        /\ cmd \in [Jailer -> Running] /\ grant \in [Granter -> Granting]
    BY <2>1 DEF Init
  <2>. QED
    BY <2>2, <2>3, <2>4 DEF Types
<1>2. TempInv
  BY MemberAssumption, SweepsAssumption DEF Init, TempInv, RowInv, SweepInv, GrantInv, Justified, NoRow, NoGrant,
                          RowId
<1>3. JailInv
  BY DEF Init, JailInv, Absent, RolesSurvive, JailHasBackup, Alone, Stands, Idle, At, NoBackup
<1>. QED
  BY <1>1, <1>2, <1>3 DEF IInv

---------------------------------------------------------------------------
(* Frames: what a step must show of each part of the invariant. *)

LEMMA StateReached ==
    ASSUME Types, NEW c \in Jailer, NEW s \in Running, Goto(c, s)
    PROVE  /\ cmd' \in [Jailer -> Running]
           /\ cmd'[c] = s
           /\ \A d \in Jailer \ {c} : cmd'[d] = cmd[d]
BY DEF Types, Goto

(* The rows, the sweep and the grants are left alone. *)
LEMMA TempFrame ==
    ASSUME TempInv, UNCHANGED <<now, tempVars, grant>>,
           \A r \in roles' : Justified(r) \/ r \in owed' \cup stray',
           \A r \in roles' : r \in owed \cup stray => r \in owed' \cup stray'
    PROVE  TempInv'
<1>1. RowInv' /\ SweepInv' /\ GrantInv'
  BY DEF TempInv, RowInv, SweepInv, GrantInv, tempVars
<1>2. \A r \in roles' : Justified(r)'
  BY DEF Justified, Pending, tempVars
<1>. QED
  BY <1>1, <1>2 DEF TempInv

(* The commands are left alone, and every role that is owed and was there is *)
(* still there.                                                              *)
LEMMA JailFrame ==
    ASSUME JailInv, UNCHANGED <<backup, cmd, lost, doubtful, unreleased>>, Absent',
           \A r \in owed' : r \in roles' \/ (r \in owed /\ r \notin roles),
           jailed' => jailed
    PROVE  JailInv'
<1>1. RolesSurvive' /\ JailHasBackup'
  BY DEF JailInv, RolesSurvive, JailHasBackup
<1>2. ASSUME ~doubtful' PROVE Alone' /\ \A c \in Jailer : Stands(c)'
  <2>1. ~doubtful /\ Alone /\ \A c \in Jailer : Stands(c)
    BY <1>2 DEF JailInv
  <2>2. Alone'
    BY <2>1 DEF Alone
  <2>3. ASSUME NEW c \in Jailer PROVE Stands(c)'
    BY <2>1 DEF Stands
  <2>. QED
    BY <2>2, <2>3
<1>. QED
  BY <1>1, <1>2 DEF JailInv

(* A command that is at work goes on. *)
LEMMA CommandFrame ==
    ASSUME Types, JailInv, NEW c \in Jailer, NEW s \in Running, Goto(c, s), Absent',
           cmd[c].pc # "idle",
           doubtful' \/ (~doubtful /\ RolesSurvive' /\ JailHasBackup' /\ Stands(c)')
    PROVE  JailInv'
<1>1. RolesSurvive' /\ JailHasBackup'
  BY DEF RolesSurvive, JailHasBackup
<1>2. ASSUME ~doubtful' PROVE Alone' /\ \A d \in Jailer : Stands(d)'
  <2>1. \A d \in Jailer \ {c} : cmd'[d] = cmd[d] /\ cmd'[d].pc = "idle"
    BY <1>2, StateReached DEF JailInv, Alone
  <2>2. Alone'
    BY <2>1 DEF Alone
  <2>3. ASSUME NEW d \in Jailer \ {c} PROVE Stands(d)'
    BY <2>1 DEF Stands
  <2>. QED
    BY <1>2, <2>2, <2>3
<1>. QED
  BY <1>1, <1>2 DEF JailInv

(* A command starts. *)
LEMMA BeginFrame ==
    ASSUME Types, JailInv, NEW c \in Jailer, NEW s \in Running, Goto(c, s), Begins(c),
           UNCHANGED <<present, roles, jailed, backup, owed, lost, unreleased>>,
           ~doubtful' => Stands(c)'
    PROVE  JailInv'
<1>1. Absent' /\ (doubtful => doubtful')
  BY DEF JailInv, Absent, Begins
<1>2. RolesSurvive' /\ JailHasBackup'
  BY <1>1 DEF JailInv, RolesSurvive, JailHasBackup
<1>3. ASSUME ~doubtful' PROVE Alone' /\ \A d \in Jailer : Stands(d)'
  <2>1. \A d \in Jailer \ {c} : cmd'[d] = cmd[d] /\ cmd'[d].pc = "idle"
    BY <1>3, StateReached DEF Begins
  <2>2. Alone'
    BY <2>1 DEF Alone
  <2>3. ASSUME NEW d \in Jailer \ {c} PROVE Stands(d)'
    BY <2>1 DEF Stands
  <2>. QED
    BY <1>3, <2>2, <2>3
<1>. QED
  BY <1>1, <1>2, <1>3 DEF JailInv

---------------------------------------------------------------------------
(* .jail *)

LEMMA JailLookupStep ==
    ASSUME IInv, NEW c \in Jailer, JailLookup(c)
    PROVE  IInv'
<1> USE DEF IInv
<1> DEFINE s == At("looked", roles)
<1>1. /\ Goto(c, s) /\ Begins(c) /\ cmd[c].pc = "idle"
      /\ UNCHANGED <<around, present, roles, jailed, backup, tempVars, grant, owed, lost, stray,
                     unreleased>>
  BY DEF JailLookup
<1>2. s \in Running /\ s.pc = "looked"
  BY DEF At, Running, Types
<1> HIDE DEF s
<1>3. cmd' \in [Jailer -> Running] /\ cmd'[c] = s
  BY <1>1, <1>2, StateReached
<1>4. Types'
  BY <1>1, <1>3 DEF Types, around, tempVars, Begins
<1>5. TempInv'
  BY <1>1, TempFrame DEF TempInv, around
<1>6. JailInv'
  <2>1. Stands(c)'
    BY <1>2, <1>3 DEF Stands
  <2>. QED
    BY <1>1, <1>2, <2>1, BeginFrame
<1>. QED
  BY <1>4, <1>5, <1>6

LEMMA JailCheckStep ==
    ASSUME IInv, NEW c \in Jailer, JailCheck(c)
    PROVE  IInv'
<1> USE DEF IInv
<1>1. /\ cmd[c].pc = "looked"
      /\ UNCHANGED <<around, present, roles, jailed, backup, tempVars, grant, history>>
  BY DEF JailCheck
<1>2. PICK s \in Running : Goto(c, s) /\ (s.pc = "idle" \/ (s.pc = "checked" /\ ~backup.held))
  BY DEF JailCheck, Idle, At, Types, Running
<1>3. cmd' \in [Jailer -> Running] /\ cmd'[c] = s
  BY <1>2, StateReached
<1>4. Types'
  BY <1>1, <1>3 DEF Types, around, tempVars, history
<1>5. TempInv'
  BY <1>1, TempFrame DEF TempInv, around, history
<1>6. JailInv'
  <2>1. Absent' /\ RolesSurvive' /\ JailHasBackup'
    BY <1>1 DEF JailInv, Absent, RolesSurvive, JailHasBackup, history
  <2>2. Stands(c)'
    BY <1>1, <1>2, <1>3 DEF Stands
  <2>. QED
    BY <1>1, <1>2, <2>1, <2>2, CommandFrame DEF history
<1>. QED
  BY <1>4, <1>5, <1>6

LEMMA SaveStep ==
    ASSUME IInv, NEW c \in Jailer, SaveJailBackup(c)
    PROVE  IInv'
<1> USE DEF IInv
<1>1. /\ cmd[c].pc = "checked"
      /\ UNCHANGED <<around, present, roles, jailed, tempVars, grant, history>>
  BY DEF SaveJailBackup
<1>2. PICK s \in Running :
        /\ Goto(c, s)
        /\ \/ s.pc = "idle" /\ UNCHANGED backup
           \/ /\ s.pc = "strip" /\ s.snap = cmd[c].snap /\ s.todo = s.snap
              /\ backup' = [held |-> TRUE, roles |-> s.snap]
  <2>1. CASE UNCHANGED backup /\ Goto(c, Idle)
    <3>1. Idle \in Running /\ Idle.pc = "idle"
      BY DEF Idle, At, Running
    <3>. QED
      BY <2>1, <3>1
  <2>2. CASE /\ backup' = [held |-> TRUE, roles |-> cmd[c].snap]
             /\ Goto(c, [cmd[c] EXCEPT !.pc = "strip", !.todo = cmd[c].snap])
    <3>. DEFINE s == [cmd[c] EXCEPT !.pc = "strip", !.todo = cmd[c].snap]
    <3>1. cmd[c] \in Running
      BY DEF Types
    <3>2. /\ s \in Running /\ s.snap = cmd[c].snap
          /\ s.pc = "strip" /\ s.todo = cmd[c].snap
      BY <3>1 DEF Running
    <3>. HIDE DEF s
    <3>. QED
      BY <2>2, <3>2 DEF s
  <2>. QED
    BY <2>1, <2>2 DEF SaveJailBackup
<1>3. cmd' \in [Jailer -> Running] /\ cmd'[c] = s
  BY <1>2, StateReached
<1>4. backup' \in Backup
  <2>1. s.snap \in SUBSET Role /\ backup \in Backup
    BY DEF Types, Running
  <2>2. [held |-> TRUE, roles |-> s.snap] \in Backup
    BY <2>1 DEF Backup
  <2>. QED
    BY <1>2, <2>1, <2>2
<1>5. Types'
  BY <1>1, <1>3, <1>4 DEF Types, around, tempVars, history
<1>6. TempInv'
  BY <1>1, TempFrame DEF TempInv, around, history
<1>7. JailInv'
  <2>1. Absent'
    BY <1>1 DEF JailInv, Absent, history
  <2>2. CASE doubtful
    BY <1>1, <1>2, <2>1, <2>2, CommandFrame DEF history
  <2>3. CASE ~doubtful
    <3>1. ~backup.held /\ owed \subseteq roles \cup lost /\ (~jailed \/ unreleased)
      BY <1>1, <2>3 DEF JailInv, Stands, RolesSurvive, JailHasBackup
    <3>2. RolesSurvive' /\ JailHasBackup'
      BY <1>1, <1>2, <3>1 DEF RolesSurvive, JailHasBackup, history
    <3>3. Stands(c)'
      BY <1>1, <1>2, <1>3, <3>1 DEF Stands, history
    <3>. QED
      BY <1>1, <1>2, <2>1, <2>3, <3>2, <3>3, CommandFrame
  <2>. QED
    BY <2>2, <2>3
<1>. QED
  BY <1>5, <1>6, <1>7

LEMMA StripStep ==
    ASSUME IInv, NEW c \in Jailer, JailStrip(c)
    PROVE  IInv'
<1> USE DEF IInv
<1>1. /\ cmd[c].pc = "strip"
      /\ UNCHANGED <<around, present, jailed, backup, tempVars, grant, history>>
  BY DEF JailStrip
<1>2. PICK r \in cmd[c].todo, s \in Running :
        /\ Goto(c, s)
        /\ s.snap = cmd[c].snap
        /\ \/ s.pc = "strip" /\ s.todo = cmd[c].todo \ {r} /\ roles' = roles \ {r} /\ present
           \/ s.pc = "rollback" /\ s.todo = cmd[c].snap \ cmd[c].todo /\ roles' = roles
  <2>1. PICK r \in cmd[c].todo :
          \/ /\ Succeeds /\ roles' = roles \ {r}
             /\ Goto(c, [cmd[c] EXCEPT !.todo = cmd[c].todo \ {r}])
          \/ /\ Goto(c, [cmd[c] EXCEPT !.pc = "rollback", !.todo = cmd[c].snap \ cmd[c].todo])
             /\ UNCHANGED roles
    BY DEF JailStrip
  <2>3. CASE /\ Succeeds /\ roles' = roles \ {r}
             /\ Goto(c, [cmd[c] EXCEPT !.todo = cmd[c].todo \ {r}])
    <3>. DEFINE s == [cmd[c] EXCEPT !.todo = cmd[c].todo \ {r}]
    <3>1. cmd[c] \in Running
      BY DEF Types
    <3>2. /\ s \in Running /\ s.snap = cmd[c].snap
          /\ s.pc = "strip" /\ s.todo = cmd[c].todo \ {r}
      BY <3>1, <1>1 DEF Running
    <3>. HIDE DEF s
    <3>. QED
      BY <2>3, <3>2 DEF s, Succeeds
  <2>4. CASE /\ Goto(c, [cmd[c] EXCEPT !.pc = "rollback", !.todo = cmd[c].snap \ cmd[c].todo])
             /\ UNCHANGED roles
    <3>. DEFINE s == [cmd[c] EXCEPT !.pc = "rollback", !.todo = cmd[c].snap \ cmd[c].todo]
    <3>1. cmd[c] \in Running
      BY DEF Types
    <3>2. /\ s \in Running /\ s.snap = cmd[c].snap
          /\ s.pc = "rollback" /\ s.todo = cmd[c].snap \ cmd[c].todo
      BY <3>1 DEF Running
    <3>. HIDE DEF s
    <3>. QED
      BY <2>4, <3>2 DEF s
  <2>. QED
    BY <2>1, <2>3, <2>4
<1>3. cmd' \in [Jailer -> Running] /\ cmd'[c] = s /\ roles' \subseteq roles
  BY <1>2, StateReached
<1>4. Types'
  BY <1>1, <1>3 DEF Types, around, tempVars, history
<1>5. TempInv'
  BY <1>1, <1>3, TempFrame DEF TempInv, around, history
<1>6. JailInv'
  <2>1. Absent'
    BY <1>1, <1>3 DEF JailInv, Absent, history
  <2>2. CASE doubtful
    BY <1>1, <1>2, <2>1, <2>2, CommandFrame DEF history
  <2>3. CASE ~doubtful
    <3>1. /\ backup.held /\ backup.roles = cmd[c].snap /\ (~jailed \/ unreleased)
          /\ cmd[c].todo \subseteq cmd[c].snap
          /\ owed \subseteq roles \cup lost \cup (cmd[c].snap \ cmd[c].todo)
      BY <1>1, <2>3 DEF JailInv, Stands
    <3>2. RolesSurvive' /\ JailHasBackup'
      BY <1>1, <1>2, <3>1 DEF RolesSurvive, JailHasBackup, history
    <3>3. Stands(c)'
      BY <1>1, <1>2, <1>3, <3>1 DEF Stands, history
    <3>. QED
      BY <1>1, <1>2, <2>1, <2>3, <3>2, <3>3, CommandFrame
  <2>. QED
    BY <2>2, <2>3
<1>. QED
  BY <1>4, <1>5, <1>6

LEMMA AddRoleStep ==
    ASSUME IInv, NEW c \in Jailer, JailAddRole(c)
    PROVE  IInv'
<1> USE DEF IInv
<1>1. /\ cmd[c].pc = "strip" /\ cmd[c].todo = {}
      /\ UNCHANGED <<around, present, roles, backup, tempVars, grant, history>>
  BY DEF JailAddRole
<1>2. PICK s \in Running :
        /\ Goto(c, s)
        /\ \/ s.pc = "idle" /\ jailed' \in BOOLEAN /\ (jailed' = jailed \/ present)
           \/ /\ s.pc = "rollback" /\ s.snap = cmd[c].snap /\ s.todo = s.snap
              /\ jailed' = jailed
  <2>1. jailed \in BOOLEAN
    BY DEF Types
  <2>2. CASE Goto(c, Idle) /\ (UNCHANGED jailed \/ (present /\ jailed' = TRUE))
    <3>1. Idle \in Running /\ Idle.pc = "idle"
      BY DEF Idle, At, Running
    <3>. QED
      BY <2>1, <2>2, <3>1
  <2>3. CASE /\ Goto(c, [cmd[c] EXCEPT !.pc = "rollback", !.todo = cmd[c].snap])
             /\ UNCHANGED jailed
    <3>. DEFINE s == [cmd[c] EXCEPT !.pc = "rollback", !.todo = cmd[c].snap]
    <3>1. cmd[c] \in Running
      BY DEF Types
    <3>2. /\ s \in Running /\ s.snap = cmd[c].snap
          /\ s.pc = "rollback" /\ s.todo = cmd[c].snap
      BY <3>1 DEF Running
    <3>. HIDE DEF s
    <3>. QED
      BY <2>3, <3>2 DEF s
  <2>. QED
    BY <2>2, <2>3 DEF JailAddRole, Succeeds
<1>3. cmd' \in [Jailer -> Running] /\ cmd'[c] = s
  BY <1>2, StateReached
<1>4. Types'
  BY <1>1, <1>2, <1>3 DEF Types, around, tempVars, history
<1>5. TempInv'
  BY <1>1, TempFrame DEF TempInv, around, history
<1>6. JailInv'
  <2>1. Absent'
    BY <1>1, <1>2 DEF JailInv, Absent, history
  <2>2. CASE doubtful
    BY <1>1, <1>2, <2>1, <2>2, CommandFrame DEF history
  <2>3. CASE ~doubtful
    <3>1. /\ backup.held /\ backup.roles = cmd[c].snap /\ (~jailed \/ unreleased)
          /\ owed \subseteq roles \cup lost \cup cmd[c].snap
      BY <1>1, <2>3 DEF JailInv, Stands
    <3>2. RolesSurvive' /\ JailHasBackup'
      BY <1>1, <3>1 DEF RolesSurvive, JailHasBackup, history
    <3>3. Stands(c)'
      BY <1>1, <1>2, <1>3, <3>1 DEF Stands, history
    <3>. QED
      BY <1>1, <1>2, <2>1, <2>3, <3>2, <3>3, CommandFrame
  <2>. QED
    BY <2>2, <2>3
<1>. QED
  BY <1>4, <1>5, <1>6

(* A role that is given back is justified. *)
LEMMA GivenBack ==
    ASSUME IInv, NEW r \in Role, GiveBack(r), UNCHANGED <<now, tempVars, grant, owed>>
    PROVE  /\ roles' = roles \cup {r} /\ stray' \subseteq Role
           /\ TempInv'
<1> USE DEF IInv
<1>1. roles' = roles \cup {r} /\ stray \subseteq stray' /\ stray' \subseteq Role
  BY DEF GiveBack, Types
<1>2. Meant(r) => Justified(r)
  <2>1. \A n \in RowId : n = current => ~(now < rows[n].exp)
    <3>1. ASSUME NEW n \in RowId, n = current PROVE rows[n].exp <= now
      BY <3>1 DEF TempInv, SweepInv, RowId
    <3>2. \A n \in RowId : rows[n].exp \in Nat
      BY MemberAssumption, SweepsAssumption DEF Types, Row, Time
    <3>. QED
      BY <3>1, <3>2, MemberAssumption, SweepsAssumption DEF Types, Time
  <2>. QED
    BY <2>1 DEF Meant, Justified, Pending
<1>3. ~Meant(r) => r \in stray'
  BY DEF GiveBack
<1>4. TempInv'
  BY <1>1, <1>2, <1>3, TempFrame DEF TempInv
<1>. QED
  BY <1>1, <1>4

LEMMA JailGiveBackStep ==
    ASSUME IInv, NEW c \in Jailer, JailGiveBack(c)
    PROVE  IInv'
<1> USE DEF IInv
<1>1. /\ cmd[c].pc = "rollback"
      /\ UNCHANGED <<around, present, jailed, backup, tempVars, grant, owed, doubtful, unreleased>>
  BY DEF JailGiveBack
<1>2. PICK r \in cmd[c].todo, s \in Running :
        /\ Goto(c, s)
        /\ s.pc = "rollback" /\ s.snap = cmd[c].snap /\ s.todo = cmd[c].todo \ {r}
        /\ \/ present /\ GiveBack(r) /\ lost' = lost
           \/ lost' = lost \cup {r} /\ roles' = roles /\ stray' = stray
  BY <1>1 DEF JailGiveBack, Types, Running, Succeeds
<1>3. cmd' \in [Jailer -> Running] /\ cmd'[c] = s /\ r \in Role
  BY <1>2, StateReached DEF Types, Running
<1>4. /\ lost \subseteq lost' /\ lost' \subseteq Role
      /\ roles \subseteq roles' /\ r \in roles' \cup lost'
      /\ roles' = roles \/ (present /\ roles' = roles \cup {r})
  BY <1>2, <1>3 DEF GiveBack, Types
<1>5. stray' \subseteq Role /\ TempInv'
  <2>1. CASE GiveBack(r)
    BY <1>1, <1>3, <2>1, GivenBack DEF around
  <2>2. CASE roles' = roles /\ stray' = stray
    BY <1>1, <2>2, TempFrame DEF TempInv, Types, around
  <2>. QED
    BY <1>2, <2>1, <2>2
<1>6. Types'
  BY <1>1, <1>3, <1>4, <1>5 DEF Types, around, tempVars
<1>7. JailInv'
  <2>1. Absent'
    BY <1>1, <1>4 DEF JailInv, Absent
  <2>2. CASE doubtful
    BY <1>1, <1>2, <2>1, <2>2, CommandFrame
  <2>3. CASE ~doubtful
    <3>1. /\ backup.held /\ backup.roles = cmd[c].snap /\ (~jailed \/ unreleased)
          /\ owed \subseteq roles \cup lost \cup cmd[c].todo
      BY <1>1, <2>3 DEF JailInv, Stands
    <3>2. RolesSurvive' /\ JailHasBackup'
      BY <1>1, <1>4, <2>3, <3>1 DEF JailInv, RolesSurvive, JailHasBackup
    <3>3. Stands(c)'
      BY <1>1, <1>2, <1>3, <1>4, <3>1 DEF Stands
    <3>. QED
      BY <1>1, <1>2, <2>1, <2>3, <3>2, <3>3, CommandFrame
  <2>. QED
    BY <2>2, <2>3
<1>. QED
  BY <1>5, <1>6, <1>7

(* A command ends, with or without deleting the backup: it may be deleted if *)
(* nobody is in jail and the member has what is owed.                        *)
LEMMA EndFrame ==
    ASSUME IInv, NEW c \in Jailer, cmd[c].pc # "idle", Goto(c, Idle),
           UNCHANGED <<around, present, roles, jailed, tempVars, grant, history>>,
           \/ UNCHANGED backup
           \/ /\ backup' = NoBackup
              /\ ~doubtful => /\ ~jailed \/ unreleased
                              /\ owed \subseteq roles \cup lost
    PROVE  IInv'
<1> USE DEF IInv
<1>1. Idle \in Running /\ Idle.pc = "idle" /\ NoBackup \in Backup
  BY DEF Idle, At, Running, NoBackup, Backup
<1>2. cmd' \in [Jailer -> Running] /\ cmd'[c] = Idle
  BY <1>1, StateReached
<1>3. Types'
  BY <1>1, <1>2 DEF Types, around, tempVars, history
<1>4. TempInv'
  BY TempFrame DEF TempInv, around, history
<1>5. JailInv'
  <2>1. Absent'
    BY DEF JailInv, Absent, history
  <2>2. RolesSurvive' /\ JailHasBackup'
    BY DEF JailInv, RolesSurvive, JailHasBackup, history, NoBackup
  <2>3. Stands(c)'
    BY <1>1, <1>2 DEF Stands
  <2>. QED
    BY <1>1, <2>1, <2>2, <2>3, CommandFrame DEF history
<1>. QED
  BY <1>3, <1>4, <1>5

LEMMA JailGiveUpStep ==
    ASSUME IInv, NEW c \in Jailer, JailGiveUp(c)
    PROVE  IInv'
<1>1. /\ cmd[c].pc = "rollback" /\ cmd[c].todo = {} /\ Goto(c, Idle)
      /\ UNCHANGED <<around, present, roles, jailed, tempVars, grant, history>>
      /\ backup' = NoBackup \/ UNCHANGED backup
  BY DEF JailGiveUp, DeleteJailBackup
<1>2. ~doubtful => (~jailed \/ unreleased) /\ owed \subseteq roles \cup lost
  BY <1>1 DEF IInv, JailInv, Stands
<1>. QED
  BY <1>1, <1>2, EndFrame

---------------------------------------------------------------------------
(* .unjail *)

LEMMA UnjailReadStep ==
    ASSUME IInv, NEW c \in Jailer, UnjailRead(c)
    PROVE  IInv'
<1> USE DEF IInv
<1> DEFINE s == At("read", backup.roles)
<1>1. /\ Goto(c, s) /\ Begins(c) /\ cmd[c].pc = "idle" /\ backup.held
      /\ UNCHANGED <<around, present, roles, jailed, backup, tempVars, grant, owed, lost, stray,
                     unreleased>>
  BY DEF UnjailRead
<1>2. s \in Running /\ s.pc = "read" /\ s.snap = backup.roles
  BY DEF At, Running, Types, Backup
<1> HIDE DEF s
<1>3. cmd' \in [Jailer -> Running] /\ cmd'[c] = s
  BY <1>1, <1>2, StateReached
<1>4. Types'
  BY <1>1, <1>3 DEF Types, around, tempVars, Begins
<1>5. TempInv'
  BY <1>1, TempFrame DEF TempInv, around
<1>6. JailInv'
  <2>1. Stands(c)'
    BY <1>1, <1>2, <1>3 DEF Stands
  <2>. QED
    BY <1>1, <1>2, <2>1, BeginFrame
<1>. QED
  BY <1>4, <1>5, <1>6

LEMMA UnjailLookupStep ==
    ASSUME IInv, NEW c \in Jailer, UnjailLookup(c)
    PROVE  IInv'
<1> USE DEF IInv
<1>1. /\ cmd[c].pc = "read"
      /\ UNCHANGED <<around, present, roles, jailed, backup, tempVars, grant, owed, lost, stray>>
  BY DEF UnjailLookup
<1>2. PICK s \in Running :
        /\ Goto(c, s)
        /\ \/ s.pc = "idle" /\ UNCHANGED <<doubtful, unreleased>>
           \/ /\ s.pc = "found" /\ s.snap = cmd[c].snap /\ UNCHANGED <<doubtful, unreleased>>
           \/ /\ s.pc = "restore" /\ s.snap = cmd[c].snap /\ s.todo = s.snap
              /\ unreleased' = TRUE /\ UNCHANGED doubtful
           \/ s.pc = "clear" /\ doubtful' = (doubtful \/ present) /\ UNCHANGED unreleased
  <2>1. \/ Goto(c, Idle) /\ UNCHANGED <<doubtful, unreleased>>
        \/ /\ Goto(c, [cmd[c] EXCEPT !.pc = "found"])
           /\ UNCHANGED <<doubtful, unreleased>>
        \/ /\ Goto(c, [cmd[c] EXCEPT !.pc = "restore", !.todo = cmd[c].snap])
           /\ unreleased' = TRUE /\ UNCHANGED doubtful
        \/ /\ Goto(c, [cmd[c] EXCEPT !.pc = "clear"])
           /\ doubtful' = (doubtful \/ present) /\ UNCHANGED unreleased
    BY DEF UnjailLookup, Types
  <2>2. CASE Goto(c, Idle) /\ UNCHANGED <<doubtful, unreleased>>
    <3>1. Idle \in Running /\ Idle.pc = "idle"
      BY DEF Idle, At, Running
    <3>. QED
      BY <2>2, <3>1
  <2>3. CASE /\ Goto(c, [cmd[c] EXCEPT !.pc = "found"])
             /\ UNCHANGED <<doubtful, unreleased>>
    <3>. DEFINE s == [cmd[c] EXCEPT !.pc = "found"]
    <3>1. cmd[c] \in Running
      BY DEF Types
    <3>2. /\ s \in Running /\ s.snap = cmd[c].snap
          /\ s.pc = "found"
      BY <3>1 DEF Running
    <3>. HIDE DEF s
    <3>. QED
      BY <2>3, <3>2 DEF s
  <2>4. CASE /\ Goto(c, [cmd[c] EXCEPT !.pc = "restore", !.todo = cmd[c].snap])
             /\ unreleased' = TRUE /\ UNCHANGED doubtful
    <3>. DEFINE s == [cmd[c] EXCEPT !.pc = "restore", !.todo = cmd[c].snap]
    <3>1. cmd[c] \in Running
      BY DEF Types
    <3>2. /\ s \in Running /\ s.snap = cmd[c].snap
          /\ s.pc = "restore" /\ s.todo = cmd[c].snap
      BY <3>1 DEF Running
    <3>. HIDE DEF s
    <3>. QED
      BY <2>4, <3>2 DEF s
  <2>5. CASE /\ Goto(c, [cmd[c] EXCEPT !.pc = "clear"])
             /\ doubtful' = (doubtful \/ present) /\ UNCHANGED unreleased
    <3>. DEFINE s == [cmd[c] EXCEPT !.pc = "clear"]
    <3>1. cmd[c] \in Running
      BY DEF Types
    <3>2. /\ s \in Running /\ s.snap = cmd[c].snap
          /\ s.pc = "clear"
      BY <3>1 DEF Running
    <3>. HIDE DEF s
    <3>. QED
      BY <2>5, <3>2 DEF s
  <2>. QED
    BY <2>1, <2>2, <2>3, <2>4, <2>5
<1>3. cmd' \in [Jailer -> Running] /\ cmd'[c] = s
  BY <1>2, StateReached
<1>4. Types'
  BY <1>1, <1>2, <1>3 DEF Types, around, tempVars
<1>5. TempInv'
  BY <1>1, TempFrame DEF TempInv, around
<1>6. JailInv'
  <2>1. Absent'
    BY <1>1 DEF JailInv, Absent
  <2>2. CASE doubtful'
    BY <1>1, <1>2, <2>1, <2>2, CommandFrame
  <2>3. CASE ~doubtful'
    <3>1. ~doubtful /\ (unreleased => unreleased')
      <4>1. doubtful \in BOOLEAN /\ unreleased \in BOOLEAN /\ present \in BOOLEAN
        BY DEF Types
      <4>2. \/ UNCHANGED <<doubtful, unreleased>>
            \/ unreleased' = TRUE /\ UNCHANGED doubtful
            \/ doubtful' = (doubtful \/ present) /\ UNCHANGED unreleased
        BY <1>2
      <4>. QED
        BY <2>3, <4>1, <4>2
    <3>2. /\ backup.held /\ backup.roles = cmd[c].snap
          /\ owed \subseteq roles \cup lost \cup cmd[c].snap
      BY <1>1, <3>1 DEF JailInv, Stands, RolesSurvive
    <3>3. RolesSurvive' /\ JailHasBackup'
      BY <1>1, <3>2 DEF RolesSurvive, JailHasBackup
    <3>4. Stands(c)'
      <4>1. s.pc = "clear" => ~jailed /\ owed = {}
        BY <1>2, <2>3, <3>1 DEF JailInv, Absent
      <4>. QED
        BY <1>1, <1>2, <1>3, <3>2, <4>1 DEF Stands
    <3>. QED
      BY <1>1, <1>2, <2>1, <3>1, <3>3, <3>4, CommandFrame
  <2>. QED
    BY <2>2, <2>3
<1>. QED
  BY <1>4, <1>5, <1>6

LEMMA UnjailClearStep ==
    ASSUME IInv, NEW c \in Jailer, UnjailClear(c)
    PROVE  IInv'
<1>1. /\ cmd[c].pc = "clear" /\ Goto(c, Idle)
      /\ UNCHANGED <<around, present, roles, jailed, tempVars, grant, history>>
      /\ backup' = NoBackup \/ UNCHANGED backup
  BY DEF UnjailClear, DeleteJailBackup
<1>2. ~doubtful => (~jailed \/ unreleased) /\ owed \subseteq roles \cup lost
  BY <1>1 DEF IInv, JailInv, Stands
<1>. QED
  BY <1>1, <1>2, EndFrame

LEMMA ReleaseStep ==
    ASSUME IInv, NEW c \in Jailer, UnjailRelease(c)
    PROVE  IInv'
<1> USE DEF IInv
<1>1. /\ cmd[c].pc = "found"
      /\ UNCHANGED <<around, present, roles, backup, tempVars, grant, history>>
  BY DEF UnjailRelease
<1>2. CASE Goto(c, Idle) /\ UNCHANGED jailed
  BY <1>1, <1>2, EndFrame
<1>3. CASE /\ jailed' = FALSE
           /\ Goto(c, [cmd[c] EXCEPT !.pc = "restore", !.todo = cmd[c].snap])
  <2>1. PICK s \in Running :
          Goto(c, s) /\ s.pc = "restore" /\ s.snap = cmd[c].snap /\ s.todo = s.snap
    <3>. DEFINE s == [cmd[c] EXCEPT !.pc = "restore", !.todo = cmd[c].snap]
    <3>1. cmd[c] \in Running
      BY DEF Types
    <3>2. /\ s \in Running /\ s.snap = cmd[c].snap
          /\ s.pc = "restore" /\ s.todo = cmd[c].snap
      BY <3>1 DEF Running
    <3>. HIDE DEF s
    <3>. QED
      BY <1>3, <3>2 DEF s
  <2>2. cmd' \in [Jailer -> Running] /\ cmd'[c] = s
    BY <2>1, StateReached
  <2>3. Types'
    BY <1>1, <1>3, <2>2 DEF Types, around, tempVars, history
  <2>4. TempInv'
    BY <1>1, TempFrame DEF TempInv, around, history
  <2>5. Absent'
    BY <1>1, <1>3 DEF JailInv, Absent, history
  <2>6. CASE doubtful
    BY <1>1, <2>1, <2>3, <2>4, <2>5, <2>6, CommandFrame DEF history
  <2>7. CASE ~doubtful
    <3>1. /\ backup.held /\ backup.roles = cmd[c].snap
          /\ owed \subseteq roles \cup lost \cup cmd[c].snap
      BY <1>1, <2>7 DEF JailInv, Stands, RolesSurvive
    <3>2. RolesSurvive' /\ JailHasBackup'
      BY <1>1, <1>3, <3>1 DEF RolesSurvive, JailHasBackup, history
    <3>3. Stands(c)'
      BY <1>1, <1>3, <2>1, <2>2, <3>1 DEF Stands, history
    <3>. QED
      BY <1>1, <2>1, <2>3, <2>4, <2>5, <2>7, <3>2, <3>3, CommandFrame
  <2>. QED
    BY <2>6, <2>7
<1>. QED
  BY <1>2, <1>3 DEF UnjailRelease

LEMMA UnjailGiveBackStep ==
    ASSUME IInv, NEW c \in Jailer, UnjailGiveBack(c)
    PROVE  IInv'
<1> USE DEF IInv
<1>1. /\ cmd[c].pc = "restore"
      /\ UNCHANGED <<around, present, jailed, backup, tempVars, grant, owed, lost, doubtful,
                     unreleased>>
  BY DEF UnjailGiveBack
<1>2. PICK r \in cmd[c].todo, s \in Running :
        /\ Goto(c, s)
        /\ s.pc = "restore" /\ s.snap = cmd[c].snap /\ s.todo = cmd[c].todo \ {r}
        /\ \/ present /\ GiveBack(r) /\ s.failed = cmd[c].failed
           \/ s.failed = cmd[c].failed \cup {r} /\ roles' = roles /\ stray' = stray
  <2>1. PICK r \in cmd[c].todo :
          \/ /\ Succeeds /\ GiveBack(r)
             /\ Goto(c, [cmd[c] EXCEPT !.todo = cmd[c].todo \ {r}])
          \/ /\ Goto(c, [cmd[c] EXCEPT !.todo = cmd[c].todo \ {r},
                                        !.failed = cmd[c].failed \cup {r}])
             /\ UNCHANGED <<roles, stray>>
    BY DEF UnjailGiveBack
  <2>2. CASE /\ Succeeds /\ GiveBack(r)
             /\ Goto(c, [cmd[c] EXCEPT !.todo = cmd[c].todo \ {r}])
    <3>. DEFINE s == [cmd[c] EXCEPT !.todo = cmd[c].todo \ {r}]
    <3>1. cmd[c] \in Running
      BY DEF Types
    <3>2. /\ s \in Running /\ s.snap = cmd[c].snap
          /\ s.pc = "restore" /\ s.todo = cmd[c].todo \ {r} /\ s.failed = cmd[c].failed
      BY <3>1, <1>1 DEF Running
    <3>. HIDE DEF s
    <3>. QED
      BY <2>2, <3>2 DEF s, Succeeds
  <2>3. CASE /\ Goto(c, [cmd[c] EXCEPT !.todo = cmd[c].todo \ {r},
                                        !.failed = cmd[c].failed \cup {r}])
             /\ UNCHANGED <<roles, stray>>
    <3>. DEFINE s == [cmd[c] EXCEPT !.todo = cmd[c].todo \ {r},
                                      !.failed = cmd[c].failed \cup {r}]
    <3>1. cmd[c] \in Running
      BY DEF Types
    <3>2. /\ s \in Running /\ s.snap = cmd[c].snap
          /\ s.pc = "restore" /\ s.todo = cmd[c].todo \ {r}
          /\ s.failed = cmd[c].failed \cup {r}
      BY <3>1, <1>1 DEF Running
    <3>. HIDE DEF s
    <3>. QED
      BY <2>3, <3>2 DEF s
  <2>. QED
    BY <2>1, <2>2, <2>3
<1>3. cmd' \in [Jailer -> Running] /\ cmd'[c] = s /\ r \in Role
  BY <1>2, StateReached DEF Types, Running
<1>4. /\ roles \subseteq roles' /\ r \in roles' \cup s.failed /\ cmd[c].failed \subseteq s.failed
      /\ roles' = roles \/ (present /\ roles' = roles \cup {r})
  BY <1>2, <1>3 DEF GiveBack
<1>5. stray' \subseteq Role /\ TempInv'
  <2>1. CASE GiveBack(r)
    BY <1>1, <1>3, <2>1, GivenBack DEF around
  <2>2. CASE roles' = roles /\ stray' = stray
    BY <1>1, <2>2, TempFrame DEF TempInv, Types, around
  <2>. QED
    BY <1>2, <2>1, <2>2
<1>6. Types'
  BY <1>1, <1>3, <1>4, <1>5 DEF Types, around, tempVars
<1>7. JailInv'
  <2>1. Absent'
    BY <1>1, <1>4 DEF JailInv, Absent
  <2>2. CASE doubtful
    BY <1>1, <1>2, <2>1, <2>2, CommandFrame
  <2>3. CASE ~doubtful
    <3>1. /\ backup.held /\ backup.roles = cmd[c].snap /\ (~jailed \/ unreleased)
          /\ owed \subseteq roles \cup lost \cup cmd[c].todo \cup cmd[c].failed
      BY <1>1, <2>3 DEF JailInv, Stands
    <3>2. RolesSurvive' /\ JailHasBackup'
      BY <1>1, <1>4, <2>3, <3>1 DEF JailInv, RolesSurvive, JailHasBackup
    <3>3. Stands(c)'
      BY <1>1, <1>2, <1>3, <1>4, <3>1 DEF Stands
    <3>. QED
      BY <1>1, <1>2, <2>1, <2>3, <3>2, <3>3, CommandFrame
  <2>. QED
    BY <2>2, <2>3
<1>. QED
  BY <1>5, <1>6, <1>7

LEMMA UnjailFinishStep ==
    ASSUME IInv, NEW c \in Jailer, UnjailFinish(c)
    PROVE  IInv'
<1>1. /\ cmd[c].pc = "restore" /\ cmd[c].todo = {} /\ Goto(c, Idle)
      /\ UNCHANGED <<around, present, roles, jailed, tempVars, grant, history>>
      /\ (backup' = NoBackup /\ cmd[c].failed = {}) \/ UNCHANGED backup
  BY DEF UnjailFinish, DeleteJailBackup
<1>2. ~doubtful /\ cmd[c].failed = {} =>
        (~jailed \/ unreleased) /\ owed \subseteq roles \cup lost
  BY <1>1 DEF IInv, JailInv, Stands
<1>. QED
  BY <1>1, <1>2, EndFrame

---------------------------------------------------------------------------
(* .temprole and the sweeper *)

(* A step that touches neither the commands nor the backup, and takes no role *)
(* that is owed.                                                             *)
LEMMA RolesFrame ==
    ASSUME IInv, UNCHANGED <<present, jailed, backup, cmd, lost, doubtful, unreleased>>,
           \A r \in owed' : r \in owed /\ (r \in roles => r \in roles'),
           present \/ roles' \subseteq roles
    PROVE  JailInv'
<1> USE DEF IInv
<1>1. Absent'
  BY DEF JailInv, Absent
<1>. QED
  BY <1>1, JailFrame

(* A grant moves on; c is no longer at work, or still has the row it had. *)
LEMMA GrantReached ==
    ASSUME Types, NEW c \in Granter, NEW g \in Granting, grant' = [grant EXCEPT ![c] = g]
    PROVE  /\ grant' \in [Granter -> Granting]
           /\ grant'[c] = g
           /\ \A h \in Granter \ {c} : grant'[h] = grant[h]
BY DEF Types

LEMMA AddStep ==
    ASSUME IInv, NEW c \in Granter, NEW r \in Role, NEW d \in 1..MaxTime, AddTempRole(c, r, d)
    PROVE  IInv'
<1> USE DEF IInv
<1>1. /\ UNCHANGED <<around, present, roles, jailed, backup, batch, current, tried, cmd, history,
                     faults>>
      /\ created' = created + 1 /\ created < MaxRows /\ grant[c].pc = "idle"
      /\ now + d <= MaxTime
      /\ rows' = [rows EXCEPT ![created + 1] = [st |-> "live", role |-> r, exp |-> now + d]]
      /\ grant' = [grant EXCEPT ![c] = [pc |-> "grant", row |-> created + 1]]
  BY DEF AddTempRole, InsertRow
<1>2. PICK k \in RowId : k = created + 1
  BY <1>1, MemberAssumption, SweepsAssumption DEF Types, RowId
<1>3. PICK row \in Row : row = [st |-> "live", role |-> r, exp |-> now + d]
  BY <1>1, MemberAssumption, SweepsAssumption DEF Types, Row, Time
<1>4. PICK g \in Granting : g = [pc |-> "grant", row |-> k]
  BY <1>2 DEF Granting
<1>5. row.st = "live" /\ row.role = r /\ g.pc = "grant" /\ g.row = k
  BY <1>3, <1>4
<1>6. /\ rows' \in [RowId -> Row] /\ rows'[k] = row
      /\ \A n \in RowId \ {k} : rows'[n] = rows[n]
  BY <1>1, <1>2, <1>3 DEF Types
<1>7. /\ grant' \in [Granter -> Granting] /\ grant'[c] = g
      /\ \A h \in Granter \ {c} : grant'[h] = grant[h]
  BY <1>1, <1>2, <1>4, GrantReached
<1>8. created \in Nat /\ created' = k /\ created' \in 0..MaxRows
  BY <1>1, <1>2, MemberAssumption, SweepsAssumption DEF Types, RowId
<1>9. Types'
  BY <1>1, <1>6, <1>7, <1>8 DEF Types, around, history
<1>10. rows[k].st = "none" /\ k \notin tried /\ k \notin batch /\ k # current
  BY <1>2, <1>8 DEF TempInv, RowInv, SweepInv, RowId
<1>11. RowInv'
  BY <1>1, <1>2, <1>5, <1>6, <1>8, <1>10 DEF TempInv, RowInv, RowId, around
<1>12. SweepInv'
  BY <1>1, <1>6, <1>10 DEF TempInv, SweepInv, around, Types
<1>13. GrantInv'
  <2>1. \A h \in Granter : grant[h].row # k
    BY <1>2, <1>8 DEF TempInv, GrantInv, RowId
  <2>2. \A h \in Granter \ {c} : grant[h].pc # "idle" => grant[h].row \in RowId \ {k}
    BY <2>1 DEF TempInv, GrantInv
  <2>3. \A h \in Granter : IF grant'[h].pc = "idle" THEN grant'[h].row = 0
                           ELSE grant'[h].row \in RowId /\ grant'[h].row <= created'
    <3>1. ASSUME NEW h \in Granter \ {c}
          PROVE  IF grant'[h].pc = "idle" THEN grant'[h].row = 0
                 ELSE grant'[h].row \in RowId /\ grant'[h].row <= created'
      <4>1. \A n \in RowId : n <= created => n <= created'
        BY <1>1, <1>8 DEF RowId
      <4>. QED
        BY <1>7, <4>1 DEF TempInv, GrantInv
    <3>2. k <= created'
      BY <1>8
    <3>. QED
      BY <1>5, <1>7, <3>1, <3>2
  <2>4. \A h \in Granter : grant'[h].pc = "grant" /\ now' < rows'[grant'[h].row].exp =>
                              rows'[grant'[h].row].st = "live"
    BY <1>1, <1>5, <1>6, <1>7, <2>2 DEF TempInv, GrantInv, around
  <2>5. \A h, i \in Granter : grant'[h].pc # "idle" /\ grant'[h].row = grant'[i].row => h = i
    BY <1>5, <1>7, <2>1 DEF TempInv, GrantInv
  <2>. QED
    BY <2>3, <2>4, <2>5 DEF GrantInv
<1>14. \A q \in roles' : Justified(q)'
  <2>1. ASSUME NEW q \in roles, NEW n \in RowId \ Pending,
               n # current, rows[n].st = "live", rows[n].role = q
        PROVE  n \notin Pending' /\ rows'[n] = rows[n] /\ n # current'
    BY <1>1, <1>5, <1>6, <1>7, <1>10, <2>1 DEF Pending
  <2>. QED
    BY <1>1, <2>1 DEF TempInv, Justified, history
<1>15. JailInv'
  BY <1>1, RolesFrame DEF history
<1>. QED
  BY <1>9, <1>11, <1>12, <1>13, <1>14, <1>15 DEF TempInv

LEMMA GrantStep ==
    ASSUME IInv, NEW c \in Granter, TempRoleGrant(c)
    PROVE  IInv'
<1> USE DEF IInv
<1> DEFINE n == grant[c].row
<1>1. /\ UNCHANGED <<around, present, jailed, backup, tempVars, cmd, owed, lost, doubtful,
                     unreleased>>
      /\ grant[c].pc = "grant"
  BY DEF TempRoleGrant
<1>2. n \in RowId /\ n <= created /\ rows[n].role \in Role
  BY <1>1 DEF TempInv, GrantInv, RowInv
<1>3. PICK g \in Granting :
        /\ grant' = [grant EXCEPT ![c] = g]
        /\ \/ /\ present /\ g.pc = "idle" /\ g.row = 0
              /\ roles' = roles \cup {rows[n].role}
              /\ stray' = IF now < rows[n].exp THEN stray ELSE stray \cup {rows[n].role}
           \/ g.pc = "withdraw" /\ g.row = n /\ UNCHANGED <<roles, stray>>
  <2>1. NoGrant \in Granting /\ NoGrant.pc = "idle" /\ NoGrant.row = 0
    BY DEF NoGrant, Granting
  <2>2. /\ [grant[c] EXCEPT !.pc = "withdraw"] \in Granting
        /\ [grant[c] EXCEPT !.pc = "withdraw"].pc = "withdraw"
        /\ [grant[c] EXCEPT !.pc = "withdraw"].row = n
    <3>1. grant[c] \in Granting
      BY DEF Types
    <3>. QED
      BY <3>1 DEF Granting
  <2>3. CASE /\ Succeeds /\ grant' = [grant EXCEPT ![c] = NoGrant]
             /\ roles' = roles \cup {rows[n].role}
             /\ stray' = IF now < rows[n].exp THEN stray ELSE stray \cup {rows[n].role}
    BY <2>1, <2>3 DEF Succeeds
  <2>4. CASE grant' = [grant EXCEPT ![c].pc = "withdraw"] /\ UNCHANGED <<roles, stray>>
    <3> DEFINE w == [grant[c] EXCEPT !.pc = "withdraw"]
    <3>1. w \in Granting /\ w.pc = "withdraw" /\ w.row = n /\ grant' = [grant EXCEPT ![c] = w]
      BY <2>2, <2>4
    <3> HIDE DEF w
    <3>. QED
      BY <2>4, <3>1
  <2>. QED
    BY <2>3, <2>4 DEF TempRoleGrant
<1>4. /\ grant' \in [Granter -> Granting] /\ grant'[c] = g
      /\ \A h \in Granter \ {c} : grant'[h] = grant[h]
  BY <1>3, GrantReached
<1>5. /\ roles \subseteq roles' /\ roles' \subseteq roles \cup {rows[n].role}
      /\ stray \subseteq stray' /\ stray' \subseteq Role /\ roles' \subseteq Role
  BY <1>2, <1>3 DEF Types
<1>6. Types'
  BY <1>1, <1>4, <1>5 DEF Types, around, tempVars
<1>7. RowInv' /\ SweepInv'
  BY <1>1 DEF TempInv, RowInv, SweepInv, around, tempVars
<1>8. GrantInv'
  <2>1. \A h \in Granter : grant'[h].pc # "idle" =>
           grant[h].pc # "idle" /\ grant'[h].row = grant[h].row
    BY <1>1, <1>3, <1>4
  <2>2. \A h \in Granter : grant'[h].pc = "grant" => h # c /\ grant'[h] = grant[h]
    BY <1>3, <1>4
  <2>3. \A h \in Granter : grant'[h].pc = "idle" => grant'[h].row = 0
    BY <1>3, <1>4 DEF TempInv, GrantInv
  <2>4. \A h \in Granter : grant'[h].row = grant[h].row \/ grant'[h].row = 0
    BY <1>3, <1>4
  <2>5. 0 \notin RowId
    BY DEF RowId
  <2>. QED
    BY <1>1, <2>1, <2>2, <2>3, <2>4, <2>5 DEF TempInv, GrantInv, around, tempVars
<1>9. \A q \in roles' : Justified(q)'
  <2>1. Pending' \subseteq Pending \cup {0}
    BY <1>3, <1>4 DEF Pending
  <2>2. 0 \notin RowId
    BY DEF RowId
  <2>3. ASSUME NEW q \in roles PROVE Justified(q)'
    <3>1. Justified(q)
      BY DEF TempInv
    <3>. QED
      BY <1>1, <1>5, <2>1, <2>2, <3>1 DEF Justified, tempVars
  <2>4. ASSUME g.pc = "idle", g.row = 0, now < rows[n].exp, NEW q, q = rows[n].role
        PROVE  Justified(q)'
    <3>1. rows[n].st = "live"
      BY <1>1, <2>4 DEF TempInv, GrantInv
    <3>2. n # current
      <4>1. now \in Nat /\ rows[n].exp \in Nat
        BY <1>2, MemberAssumption, SweepsAssumption DEF Types, Row, Time
      <4>2. n = current => rows[n].exp <= now
        BY <1>2 DEF TempInv, SweepInv, RowId
      <4>. QED
        BY <2>4, <4>1, <4>2
    <3>3. n \notin Pending'
      BY <1>1, <1>2, <1>4, <2>2, <2>4 DEF Pending, TempInv, GrantInv
    <3>. QED
      BY <1>1, <1>2, <2>4, <3>1, <3>2, <3>3 DEF Justified, tempVars
  <2>5. ASSUME NEW q \in roles', q \notin roles PROVE Justified(q)'
    <3>1. q = rows[n].role /\ g.pc = "idle" /\ g.row = 0
      BY <1>3, <1>5, <2>5
    <3>2. CASE now < rows[n].exp
      BY <2>4, <3>1, <3>2
    <3>3. CASE ~(now < rows[n].exp)
      <4>1. stray' = stray \cup {rows[n].role}
        BY <1>3, <3>1, <3>3
      <4>. QED
        BY <3>1, <4>1 DEF Justified
    <3>. QED
      BY <3>2, <3>3
  <2>. QED
    BY <2>3, <2>5
<1>10. JailInv'
  <2>1. present \/ roles' \subseteq roles
    BY <1>3
  <2>. QED
    BY <1>1, <1>5, <2>1, RolesFrame
<1>. QED
  BY <1>6, <1>7, <1>8, <1>9, <1>10 DEF TempInv

(* A row is consumed, or the UPDATE failed. *)
LEMMA Marked ==
    ASSUME Types, NEW n \in RowId, MarkTempRoleRemoved(n)
    PROVE  /\ rows' \in [RowId -> Row]
           /\ \A m \in RowId : rows'[m].role = rows[m].role /\ rows'[m].exp = rows[m].exp
           /\ \A m \in RowId \ {n} : rows'[m] = rows[m]
           /\ rows'[n].st \in {rows[n].st, "removed"}
<1>1. CASE UNCHANGED rows
  BY <1>1 DEF Types
<1>2. CASE rows' = [rows EXCEPT ![n].st = "removed"]
  <2>1. \A m \in RowId : rows[m] \in Row
    BY DEF Types
  <2> DEFINE row == [rows[n] EXCEPT !.st = "removed"]
  <2>2. /\ row \in Row /\ row.st = "removed" /\ row.role = rows[n].role
        /\ row.exp = rows[n].exp /\ rows' = [rows EXCEPT ![n] = row]
    BY <1>2, <2>1 DEF Row
  <2> HIDE DEF row
  <2>. QED
    BY <2>2 DEF Types
<1>. QED
  BY <1>1, <1>2 DEF MarkTempRoleRemoved

LEMMA WithdrawStep ==
    ASSUME IInv, NEW c \in Granter, TempRoleWithdraw(c)
    PROVE  IInv'
<1> USE DEF IInv
<1> DEFINE n == grant[c].row
<1>1. /\ UNCHANGED <<around, present, roles, jailed, backup, created, batch, current, tried, cmd,
                     history>>
      /\ grant[c].pc = "withdraw" /\ MarkTempRoleRemoved(n)
      /\ grant' = [grant EXCEPT ![c] = NoGrant]
  BY DEF TempRoleWithdraw
<1>2. n \in RowId /\ n <= created /\ 0 \notin RowId
  BY <1>1 DEF TempInv, GrantInv, RowId
<1>3. PICK g \in Granting : g = NoGrant /\ g.pc = "idle" /\ g.row = 0
  <2>1. NoGrant \in Granting /\ NoGrant.pc = "idle" /\ NoGrant.row = 0
    BY DEF NoGrant, Granting
  <2>. QED
    BY <2>1
<1>4. /\ grant' \in [Granter -> Granting] /\ grant'[c] = g
      /\ \A h \in Granter \ {c} : grant'[h] = grant[h]
  BY <1>1, <1>3, GrantReached
<1>5. /\ rows' \in [RowId -> Row]
      /\ \A m \in RowId : rows'[m].role = rows[m].role /\ rows'[m].exp = rows[m].exp
      /\ \A m \in RowId \ {n} : rows'[m] = rows[m]
      /\ rows'[n].st \in {rows[n].st, "removed"}
  BY <1>1, <1>2, Marked
<1>6. Types'
  BY <1>1, <1>4, <1>5 DEF Types, around, history
<1>7. RowInv'
  BY <1>1, <1>2, <1>5 DEF TempInv, RowInv, around
<1>8. SweepInv'
  <2>1. \A m \in batch : m \in RowId
    BY DEF Types
  <2>. QED
    BY <1>1, <1>2, <1>5, <2>1 DEF TempInv, SweepInv, around
<1>9. GrantInv'
  <2>1. \A h \in Granter \ {c} : grant[h].pc # "idle" => grant[h].row \in RowId \ {n}
    BY <1>1 DEF TempInv, GrantInv
  <2>. QED
    BY <1>1, <1>2, <1>3, <1>4, <1>5, <2>1 DEF TempInv, GrantInv, around
<1>10. \A q \in roles' : Justified(q)'
  <2>1. Pending' \subseteq Pending \cup {0} /\ n \in Pending
    BY <1>3, <1>4 DEF Pending
  <2>. QED
    BY <1>1, <1>2, <1>5, <2>1 DEF TempInv, Justified, history
<1>11. JailInv'
  BY <1>1, RolesFrame DEF history
<1>. QED
  BY <1>6, <1>7, <1>8, <1>9, <1>10, <1>11 DEF TempInv

LEMMA SweepStep ==
    ASSUME IInv, Sweep
    PROVE  IInv'
<1> USE DEF IInv
<1>1. CASE SweepRead
  <2>1. /\ batch' \subseteq DueTempRoles /\ batch = {}
        /\ UNCHANGED <<around, present, roles, jailed, backup, created, rows, current, tried, cmd,
                       grant, history>>
    BY <1>1 DEF SweepRead, Earliest
  <2>2. DueTempRoles \subseteq RowId
    BY MemberAssumption, SweepsAssumption DEF DueTempRoles, RowId, Types
  <2>3. Types'
    BY <2>1, <2>2 DEF Types, around, history
  <2>4. RowInv' /\ GrantInv'
    BY <2>1 DEF TempInv, RowInv, GrantInv, around
  <2>5. SweepInv'
    BY <2>1 DEF TempInv, SweepInv, DueTempRoles, around
  <2>6. \A q \in roles' : Justified(q)'
    BY <2>1 DEF TempInv, Justified, Pending, history
  <2>7. JailInv'
    BY <2>1, RolesFrame DEF history
  <2>. QED
    BY <2>3, <2>4, <2>5, <2>6, <2>7 DEF TempInv
<1>2. CASE SweepTake
  <2>1. /\ UNCHANGED <<around, present, jailed, backup, created, rows, batch, cmd, grant, lost,
                       doubtful, unreleased>>
        /\ current = 0
    BY <1>2 DEF SweepTake
  <2>2. PICK n \in batch :
          /\ current' = n /\ tried' = tried \cup {n}
          /\ \/ /\ roles' = roles \ {rows[n].role} /\ owed' = owed \ {rows[n].role}
                /\ stray' = stray
             \/ /\ roles' = roles /\ owed' = owed
                /\ stray' = IF present THEN stray \cup {rows[n].role} ELSE stray
    BY <1>2 DEF SweepTake, First
  <2>3. /\ n \in RowId /\ n <= created /\ rows[n].st # "none" /\ rows[n].role \in Role
        /\ rows[n].exp <= now
    BY DEF TempInv, SweepInv, RowInv, Types
  <2>4. /\ roles' \subseteq roles /\ owed' \subseteq owed /\ stray \subseteq stray'
        /\ stray' \subseteq Role
    BY <2>2, <2>3 DEF Types
  <2>5. Types'
    BY <2>1, <2>2, <2>3, <2>4 DEF Types, around
  <2>6. RowInv' /\ GrantInv'
    BY <2>1, <2>2, <2>3 DEF TempInv, RowInv, GrantInv, around
  <2>7. SweepInv'
    BY <2>1, <2>2 DEF TempInv, SweepInv, around
  <2>8. ASSUME NEW q \in roles' PROVE Justified(q)'
    <3>1. Justified(q) /\ (q = rows[n].role => q \in stray')
      BY <2>2, <2>4 DEF TempInv, JailInv, Absent
    <3>2. q # rows[n].role => (q \in owed => q \in owed')
      BY <2>2
    <3>. QED
      BY <2>1, <2>2, <2>4, <3>1, <3>2 DEF Justified, Pending
  <2>9. JailInv'
    <3>1. \A r \in owed' : r \in owed /\ (r \in roles => r \in roles')
      BY <2>2
    <3>. QED
      BY <2>1, <2>4, <3>1, RolesFrame
  <2>. QED
    BY <2>5, <2>6, <2>7, <2>8, <2>9 DEF TempInv
<1>3. CASE SweepMark
  <2>1. /\ UNCHANGED <<around, present, roles, jailed, backup, created, tried, cmd, grant, history>>
        /\ current # 0 /\ current' = 0 /\ batch' = batch \ {current}
        /\ MarkTempRoleRemoved(current)
    BY <1>3 DEF SweepMark
  <2>2. PICK n \in RowId : n = current
    BY <2>1 DEF Types
  <2>3. n \in batch /\ rows[n].st # "none" /\ rows[n].exp <= now
    BY <2>1, <2>2 DEF TempInv, SweepInv
  <2>4. /\ rows' \in [RowId -> Row]
        /\ \A m \in RowId : rows'[m].role = rows[m].role /\ rows'[m].exp = rows[m].exp
        /\ \A m \in RowId \ {n} : rows'[m] = rows[m]
        /\ rows'[n].st \in {rows[n].st, "removed"}
    BY <2>1, <2>2, Marked
  <2>5. Types'
    BY <2>1, <2>4 DEF Types, around, history
  <2>6. RowInv'
    BY <2>1, <2>3, <2>4 DEF TempInv, RowInv, around
  <2>7. SweepInv'
    <3>1. \A m \in batch : m \in RowId
      BY DEF Types
    <3>. QED
      BY <2>1, <2>2, <2>4, <3>1 DEF TempInv, SweepInv, around
  <2>8. GrantInv'
    <3>1. \A m \in RowId : now < rows[m].exp => m # n
      <4>1. now \in Nat /\ \A m \in RowId : rows[m].exp \in Nat
        BY MemberAssumption, SweepsAssumption DEF Types, Row, Time
      <4>. QED
        BY <2>3, <4>1
    <3>. QED
      BY <2>1, <2>4, <3>1 DEF TempInv, GrantInv, around
  <2>9. \A q \in roles' : Justified(q)'
    <3>1. 0 \notin RowId
      BY DEF RowId
    <3>. QED
      BY <2>1, <2>2, <2>4, <3>1 DEF TempInv, Justified, Pending, history
  <2>10. JailInv'
    BY <2>1, RolesFrame DEF history
  <2>. QED
    BY <2>5, <2>6, <2>7, <2>8, <2>9, <2>10 DEF TempInv
<1>. QED
  BY <1>1, <1>2, <1>3 DEF Sweep

---------------------------------------------------------------------------
(* What happens around the commands *)

LEMMA OthersStep ==
    ASSUME IInv, Others
    PROVE  IInv'
<1> USE DEF IInv
<1>1. ASSUME NEW r \in Role, StaffGive(r) PROVE IInv'
  <2>1. /\ UNCHANGED <<now, configured, present, jailed, backup, tempVars, cmd, grant, lost, stray,
                       doubtful, unreleased>>
        /\ present /\ roles' = roles \cup {r} /\ owed' = owed \cup {r}
    BY <1>1 DEF StaffGive
  <2>2. Types'
    BY <2>1 DEF Types, tempVars
  <2>3. TempInv'
    BY <2>1, TempFrame DEF TempInv
  <2>4. JailInv'
    BY <2>1, JailFrame DEF Absent
  <2>. QED
    BY <2>2, <2>3, <2>4
<1>2. ASSUME NEW r \in Role, StaffTake(r) PROVE IInv'
  <2>1. /\ UNCHANGED <<now, configured, present, jailed, backup, tempVars, cmd, grant, lost, stray,
                       doubtful, unreleased>>
        /\ present /\ roles' = roles \ {r} /\ owed' = owed \ {r}
    BY <1>2 DEF StaffTake
  <2>2. Types'
    BY <2>1 DEF Types, tempVars
  <2>3. TempInv'
    BY <2>1, TempFrame DEF TempInv
  <2>4. JailInv'
    BY <2>1, JailFrame DEF Absent
  <2>. QED
    BY <2>2, <2>3, <2>4
<1>3. CASE LeaveOrJoin
  <2>1. /\ UNCHANGED <<now, configured, backup, tempVars, cmd, grant, lost, stray, doubtful,
                       unreleased>>
        /\ present' = ~present /\ roles' = {} /\ owed' = {} /\ jailed' = FALSE
    BY <1>3 DEF LeaveOrJoin
  <2>2. Types'
    BY <2>1 DEF Types, tempVars
  <2>3. TempInv'
    BY <2>1, TempFrame DEF TempInv
  <2>4. JailInv'
    BY <2>1, JailFrame DEF Absent
  <2>. QED
    BY <2>2, <2>3, <2>4
<1>4. CASE ConfigSet \/ GuildsUpdate
  <2>1. /\ UNCHANGED <<now, present, roles, jailed, backup, tempVars, cmd, grant, history>>
        /\ configured' \in BOOLEAN
    BY <1>4 DEF ConfigSet, GuildsUpdate, Elsewhere
  <2>2. Types'
    BY <2>1 DEF Types, tempVars, history
  <2>3. TempInv'
    BY <2>1, TempFrame DEF TempInv, history
  <2>4. JailInv'
    BY <2>1, RolesFrame DEF history
  <2>. QED
    BY <2>2, <2>3, <2>4
<1>5. CASE Tick
  <2>1. /\ UNCHANGED <<configured, present, roles, jailed, backup, tempVars, cmd, grant, history>>
        /\ now' = now + 1 /\ now < MaxTime
    BY <1>5 DEF Tick
  <2>2. now \in Nat /\ now' \in Time /\ \A m \in RowId : rows[m].exp \in Nat
    BY <2>1, MemberAssumption, SweepsAssumption DEF Types, Row, Time
  <2>3. Types'
    BY <2>1, <2>2 DEF Types, tempVars, history
  <2>4. \A m \in RowId : (rows[m].exp <= now => rows[m].exp <= now')
                         /\ (now' < rows[m].exp => now < rows[m].exp)
    BY <2>1, <2>2
  <2>5. RowInv'
    BY <2>1, <2>4 DEF TempInv, RowInv, tempVars
  <2>6. SweepInv'
    BY <2>1, <2>4 DEF TempInv, SweepInv, tempVars, Types
  <2>7. GrantInv'
    <3>1. \A g \in Granter : grant[g].pc = "grant" => grant[g].row \in RowId
      BY DEF TempInv, GrantInv
    <3>. QED
      BY <2>1, <2>4, <3>1 DEF TempInv, GrantInv, tempVars
  <2>8. \A q \in roles' : Justified(q)'
    BY <2>1 DEF TempInv, Justified, Pending, tempVars, history
  <2>9. JailInv'
    BY <2>1, RolesFrame DEF history
  <2>. QED
    BY <2>3, <2>5, <2>6, <2>7, <2>8, <2>9 DEF TempInv
<1>6. CASE Crash
  <2>1. /\ UNCHANGED <<now, configured, present, roles, jailed, backup, created, rows, tried,
                       history>>
        /\ cmd' = [c \in Jailer |-> Idle] /\ grant' = [c \in Granter |-> NoGrant]
        /\ batch' = {} /\ current' = 0
    BY <1>6 DEF Crash
  <2>2. Idle \in Running /\ Idle.pc = "idle"
    BY DEF Idle, At, Running
  <2>3. NoGrant \in Granting /\ NoGrant.pc = "idle" /\ NoGrant.row = 0
    BY DEF NoGrant, Granting
  <2>4. Types'
    BY <2>1, <2>2, <2>3 DEF Types, history
  <2>5. RowInv' /\ SweepInv'
    BY <2>1 DEF TempInv, RowInv, SweepInv
  <2>6. GrantInv'
    BY <2>1, <2>3 DEF GrantInv
  <2>7. \A q \in roles' : Justified(q)'
    <3>1. Pending' \subseteq {0} /\ 0 \notin RowId
      BY <2>1, <2>3 DEF Pending, RowId
    <3>. QED
      BY <2>1, <3>1 DEF TempInv, Justified, history
  <2>8. JailInv'
    <3>1. Absent' /\ RolesSurvive' /\ JailHasBackup'
      BY <2>1 DEF JailInv, Absent, RolesSurvive, JailHasBackup, history
    <3>2. \A c \in Jailer : cmd'[c].pc = "idle"
      BY <2>1, <2>2
    <3>3. Alone' /\ \A c \in Jailer : Stands(c)'
      BY <3>2 DEF Alone, Stands
    <3>. QED
      BY <3>1, <3>3 DEF JailInv
  <2>. QED
    BY <2>4, <2>5, <2>6, <2>7, <2>8 DEF TempInv
<1>. QED
  BY <1>1, <1>2, <1>3, <1>4, <1>5, <1>6 DEF Others

LEMMA NextIInv == IInv /\ [Next]_vars => IInv'
<1> SUFFICES ASSUME IInv, [Next]_vars PROVE IInv'
  OBVIOUS
<1>1. ASSUME NEW c \in Jailer, Jail(c) PROVE IInv'
  BY <1>1, JailLookupStep, JailCheckStep, SaveStep, StripStep, AddRoleStep, JailGiveBackStep,
     JailGiveUpStep DEF Jail
<1>2. ASSUME NEW c \in Jailer, Unjail(c) PROVE IInv'
  BY <1>2, UnjailReadStep, UnjailLookupStep, UnjailClearStep, ReleaseStep, UnjailGiveBackStep,
     UnjailFinishStep DEF Unjail
<1>3. ASSUME NEW c \in Granter, TempRole(c) PROVE IInv'
  BY <1>3, AddStep, GrantStep, WithdrawStep DEF TempRole
<1>4. CASE UNCHANGED vars
  <2>1. Types'
    BY <1>4 DEF IInv, Types, vars, around, tempVars, history
  <2>2. TempInv'
    BY <1>4, TempFrame DEF IInv, TempInv, vars, around, history
  <2>3. JailInv'
    BY <1>4, RolesFrame DEF vars, history
  <2>. QED
    BY <2>1, <2>2, <2>3 DEF IInv
<1>. QED
  BY <1>1, <1>2, <1>3, <1>4, SweepStep, OthersStep DEF Next

---------------------------------------------------------------------------
(* For any roles, commands, rows, failing calls and restarts: a role the     *)
(* member is owed is on the member or in the backup, unless a failed .jail   *)
(* lost it.                                                                  *)
THEOREM NoRoleLost == Spec => []RolesSurvive
<1>1. IInv => RolesSurvive
  BY DEF IInv, JailInv
<1>. QED
  BY <1>1, InitIInv, NextIInv, PTL DEF Spec

(* Whoever is in jail has a backup to be released with.                      *)
THEOREM JailCanBeUndone == Spec => []JailHasBackup
<1>1. IInv => JailHasBackup
  BY DEF IInv, JailInv
<1>. QED
  BY <1>1, InitIInv, NextIInv, PTL DEF Spec

(* A role that staff did not give has a live row that will take it away,     *)
(* stray roles aside.                                                        *)
THEOREM GrantsHaveRows == Spec => []TempRoleEnds
<1>1. IInv => TempRoleEnds
  BY DEF IInv, TempInv, Justified, TempRoleEnds
<1>. QED
  BY <1>1, InitIInv, NextIInv, PTL DEF Spec

(* The sweeper's batch stays within its LIMIT and the counters of the model  *)
(* within their bounds.                                                      *)
Bounded ==
    /\ Cardinality(batch) <= TempRoleBatch
    /\ faults \in 0..MaxFaults
    /\ moves \in 0..MaxMoves

LEMMA BoundedStep == IInv /\ Bounded /\ [Next]_vars => Bounded'
<1> SUFFICES ASSUME IInv, Bounded, [Next]_vars PROVE Bounded'
  OBVIOUS
<1> USE MemberAssumption, SweepsAssumption
<1> USE DEF Succeeds, FailsOnDiscord, around, tempVars, DeleteJailBackup, MarkTempRoleRemoved
<1>1. faults' \in 0..MaxFaults
  <2>1. ASSUME NEW c \in Jailer, Jail(c) PROVE faults' = faults \/ Fault
    BY <2>1 DEF Jail, JailLookup, JailCheck, SaveJailBackup, JailStrip, JailAddRole,
                JailGiveBack, JailGiveUp
  <2>2. ASSUME NEW c \in Jailer, Unjail(c) PROVE faults' = faults \/ Fault
    BY <2>2 DEF Unjail, UnjailRead, UnjailLookup, UnjailClear, UnjailRelease, UnjailGiveBack,
                UnjailFinish
  <2>3. ASSUME NEW c \in Granter, TempRole(c) PROVE faults' = faults \/ Fault
    BY <2>3 DEF TempRole, AddTempRole, TempRoleGrant, TempRoleWithdraw
  <2>4. Sweep \/ Others \/ UNCHANGED vars => faults' = faults \/ Fault
    BY DEF Sweep, SweepRead, SweepTake, SweepMark, Others, Tick, Crash, LeaveOrJoin, ConfigSet,
           GuildsUpdate, Elsewhere, StaffGive, StaffTake, vars
  <2>5. faults' = faults \/ Fault
    BY <2>1, <2>2, <2>3, <2>4 DEF Next
  <2>. QED
    BY <2>5 DEF Bounded, Fault
<1>2. moves' \in 0..MaxMoves
  <2>1. ASSUME NEW c \in Jailer, Jail(c) PROVE moves' = moves
    BY <2>1 DEF Jail, JailLookup, JailCheck, SaveJailBackup, JailStrip, JailAddRole,
                JailGiveBack, JailGiveUp
  <2>2. ASSUME NEW c \in Jailer, Unjail(c) PROVE moves' = moves
    BY <2>2 DEF Unjail, UnjailRead, UnjailLookup, UnjailClear, UnjailRelease, UnjailGiveBack,
                UnjailFinish
  <2>3. ASSUME NEW c \in Granter, TempRole(c) PROVE moves' = moves
    BY <2>3 DEF TempRole, AddTempRole, TempRoleGrant, TempRoleWithdraw
  <2>4. Sweep \/ Others \/ UNCHANGED vars => moves' = moves \/ Meddling
    BY DEF Sweep, SweepRead, SweepTake, SweepMark, Others, Tick, Crash, LeaveOrJoin, ConfigSet,
           GuildsUpdate, Elsewhere, StaffGive, StaffTake, vars
  <2>5. moves' = moves \/ Meddling
    BY <2>1, <2>2, <2>3, <2>4 DEF Next
  <2>. QED
    BY <2>5 DEF Bounded, Meddling
<1>3. Cardinality(batch') <= TempRoleBatch
  <2>1. \A S \in SUBSET RowId : IsFiniteSet(S) /\ Cardinality(S) \in Nat
    <3>1. IsFiniteSet(RowId)
      BY FS_Interval DEF RowId
    <3>. QED
      BY <3>1, FS_Subset, FS_CardinalityType
  <2>2. CASE SweepRead
    <3>1. DueTempRoles \in SUBSET RowId
      BY DEF DueTempRoles, RowId, IInv, Types
    <3>2. Cardinality(DueTempRoles) \in Nat
      BY <2>1, <3>1
    <3>. QED
      BY <2>2, <3>2 DEF SweepRead, Earliest
  <2>3. CASE SweepMark
    <3>1. batch' = batch \ {current} /\ batch \in SUBSET RowId
      BY <2>3 DEF SweepMark, IInv, Types
    <3>2. Cardinality(batch') <= Cardinality(batch) /\ Cardinality(batch) \in Nat
      BY <2>1, <3>1, FS_RemoveElement
    <3>3. Cardinality(batch') \in Nat
      BY <2>1, <3>1
    <3>. QED
      BY <3>2, <3>3 DEF Bounded
  <2>4. CASE Crash
    BY <2>4, FS_EmptySet DEF Crash
  <2>5. ASSUME NEW c \in Jailer, Jail(c) PROVE batch' = batch
    BY <2>5 DEF Jail, JailLookup, JailCheck, SaveJailBackup, JailStrip, JailAddRole,
                JailGiveBack, JailGiveUp
  <2>6. ASSUME NEW c \in Jailer, Unjail(c) PROVE batch' = batch
    BY <2>6 DEF Unjail, UnjailRead, UnjailLookup, UnjailClear, UnjailRelease, UnjailGiveBack,
                UnjailFinish
  <2>7. ASSUME NEW c \in Granter, TempRole(c) PROVE batch' = batch
    BY <2>7 DEF TempRole, AddTempRole, TempRoleGrant, TempRoleWithdraw
  <2>8. SweepTake \/ (Others /\ ~Crash) \/ UNCHANGED vars => batch' = batch
    BY DEF SweepTake, Others, Tick, LeaveOrJoin, ConfigSet, GuildsUpdate, Elsewhere, StaffGive,
           StaffTake, vars
  <2>9. batch' = batch \/ SweepRead \/ SweepMark \/ Crash
    BY <2>5, <2>6, <2>7, <2>8 DEF Next, Sweep
  <2>. QED
    BY <2>2, <2>3, <2>4, <2>9 DEF Bounded
<1>. QED
  BY <1>1, <1>2, <1>3 DEF Bounded

(* TypeOK holds in every reachable state. *)
THEOREM TypeCorrect == Spec => []TypeOK
<1>1. Init => Bounded
  BY MemberAssumption, SweepsAssumption, FS_EmptySet DEF Init, Bounded
<1>2. IInv /\ Bounded => TypeOK
  BY DEF IInv, Types, TempInv, SweepInv, Bounded, TypeOK
<1>. QED
  BY <1>1, <1>2, InitIInv, NextIInv, BoundedStep, PTL DEF Spec

---------------------------------------------------------------------------
(* temp_roles, as .temprole and the sweeper use it, is a table of deadline   *)
(* jobs: no role is taken before its row is due, and a consumed row never    *)
(* comes back.                                                               *)

(* A row that is consumed, by the sweeper after a try or by .temprole.       *)
LEMMA MarkedJob ==
    ASSUME IInv, NEW n \in RowId, n <= created, UNCHANGED <<now, tried>>,
           rows' = [rows EXCEPT ![n].st = "removed"],
           \/ n \in tried /\ InHand' = InHand
           \/ n \in InHand /\ InHand' = InHand \ {n}
    PROVE  Jobs!Next \/ UNCHANGED Jobs!jobVars
<1> USE DEF IInv
<1> DEFINE status == [m \in RowId |-> JobStatus(m)]
<1>1. /\ rows'[n].st = "removed"
      /\ \A m \in RowId : rows'[m].exp = rows[m].exp /\ (m # n => rows'[m] = rows[m])
  BY DEF Types, Row
<1>2. rows[n].st \in {"live", "removed"}
  BY DEF TempInv, RowInv, Types, Row
<1>3. UNCHANGED Expiry
  BY <1>1 DEF Expiry
<1>4. status' = [status EXCEPT ![n] = "done"]
  BY <1>1 DEF JobStatus
<1>5. CASE rows[n].st = "removed"
  <2>1. status[n] = "done"
    BY <1>5 DEF JobStatus
  <2>2. status' = status
    BY <1>4, <2>1
  <2>3. Jobs!LetGo
    BY <1>3, <2>2 DEF Jobs!LetGo
  <2>. QED
    BY <2>3 DEF Jobs!Next
<1>6. CASE rows[n].st = "live" /\ n \in tried
  <2>1. status[n] = "tried"
    BY <1>6 DEF JobStatus
  <2>2. Jobs!Consume(n)
    BY <1>3, <1>4, <2>1 DEF Jobs!Consume
  <2>. QED
    BY <2>2 DEF Jobs!Next
<1>7. CASE rows[n].st = "live" /\ n \notin tried
  <2>1. status[n] = "waiting"
    BY <1>7 DEF JobStatus
  <2>2. Jobs!Withdraw(n)
    BY <1>3, <1>4, <1>7, <2>1 DEF Jobs!Withdraw
  <2>. QED
    BY <2>2 DEF Jobs!Next
<1>. QED
  BY <1>2, <1>5, <1>6, <1>7

(* One .temprole moves on: the rows in hand are those of the others and its  *)
(* own.                                                                      *)
LEMMA InHandAfter ==
    ASSUME Types, NEW c \in Granter, NEW g, NEW n, g.row = n,
           grant' = [grant EXCEPT ![c] = g]
    PROVE  InHand' = ({grant[h].row : h \in Granter \ {c}} \cup {n}) \ {0}
<1>1. grant'[c].row = n /\ \A h \in Granter \ {c} : grant'[h] = grant[h]
  BY DEF Types
<1>. QED
  BY <1>1 DEF InHand

LEMMA ScheduledJob ==
    ASSUME IInv, NEW c \in Granter, NEW r \in Role, NEW d \in 1..MaxTime, AddTempRole(c, r, d)
    PROVE  Jobs!Next
<1> USE DEF IInv
<1> DEFINE status == [m \in RowId |-> JobStatus(m)]
<1>1. /\ UNCHANGED <<now, tried>> /\ created < MaxRows /\ now + d <= MaxTime
      /\ rows' = [rows EXCEPT ![created + 1] = [st |-> "live", role |-> r, exp |-> now + d]]
  BY DEF AddTempRole, InsertRow, around
<1>2. PICK k \in RowId : k = created + 1
  BY <1>1, MemberAssumption, SweepsAssumption DEF Types, RowId
<1>3. PICK e \in Time : e = now + d
  BY <1>1, MemberAssumption, SweepsAssumption DEF Types, Time
<1>4. /\ rows'[k].st = "live" /\ rows'[k].exp = e
      /\ \A m \in RowId \ {k} : rows'[m] = rows[m]
  BY <1>1, <1>2, <1>3 DEF Types
<1>5. rows[k].st = "none" /\ k \notin tried
  <2>1. ~(k <= created)
    BY <1>2, MemberAssumption, SweepsAssumption DEF Types
  <2>. QED
    BY <2>1 DEF TempInv, RowInv
<1>6. status[k] = "none" /\ status' = [status EXCEPT ![k] = "waiting"]
  BY <1>1, <1>4, <1>5 DEF JobStatus
<1>7. Expiry' = [Expiry EXCEPT ![k] = e]
  BY <1>4 DEF Expiry
<1>8. InHand' = InHand \cup {k}
  <2>1. grant[c].row = 0 /\ k # 0
    BY <1>2, MemberAssumption, SweepsAssumption DEF AddTempRole, TempInv, GrantInv, RowId
  <2>2. /\ grant' = [grant EXCEPT ![c] = [pc |-> "grant", row |-> k]]
        /\ [pc |-> "grant", row |-> k].row = k
    BY <1>2 DEF AddTempRole
  <2>3. InHand' = ({grant[h].row : h \in Granter \ {c}} \cup {k}) \ {0}
    BY <2>2, InHandAfter, Zenon
  <2>. QED
    BY <2>1, <2>3 DEF InHand
<1>9. Jobs!Schedule(k)
  BY <1>1, <1>6, <1>7, <1>8 DEF Jobs!Schedule
<1>. QED
  BY <1>9 DEF Jobs!Next

LEMMA TriedJob ==
    ASSUME IInv, SweepTake
    PROVE  Jobs!Next \/ UNCHANGED Jobs!jobVars
<1> USE DEF IInv
<1> DEFINE status == [m \in RowId |-> JobStatus(m)]
<1>1. UNCHANGED <<now, rows>> /\ UNCHANGED InHand
  BY DEF SweepTake, around, InHand
<1>2. PICK n \in batch : tried' = tried \cup {n}
  BY DEF SweepTake, First
<1>3. n \in RowId /\ rows[n].st \in {"live", "removed"} /\ rows[n].exp <= now
  BY DEF TempInv, SweepInv, Types, Row
<1>4. UNCHANGED Expiry
  BY <1>1 DEF Expiry
<1>5. CASE n \in tried \/ rows[n].st = "removed"
  <2>1. status' = status
    BY <1>1, <1>2, <1>3, <1>5 DEF JobStatus
  <2>. QED
    BY <1>1, <1>4, <2>1 DEF Jobs!jobVars
<1>6. CASE n \notin tried /\ rows[n].st = "live"
  <2>1. status[n] = "waiting" /\ status' = [status EXCEPT ![n] = "tried"]
    BY <1>1, <1>2, <1>3, <1>6 DEF JobStatus
  <2>2. Jobs!Try(n)
    BY <1>1, <1>3, <1>4, <2>1 DEF Jobs!Try, Expiry
  <2>. QED
    BY <1>3, <2>2 DEF Jobs!Next
<1>. QED
  BY <1>3, <1>5, <1>6

LEMMA MappedStep == IInv /\ [Next]_vars => [Jobs!Next]_(Jobs!jobVars)
<1> SUFFICES ASSUME IInv, [Next]_vars
             PROVE  Jobs!Next \/ UNCHANGED Jobs!jobVars
  OBVIOUS
<1> USE DEF IInv, around, tempVars
<1>1. ASSUME UNCHANGED <<now, rows, tried>>, InHand' \in SUBSET InHand
      PROVE  Jobs!Next
  BY <1>1 DEF Jobs!Next, Jobs!LetGo, JobStatus, Expiry
<1>2. ASSUME UNCHANGED <<now, rows, tried, grant>>
      PROVE  Jobs!Next
  BY <1>1, <1>2 DEF InHand
<1>3. CASE Tick
  <2>1. UNCHANGED InHand
    BY <1>3 DEF Tick, InHand
  <2>. QED
    BY <1>3, <2>1 DEF Tick, Jobs!Next, Jobs!Tick, JobStatus, Expiry
<1>4. ASSUME NEW c \in Jailer, Jail(c) \/ Unjail(c)
      PROVE  UNCHANGED <<now, rows, tried, grant>>
  <2>1. Jail(c) => UNCHANGED <<now, rows, tried, grant>>
    BY DEF Jail, JailLookup, JailCheck, SaveJailBackup, JailStrip, JailAddRole, JailGiveBack,
           JailGiveUp
  <2>2. Unjail(c) => UNCHANGED <<now, rows, tried, grant>>
    BY DEF Unjail, UnjailRead, UnjailLookup, UnjailClear, UnjailRelease, UnjailGiveBack,
           UnjailFinish
  <2>. QED
    BY <1>4, <2>1, <2>2
<1>5. ASSUME NEW c \in Granter, TempRole(c)
      PROVE  Jobs!Next \/ UNCHANGED Jobs!jobVars
  <2>1. CASE TempRoleGrant(c)
    <3>1. \/ grant' = [grant EXCEPT ![c] = NoGrant]
          \/ grant' = [grant EXCEPT ![c].pc = "withdraw"]
      BY <2>1 DEF TempRoleGrant
    <3>2. \A h \in Granter : grant'[h].row \in {grant[h].row, 0}
      BY <3>1 DEF Types, Granting, NoGrant
    <3>3. InHand' \in SUBSET InHand
      BY <3>2 DEF InHand
    <3>. QED
      BY <1>1, <2>1, <3>3 DEF TempRoleGrant
  <2>2. CASE TempRoleWithdraw(c)
    <3>1. grant[c].row \in RowId /\ grant[c].row <= created /\ grant[c].row # 0
      BY <2>2 DEF TempRoleWithdraw, TempInv, GrantInv, RowId
    <3>2. /\ UNCHANGED <<now, tried>> /\ MarkTempRoleRemoved(grant[c].row)
          /\ grant' = [grant EXCEPT ![c] = NoGrant]
      BY <2>2 DEF TempRoleWithdraw
    <3>3. \A h \in Granter \ {c} : grant[h].row # grant[c].row
      BY <2>2 DEF TempRoleWithdraw, TempInv, GrantInv
    <3>4. InHand' = ({grant[h].row : h \in Granter \ {c}} \cup {0}) \ {0}
      <4>1. NoGrant.row = 0
        BY DEF NoGrant
      <4>. QED
        BY <3>2, <4>1, InHandAfter, Zenon
    <3>5. grant[c].row \in InHand /\ InHand' = InHand \ {grant[c].row}
      BY <3>1, <3>3, <3>4 DEF InHand
    <3>. QED
      BY <1>1, <3>1, <3>2, <3>5, MarkedJob DEF MarkTempRoleRemoved
  <2>. QED
    BY <1>5, <2>1, <2>2, ScheduledJob DEF TempRole
<1>6. CASE SweepMark
  <2>1. UNCHANGED <<now, tried, grant>> /\ MarkTempRoleRemoved(current) /\ current # 0
    BY <1>6 DEF SweepMark
  <2>2. current \in RowId /\ current <= created /\ current \in tried
    BY <2>1 DEF Types, TempInv, SweepInv, RowInv
  <2>3. UNCHANGED InHand
    BY <2>1 DEF InHand
  <2>. QED
    BY <1>2, <2>1, <2>2, <2>3, MarkedJob DEF MarkTempRoleRemoved
<1>7. SweepRead => UNCHANGED <<now, rows, tried, grant>>
  BY DEF SweepRead
<1>8. CASE Crash
  <2>1. InHand' = {}
    BY <1>8 DEF Crash, InHand, NoGrant
  <2>. QED
    BY <1>1, <1>8, <2>1 DEF Crash
<1>9. Others => Tick \/ Crash \/ UNCHANGED <<now, rows, tried, grant>>
  BY DEF Others, LeaveOrJoin, ConfigSet, GuildsUpdate, Elsewhere, StaffGive, StaffTake
<1>10. UNCHANGED vars => UNCHANGED <<now, rows, tried, grant>>
  BY DEF vars
<1>. QED
  BY <1>2, <1>3, <1>4, <1>5, <1>6, <1>7, <1>8, <1>9, <1>10, TriedJob DEF Next, Sweep

(* RefinesDeadlineJobs, for any roles, commands, batch size and bounds.       *)
THEOREM Refinement == Spec => RefinesDeadlineJobs
<1>1. Init => Jobs!Init
  BY DEF Init, Jobs!Init, JobStatus, NoRow, Expiry, InHand, NoGrant
<1>. QED
  BY <1>1, InitIInv, NextIInv, MappedStep, PTL DEF Spec, Jobs!SafeSpec, RefinesDeadlineJobs
=============================================================================
