----------------------------- MODULE Automation -----------------------------
(***************************************************************************)
(* Automation rules: an event of a guild goes through the guild's rules in *)
(* the order of their names, from a cache that lives for 15 seconds and    *)
(* that .automate throws away after every change.  One member, whose roles *)
(* the bot remembers, since Discord's updates do not say which role came   *)
(* or went.  What the actions of a rule do to the guild and the sweep of   *)
(* the interval rules are not modelled.                                    *)
(***************************************************************************)
EXTENDS Handlers, Integers, Sequences, SequencesExt

CONSTANTS Names,      \* how many rules there may be; they are numbered in the order of
                      \* their names
          Rules,      \* what may be added under a name, see RuleRecord
          RuleTables, \* what the table may hold to begin with
          Posts,      \* what may be posted: the properties of a message a rule can ask for
          RuleRoles,  \* roles; AutoRole, one of them or NoRole, is given on joining
          AutoRole, NoRole,
          NoRule,     \* no rule of that name
          RuleTTL     \* automationCacheTTL, 15 seconds

Trigger == {"message_create", "member_join", "member_leave", "role_add", "role_remove"}

RuleRecord == [on : BOOLEAN, trigger : Trigger, pin : RuleRoles \cup {NoRole},
               needs : SUBSET UNION Posts, require : SUBSET RuleRoles, forbid : SUBSET RuleRoles,
               actions : SUBSET {"delete", "reply", "dm", "log", "stop"}, gated : BOOLEAN]

ASSUME AutomationAssumption ==
    /\ Names \in Nat /\ RuleTTL \in Nat
    /\ Rules \subseteq RuleRecord /\ NoRule \notin RuleRecord
    /\ RuleTables \subseteq [1..Names -> Rules \cup {NoRule}]
    /\ IsFiniteSet(RuleRoles) /\ NoRole \notin RuleRoles /\ AutoRole \in RuleRoles \cup {NoRole}

VARIABLES
    ruleTable,    \* automation_rules of the guild
    ruleCache,    \* automationCache: the rules, none after an error, and when they were put in
    memberRoles,  \* the member's roles
    knownRoles,   \* automationRoles
    automating,   \* where each goroutine stands
    settled,      \* history: every change of a rule has been followed by its invalidation
                  \* with no other change or load under way
    lastRun,      \* history: how the last event went, if nothing stood in its way
    owed,         \* history: for each role how often it came, and went, less the events
                  \* raised for that
    updates, swapped, \* history: the number of the last join, update or leave, and of
                      \* the last one to reach automationRoles
    misled        \* history: they got there out of order, or the memory was lost

ruleVars == <<ruleTable, ruleCache, memberRoles, knownRoles, automating, settled, lastRun,
              owed, updates, swapped, misled>>
roleVars == <<memberRoles, knownRoles, owed, updates, swapped, misled>>

Nothing == [n \in 1..Names |-> NoRule]
Change == {"role_add", "role_remove"} \X RuleRoles

Unautomated == [pc |-> "idle", update |-> 0, roles |-> {}, events |-> <<>>,
                rules |-> Nothing, sure |-> FALSE]

RuleInit ==
    /\ ruleTable \in RuleTables
    /\ ruleCache = [rules |-> Nothing, failed |-> FALSE, at |-> Never]
    /\ memberRoles \in SUBSET RuleRoles
    /\ knownRoles = {}
    /\ automating = [p \in Proc |-> Unautomated]
    /\ settled = TRUE /\ lastRun = {}
    /\ owed = [c \in Change |-> 0]
    /\ updates = 0 /\ swapped = 0 /\ misled = (memberRoles # {})

AutoIdle(p) == automating' = [automating EXCEPT ![p] = Unautomated]

---------------------------------------------------------------------------
(* Validate                                                                  *)
Valid(r) ==
    /\ r.pin # NoRole => r.trigger \in {"role_add", "role_remove"}
    /\ r.trigger # "message_create" => r.needs = {} /\ r.actions \cap {"delete", "reply"} = {}
    /\ r.actions # {}

(* Compile and Check.                                                        *)
Check(r, e) ==
    /\ r.trigger = e.kind
    /\ r.pin \in {NoRole, e.role}
    /\ r.require \subseteq e.roles /\ r.forbid \cap e.roles = {}
    /\ r.needs \subseteq e.has

(* The loop of RunAutomation from rule n on, with automationGate: the maps   *)
(* of a gate are never made, so that a rule with a cooldown or a counter     *)
(* panics once it has matched, and safeEvent ends the whole handler.         *)
RunFrom(rules, e) ==
    LET Run[n \in 1..(Names + 1)] ==
            IF n > Names THEN [fired |-> {}, panic |-> FALSE]
            ELSE LET r == rules[n] IN
                 IF r = NoRule THEN Run[n + 1]
                 ELSE IF ~Check(r, e) THEN Run[n + 1]
                 ELSE IF r.gated THEN [fired |-> {}, panic |-> TRUE]
                 ELSE IF "stop" \in r.actions THEN [fired |-> {n}, panic |-> FALSE]
                 ELSE [Run[n + 1] EXCEPT !.fired = @ \cup {n}]
    IN  Run[1]

---------------------------------------------------------------------------
Event(kind, role, roles, has) == [kind |-> kind, role |-> role, roles |-> roles, has |-> has]

(* Where RunAutomation starts, for the first of the events a handler has.    *)
Looks(p, events) ==
    [Unautomated EXCEPT !.pc = "look", !.events = events, !.sure = settled]

(* onMessageCreateAutomation                                                 *)
SeePost(p) ==
    /\ Called
    /\ automating[p].pc = "idle"
    /\ \E has \in Posts : automating' = [automating EXCEPT ![p] =
          Looks(p, <<Event("message_create", NoRole, memberRoles, has)>>)]
    /\ UNCHANGED <<ruleTable, ruleCache, settled, lastRun, roleVars>>

(* The cache of automationRulesFor.                                          *)
LookForRules(p) ==
    LET it == automating[p] IN
    /\ it.pc = "look"
    /\ automating' = [automating EXCEPT ![p] =
          IF Within(ruleCache.at, RuleTTL)
          THEN [it EXCEPT !.pc = "run", !.rules = ruleCache.rules, !.sure = it.sure /\ ~ruleCache.failed]
          ELSE [it EXCEPT !.pc = "query"]]
    /\ UNCHANGED <<env, ruleTable, ruleCache, settled, lastRun, roleVars>>

QueryRules(p) ==
    /\ automating[p].pc = "query"
    /\ \/ /\ automating' = [automating EXCEPT ![p].pc = "fill", ![p].rules =
                [n \in 1..Names |-> IF ruleTable[n] = NoRule THEN NoRule
                                    ELSE IF ruleTable[n].on THEN ruleTable[n] ELSE NoRule]]
          /\ UNCHANGED env
       \/ Fault /\ automating' = [automating EXCEPT ![p].pc = "fillNone", ![p].sure = FALSE]
    /\ UNCHANGED <<ruleTable, ruleCache, settled, lastRun, roleVars>>

FillRules(p) ==
    LET it == automating[p] IN
    /\ it.pc \in {"fill", "fillNone"}
    /\ ruleCache' = [rules |-> it.rules, failed |-> it.pc = "fillNone", at |-> now]
    /\ automating' = [automating EXCEPT ![p].pc = "run"]
    /\ UNCHANGED <<env, ruleTable, settled, lastRun, roleVars>>

(* RunAutomation; what the rules do disturbs nobody, so that it is one step. *)
RunAutomation(p) ==
    LET it == automating[p]
        e == Head(it.events)
        run == RunFrom(it.rules, e)
    IN
    /\ it.pc = "run"
    /\ lastRun' = IF it.sure THEN {[event |-> e, table |-> ruleTable, fired |-> run.fired]} ELSE {}
    /\ automating' = [automating EXCEPT ![p] =
          IF run.panic \/ Len(it.events) = 1 THEN Unautomated ELSE Looks(p, Tail(it.events))]
    /\ UNCHANGED <<env, ruleTable, ruleCache, settled, roleVars>>

---------------------------------------------------------------------------
(* Discord's events about the member, numbered as they come.                 *)
Numbered(p, pc, roles) ==
    /\ automating[p].pc = "idle"
    /\ updates' = updates + 1
    /\ memberRoles' = roles
    /\ automating' = [automating EXCEPT ![p] =
          [Unautomated EXCEPT !.pc = pc, !.update = updates + 1, !.roles = roles]]
    /\ UNCHANGED <<ruleTable, ruleCache, settled, lastRun, knownRoles, swapped, misled>>

Plus(changes, k) == [c \in Change |-> owed[c] + (IF c \in changes THEN k ELSE 0)]

Diff(prev, cur) == {<<"role_add", r>> : r \in cur \ prev} \cup {<<"role_remove", r>> : r \in prev \ cur}

(* The member is updated, with roles given or taken, or none.                *)
MemberUpdate(p) ==
    /\ Called
    /\ \E roles \in SUBSET RuleRoles :
          /\ Numbered(p, "swap", roles)
          /\ owed' = Plus(Diff(memberRoles, roles), 1)

MemberLeaves(p) == Called /\ Numbered(p, "drop", {}) /\ UNCHANGED owed
MemberJoins(p) == Called /\ memberRoles = {} /\ Numbered(p, "autorole", {}) /\ UNCHANGED owed

(* applyAutorole: Discord reports the new role to another handler, while the *)
(* one of the join goes on to remember that the member has no roles.         *)
ApplyAutorole(p) ==
    /\ automating[p].pc = "autorole"
    /\ \/ \E q \in Proc :
             /\ AutoRole # NoRole /\ automating[q].pc = "idle"
             /\ updates' = updates + 1
             /\ memberRoles' = memberRoles \cup {AutoRole}
             /\ owed' = Plus(Diff(memberRoles, memberRoles'), 1)
             /\ automating' = [automating EXCEPT ![p].pc = "prime", ![q] =
                   [Unautomated EXCEPT !.pc = "swap", !.update = updates + 1, !.roles = memberRoles']]
             /\ UNCHANGED env
       \/ /\ AutoRole = NoRole \/ Fault
          /\ AutoRole = NoRole => UNCHANGED env
          /\ automating' = [automating EXCEPT ![p].pc = "prime"]
          /\ UNCHANGED <<updates, memberRoles, owed>>
    /\ UNCHANGED <<ruleTable, ruleCache, settled, lastRun, knownRoles, swapped, misled>>

(* swapAutomationRoles, under its lock.                                      *)
SwapRoles(p, roles) ==
    /\ knownRoles' = roles
    /\ swapped' = automating[p].update
    /\ misled' = (misled \/ automating[p].update < swapped)
    /\ UNCHANGED <<ruleTable, ruleCache, settled, lastRun, memberRoles, updates>>

\* Mutant: what the bot remembers is not replaced.
RolesFromUpdateKept(p) ==
    LET it == automating[p] IN SwapRoles(p, knownRoles \cup it.roles)

RolesFromUpdate(p) ==
    LET it == automating[p] IN SwapRoles(p, it.roles)

(* onGuildMemberUpdateAutomation: first what was given, then what was taken. *)
UpdateRoles(p) ==
    LET it == automating[p]
        events(kind, rs, of) == [i \in DOMAIN rs |-> Event(kind, rs[i], of, {})]
        new == Diff(knownRoles, it.roles)
    IN
    /\ it.pc = "swap"
    /\ RolesFromUpdate(p)
    /\ owed' = Plus(new, -1)
    /\ IF new = {} THEN AutoIdle(p)
       ELSE \E added \in SetToSeqs(it.roles \ knownRoles), removed \in SetToSeqs(knownRoles \ it.roles) :
               LET of == IF memberRoles = {} THEN it.roles ELSE memberRoles IN
               automating' = [automating EXCEPT ![p] =
                   Looks(p, events("role_add", added, of) \o events("role_remove", removed, of))]
    /\ UNCHANGED env

(* onGuildMemberAdd after the greeting, onGuildMemberRemove.                 *)
PrimeRoles(p) ==
    /\ automating[p].pc = "prime"
    /\ SwapRoles(p, {})
    /\ automating' = [automating EXCEPT ![p] = Looks(p, <<Event("member_join", NoRole, {}, {})>>)]
    /\ UNCHANGED <<env, owed>>

DropRoles(p) ==
    /\ automating[p].pc = "drop"
    /\ SwapRoles(p, {})
    /\ automating' = [automating EXCEPT ![p] = Looks(p, <<Event("member_leave", NoRole, {}, {})>>)]
    /\ UNCHANGED <<env, owed>>

(* Above automationMaxRoles members everything remembered is thrown away.    *)
ForgetRoles ==
    /\ Fault
    /\ knownRoles' = {} /\ misled' = TRUE
    /\ UNCHANGED <<ruleTable, ruleCache, automating, settled, lastRun, memberRoles, owed, updates, swapped>>

---------------------------------------------------------------------------
(* .automate add, enable, disable and delete: the row, and then, unless that *)
(* failed, the cache.                                                        *)
SaveRule(p) ==
    /\ Called
    /\ automating[p].pc = "idle"
    /\ \E n \in 1..Names :
          \/ /\ ruleTable[n] = NoRule
             /\ \E r \in Rules : r.on /\ Valid(r) /\ ruleTable' = [ruleTable EXCEPT ![n] = r]
          \/ /\ ruleTable[n] # NoRule
             /\ \/ \E on \in BOOLEAN : ruleTable' = [ruleTable EXCEPT ![n].on = on]
                \/ ruleTable' = [ruleTable EXCEPT ![n] = NoRule]
    /\ settled' = FALSE
    /\ automating' = [q \in Proc |-> IF q = p THEN [Unautomated EXCEPT !.pc = "bust"]
                                     ELSE [automating[q] EXCEPT !.sure = FALSE]]
    /\ UNCHANGED <<ruleCache, lastRun, roleVars>>

(* InvalidateAutomationRules                                                 *)
BustRules(p) ==
    /\ automating[p].pc = "bust"
    /\ ruleCache' = [rules |-> Nothing, failed |-> FALSE, at |-> Never]
    /\ settled' = (\A q \in Proc \ {p} : automating[q].pc \notin {"bust", "fill", "fillNone"})
    /\ AutoIdle(p)
    /\ UNCHANGED <<env, ruleTable, lastRun, roleVars>>

RuleTick == Passes /\ UNCHANGED ruleVars

RuleRestart ==
    /\ Fault
    /\ ruleCache' = [rules |-> Nothing, failed |-> FALSE, at |-> Never]
    /\ knownRoles' = {} /\ misled' = TRUE
    /\ automating' = [p \in Proc |-> Unautomated]
    /\ settled' = TRUE
    /\ UNCHANGED <<ruleTable, lastRun, memberRoles, owed, updates, swapped>>

RuleNext ==
    \/ \E p \in Proc : \/ SeePost(p) \/ MemberUpdate(p) \/ MemberJoins(p) \/ MemberLeaves(p)
                       \/ ApplyAutorole(p) \/ UpdateRoles(p) \/ PrimeRoles(p) \/ DropRoles(p)
                       \/ LookForRules(p) \/ QueryRules(p) \/ FillRules(p) \/ RunAutomation(p)
                       \/ SaveRule(p) \/ BustRules(p)
    \/ ForgetRoles \/ RuleTick \/ RuleRestart

RuleSpec == HandlersInit /\ RuleInit /\ [][RuleNext]_<<env, ruleVars>>

---------------------------------------------------------------------------
Tables == [1..Names -> Rules \cup {[r EXCEPT !.on = ~@] : r \in Rules} \cup {NoRule}]

RuleTypeOK ==
    /\ ruleTable \in Tables
    /\ ruleCache \in [rules : Tables, failed : BOOLEAN, at : Time \cup {Never}]
    /\ memberRoles \subseteq RuleRoles /\ knownRoles \subseteq RuleRoles
    /\ \A p \in Proc : LET it == automating[p] IN
          /\ it.pc \in {"idle", "look", "query", "fill", "fillNone", "run", "swap", "autorole", "prime", "drop", "bust"}
          /\ it.pc \in {"look", "query", "fill", "fillNone", "run"} <=> it.events # <<>>
          /\ it.rules \in Tables
    /\ {settled, misled} \subseteq BOOLEAN

Matching(table, e) == {n \in DOMAIN table : IF table[n] = NoRule THEN FALSE ELSE table[n].on /\ Check(table[n], e)}

(* The rules an event fires: of those that match and whose gates, if they    *)
(* have one, admit it, all up to one that stops it.                          *)
Ruled(table, e, admitting) ==
    LET here == {n \in Matching(table, e) : table[n].gated => n \in admitting} IN
    {n \in here : \A m \in here : m < n => "stop" \notin table[m].actions}

(* An event is met by the rules of the table, in their order, if the table   *)
(* does not change meanwhile and every change before had its cache thrown    *)
(* away while nothing else was being loaded or changed: a rule without a     *)
(* gate, and without one before it that matches, fires if and only if it     *)
(* matches and nothing stops the event before; and whatever the gates, no    *)
(* rule fires that does not match or comes after a stop.  A role that comes  *)
(* or goes is one event, as long as updates reach the bot's memory in the    *)
(* order Discord sent them, and it knew the roles before.                    *)
RulesRun ==
    /\ \A x \in lastRun :
          LET here == Matching(x.table, x.event)
              gates == {n \in here : x.table[n].gated}
              plain == {n \in 1..Names : \A m \in gates : n < m}
          IN  /\ x.fired \cap plain = Ruled(x.table, x.event, {}) \cap plain
              /\ x.fired \subseteq Ruled(x.table, x.event, {}) \cup gates
    /\ ~misled /\ (\A p \in Proc : automating[p].pc \notin {"swap", "prime", "drop"}) =>
          \A c \in Change : owed[c] = 0

(* README: cooldowns and counters are conditions of a rule.  Whichever gates *)
(* admit an event, it fires the rules whose conditions are met, up to one    *)
(* that stops it.                                                            *)
GatesDecide ==
    \A x \in lastRun : \E admitting \in SUBSET (1..Names) : x.fired = Ruled(x.table, x.event, admitting)
=============================================================================
