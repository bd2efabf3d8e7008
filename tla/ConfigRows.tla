----------------------------- MODULE ConfigRows -----------------------------
(***************************************************************************)
(* The configuration of one guild: a row in each of four tables and the    *)
(* automation rules.  Commands read a row, change some of its columns and  *)
(* write all of them back; the dashboard does the same with a page in      *)
(* between, and exports and imports everything as a file.  guild_config is *)
(* read and written through a cache, put in after the statement itself.    *)
(* What rules say is the business of Automation: here a rule is a column   *)
(* that is 1 if there is a rule of that name.  Texts and channels are      *)
(* numbers, 0 when they are empty.                                         *)
(***************************************************************************)
EXTENDS Handlers, Sequences

CONSTANTS Columns,            \* the columns of each table
          Low, High, Default, \* of each column: what the save clamps it to, and what it is
                              \* when there is no row
          Values,             \* what commands ask for
          StartRows,          \* what the tables may say to begin with
          NoRow

Table == {"guild", "protection", "antinuke", "starboard", "rules"}
Column == UNION {Columns[t] : t \in Table}

(* What a Save function, or the two statements about a rule, leave behind.   *)
SavedRow(t, row) ==
    /\ row \in [Columns[t] -> Nat]
    /\ \A c \in Columns[t] : row[c] \in IF t = "rules" THEN {0, 1} ELSE Low[c]..High[c]

ASSUME ConfigAssumption ==
    /\ DOMAIN Columns = Table /\ Columns["starboard"] = {"channel", "threshold", "enabled"}
    /\ {"prefix", "jail_role"} \subseteq Columns["guild"]
    /\ {"trap", "word"} \subseteq Columns["protection"] /\ "friend" \in Columns["antinuke"]
    /\ Values \subseteq Nat
    /\ \A c \in Column : /\ {Low[c], High[c], Default[c]} \subseteq Nat
                         /\ Low[c] <= Default[c] /\ Default[c] <= High[c]
    /\ \A r \in StartRows : /\ DOMAIN r = Table /\ r["rules"] # NoRow
                            /\ \A t \in Table : r[t] = NoRow \/ SavedRow(t, r[t])
    /\ \A t \in Table : NoRow \notin [Columns[t] -> Nat]

VARIABLES
    rows,         \* what each table says of the guild
    guildCache,   \* cfgCache of the guild
    bundle,       \* the file the last export made, a section for each row it found
    configuring,  \* where each goroutine stands
    wanted,       \* history: what the last commands asked for, column by column
    confused      \* history: why a table may say something else

configVars == <<rows, guildCache, bundle, configuring, wanted, confused>>

Defaults(t) == [c \in Columns[t] |-> Default[c]]
Stored(t) == IF rows[t] = NoRow THEN Defaults(t) ELSE rows[t]

Unconfigured == [pc |-> "idle", table |-> "guild", set |-> <<>>, row |-> NoRow,
                 busy |-> {}, left |-> <<>>, old |-> {}, new |-> {}]

ConfigInit ==
    /\ rows \in StartRows
    /\ guildCache = NoRow
    /\ bundle = [t \in Table |-> NoRow]
    /\ configuring = [p \in Proc |-> Unconfigured]
    /\ wanted = [t \in Table |-> Stored(t)]
    /\ confused = [t \in Table |-> {}]

ConfigIdle(p) == configuring' = [configuring EXCEPT ![p] = Unconfigured]
ConfigGoto(p, pc) == configuring' = [configuring EXCEPT ![p].pc = pc]
Confuse(t, why) == confused' = [confused EXCEPT ![t] = @ \cup {why}]

---------------------------------------------------------------------------
\* Mutant: what is too large is kept.
ClampLow(c, v) == IF v < Low[c] THEN Low[c] ELSE v

(* What the Save functions of the store do to a value.                       *)
Clamp(c, v) == IF v < Low[c] THEN Low[c] ELSE IF v > High[c] THEN High[c] ELSE v

Clamped(row) == [c \in DOMAIN row |-> Clamp(c, row[c])]

(* A handler starts on some tables; that others are busy with one of them is *)
(* remembered.                                                               *)
Enters(p, tables) ==
    /\ Called
    /\ configuring[p].pc = "idle"
    /\ confused' = [t \in Table |->
          IF t \in tables /\ \E q \in Proc \ {p} : t \in configuring[q].busy
          THEN confused[t] \cup {"crossed"} ELSE confused[t]]

Starts(p, it) == Enters(p, it.busy) /\ configuring' = [configuring EXCEPT ![p] = it]

(* A command that sets columns of a table, given as a function, is called.   *)
Only(c, v) == [x \in {c} |-> v]
Over(set, row) == [c \in DOMAIN row |-> IF c \in DOMAIN set THEN set[c] ELSE row[c]]

Asks(p, pc, t, set) ==
    /\ Starts(p, [Unconfigured EXCEPT !.pc = pc, !.table = t, !.set = set, !.busy = {t}])
    /\ UNCHANGED <<rows, guildCache, bundle, wanted>>

AsksOne(p, t, cs) == \E c \in cs, v \in Values : Asks(p, "load", t, Only(c, v))
AsksList(p, t, c) == \E in \in {0, 1} : Asks(p, "load", t, Only(c, in))

(* config set; .prefix set, which panics when the row cannot be read.        *)
SetGuildConfig(p) == AsksOne(p, "guild", Columns["guild"])
SetServerPrefix(p) == AsksOne(p, "guild", {"prefix"})
(* A prefix is looked up for a message: only read.                           *)
ResolvePrefix(p) == Asks(p, "load", "guild", <<>>)

(* .protect, as a slash command and as a prefix command; honeypot and filter *)
(* words; .protect antinuke and its whitelist.                               *)
SetProtection(p) == AsksOne(p, "protection", Columns["protection"] \cap {"msgs"})
SetHoneypot(p) == AsksList(p, "protection", "trap")
SetFilter(p) == AsksList(p, "protection", "word")
SetAntinuke(p) == AsksOne(p, "antinuke", Columns["antinuke"] \cap {"score"})
SetWhitelist(p) == AsksList(p, "antinuke", "friend")

StarboardOff(p) == Asks(p, "load", "starboard", Only("enabled", 0))
(* .starboard set writes a row of its own, without reading.                  *)
StarboardSet(p) ==
    \E v \in Values \cup {3} :
       /\ Starts(p, [Unconfigured EXCEPT !.pc = "save", !.table = "starboard", !.busy = {"starboard"},
                        !.set = [channel |-> 1, threshold |-> v, enabled |-> 1],
                        !.row = Defaults("starboard")])
       /\ UNCHANGED <<rows, guildCache, bundle, wanted>>

---------------------------------------------------------------------------
(* Nothing is written: a word that is filtered already, a board that is off, *)
(* a reader.                                                                 *)
NothingToDo(it, row) ==
    \/ DOMAIN it.set = {}
    \/ "word" \in DOMAIN it.set /\ it.set["word"] = 1 /\ row["word"] = 1
    \/ it.table = "starboard" /\ row["enabled"] = 0

Loaded(p, row) ==
    LET it == configuring[p] IN
    configuring' = [configuring EXCEPT ![p] =
        IF it.left # <<>> THEN
           [it EXCEPT !.pc = "export", !.busy = {}, !.row = [t \in Table |-> IF t = "guild" THEN row ELSE NoRow]]
        ELSE IF NothingToDo(it, row) THEN Unconfigured ELSE [it EXCEPT !.pc = "save", !.row = row]]

(* GetGuildConfig, through the cache, and the other Get functions.           *)
LoadRow(p) ==
    LET it == configuring[p] IN
    /\ it.pc = "load"
    /\ \/ it.table = "guild" /\ guildCache # NoRow /\ Loaded(p, guildCache)
       \/ /\ it.table = "guild" /\ guildCache = NoRow
          /\ configuring' = [configuring EXCEPT ![p].pc = "fill", ![p].row = Stored("guild")]
       \/ it.table # "guild" /\ Loaded(p, Stored(it.table))
    /\ UNCHANGED <<env, rows, guildCache, bundle, wanted, confused>>

(* .protect takes any error for a guild without settings; the others stop.   *)
LoadFails(p) ==
    LET it == configuring[p] IN
    /\ it.pc = "load"
    /\ it.table # "guild" \/ guildCache = NoRow
    /\ Fault
    /\ IF it.table \in {"protection", "antinuke"}
       THEN /\ Loaded(p, Defaults(it.table))
            /\ IF rows[it.table] # NoRow THEN Confuse(it.table, "defaults") ELSE UNCHANGED confused
       ELSE ConfigIdle(p) /\ UNCHANGED confused
    /\ UNCHANGED <<rows, guildCache, bundle, wanted>>

FillGuild(p) ==
    /\ configuring[p].pc = "fill"
    /\ guildCache' = configuring[p].row
    /\ Loaded(p, configuring[p].row)
    /\ UNCHANGED <<env, rows, bundle, wanted, confused>>

\* Mutant: a column that is not set goes back to what it is without a row.
ChangedAlone(it) == Over(it.set, Defaults(it.table))

Changed(it) == Over(it.set, it.row)

(* The Save functions: one statement for all columns.                        *)
SaveRow(p) ==
    LET it == configuring[p] IN
    /\ it.pc = "save"
    /\ \/ /\ rows' = [rows EXCEPT ![it.table] = Clamped(Changed(it))]
          /\ wanted' = [wanted EXCEPT ![it.table] = Over(Clamped(it.set), wanted[it.table])]
          /\ IF it.table = "guild"
             THEN configuring' = [configuring EXCEPT ![p].pc = "cache", ![p].row = rows'["guild"]]
             ELSE ConfigIdle(p)
          /\ UNCHANGED env
       \/ Fault /\ ConfigIdle(p) /\ UNCHANGED <<rows, wanted>>
    /\ UNCHANGED <<guildCache, bundle, confused>>

CacheGuild(p) ==
    /\ configuring[p].pc = "cache"
    /\ guildCache' = configuring[p].row
    /\ ConfigIdle(p)
    /\ UNCHANGED <<env, rows, bundle, wanted, confused>>

ExpireGuild ==
    /\ guildCache # NoRow
    /\ guildCache' = NoRow
    /\ UNCHANGED <<env, rows, bundle, configuring, wanted, confused>>

---------------------------------------------------------------------------
(* handleGuilds: a page with a form for the row; and the form sent back with *)
(* a column changed.  It has no field for the jail role.                     *)
GuildPage(p) ==
    /\ Starts(p, [Unconfigured EXCEPT !.pc = "page", !.row = Stored("guild"), !.busy = {"guild"}])
    /\ UNCHANGED <<rows, guildCache, bundle, wanted>>

GuildForm(p) ==
    /\ configuring[p].pc = "page"
    /\ \E v \in Values :
          configuring' = [configuring EXCEPT ![p].pc = "save", ![p].row["jail_role"] = 0, ![p].set = Only("prefix", v)]
    /\ IF configuring[p].row["jail_role"] # 0 THEN Confuse("guild", "form") ELSE UNCHANGED confused
    /\ UNCHANGED <<env, rows, guildCache, bundle, wanted>>

(* The page is closed.                                                       *)
GuildPageLeft(p) ==
    /\ configuring[p].pc = "page"
    /\ ConfigIdle(p)
    /\ UNCHANGED <<env, rows, guildCache, bundle, wanted, confused>>

(* .automate add and delete: a statement each.                               *)
AutomateRule(p) ==
    /\ \E n \in Columns["rules"], v \in {0, 1} :
          /\ rows["rules"][n] # v
          /\ rows' = [rows EXCEPT !["rules"][n] = v]
          /\ wanted' = [wanted EXCEPT !["rules"][n] = v]
    /\ Enters(p, {"rules"})
    /\ UNCHANGED <<guildCache, bundle, configuring>>

---------------------------------------------------------------------------
Section(file, t) == IF file[t] = NoRow THEN <<>> ELSE <<t>>
Present(file) == Section(file, "guild") \o Section(file, "protection") \o Section(file, "starboard") \o Section(file, "rules")

(* ExportGuildBundle: one section after the other, each as it is when it is  *)
(* read.  The antinuke row has no section.                                   *)
ExportGuild(p) ==
    /\ Starts(p, [Unconfigured EXCEPT !.pc = "load", !.busy = {"guild"}, !.left = <<"protection", "starboard", "rules">>])
    /\ UNCHANGED <<rows, guildCache, bundle, wanted>>

ExportSection(p) ==
    LET it == configuring[p]
        row == [it.row EXCEPT ![Head(it.left)] = rows[Head(it.left)]]
    IN
    /\ it.pc = "export"
    /\ \/ /\ IF Len(it.left) = 1 THEN bundle' = row /\ ConfigIdle(p)
             ELSE /\ configuring' = [configuring EXCEPT ![p].row = row, ![p].left = Tail(it.left)]
                  /\ UNCHANGED bundle
          /\ UNCHANGED env
       \/ Fault /\ ConfigIdle(p) /\ UNCHANGED bundle
    /\ UNCHANGED <<rows, guildCache, wanted, confused>>

(* ImportGuildBundle: section after section, and no way back.                *)
ImportGuild(p) ==
    /\ bundle["guild"] # NoRow
    /\ Starts(p, [Unconfigured EXCEPT !.pc = "import", !.row = bundle, !.left = Present(bundle),
                     !.busy = {t \in Table : bundle[t] # NoRow}])
    /\ UNCHANGED <<rows, guildCache, bundle, wanted>>

ImportSection(p) ==
    LET it == configuring[p]
        t == Head(it.left)
    IN
    /\ it.pc = "import" /\ t # "rules"
    /\ \/ /\ rows' = [rows EXCEPT ![t] = Clamped(it.row[t])]
          /\ wanted' = [wanted EXCEPT ![t] = Clamped(it.row[t])]
          /\ configuring' = [configuring EXCEPT ![p].left = Tail(it.left), ![p].pc = IF t = "guild" THEN "importCache" ELSE "import"]
          /\ UNCHANGED env
       \/ Fault /\ ConfigIdle(p) /\ UNCHANGED <<rows, wanted>>
    /\ UNCHANGED <<guildCache, bundle, confused>>

ImportCache(p) ==
    /\ configuring[p].pc = "importCache"
    /\ guildCache' = Clamped(configuring[p].row["guild"])
    /\ ConfigGoto(p, "import")
    /\ UNCHANGED <<env, rows, bundle, wanted, confused>>

Named(rules) == {n \in Columns["rules"] : rules[n] = 1}

(* hasAutomationRules takes an error for no rules.                           *)
ListRules(p) ==
    LET it == configuring[p] IN
    /\ it.pc = "import" /\ it.left = <<"rules">>
    /\ \/ /\ configuring' = [configuring EXCEPT ![p].pc = "replace", ![p].old = Named(rows["rules"]),
                                                 ![p].new = Named(it.row["rules"])]
          /\ UNCHANGED env
       \/ Fault /\ ConfigIdle(p)
    /\ UNCHANGED <<rows, guildCache, bundle, wanted, confused>>

(* The rules there are go and those of the file come, each by a statement    *)
(* that fails when the rule is gone, or there, already.                      *)
ReplaceRule(p, n, there) ==
    IF rows["rules"][n] = there
    THEN /\ rows' = [rows EXCEPT !["rules"][n] = 1 - there]
         /\ configuring' = [configuring EXCEPT ![p].old = @ \ {n}, ![p].new = IF there = 1 THEN @ ELSE @ \ {n}]
         /\ UNCHANGED confused
    ELSE ConfigIdle(p) /\ Confuse("rules", "partial") /\ UNCHANGED rows

ReplaceRules(p) ==
    LET it == configuring[p] IN
    /\ it.pc = "replace" /\ it.old \cup it.new # {}
    /\ \/ \E n \in it.old : ReplaceRule(p, n, 1) /\ UNCHANGED env
       \/ it.old = {} /\ (\E n \in it.new : ReplaceRule(p, n, 0)) /\ UNCHANGED env
       \/ Fault /\ ConfigIdle(p) /\ Confuse("rules", "partial") /\ UNCHANGED rows
    /\ UNCHANGED <<guildCache, bundle, wanted>>

ImportDone(p) ==
    LET it == configuring[p] IN
    /\ it.pc = "replace" /\ it.old \cup it.new = {}
    /\ wanted' = [wanted EXCEPT !["rules"] = it.row["rules"]]
    /\ ConfigIdle(p)
    /\ UNCHANGED <<env, rows, guildCache, bundle, confused>>

ConfigRestart ==
    /\ Fault
    /\ guildCache' = NoRow
    /\ IF \E p \in Proc : configuring[p].pc = "replace" THEN Confuse("rules", "partial") ELSE UNCHANGED confused
    /\ configuring' = [p \in Proc |-> Unconfigured]
    /\ UNCHANGED <<rows, bundle, wanted>>

ConfigNext ==
    \/ \E p \in Proc : \/ SetGuildConfig(p) \/ SetServerPrefix(p) \/ ResolvePrefix(p)
                       \/ SetProtection(p) \/ SetHoneypot(p) \/ SetFilter(p)
                       \/ SetAntinuke(p) \/ SetWhitelist(p) \/ StarboardSet(p) \/ StarboardOff(p)
                       \/ LoadRow(p) \/ LoadFails(p) \/ FillGuild(p) \/ SaveRow(p) \/ CacheGuild(p)
                       \/ GuildPage(p) \/ GuildForm(p) \/ GuildPageLeft(p) \/ AutomateRule(p)
                       \/ ExportGuild(p) \/ ExportSection(p) \/ ImportGuild(p) \/ ImportSection(p)
                       \/ ImportCache(p) \/ ListRules(p) \/ ReplaceRules(p) \/ ImportDone(p)
    \/ ExpireGuild \/ ConfigRestart

ConfigSpec == HandlersInit /\ ConfigInit /\ [][ConfigNext]_<<env, configVars>>

---------------------------------------------------------------------------
ConfigTypeOK ==
    /\ \A t \in Table : /\ rows[t] = NoRow \/ SavedRow(t, rows[t])
                        /\ bundle[t] = NoRow \/ SavedRow(t, bundle[t])
                        /\ wanted[t] \in [Columns[t] -> Nat]
    /\ guildCache = NoRow \/ SavedRow("guild", guildCache)
    /\ \A p \in Proc : LET it == configuring[p] IN
          /\ it.pc \in {"idle", "load", "fill", "save", "cache", "page", "export", "import", "importCache", "replace"}
          /\ it.table \in Table /\ it.busy \subseteq Table /\ it.left \in Seq(Table)
          /\ it.old \cup it.new \subseteq Columns["rules"]
          /\ it.pc = "idle" => it = Unconfigured
    /\ confused \in [Table -> SUBSET {"crossed", "defaults", "form", "partial"}]

(* Commands write whole rows from what they have read, through a cache that  *)
(* is filled later than it is read.  Each table says, column by column, what *)
(* the last commands asked for, within its limits, unless two handlers were  *)
(* at work on it at once, .protect could not read its row, the form of the   *)
(* dashboard emptied the jail role, or an import stopped among the rules.    *)
ConfigKept ==
    \A t \in Table :
        confused[t] = {} /\ ~(t = "rules" /\ \E p \in Proc : configuring[p].pc = "replace")
            => Stored(t) = wanted[t]
=============================================================================
