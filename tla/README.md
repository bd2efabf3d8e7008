# Vilicus: specifications, model checks and proofs

Vilicus is a Discord moderation bot with a web dashboard. One process holds the
discordgo session (every event handler runs in its own goroutine), a set of
background sweepers (`sched.Loop`, one goroutine each), an HTTP server (one
goroutine per request) and an SQLite store. Its hard behaviours come from
these goroutines meeting in the database, in Discord and in a few maps in
memory, with calls that fail half way and a process that may stop between any
two of them. This directory holds TLA+ models of that behaviour, the TLC runs
that check them, and TLAPS proofs.

Sections: 1 inventory, 2 plan, 3 modules, 4 runs, 5 bounds, 6 fairness,
7 proofs, 8 findings, 9 what is not modelled.

## 1. Inventory

| Component | State | Operations | Hard behaviour | What makes it correct |
| --- | --- | --- | --- | --- |
| Temporary bans (`tempban.go`, `ban.go`, `scheduled.go`, `sweepers.go`) | Discord's ban list, `mod_cases`, `temp_bans` | `.tempban`, `.ban`, console ban/unban, sweep | three writes per command, two per sweep, no lock between them; failures; restarts | one live row per user, no early lift, every due row is tried and consumed once, no temporary ban without a case |
| Temporary roles (`temprole.go`) | member roles, `temp_roles` | grant, sweep | several rows per role; jail rewrites roles | a granted role ends at its last expiry |
| Reminders (`remind.go`) | `reminders` | create, flush, prune | delivery and mark are two calls | at-least-once, never early |
| Jail (`jail.go`) | member roles, `jail_backups` | jail, unjail | role by role calls, rollback, concurrent commands | no role is lost for good |
| Cases (`cases.go`, `history.go`, `warn.go`, `timeout.go`, `kick.go`) | `mod_cases` | create, deactivate, reason, note | numbering under concurrency, swallowed errors | dense numbers per guild, every action has its case |
| Giveaways (`giveaways.go`, `panels.go`, `component_handlers.go`) | `giveaways`, `giveaway_entries`, panel message | start, enter, draw, reroll | entries straddling the draw, claim then announce, read-modify-write of winners | a fair raffle, announced at most once |
| Command telemetry (`store.go`) | channel, writer buffer, `command_usage_log` | LogCommand, writer, Stop, Close | full channel, failing transactions, shutdown | nothing lost without being counted, nothing reordered |
| Dispatch (`bot.go`, `component_router.go`, `cooldowns.go`) | interaction acknowledgement, token buckets | slash, prefix, component | fast path that falls back, acknowledgements whose reply is lost | every command runs once, or its failure is known |
| Configuration caches (`store.go`, `caches.go`) | TTL caches over `guild_config`, `user_config`, `settings` | get, save, evict | read-miss racing a save, read-modify-write of rows | a cache agrees with the table, or expires |
| Music (`music.go`, `lava/`) | player per guild | play, skip, stop, seek, events, resync, idle sweep | commands racing track events; calls to the node that fail; reconnects | no track lost or played twice, player and node agree |
| Antispam and filter (`protection.go`) | windows, cooldowns, settings cache | message check | two lock sections | one action per burst |
| Antinuke (`antinuke.go`) | scored events per actor | audit-log sweep, punish | time window, cooldown | acts at the threshold, within the window |
| Automation (`automation.go`) | rules, cooldowns, counters, role map | events, intervals | stamping before firing, restarts | gate admits what it should |
| Starboard (`starboard.go`) | `starboard_posts`, cards | react, unreact, configure | count, read, post and record are four steps | one card per message |
| Experience (`levels.go`, `store/xp.go`) | gate map, `user_xp` | message | read then write | no award lost or given twice within the cooldown |
| Polls (`poll.go`) | polls and votes in memory, messages | start, vote, end | message before store, votes read without the lock | the message says what the votes are |
| Hierarchy checks (`hierarchy.go`) | none | compare role positions | - | - |
| Dashboard sessions (`internal/web`, `guildadmins.go`) | sessions with epochs, confirm tokens, lockout records, admins and grants | login, pages, console, admin changes | concurrent requests, revocation, a janitor between two attempts | a token is used once, a revoked right is gone, a lock holds |
| Dashboard handlers (`web/handlers.go`, `configio.go`) | configuration rows | guild form, export, import | whole rows written from what was read | a column says what was last asked for |

Interactions: commands and sweepers meet in the store's tables and in Discord;
the dashboard's console acts on Discord directly; sweepers work on copies of
rows; every component reports to the telemetry channel.

The list of hazards, each at the line where it bites, is in `PROJECT.json`.

## 2. Plan

The project was built in this order, the most important behaviour first; each
module comes with an instance for TLC, and where the table says so with proofs.

| Step | Modules | Run | Proofs |
| --- | --- | --- | --- |
| 1 | `TempBans` refining `DeadlineJobs`, on `Sweeps` | `background`, `temp_bans_race` | `TempBansProofs` |
| 2 | `CommandLog` | `background` | `CommandLogProofs` |
| 3 | `Giveaways` refining `Raffle`, on `Sweeps` | `background`, `giveaways_reroll` | `GiveawaysProofs` |
| 4 | `MemberRoles`, refining `DeadlineJobs` a second time | `member_roles`, `member_roles_release` | `MemberRolesProofs` |
| 5 | `ConfigCache` | `in_memory`, `cache_cap` | `ConfigCacheProofs` |
| 6 | `Music` | `in_memory` | `MusicProofs` |
| 7 | `Antinuke`, `Antispam`, `Automation`, `Dispatch`, `Levels`, `Polls`, `Starboard` on `Handlers`, put together in `MCFeatures` | `bot_features`, `antinuke_window`, `slash_twice`, `automation_gates` | `FeaturesProofs` |
| 8 | `ConfigRows`, `Console`, `Lockout`, `Sessions` on `Handlers`, put together in `MCDashboard` | `dashboard` | `DashboardProofs` |

What would come next: reminders as a third refinement of `DeadlineJobs`, the
effects of automation actions with the rules they trigger in turn, and a fair
specification of `Music`.

## 3. Modules

`DeadlineJobs` is the abstract table of scheduled actions: a job is scheduled
with a deadline, tried only when due, consumed after it was tried, and never
comes back. A job may be consumed untried only while the creator that scheduled
it is at work and withdraws it (`creating`). `.temprole` does that with the row of
a role it could not give; `.tempban` writes its row last and withdraws nothing, so
`TempBans` is mapped with `creating = {}` and cannot consume before it lifts.

`Sweeps` holds what the sweepers share: the clock, the budget of failing calls and
the LIMITed query.

`TempBans` splits `.tempban` into case (`TempBanRecord`), ban
(`TempBanOnDiscord`) or rollback (`TempBanRollback`) and row (`CreateTempBan`),
`.ban` into ban and case, the sweeper into query (`SweepRead`), lift
(`SweepLift`) and mark (`SweepMark`). The partial unique index is the guard of
`CreateTempBan`. A row is keyed by the case number it was created with. The
console's bans and unbans, and those of people in a Discord client, are
single steps. `Crash` kills every goroutine and keeps Discord and the database.

`CommandLog` has the non-blocking send of `LogCommand`, the two loops of the
writer (`Take`, `TickFlush`, `SeeStop`, `DrainEmpty`), the insert transaction
(`Begin`, `ExecRow`, `Commit`) and the shutdown (`Stop`, `Close`, `Exit`). The
buffer is emptied by `FlushReturns`, which all ways out of the insert share.

`Raffle` is the abstract giveaway: closed once and after its end, announced at
most once, winners drawn from a pool that holds everybody who had entered at
the close.

`Giveaways` splits `/giveaway` into row, panel and link, a press of the button
into check and insert, the draw into claim (`MarkGiveawayDrawn`), read and pick
(`ListGiveawayEntries`), save and announce, and `/greroll` into read, pick, save
and announce. Winners and entries are sets: the draw shuffles them.

`MemberRoles` follows one member, since nothing these handlers do to a member
depends on another one. `.jail` is lookup, check, backup (`SaveJailBackup`, an
upsert), the removal of the roles one by one (`JailStrip`), the jail role
(`JailAddRole`) and, when a call fails, the roles given back with errors
ignored and the backup deleted (`JailGiveBack`, `JailGiveUp`). `.unjail` is the
read of the backup, the lookup (with the shortcut that deletes the backup of
somebody who cannot be loaded, `UnjailClear`), the jail role, the roles and the
backup. `.temprole` writes the row, then gives the role, and withdraws the row
if that fails; the sweeper takes the role and consumes the row whether or not
the call succeeded. Around them staff give and take roles, the member leaves
and returns without any, `/config set` and the dashboard's guild form
(`GuildsUpdate`) change whether a jail role is configured, and the process
restarts. Roles the bot may not manage are left alone by the code and absent
here; the jail role is the separate variable `jailed`.

Its history variables say what the member is owed and where the code makes no
promise: `owed` (roles staff gave for good), `lost` (roles a `.jail` that failed
twice did not give back), `stray` (roles nothing is left to take away),
`doubtful` (two commands overlapped on the member, or a failed lookup was taken
for a departure) and `unreleased` (`.unjail` ran without a configured jail role).

`ConfigCache` has a row's versions only: the n-th write stores version n, 0 is
the absence of a row. `GetGuildConfig` and `GetUserConfig` are `ReadMiss` (the
clock is read first, and the expiry is counted from it), `ReadQuery` and
`ReadFill`, which evicts (`Survivors`, arbitrary entries as Go's map order is);
saves are the statement (`SaveRow`) and the map (`SavePut`, no eviction),
deletions likewise. Hits change nothing; `Served` says when there is one.
`left` remembers when each version was replaced, `alone` marks work that met
nobody else on its key, `extra` the keys saves have put into the map since the
last fill.

`Music` is the player of one guild. A player's lock guards its fields and is never held
across a call, so each command is cut at its calls to Lavalink: `MusicPlay` pushes and,
if nothing plays, pops (`PlayPop`), reads the settings (`StartRead`), updates the node
(`StartPush`) and shows the track (`StartShow`); `.skip`, `.stop`, the setters, the end
of a track and the resync after a reconnect are cut the same way. The node plays `lava`;
the connection is `link`; `ended` holds the end events not yet handled; `sent` the voice
pairs the bot tried to send to it, with what became of the write (`SendVoiceUpdate`
reports an error that only a log line reads, `music.go:195`). `doubt` notes the ways in
which the code itself allows player and node to part: `overlap` (another goroutine
began, or a track ended, while one was at work), `refused` (the node did not take a
call), `unheard` (it did, but the answer was an error), `kept` (it went on playing after
a `.stop` that could not reach it). `OnePlace`, `SweptIsEmpty` and `VoiceReaches` do
without it.

`Handlers` is what the small modules share: goroutines, a clock, a budget of
calls from outside (`Called`) and of failures (`Fault`).

`Levels` is the gate in memory, the read and the upsert of `AwardXP`, and the level
function, with `Threshold` as the closed form it is checked against. `Starboard` cuts a
reaction into count, read, post or delete, and the row; a post may reach Discord and
still be an error to the bot, which then records no row. `Antispam` is the way of a
message through trap, filter and burst detector, with the settings' cache and its fill.
`Antinuke` is the watcher: fetch, score, punish; the times of its events are computed as
`snowflakeUnix` computes them, and a sweep that cannot look the owner up spares nobody
for being one. `Dispatch` is the fast path and the deferred path of slash commands and
the bucket of prefix commands; `ack` says what Discord has of a call, since a response
and an acknowledgement may arrive whose replies are lost. `Automation` is the cache of
the rules, the memory of the members' roles and the run of the rules over an event
(`Ruled`, told what a gate admits); a gated rule panics where the code writes to a map
that was never made. `Polls` is the message, the store, the votes, the reading of the
votes outside the lock and the edit.

`ConfigRows` has the rows of one guild: every command is load, save and, for
`guild_config`, the cache after the statement; the dashboard's form has a page
between the two; the import goes section by section and rule by rule.
`Console` is stage, confirm, consume (`LoadAndDelete`) and act. `Lockout` is an
attempt in five steps on a record that may leave the map under it, and a janitor in
three (`SweepFetch` comes to a record as it ranges over the map, `SweepLook` reads it under its
lock, `SweepDrop` deletes the key), with attempts between them. `Sessions` is a
request in four (session, role, token, grant) before its handler, while the tables
change by statements of their own and the epochs are raised after them; the console's
message (`ConsoleOps`) passes the first three and is asked for no grant.

`MCFeatures` and `MCDashboard` run such modules one at a time, picked by the
initial state; `MCBackground` does so with `CommandLog`, `TempBans` and `Giveaways`, and
`MCInMemory` with `ConfigCache` and `Music`. The parts share neither memory nor tables: a
step of one commutes with every step of another, so a joint run would only multiply the
states. What they do share is the clock and the budgets of `Handlers` or `Sweeps`, which
a run spends on one of them.

History variables (these, and `tried`, `early`, `told`, `result`, `named`, `doubt`,
`starDoubt`, `pollDoubt`, `confused`, `misled`, `misused` and the like elsewhere) are
never read by a guard. Each doubt names a way in which the code gives its promise
up; the properties say that there is no other.

## 4. Runs

| Run | Shows |
| --- | --- |
| `background` | of temporary bans the invariants, that no lift is early, and the refinement of `DeadlineJobs` with its liveness, through one failing call and one restart; of the command log no silent loss, order, and settlement of what was queued, through full channels, failing calls and shutdown; of giveaways the refinement of `Raffle` with its liveness, and that rerolls do not run ahead of the draw |
| `member_roles` | no role is lost, nobody is jailed without a backup, no temporary role is left without a row that ends it, and the safety part of `DeadlineJobs`, with one failing call and two moves of others |
| `in_memory` | how stale the configuration caches can be, that only goroutines crossing on one key make them differ from the table, and by how much they outgrow their cap; of music that a track is in one place at most, that a swept player queues nothing, that player and node agree and nothing waits in silence once all is quiet and no doubt was noted, and that the latest voice pair is sent unless its write failed |
| `bot_features` | awards, bursts, audit-log entries, star cards, votes, commands and automation events each counted once, the named races excepted |
| `dashboard` | configuration rows say what was last asked for, a confirmation is carried out once, a lock holds, a revoked right is gone |
| `temp_bans_race`, `giveaways_reroll`, `member_roles_release`, `antinuke_window`, `cache_cap`, `slash_twice`, `automation_gates` | the findings of section 8, one each, the first three with no failure |

## 5. Bounds

Every bound is a constant of its module, or a conjunct of `Next` in an MC module.
`background`, temporary bans: two users and two commands
suffice for every pair of actors to meet on one user and for a second user to
stay out of it; a batch of one makes the sweep leave due rows behind; two cases
allow the second row the index must refuse. `temp_bans_race` needs a third case.
Command log: a channel and batch of two are the smallest that are partly full;
four records overflow both; two faults let a row and its commit both
fail. Giveaways: two members, so that the pool, the places and the winners can
differ; one giveaway (with two giveaways and one member the same properties hold
over 1.1 million states). A clock of two separates before, at and after a deadline; for
giveaways the deadline is at most one and the clock stops there, the end being passed
when it is reached. 265,000 states in all.

`member_roles`: two roles, so that a command can fail between them, and symmetric;
two rows, for a second grant of the same role and for a batch of one to leave a
row behind; two moves, for a departure with a return or a wiped and restored
configuration. One jailer: the code has no lock against overlapping commands
and two of them make `doubtful` true and void the promises. The inductive
invariant of the proofs was also checked with two jailers (2.9 million states)
and with two granters (1.1 million states).

`in_memory`, the caches: two goroutines are enough for a reader to be overtaken by a save,
two saves to reach the map in the wrong order and a reader to fill between a
deletion's two steps; two keys in a cache of one make every fill evict. The
lifetimes 1 and 0 keep the two apart. `BoundedStaleness` is tight: it fails
without the `Lag`. Failing queries and restarts have initial states of their own with a
clock one shorter.

`in_memory`, music: two goroutines, so that a command meets an event; two tracks, so that one
plays while the other waits; two players, for a swept one in somebody's hands; one
command besides plays and one failure. The voice events, two for a pair in either order,
have initial states of their own with one track. 2.4 million states with the caches', up
to the exchange of goroutines and keys. Also checked: two
commands with one player (8.3 million), three tracks (6.1 million), three voice
events (5.3 million). The inductive invariant of the proofs was checked on the same
instance, and by simulation on larger ones.

`bot_features`: two goroutines for every race of two handlers, a clock of three or
four for before, within and after each window (all of which are one or two), one
failure or restart. The window of the antinuke watcher and the fetch limit are small
enough for entries to fall out of both; two rules, for one to stop or to panic
before the other; two polls in the store and a third to make room for; 90
experience, so that an award crosses a level. Between 2,000 (levels) and
300,000 (automation) states per feature. `antinuke_window` uses the same
constants.

`dashboard`: two requests at once; three calls for configuration and sessions,
four for the console and the lockout (two failures lock, a third meets the
lock, one administrator is appointed), with the janitor free to stop between any two of
its steps; a clock of four, so that a record can be idle for longer than its lock
lasts. 930,000 states in all.

All runs but `temp_bans_race` turn the deadlock check off: the process of
the command log really ends, and an idle bot with a bounded clock may have nothing
left to do.

## 6. Fairness

Only the program's own loops are fair. `WF(TempBanSweep)` and `WF(GiveawaySweep)`: `sched.Loop`
arms its timer again after every run of the job, also after a panic. `WF(Writer)`: the writer is
never blocked for good, its ticker fires every 250 ms. Commands, presses of
buttons, the clock and shutdown are under no fairness. `MemberRoles` is checked
for safety only: the liveness of its sweeper is that of `TempBans`, whose loop
has the same shape. `ConfigCache` is about safety too; its one assumption on the
scheduler is that time does not pass a goroutine by for longer than `Lag`
between its save's statement and the map (the code has no wait there but the
lock). Readers and deletions may be delayed for ever. Failing calls and
restarts are finite in number, without which nothing could be promised.

`Music` and the modules on `Handlers` are checked for safety only; where they speak of
an end (`NothingWaits`, `VoiceReaches`, `PollKept`, `RunsAccounted`) they speak of states with
nobody at work, so that a handler that never returns breaks nothing and proves nothing.

## 7. Proofs

`TempBansProofs`: `Invariance`, `CaseKept`, `TypeCorrect`, `SweeperIsNeverEarly`
and `Refinement`, for every value of the constants. The refinement maps no job to one its
creator could withdraw, so it says that a row is consumed after the sweeper tried the
lift, never before. The inductive invariant
adds to the properties what ties a running command to its case and a running
sweep to its row: a command past its INSERT holds the number of a case of its
own that no row has (so that writing the row creates one and overwrites none),
the row in hand is in the batch, and the batch is live and due. The type
invariant needs the lengths of `cases` and the finiteness of the batch and is
proved on top of it.

`CommandLogProofs`: `TypeCorrect`, `NothingLostSilently` and `OrderKept`, for
every channel capacity and batch size. Nothing lost: the invariant `Accounts`
counts the records that are missing, those the open transaction has already
given up included, because they are added to `dropped` only when the flush
returns; `Sizes` says that outside a transaction nothing is given up. Order: the
table, the open transaction, the buffer and the channel are increasing one by
one and each lies below the next (`Order`), and a new record is above all of
them (`Issued`).

`GiveawaysProofs`: `NobodyEarly`, `TypeCorrect` and `Refinement` of `Raffle`'s
safety part. The invariant says what a goroutine may rely on between two calls:
nothing happens to a giveaway before its row exists (`CreatedFirst`), winners
and announcements come after the claim (`ClaimedFirst`), the giveaway in hand is
claimed and not announced and its pool lies between those who had entered at the
claim and those who have entered (`DrawInv`).

`MemberRolesProofs`: `NoRoleLost`, `JailCanBeUndone`, `GrantsHaveRows`, `TypeCorrect`
and `Refinement` of `DeadlineJobs`, for any number of roles, rows and concurrent
commands; the rows a `.temprole` may still withdraw are those it has in hand. `Stands`
says where a lone command is with respect to the backup: while roles are taken the
backup holds exactly what was read from the member, and what is no longer on the member
is in the part already handled; `Alone` says that only one command is at work until
`doubtful`; `Absent` that somebody outside the guild has no roles. For temporary roles,
`Justified` names for each role of the member the live row that will end it, one that no
`.temprole` may still withdraw and that the sweeper has not just tried; a row a
`.temprole` is working on is its own (`GrantInv`).

`ConfigCacheProofs`: `BoundedStale`, `AloneExact`, `Capped` and `TypeCorrect`, for
any keys, goroutines, lifetimes and cap. What a goroutine holds was in the table
at the moment its clock was read, or has been since (`HandInv`); what the map
holds expires one lifetime after its version left the table (`ItemInv`). Those
two carry each other: a fill turns the first into the second, a write of the row
gives the version it replaces the present as the time it left. `LoneInv` says
that two goroutines on one key are not alone and that what a lone one is about
to put is the row; `LoneItemInv` that what it has put stays the row until a
write. The cap: the keys no save has put there since the last fill fit in it
(`CapInv`).

`MusicProofs`: `TracksInOnePlace`, `SweptStayEmpty`, `PlayerInStep`, `QueueIsPlayed`,
`LatestPairSent` and `MusicTypeCorrect`, for any number of goroutines, tracks, players
and commands, all from `MusicInvariance`. `SweptStayEmpty` is about the queue: a command
that still has a swept player in hand may set its current track. Besides the types and
`SweptIsEmpty`, `MusicIInv` has four parts. A track is queued, current or held once
(`Singly`), and all of them have a number that was given out (`Issued`), so that a new
one is nowhere yet; this holds whatever races. No queue therefore outgrows the number of
tracks, as an injection from its positions shows, which the type invariant needs.
`VoiceKnown`: the latest pair was sent, or its write failed (`Tried`), or somebody is
about to send it. `Steady` is the long one: as long as no doubt was noted one goroutine
at most is at work, on the player in the map, and `Phase` says for each place in its
code what it has done and what is left to do (a `.stop` past its first unlock has taken
the current track, a resync holds what is current, a setter has told the node and not
yet the player). A `.stop` that meets nobody may clear earlier doubts, since it leaves
both sides silent; so `Steady` says of a lone one, under doubt too, that it works on the
player in the map or that nothing plays (`Alone`).

`FeaturesProofs` has the features of `MCFeatures`, first each of its own specification:

* `CardKept` (`Starboard`). Until the first doubt one handler at most is at work on the
  card (`Lone`), everybody means one channel (`SameBoard`), and that handler's memory of
  the row is the row (`KnowsCard`); hence a card is only posted when there is none, and
  the one that is deleted is the only one. A post that was an error to the bot and a
  card to Discord is one of the doubts.
* `GuardBurstsApart` (`Antispam`). The window's contents do not matter: any count may be
  a burst. A message on its way to a punishment has set the cooldown, no later mark sets
  it back (`MarksPassed`), and a lone burst that is about to mark is the only one that
  marks, after the cooldown of all earlier ones (`BurstTaken`).
* `AwardsStayKept` (`Levels`). The levels: `Climb` is a recursive function on the
  records `Standing`. The closed form solves its equation, so `Climb` does
  (`ClimbClimbs`), and what it returns pays for its level and not for the next
  (`ClimbArrives`). The induction is over a set of numbers that has 0 and every
  successor (`Reaching`): the library's theorems on recursive functions and induction
  take an operator as a parameter, which the provers cannot instantiate. The awards:
  messages pass the gate a gate's time apart (`GateApart`), so that whoever has read
  the row finds it as it was, or is too late, which `slow` notes.
* `DispatchRunsAccounted` (`Dispatch`). `Accounted` says what has become of a call at
  each place of its goroutine, lost replies of either acknowledgement included: a
  command that did not run is unknown, or the bot was told that it could not be
  acknowledged; the bucket: what ran since a prefix command and what is left in it came
  from a full one or in time since (`Paid`), and a pair of earlier commands is paid for
  since the later one ran (`PaidBetween`).
* `PollsStayKept` (`Polls`). Without doubt one goroutine at most is at work on a message
  and what it read is what the votes are (`PollQuiet`); a poll that was taken out before
  its end left at least a full registry of others that end no sooner (`PollMadeRoom`).
* `EntriesCountOnce` (`Antinuke`). `seenID` divides the log: below it every entry down to
  the base was taken up once (`TakenUp`), and the evidence against somebody is what
  they did and was not weighed yet (`Accused`, `Weighed`).
* `AutomationRulesRun` (`Automation`). The loop over the rules, with its stop and its
  panic, is shown to fire what `Ruled` names up to the first matching rule with a gate,
  where the handler ends (`UntilGate`, `GatesApart`). Whoever is sure of the rules
  in hand has those of the table (`RulesFit`). Roles: there is a history of the
  member's roles, one set per update, in which those not swapped in yet are pending
  and make up for what `owed` says, one by one (`Remembers`).

`DashboardProofs` has those of `MCDashboard`:

* `CarriedOutOnce` (`Console`). A nonce belongs to the tokens that wait, to one
  request that has taken it, or to one deed that was carried out, never to two of
  them (`Single`), and what holds it agrees with what was staged (`Fitting`).
* `RightsHold` (`Sessions`). Three parts per request: what it has passed on its way
  its record still says (`Entitled`), it has seen the role and the grant its user
  has now (`Current`), and the page, the session and the request are dated by the
  epoch (`Behind`): what is old has an earlier epoch than the session has in the
  table, so that its token cannot fit a session fetched since. Of the console's message, which the
  code asks no grant for, it says the role and the page only.
* `LocksHold` (`Lockout`). A record's count are its last failures, all of them since
  `windowStart`, and its lock ends within `LockDuration` of its last touch (`Tracks`),
  which the janitor outwaits (`LockDuration < IdleEvict`), but not between its look and
  its deletion: a record locked while the janitor is on it is dropped with its lock. So
  a lock in force is one the janitor was not at work on, or has not dropped yet
  (`raced`); it is that of the record in the map, and an attempt begun under it has that
  record in hand (`Bound`).
* `RowsStayAsked` (`ConfigRows`). Two handlers on one table put it in doubt, so whoever
  is at work on a table without doubt is alone with it (`Alone`) and what it read is
  what is there (`HasRow`); a cached row is the row, or somebody is about to put it
  (`CacheKnows`). The import replaces rules by name, deletions before insertions: half way
  the table has the old names not deleted yet and the new ones inserted already
  (`Swapping`).

Both modules end with the specification that the runs check. `FeaturesKeep` and
`DashboardKeeps` have all the promises above at once for `MCFeatures!Spec` and
`MCDashboard!Spec`, `FeaturesTypeOK` and `DashboardTypeOK` all the types. The joint
invariants (`FeaturesIInv`, `DashboardIInv`) say that the feature picked at the start
keeps its own invariant and that each of the others is as it began, or keeps what it
promised of a state that no longer changes; `OneMovesOn` that a step of `Next` is a step
of the picked one, by its own next-state relation, and leaves the others alone. Of the
clock and the budgets, which they share, every step makes a call, a failure, a tick
or nothing (`EnvTypes`).

What the types needed beyond the invariants are bounds that no single action shows:

* Stars and cards (`StarBounds`), and the failures a record counts (`LockBounds`): what is
  counted already, with the goroutines that may still count, is no more than the calls
  that began. Goroutines are counted by where they stand (`StandAt`), and `OneMoves`
  says what one goroutine's step does to such a count.
* Runs of a command and entries of its log: `given` says of a call at each place of
  its goroutine how often it ran and was logged already (`DispatchTypesStep`).
* Folds (the times `checkBurst` keeps, the weight of an actor's entries): there is a fold
  over a finite set, and it stays in a type that its step does not leave
  (`FoldExists`, `FoldTyped`). These are inductions, done as with `Climb` over a set of
  sizes that has 0 and every successor.
* Polls: the registry makes room before it takes a poll in, so it holds at most
  `maxActivePolls` of them.
* The console dates a deed by its own clock and takes the number of a token that was
  given out (`ConsoleBounds`); no session has the number nought, which is drawn for none
  (`Numbered`).

In all eight modules the constants are arbitrary up to the named assumptions of the
modules they are about, and the step lemmas, one per action, are combined in one
lemma on `[Next]_vars`. Two of the assumptions are there for the types alone: the
threshold of an antinuke row is a natural number (`SaveAntinukeConfig` keeps it between
20 and 1000), and the roles a member may have are finitely many (an update raises its
events in some order of the roles, which only a finite set has).

Every invariant of a passing run is thus a theorem. Only model-checked: everything
under fairness (`RefinesDeadlineJobs` of `TempBans` and `RefinesRaffle` contain a
liveness part whose safety part is proved, `QueuedIsSettled`), which is out of the
prover's reach; and the runs that show a violation.

## 8. Findings

* `temp_bans_race`: `.tempban` answers "they already had an active tempban
  scheduled - the earliest expiry wins" (`tempban.go:148`) on the strength of a
  row the sweeper has already acted on and is about to consume. The user
  stays banned with no unban scheduled.
* `giveaways_reroll`: README lines 67 and 136 say that rerolls exclude previous
  winners. `RerollGiveaway` writes back the winners it read at its start, so
  overlapping draws and rerolls erase one another's winners and a later reroll
  announces somebody again.
* `member_roles_release`: README line 103 says that `.unjail` "removes the jail
  role and restores the saved role set". The dashboard's guild form saves a
  configuration without a jail role (`web/handlers.go:99`); `.unjail` then
  skips the removal (`jail.go:300`), deletes the backup and reports a release,
  and the member keeps the jail role.
* `antinuke_window`: README line 108 promises "sliding-window scoring per admin".
  `snowflakeUnix` (`helpers.go:34`) adds the epoch in seconds to the
  milliseconds of an ID; the times of the events lie far in the future and
  `Score` never drops one, so that whoever has ever reached the threshold since
  the start is punished.
* `cache_cap`: README line 224 gives the guild and user configuration caches "size caps
  (10k / 50k entries)". Only the fills evict before they insert; `SaveGuildConfig` and
  `SaveUserConfig` insert without (`store.go:581`), so the map outgrows its cap by every
  key saved since the last fill. `CacheBounded` says that it does so by no more.
* `slash_twice`: README line 221 says that a command "executes exactly once" on either
  path. A fast-path command whose answer is refused is run again by the slow path
  (`bot.go:380`). `RunsAccounted` says that this is the only way to a
  second run.
* `automation_gates`: README line 137 promises "per-user cooldowns and N-per-window
  counters" of automation rules. The two maps are never made (`bot.go:57-58`), so the gate
  panics (`automation.go:44`); the rule never fires, and no rule behind it is tried.
  `RulesRun` is about the events that reach no gate, and about what fired before one.

Behaviour met while modelling that no text contradicts: a permanent `.ban` leaves
an older `temp_bans` row live, and the sweeper lifts the permanent ban when
it falls due; a giveaway whose process stops between claim and announcement is
never announced; records still queued when `main` returns are lost uncounted. In the
jail commands: any failure to load the member makes `.unjail` delete the backup
(`jail.go:294`), two `.jail` commands on one member can delete the backup the
other relies on, a `.jail` that fails twice loses a role, the backup of a member
without roles stays when the jail role could not be given (`jail.go:182`) and
makes the next `.jail` answer that they are jailed already, and a temporary role
that expires in jail comes back with `.unjail` for good. The temporary-role
sweeper consumes its row although the role could not be taken.

Differences from a text of the repository that have no run of their own:

* README line 112 lets moderators "or anyone in the player's voice channel"
  control music; `CanControlMusic` accepts any voice channel.
* README line 133 says that "dropping back under it removes the post"; the card
  goes only when no star is left (`starboard.go:84`).
* README line 106 names the antilink modes `mods` and `on`; both spare moderators
  and nobody else (`protection.go:207-217`).

Behaviour that no text contradicts, by module:

* `Music`: skip against play leaves a queue that waits; a late end event takes
  the new track; a voice update whose write to the node fails is not sent again until the
  next event or resync (`music.go:195`); a playlist put on top has only its first track ahead.
* `Starboard`: a card deleted by hand is never posted again; one whose post was answered
  with an error stays without a row, and the next reaction posts another.
* `Antispam`: of the commands only the honeypot's throw the cached settings away;
  an unreadable row reads as no protection for 15 seconds; the timeout of a burst
  (a minute) is shorter than the cooldown (two); the cooldown stays when the
  punishment fails.
* `Antinuke`: the first fetch that is not empty is the base line and is not scored,
  after every restart too; when the guild's owner cannot be looked up
  (`antinuke.go:230-242`) the owner is scored like anybody else.
* `Automation`: after a restart the first update of a member raises role_add
  for all roles; a list of roles that is out of date may replace a newer
  one (`automation.go:123`).
* `Dispatch`: a prefix command's permission check passes when the member cannot be
  loaded; a slow command whose acknowledgement reached Discord but was an error to the bot
  (`bot.go:381-389`) never runs, and its user is left with Discord's "thinking".
* `Polls`: votes are read without their lock (`poll.go:112`), two at once can end the
  process; a vote between message and store is refused.
* `ConfigRows`: `.protect` on a row it could not read writes defaults over every
  column (`protect.go:474-498`); `.prefix set` panics on a row it could not
  read; the guild form empties the jail role; the import is no transaction, and
  leaves antinuke out.
* `Console`: the confirmation binds neither the reason nor the session; a message goes to
  any channel the bot can write to for every admin, without the grant for its guild that
  ban, kick and unban need (`handlers.go:360-366`, `477-495`).
* `Sessions`: a seeded administrator demoted by a row is superadmin for a request
  whose role query fails; when that query fails for anybody else their
  session is deleted; a second DELETE of `DeleteAdmin` that fails leaves the grants
  and raises no epoch; errors of the raising are ignored.
* `Lockout`: a lock on a record that was cleared between its fetch and its count is
  seen by nobody; the janitor unlocks a record between looking at it and deleting it
  (`lockout.go:78-83`), and one that failing attempts lock in that gap goes with its lock
  (it takes a record idle for half an hour and five failures within the gap).
  `LockHolds` says that no other lock is lifted.

## 9. Not modelled

`PROJECT.json` gives every component its status and its reason. In short:

* Reminders: read, send and mark in the order of the temporary roles' sweeper; what
  could be said is said by `DeadlineJobs`.
* Hierarchy checks: a pure comparison of positions; whatever they guard may be
  refused in the modules.
* Of the cases: `.warn`, `.kick`, `.timeout`, `.case`, `.casenote`, `.reason`, one write
  of a row the bot does not act on again.
* Of music: seek and positions (they never decide what plays), `MusicLeave`
  (nothing calls it), queue pages, the search.
* Of dispatch: modals, panic recovery. Of automation: what actions do to the
  guild, the interval sweep. Of levels: the roles bound to them, the leaderboard.
* Of the dashboard: rate limits per address, the OAuth exchange, the expiry of a
  session as a time (`Logout` stands for it), read-only pages, maintenance.
* Rendering, lookups, analytics, logging, start-up configuration and the migration
  script have no behaviour over time worth a model; the constraints of the
  schema appear where a module relies on them.
