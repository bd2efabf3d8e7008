SPECIFICATION Spec
CONSTANTS
    Never = Never
    Proc = {p1, p2}
    MaxTime = 3
    MaxCalls = 4
    MaxFaults = 1
    Actor = {"a", "owner"}
    Owner = "owner"
    Self = "self"
    Deeds <- MCDeeds
    AntinukeRows <- MCAntinukeRows
    FetchLimit = 2
    ScoreWindow = 1
    PunishCooldown = 2
    SinceEpoch = 1000
    Messages <- MCMessages
    GuardRows <- MCGuardRows
    NoRow = NoRow
    Window = 1
    SpamCooldown = 2
    TrapCooldown = 1
    GuardTTL = 1
    TokenCost = 2
    TokenCap = 1
    Names = 2
    Rules <- MCRules
    RuleTables <- MCRuleTables
    Posts = {{}, {"link"}}
    RuleRoles = {"r"}
    AutoRole = "r"
    NoRole = "none"
    NoRule = NoRule
    RuleTTL = 1
    GateTTL = 2
    XPCooldown = 2
    Amounts = {15, 25}
    StartXP = {0, 90}
    Voter = {"u", "v"}
    Option = {1, 2}
    Lasts = {1, 2}
    MaxActive = 2
    ButtonGrace = 1
    NoVote = 0
    StarConfigs <- MCStarConfigs
INVARIANTS TypeOK AwardsKept BurstsApart EntriesOnce OneCard PollKept RunsAccounted RulesRun
SYMMETRY AnyProc
CHECK_DEADLOCK FALSE
