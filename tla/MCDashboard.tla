----------------------------- MODULE MCDashboard -----------------------------
(* Parts of the administration that share no state but the database's        *)
(* failures, each run on its own from an initial state that picks it.        *)
EXTENDS ConfigRows, Console, Lockout, Sessions, TLC

VARIABLE feature

MCColumns == [guild |-> {"prefix", "jail_role"}, protection |-> {"msgs", "trap", "word"}, antinuke |-> {"score", "friend"},
              starboard |-> {"channel", "threshold", "enabled"}, rules |-> {"a", "b"}]
Limits(of) == [c \in Column |-> IF c \in DOMAIN of THEN of[c] ELSE 0]
MCLow == Limits([prefix |-> 1, msgs |-> 3, score |-> 2, threshold |-> 1])
MCHigh == [c \in Column |-> IF c \in {"msgs", "score", "threshold"} THEN 5 ELSE 9]
MCDefault == Limits([prefix |-> 1, msgs |-> 4, score |-> 4, threshold |-> 3])
MCStartRows ==
    {[t \in Table |-> IF t \in {"protection", "starboard"} THEN NoRow
                     ELSE [c \in Columns[t] |-> IF c \in {"jail_role", "friend", "a"} THEN 1 ELSE MCDefault[c]]]}

MCStartAdmins ==
    {[roles |-> [root |-> NoRoleRow, mod |-> "admin"], grants |-> {"mod"}],
     [roles |-> [root |-> "viewer", mod |-> "superadmin"], grants |-> {}]}

AnyProc == Permutations(Proc)

Init ==
    /\ feature \in {"config", "console", "lockout", "sessions"}
    /\ HandlersInit /\ ConfigInit /\ ConsoleInit /\ LockInit /\ SessionsInit
    /\ feature # "config" => rows = CHOOSE r \in StartRows : TRUE
    /\ feature # "lockout" => isAdmin = FALSE
    /\ feature # "sessions" => guildAdmins = {}

Next ==
    /\ \/ feature = "config" /\ ConfigNext /\ UNCHANGED <<consoleVars, lockVars, sessionVars>>
       \/ feature = "console" /\ ConsoleNext /\ UNCHANGED <<configVars, lockVars, sessionVars>>
       \/ feature = "lockout" /\ LockNext /\ UNCHANGED <<configVars, consoleVars, sessionVars>>
       \/ feature = "sessions" /\ SessionsNext /\ UNCHANGED <<configVars, consoleVars, lockVars>>
    /\ calls' <= (CASE feature = "config" -> 3 [] feature = "sessions" -> 3 [] OTHER -> 4)
    /\ UNCHANGED feature

Spec == Init /\ [][Next]_<<feature, env, configVars, consoleVars, lockVars, sessionVars>>

TypeOK == HandlersTypeOK /\ ConfigTypeOK /\ ConsoleTypeOK /\ LockTypeOK /\ SessionsTypeOK
=============================================================================
