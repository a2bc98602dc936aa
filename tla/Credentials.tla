----------------------------- MODULE Credentials -----------------------------
(***************************************************************************)
(* Which process may hold which secret (credentials.py, config.py), what    *)
(* the runner gives a seat (agents/runner.py), and the key the treasurer's  *)
(* own process signs with (treasurer/sign.py).                              *)
(*                                                                         *)
(* A host has the shell's variables, `.env`, and, if the operator has split *)
(* them, `.env.treasurer`; a command may name another file for its          *)
(* treasurer.  An environment is a function from names to values; a file is *)
(* its lines, in order.  "" is a variable that is set to nothing.           *)
(***************************************************************************)
EXTENDS Integers, Sequences, FiniteSetsExt, TLC

CONSTANT Public  \* the public half of each value that is an ed25519 seed

(* credentials.CREDENTIALS, with the roles that may hold each.              *)
UsedBy ==
  [BANKR_KEY_READ   |-> {"analyst"},
   BANKR_KEY_EXEC   |-> {"treasurer"},
   BANKR_LLM_KEY    |-> {"analyst"},
   RPC_4663_MAINNET |-> {"analyst", "treasurer"},
   RPC_4663_TESTNET |-> {"analyst", "treasurer"},
   SIGNING_KEY      |-> {"treasurer"}]

Transacting == {"BANKR_KEY_EXEC"}

ForRole(role) == {n \in DOMAIN UsedBy : role \in UsedBy[n]}

(* config.parse_env_file: the last line of a name is its value; one that is *)
(* a comment, or has no name, is skipped.                                   *)
ParseEnv(file) ==
  LET of(n) == {k \in DOMAIN file : file[k].name = n}
  IN  [n \in {file[k].name : k \in DOMAIN file} \ {""} |->
         file[Max(of(n))].value]

(* What is set, to nothing or not, is never overridden by a file.           *)
Merged(env, file) == env @@ ParseEnv(file)

Value(env, n) == IF n \in DOMAIN env THEN env[n] ELSE ""

(* The runner's own environment: the shell's, then `.env`.                  *)
Environ(host) == Merged(host.shell, host.dotenv)

(* config.load: what a role holds of an environment.                        *)
HeldBy(role, env) == {n \in ForRole(role) : Value(env, n) # ""}

(* config._refuse_leaked_spend_authority: a value the role holds is one     *)
(* that can transact, and that it may not hold.                             *)
Leaked(role, env) ==
  \E s \in Transacting \ ForRole(role), n \in HeldBy(role, env) :
     Value(env, s) = Value(env, n)

(* Config.secret, of a configuration that loaded.                           *)
Secret(role, n, env) == ~Leaked(role, env) /\ n \in HeldBy(role, env)

(* decide._analyst_secret: read from the environment, with no such check.   *)
AnalystSecret(n, env) == n \in ForRole("analyst") /\ Value(env, n) # ""

(* runner.refuse_spend_authority: a seat's key is set, and neither the name *)
(* nor the value of a credential that is not the analyst's.                 *)
SeatKey(variable, env) ==
  LET forbidden == DOMAIN UsedBy \ ForRole("analyst")
  IN  /\ Value(env, variable) # "" /\ variable \notin forbidden
      /\ \A n \in forbidden : Value(env, n) # Value(env, variable)

-------------------------------------------------------------------------------
(* The treasurer's process starts from an empty environment. *)

(* The file its command names, else its own, else `.env`.                   *)
EnvFileFor(host) ==
  IF host.named # << >> THEN host.named
  ELSE IF host.split # << >> THEN host.split ELSE host.dotenv

TreasurerEnv(host) == Merged([n \in {} |-> ""], EnvFileFor(host))

(* sign.treasurer_key, load_key: a seed, or the envelope is unsigned, and   *)
(* says why; it then names no key.                                          *)
Signer(host, unsigned) ==
  LET env  == TreasurerEnv(host)
      seed == Value(env, "SIGNING_KEY")
  IN  IF Secret("treasurer", "SIGNING_KEY", env) /\ seed \in DOMAIN Public
      THEN Public[seed] ELSE unsigned

(* keys.published_key: the key `keys.json` names, if the file is there and  *)
(* names one of the algorithm.                                              *)
PublishedKey(keys, none) ==
  IF keys # none /\ keys.algorithm = "ed25519" THEN keys.public ELSE none

=============================================================================
