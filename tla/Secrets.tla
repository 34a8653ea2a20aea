------------------------------ MODULE Secrets ------------------------------
(***************************************************************************)
(* How the processes of a service come by their secrets, and the tokens    *)
(* they sign and verify with one of them: src/dotenv/load_env.go, src/     *)
(* config/boot_config.go, LoadSecretsIntoEnv of src/cloud/azure.go and     *)
(* gcp.go, src/auth/auth.go.                                               *)
(*                                                                         *)
(* A process starts as in README.md:127-138: the .env file, the section of *)
(* config.ini that ENV names, then the vault that section names, all into  *)
(* its environment; it ignores their errors.  The vault is external: its   *)
(* secrets are rotated at any time, also between two reads of a process.   *)
(***************************************************************************)
EXTENDS Naturals, FiniteSets

CONSTANTS
  Processes,    \* of one service, or of services that accept each other's tokens
  Files,        \* what the .env file may assign: functions from names to values
  Exports,      \* environments a process may be started with
  Sections,     \* the modes whose section of config.ini names a vault
  Listed,       \* names of the vault's secrets
  MaxVersion,   \* versions of the signing secret
  MaxTokens,    \* tokens in use
  None

Secret == "ACCESS-SECRET"

\* Names the code here looks up, and those the vault has.
Names == {"ENV", Secret} \cup Listed

ASSUME ListedAssumption == Secret \in Listed /\ "ENV" \notin Listed
ASSUME MaxVersionAssumption == MaxVersion \in Nat \ {0}
ASSUME MaxTokensAssumption == MaxTokens \in Nat
ASSUME NoneAssumption == None \notin Nat

VARIABLES
  file, exports,  \* what this deployment starts its processes with
  vault,          \* the version of the signing secret in the vault
  pc,             \* where each process stands
  env,            \* its environment
  vaultNamed,     \* did LoadConfig find a section that names a vault?
  left,           \* listed secrets not read yet
  tokens,         \* tokens clients have
  call,           \* the outcome of the last call to a handler, and what was known then
  since,          \* the vault's version when a process began to list (history)
  partial         \* did it fail to read the signing secret? (history)

history == <<since, partial>>
deploy  == <<file, exports>>
vars    == <<deploy, vault, pc, env, vaultNamed, left, tokens, call, history>>

Given == UNION {{e[n] : n \in DOMAIN e} : e \in Exports \cup Files}
Values == Given \cup 1 .. MaxVersion

ASSUME EnvironmentsAssumption ==
  /\ Exports \subseteq [Names -> Values]
  /\ \A f \in Files : DOMAIN f \subseteq Names

Steps == {"down", "loadEnv", "loadConfig", "ensure", "loading", "serving"}

NoCall == [outcome |-> "none"]

Init ==
  /\ file \in Files
  /\ exports \in [Processes -> Exports]
  /\ vault = 1
  /\ pc = [p \in Processes |-> "down"]
  /\ env = exports
  /\ vaultNamed = [p \in Processes |-> FALSE]
  /\ left = [p \in Processes |-> {}]
  /\ tokens = {}
  /\ call = NoCall
  /\ since = [p \in Processes |-> 0]
  /\ partial = [p \in Processes |-> FALSE]

Goto(p, from, to) == pc[p] = from /\ pc' = [pc EXCEPT ![p] = to]

-----------------------------------------------------------------------------
(* A process starts, and stops at any time: its memory is gone.            *)

Start(p) ==
  /\ Goto(p, "down", "loadEnv")
  /\ UNCHANGED <<deploy, vault, env, vaultNamed, left, tokens, call, history>>

Forgotten(p) ==
  /\ env' = [env EXCEPT ![p] = exports[p]]
  /\ vaultNamed' = [vaultNamed EXCEPT ![p] = FALSE]
  /\ left' = [left EXCEPT ![p] = {}]
  /\ since' = [since EXCEPT ![p] = 0]
  /\ partial' = [partial EXCEPT ![p] = FALSE]

Stop(p) ==
  /\ pc[p] # "down"
  /\ Goto(p, pc[p], "down")
  /\ Forgotten(p)
  /\ UNCHANGED <<deploy, vault, tokens, call>>

\* dotenv.LoadEnv: a name in the file replaces one in the environment.
LoadEnv(p) ==
  /\ Goto(p, "loadEnv", "loadConfig")
  /\ env' = [env EXCEPT ![p] = [n \in Names |-> IF n \in DOMAIN file THEN file[n] ELSE @[n]]]
  /\ UNCHANGED <<deploy, vault, vaultNamed, left, tokens, call, history>>

\* There is no file, or it cannot be read.
LoadEnvFails(p) ==
  /\ Goto(p, "loadEnv", "loadConfig")
  /\ UNCHANGED <<deploy, vault, env, vaultNamed, left, tokens, call, history>>

\* config.LoadConfig: the section ENV names, as the environment is by now, or
\* an error (no such file, a malformed one), and nothing configured.
LoadConfig(p) ==
  /\ Goto(p, "loadConfig", "ensure")
  /\ \E found \in {FALSE, env[p]["ENV"] \in Sections} :
       vaultNamed' = [vaultNamed EXCEPT ![p] = found]
  /\ UNCHANGED <<deploy, vault, env, left, tokens, call, history>>

-----------------------------------------------------------------------------
(* LoadSecretsIntoEnv.                                                     *)

\* No vault is named, or its client cannot be made: an error, and no secret.
EnsureFails(p) ==
  /\ Goto(p, "ensure", "serving")
  /\ partial' = [partial EXCEPT ![p] = TRUE]
  /\ UNCHANGED <<deploy, vault, env, vaultNamed, left, tokens, call, since>>

List(p) ==
  /\ vaultNamed[p]
  /\ Goto(p, "ensure", "loading")
  /\ left' = [left EXCEPT ![p] = Listed]
  /\ since' = [since EXCEPT ![p] = vault]
  /\ UNCHANGED <<deploy, vault, env, vaultNamed, tokens, call, partial>>

\* Wrong: a name the environment has already is kept.
ReadSecretIfUnset(p, n) ==
  /\ pc[p] = "loading" /\ n \in left[p]
  /\ env' = [env EXCEPT ![p][n] = IF @ = None THEN vault ELSE @]
  /\ left' = [left EXCEPT ![p] = @ \ {n}]
  /\ UNCHANGED <<deploy, vault, pc, vaultNamed, tokens, call, history>>

\* The next secret's current value goes into the environment.
ReadSecret(p, n) ==
  /\ pc[p] = "loading" /\ n \in left[p]
  /\ env' = [env EXCEPT ![p][n] = vault]
  /\ left' = [left EXCEPT ![p] = @ \ {n}]
  /\ UNCHANGED <<deploy, vault, pc, vaultNamed, tokens, call, history>>

\* It cannot be read: it is logged and passed over.
SkipSecret(p, n) ==
  /\ pc[p] = "loading" /\ n \in left[p]
  /\ left' = [left EXCEPT ![p] = @ \ {n}]
  /\ partial' = [partial EXCEPT ![p] = @ \/ n = Secret]
  /\ UNCHANGED <<deploy, vault, pc, env, vaultNamed, tokens, call, since>>

\* The listing breaks off: an error, with some of the secrets set.
ListFails(p) ==
  /\ Goto(p, "loading", "serving")
  /\ partial' = [partial EXCEPT ![p] = @ \/ Secret \in left[p]]
  /\ left' = [left EXCEPT ![p] = {}]
  /\ UNCHANGED <<deploy, vault, env, vaultNamed, tokens, call, since>>

\* Wrong: the process serves while its secrets are being read.
LoadedEarly(p) ==
  /\ Goto(p, "loading", "serving")
  /\ UNCHANGED <<deploy, vault, env, vaultNamed, left, tokens, call, history>>

Loaded(p) ==
  /\ left[p] = {}
  /\ Goto(p, "loading", "serving")
  /\ UNCHANGED <<deploy, vault, env, vaultNamed, left, tokens, call, history>>

\* Somebody rotates the signing secret.
Rotate ==
  /\ vault < MaxVersion
  /\ vault' = vault + 1
  /\ UNCHANGED <<deploy, pc, env, vaultNamed, left, tokens, call, history>>

-----------------------------------------------------------------------------
(* Tokens.                                                                 *)

Key(p) == env[p][Secret]

\* A process, or the signer of a token, has or had the secret that is in the vault
\* now: it did not miss it, and it was not rotated since it began to load.
Current(p) == ~partial[p] /\ since[p] = vault
SignedCurrent(t) == ~t.partial /\ t.since = vault

\* A token, with what its signer knew (history).  The claims it carries are the
\* caller's, and verifying takes no notice of them.
Token(p) == [key |-> Key(p), since |-> since[p], partial |-> partial[p]]

\* Wrong: an unset secret signs as well.
GetTokenUnset(p) ==
  /\ pc[p] = "serving"
  /\ Cardinality(tokens) < MaxTokens
  /\ tokens' = tokens \cup {Token(p)}
  /\ UNCHANGED <<deploy, vault, pc, env, vaultNamed, left, call, history>>

\* GetToken signs with the process's secret; without one it is an error.
GetToken(p) ==
  /\ pc[p] = "serving" /\ Key(p) # None
  /\ Cardinality(tokens) < MaxTokens
  /\ tokens' = tokens \cup {Token(p)}
  /\ UNCHANGED <<deploy, vault, pc, env, vaultNamed, left, call, history>>

\* A client is done with a token.
Forget(t) ==
  /\ tokens' = tokens \ {t}
  /\ UNCHANGED <<deploy, vault, pc, env, vaultNamed, left, call, history>>

\* decryptToken: the token is signed with the secret this process has now.
Valid(p, t) == Key(p) # None /\ t.key = Key(p)

Event(p, t, outcome) ==
  [outcome |-> outcome, stale |-> t.key # vault,
   signer |-> SignedCurrent(t), verifier |-> Current(p)]

\* Both middlewares: the handler runs,
HandlerRuns(p, t) ==
  /\ pc[p] = "serving"
  /\ Valid(p, t)
  /\ call' = Event(p, t, "handled")
  /\ UNCHANGED <<deploy, vault, pc, env, vaultNamed, left, tokens, history>>

\* or the call ends with Unauthenticated, "invalid token",
TokenRejected(p, t) ==
  /\ pc[p] = "serving"
  /\ ~Valid(p, t)
  /\ call' = Event(p, t, "invalid")
  /\ UNCHANGED <<deploy, vault, pc, env, vaultNamed, left, tokens, history>>

\* or with "missing or malformed token", when it carries none.
TokenMissing(p) ==
  /\ pc[p] = "serving"
  /\ call' = [outcome |-> "missing"]
  /\ UNCHANGED <<deploy, vault, pc, env, vaultNamed, left, tokens, history>>

Loading(p) ==
  \/ LoadEnv(p) \/ LoadEnvFails(p) \/ LoadConfig(p)
  \/ EnsureFails(p) \/ List(p) \/ ListFails(p) \/ Loaded(p)
  \/ \E n \in Listed : ReadSecret(p, n) \/ SkipSecret(p, n)

Serving(p) ==
  \/ GetToken(p)
  \/ \E t \in tokens : HandlerRuns(p, t) \/ TokenRejected(p, t)
  \/ TokenMissing(p)

Next ==
  \/ \E p \in Processes : Start(p) \/ Stop(p) \/ Loading(p) \/ Serving(p)
  \/ Rotate
  \/ \E t \in tokens : Forget(t)

Spec == Init /\ [][Next]_vars

-----------------------------------------------------------------------------
\* Types; a token is never signed with an unset secret.
TypeOK ==
  /\ file \in Files /\ exports \in [Processes -> Exports]
  /\ vault \in 1 .. MaxVersion
  /\ pc \in [Processes -> Steps]
  /\ env \in [Processes -> [Names -> Values]]
  /\ vaultNamed \in [Processes -> BOOLEAN]
  /\ left \in [Processes -> SUBSET Listed]
  /\ tokens \subseteq
       [key : Values \ {None}, since : 0 .. MaxVersion, partial : BOOLEAN]
  /\ call \in {NoCall, [outcome |-> "missing"]} \cup
       [outcome : {"handled", "invalid"}, stale : BOOLEAN, signer : BOOLEAN, verifier : BOOLEAN]
  /\ since \in [Processes -> 0 .. MaxVersion]
  /\ partial \in [Processes -> BOOLEAN]

\* Processes accept each other's tokens, whatever the file and the exports hold:
\* one is rejected only if the secret was rotated since its signer or its
\* verifier began to load theirs, or if one of them did not get to read it.
RejectionNeedsCause == call.outcome = "invalid" => ~call.signer \/ ~call.verifier

\* A token of another secret than the vault's is accepted only by a process
\* that has not been restarted since the rotation, or could not read it.
StaleNeedsCause == call.outcome = "handled" /\ call.stale => ~call.verifier
=============================================================================
