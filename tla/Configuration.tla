---------------------------- MODULE Configuration ----------------------------
(***************************************************************************)
(* What a starting server makes of its environment: get_env chooses the    *)
(* environment, load_config lays the process's variables over the .env     *)
(* file over the environment's toml file over app.toml, and                *)
(* build_access_token_verifier chooses the key that tokens are checked     *)
(* with.  The files are the repository's own; the variables are the        *)
(* operator's choice.                                                      *)
(***************************************************************************)
CONSTANTS
  Keys,        \* public keys of the identity server, old and current
  KeyFile,     \* the file its current public key is in, in its data directory
  Fixed,       \* the verifier of the integration tests, which knows two fixed tokens
  Given,       \* a value that only matters for being there
  Unset        \* a setting, or a variable, that is not there

ASSUME KeysAssumption ==
  {KeyFile, Fixed, Given, Unset} \cap Keys = {} /\ Fixed # Unset /\ KeyFile # Unset

Environments == {"development", "production", "test"}

Settings == {"database_url", "jwt_public_key_path", "jwt_public_key_pem", "base_url"}

\* A path names the identity server's own key file or a file with a copy of
\* a key; a PEM is a key.
Sources ==
  [database_url : {Given, Unset}, jwt_public_key_path : {KeyFile, Unset} \cup Keys,
   jwt_public_key_pem : {Unset} \cup Keys, base_url : {Given, Unset}]

Nothing == [s \in Settings |-> Unset]

app_toml == Nothing

environment_toml(env) ==
  IF env = "development"
  THEN [Nothing EXCEPT !["jwt_public_key_path"] = KeyFile, !["base_url"] = Given]
  ELSE Nothing

\* No .env file is read for production, and a missing one is no error.
dotenv(env, found) ==
  IF found /\ env # "production" THEN [Nothing EXCEPT !["database_url"] = Given] ELSE Nothing

Over(upper, lower) ==
  [s \in Settings |-> IF upper[s] # Unset THEN upper[s] ELSE lower[s]]

load_config(env, variables, found) ==
  Over(Over(variables, dotenv(env, found)), Over(environment_toml(env), app_toml))

\* APP_ENVIRONMENT, its spellings folded; any other value is an error.
get_env(name) == IF name = Unset THEN "development" ELSE name

\* What tokens are checked with, Unset if the server refuses to start.
build_access_token_verifier(env, config, testHelpers) ==
  IF env = "test" THEN IF testHelpers THEN Fixed ELSE Unset
  ELSE IF config["jwt_public_key_path"] # Unset THEN config["jwt_public_key_path"]
  ELSE config["jwt_public_key_pem"]

Boot(env, variables, found, testHelpers) ==
  LET config == load_config(env, variables, found)
  IN [ database_url |-> config["database_url"],
       verifier |-> build_access_token_verifier(env, config, testHelpers),
       base_url |-> config["base_url"] ]

\* The ways a server can come up: with a database and a verifier.
Boots ==
  {b \in {Boot(get_env(name), variables, found, testHelpers) :
            name \in Environments \cup {Unset}, variables \in Sources,
            found \in BOOLEAN, testHelpers \in BOOLEAN} :
     b.database_url # Unset /\ b.verifier # Unset}
=============================================================================
