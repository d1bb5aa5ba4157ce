------------------------------- MODULE APIKeys -------------------------------
(***************************************************************************)
(* The table api_keys and the two middlewares in front of the routes:      *)
(* RequireMasterKey on the administration, RequireAPIKey on evaluation and *)
(* the stream.                                                             *)
(*                                                                         *)
(* A key stands for the random suffix that its id, its text and its hash   *)
(* are made of: two keys never share one.                                  *)
(***************************************************************************)
EXTENDS Naturals

CONSTANTS
  Keys,      \* the API keys there may be
  Issued,    \* those that were created before the process started
  NoToken,   \* no Authorization header, and no FLAGGY_MASTER_KEY
  masterKey  \* the master key

ASSUME KeysAssumption ==
  Issued \subseteq Keys /\ masterKey \notin Keys /\ NoToken \notin Keys

VARIABLES
  live,      \* the keys with revoked = 0
  revoked    \* the keys with revoked = 1

keys == <<live, revoked>>

InitKeys == live = Issued /\ revoked = {}

Tokens == Keys \cup {masterKey, NoToken}

\* RequireMasterKey lets the request through: any request, without a master key.
RequireMasterKey(token) == masterKey # NoToken => token = masterKey

\* RequireAPIKey lets it through without asking the store.
MasterBypass(token) == token # NoToken /\ token = masterKey

\* ValidateAPIKey's SELECT finds the token's hash.
Validates(token) == token \in live

\* Mutant: the UPDATE writes back the whole row that was read.
TouchRow(k) == live' = live \cup {k} /\ revoked' = revoked \ {k}

\* ValidateAPIKey's UPDATE, by id, whatever happened to the row since it was
\* read: it sets last_used_at, which nothing here depends on.
Touch(k) == k \in Keys /\ UNCHANGED keys

NewKeys == Keys \ (live \cup revoked)

\* GenerateAPIKey makes a key that is new.
CreateAPIKey == /\ \E k \in NewKeys : live' = live \cup {k}
                /\ UNCHANGED revoked

\* A key that is revoked may be revoked again; one that is not there is a 404.
RevokeAPIKey(k) == /\ revoked' = revoked \cup ({k} \cap live)
                   /\ live' = live \ {k}
=============================================================================
