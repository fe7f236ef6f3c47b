----------------------------- MODULE RelayLogin -----------------------------
(***************************************************************************)
(* `codex login --newapi` and the branded first run: cli/src/              *)
(* newapi_login.rs, maybe_auto_newapi_login of cli/src/main.rs and the     *)
(* config write they end in (core/src/config/edit.rs).                     *)
(*                                                                         *)
(* Several processes run at once on one CODEX_HOME and one account: the    *)
(* logins, and other codex processes that persist a setting of their own   *)
(* (Editors).  The relay is external: it keeps tokens with increasing ids, *)
(* and an administrator may delete one at any time.  An action is one HTTP *)
(* request, one read or one write of config.toml; prompts are choices.     *)
(***************************************************************************)
EXTENDS Naturals, FiniteSets

CONSTANTS
  Logins,     \* processes that run run_newapi_login
  Editors,    \* other processes that apply a ConfigEdit
  Relays,     \* base URLs, after normalize_base_url
  SharedName, \* TRUE when every login keeps the default key name "codex"
  MaxTokens,  \* bound on the ids the relay hands out
  None

ASSUME LoginAssumption ==
  /\ SharedName \in BOOLEAN /\ MaxTokens \in Nat \ {0}
  /\ Logins \cap Editors = {}
  /\ None \notin Logins \cup Editors \cup Relays

Procs == Logins \cup Editors
Ids   == 1..MaxTokens

(* The name a login gives the token it creates. *)
NameOf(p) == IF SharedName THEN "codex" ELSE p
Names == {NameOf(p) : p \in Logins}

Tokens == [relay : Relays, id : Ids, name : Names]

(* An API key stands for the token of its id; id 0 is a key the user typed. *)
Keys == Relays \X (Ids \cup {0})

Configs == [base : Relays \cup {None}, key : Keys \cup {None},
            model : Logins \cup {None}, other : Editors \cup {None}]

Pcs == {"start", "login", "code", "list", "select", "getSelected", "create", "search",
        "getCreated", "read", "write", "ok", "failed", "tui"}

VARIABLES
  config, \* config.toml: provider base_url and bearer token, the model (named for the
          \*   login that chose it) and a setting of another process
  tokens, \* the relay's tokens (external)
  lastId, \* the last id the relay handed out (external)
  pc,     \* per process: where it is,
  relay,  \*   base_url,
  seen,   \*   the token ids it was shown,
  pick,   \*   the token id it asks the key of,
  key,    \*   the key it is going to save,
  snap,   \*   config.toml as apply_blocking read it,
  made    \*   and the id its POST added (history variable)

vars == <<config, tokens, lastId, pc, relay, seen, pick, key, snap, made>>
server == <<tokens, lastId>>
session == <<relay, seen, pick, key, made>>

NoConfig == [base |-> None, key |-> None, model |-> None, other |-> None]

(* The account may hold an older token, also one of a name that is used again. *)
Init ==
  /\ config = NoConfig
  /\ \/ tokens = {} /\ lastId = 0
     \/ \E r \in Relays, n \in Names :
          tokens = {[relay |-> r, id |-> 1, name |-> n]} /\ lastId = 1
  /\ pc = [p \in Procs |-> IF p \in Logins THEN "start" ELSE "read"]
  /\ relay = [p \in Logins |-> None]
  /\ seen = [p \in Logins |-> {}]
  /\ pick = [p \in Logins |-> 0]
  /\ key = [p \in Logins |-> None]
  /\ snap = [p \in Procs |-> NoConfig]
  /\ made = [p \in Logins |-> 0]

-----------------------------------------------------------------------------
Goto(p, l) == pc' = [pc EXCEPT ![p] = l]

(* Every error of the flow ends the process with exit code 1. *)
Fail(p) == Goto(p, "failed") /\ UNCHANGED session

(* Tokens of p's relay with the given id. *)
Holds(p, i) == \E t \in tokens : t.relay = relay[p] /\ t.id = i

(* maybe_auto_newapi_login: a configured provider goes on to the TUI. *)
FirstRun(p) ==
  /\ pc[p] = "start" /\ config.key # None
  /\ Goto(p, "tui")
  /\ UNCHANGED <<config, server, session, snap>>

(* run_newapi_login, from the first run or from `codex login`: the base URL, and
   in direct-token mode the key, which is taken as typed. *)
Begin(p, r) ==
  /\ pc[p] = "start"
  /\ relay' = [relay EXCEPT ![p] = r]
  /\ \/ Goto(p, "login") /\ UNCHANGED key
     \/ Goto(p, "read") /\ key' = [key EXCEPT ![p] = <<r, 0>>]
  /\ UNCHANGED <<config, server, seen, pick, made, snap>>

(* An empty URL, user name, password, code or access token, a failed prompt, and
   any request that fails, is answered with success = false or does not parse. *)
GiveUp(p) ==
  /\ pc[p] \in {"start", "login", "code", "list", "select", "search", "getCreated", "read"}
  /\ Fail(p)
  /\ UNCHANGED <<config, server, snap>>

(* NewApiClient::login: Direct or Need2fa. *)
Login(p) ==
  /\ pc[p] = "login"
  /\ Goto(p, "list") \/ Goto(p, "code")
  /\ UNCHANGED <<config, server, session, snap>>

(* NewApiClient::login_2fa *)
Login2fa(p) ==
  /\ pc[p] = "code"
  /\ Goto(p, "list")
  /\ UNCHANGED <<config, server, session, snap>>

(* NewApiClient::list_tokens *)
ListTokens(p) ==
  /\ pc[p] = "list"
  /\ seen' = [seen EXCEPT ![p] = {t.id : t \in {t \in tokens : t.relay = relay[p]}}]
  /\ Goto(p, "select")
  /\ UNCHANGED <<config, server, relay, pick, key, made, snap>>

(* select_or_create_key: a listed number, or anything else to create one. *)
Select(p) ==
  /\ pc[p] = "select"
  /\ \/ Goto(p, "create") /\ UNCHANGED pick
     \/ \E i \in seen[p] : Goto(p, "getSelected") /\ pick' = [pick EXCEPT ![p] = i]
  /\ UNCHANGED <<config, server, relay, seen, key, made, snap>>

(* The key of the selected token; an error creates a new token instead. *)
GetSelected(p) ==
  /\ pc[p] = "getSelected"
  /\ \/ /\ Holds(p, pick[p])
        /\ key' = [key EXCEPT ![p] = <<relay[p], pick[p]>>]
        /\ Goto(p, "read")
     \/ Goto(p, "create") /\ UNCHANGED key
  /\ UNCHANGED <<config, server, relay, seen, pick, made, snap>>

(* The relay adds a token and answers without its id (external). *)
AddToken(p) ==
  /\ lastId < MaxTokens
  /\ lastId' = lastId + 1
  /\ tokens' = tokens \cup
       {[relay |-> relay[p], id |-> lastId + 1, name |-> NameOf(p)]}
  /\ made' = [made EXCEPT ![p] = lastId + 1]

(* create_token's POST: added and answered, added with the answer lost, or not
   added; without an answer the login fails. *)
CreateToken(p) ==
  /\ pc[p] = "create"
  /\ \/ AddToken(p) /\ Goto(p, "search")
     \/ AddToken(p) /\ Goto(p, "failed")
     \/ Goto(p, "failed") /\ UNCHANGED <<server, made>>
  /\ UNCHANGED <<config, relay, seen, pick, key, snap>>

(* The tokens the search finds that have exactly the requested name.  Mutant: the
   search result is not filtered. *)
AllFound(p) == {t \in tokens : t.relay = relay[p]}
Found(p) == {t \in tokens : t.relay = relay[p] /\ t.name = NameOf(p)}

(* create_token's search: the newest token of that name, or an error. *)
SearchToken(p) ==
  /\ pc[p] = "search"
  /\ \/ \E t \in Found(p) :
          /\ \A u \in Found(p) : u.id <= t.id
          /\ pick' = [pick EXCEPT ![p] = t.id]
          /\ Goto(p, "getCreated")
     \/ Found(p) = {} /\ Goto(p, "failed") /\ UNCHANGED pick
  /\ UNCHANGED <<config, server, relay, seen, key, made, snap>>

(* get_token_key of the token that was found. *)
GetCreated(p) ==
  /\ pc[p] = "getCreated"
  /\ Holds(p, pick[p])
  /\ key' = [key EXCEPT ![p] = <<relay[p], pick[p]>>]
  /\ Goto(p, "read")
  /\ UNCHANGED <<config, server, relay, seen, pick, made, snap>>

(* apply_blocking_to_resolved_file reads config.toml ... *)
ReadConfig(p) ==
  /\ pc[p] = "read"
  /\ snap' = [snap EXCEPT ![p] = config]
  /\ Goto(p, "write")
  /\ UNCHANGED <<config, server, session>>

(* build_newapi_provider_edits on the document that was read.  Mutants: an entry
   that is already there keeps its base_url; the relay's id is saved as the key. *)
SaveTokenId(p) == [snap[p] EXCEPT !.base = relay[p], !.key = <<pick[p]>>, !.model = p]
KeepBaseUrl(p) ==
  [snap[p] EXCEPT !.base = IF @ = None THEN relay[p] ELSE @, !.key = key[p], !.model = p]
NewApiEdits(p) ==
  [snap[p] EXCEPT !.base = relay[p], !.key = key[p], !.model = p]

(* ... and write_atomically replaces it by the edited document, or fails.
   Mutant: a write that fails has replaced the file. *)
WriteInPlace(p) ==
  /\ pc[p] = "write"
  /\ config' = NewApiEdits(p)
  /\ Goto(p, "ok") \/ Goto(p, "failed")
  /\ UNCHANGED <<server, session, snap>>
WriteNewApiConfig(p) ==
  /\ pc[p] = "write"
  /\ \/ config' = NewApiEdits(p) /\ Goto(p, "ok")
     \/ Goto(p, "failed") /\ UNCHANGED config
  /\ UNCHANGED <<server, session, snap>>

(* Another process applies an edit of another setting the same way. *)
WriteOther(e) ==
  /\ pc[e] = "write"
  /\ config' = [snap[e] EXCEPT !.other = e]
  /\ Goto(e, "ok")
  /\ UNCHANGED <<server, session, snap>>

(* A token is deleted at the relay (external). *)
DeleteToken(t) ==
  /\ tokens' = tokens \ {t}
  /\ UNCHANGED <<config, lastId, pc, session, snap>>

Next ==
  \/ \E p \in Logins :
       \/ FirstRun(p) \/ GiveUp(p) \/ Login(p) \/ Login2fa(p) \/ ListTokens(p)
       \/ Select(p) \/ GetSelected(p) \/ CreateToken(p) \/ SearchToken(p)
       \/ GetCreated(p) \/ WriteNewApiConfig(p)
       \/ \E r \in Relays : Begin(p, r)
  \/ \E p \in Procs : ReadConfig(p)
  \/ \E e \in Editors : WriteOther(e)
  \/ \E t \in tokens : DeleteToken(t)

Spec == Init /\ [][Next]_vars

-----------------------------------------------------------------------------
(* The types of the state. *)
TypeOK ==
  /\ config \in Configs
  /\ tokens \subseteq Tokens /\ lastId \in 0..MaxTokens
  /\ pc \in [Procs -> Pcs]
  /\ relay \in [Logins -> Relays \cup {None}]
  /\ seen \in [Logins -> SUBSET Ids]
  /\ pick \in [Logins -> Ids \cup {0}]
  /\ key \in [Logins -> Keys \cup {None}]
  /\ made \in [Logins -> Ids \cup {0}]
  /\ snap \in [Procs -> Configs]

(* The provider entry is always the work of one login: its key belongs to its
   base_url, and the model is the one chosen with them, however the reads and
   writes of several logins and of other editors of config.toml interleave
   (newapi_login.rs, build_newapi_provider_edits as one batch). *)
ConfigCoherent ==
  config.key # None =>
    \E p \in Logins :
      config.base = relay[p] /\ config.key = key[p] /\ config.model = p
        /\ config.key[1] = config.base

(* The key a login asks for after create_token's search is that of the token it
   created, while that exists: not of an older token of the same name, nor of one
   that another process has just created (newapi_login.rs, create_token: "resolves
   the just-created token's id and fetches its full key"). *)
CreatedKeyIsMine ==
  \A p \in Logins : pc[p] = "getCreated" /\ Holds(p, made[p]) => pick[p] = made[p]

(* A login that exits with an error has left config.toml alone, so the next start
   finds either the old provider or none and asks again. *)
FailedLeavesNoTrace ==
  \A p \in Logins : pc[p] = "failed" => config.model # p
=============================================================================
