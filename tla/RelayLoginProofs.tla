-------------------------- MODULE RelayLoginProofs --------------------------
(***************************************************************************)
(* Proofs about RelayLogin, for every set of logins, editors and relays    *)
(* and every number of tokens: the type invariant, ConfigCoherent and      *)
(* FailedLeavesNoTrace from ProviderInv, and, when the logins use distinct    *)
(* names, CreatedKeyIsMine from NewestIsMine.                              *)
(***************************************************************************)
EXTENDS RelayLogin, TLAPS

(* A login past its first prompt knows its relay, and one that is about to save
   has a key of that relay. *)
Prepared(p) ==
  /\ pc[p] \notin {"start", "failed", "tui"} => relay[p] \in Relays
  /\ pc[p] \in {"read", "write", "ok"} => key[p] \in Keys /\ key[p][1] = relay[p]

(* What a document holds of the provider was written, as a whole, by a login that
   has ended well; such a login changes nothing any more. *)
WrittenWhole(c) ==
  /\ c.key # None =>
       \E p \in Logins : /\ pc[p] = "ok" /\ c.model = p
                         /\ c.base = relay[p] /\ c.key = key[p]
  /\ \A p \in Logins : c.model = p => pc[p] = "ok"

(* The inductive invariant: the documents that the processes have read and not
   yet written back are coherent like the file itself. *)
ProviderInv ==
  /\ TypeOK
  /\ \A p \in Logins : Prepared(p)
  /\ WrittenWhole(config)
  /\ \A p \in Procs : WrittenWhole(snap[p])

(* The ids the relay hands out grow, and a login that has created its token is
   looking for the newest one of its name. *)
NewestIsMine ==
  /\ \A t \in tokens : t.id <= lastId
  /\ \A p \in Logins : pc[p] \in {"search", "getCreated"} =>
       /\ made[p] <= lastId
       /\ \A t \in tokens :
            /\ t.name = NameOf(p) => t.id <= made[p]
            /\ t.id = made[p] /\ t.relay = relay[p] => t.name = NameOf(p)

-----------------------------------------------------------------------------
(* No process but p moves, and only the locals of p change. *)
OnlyMoves(p) ==
  /\ \A q \in Procs : q # p => pc'[q] = pc[q]
  /\ \A q \in Logins : q # p => relay'[q] = relay[q] /\ key'[q] = key[q]

(* A step of one process that has not ended keeps every coherent document
   coherent. *)
LEMMA DocumentKept ==
  ASSUME NEW c, WrittenWhole(c), NEW p \in Procs, pc[p] # "ok", OnlyMoves(p)
  PROVE  /\ c.key # None =>
              \E q \in Logins : /\ pc'[q] = "ok" /\ c.model = q
                                /\ c.base = relay'[q] /\ c.key = key'[q]
         /\ \A q \in Logins : c.model = q => pc'[q] = "ok"
BY DEF WrittenWhole, OnlyMoves, Procs

(* A step of one process that touches no document has only to keep that process
   prepared. *)
LEMMA LocalStep ==
  ASSUME ProviderInv, TypeOK', NEW p \in Procs, pc[p] # "ok", OnlyMoves(p),
         config' = config, snap' = snap, p \in Logins => Prepared(p)'
  PROVE  ProviderInv'
<1>1. ASSUME NEW q \in Logins PROVE Prepared(q)'
  BY <1>1 DEF ProviderInv, Prepared, OnlyMoves, Procs
<1>2. WrittenWhole(config)'
  BY DocumentKept DEF ProviderInv, WrittenWhole
<1>3. ASSUME NEW q \in Procs PROVE WrittenWhole(snap[q])'
  BY <1>3, DocumentKept DEF ProviderInv, WrittenWhole
<1> QED BY <1>1, <1>2, <1>3 DEF ProviderInv

(* A configured provider is left alone. *)
LEMMA FirstRunInv ==
  ASSUME ProviderInv, NEW p \in Logins, FirstRun(p)
  PROVE  ProviderInv'
<1> USE DEF FirstRun, Goto, server, session
<1>1. TypeOK'
  BY LoginAssumption DEF ProviderInv, Prepared, TypeOK, Pcs, Procs, Keys, Tokens, Ids, Names
<1>2. Prepared(p)'
  BY DEF ProviderInv, Prepared, TypeOK, Procs, Keys, Ids
<1>3. OnlyMoves(p) /\ pc[p] # "ok" /\ p \in Procs
  BY DEF OnlyMoves, Procs, ProviderInv, TypeOK
<1> QED BY <1>1, <1>2, <1>3, LocalStep

(* The relay is chosen, in direct-token mode with the key. *)
LEMMA BeginInv ==
  ASSUME ProviderInv, NEW p \in Logins, NEW r \in Relays, Begin(p, r)
  PROVE  ProviderInv'
<1> USE DEF Begin, Goto, server
<1>1. TypeOK'
  BY LoginAssumption DEF ProviderInv, Prepared, TypeOK, Pcs, Procs, Keys, Tokens, Ids, Names
<1>2. Prepared(p)'
  BY DEF ProviderInv, Prepared, TypeOK, Procs, Keys, Ids
<1>3. OnlyMoves(p) /\ pc[p] # "ok" /\ p \in Procs
  BY DEF OnlyMoves, Procs, ProviderInv, TypeOK
<1> QED BY <1>1, <1>2, <1>3, LocalStep

(* A login that fails before its write leaves the documents alone. *)
LEMMA GiveUpInv ==
  ASSUME ProviderInv, NEW p \in Logins, GiveUp(p)
  PROVE  ProviderInv'
<1> USE DEF GiveUp, Goto, Fail, server, session
<1>1. TypeOK'
  BY LoginAssumption DEF ProviderInv, Prepared, TypeOK, Pcs, Procs, Keys, Tokens, Ids, Names
<1>2. Prepared(p)'
  BY DEF ProviderInv, Prepared, TypeOK, Procs, Keys, Ids
<1>3. OnlyMoves(p) /\ pc[p] # "ok" /\ p \in Procs
  BY DEF OnlyMoves, Procs, ProviderInv, TypeOK
<1> QED BY <1>1, <1>2, <1>3, LocalStep

(* The login is accepted or asks for a code. *)
LEMMA LoginInv ==
  ASSUME ProviderInv, NEW p \in Logins, Login(p)
  PROVE  ProviderInv'
<1> USE DEF Login, Goto, server, session
<1>1. TypeOK'
  BY LoginAssumption DEF ProviderInv, Prepared, TypeOK, Pcs, Procs, Keys, Tokens, Ids, Names
<1>2. Prepared(p)'
  BY DEF ProviderInv, Prepared, TypeOK, Procs, Keys, Ids
<1>3. OnlyMoves(p) /\ pc[p] # "ok" /\ p \in Procs
  BY DEF OnlyMoves, Procs, ProviderInv, TypeOK
<1> QED BY <1>1, <1>2, <1>3, LocalStep

(* The code is accepted. *)
LEMMA Login2faInv ==
  ASSUME ProviderInv, NEW p \in Logins, Login2fa(p)
  PROVE  ProviderInv'
<1> USE DEF Login2fa, Goto, server, session
<1>1. TypeOK'
  BY LoginAssumption DEF ProviderInv, Prepared, TypeOK, Pcs, Procs, Keys, Tokens, Ids, Names
<1>2. Prepared(p)'
  BY DEF ProviderInv, Prepared, TypeOK, Procs, Keys, Ids
<1>3. OnlyMoves(p) /\ pc[p] # "ok" /\ p \in Procs
  BY DEF OnlyMoves, Procs, ProviderInv, TypeOK
<1> QED BY <1>1, <1>2, <1>3, LocalStep

(* The listed ids are ids the relay handed out. *)
LEMMA ListTokensInv ==
  ASSUME ProviderInv, NEW p \in Logins, ListTokens(p)
  PROVE  ProviderInv'
<1> USE DEF ListTokens, Goto, server
<1>1. TypeOK'
  BY LoginAssumption DEF ProviderInv, Prepared, TypeOK, Pcs, Procs, Keys, Tokens, Ids, Names
<1>2. Prepared(p)'
  BY DEF ProviderInv, Prepared, TypeOK, Procs, Keys, Ids
<1>3. OnlyMoves(p) /\ pc[p] # "ok" /\ p \in Procs
  BY DEF OnlyMoves, Procs, ProviderInv, TypeOK
<1> QED BY <1>1, <1>2, <1>3, LocalStep

(* A listed token is picked, or none. *)
LEMMA SelectInv ==
  ASSUME ProviderInv, NEW p \in Logins, Select(p)
  PROVE  ProviderInv'
<1> USE DEF Select, Goto, server
<1>1. TypeOK'
  BY LoginAssumption DEF ProviderInv, Prepared, TypeOK, Pcs, Procs, Keys, Tokens, Ids, Names
<1>2. Prepared(p)'
  BY DEF ProviderInv, Prepared, TypeOK, Procs, Keys, Ids
<1>3. OnlyMoves(p) /\ pc[p] # "ok" /\ p \in Procs
  BY DEF OnlyMoves, Procs, ProviderInv, TypeOK
<1> QED BY <1>1, <1>2, <1>3, LocalStep

(* The key of the picked token is one of the login's relay. *)
LEMMA GetSelectedInv ==
  ASSUME ProviderInv, NEW p \in Logins, GetSelected(p)
  PROVE  ProviderInv'
<1> USE DEF GetSelected, Goto, server
<1>1. TypeOK'
  BY LoginAssumption DEF ProviderInv, Prepared, TypeOK, Pcs, Procs, Keys, Tokens, Ids, Names
<1>2. Prepared(p)'
  BY DEF ProviderInv, Prepared, TypeOK, Procs, Keys, Ids
<1>3. OnlyMoves(p) /\ pc[p] # "ok" /\ p \in Procs
  BY DEF OnlyMoves, Procs, ProviderInv, TypeOK
<1> QED BY <1>1, <1>2, <1>3, LocalStep

(* The relay adds a token. *)
LEMMA CreateTokenInv ==
  ASSUME ProviderInv, NEW p \in Logins, CreateToken(p)
  PROVE  ProviderInv'
<1> USE DEF CreateToken, Goto, AddToken, server
<1>1. TypeOK'
  BY LoginAssumption DEF ProviderInv, Prepared, TypeOK, Pcs, Procs, Keys, Tokens, Ids, Names
<1>2. Prepared(p)'
  BY DEF ProviderInv, Prepared, TypeOK, Procs, Keys, Ids
<1>3. OnlyMoves(p) /\ pc[p] # "ok" /\ p \in Procs
  BY DEF OnlyMoves, Procs, ProviderInv, TypeOK
<1> QED BY <1>1, <1>2, <1>3, LocalStep

(* The token found is one of the relay's. *)
LEMMA SearchTokenInv ==
  ASSUME ProviderInv, NEW p \in Logins, SearchToken(p)
  PROVE  ProviderInv'
<1> USE DEF SearchToken, Goto, Found, server
<1>1. TypeOK'
  BY LoginAssumption DEF ProviderInv, Prepared, TypeOK, Pcs, Procs, Keys, Tokens, Ids, Names
<1>2. Prepared(p)'
  BY DEF ProviderInv, Prepared, TypeOK, Procs, Keys, Ids
<1>3. OnlyMoves(p) /\ pc[p] # "ok" /\ p \in Procs
  BY DEF OnlyMoves, Procs, ProviderInv, TypeOK
<1> QED BY <1>1, <1>2, <1>3, LocalStep

(* The key of the found token is one of the login's relay. *)
LEMMA GetCreatedInv ==
  ASSUME ProviderInv, NEW p \in Logins, GetCreated(p)
  PROVE  ProviderInv'
<1> USE DEF GetCreated, Goto, server
<1>1. TypeOK'
  BY LoginAssumption DEF ProviderInv, Prepared, TypeOK, Pcs, Procs, Keys, Tokens, Ids, Names
<1>2. Prepared(p)'
  BY DEF ProviderInv, Prepared, TypeOK, Procs, Keys, Ids
<1>3. OnlyMoves(p) /\ pc[p] # "ok" /\ p \in Procs
  BY DEF OnlyMoves, Procs, ProviderInv, TypeOK
<1> QED BY <1>1, <1>2, <1>3, LocalStep

(* A document is read as it is, so the copy is as coherent as the file. *)
LEMMA ReadConfigInv ==
  ASSUME ProviderInv, NEW p \in Procs, ReadConfig(p)
  PROVE  ProviderInv'
<1> USE DEF ReadConfig, Goto, server, session
<1>1. TypeOK'
  BY DEF ProviderInv, TypeOK, Pcs
<1>2. OnlyMoves(p) /\ pc[p] # "ok"
  BY DEF OnlyMoves, ProviderInv, TypeOK, Procs
<1>3. ASSUME NEW q \in Logins PROVE Prepared(q)'
  BY <1>3 DEF ProviderInv, Prepared, TypeOK, Procs
<1>4. WrittenWhole(config)'
  BY <1>2, DocumentKept DEF ProviderInv, WrittenWhole
<1>5. ASSUME NEW q \in Procs PROVE WrittenWhole(snap[q])'
  <2>1. WrittenWhole(snap'[q])
    BY <1>5 DEF ProviderInv, TypeOK
  <2> QED BY <2>1, <1>2, DocumentKept DEF WrittenWhole
<1> QED BY <1>1, <1>3, <1>4, <1>5 DEF ProviderInv

(* The edits replace the provider as a whole, by a login that ends well with
   them; a write that fails leaves the file. *)
LEMMA WriteNewApiConfigInv ==
  ASSUME ProviderInv, NEW p \in Logins, WriteNewApiConfig(p)
  PROVE  ProviderInv'
<1> USE DEF server, session
<1>0. p \in Procs /\ snap[p] \in Configs /\ key[p] \in Keys /\ key[p][1] = relay[p]
        /\ relay[p] \in Relays /\ pc[p] = "write" /\ snap' = snap /\ relay' = relay
        /\ key' = key /\ UNCHANGED <<tokens, lastId, seen, pick, made>>
  BY DEF WriteNewApiConfig, ProviderInv, TypeOK, Procs, Prepared
<1>1. OnlyMoves(p) /\ pc' \in [Procs -> Pcs] /\ pc'[p] \in {"ok", "failed"}
  BY <1>0 DEF WriteNewApiConfig, Goto, OnlyMoves, ProviderInv, TypeOK, Procs, Pcs
<1>2. NewApiEdits(p) \in Configs
  BY <1>0 DEF NewApiEdits, Configs, Procs
<1>3. TypeOK'
  BY <1>0, <1>1, <1>2 DEF WriteNewApiConfig, ProviderInv, TypeOK
<1>4. ASSUME NEW q \in Logins PROVE Prepared(q)'
  BY <1>0, <1>1, <1>4 DEF ProviderInv, Prepared, OnlyMoves, Procs
<1>5. ASSUME NEW q \in Procs PROVE WrittenWhole(snap[q])'
  BY <1>0, <1>1, <1>5, DocumentKept DEF ProviderInv, WrittenWhole
<1>6. WrittenWhole(config)'
  <2>1. CASE config' = NewApiEdits(p) /\ Goto(p, "ok")
    <3>1. pc'[p] = "ok"
      BY <1>0, <2>1 DEF Goto, ProviderInv, TypeOK
    <3>2. config'.key = key[p] /\ config'.base = relay[p] /\ config'.model = p
      BY <1>0, <2>1 DEF NewApiEdits, Configs
    <3> QED BY <1>0, <3>1, <3>2 DEF WrittenWhole
  <2>2. CASE config' = config
    BY <1>0, <1>1, <2>2, DocumentKept DEF ProviderInv, WrittenWhole
  <2> QED BY <2>1, <2>2 DEF WriteNewApiConfig
<1> QED BY <1>3, <1>4, <1>5, <1>6 DEF ProviderInv

(* Another process writes the provider back as it read it. *)
LEMMA WriteOtherInv ==
  ASSUME ProviderInv, NEW e \in Editors, WriteOther(e)
  PROVE  ProviderInv'
<1> USE DEF WriteOther, Goto, server, session
<1>0. e \in Procs /\ e \notin Logins /\ snap[e] \in Configs
  BY LoginAssumption DEF ProviderInv, TypeOK, Procs
<1>1. config'.key = snap[e].key /\ config'.base = snap[e].base
        /\ config'.model = snap[e].model /\ config' \in Configs
  BY <1>0 DEF Configs
<1>2. OnlyMoves(e) /\ pc[e] # "ok" /\ pc' \in [Procs -> Pcs]
  BY <1>0 DEF OnlyMoves, ProviderInv, TypeOK, Procs, Pcs
<1>3. TypeOK'
  BY <1>1, <1>2 DEF ProviderInv, TypeOK
<1>4. ASSUME NEW q \in Logins PROVE Prepared(q)'
  BY <1>0, <1>2, <1>4 DEF ProviderInv, Prepared, OnlyMoves, Procs
<1>5. WrittenWhole(config)'
  <2>1. WrittenWhole(config')
    BY <1>0, <1>1 DEF ProviderInv, WrittenWhole
  <2> QED BY <1>0, <1>2, <2>1, DocumentKept DEF WrittenWhole
<1>6. ASSUME NEW q \in Procs PROVE WrittenWhole(snap[q])'
  BY <1>0, <1>2, <1>6, DocumentKept DEF ProviderInv, WrittenWhole
<1> QED BY <1>3, <1>4, <1>5, <1>6 DEF ProviderInv

(* A deletion at the relay concerns no document. *)
LEMMA DeleteTokenInv ==
  ASSUME ProviderInv, NEW t \in tokens, DeleteToken(t)
  PROVE  ProviderInv'
BY DEF ProviderInv, DeleteToken, TypeOK, Prepared, WrittenWhole, session

(* A stutter changes nothing the invariant reads. *)
LEMMA StutterInv ==
  ASSUME ProviderInv, UNCHANGED vars
  PROVE  ProviderInv'
BY DEF ProviderInv, vars, TypeOK, Prepared, WrittenWhole

(* Every step preserves the invariant. *)
LEMMA NextProviderInv ==
  ASSUME ProviderInv, [Next]_vars
  PROVE  ProviderInv'
BY FirstRunInv, BeginInv, GiveUpInv, LoginInv, Login2faInv, ListTokensInv, SelectInv,
   GetSelectedInv, CreateTokenInv, SearchTokenInv, GetCreatedInv, ReadConfigInv,
   WriteNewApiConfigInv, WriteOtherInv, DeleteTokenInv, StutterInv DEF Next

(* At the start nothing is configured, read or chosen. *)
LEMMA InitProviderInv == Init => ProviderInv
<1> SUFFICES ASSUME Init PROVE ProviderInv
  OBVIOUS
<1>1. NoConfig \in Configs
  BY DEF NoConfig, Configs
<1>2. \A n \in Names, r \in Relays : [relay |-> r, id |-> 1, name |-> n] \in Tokens
  BY LoginAssumption DEF Tokens, Ids
<1>3. TypeOK
  BY LoginAssumption, <1>1, <1>2 DEF Init, TypeOK, Procs, Pcs, Ids
<1>4. \A p \in Logins : Prepared(p)
  BY DEF Init, Prepared, Procs
<1>5. WrittenWhole(NoConfig)
  BY LoginAssumption DEF WrittenWhole, NoConfig
<1> QED BY <1>3, <1>4, <1>5 DEF ProviderInv, Init

(* Every document, in the file or in a process that edits it, holds a provider
   written as a whole by one login that has succeeded. *)
THEOREM ProviderInvariant == Spec => []ProviderInv
BY InitProviderInv, NextProviderInv, PTL DEF Spec

(* The state of the login keeps its types. *)
THEOREM LoginTypeCorrect == Spec => []TypeOK
<1>1. ProviderInv => TypeOK
  BY DEF ProviderInv
<1> QED BY <1>1, ProviderInvariant, PTL

(* The provider entry in config.toml is always the work of one login
   (build_newapi_provider_edits as one batch of apply_blocking). *)
THEOREM ProviderCoherent == Spec => []ConfigCoherent
<1>1. ProviderInv => ConfigCoherent
  BY DEF ProviderInv, WrittenWhole, Prepared, ConfigCoherent
<1> QED BY <1>1, ProviderInvariant, PTL

(* A login that exits with an error has left config.toml alone
   (write_newapi_config is the last step of run_newapi_login). *)
THEOREM FailureIsClean == Spec => []FailedLeavesNoTrace
<1>1. ProviderInv => FailedLeavesNoTrace
  BY DEF ProviderInv, WrittenWhole, FailedLeavesNoTrace
<1> QED BY <1>1, ProviderInvariant, PTL

-----------------------------------------------------------------------------
(* What the search relies on: NewestIsMine, and the answer it has already given. *)
SearchInv == NewestIsMine /\ CreatedKeyIsMine

(* A step that adds no token and moves no login to or within the search keeps
   what the search relies on. *)
LEMMA NoTokenAdded ==
  ASSUME ProviderInv, SearchInv, tokens' \subseteq tokens, lastId' = lastId, made' = made,
         \A p \in Logins : pc'[p] \in {"search", "getCreated"} =>
           pc'[p] = pc[p] /\ relay'[p] = relay[p] /\ pick'[p] = pick[p]
  PROVE  SearchInv'
<1>1. NewestIsMine'
  BY DEF SearchInv, NewestIsMine, NameOf
<1>2. CreatedKeyIsMine'
  BY DEF SearchInv, CreatedKeyIsMine, Holds
<1> QED BY <1>1, <1>2 DEF SearchInv

(* The new token is newer than any other, and no other login's has its name. *)
LEMMA AddTokenSearch ==
  ASSUME ProviderInv, SearchInv, SharedName = FALSE, NEW p \in Logins, CreateToken(p)
  PROVE  SearchInv'
<1>1. CASE UNCHANGED <<server, made>>
  <2>1. \A q \in Logins : pc'[q] \in {"search", "getCreated"} => pc'[q] = pc[q]
    BY <1>1 DEF CreateToken, Goto, ProviderInv, TypeOK, Procs, AddToken, server
  <2> QED BY <1>1, <2>1, NoTokenAdded DEF CreateToken, server
<1>2. CASE AddToken(p)
  <2> DEFINE new == [relay |-> relay[p], id |-> lastId + 1, name |-> NameOf(p)]
  <2>1. /\ tokens' = tokens \cup {new} /\ lastId' = lastId + 1
        /\ \A q \in Logins : made'[q] = IF q = p THEN lastId + 1 ELSE made[q]
        /\ relay' = relay /\ pick' = pick
    BY <1>2 DEF CreateToken, AddToken, ProviderInv, TypeOK
  <2>2. \A q \in Logins : q # p => pc'[q] = pc[q]
    BY DEF CreateToken, Goto, ProviderInv, TypeOK, Procs
  <2>3. pc'[p] # "getCreated"
    BY DEF CreateToken, Goto, ProviderInv, TypeOK, Procs
  <2>4. lastId \in Nat /\ (\A q \in Logins : made[q] \in Nat) /\ \A t \in tokens : t.id \in Nat
    BY LoginAssumption DEF ProviderInv, TypeOK, Tokens, Ids
  <2>5. \A q \in Logins : q # p => NameOf(q) # NameOf(p)
    BY DEF NameOf
  <2>6. new.id = lastId + 1 /\ new.name = NameOf(p) /\ new.relay = relay[p]
    OBVIOUS
  <2> HIDE DEF new
  <2>7. \A t \in tokens' : t.id <= lastId'
    BY <2>1, <2>4, <2>6 DEF SearchInv, NewestIsMine
  <2>8. ASSUME NEW q \in Logins, pc'[q] \in {"search", "getCreated"}, NEW t \in tokens'
        PROVE  /\ made'[q] <= lastId'
               /\ t.name = NameOf(q) => t.id <= made'[q]
               /\ t.id = made'[q] /\ t.relay = relay'[q] => t.name = NameOf(q)
    <3>1. CASE q = p
      BY <3>1, <2>1, <2>4, <2>6, <2>7 DEF SearchInv, NewestIsMine
    <3>2. CASE q # p
      <4>1. pc[q] \in {"search", "getCreated"} /\ made'[q] = made[q] /\ made[q] <= lastId
        BY <3>2, <2>8, <2>1, <2>2 DEF SearchInv, NewestIsMine
      <4>2. CASE t = new
        BY <3>2, <4>1, <4>2, <2>1, <2>4, <2>5, <2>6
      <4>3. CASE t \in tokens
        BY <4>1, <4>3, <2>1, <2>4 DEF SearchInv, NewestIsMine
      <4> QED BY <4>2, <4>3, <2>1
    <3> QED BY <3>1, <3>2
  <2>9. \A q \in Logins : pc'[q] \in {"search", "getCreated"} => made'[q] <= lastId'
    <3>1. new \in tokens'
      BY <2>1
    <3> QED BY <2>8, <3>1
  <2>10. NewestIsMine'
    BY <2>7, <2>8, <2>9 DEF NewestIsMine, NameOf
  <2>11. CreatedKeyIsMine'
    <3> SUFFICES ASSUME NEW q \in Logins, pc'[q] = "getCreated",
                        NEW t \in tokens', t.relay = relay'[q], t.id = made'[q]
                 PROVE  pick'[q] = made'[q]
      BY DEF CreatedKeyIsMine, Holds
    <3>1. q # p /\ pc[q] = "getCreated" /\ made'[q] = made[q] /\ made[q] <= lastId
      BY <2>1, <2>2, <2>3 DEF SearchInv, NewestIsMine
    <3>2. t \in tokens
      BY <3>1, <2>1, <2>4, <2>6
    <3> QED BY <3>1, <3>2, <2>1 DEF SearchInv, CreatedKeyIsMine, Holds
  <2> QED BY <2>10, <2>11 DEF SearchInv
<1> QED BY <1>1, <1>2 DEF CreateToken, server

(* The newest token of the login's name is the one it created, if that is there. *)
LEMMA SearchTokenSearch ==
  ASSUME ProviderInv, SearchInv, NEW p \in Logins, SearchToken(p)
  PROVE  SearchInv'
<1>1. /\ tokens' = tokens /\ lastId' = lastId /\ made' = made /\ relay' = relay
      /\ \A q \in Logins : q # p => pc'[q] = pc[q] /\ pick'[q] = pick[q]
      /\ pc[p] = "search"
  BY DEF SearchToken, Goto, server, ProviderInv, TypeOK, Procs
<1>2. (\A q \in Logins : made[q] \in Nat) /\ \A t \in tokens : t.id \in Nat
  BY LoginAssumption DEF ProviderInv, TypeOK, Tokens, Ids
<1>3. NewestIsMine'
  BY <1>1 DEF SearchInv, NewestIsMine, NameOf
<1>4. CreatedKeyIsMine'
  <2> SUFFICES ASSUME NEW q \in Logins, pc'[q] = "getCreated", Holds(q, made[q])
               PROVE  pick'[q] = made[q]
    BY <1>1 DEF CreatedKeyIsMine, Holds
  <2>1. CASE q # p
    BY <2>1, <1>1 DEF SearchInv, CreatedKeyIsMine
  <2>2. CASE q = p
    <3>1. PICK t \in Found(p) : (\A u \in Found(p) : u.id <= t.id) /\ pick'[p] = t.id
      BY <2>2, <1>1 DEF SearchToken, Goto, ProviderInv, TypeOK, Procs
    <3>2. PICK m \in tokens : m.relay = relay[p] /\ m.id = made[p]
      BY <2>2 DEF Holds
    <3>3. m \in Found(p)
      BY <3>2, <1>1 DEF Found, SearchInv, NewestIsMine
    <3>4. t \in tokens /\ t.id <= made[p]
      BY <3>1, <1>1 DEF Found, SearchInv, NewestIsMine
    <3> QED BY <2>2, <3>1, <3>2, <3>3, <3>4, <1>2
  <2> QED BY <2>1, <2>2
<1> QED BY <1>3, <1>4 DEF SearchInv

(* Every step keeps what the search relies on: only CreateToken adds a token and
   only SearchToken enters the state after the search. *)
LEMMA NextSearchInv ==
  ASSUME ProviderInv, SearchInv, SharedName = FALSE, [Next]_vars
  PROVE  SearchInv'
<1> USE DEF Goto, server, session, ProviderInv, TypeOK, Procs
<1>1. ASSUME NEW p \in Logins,
             FirstRun(p) \/ GiveUp(p) \/ Login(p) \/ Login2fa(p) \/ ListTokens(p)
      PROVE  SearchInv'
  BY <1>1, NoTokenAdded DEF FirstRun, GiveUp, Fail, Login, Login2fa, ListTokens
<1>2. ASSUME NEW p \in Logins, Select(p) \/ GetSelected(p) \/ GetCreated(p)
      PROVE  SearchInv'
  BY <1>2, NoTokenAdded DEF Select, GetSelected, GetCreated
<1>3. ASSUME NEW p \in Logins, WriteNewApiConfig(p)
      PROVE  SearchInv'
  BY <1>3, NoTokenAdded DEF WriteNewApiConfig
<1>4. ASSUME NEW p \in Logins, NEW r \in Relays, Begin(p, r)
      PROVE  SearchInv'
  BY <1>4, NoTokenAdded DEF Begin
<1>5. ASSUME NEW p \in Procs, ReadConfig(p)
      PROVE  SearchInv'
  BY <1>5, NoTokenAdded DEF ReadConfig
<1>6. ASSUME NEW e \in Editors, WriteOther(e)
      PROVE  SearchInv'
  BY <1>6, NoTokenAdded DEF WriteOther
<1>7. ASSUME NEW t \in tokens, DeleteToken(t)
      PROVE  SearchInv'
  BY <1>7, NoTokenAdded DEF DeleteToken
<1>8. CASE UNCHANGED vars
  BY <1>8, NoTokenAdded DEF vars
<1> QED
  BY <1>1, <1>2, <1>3, <1>4, <1>5, <1>6, <1>7, <1>8, AddTokenSearch, SearchTokenSearch
  DEF Next

(* At the start no login has reached its search. *)
LEMMA InitSearchInv == Init => SearchInv
<1> SUFFICES ASSUME Init PROVE SearchInv
  OBVIOUS
<1>1. \A p \in Logins : pc[p] = "start"
  BY DEF Init, Procs
<1>2. \A t \in tokens : t.id <= lastId
  BY DEF Init
<1> QED BY <1>1, <1>2 DEF SearchInv, NewestIsMine, CreatedKeyIsMine

(* When every login gives its key a name of its own, the key it saves after
   create_token is that of the token it created, however many processes create,
   search and delete tokens of the account at the same time. *)
THEOREM DistinctNamesSuffice ==
  ASSUME SharedName = FALSE
  PROVE  Spec => []CreatedKeyIsMine
<1>1. Init => ProviderInv /\ SearchInv
  BY InitProviderInv, InitSearchInv
<1>2. ProviderInv /\ SearchInv /\ [Next]_vars => (ProviderInv /\ SearchInv)'
  BY NextProviderInv, NextSearchInv
<1>3. SearchInv => CreatedKeyIsMine
  BY DEF SearchInv
<1> QED BY <1>1, <1>2, <1>3, PTL DEF Spec
=============================================================================
