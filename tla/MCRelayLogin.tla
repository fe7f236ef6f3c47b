---------------------------- MODULE MCRelayLogin ----------------------------
(* Instances of RelayLogin for TLC: two logins, another process that edits
   config.toml, two relays. *)
EXTENDS RelayLogin, TLC

(* The relays are interchangeable. *)
RelaySymmetry == Permutations(Relays)
=============================================================================
