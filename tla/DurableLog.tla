----------------------------- MODULE DurableLog -----------------------------
(***************************************************************************)
(* What a thread's rollout promises to the session that records into it:   *)
(* an append-only log that begins with the session metadata, in which an   *)
(* item is stored once and never moves, and whose acknowledgements are     *)
(* never taken back.  `broken' is raised when something other than the     *)
(* recorder removes the log's file; from then on nothing is promised.      *)
(***************************************************************************)
EXTENDS Integers, Sequences

CONSTANTS Item,     \* the rollout items
          Meta      \* the session metadata, the first record of a rollout

VARIABLES log,      \* the items that a reader finds, in order
          acked,    \* the items that the recorder has acknowledged
          broken    \* the file was removed by another party

vars == <<log, acked, broken>>

Stored == {log[n] : n \in 1..Len(log)}

Init == /\ log = <<>>
        /\ acked = {}
        /\ broken = FALSE

Store(i) == /\ i \notin Stored
            /\ log = <<>> => i = Meta
            /\ log' = Append(log, i)
            /\ UNCHANGED <<acked, broken>>

Acknowledge == /\ acked' \in SUBSET (Stored \cap Item)
               /\ acked \subseteq acked'
               /\ UNCHANGED <<log, broken>>

Next == (\E i \in Item \cup {Meta} : Store(i)) \/ Acknowledge

Spec == Init /\ [][Next \/ broken']_vars
=============================================================================
