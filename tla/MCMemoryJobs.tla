---------------------------- MODULE MCMemoryJobs ----------------------------
(* The instances of MemoryJobs that TLC checks: threads and workers are     *)
(* interchangeable.                                                         *)
EXTENDS MemoryJobs, TLC

Symmetry == Permutations(Thread) \cup Permutations(Extractor) \cup Permutations(Consolidator)
=============================================================================
