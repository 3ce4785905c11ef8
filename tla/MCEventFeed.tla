---------------------------- MODULE MCEventFeed ----------------------------
(* The instances of EventFeed that TLC explores. *)
EXTENDS EventFeed, TLC

(* Writers of one isolation level, and retention loops, are interchangeable. *)
Symmetry == Permutations(Writers \ Serializable) \cup Permutations(Purgers)
=============================================================================
