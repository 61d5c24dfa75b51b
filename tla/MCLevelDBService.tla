-------------------------- MODULE MCLevelDBService --------------------------
(***************************************************************************)
(* Small instance of LevelDBService: one triple in several contexts, or    *)
(* without one ("none").                                                   *)
(***************************************************************************)
EXTENDS LevelDBService, TLC

MCHash == [t \in Term |->
    CASE t = "s" -> 1 [] t = "p" -> 0 [] t = "o" -> 4
      [] t = "c1" -> 2 [] t = "none" -> 3]

MCRemovals == {[s |-> "s", p |-> "p", o |-> "o", c |-> Unset]}

Symmetry == Permutations(Handler)
=============================================================================
