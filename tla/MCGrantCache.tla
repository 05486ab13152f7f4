---------------------------- MODULE MCGrantCache ----------------------------
(***************************************************************************)
(* Small instance of GrantCache: two questions, the endpoint grant and the *)
(* object grants of one key, and two configurations that answer them       *)
(* differently.  An answer is named by what it was read from: the object   *)
(* grants by two statements, the rules and then their conditions.          *)
(***************************************************************************)
EXTENDS GrantCache, TLC

CONSTANTS endpoint, object

MCQuestion == {endpoint, object}
MCValue == Config \X Config
MCAnswer(c, d, q) == IF q = endpoint THEN <<c, c>> ELSE <<c, d>>

Symmetry ==
  Permutations(Thread) \cup Permutations(Scope) \cup Permutations(Config)
=============================================================================
