---------------------------- MODULE MCWriteQueue ----------------------------
(* Instances of WriteQueue for TLC: some requests address database a, the   *)
(* others database b; only the requests of a that may leave do so.          *)
EXTENDS WriteQueue, TLC

CONSTANTS a, b, ACalls, BCalls

MCCalls == ACalls \cup BCalls
MCRoute == [c \in MCCalls |-> IF c \in ACalls THEN a ELSE b]
Symmetry == Permutations(ACalls) \cup Permutations(BCalls)
=============================================================================
