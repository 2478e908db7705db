---------------------------- MODULE MCGroupLists ----------------------------
(* A user with two connections and another one.                            *)
EXTENDS GroupLists, TLC

CONSTANTS c1, c2, c3, u1, u2

MCUserOf == c1 :> u1 @@ c2 :> u1 @@ c3 :> u2

MCMaxChanges == u1 :> 2 @@ u2 :> 1

(* The two connections of the user are interchangeable.                    *)
MCSymmetry == Permutations({c1, c2})

=============================================================================
