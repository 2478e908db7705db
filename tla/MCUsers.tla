------------------------------ MODULE MCUsers ------------------------------
(* Two users of one shard; the first has two devices and comes back once.  *)
EXTENDS Users, TLC

CONSTANTS c1, c2, c3, u1, u2, s1

MCUserOf == c1 :> u1 @@ c2 :> u1 @@ c3 :> u2
MCShardOf == u1 :> s1 @@ u2 :> s1

(* The connections of the first user are interchangeable.                  *)
MCSymmetry == Permutations({c1, c2})

=============================================================================
