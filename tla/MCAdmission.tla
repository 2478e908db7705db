----------------------------- MODULE MCAdmission -----------------------------
(* An instance of Admission: keys for a token, a bearer and basic auth.    *)
EXTENDS Admission, TLC

CONSTANTS k1, k2, k3, s1, s2, t1, t3

MCIDOf == k1 :> t1 @@ k2 :> None @@ k3 :> t3

(* The websocket requests are interchangeable.                             *)
MCSymmetry == Permutations({s1, s2})

=============================================================================
