---------------------------- MODULE MCConnection ----------------------------
(* Instances of Connection.                                                *)
EXTENDS Connection, TLC

CONSTANTS s1, s2, x1, cb1, cb2

=============================================================================
