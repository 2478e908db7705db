------------------------------ MODULE MCChats -------------------------------
(* An instance of Chats: two members talk while one of them leaves and a   *)
(* third connection joins.                                                 *)
EXTENDS Chats, TLC

CONSTANTS c1, c2, c3

MCMaxChats == c1 :> 2 @@ c2 :> 1 @@ c3 :> 0

MCMaxChanges == c1 :> 0 @@ c2 :> 1 @@ c3 :> 1

=============================================================================
