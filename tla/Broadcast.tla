----------------------------- MODULE Broadcast ------------------------------
(***************************************************************************)
(* What a channel's chat promises, without goroutines, loops and mutexes:  *)
(* one thing is said at a time, everybody hears it at most once and before *)
(* the next one, and who said it is told so afterwards.  A message says    *)
(* whom it is about, its kind and its number.                              *)
(***************************************************************************)
EXTENDS Naturals, Sequences

CONSTANT Conns  \* connections

VARIABLES
    talk,      \* what is being said: no message or one
    inbox      \* what a connection was sent, in order

bvars == <<talk, inbox>>

Init == talk = {} /\ inbox = [c \in Conns |-> <<>>]

Has(c, m) == \E i \in DOMAIN inbox[c] : inbox[c][i] = m

(* A chat message x comes before m, of the same author.                    *)
Before(x, m) == x[1] = m[1] /\ x[2] = m[2] /\ x[2] = "chat" => x[3] < m[3]

(* A message nobody was sent, and nothing later of its author.             *)
Begin ==
    /\ talk = {}
    /\ \E m \in talk' :
           /\ talk' = {m} /\ m[2] # "queued"
           /\ \A c \in Conns : ~Has(c, m)
           /\ \A c \in Conns : \A i \in DOMAIN inbox[c] : Before(inbox[c][i], m)
    /\ UNCHANGED inbox

Hear(c) ==
    /\ \E m \in talk :
           ~Has(c, m) /\ inbox' = [inbox EXCEPT ![c] = Append(@, m)]
    /\ UNCHANGED talk

End ==
    /\ talk # {} /\ talk' = {}
    /\ UNCHANGED inbox

(* A chat message of c is over, and was sent to c too.                     *)
Confirm(c) ==
    /\ \E i \in DOMAIN inbox[c] : LET n == inbox[c][i][3] IN
           /\ inbox[c][i] = <<c, "chat", n>> /\ inbox[c][i] \notin talk
           /\ ~Has(c, <<c, "queued", n>>)
           /\ inbox' = [inbox EXCEPT ![c] = Append(@, <<c, "queued", n>>)]
    /\ UNCHANGED talk

Next == Begin \/ End \/ \E c \in Conns : Hear(c) \/ Confirm(c)

Spec == Init /\ [][Next]_bvars

=============================================================================
