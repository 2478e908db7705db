------------------------------- MODULE Outbox -------------------------------
(***************************************************************************)
(* What a connection promises to those who send to it, without goroutines, *)
(* locks and callbacks: a queue of limited size that is written to the     *)
(* peer from its front until the writing ends.                             *)
(***************************************************************************)
EXTENDS Naturals, Sequences

CONSTANTS
    Messages,  \* messages: who sends it, and its number
    Cap        \* size of the queue

VARIABLES
    queue,     \* what is to be written
    written,   \* what was written
    open,      \* messages are accepted
    live       \* messages are written

ovars == <<queue, written, open, live>>

Init == queue = <<>> /\ written = <<>> /\ open = TRUE /\ live = TRUE

(* m comes after everything of its sender in the sequence s.               *)
After(m, s) == \A i \in DOMAIN s : s[i][1] = m[1] => s[i][2] < m[2]

(* A message is accepted, the messages of one sender in their order.       *)
Put(m) ==
    /\ open /\ Len(queue) < Cap
    /\ After(m, queue) /\ After(m, written)
    /\ queue' = Append(queue, m)
    /\ UNCHANGED <<written, open, live>>

(* The first message is written.  It may have been put before the shut.    *)
Write ==
    /\ live /\ queue # <<>>
    /\ written' = Append(written, Head(queue))
    /\ queue' = Tail(queue)
    /\ UNCHANGED <<open, live>>

(* No message is accepted any more.                                        *)
Shut ==
    /\ open' = FALSE
    /\ UNCHANGED <<queue, written, live>>

(* No message is written any more; the one that was about to be is lost if *)
(* that failed.                                                            *)
End ==
    /\ live /\ live' = FALSE
    /\ queue' = queue \/ (queue # <<>> /\ queue' = Tail(queue))
    /\ UNCHANGED <<written, open>>

Next == (\E m \in Messages : Put(m)) \/ Write \/ Shut \/ End

Spec == Init /\ [][Next]_ovars

=============================================================================
