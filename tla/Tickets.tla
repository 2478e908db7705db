------------------------------ MODULE Tickets -------------------------------
(***************************************************************************)
(* What the connect keys of the RTM manager promise, without tokens,       *)
(* requests and the steps of the purge: a key is good for one connection,  *)
(* and for its life at least.                                              *)
(***************************************************************************)
EXTENDS Naturals

CONSTANTS
    Keys,     \* keys
    Life,     \* how long a key can be used for sure
    None      \* no time

VARIABLES
    clock,
    issued,   \* keys that were made
    valid,    \* when a key that can be used was made, None for the others
    taken,    \* keys that were presented, and not yet accepted or refused
    used      \* keys that made a connection

tvars == <<clock, issued, valid, taken, used>>

Init ==
    /\ clock \in Nat
    /\ issued = {} /\ taken = {} /\ used = {}
    /\ valid = [k \in Keys |-> None]

(* A key is made, once.                                                    *)
Issue(k) ==
    /\ k \notin issued
    /\ issued' = issued \cup {k}
    /\ valid' = [valid EXCEPT ![k] = clock]
    /\ UNCHANGED <<clock, taken, used>>

(* A key is presented; nobody can present it again.                        *)
Take(k) ==
    /\ valid[k] # None
    /\ valid' = [valid EXCEPT ![k] = None]
    /\ taken' = taken \cup {k}
    /\ UNCHANGED <<clock, issued, used>>

(* It makes a connection, or is refused.                                   *)
Use(k) ==
    /\ k \in taken \ used
    /\ taken' = taken \ {k}
    /\ used' = used \cup {k}
    /\ UNCHANGED <<clock, issued, valid>>

Refuse(k) ==
    /\ k \in taken
    /\ taken' = taken \ {k}
    /\ UNCHANGED <<clock, issued, valid, used>>

(* A key that nobody presented is forgotten, not before its life is over.  *)
Expire(k) ==
    /\ valid[k] # None /\ valid[k] + Life < clock
    /\ valid' = [valid EXCEPT ![k] = None]
    /\ UNCHANGED <<clock, issued, taken, used>>

(* Time passes.                                                            *)
Tick ==
    /\ clock' = clock + 1
    /\ UNCHANGED <<issued, valid, taken, used>>

Next ==
    \/ \E k \in Keys : Issue(k) \/ Take(k) \/ Use(k) \/ Refuse(k) \/ Expire(k)
    \/ Tick

Spec == Init /\ [][Next]_tvars

=============================================================================
