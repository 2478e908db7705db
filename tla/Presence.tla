------------------------------ MODULE Presence ------------------------------
(***************************************************************************)
(* What the user table of the RTM manager promises, without records, locks *)
(* and cleanup: a set of connections that come once and leave, and look-   *)
(* ups of a user's connections that take some time.                        *)
(***************************************************************************)
CONSTANTS
    Conns,    \* connections
    UserIDs,  \* user ids
    UserOf,   \* the user of a connection
    Lookups,  \* who looks up connections
    None      \* no user

VARIABLES
    present,  \* connections that can be found
    left,     \* connections that were present and have left
    look      \* look-ups: of whom, who must be found, and who was

pvars == <<present, left, look>>

(* The connections of a user that can be found.                            *)
PresentOf(u) == {c \in present : UserOf[c] = u}

Found(l, u, S) ==
    look' = [look EXCEPT ![l] = [busy |-> FALSE, user |-> u, must |-> {},
                                 result |-> S]]

Init ==
    /\ present = {}
    /\ left = {}
    /\ look = [l \in Lookups |-> [busy |-> FALSE, user |-> None, must |-> {},
                                  result |-> {}]]

Arrive(c) ==
    /\ c \notin present \cup left
    /\ present' = present \cup {c}
    /\ UNCHANGED <<left, look>>

(* Who leaves need no longer be found.                                     *)
Leave(c) ==
    /\ c \in present
    /\ present' = present \ {c}
    /\ left' = left \cup {c}
    /\ look' = [l \in Lookups |-> [look[l] EXCEPT !.must = @ \ {c}]]

(* A look-up begins.  If there is nobody it may end at once.               *)
Ask(l, u) ==
    /\ ~look[l].busy
    /\ \/ look' = [look EXCEPT ![l] = [busy |-> TRUE, user |-> u,
                                       must |-> PresentOf(u), result |-> {}]]
       \/ PresentOf(u) = {} /\ Found(l, u, {})
    /\ UNCHANGED <<present, left>>

(* It ends with connections of the user that are present, among them all   *)
(* that have been since it began.                                          *)
Answer(l) ==
    /\ look[l].busy
    /\ \E S \in SUBSET PresentOf(look[l].user) :
           look[l].must \subseteq S /\ Found(l, look[l].user, S)
    /\ UNCHANGED <<present, left>>

Next ==
    \/ \E c \in Conns : Arrive(c) \/ Leave(c)
    \/ \E l \in Lookups : Answer(l) \/ \E u \in UserIDs : Ask(l, u)

Spec == Init /\ [][Next]_pvars

=============================================================================
