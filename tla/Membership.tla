---------------------------- MODULE Membership ------------------------------
(***************************************************************************)
(* What the channels of the RTM manager promise, without Channel objects,  *)
(* locks and cleanup: under each channel id a user is represented by at    *)
(* most one connection, if the user was invited, which is not gone.        *)
(***************************************************************************)
CONSTANTS
    Conns,    \* connections
    UserIDs,  \* user ids
    UserOf,   \* the user of a connection
    Keys,     \* channel ids
    None      \* nobody

VARIABLES
    member,   \* for a channel id, the connection of each user
    invited,  \* for a channel id, the users who may take part
    gone      \* connections that are closed

mvars == <<member, invited, gone>>

Init ==
    /\ member = [k \in Keys |-> [u \in UserIDs |-> None]]
    /\ invited = [k \in Keys |-> {}]
    /\ gone = {}

(* Users may get to know a channel id, and may then send to it.            *)
Invite(k) ==
    /\ invited[k] \subseteq invited'[k]
    /\ invited' = [invited EXCEPT ![k] = invited'[k]]

(* A connection of a user who is invited, before or with this step, comes  *)
(* in and takes the place of its user.                                     *)
Join(c, k) ==
    /\ c \notin gone
    /\ UserOf[c] \in invited'[k]
    /\ member' = [member EXCEPT ![k] = [@ EXCEPT ![UserOf[c]] = c]]
    /\ Invite(k)
    /\ UNCHANGED gone

(* The connection of a user leaves.                                        *)
Leave(k, u) ==
    /\ member' = [member EXCEPT ![k] = [@ EXCEPT ![u] = None]]
    /\ UNCHANGED <<invited, gone>>

(* A connection that is in no channel is gone.                             *)
Go(c) ==
    /\ \A k \in Keys, u \in UserIDs : member[k][u] # c
    /\ gone' = gone \cup {c}
    /\ UNCHANGED <<member, invited>>

Next ==
    \/ \E k \in Keys : Invite(k) /\ UNCHANGED <<member, gone>>
    \/ \E k \in Keys, c \in Conns : Join(c, k)
    \/ \E k \in Keys, u \in UserIDs : Leave(k, u)
    \/ \E c \in Conns : Go(c)

Spec == Init /\ [][Next]_mvars

=============================================================================
