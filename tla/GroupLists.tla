----------------------------- MODULE GroupLists -----------------------------
(***************************************************************************)
(* The lists of members the connections of one group channel are sent      *)
(* (signaling/rtm: group.go, and the reply of webrtc_group).  Every        *)
(* Channel.Add and Channel.remove, and a reset of the channel's pipeline,  *)
(* starts a goroutine that reads the members and then sends the list to    *)
(* them one after the other; nothing orders these goroutines.  A send to a *)
(* connection that is closed, or whose send channel is full, fails, and is *)
(* not repeated.                                                           *)
(*                                                                         *)
(* Lists are of user ids, and go to the connections that are there for the *)
(* users.  The channel may have a pipeline, with which any hash will do    *)
(* for an accept or a hangup, so that hashes are not looked at here.       *)
(***************************************************************************)
EXTENDS Naturals

CONSTANTS
    Conns,       \* connections
    UserIDs,     \* user ids
    UserOf,      \* the user a connection is bound to
    MaxChanges,  \* number of times a user is added or removed
    MaxResets,   \* number of resets of the pipeline
    None

(* The goroutines: for the n-th change of a user, or the n-th reset.       *)
ChangeTasks(u) == {u} \X (1 .. MaxChanges[u])
ResetTasks == {None} \X (1 .. MaxResets)
Tasks == (UNION {ChangeTasks(u) : u \in UserIDs}) \cup ResetTasks

ASSUME GroupListsAssumption ==
    /\ UserOf \in [Conns -> UserIDs]
    /\ MaxChanges \in [UserIDs -> Nat] /\ MaxResets \in Nat
    /\ None \notin Conns \cup UserIDs

VARIABLES
    connections,  \* Channel.connections
    changes,  \* number of changes of a user
    resets,   \* number of resets
    joining,  \* connections whose webrtc_group is not yet replied to
    gone,     \* connections that are closed
    pc,       \* where a task is
    listed,   \* the members a task read
    todo,     \* connections a task has yet to send to
    sent,     \* connections the list of the present members was sent to,
              \* since these are the members and it was added
    silent    \* connections added by an accept, and not replied to, if no
              \* other user has changed since then

taskVars == <<pc, listed, todo>>
vars == <<connections, changes, resets, joining, gone, taskVars, sent, silent>>

(* The ids that Channel.Connections() returns.                             *)
Members == {u \in UserIDs : connections[u] # None}

(* The state has the types of the code's variables; a list is sent to none *)
(* but those on it, and a closed connection is no member.                  *)
TypeOK ==
    /\ connections \in [UserIDs -> (Conns \ gone) \cup {None}]
    /\ \A u \in Members : UserOf[connections[u]] = u
    /\ changes \in [UserIDs -> Nat]
    /\ resets \in 0 .. MaxResets
    /\ joining \subseteq Conns
    /\ gone \subseteq Conns
    /\ pc \in [Tasks -> {"no", "read", "loop", "done"}]
    /\ listed \in [Tasks -> SUBSET UserIDs]
    /\ todo \in [Tasks -> SUBSET Conns]
    /\ \A t \in Tasks : \A c \in todo[t] : UserOf[c] \in listed[t]
    /\ sent \subseteq Conns
    /\ silent \subseteq Conns

Init ==
    /\ connections = [u \in UserIDs |-> None]
    /\ changes = [u \in UserIDs |-> 0]
    /\ resets = 0
    /\ joining = {}
    /\ gone = {}
    /\ pc = [t \in Tasks |-> "no"]
    /\ listed = [t \in Tasks |-> {}]
    /\ todo = [t \in Tasks |-> {}]
    /\ sent = {}
    /\ silent = {}

-----------------------------------------------------------------------------
(* Send and RawSend of a list to c.  Nothing depends on their result.      *)
Deliver(c, list) == sent' = IF list = Members THEN sent \cup {c} ELSE sent

(* go c.config.AfterAddOrRemove(...), for the next change of u.            *)
Spawn(u) ==
    /\ changes[u] < MaxChanges[u]
    /\ changes' = [changes EXCEPT ![u] = @ + 1]
    /\ pc' = [pc EXCEPT ![<<u, changes[u] + 1>>] = "read"]

(* Those of user u.                                                        *)
Own(conns, u) == {c \in conns : UserOf[c] = u}

(* Channel.Add of a connection that is not there, which takes the place of *)
(* another one of its user.                                                *)
Add(c) ==
    LET u == UserOf[c] IN
    /\ c \notin joining \cup gone
    /\ connections[u] # c
    /\ connections' = [connections EXCEPT ![u] = c]
    /\ sent' = IF u \in Members THEN sent \ {c} ELSE {}
    /\ Spawn(u)
    /\ UNCHANGED <<resets, gone, listed, todo>>

(* webrtc_group: Channel.Add, and then the reply.                          *)
Join(c) ==
    /\ Add(c)
    /\ joining' = joining \cup {c}
    /\ silent' = Own(silent, UserOf[c]) \ {c}

(* webrtc_call that accepts, and names no group: Channel.Add, and no       *)
(* reply.                                                                  *)
Accept(c) ==
    /\ Add(c)
    /\ UNCHANGED joining
    /\ silent' = Own(silent, UserOf[c]) \cup {c}

(* webrtc_group of a member: Channel.Add finds it there; it is replied to. *)
Rejoin(c) ==
    /\ c \notin joining
    /\ connections[UserOf[c]] = c
    /\ joining' = joining \cup {c}
    /\ silent' = silent \ {c}
    /\ UNCHANGED <<connections, changes, resets, gone, taskVars, sent>>

(* Mutant of JoinReply: the members read before the user was added.        *)
JoinReplyOld(c) ==
    /\ c \in joining
    /\ Deliver(c, Members \ {UserOf[c]})
    /\ joining' = joining \ {c}
    /\ UNCHANGED <<connections, changes, resets, gone, taskVars, silent>>

(* webrtc_group: channel.Connections() and the reply with the members.     *)
JoinReply(c) ==
    /\ c \in joining
    /\ Deliver(c, Members)
    /\ joining' = joining \ {c}
    /\ UNCHANGED <<connections, changes, resets, gone, taskVars, silent>>

(* webrtc_hangup: Channel.Remove of the user, whichever of the user's      *)
(* connections is there and also if none is, while another connection of   *)
(* the user may wait for its reply.                                        *)
Leave(c) ==
    LET u == UserOf[c] IN
    /\ c \notin joining \cup gone
    /\ connections' = [connections EXCEPT ![u] = None]
    /\ sent' = IF u \in Members THEN {} ELSE sent
    /\ silent' = Own(silent, u)
    /\ Spawn(u)
    /\ UNCHANGED <<resets, joining, gone, listed, todo>>

(* The connection closes, also while its handler has a reply to send.      *)
(* Channel.remove as OnClosed callback removes it, unless another one has  *)
(* its place.                                                              *)
Closed(c) ==
    LET u == UserOf[c] IN
    /\ c \notin gone
    /\ gone' = gone \cup {c}
    /\ IF connections[u] = c
       THEN /\ connections' = [connections EXCEPT ![u] = None]
            /\ sent' = {}
            /\ silent' = Own(silent, u)
            /\ Spawn(u)
       ELSE UNCHANGED <<connections, changes, pc, sent, silent>>
    /\ UNCHANGED <<resets, joining, listed, todo>>

(* The pipeline was reset: onAfterGroupChannelReset.                       *)
Reset ==
    /\ resets < MaxResets
    /\ resets' = resets + 1
    /\ pc' = [pc EXCEPT ![<<None, resets + 1>>] = "read"]
    /\ silent' = {}
    /\ UNCHANGED <<connections, changes, joining, gone, listed, todo, sent>>

-----------------------------------------------------------------------------
(* onAfterGroupAddOrRemove.                                                *)

(* Mutant of ReadMembers: who changed is left out of the list instead of   *)
(* out of the connections it is sent to.                                   *)
ReadMembersOther(t) ==
    /\ pc[t] = "read"
    /\ pc' = [pc EXCEPT ![t] = "loop"]
    /\ listed' = [listed EXCEPT ![t] = Members \ {t[1]}]
    /\ todo' = [todo EXCEPT ![t] = {connections[u] : u \in Members}]
    /\ UNCHANGED <<connections, changes, resets, joining, gone, sent, silent>>

(* channel.Connections(); the user who changed is not sent the list.       *)
ReadMembers(t) ==
    /\ pc[t] = "read"
    /\ pc' = [pc EXCEPT ![t] = "loop"]
    /\ listed' = [listed EXCEPT ![t] = Members]
    /\ todo' = [todo EXCEPT ![t] = {connections[u] : u \in Members \ {t[1]}}]
    /\ UNCHANGED <<connections, changes, resets, joining, gone, sent, silent>>

(* RawSend to the next connection.                                         *)
SendList(t, c) ==
    /\ c \in todo[t]
    /\ todo' = [todo EXCEPT ![t] = @ \ {c}]
    /\ Deliver(c, listed[t])
    /\ UNCHANGED <<connections, changes, resets, joining, gone, pc, listed,
                   silent>>

Done(t) ==
    /\ pc[t] = "loop" /\ todo[t] = {}
    /\ pc' = [pc EXCEPT ![t] = "done"]
    /\ listed' = [listed EXCEPT ![t] = {}]
    /\ UNCHANGED <<connections, changes, resets, joining, gone, todo, sent,
                   silent>>

Next ==
    \/ \E c \in Conns : \/ Join(c) \/ Accept(c) \/ Rejoin(c)
                        \/ JoinReply(c) \/ Leave(c) \/ Closed(c)
    \/ Reset
    \/ \E t \in Tasks : ReadMembers(t) \/ Done(t)
    \/ \E t \in Tasks, c \in Conns : SendList(t, c)

Spec == Init /\ [][Next]_vars

-----------------------------------------------------------------------------
(* Properties.                                                             *)

(* The connections of the members that are not the exception below.        *)
Listeners == {connections[u] : u \in Members} \ silent

(* When all goroutines are done, every member has been sent the list of    *)
(* those who are members now, in the reply to its webrtc_group or later,   *)
(* and since they are.  The one exception is a connection that came in     *)
(* with an accept, which is not replied to and is skipped by the goroutine *)
(* of its own change, as long as no other user has come or gone.  The list *)
(* need not be the last one it was sent: the goroutines are not ordered.   *)
CurrentListSent ==
    joining = {} /\ (\A t \in Tasks : pc[t] \in {"no", "done"})
        => Listeners \subseteq sent

-----------------------------------------------------------------------------
(* The strengthening that makes CurrentListSent inductive.                 *)

(* A task that has yet to send the present list of members to c.           *)
Owes(t, c) ==
    /\ t[1] # UserOf[c]
    /\ \/ pc[t] = "read"
       \/ pc[t] = "loop" /\ listed[t] = Members /\ c \in todo[t]

(* Every member was sent the present list, or will be sent it in the reply *)
(* to its webrtc_group or by a goroutine that another user's change        *)
(* started, unless it is the exception.                                    *)
ListInv ==
    \A c \in Listeners \ (sent \cup joining) : \E t \in Tasks : Owes(t, c)

IInv == TypeOK /\ ListInv

=============================================================================
