------------------------------ MODULE Channels ------------------------------
(***************************************************************************)
(* Channels of the RTM manager (signaling/rtm: channel.go, webrtc.go,      *)
(* manager.go): how connections enter and leave channels through group,    *)
(* call, hangup and signal messages, what a closing connection does to the *)
(* channels it is in, and how the cleanup goroutine removes empty ones.    *)
(*                                                                         *)
(* A channel's methods hold its lock only while nothing blocks, so each of *)
(* them is one atomic step; the one path on which Add returns without      *)
(* unlocking leaves the channel locked for good, which is the variable     *)
(* locked.  The messages the handlers send are not part of this module.    *)
(* The channels are those without a pipeline: a group with a pipeline      *)
(* leaves the check of hashes to it.                                       *)
(***************************************************************************)
EXTENDS Naturals

CONSTANTS
    Conns,       \* connections
    UserIDs,     \* user ids
    UserOf,      \* the user a connection is bound to
    Auth,        \* the auth of a user's record: whether it may create
                 \* channels, and the groups its messages may name
    GroupKeys,   \* ids of named group channels
    CallKeys,    \* random ids of call channels
    Chans,       \* Channel objects that can be made
    KeyOf,       \* the id a Channel object is made with
    None         \* nil, and the group of a message that names none

IsGroup(ch) == KeyOf[ch] \in GroupKeys

Keys == GroupKeys \cup CallKeys

(* A random id is made once.                                               *)
ASSUME ChannelsAssumption ==
    /\ UserOf \in [Conns -> UserIDs]
    /\ Auth \in [UserIDs -> [canCreate : BOOLEAN,
                             groups : SUBSET (GroupKeys \cup {None})]]
    /\ KeyOf \in [Chans -> Keys]
    /\ GroupKeys \cap CallKeys = {}
    /\ \A x, y \in Chans : KeyOf[x] = KeyOf[y] => x = y \/ IsGroup(x)
    /\ None \notin Conns \cup Chans \cup Keys

VARIABLES
    pc,          \* where the handler of a connection's goroutine is
    at,          \* the channel that handler works on
    callbacks,   \* channels in Connection.onClosedCallbacks
    channels,    \* m.channels
    created,     \* Channel objects that have been made
    connections, \* Channel.connections
    closed,      \* Channel.closed
    locked,      \* Add returned with the channel locked
    hashed,      \* users the server has made a hash for, by channel id
    pToScan,     \* purgeEmptyChannels: entries not yet looked at
    pEmpty,      \* purgeEmptyChannels: entries to clean up
    pRemove      \* purgeEmptyChannels: cleaned up, still in m.channels

handlerVars == <<pc, at, callbacks>>
channelVars == <<channels, created, connections, closed, locked, hashed>>
purgeVars == <<pToScan, pEmpty, pRemove>>
vars == <<handlerVars, channelVars, purgeVars>>

Phases == {"idle", "size", "join", "accept", "reply", "hangup", "closing",
           "gone"}

(* The state has the types of the Go declarations.                         *)
TypeOK ==
    /\ pc \in [Conns -> Phases]
    /\ at \in [Conns -> Chans \cup {None}]
    /\ callbacks \in [Conns -> SUBSET Chans]
    /\ channels \in [Keys -> Chans \cup {None}]
    /\ created \subseteq Chans
    /\ connections \in [Chans -> [UserIDs -> Conns \cup {None}]]
    /\ closed \in [Chans -> BOOLEAN]
    /\ locked \in [Chans -> BOOLEAN]
    /\ hashed \in [Keys -> SUBSET UserIDs]
    /\ pToScan \subseteq Chans
    /\ pEmpty \subseteq Chans
    /\ pRemove \in Chans \cup {None}

Init ==
    /\ pc = [c \in Conns |-> "idle"]
    /\ at = [c \in Conns |-> None]
    /\ callbacks = [c \in Conns |-> {}]
    /\ channels = [k \in Keys |-> None]
    /\ created = {}
    /\ connections = [ch \in Chans |-> [u \in UserIDs |-> None]]
    /\ closed = [ch \in Chans |-> FALSE]
    /\ locked = [ch \in Chans |-> FALSE]
    /\ hashed = [k \in Keys |-> {}]
    /\ pToScan = {}
    /\ pEmpty = {}
    /\ pRemove = None

IsEmpty(ch) == \A u \in UserIDs : connections[ch][u] = None

(* The handler of c goes on, or returns to the read loop.                  *)
Goto(c, from, to) == pc[c] = from /\ pc' = [pc EXCEPT ![c] = to]

Return(c, from) == Goto(c, from, "idle") /\ at' = [at EXCEPT ![c] = None]

Enter(c, ch, to) == Goto(c, "idle", to) /\ at' = [at EXCEPT ![c] = ch]

-----------------------------------------------------------------------------
(* Channel.Add and Channel.remove.                                         *)

(* Mutant of Add: a replacing connection does not register OnClosed.       *)
AddQuietReplace(c, ch) ==
    LET u == UserOf[c] IN
    /\ ~locked[ch]
    /\ UNCHANGED locked
    /\ IF closed[ch] THEN UNCHANGED <<connections, callbacks>>
       ELSE /\ connections' = [connections EXCEPT ![ch][u] = c]
            /\ callbacks' = IF connections[ch][u] # None THEN callbacks
                            ELSE [callbacks EXCEPT ![c] = @ \cup {ch}]

(* Mutant of Add: the lock is kept whenever the user is already there.     *)
AddKeepsLock(c, ch) ==
    LET u == UserOf[c] IN
    /\ ~locked[ch]
    /\ IF closed[ch] \/ connections[ch][u] # None
       THEN /\ locked' = [locked EXCEPT ![ch] = ~closed[ch]]
            /\ UNCHANGED <<connections, callbacks>>
       ELSE /\ connections' = [connections EXCEPT ![ch][u] = c]
            /\ callbacks' = [callbacks EXCEPT ![c] = @ \cup {ch}]
            /\ UNCHANGED locked

(* Add: closed, already there, already taken without support for Replace   *)
(* (which returns with the lock held), or set and registered with OnClosed.*)
Add(c, ch) ==
    LET u == UserOf[c]
        old == connections[ch][u]
        taken == old # None /\ old # c /\ ~IsGroup(ch)
    IN
    /\ ~locked[ch]
    /\ IF closed[ch] \/ old = c \/ taken
       THEN /\ locked' = [locked EXCEPT ![ch] = ~closed[ch] /\ taken]
            /\ UNCHANGED <<connections, callbacks>>
       ELSE /\ connections' = [connections EXCEPT ![ch][u] = c]
            /\ callbacks' = [callbacks EXCEPT ![c] = @ \cup {ch}]
            /\ UNCHANGED locked

(* Mutant of Remove: by id only.                                           *)
RemoveByID(ch, u, conn) == connections' = [connections EXCEPT ![ch][u] = None]

(* remove: with a connection only that one, with None whoever is there.    *)
Remove(ch, u, conn) ==
    connections' =
        IF conn # None /\ connections[ch][u] # conn THEN connections
        ELSE [connections EXCEPT ![ch][u] = None]

-----------------------------------------------------------------------------
(* processWebRTCMessage.                                                   *)

(* Mutant of Allowed: a message that names no group is not looked at.      *)
AllowedUngrouped(c, g) == g = None \/ g \in Auth[UserOf[c]].groups

(* validateRestrictedWebRTCMessage: the auth of the connection's user      *)
(* allows messages of this group, for every message before anything else.  *)
(* Who is not restricted may name any group, and none.                     *)
Allowed(c, g) == g \in Auth[UserOf[c]].groups

(* webrtc_group: get the group's channel or make it, under the shard lock  *)
(* of m.channels.                                                          *)
GroupUpsert(c, k, ch) ==
    /\ Allowed(c, k)
    /\ \/ channels[k] = ch /\ UNCHANGED <<channels, created>>
       \/ /\ channels[k] = None
          /\ ch \notin created /\ KeyOf[ch] = k
          /\ channels' = [channels EXCEPT ![k] = ch]
          /\ created' = created \cup {ch}
    /\ Enter(c, ch, IF Auth[UserOf[c]].canCreate THEN "join" ELSE "size")
    /\ UNCHANGED <<callbacks, connections, closed, locked, hashed, purgeVars>>

(* webrtc_group: who cannot create channels is refused an empty one.       *)
GroupSize(c) ==
    /\ pc[c] = "size"
    /\ ~locked[at[c]]
    /\ IF IsEmpty(at[c]) THEN Return(c, "size")
       ELSE Goto(c, "size", "join") /\ UNCHANGED at
    /\ UNCHANGED <<callbacks, channelVars, purgeVars>>

(* webrtc_group: add the connection; the reply, with the members and the   *)
(* hash that lets the user send to the channel, follows.                   *)
GroupAdd(c) ==
    LET ch == at[c] IN
    /\ pc[c] = "join"
    /\ Add(c, ch)
    /\ IF closed[ch]
       THEN Return(c, "join") /\ UNCHANGED hashed
       ELSE /\ Goto(c, "join", "reply")
            /\ hashed' = [hashed EXCEPT ![KeyOf[ch]] = @ \cup {UserOf[c]}]
            /\ UNCHANGED at
    /\ UNCHANGED <<channels, created, closed, purgeVars>>

(* webrtc_call of an initiator: make a channel, add the connection, store  *)
(* it, and send its id and hash, made for the two users, to the target's   *)
(* connections.  The message may name any group that is allowed.           *)
CallStart(c, ch, target) ==
    /\ pc[c] = "idle"
    /\ Auth[UserOf[c]].canCreate
    /\ \E g \in GroupKeys \cup {None} : Allowed(c, g)
    /\ target # UserOf[c]
    /\ ch \notin created /\ ~IsGroup(ch)
    /\ Add(c, ch)
    /\ created' = created \cup {ch}
    /\ channels' = [channels EXCEPT ![KeyOf[ch]] = ch]
    /\ hashed' = [hashed EXCEPT ![KeyOf[ch]] = @ \cup {UserOf[c], target}]
    /\ UNCHANGED <<pc, at, closed, purgeVars>>

(* Mutant of HasHash: the hash is not checked.                             *)
HasAnyHash(c, k) == TRUE

(* checkWebRTCMessage: the message has a hash that the server made for the *)
(* user and the channel id.  Which connections it was sent to is not       *)
(* looked at: any connection of the user may present it.                   *)
HasHash(c, k) == UserOf[c] \in hashed[k]

(* A message for the channel with id k that names the group g: it is       *)
(* allowed, the channel is found and, if a group is named, is of it.       *)
ForChannel(c, k, g) ==
    /\ Allowed(c, g)
    /\ channels[k] # None
    /\ g # None => g = k /\ k \in GroupKeys
    /\ HasHash(c, k)

(* webrtc_call of a responder: find the channel and check the hash.  In a  *)
(* group only an accept will do, and the hash that goes to the target is   *)
(* made for a user who is a member; elsewhere it adds the connection.      *)
CallAnswer(c, k, g, accept) ==
    /\ ForChannel(c, k, g)
    /\ g # None => accept
    /\ Enter(c, channels[k], IF g = None /\ accept THEN "accept" ELSE "reply")
    /\ UNCHANGED <<callbacks, channelVars, purgeVars>>

(* webrtc_call: add the accepting connection.                              *)
CallAdd(c) ==
    LET ch == at[c]
        old == connections[ch][UserOf[c]]
    IN
    /\ pc[c] = "accept"
    /\ Add(c, ch)
    /\ IF closed[ch] \/ (old \notin {None, c} /\ ~IsGroup(ch))
       THEN Return(c, "accept")
       ELSE Goto(c, "accept", "reply") /\ UNCHANGED at
    /\ UNCHANGED <<channels, created, closed, hashed, purgeVars>>

(* The handler reads the channel's connections under its read lock, and    *)
(* sends its messages.                                                     *)
Reply(c) ==
    /\ pc[c] = "reply"
    /\ ~locked[at[c]]
    /\ Return(c, "reply")
    /\ UNCHANGED <<callbacks, channelVars, purgeVars>>

(* webrtc_signal and webrtc_hangup: find the channel and check the hash.   *)
SignalOrHangup(c, k, g, hangup) ==
    /\ ForChannel(c, k, g)
    /\ Enter(c, channels[k], IF hangup THEN "hangup" ELSE "reply")
    /\ UNCHANGED <<callbacks, channelVars, purgeVars>>

(* webrtc_hangup: look up the target, remove the user, whichever of the    *)
(* user's connections is in the channel, and send the hangup, to all the   *)
(* target's connections if it is not in the channel.  The hash goes with   *)
(* it, but it is one made before: no other user can present it.            *)
HangupRemove(c) ==
    /\ pc[c] = "hangup"
    /\ ~locked[at[c]]
    /\ Remove(at[c], UserOf[c], None)
    /\ Return(c, "hangup")
    /\ UNCHANGED <<callbacks, channels, created, closed, locked, hashed,
                   purgeVars>>

-----------------------------------------------------------------------------
(* Connection.Close, called by readPump when it ends.                      *)

Close(c) ==
    /\ Goto(c, "idle", "closing")
    /\ UNCHANGED <<at, callbacks, channelVars, purgeVars>>

(* The callback Add registered: remove this connection, and no other.      *)
ClosedCallback(c, ch) ==
    /\ pc[c] = "closing"
    /\ ch \in callbacks[c]
    /\ ~locked[ch]
    /\ Remove(ch, UserOf[c], c)
    /\ callbacks' = [callbacks EXCEPT ![c] = @ \ {ch}]
    /\ UNCHANGED <<pc, at, channels, created, closed, locked, hashed, purgeVars>>

(* All callbacks have run; readPump calls OnDisconnect.                    *)
CloseDone(c) ==
    /\ callbacks[c] = {}
    /\ Goto(c, "closing", "gone")
    /\ UNCHANGED <<at, callbacks, channelVars, purgeVars>>

-----------------------------------------------------------------------------
(* purgeEmptyChannels.                                                     *)

(* The entries of m.channels.  They are read one by one, but a channel put *)
(* in meanwhile is younger than the deadline.                              *)
PurgeStart ==
    /\ pToScan = {} /\ pEmpty = {}
    /\ pToScan' = {channels[k] : k \in Keys} \ {None}
    /\ UNCHANGED <<handlerVars, channelVars, pEmpty, pRemove>>

(* First loop: CanBeCleanedUp, and made before the deadline.               *)
PurgeScan(ch, expired) ==
    /\ ch \in pToScan
    /\ ~locked[ch]
    /\ pToScan' = pToScan \ {ch}
    /\ pEmpty' = IF IsEmpty(ch) /\ expired THEN pEmpty \cup {ch} ELSE pEmpty
    /\ UNCHANGED <<handlerVars, channelVars, pRemove>>

(* Mutants of Cleanup: the channel is not looked at again; the entry of    *)
(* the closed channel stays in m.channels.                                 *)
CleanupUnchecked(ch) ==
    /\ pToScan = {} /\ pRemove = None
    /\ ch \in pEmpty
    /\ ~locked[ch]
    /\ closed' = [closed EXCEPT ![ch] = TRUE]
    /\ pRemove' = ch
    /\ UNCHANGED <<handlerVars, channels, created, connections, locked, hashed,
                   pToScan, pEmpty>>

CleanupKeepsEntry(ch) ==
    /\ pToScan = {} /\ pRemove = None
    /\ ch \in pEmpty
    /\ ~locked[ch]
    /\ closed' = [closed EXCEPT ![ch] = @ \/ IsEmpty(ch)]
    /\ pEmpty' = pEmpty \ {ch}
    /\ UNCHANGED <<handlerVars, channels, created, connections, locked, hashed,
                   pToScan, pRemove>>

(* Second loop: Cleanup looks again and closes the channel.                *)
Cleanup(ch) ==
    /\ pToScan = {} /\ pRemove = None
    /\ ch \in pEmpty
    /\ ~locked[ch]
    /\ IF IsEmpty(ch)
       THEN /\ closed' = [closed EXCEPT ![ch] = TRUE]
            /\ pRemove' = ch
            /\ UNCHANGED pEmpty
       ELSE /\ pEmpty' = pEmpty \ {ch}
            /\ UNCHANGED <<closed, pRemove>>
    /\ UNCHANGED <<handlerVars, channels, created, connections, locked, hashed,
                   pToScan>>

(* Second loop: m.channels.Remove(entry.Key).                              *)
PurgeRemove ==
    /\ pRemove # None
    /\ channels' = [channels EXCEPT ![KeyOf[pRemove]] = None]
    /\ pEmpty' = pEmpty \ {pRemove}
    /\ pRemove' = None
    /\ UNCHANGED <<handlerVars, created, connections, closed, locked, hashed,
                   pToScan>>

-----------------------------------------------------------------------------
(* What a client may send, while its goroutine reads, and a connection's   *)
(* end.                                                                    *)
ClientStep(c) ==
    /\ pc[c] = "idle"
    /\ \/ \E k \in GroupKeys, ch \in Chans : GroupUpsert(c, k, ch)
       \/ \E ch \in Chans, target \in UserIDs : CallStart(c, ch, target)
       \/ \E k \in Keys, g \in GroupKeys \cup {None}, yes \in BOOLEAN :
              CallAnswer(c, k, g, yes) \/ SignalOrHangup(c, k, g, yes)
       \/ Close(c)

(* The rest of a handler, and of Close.                                    *)
HandlerStep(c) ==
    \/ GroupSize(c) \/ GroupAdd(c) \/ CallAdd(c) \/ Reply(c)
    \/ HangupRemove(c) \/ CloseDone(c)
    \/ \E ch \in Chans : ClosedCallback(c, ch)

PurgeStep ==
    \/ PurgeStart
    \/ \E ch \in Chans, expired \in BOOLEAN : PurgeScan(ch, expired)
    \/ \E ch \in Chans : Cleanup(ch)
    \/ PurgeRemove

Next ==
    \/ \E c \in Conns : ClientStep(c) \/ HandlerStep(c)
    \/ PurgeStep

Spec == Init /\ [][Next]_vars

(* Goroutines are scheduled, and a lock that is released is obtained: in   *)
(* this module it is released at once or never, so that a step that waits  *)
(* for it stays enabled or is disabled for good.  The cleanup repeats, so  *)
(* that a channel that stays empty comes to be older than the deadline.    *)
(* Nobody has to send anything.                                            *)
Fairness ==
    /\ \A c \in Conns : WF_vars(HandlerStep(c))
    /\ WF_vars(PurgeStep)
    /\ \A ch \in Chans : SF_vars(PurgeScan(ch, TRUE))

FairSpec == Spec /\ Fairness

-----------------------------------------------------------------------------
(* Properties.                                                             *)

(* A channel with a member is open and is the one found under its id: the  *)
(* cleanup, which looks at a channel, closes it and removes its id in      *)
(* separate steps while others join, never takes away a channel in use,    *)
(* and no group ever has members in two Channel objects.                   *)
MembersReachable ==
    \A ch \in Chans : ~IsEmpty(ch) => ~closed[ch] /\ channels[KeyOf[ch]] = ch

(* Once the callbacks of a closed connection have run it is a member of no *)
(* channel, however joins, replacements and hangups of its user went       *)
(* before.                                                                 *)
NoGhostMember ==
    \A ch \in Chans, u \in UserIDs, c \in Conns :
        connections[ch][u] = c => pc[c] # "gone"

(* A member of a channel is there for a user the server made a hash for:   *)
(* one who joined the group or, in a call channel, the caller or the user  *)
(* called.  It may be any connection of that user, also one that was never *)
(* sent the hash.                                                          *)
MembersHoldHash ==
    \A ch \in Chans, u \in UserIDs :
        LET c == connections[ch][u] IN
        c # None => UserOf[c] = u /\ u \in hashed[KeyOf[ch]]

(* A user whose auth does not let it send messages without a group, which  *)
(* is a guest, is in no channel but those of its groups and, if it may     *)
(* create channels, those of calls: no group, answer or replacement takes  *)
(* it anywhere else, although handlers look at the auth only once, before  *)
(* they look for the channel.                                              *)
GuestsStayInGroup ==
    \A ch \in Chans, u \in UserIDs :
        connections[ch][u] # None /\ None \notin Auth[u].groups =>
            \/ KeyOf[ch] \in Auth[u].groups
            \/ Auth[u].canCreate /\ ~IsGroup(ch)

(* What takes a connection's place in a channel.                           *)
PlaceKept ==
    \A ch \in Chans, u \in UserIDs :
        LET old == connections[ch][u] IN
        old # None /\ connections'[ch][u] # old =>
            \/ pc[old] = "closing"
            \/ \E c \in Conns : /\ UserOf[c] = u /\ at[c] = ch
                                /\ pc[c] \in {"hangup", "join", "accept"}

(* A connection loses its place in a channel by its own close, by a hangup *)
(* of its user, or to a newer connection of its user: the late close of a  *)
(* replaced connection does not remove the one that replaced it.           *)
ReplacementStays == [][PlaceKept]_vars

(* A connection that closes gets to the end of Close, and OnDisconnect is  *)
(* called.                                                                 *)
CloseCompletes ==
    \A c \in Conns : pc[c] = "closing" ~> pc[c] = "gone"

(* A channel nobody is in is removed from m.channels or joined again.      *)
EmptyChannelRemoved ==
    \A ch \in Chans :
        channels[KeyOf[ch]] = ch /\ IsEmpty(ch)
            ~> channels[KeyOf[ch]] # ch \/ ~IsEmpty(ch)

(* A channel is left locked only where a user accepts a call on a second   *)
(* connection: it is no group, a hash for it was made for the user, and    *)
(* another connection of the user is in it still.                          *)
KeptLock ==
    \A ch \in Chans : locked[ch] =>
        /\ ~IsGroup(ch)
        /\ \E c \in Conns : /\ UserOf[c] \in hashed[KeyOf[ch]]
                            /\ connections[ch][UserOf[c]] \notin {None, c}

(* A channel that is left locked stays as it is for good: nobody comes or  *)
(* goes, and the cleanup does not close it.                                *)
LockedForGood ==
    [][\A ch \in Chans : locked[ch] =>
           /\ locked'[ch]
           /\ connections'[ch] = connections[ch]
           /\ closed'[ch] = closed[ch]]_vars

-----------------------------------------------------------------------------
(* What the channels are for: who is in which, by id.                      *)

(* The members of the channel that is found under an id.                   *)
MembersOf(k) ==
    IF channels[k] = None THEN [u \in UserIDs |-> None]
    ELSE connections[channels[k]]

Gone == {c \in Conns : pc[c] = "gone"}

M == INSTANCE Membership
     WITH member <- [k \in Keys |-> MembersOf(k)],
          invited <- hashed,
          gone <- Gone

(* Channels implement Membership: whoever looks only at the members found  *)
(* under each id sees connections of invited users come in one by one,     *)
(* leave one by one and be out everywhere before they are gone.  Making a  *)
(* channel, and the several steps in which the cleanup collects, closes    *)
(* and removes one, are never seen.                                        *)
ImplementsMembership == M!Spec

-----------------------------------------------------------------------------
(* The inductive invariant.                                                *)

(* A member is a connection of its user that will run a callback for the   *)
(* channel and a hash was made for the user; its channel is open.          *)
MemberInv ==
    \A ch \in Chans, u \in UserIDs, c \in Conns :
        connections[ch][u] = c =>
            /\ UserOf[c] = u
            /\ pc[c] # "gone"
            /\ ch \in callbacks[c]
            /\ u \in hashed[KeyOf[ch]]
            /\ ch \in created
            /\ ~closed[ch]

(* A channel is found under its own id, from when it is made until it is   *)
(* closed.                                                                 *)
MapInv ==
    /\ \A k \in Keys, ch \in Chans :
           channels[k] = ch => ch \in created /\ KeyOf[ch] = k
    /\ \A ch \in created : ~closed[ch] => channels[KeyOf[ch]] = ch

(* A handler works on a channel that was made, and one about to add was    *)
(* allowed to; if it gets no hash in return its user has it.               *)
HandlerInv ==
    \A c \in Conns :
        /\ pc[c] \in {"size", "join", "accept", "reply", "hangup"} =>
               at[c] \in created
        /\ pc[c] \in {"size", "join"} => Allowed(c, KeyOf[at[c]])
        /\ pc[c] = "accept" =>
               Allowed(c, None) /\ UserOf[c] \in hashed[KeyOf[at[c]]]

(* What the cleanup has collected stays in m.channels until the cleanup    *)
(* itself removes it.                                                      *)
PurgeInv ==
    /\ \A ch \in pToScan \cup pEmpty : channels[KeyOf[ch]] = ch
    /\ pRemove # None =>
           pRemove \in pEmpty /\ closed[pRemove] /\ pToScan = {}

IInv ==
    /\ TypeOK /\ MemberInv /\ MapInv /\ HandlerInv /\ PurgeInv
    /\ GuestsStayInGroup

=============================================================================
