------------------------------- MODULE Chats --------------------------------
(***************************************************************************)
(* The chat of one channel (signaling/rtm/chats.go): the handlers of the   *)
(* members' chat messages, and the goroutines Channel.Add and              *)
(* Channel.remove start to tell that somebody joined or left.  Both kinds  *)
(* of speakers send to the members' connections one after the other, under *)
(* the channel's chats mutex.                                              *)
(*                                                                         *)
(* A user has one connection here; replacement is the subject of module    *)
(* Channels.  An inbox holds what RawSend put into a connection's send     *)
(* channel; to a slow connection, whose channel fills up, it may fail.     *)
(***************************************************************************)
EXTENDS Naturals, Sequences

CONSTANTS
    Conns,       \* connections
    Present,     \* connections in the channel at first, their notices sent
    Slow,        \* connections whose send channel may be full
    MaxChats,    \* number of chat messages a connection sends
    MaxChanges,  \* number of joins and leaves of a connection
    None

(* The n-th time a connection joins or leaves.                             *)
Changes == UNION {{c} \X (1 .. MaxChanges[c]) : c \in Conns}

(* The goroutines that send under the chats mutex.                         *)
Speakers == Conns \cup Changes

ASSUME ChatsAssumption ==
    /\ Present \subseteq Conns /\ Slow \subseteq Conns
    /\ MaxChats \in [Conns -> Nat] /\ MaxChanges \in [Conns -> Nat]
    /\ None \notin Speakers
    /\ Conns \cap Changes = {}

VARIABLES
    members,   \* Channel.connections
    changes,   \* joins and leaves a connection has made
    chats,     \* chat messages a connection has sent
    pc,        \* where a speaker is
    todo,      \* connections a speaker has yet to send to
    mutex,     \* the speaker that holds the chats mutex, or None
    inbox      \* what a connection was sent, in order

vars == <<members, changes, chats, pc, todo, mutex, inbox>>

Messages == Conns \X {"chat", "queued", "change"} \X (Nat \ {0})

(* What a speaker sends: the chat message, or the notice of the change.    *)
Message(p) == IF p \in Conns THEN <<p, "chat", chats[p]>>
              ELSE <<p[1], "change", p[2]>>

(* The connection a speaker does not send to.                              *)
Self(p) == IF p \in Conns THEN p ELSE p[1]

(* The state has the types of the code's variables.                        *)
TypeOK ==
    /\ members \subseteq Conns
    /\ changes \in [Conns -> Nat]
    /\ chats \in [Conns -> Nat]
    /\ pc \in [Speakers -> {"idle", "lock", "reply", "read", "loop", "report"}]
    /\ todo \in [Speakers -> SUBSET Conns]
    /\ mutex \in Speakers \cup {None}
    /\ inbox \in [Conns -> Seq(Messages)]

Init ==
    /\ members = Present
    /\ changes = [c \in Conns |-> 0]
    /\ chats = [c \in Conns |-> 0]
    /\ pc = [p \in Speakers |-> "idle"]
    /\ todo = [p \in Speakers |-> {}]
    /\ mutex = None
    /\ inbox = [c \in Conns |-> <<>>]

Goto(p, from, to) == pc[p] = from /\ pc' = [pc EXCEPT ![p] = to]

(* RawSend of m to c, which may fail if c is slow.                         *)
Deliver(c, m, fails) ==
    /\ fails => c \in Slow
    /\ inbox' = IF fails THEN inbox ELSE [inbox EXCEPT ![c] = Append(@, m)]

-----------------------------------------------------------------------------
(* Channel.Add and Channel.remove.                                         *)

(* A change starts emitChannelChatsAddOrRemove.                            *)
Change(c, now) ==
    /\ pc[c] = "idle"
    /\ changes[c] < MaxChanges[c]
    /\ members' = now
    /\ changes' = [changes EXCEPT ![c] = @ + 1]
    /\ pc' = [pc EXCEPT ![<<c, changes[c] + 1>>] = "lock"]
    /\ UNCHANGED <<chats, todo, mutex, inbox>>

Join(c) == c \notin members /\ Change(c, members \cup {c})

(* By a hangup, or because the connection closed.                          *)
Leave(c) == c \in members /\ Change(c, members \ {c})

-----------------------------------------------------------------------------
(* processChatsMessage and emitChannelChatsAddOrRemove.                    *)

(* Mutant of Chat: no new message id is made.                              *)
ChatSameID(c) ==
    /\ c \in members
    /\ Goto(c, "idle", "lock")
    /\ UNCHANGED <<members, changes, chats, todo, mutex, inbox>>

(* A chat message of a connection that is in the channel gets an id.       *)
Chat(c) ==
    /\ c \in members
    /\ Goto(c, "idle", "lock")
    /\ chats[c] < MaxChats[c]
    /\ chats' = [chats EXCEPT ![c] = @ + 1]
    /\ UNCHANGED <<members, changes, todo, mutex, inbox>>

(* Mutant of Lock: the mutex is not waited for.                            *)
LockNot(p) ==
    /\ Goto(p, "lock", IF p \in Conns THEN "reply" ELSE "read")
    /\ UNCHANGED <<members, changes, chats, todo, mutex, inbox>>

(* namedMutexLock(channelMutexChats).                                      *)
Lock(p) ==
    /\ Goto(p, "lock", IF p \in Conns THEN "reply" ELSE "read")
    /\ mutex = None
    /\ mutex' = p
    /\ UNCHANGED <<members, changes, chats, todo, inbox>>

(* Mutant of Reply: the mutex is kept when the reply cannot be sent.       *)
ReplyKeepsMutex(c, fails) ==
    /\ Goto(c, "reply", IF fails THEN "idle" ELSE "read")
    /\ Deliver(c, Message(c), fails)
    /\ UNCHANGED <<members, changes, chats, todo, mutex>>

(* The reply to the sender; if it fails, the handler returns.              *)
Reply(c, fails) ==
    /\ Goto(c, "reply", IF fails THEN "idle" ELSE "read")
    /\ Deliver(c, Message(c), fails)
    /\ mutex' = IF fails THEN None ELSE mutex
    /\ UNCHANGED <<members, changes, chats, todo>>

(* channel.Connections().                                                  *)
ReadConnections(p) ==
    /\ Goto(p, "read", "loop")
    /\ todo' = [todo EXCEPT ![p] = members \ {Self(p)}]
    /\ UNCHANGED <<members, changes, chats, mutex, inbox>>

(* RawSend to the next connection, in any order.                           *)
SendNext(p, c, fails) ==
    /\ pc[p] = "loop"
    /\ c \in todo[p]
    /\ todo' = [todo EXCEPT ![p] = @ \ {c}]
    /\ Deliver(c, Message(p), fails)
    /\ UNCHANGED <<members, changes, chats, pc, mutex>>

(* namedMutexUnlock(channelMutexChats).                                    *)
Unlock(p) ==
    /\ Goto(p, "loop", IF p \in Conns THEN "report" ELSE "idle")
    /\ todo[p] = {}
    /\ mutex' = None
    /\ UNCHANGED <<members, changes, chats, todo, inbox>>

(* Tell the sender, outside the mutex, that the message was queued.        *)
Report(c, fails) ==
    /\ Goto(c, "report", "idle")
    /\ Deliver(c, <<c, "queued", chats[c]>>, fails)
    /\ UNCHANGED <<members, changes, chats, todo, mutex>>

-----------------------------------------------------------------------------
SpeakerStep(p) ==
    \/ Lock(p) \/ ReadConnections(p) \/ Unlock(p)
    \/ \E fails \in BOOLEAN, c \in Conns : SendNext(p, c, fails)

HandlerStep(c) ==
    \E fails \in BOOLEAN : Reply(c, fails) \/ Report(c, fails)

Next ==
    \/ \E c \in Conns : Join(c) \/ Leave(c) \/ Chat(c) \/ HandlerStep(c)
    \/ \E p \in Speakers : SpeakerStep(p)

Spec == Init /\ [][Next]_vars

(* Goroutines are scheduled, and sync.Mutex serves everyone who waits.     *)
Fairness ==
    /\ \A c \in Conns : WF_vars(HandlerStep(c))
    /\ \A p \in Speakers : SF_vars(SpeakerStep(p))

FairSpec == Spec /\ Fairness

-----------------------------------------------------------------------------
(* Properties.                                                             *)

(* What the sequences s and t both hold is in the same order in both.      *)
Agree(s, t) ==
    \A i, j \in DOMAIN s, k, l \in DOMAIN t :
        s[i] = t[k] /\ s[j] = t[l] => (i < j <=> k < l)

(* No two connections are sent two chat messages or notices in different   *)
(* orders, the sender's own copy included: all members read the same       *)
(* conversation.                                                           *)
SameOrder == \A c, d \in Conns : Agree(inbox[c], inbox[d])

(* Every chat message and every notice is dealt with: whatever fails, the  *)
(* chats mutex is released.                                                *)
SpeakersEnd == \A p \in Speakers : pc[p] = "lock" ~> pc[p] = "idle"

(* What the holder of the mutex says.                                      *)
Said == {Message(p) : p \in {mutex} \ {None}}

B == INSTANCE Broadcast WITH talk <- Said

(* The chat implements Broadcast: one message or notice at a time, each to *)
(* a connection at most once, those of an author in order, and a report to *)
(* the author only when it was its own turn and is over.                   *)
ImplementsBroadcast == B!Spec

-----------------------------------------------------------------------------
(* The inductive invariant.                                                *)

(* The goroutine of a join or leave starts with it, and a chat message has *)
(* a number by the time it waits for the mutex.                            *)
StartInv ==
    \A c \in Conns :
        /\ changes[c] <= MaxChanges[c]
        /\ \A n \in 1 .. MaxChanges[c] : n > changes[c] => pc[<<c, n>>] = "idle"
        /\ pc[c] # "idle" => chats[c] > 0

(* Who replies, reads the members or sends to them holds the mutex.        *)
MutexInv == \A p \in Speakers : mutex = p <=> pc[p] \in {"reply", "read", "loop"}

(* The speaker may have sent its present message to c.                     *)
By(p, c) ==
    /\ pc[p] \notin {"lock", "reply"}
    /\ pc[p] = "read" => c = p
    /\ pc[p] = "loop" => c \notin todo[p]

(* c may have been sent m.                                                 *)
Sent(m, c) ==
    /\ m[2] = "queued" =>
           m[1] = c /\ m[3] <= chats[c] /\ (m[3] = chats[c] => pc[c] = "idle")
    /\ m[2] = "chat" =>
           m[3] <= chats[m[1]] /\ (m[3] = chats[m[1]] => By(m[1], c))
    /\ m[2] = "change" =>
           m[3] <= changes[m[1]] /\ By(<<m[1], m[3]>>, c)

SentInv == \A c \in Conns : \A i \in DOMAIN inbox[c] : Sent(inbox[c][i], c)

Unique(s) == \A i, j \in DOMAIN s : s[i] = s[j] => i = j

(* Nothing is sent to a connection twice.                                  *)
Distinct == \A c \in Conns : Unique(inbox[c])

(* After the message of the holder of the mutex come reports only.         *)
LastInv ==
    \A p \in Speakers : mutex = p =>
        \A c \in Conns : \A i, j \in DOMAIN inbox[c] :
            inbox[c][i] = Message(p) /\ i < j => inbox[c][j][2] = "queued"

(* The author of a message that is sent to the others has it.              *)
ReplyInv ==
    \A c \in Conns : pc[c] \in {"read", "loop", "report"} =>
        \E i \in DOMAIN inbox[c] : inbox[c][i] = Message(c)

IInv ==
    /\ TypeOK /\ StartInv /\ MutexInv
    /\ SentInv /\ Distinct /\ LastInv /\ SameOrder

=============================================================================
