---------------------------- MODULE ChatsProofs -----------------------------
(***************************************************************************)
(* Proofs about Chats, for any number of connections, chat messages, joins *)
(* and leaves: all members are sent the same conversation.                 *)
(***************************************************************************)
EXTENDS Chats, TLAPS

(* A leaf that names no prover is for the SMT solver.                      *)
USE SMTT(40)

USE ChatsAssumption

(* A change is the number of a join or leave of a connection.              *)
LEMMA ChangeIs ==
  /\ \A p \in Changes : /\ p[1] \in Conns /\ p[2] \in 1 .. MaxChanges[p[1]]
                        /\ p = <<p[1], p[2]>>
  /\ \A c \in Conns : \A n \in 1 .. MaxChanges[c] :
         <<c, n>> \in Changes /\ <<c, n>> \in Speakers
  BY DEF Changes, Speakers

(* What a speaker sends is a message, and it is about a connection.        *)
LEMMA MessageIs ==
  ASSUME TypeOK, StartInv, NEW p \in Speakers, pc[p] # "idle"
  PROVE  Message(p) \in Messages /\ Self(p) \in Conns
<1>1. CASE p \in Conns
  BY <1>1 DEF Message, Self, Messages, StartInv, TypeOK
<1>2. CASE p \in Changes
  <2>1. p \notin Conns /\ p[1] \in Conns /\ p[2] \in Nat \ {0}
    BY <1>2, ChangeIs
  <2>2. QED BY <2>1 DEF Message, Self, Messages
<1>3. QED BY <1>1, <1>2 DEF Speakers

(* The first state satisfies the inductive invariant.                      *)
LEMMA InitIInv == Init => IInv
<1> SUFFICES ASSUME Init PROVE IInv
  OBVIOUS
<1>1. TypeOK
  BY DEF Init, TypeOK
<1>2. StartInv /\ MutexInv
  <2>1. \A p \in Speakers : pc[p] = "idle" /\ mutex # p
    BY DEF Init
  <2>2. \A c \in Conns : c \in Speakers /\ changes[c] = 0 /\ MaxChanges[c] \in Nat
    <3>1. changes = [c \in Conns |-> 0] /\ MaxChanges \in [Conns -> Nat]
      BY Zenon DEF Init
    <3>2. \A c \in Conns : c \in Speakers
      BY Zenon DEF Speakers
    <3>3. QED BY ONLY <3>1, <3>2, Zenon
  <2>3. StartInv
    <3>1. ASSUME NEW c \in Conns
          PROVE  /\ changes[c] <= MaxChanges[c] /\ pc[c] = "idle"
                 /\ \A n \in 1 .. MaxChanges[c] : pc[<<c, n>>] = "idle"
      <4>1. \A n \in 1 .. MaxChanges[c] : <<c, n>> \in Speakers
        BY ChangeIs, Zenon
      <4>2. QED BY ONLY c \in Conns, <2>1, <2>2, <4>1
    <3>2. QED BY ONLY <3>1, Zenon DEF StartInv
  <2>4. MutexInv
    BY ONLY <2>1 DEF MutexInv
  <2>5. QED BY <2>3, <2>4
<1>3. \A c \in Conns : DOMAIN inbox[c] = {}
  <2>1. inbox = [c \in Conns |-> <<>>]
    BY Zenon DEF Init
  <2>2. DOMAIN <<>> = {}
    <3>1. <<>> \in Seq({}) /\ Len(<<>>) = 0
      OBVIOUS
    <3>2. \A s \in Seq({}) : DOMAIN s = 1 .. Len(s)
      OBVIOUS
    <3>3. 1 .. 0 = {}
      OBVIOUS
    <3>4. QED BY ONLY <3>1, <3>2, <3>3, Zenon
  <2>3. QED BY <2>1, <2>2, Zenon
<1>4. SentInv /\ Distinct /\ LastInv /\ SameOrder
  BY <1>3, Zenon DEF SentInv, Distinct, Unique, LastInv, SameOrder, Agree
<1>5. QED BY <1>1, <1>2, <1>4 DEF IInv

(* Delivery of a message keeps the type of the inboxes.                    *)
LEMMA DeliverType ==
  ASSUME TypeOK, NEW c \in Conns, NEW m \in Messages, NEW fails \in BOOLEAN,
         Deliver(c, m, fails)
  PROVE  inbox' \in [Conns -> Seq(Messages)]
  BY DEF Deliver, TypeOK

(* Every step keeps the types.                                             *)
LEMMA NextTypeOK == TypeOK /\ StartInv /\ [Next]_vars => TypeOK'
<1> SUFFICES ASSUME TypeOK, StartInv, [Next]_vars PROVE TypeOK'
  OBVIOUS
<1>1. ASSUME NEW c \in Conns, Join(c) \/ Leave(c) PROVE TypeOK'
  <2>1. PICK now \in SUBSET Conns : Change(c, now)
    BY <1>1 DEF Join, Leave, TypeOK
  <2>2. <<c, changes[c] + 1>> \in Speakers
    <3>1. changes[c] \in Nat /\ MaxChanges[c] \in Nat /\ changes[c] < MaxChanges[c]
      BY <2>1 DEF Change, TypeOK
    <3>2. changes[c] + 1 \in 1 .. MaxChanges[c]
      BY ONLY <3>1
    <3>3. QED BY ONLY <3>2, ChangeIs
  <2>3. QED BY <2>1, <2>2 DEF Change, TypeOK
<1>2. ASSUME NEW c \in Conns, Chat(c) PROVE TypeOK'
  BY <1>2 DEF Chat, Goto, TypeOK, Speakers
<1>3. ASSUME NEW p \in Speakers, Lock(p) \/ ReadConnections(p) \/ Unlock(p)
      PROVE  TypeOK'
  <2>1. CASE Lock(p)
    BY <2>1 DEF Lock, Goto, TypeOK
  <2>2. CASE ReadConnections(p)
    BY <2>2 DEF ReadConnections, Goto, TypeOK
  <2>3. CASE Unlock(p)
    BY <2>3 DEF Unlock, Goto, TypeOK
  <2>4. QED BY <1>3, <2>1, <2>2, <2>3
<1>4. ASSUME NEW p \in Speakers, NEW fails \in BOOLEAN, NEW c \in Conns,
             SendNext(p, c, fails)
      PROVE  TypeOK'
  <2>1. inbox' \in [Conns -> Seq(Messages)]
    BY <1>4, DeliverType, MessageIs DEF SendNext
  <2>2. QED BY <1>4, <2>1 DEF SendNext, TypeOK
<1>5. ASSUME NEW c \in Conns, NEW fails \in BOOLEAN, Reply(c, fails)
      PROVE  TypeOK'
  <2>1. inbox' \in [Conns -> Seq(Messages)]
    BY <1>5, DeliverType, MessageIs DEF Reply, Goto, Speakers
  <2>2. QED BY <1>5, <2>1 DEF Reply, Goto, TypeOK, Speakers
<1>6. ASSUME NEW c \in Conns, NEW fails \in BOOLEAN, Report(c, fails)
      PROVE  TypeOK'
  <2>1. <<c, "queued", chats[c]>> \in Messages
    <3>1. chats[c] \in Nat /\ chats[c] > 0
      BY <1>6 DEF Report, Goto, StartInv, TypeOK
    <3>2. chats[c] \in Nat \ {0}
      BY ONLY <3>1
    <3>3. QED BY ONLY <3>2, c \in Conns DEF Messages
  <2>2. inbox' \in [Conns -> Seq(Messages)]
    BY <1>6, <2>1, DeliverType DEF Report
  <2>3. QED BY <1>6, <2>2 DEF Report, Goto, TypeOK, Speakers
<1>7. CASE UNCHANGED vars
  BY <1>7 DEF vars, TypeOK
<1>8. QED
  BY <1>1, <1>2, <1>3, <1>4, <1>5, <1>6, <1>7 DEF Next, HandlerStep, SpeakerStep

(* Every step keeps StartInv.                                              *)
LEMMA NextStart == TypeOK /\ StartInv /\ [Next]_vars => StartInv'
<1> SUFFICES ASSUME TypeOK, StartInv, [Next]_vars, NEW c \in Conns
             PROVE  /\ changes'[c] <= MaxChanges[c]
                    /\ \A n \in 1 .. MaxChanges[c] :
                           n > changes'[c] => pc'[<<c, n>>] = "idle"
                    /\ pc'[c] # "idle" => chats'[c] > 0
  BY DEF StartInv
<1>0. /\ changes[c] \in Nat /\ chats[c] \in Nat /\ MaxChanges[c] \in Nat
      /\ c \in Speakers
      /\ \A n \in 1 .. MaxChanges[c] : <<c, n>> \in Speakers /\ <<c, n>> \notin Conns
  BY ChangeIs DEF TypeOK, Speakers
<1>1. /\ changes[c] <= MaxChanges[c]
      /\ \A n \in 1 .. MaxChanges[c] : n > changes[c] => pc[<<c, n>>] = "idle"
      /\ pc[c] # "idle" => chats[c] > 0
  BY DEF StartInv
<1>2. ASSUME NEW d \in Conns, Join(d) \/ Leave(d)
      PROVE  /\ changes'[c] <= MaxChanges[c]
             /\ \A n \in 1 .. MaxChanges[c] :
                    n > changes'[c] => pc'[<<c, n>>] = "idle"
             /\ pc'[c] # "idle" => chats'[c] > 0
  <2>1. /\ changes[d] < MaxChanges[d] /\ changes[d] \in Nat /\ MaxChanges[d] \in Nat
        /\ changes' = [changes EXCEPT ![d] = @ + 1]
        /\ pc' = [pc EXCEPT ![<<d, changes[d] + 1>>] = "lock"]
        /\ UNCHANGED chats
    BY <1>2 DEF Join, Leave, Change, TypeOK
  <2>2. <<d, changes[d] + 1>> \in Changes
    BY <2>1, ChangeIs
  <2>3. pc'[c] = pc[c] /\ pc \in [Speakers -> {"idle", "lock", "reply", "read", "loop", "report"}]
    <3>1. pc \in [Speakers -> {"idle", "lock", "reply", "read", "loop", "report"}]
      BY Zenon DEF TypeOK
    <3>2. c # <<d, changes[d] + 1>>
      BY ONLY c \in Conns, <2>2, ChatsAssumption, Zenon
    <3>3. QED BY ONLY <1>0, <2>1, <3>1, <3>2
  <2>4. CASE c # d
    <3>1. changes'[c] = changes[c]
      BY <2>1, <2>4 DEF TypeOK
    <3>2. \A n \in 1 .. MaxChanges[c] : pc'[<<c, n>>] = pc[<<c, n>>]
      BY <1>0, <2>1, <2>3, <2>4
    <3>3. QED BY <1>1, <2>1, <2>3, <3>1, <3>2
  <2>5. CASE c = d
    <3>1. changes'[c] = changes[c] + 1
      BY <2>1, <2>5 DEF TypeOK
    <3>2. \A n \in 1 .. MaxChanges[c] : n > changes[c] + 1 => pc'[<<c, n>>] = pc[<<c, n>>]
      BY <1>0, <2>1, <2>3, <2>5
    <3>3. QED BY <1>0, <1>1, <2>1, <2>3, <2>5, <3>1, <3>2
  <2>6. QED BY <2>4, <2>5
<1>3. ASSUME NEW d \in Conns, Chat(d)
      PROVE  /\ changes'[c] <= MaxChanges[c]
             /\ \A n \in 1 .. MaxChanges[c] :
                    n > changes'[c] => pc'[<<c, n>>] = "idle"
             /\ pc'[c] # "idle" => chats'[c] > 0
  <2>1. /\ UNCHANGED changes
        /\ \A n \in 1 .. MaxChanges[c] : pc'[<<c, n>>] = pc[<<c, n>>]
        /\ chats'[c] > 0 \/ (chats'[c] = chats[c] /\ pc'[c] = pc[c])
    <3>1. /\ UNCHANGED changes /\ chats' = [chats EXCEPT ![d] = @ + 1]
          /\ pc' = [pc EXCEPT ![d] = "lock"]
          /\ pc \in [Speakers -> {"idle", "lock", "reply", "read", "loop", "report"}]
          /\ chats \in [Conns -> Nat]
      BY <1>3 DEF Chat, Goto, TypeOK
    <3>2. \A n \in 1 .. MaxChanges[c] : pc'[<<c, n>>] = pc[<<c, n>>]
      BY ONLY <1>0, <3>1, d \in Conns
    <3>3. chats'[c] > 0 \/ (chats'[c] = chats[c] /\ pc'[c] = pc[c])
      BY ONLY <1>0, <3>1, d \in Conns, c \in Conns
    <3>4. QED BY <3>1, <3>2, <3>3
  <2>2. QED BY <1>1, <2>1
<1>4. ASSUME UNCHANGED <<changes, chats>>,
             \A p \in Speakers : pc[p] = "idle" => pc'[p] = "idle"
      PROVE  /\ changes'[c] <= MaxChanges[c]
             /\ \A n \in 1 .. MaxChanges[c] :
                    n > changes'[c] => pc'[<<c, n>>] = "idle"
             /\ pc'[c] # "idle" => chats'[c] > 0
  BY <1>0, <1>1, <1>4
<1>5. ASSUME NEW p \in Speakers, Lock(p) \/ ReadConnections(p) \/ Unlock(p)
      PROVE  /\ UNCHANGED <<changes, chats>>
             /\ \A q \in Speakers : pc[q] = "idle" => pc'[q] = "idle"
  BY <1>5 DEF Lock, ReadConnections, Unlock, Goto, TypeOK
<1>6. ASSUME NEW p \in Speakers, NEW fails \in BOOLEAN, NEW d \in Conns,
             SendNext(p, d, fails)
      PROVE  UNCHANGED <<changes, chats, pc>>
  BY <1>6 DEF SendNext
<1>7. ASSUME NEW d \in Conns, NEW fails \in BOOLEAN,
             Reply(d, fails) \/ Report(d, fails)
      PROVE  /\ UNCHANGED <<changes, chats>>
             /\ \A q \in Speakers : pc[q] = "idle" => pc'[q] = "idle"
  BY <1>7 DEF Reply, Report, Goto, TypeOK
<1>8. CASE UNCHANGED vars
  BY <1>4, <1>8 DEF vars
<1>9. QED
  BY <1>2, <1>3, <1>4, <1>5, <1>6, <1>7, <1>8 DEF Next, HandlerStep, SpeakerStep

(* Every step keeps MutexInv.                                              *)
LEMMA NextMutex == TypeOK /\ StartInv /\ MutexInv /\ [Next]_vars => MutexInv'
<1> SUFFICES ASSUME TypeOK, StartInv, MutexInv, [Next]_vars PROVE MutexInv'
  OBVIOUS
<1> USE DEF MutexInv
<1>0. /\ pc \in [Speakers -> {"idle", "lock", "reply", "read", "loop", "report"}]
      /\ Conns \subseteq Speakers /\ None \notin Speakers
  BY DEF TypeOK, Speakers
<1>1. ASSUME NEW c \in Conns, Join(c) \/ Leave(c) PROVE MutexInv'
  <2>1. /\ pc' = [pc EXCEPT ![<<c, changes[c] + 1>>] = "lock"] /\ UNCHANGED mutex
        /\ changes[c] < MaxChanges[c] /\ changes[c] \in Nat /\ MaxChanges[c] \in Nat
    BY <1>1 DEF Join, Leave, Change, TypeOK
  <2>2. changes[c] + 1 \in 1 .. MaxChanges[c] /\ changes[c] + 1 > changes[c]
    BY ONLY <2>1
  <2>3. pc[<<c, changes[c] + 1>>] = "idle" /\ <<c, changes[c] + 1>> \in Speakers
    BY <2>2, ChangeIs DEF StartInv
  <2>4. QED BY ONLY <1>0, <2>1, <2>3, MutexInv
<1>2. ASSUME NEW c \in Conns, Chat(c) PROVE MutexInv'
  BY <1>0, <1>2 DEF Chat, Goto
<1>3. ASSUME NEW p \in Speakers, Lock(p) PROVE MutexInv'
  BY <1>0, <1>3 DEF Lock, Goto
<1>4. ASSUME NEW p \in Speakers, ReadConnections(p) PROVE MutexInv'
  BY <1>0, <1>4 DEF ReadConnections, Goto
<1>5. ASSUME NEW p \in Speakers, Unlock(p) PROVE MutexInv'
  BY <1>0, <1>5 DEF Unlock, Goto
<1>6. ASSUME NEW p \in Speakers, NEW fails \in BOOLEAN, NEW c \in Conns,
             SendNext(p, c, fails)
      PROVE  MutexInv'
  BY <1>6 DEF SendNext
<1>7. ASSUME NEW c \in Conns, NEW fails \in BOOLEAN, Reply(c, fails)
      PROVE  MutexInv'
  BY <1>0, <1>7 DEF Reply, Goto
<1>8. ASSUME NEW c \in Conns, NEW fails \in BOOLEAN, Report(c, fails)
      PROVE  MutexInv'
  BY <1>0, <1>8 DEF Report, Goto
<1>9. CASE UNCHANGED vars
  BY <1>9 DEF vars
<1>10. QED
  BY <1>1, <1>2, <1>3, <1>4, <1>5, <1>6, <1>7, <1>8, <1>9
  DEF Next, HandlerStep, SpeakerStep

-----------------------------------------------------------------------------
(* What may have been sent.                                                *)

(* The present message of a speaker may only be where the speaker has been.*)
LEMMA SentMessage ==
  ASSUME TypeOK, NEW p \in Speakers, NEW c \in Conns, Sent(Message(p), c)
  PROVE  By(p, c)
<1>1. CASE p \in Conns
  BY <1>1 DEF Sent, Message
<1>2. CASE p \in Changes
  BY <1>2, ChangeIs DEF Sent, Message
<1>3. QED BY <1>1, <1>2 DEF Speakers

(* A message that a speaker has sent to c after the step has got there.    *)
LEMMA MessageSent ==
  ASSUME TypeOK, StartInv, NEW p \in Speakers, NEW c \in Conns,
         pc[p] # "idle", By(p, c)
  PROVE  Sent(Message(p), c)
<1>1. CASE p \in Conns
  BY <1>1 DEF Sent, Message, TypeOK
<1>2. CASE p \in Changes
  <2>1. /\ p \notin Conns /\ p[1] \in Conns /\ p[2] \in 1 .. MaxChanges[p[1]]
        /\ p = <<p[1], p[2]>> /\ changes[p[1]] \in Nat /\ MaxChanges[p[1]] \in Nat
    BY <1>2, ChangeIs DEF TypeOK
  <2>2. ~(p[2] > changes[p[1]])
    BY <2>1 DEF StartInv
  <2>3. p[2] <= changes[p[1]]
    BY ONLY <2>1, <2>2
  <2>4. QED BY <2>1, <2>3 DEF Sent, Message
<1>3. QED BY <1>1, <1>2 DEF Speakers

(* The same of all speakers, in this state and in the next.                *)
SentAll ==
  TypeOK /\ StartInv => \A p \in Speakers, c \in Conns :
                            pc[p] # "idle" /\ By(p, c) => Sent(Message(p), c)

LEMMA MessageSentNext == SentAll'
<1>1. SentAll
  BY MessageSent DEF SentAll
<1>2. QED BY <1>1, PTL

(* What may have been sent stays so in a step that changes no number and   *)
(* makes no speaker take back what it has sent.                            *)
LEMMA SentStays ==
  ASSUME TypeOK, UNCHANGED <<chats, changes>>,
         NEW x \in Messages, NEW c \in Conns, Sent(x, c), StartInv,
         pc[c] = "idle" => pc'[c] = "idle",
         \A p \in Speakers : By(p, c) => By(p, c)'
  PROVE  Sent(x, c)'
<1>1. /\ x[1] \in Conns /\ x[3] \in Nat \ {0} /\ Conns \subseteq Speakers
  BY DEF Messages, Speakers
<1>2. x[2] = "change" => <<x[1], x[3]>> \in Speakers
  <2>1. x[2] = "change" => x[3] <= changes[x[1]] /\ changes[x[1]] <= MaxChanges[x[1]]
    BY <1>1 DEF Sent, StartInv
  <2>2. changes[x[1]] \in Nat /\ MaxChanges[x[1]] \in Nat
    BY <1>1 DEF TypeOK
  <2>3. x[2] = "change" => x[3] \in 1 .. MaxChanges[x[1]]
    BY ONLY <1>1, <2>1, <2>2
  <2>4. QED BY <1>1, <2>3, ChangeIs
<1>3. QED BY <1>1, <1>2 DEF Sent

(* In no step does anything cease to be what may have been sent.           *)
LEMMA NextSent ==
  ASSUME TypeOK, StartInv, [Next]_vars,
         NEW x \in Messages, NEW c \in Conns, Sent(x, c)
  PROVE  Sent(x, c)'
<1>0. /\ pc \in [Speakers -> {"idle", "lock", "reply", "read", "loop", "report"}]
      /\ todo \in [Speakers -> SUBSET Conns]
      /\ chats \in [Conns -> Nat] /\ changes \in [Conns -> Nat]
      /\ Conns \subseteq Speakers
  BY DEF TypeOK, Speakers
<1>1. x[1] \in Conns /\ x[3] \in Nat
  BY DEF Messages
<1>2. ASSUME NEW d \in Conns, Join(d) \/ Leave(d) PROVE Sent(x, c)'
  <2>1. /\ changes[d] < MaxChanges[d] /\ changes[d] \in Nat /\ MaxChanges[d] \in Nat
        /\ changes' = [changes EXCEPT ![d] = @ + 1]
        /\ pc' = [pc EXCEPT ![<<d, changes[d] + 1>>] = "lock"]
        /\ UNCHANGED <<chats, todo>>
    BY <1>2 DEF Join, Leave, Change, TypeOK
  <2>2. <<d, changes[d] + 1>> \in Changes
    BY <2>1, ChangeIs
  <2>3. \A p \in Conns : p # <<d, changes[d] + 1>>
    BY ONLY <2>2, ChatsAssumption, Zenon
  <2>4. \A p \in Conns : pc'[p] = pc[p]
    BY ONLY <1>0, <2>1, <2>3
  <2>5. CASE x[2] # "change"
    BY <1>1, <2>1, <2>4, <2>5 DEF Sent, By
  <2>6. CASE x[2] = "change"
    <3>1. x[3] <= changes[x[1]] /\ By(<<x[1], x[3]>>, c)
      BY <2>6 DEF Sent
    <3>2. <<x[1], x[3]>> # <<d, changes[d] + 1>>
      BY ONLY <1>1, <2>1, <3>1
    <3>3. pc'[<<x[1], x[3]>>] = pc[<<x[1], x[3]>>]
      <4>1. <<x[1], x[3]>> \in Speakers
        <5>1. x[3] \in 1 .. MaxChanges[x[1]]
          <6>1. changes[x[1]] <= MaxChanges[x[1]] /\ x[3] # 0
            BY <1>1 DEF StartInv, Messages
          <6>2. changes[x[1]] \in Nat /\ MaxChanges[x[1]] \in Nat
            BY <1>0, <1>1
          <6>3. QED BY ONLY <1>1, <3>1, <6>1, <6>2
        <5>2. QED BY <1>1, <5>1, ChangeIs
      <4>2. QED BY ONLY <1>0, <2>1, <3>2, <4>1
    <3>4. x[3] <= changes'[x[1]]
      <4>1. changes'[x[1]] \in {changes[x[1]], changes[x[1]] + 1} /\ changes[x[1]] \in Nat
        BY ONLY <1>0, <1>1, <2>1
      <4>2. QED BY ONLY <1>1, <3>1, <4>1
    <3>5. QED BY <2>1, <2>6, <3>1, <3>3, <3>4 DEF Sent, By
  <2>7. QED BY <2>5, <2>6
<1>3. ASSUME NEW d \in Conns, Chat(d) PROVE Sent(x, c)'
  <2>1. /\ chats' = [chats EXCEPT ![d] = @ + 1] /\ UNCHANGED <<changes, todo>>
        /\ pc[d] = "idle" /\ pc' = [pc EXCEPT ![d] = "lock"]
    BY <1>3 DEF Chat, Goto
  <2>2. CASE x[2] = "queued"
    BY <1>0, <1>1, <2>1, <2>2 DEF Sent
  <2>3. CASE x[2] = "chat"
    <3>1. CASE x[1] = d
      BY <1>0, <1>1, <2>1, <2>3, <3>1 DEF Sent
    <3>2. CASE x[1] # d
      BY <1>0, <1>1, <2>1, <2>3, <3>2 DEF Sent, By
    <3>3. QED BY <3>1, <3>2
  <2>4. CASE x[2] = "change"
    <3>1. <<x[1], x[3]>> # d
      <4>1. x[3] <= changes[x[1]] /\ changes[x[1]] <= MaxChanges[x[1]] /\ x[3] # 0
        BY <1>1, <2>4 DEF Sent, StartInv, Messages
      <4>2. changes[x[1]] \in Nat /\ MaxChanges[x[1]] \in Nat
        BY <1>0, <1>1
      <4>3. x[3] \in 1 .. MaxChanges[x[1]]
        BY ONLY <1>1, <4>1, <4>2
      <4>4. <<x[1], x[3]>> \in Changes
        BY <1>1, <4>3, ChangeIs
      <4>5. QED BY ONLY d \in Conns, <4>4, ChatsAssumption, Zenon
    <3>2. pc'[<<x[1], x[3]>>] = pc[<<x[1], x[3]>>]
      BY ONLY <1>0, <2>1, <3>1, d \in Conns
    <3>3. QED BY <2>1, <2>4, <3>2 DEF Sent, By
  <2>5. QED BY <2>2, <2>3, <2>4 DEF Messages
<1>4. ASSUME NEW p \in Speakers, Lock(p) \/ ReadConnections(p) \/ Unlock(p)
      PROVE  Sent(x, c)'
  <2>1. UNCHANGED <<chats, changes>> /\ (pc[c] = "idle" => pc'[c] = "idle")
    BY <1>0, <1>4 DEF Lock, ReadConnections, Unlock, Goto
  <2>2. By(p, c) => By(p, c)'
    <3>1. CASE Lock(p)
      BY <1>0, <3>1 DEF Lock, Goto, By
    <3>2. CASE ReadConnections(p)
      <4>1. By(p, c) => p = c /\ Self(p) = c
        BY <3>2 DEF By, ReadConnections, Goto, Self
      <4>2. QED BY <1>0, <3>2, <4>1 DEF By, ReadConnections, Goto
    <3>3. CASE Unlock(p)
      BY <1>0, <3>3 DEF Unlock, Goto, By
    <3>4. QED BY <1>4, <3>1, <3>2, <3>3
  <2>3. \A q \in Speakers : q # p => pc'[q] = pc[q] /\ todo'[q] = todo[q]
    BY <1>0, <1>4 DEF Lock, ReadConnections, Unlock, Goto
  <2>4. \A q \in Speakers : By(q, c) => By(q, c)'
    BY <2>2, <2>3 DEF By
  <2>5. QED BY <2>1, <2>4, SentStays
<1>5. ASSUME NEW p \in Speakers, NEW fails \in BOOLEAN, NEW d \in Conns,
             SendNext(p, d, fails)
      PROVE  Sent(x, c)'
  <2>1. /\ UNCHANGED <<chats, changes, pc>>
        /\ \A q \in Speakers : todo'[q] \subseteq todo[q]
    BY <1>0, <1>5 DEF SendNext
  <2>2. \A q \in Speakers : By(q, c) => By(q, c)'
    BY <2>1 DEF By
  <2>3. QED BY <2>1, <2>2, SentStays
<1>6. ASSUME NEW d \in Conns, NEW fails \in BOOLEAN,
             Reply(d, fails) \/ Report(d, fails)
      PROVE  Sent(x, c)'
  <2>1. /\ UNCHANGED <<chats, changes, todo>>
        /\ \A q \in Speakers : q # d => pc'[q] = pc[q]
        /\ \/ pc[d] = "reply"
           \/ pc[d] = "report" /\ pc'[d] = "idle"
    BY <1>0, <1>6 DEF Reply, Report, Goto
  <2>2. \A q \in Speakers : By(q, c) => By(q, c)'
    BY <2>1 DEF By
  <2>3. pc[c] = "idle" => pc'[c] = "idle"
    BY <1>0, <2>1
  <2>4. QED BY <2>1, <2>2, <2>3, SentStays
<1>7. CASE UNCHANGED vars
  BY <1>7, SentStays DEF vars, By
<1>8. QED
  BY <1>2, <1>3, <1>4, <1>5, <1>6, <1>7 DEF Next, HandlerStep, SpeakerStep

-----------------------------------------------------------------------------
(* The order of the inboxes.                                               *)

(* What is in a sequence after an Append.                                  *)
LEMMA AppendAt ==
  ASSUME NEW s \in Seq(Messages), NEW m \in Messages
  PROVE  /\ \A i \in DOMAIN Append(s, m) :
                \/ i \in DOMAIN s /\ Append(s, m)[i] = s[i]
                \/ i = Len(s) + 1 /\ Append(s, m)[i] = m
         /\ \A i \in DOMAIN s : i \in Nat /\ i < Len(s) + 1
         /\ Len(s) \in Nat
  OBVIOUS

(* A message that is not there may be appended.                            *)
LEMMA AppendUnique ==
  ASSUME NEW s \in Seq(Messages), NEW m \in Messages, Unique(s),
         \A i \in DOMAIN s : s[i] # m
  PROVE  Unique(Append(s, m))
<1> DEFINE t == Append(s, m)
<1> SUFFICES ASSUME NEW i \in DOMAIN t, NEW j \in DOMAIN t, t[i] = t[j] PROVE i = j
  BY DEF Unique
<1>1. \A k \in DOMAIN t : \/ k \in DOMAIN s /\ t[k] = s[k]
                          \/ k = Len(s) + 1 /\ t[k] = m
  BY AppendAt
<1> HIDE DEF t
<1>2. CASE i \in DOMAIN s /\ t[i] = s[i]
  BY <1>1, <1>2, Zenon DEF Unique
<1>3. CASE i = Len(s) + 1 /\ t[i] = m
  BY <1>1, <1>3, Zenon
<1>4. QED BY <1>1, <1>2, <1>3, Zenon

(* A message may be appended to s that is not there, if t holds nothing of *)
(* s after it.                                                             *)
LEMMA AppendAgree ==
  ASSUME NEW s \in Seq(Messages), NEW t \in Seq(Messages), NEW m \in Messages,
         Agree(s, t), Unique(t), \A i \in DOMAIN s : s[i] # m,
         \A k, l \in DOMAIN t, i \in DOMAIN s : t[k] = m /\ k < l => t[l] # s[i]
  PROVE  Agree(Append(s, m), t) /\ Agree(t, Append(s, m))
<1> DEFINE u == Append(s, m)
<1>0. /\ \A k \in DOMAIN t : k \in Nat
      /\ \A k \in DOMAIN u : \/ k \in DOMAIN s /\ u[k] = s[k]
                             \/ k = Len(s) + 1 /\ u[k] = m
  BY AppendAt
<1> HIDE DEF u
<1>1. ASSUME NEW i \in DOMAIN u, NEW j \in DOMAIN u,
             NEW k \in DOMAIN t, NEW l \in DOMAIN t, u[i] = t[k], u[j] = t[l]
      PROVE  i < j <=> k < l
  <2>0. k \in Nat /\ l \in Nat
    BY <1>0
  <2>1. CASE i \in DOMAIN s /\ u[i] = s[i] /\ j \in DOMAIN s /\ u[j] = s[j]
    BY <1>1, <2>1, Zenon DEF Agree
  <2>2. CASE i \in DOMAIN s /\ u[i] = s[i] /\ j = Len(s) + 1 /\ u[j] = m
    <3>1. i < j
      BY <2>2, AppendAt
    <3>2. ~(l < k) /\ l # k
      BY <1>1, <2>2, Zenon
    <3>3. QED BY ONLY <2>0, <3>1, <3>2
  <2>3. CASE i = Len(s) + 1 /\ u[i] = m /\ j \in DOMAIN s /\ u[j] = s[j]
    <3>1. j < i /\ i \in Nat /\ j \in Nat
      BY <2>3, AppendAt
    <3>2. ~(k < l)
      BY <1>1, <2>3, Zenon
    <3>3. QED BY ONLY <3>1, <3>2
  <2>4. CASE i = Len(s) + 1 /\ u[i] = m /\ j = Len(s) + 1 /\ u[j] = m
    <3>1. k = l
      BY <1>1, <2>4 DEF Unique
    <3>2. i = j /\ i \in Nat
      BY <2>4, AppendAt
    <3>3. QED BY ONLY <2>0, <3>1, <3>2
  <2>5. QED BY <1>0, <2>1, <2>2, <2>3, <2>4, Zenon
<1>2. Agree(u, t)
  BY <1>1, Zenon DEF Agree
<1>3. Agree(t, u)
  BY <1>1, Zenon DEF Agree
<1>4. QED BY <1>2, <1>3, Zenon DEF u

(* A sequence without repetition agrees with itself.                       *)
LEMMA UniqueAgree ==
  ASSUME NEW s, Unique(s)
  PROVE  Agree(s, s)
  BY Zenon DEF Unique, Agree

(* The parts of IInv that are about the inboxes.                           *)
Inboxes == SentInv /\ Distinct /\ LastInv /\ SameOrder

(* A step that delivers nothing.                                           *)
LEMMA SilentInboxes ==
  ASSUME IInv, [Next]_vars, UNCHANGED inbox,
         \A p \in Speakers : mutex' = p =>
             /\ Message(p)' = Message(p)
             /\ mutex = p \/ pc[p] = "lock"
  PROVE  Inboxes'
<1>1. \A c \in Conns : \A i \in DOMAIN inbox[c] :
          inbox[c][i] \in Messages /\ Sent(inbox[c][i], c)
  BY DEF IInv, TypeOK, SentInv
<1>2. \A c \in Conns : \A x \in Messages : Sent(x, c) => Sent(x, c)'
  BY NextSent DEF IInv
<1>3. SentInv'
  <2>1. ASSUME NEW c \in Conns, NEW i \in DOMAIN inbox[c]
        PROVE  Sent(inbox[c][i], c)'
    <3>1. PICK x \in Messages : x = inbox[c][i] /\ x = inbox'[c][i] /\ Sent(x, c)
      BY <1>1
    <3>2. Sent(x, c)'
      BY <1>2, <3>1
    <3>3. QED BY <3>1, <3>2 DEF Sent, By
  <2>2. QED BY <2>1 DEF SentInv
<1>4. Distinct' /\ SameOrder'
  BY DEF IInv, Distinct, SameOrder, Unique, Agree
<1>5. LastInv'
  <2> SUFFICES ASSUME NEW p \in Speakers, mutex' = p, NEW c \in Conns,
                      NEW i \in DOMAIN inbox[c], NEW j \in DOMAIN inbox[c],
                      inbox[c][i] = Message(p), i < j
               PROVE  inbox[c][j][2] = "queued"
    BY DEF LastInv
  <2>1. By(p, c)
    BY <1>1, SentMessage DEF IInv
  <2>2. mutex = p
    BY <2>1 DEF By
  <2>3. QED BY <2>2 DEF IInv, LastInv
<1>6. QED BY <1>3, <1>4, <1>5 DEF Inboxes

(* m is delivered to d.                                                    *)
Got(d, m) == inbox' = [inbox EXCEPT ![d] = Append(@, m)]

(* It may be: it comes from the holder of the mutex, or is a report to d.  *)
May(d, m) ==
  \/ m[2] = "queued" /\ m[1] = d
  \/ \E p \in Speakers : mutex = p /\ m = Message(p)

(* A step that delivers to d what cannot have been sent to it before: the  *)
(* message of the holder of the mutex, or a report to d.                   *)
LEMMA DeliverInboxes ==
  ASSUME IInv, [Next]_vars, NEW d \in Conns, NEW m \in Messages,
         Got(d, m), mutex' = mutex, chats' = chats,
         ~Sent(m, d), Sent(m, d)', May(d, m)
  PROVE  Inboxes'
<1>1. /\ inbox \in [Conns -> Seq(Messages)]
      /\ inbox'[d] = Append(inbox[d], m)
      /\ \A c \in Conns : c # d => inbox'[c] = inbox[c]
  BY DEF IInv, TypeOK, Got
<1>2. \A c \in Conns : \A i \in DOMAIN inbox[c] :
          inbox[c][i] \in Messages /\ Sent(inbox[c][i], c)
  BY <1>1 DEF IInv, SentInv
<1>3. \A i \in DOMAIN inbox[d] : inbox[d][i] # m
  BY <1>2
<1>4. \A c \in Conns : \A i \in DOMAIN inbox'[c] :
          \/ i \in DOMAIN inbox[c] /\ inbox'[c][i] = inbox[c][i]
          \/ c = d /\ i = Len(inbox[d]) + 1 /\ inbox'[c][i] = m
  <2>1. ASSUME NEW i \in DOMAIN inbox'[d]
        PROVE  \/ i \in DOMAIN inbox[d] /\ inbox'[d][i] = inbox[d][i]
               \/ i = Len(inbox[d]) + 1 /\ inbox'[d][i] = m
    BY <1>1, AppendAt
  <2>2. ASSUME NEW c \in Conns, c # d, NEW i \in DOMAIN inbox'[c]
        PROVE  i \in DOMAIN inbox[c] /\ inbox'[c][i] = inbox[c][i]
    <3>1. inbox'[c] = inbox[c]
      BY <1>1, <2>2
    <3>2. QED BY <2>2, <3>1, Zenon
  <2>3. QED BY <2>1, <2>2, Zenon
<1>5. SentInv'
  <2>1. ASSUME NEW c \in Conns, NEW i \in DOMAIN inbox'[c]
        PROVE  Sent(inbox[c][i], c)'
    <3>1. PICK x \in Messages : x = inbox'[c][i] /\ (Sent(x, c) \/ (x = m /\ c = d))
      BY <1>2, <1>4
    <3>2. Sent(x, c)'
      BY <3>1, NextSent DEF IInv
    <3>3. QED BY ONLY <3>1, <3>2 DEF Sent, By
  <2>2. QED BY ONLY <2>1, Zenon DEF SentInv
<1>6. ASSUME NEW c \in Conns, c # d, NEW i \in DOMAIN inbox[c],
             NEW j \in DOMAIN inbox[c], NEW k \in DOMAIN inbox[d],
             inbox[c][i] = m, i < j
      PROVE  inbox[c][j] # inbox[d][k]
  <2>1. \A x \in Messages : x[2] = "queued" =>
            (Sent(x, c) => x[1] = c) /\ (Sent(x, d) => x[1] = d)
    BY DEF Sent
  <2>2. m[2] # "queued" \/ m[1] # d
    BY <1>2, <1>6, <2>1
  <2>3. inbox[c][j][2] = "queued"
    BY <1>6, <2>2 DEF IInv, LastInv, May
  <2>4. QED BY <1>2, <1>6, <2>1, <2>3
<1>7. \A c \in Conns : Unique(inbox'[c])
  <2>1. Unique(inbox'[d])
    BY <1>1, <1>3, AppendUnique DEF IInv, Distinct
  <2>2. ASSUME NEW c \in Conns, c # d PROVE Unique(inbox'[c])
    <3>1. inbox'[c] = inbox[c] /\ Unique(inbox[c])
      BY <1>1, <2>2 DEF IInv, Distinct
    <3>2. QED BY <3>1, Zenon
  <2>3. QED BY <2>1, <2>2, Zenon
<1>8. SameOrder'
  <2>1. ASSUME NEW c \in Conns, c # d
        PROVE  Agree(inbox'[c], inbox'[d]) /\ Agree(inbox'[d], inbox'[c])
    <3>1. /\ inbox[c] \in Seq(Messages) /\ inbox[d] \in Seq(Messages)
          /\ Agree(inbox[d], inbox[c]) /\ Unique(inbox[c])
      BY <1>1 DEF IInv, SameOrder, Distinct
    <3>2. Agree(Append(inbox[d], m), inbox[c]) /\ Agree(inbox[c], Append(inbox[d], m))
      BY <1>3, <1>6, <2>1, <3>1, AppendAgree
    <3>3. QED BY <1>1, <2>1, <3>2
  <2>2. \A c \in Conns : Agree(inbox'[c], inbox'[c])
    BY <1>7, UniqueAgree
  <2>3. ASSUME NEW c \in Conns, NEW e \in Conns PROVE Agree(inbox'[c], inbox'[e])
    <3>1. CASE c # d /\ e # d
      BY <1>1, <3>1 DEF IInv, SameOrder
    <3>2. CASE c = d /\ e # d
      BY <2>1, <3>2
    <3>3. CASE c # d /\ e = d
      BY <2>1, <3>3
    <3>4. CASE c = d /\ e = d
      BY <2>2, <3>4
    <3>5. QED BY <3>1, <3>2, <3>3, <3>4, Zenon
  <2>4. QED BY <2>3 DEF SameOrder, Agree
<1>9. LastInv'
  <2> SUFFICES ASSUME NEW p \in Speakers, mutex = p, NEW c \in Conns,
                      NEW i \in DOMAIN inbox'[c], NEW j \in DOMAIN inbox'[c],
                      inbox'[c][i] = Message(p), i < j
               PROVE  inbox'[c][j][2] = "queued"
    BY DEF LastInv, Message
  <2>1. CASE /\ i \in DOMAIN inbox[c] /\ inbox'[c][i] = inbox[c][i]
             /\ j \in DOMAIN inbox[c] /\ inbox'[c][j] = inbox[c][j]
    <3>1. inbox[c][i] = Message(p)
      BY <2>1
    <3>2. inbox[c][j][2] = "queued"
      BY <2>1, <3>1, Zenon DEF IInv, LastInv
    <3>3. QED BY <2>1, <3>2
  <2>2. CASE /\ i \in DOMAIN inbox[c] /\ inbox'[c][i] = inbox[c][i]
             /\ c = d /\ inbox'[c][j] = m
    <3>1. m # Message(p)
      BY <1>3, <2>2
    <3>2. m[2] = "queued"
      BY <3>1 DEF May
    <3>3. QED BY <2>2, <3>2
  <2>3. CASE c = d /\ i = Len(inbox[d]) + 1
    <3>1. ~(i < j)
      BY <1>1, <1>4, <2>3, AppendAt
    <3>2. QED BY <3>1
  <2>4. QED BY <1>4, <2>1, <2>2, <2>3
<1>10. Distinct'
  BY <1>7 DEF Distinct, Unique
<1>11. QED BY <1>5, <1>8, <1>9, <1>10 DEF Inboxes

(* Every step keeps what IInv says of the inboxes.                         *)
LEMMA NextInboxes == IInv /\ [Next]_vars => Inboxes'
<1> SUFFICES ASSUME IInv, [Next]_vars PROVE Inboxes'
  OBVIOUS
<1>0. /\ TypeOK /\ StartInv /\ MutexInv /\ TypeOK' /\ StartInv'
      /\ Conns \subseteq Speakers /\ None \notin Speakers
  BY NextTypeOK, NextStart DEF IInv, Speakers
<1>1. ASSUME NEW c \in Conns, Join(c) \/ Leave(c) PROVE Inboxes'
  <2>1. UNCHANGED <<inbox, mutex, chats>>
    BY <1>1 DEF Join, Leave, Change
  <2>2. QED BY <2>1, SilentInboxes DEF Message
<1>2. ASSUME NEW c \in Conns, Chat(c) PROVE Inboxes'
  <2>1. /\ UNCHANGED <<inbox, mutex>> /\ pc[c] = "idle"
        /\ \A d \in Conns : d # c => chats'[d] = chats[d]
    BY <1>0, <1>2 DEF Chat, Goto, TypeOK
  <2>2. mutex # c
    BY <1>0, <2>1 DEF MutexInv
  <2>3. QED BY <2>1, <2>2, SilentInboxes DEF Message
<1>3. ASSUME NEW p \in Speakers, Lock(p) PROVE Inboxes'
  <2>1. UNCHANGED <<inbox, chats>> /\ mutex' = p /\ pc[p] = "lock"
    BY <1>3 DEF Lock, Goto
  <2>2. QED BY <2>1, SilentInboxes DEF Message
<1>4. ASSUME NEW p \in Speakers, ReadConnections(p) \/ Unlock(p) PROVE Inboxes'
  <2>1. UNCHANGED <<inbox, chats>> /\ mutex' \in {mutex, None}
    BY <1>4 DEF ReadConnections, Unlock
  <2>2. QED BY <1>0, <2>1, SilentInboxes DEF Message
<1>5. ASSUME NEW p \in Speakers, NEW fails \in BOOLEAN, NEW d \in Conns,
             SendNext(p, d, fails)
      PROVE  Inboxes'
  <2>1. /\ pc[p] = "loop" /\ d \in todo[p] /\ UNCHANGED <<chats, mutex, pc>>
        /\ d \notin todo'[p]
    BY <1>0, <1>5 DEF SendNext, TypeOK
  <2>2. CASE fails
    <3>1. UNCHANGED inbox
      BY <1>5, <2>2 DEF SendNext, Deliver
    <3>2. QED BY <2>1, <3>1, SilentInboxes DEF Message
  <2>3. CASE ~fails
    <3>1. PICK m \in Messages : m = Message(p)
      BY <1>0, <2>1, MessageIs
    <3>2. Got(d, m)
      BY <1>5, <2>3, <3>1 DEF SendNext, Deliver, Got
    <3>3. ~Sent(m, d)
      BY <1>0, <2>1, <3>1, SentMessage DEF By
    <3>4. Sent(m, d)'
      <4>1. By(p, d)' /\ pc'[p] # "idle"
        BY <2>1 DEF By
      <4>2. (Sent(Message(p), d))'
        BY <1>0, <4>1, MessageSentNext DEF SentAll
      <4>3. QED BY <2>1, <3>1, <4>2 DEF Sent, By, Message
    <3>5. May(d, m) /\ mutex' = mutex /\ chats' = chats
      BY <1>0, <2>1, <3>1 DEF MutexInv, May
    <3>6. QED BY <3>2, <3>3, <3>4, <3>5, DeliverInboxes, Zenon
  <2>4. QED BY <2>2, <2>3
<1>6. ASSUME NEW c \in Conns, NEW fails \in BOOLEAN, Reply(c, fails)
      PROVE  Inboxes'
  <2>1. /\ pc[c] = "reply" /\ UNCHANGED chats /\ c \in Speakers
        /\ mutex' = IF fails THEN None ELSE mutex
        /\ pc'[c] = IF fails THEN "idle" ELSE "read"
    BY <1>0, <1>6 DEF Reply, Goto, TypeOK
  <2>2. CASE fails
    <3>1. UNCHANGED inbox
      BY <1>6, <2>2 DEF Reply, Deliver
    <3>2. QED BY <1>0, <2>1, <2>2, <3>1, SilentInboxes DEF Message
  <2>3. CASE ~fails
    <3>1. PICK m \in Messages : m = Message(c)
      BY <1>0, <2>1, MessageIs
    <3>2. Got(c, m)
      BY <1>6, <2>3, <3>1 DEF Reply, Deliver, Got
    <3>3. ~Sent(m, c)
      BY <1>0, <2>1, <3>1, SentMessage DEF By
    <3>4. Sent(m, c)'
      <4>1. By(c, c)' /\ pc'[c] # "idle"
        BY <2>1, <2>3 DEF By
      <4>2. (Sent(Message(c), c))'
        BY <1>0, <2>1, <4>1, MessageSentNext DEF SentAll
      <4>3. QED BY <2>1, <3>1, <4>2 DEF Sent, By, Message
    <3>5. May(c, m) /\ mutex' = mutex /\ chats' = chats
      BY <1>0, <2>1, <2>3, <3>1 DEF MutexInv, May
    <3>6. QED BY <3>2, <3>3, <3>4, <3>5, DeliverInboxes, Zenon
  <2>4. QED BY <2>2, <2>3
<1>7. ASSUME NEW c \in Conns, NEW fails \in BOOLEAN, Report(c, fails)
      PROVE  Inboxes'
  <2>1. /\ pc[c] = "report" /\ pc'[c] = "idle" /\ UNCHANGED <<chats, mutex>>
        /\ chats[c] \in Nat /\ chats[c] > 0
    BY <1>0, <1>7 DEF Report, Goto, TypeOK, StartInv
  <2>2. CASE fails
    <3>1. UNCHANGED inbox
      BY <1>7, <2>2 DEF Report, Deliver
    <3>2. QED BY <2>1, <3>1, SilentInboxes DEF Message
  <2>3. CASE ~fails
    <3>1. chats[c] \in Nat \ {0}
      BY ONLY <2>1
    <3>2. PICK m \in Messages : m = <<c, "queued", chats[c]>>
      <4>1. <<c, "queued", chats[c]>> \in Messages
        BY ONLY <3>1, c \in Conns DEF Messages
      <4>2. QED BY <4>1
    <3>3. Got(c, m)
      BY <1>7, <2>3, <3>2 DEF Report, Deliver, Got
    <3>4. ~Sent(m, c) /\ May(c, m) /\ mutex' = mutex /\ chats' = chats
      BY <2>1, <3>2 DEF Sent, May
    <3>5. Sent(m, c)'
      BY <2>1, <3>2 DEF Sent
    <3>6. QED BY <3>3, <3>4, <3>5, DeliverInboxes, Zenon
  <2>4. QED BY <2>2, <2>3
<1>8. CASE UNCHANGED vars
  BY <1>8, SilentInboxes DEF vars, Message
<1>9. QED
  BY <1>1, <1>2, <1>3, <1>4, <1>5, <1>6, <1>7, <1>8
  DEF Next, HandlerStep, SpeakerStep

(* IInv holds in every reachable state.                                    *)
LEMMA ChatsInvariant == Spec => []IInv
<1>1. IInv /\ [Next]_vars => IInv'
  BY NextTypeOK, NextStart, NextMutex, NextInboxes DEF IInv, Inboxes
<1>2. QED BY <1>1, InitIInv, PTL DEF Spec

(* The state always has the declared types.                                *)
THEOREM ChatsTypeCorrect == Spec => []TypeOK
<1>1. IInv => TypeOK
  BY DEF IInv
<1>2. QED BY <1>1, ChatsInvariant, PTL

(* However many members talk, join and leave, and whatever is lost on the  *)
(* way to slow ones, no two connections are sent two messages in different *)
(* orders.                                                                 *)
THEOREM ChatsSameOrder == Spec => []SameOrder
<1>1. IInv => SameOrder
  BY DEF IInv
<1>2. QED BY <1>1, ChatsInvariant, PTL

-----------------------------------------------------------------------------
(* The chat implements Broadcast.                                          *)

(* A step delivers one message to one connection, or none.                 *)
LEMMA Deliveries ==
  ASSUME TypeOK, StartInv, [Next]_vars
  PROVE  \/ UNCHANGED inbox
         \/ \E d \in Conns, m \in Messages : Got(d, m)
<1>0. Conns \subseteq Speakers
  BY DEF Speakers
<1>1. ASSUME NEW p \in Speakers, NEW d \in Conns, NEW fails \in BOOLEAN,
             pc[p] # "idle", Deliver(d, Message(p), fails)
      PROVE  UNCHANGED inbox \/ \E m \in Messages : Got(d, m)
  BY <1>1, MessageIs, Zenon DEF Deliver, Got
<1>2. ASSUME NEW p \in Speakers, NEW d \in Conns, NEW fails \in BOOLEAN,
             SendNext(p, d, fails)
      PROVE  UNCHANGED inbox \/ \E m \in Messages : Got(d, m)
  <2>1. pc[p] # "idle" /\ Deliver(d, Message(p), fails)
    BY <1>2 DEF SendNext
  <2>2. QED BY <1>1, <2>1
<1>3. ASSUME NEW c \in Conns, NEW fails \in BOOLEAN, Reply(c, fails)
      PROVE  UNCHANGED inbox \/ \E m \in Messages : Got(c, m)
  <2>1. pc[c] # "idle" /\ Deliver(c, Message(c), fails)
    BY <1>3 DEF Reply, Goto
  <2>2. QED BY <1>0, <1>1, <2>1
<1>4. ASSUME NEW c \in Conns, NEW fails \in BOOLEAN, Report(c, fails)
      PROVE  UNCHANGED inbox \/ \E m \in Messages : Got(c, m)
  <2>1. pc[c] # "idle" /\ Deliver(c, <<c, "queued", chats[c]>>, fails)
    BY <1>4 DEF Report, Goto
  <2>2. chats[c] \in Nat /\ chats[c] > 0
    BY <2>1 DEF TypeOK, StartInv
  <2>3. chats[c] \in Nat \ {0}
    BY ONLY <2>2
  <2>4. <<c, "queued", chats[c]>> \in Messages
    BY ONLY <2>3, c \in Conns DEF Messages
  <2>5. QED BY ONLY <2>1, <2>4, Zenon DEF Deliver, Got
<1>5. ASSUME NEW c \in Conns, Join(c) \/ Leave(c) \/ Chat(c) PROVE UNCHANGED inbox
  BY <1>5, Zenon DEF Join, Leave, Change, Chat
<1>6. ASSUME NEW p \in Speakers, Lock(p) \/ ReadConnections(p) \/ Unlock(p)
      PROVE  UNCHANGED inbox
  BY <1>6, Zenon DEF Lock, ReadConnections, Unlock
<1>7. CASE UNCHANGED vars
  BY <1>7, Zenon DEF vars
<1>8. QED
  BY ONLY [Next]_vars, <1>2, <1>3, <1>4, <1>5, <1>6, <1>7, ZenonT(40)
  DEF Next, HandlerStep, SpeakerStep

(* What a connection was sent stays in its inbox.                          *)
LEMMA InboxGrows ==
  ASSUME TypeOK, StartInv, [Next]_vars, NEW c \in Conns, NEW m,
         \E i \in DOMAIN inbox[c] : inbox[c][i] = m
  PROVE  \E i \in DOMAIN inbox'[c] : inbox'[c][i] = m
<1>1. CASE UNCHANGED inbox
  BY <1>1, Zenon
<1>2. ASSUME NEW d \in Conns, NEW x \in Messages, Got(d, x)
      PROVE  \E i \in DOMAIN inbox'[c] : inbox'[c][i] = m
  <2>1. inbox \in [Conns -> Seq(Messages)]
    BY DEF TypeOK
  <2>2. CASE c # d
    <3>1. inbox'[c] = inbox[c]
      BY <1>2, <2>1, <2>2 DEF Got
    <3>2. QED BY <3>1, Zenon
  <2>3. CASE c = d
    <3>1. inbox'[c] = Append(inbox[c], x) /\ inbox[c] \in Seq(Messages)
      BY <1>2, <2>1, <2>3 DEF Got
    <3>2. PICK i \in DOMAIN inbox[c] : inbox[c][i] = m
      OBVIOUS
    <3>3. i \in DOMAIN inbox'[c] /\ inbox'[c][i] = inbox[c][i]
      BY ONLY <3>1, x \in Messages, i \in DOMAIN inbox[c]
    <3>4. QED BY <3>2, <3>3, Zenon
  <2>4. QED BY <2>2, <2>3
<1>3. QED BY <1>1, <1>2, Deliveries, Zenon

(* A connection past its reply was there before, or has just replied.      *)
LEMMA ReplySteps ==
  ASSUME TypeOK, [Next]_vars, NEW c \in Conns,
         pc'[c] \in {"read", "loop", "report"}
  PROVE  \/ pc[c] \in {"read", "loop", "report"} /\ chats'[c] = chats[c]
         \/ pc[c] = "reply" /\ chats' = chats /\ Got(c, Message(c))
<1>0. /\ pc \in [Speakers -> {"idle", "lock", "reply", "read", "loop", "report"}]
      /\ Conns \subseteq Speakers /\ chats \in [Conns -> Nat]
      /\ Conns \cap Changes = {}
  BY DEF TypeOK, Speakers
<1>1. ASSUME NEW d \in Conns, Join(d) \/ Leave(d)
      PROVE  pc[c] \in {"read", "loop", "report"} /\ chats'[c] = chats[c]
  <2>1. /\ pc' = [pc EXCEPT ![<<d, changes[d] + 1>>] = "lock"] /\ chats' = chats
    BY <1>1 DEF Join, Leave, Change
  <2>2. pc'[c] = pc[c] \/ pc'[c] = "lock"
    BY ONLY <1>0, <2>1, c \in Conns
  <2>3. QED BY <2>1, <2>2
<1>2. ASSUME NEW d \in Conns, Chat(d)
      PROVE  pc[c] \in {"read", "loop", "report"} /\ chats'[c] = chats[c]
  BY <1>0, <1>2 DEF Chat, Goto
<1>3. ASSUME NEW p \in Speakers, Lock(p) \/ ReadConnections(p) \/ Unlock(p)
      PROVE  pc[c] \in {"read", "loop", "report"} /\ chats'[c] = chats[c]
  BY <1>0, <1>3 DEF Lock, ReadConnections, Unlock, Goto
<1>4. ASSUME NEW p \in Speakers, NEW fails \in BOOLEAN, NEW d \in Conns,
             SendNext(p, d, fails)
      PROVE  pc[c] \in {"read", "loop", "report"} /\ chats'[c] = chats[c]
  BY <1>4 DEF SendNext
<1>5. ASSUME NEW d \in Conns, NEW fails \in BOOLEAN, Report(d, fails)
      PROVE  pc[c] \in {"read", "loop", "report"} /\ chats'[c] = chats[c]
  BY <1>0, <1>5 DEF Report, Goto
<1>6. ASSUME NEW d \in Conns, NEW fails \in BOOLEAN, Reply(d, fails)
      PROVE  \/ pc[c] \in {"read", "loop", "report"} /\ chats'[c] = chats[c]
             \/ pc[c] = "reply" /\ chats' = chats /\ Got(c, Message(c))
  <2>1. /\ pc' = [pc EXCEPT ![d] = IF fails THEN "idle" ELSE "read"]
        /\ pc[d] = "reply" /\ chats' = chats
    BY <1>6 DEF Reply, Goto
  <2>2. CASE d # c
    <3>1. pc'[c] = pc[c]
      BY ONLY <1>0, <2>1, <2>2, c \in Conns, d \in Conns
    <3>2. QED BY <2>1, <3>1
  <2>3. CASE d = c
    <3>1. ~fails
      BY <1>0, <2>1, <2>3
    <3>2. Got(d, Message(d))
      BY ONLY <1>6, <3>1, Zenon DEF Reply, Deliver, Got
    <3>3. QED BY ONLY <2>1, <2>3, <3>2, Zenon
  <2>4. QED BY <2>2, <2>3
<1>7. CASE UNCHANGED vars
  <2>1. pc' = pc /\ chats' = chats
    BY <1>7, Zenon DEF vars
  <2>2. QED BY <2>1
<1>8. QED
  BY ONLY [Next]_vars, <1>1, <1>2, <1>3, <1>4, <1>5, <1>6, <1>7, ZenonT(40)
  DEF Next, HandlerStep, SpeakerStep

(* Every step keeps the author's own copy.                                 *)
LEMMA NextReply == IInv /\ ReplyInv /\ [Next]_vars => ReplyInv'
<1> SUFFICES ASSUME IInv, ReplyInv, [Next]_vars, NEW c \in Conns,
                    pc'[c] \in {"read", "loop", "report"}
             PROVE  \E i \in DOMAIN inbox'[c] : inbox'[c][i] = Message(c)'
  BY Zenon DEF ReplyInv
<1>0. TypeOK /\ StartInv
  BY DEF IInv
<1>1. CASE pc[c] \in {"read", "loop", "report"} /\ chats'[c] = chats[c]
  <2>1. Message(c)' = Message(c)
    BY <1>1, Zenon DEF Message
  <2>2. PICK m : m = Message(c)
    OBVIOUS
  <2>3. \E i \in DOMAIN inbox[c] : inbox[c][i] = m
    BY <1>1, <2>2, Zenon DEF ReplyInv
  <2>4. \E i \in DOMAIN inbox'[c] : inbox'[c][i] = m
    BY <1>0, <2>3, InboxGrows
  <2>5. QED BY ONLY <2>1, <2>2, <2>4, Zenon
<1>2. CASE pc[c] = "reply" /\ chats' = chats /\ Got(c, Message(c))
  <2>0. pc[c] # "idle" /\ c \in Speakers
    BY <1>2 DEF Speakers
  <2>1. Message(c)' = Message(c)
    BY <1>2, Zenon DEF Message
  <2>2. Message(c) \in Messages
    BY <1>0, <2>0, MessageIs
  <2>3. inbox[c] \in Seq(Messages) /\ inbox'[c] = Append(inbox[c], Message(c))
    BY <1>0, <1>2 DEF TypeOK, Got
  <2>4. PICK n : n = Len(inbox[c]) + 1
    OBVIOUS
  <2>5. n \in DOMAIN inbox'[c] /\ inbox'[c][n] = Message(c)
    BY ONLY <2>2, <2>3, <2>4
  <2>6. QED BY <2>1, <2>5, Zenon
<1>3. QED BY <1>0, <1>1, <1>2, ReplySteps

(* ReplyInv holds in every reachable state.                                *)
LEMMA ReplyInvariant == Spec => []ReplyInv
<1>1. Init => ReplyInv
  <2>1. \A c \in Conns : c \in Speakers
    BY Zenon DEF Speakers
  <2>2. QED BY <2>1 DEF Init, ReplyInv
<1>2. QED BY <1>1, NextReply, ChatsInvariant, PTL DEF Spec

(* The holder of the mutex is the one who talks.                           *)
SaidBy ==
  /\ mutex = None => Said = {}
  /\ \A p \in Speakers : mutex = p => Said = {Message(p)}

LEMMA SaidIs == SaidBy /\ SaidBy'
<1>1. SaidBy
  <2>1. None \notin Speakers
    OBVIOUS
  <2>2. QED BY <2>1, Zenon DEF SaidBy, Said
<1>2. QED BY <1>1, PTL

(* What a speaker is yet to send to a connection is not in its inbox.      *)
LEMMA NotYet ==
  ASSUME IInv, NEW p \in Speakers, NEW c \in Conns, ~By(p, c)
  PROVE  ~B!Has(c, Message(p))
<1>1. ASSUME NEW i \in DOMAIN inbox[c], inbox[c][i] = Message(p) PROVE FALSE
  <2>1. Sent(inbox[c][i], c) /\ TypeOK
    BY DEF IInv, SentInv
  <2>2. Sent(Message(p), c)
    BY ONLY <1>1, <2>1, Zenon
  <2>3. QED BY <2>1, <2>2, SentMessage
<1>2. QED BY ONLY <1>1, Zenon DEF B!Has

(* To get the mutex is to begin.                                           *)
LEMMA LockBegins ==
  ASSUME IInv, NEW p \in Speakers, Lock(p)
  PROVE  B!Begin
<1>1. pc[p] = "lock" /\ mutex = None /\ mutex' = p /\ UNCHANGED <<inbox, chats>>
  BY DEF Lock, Goto
<1>2. Said = {} /\ Said' = {Message(p)'} /\ Message(p)' = Message(p)
  BY <1>1, SaidIs, Zenon DEF SaidBy, Message
<1>3. PICK m : m = Message(p)
  OBVIOUS
<1>4. Said' = {m}
  BY <1>2, <1>3, Zenon
<1>5. \A c \in Conns : ~B!Has(c, m)
  <2>1. \A c \in Conns : ~By(p, c)
    BY <1>1 DEF By
  <2>2. QED BY ONLY IInv, p \in Speakers, <1>3, <2>1, NotYet, Zenon
<1>6. m[2] # "queued"
  BY ONLY <1>3 DEF Message
<1>7. ASSUME NEW c \in Conns, NEW i \in DOMAIN inbox[c]
      PROVE  B!Before(inbox[c][i], m)
  <2>1. PICK x \in Messages : x = inbox[c][i] /\ Sent(x, c)
    BY DEF IInv, TypeOK, SentInv
  <2>2. CASE p \in Conns
    <3>1. m[1] = p /\ m[3] = chats[p] /\ chats[p] \in Nat
      BY ONLY <1>3, <2>2, IInv DEF Message, IInv, TypeOK
    <3>2. ASSUME x[2] = "chat", x[1] = p PROVE x[3] < m[3]
      <4>1. x[3] <= chats[p] /\ (x[3] = chats[p] => By(p, c)) /\ ~By(p, c)
        BY <1>1, <2>1, <3>2 DEF Sent, By
      <4>2. x[3] \in Nat
        BY ONLY x \in Messages DEF Messages
      <4>3. QED BY ONLY <3>1, <4>1, <4>2
    <3>3. QED BY <2>1, <3>1, <3>2 DEF B!Before
  <2>3. CASE p \notin Conns
    <3>1. m[2] = "change"
      BY ONLY <1>3, <2>3 DEF Message
    <3>2. QED BY ONLY <3>1 DEF B!Before
  <2>4. QED BY <2>2, <2>3
<1>8. m \in Said'
  BY ONLY <1>4, Zenon
<1>9. QED
  BY ONLY <1>1, <1>2, <1>4, <1>5, <1>6, <1>7, <1>8, Zenon DEF B!Begin

(* What the holder of the mutex sends is heard.                            *)
LEMMA SendHeard ==
  ASSUME IInv, NEW p \in Speakers, NEW c \in Conns, mutex = p, ~By(p, c),
         UNCHANGED <<mutex, chats>>, Got(c, Message(p))
  PROVE  B!Hear(c)
<1>1. Said = {Message(p)} /\ ~B!Has(c, Message(p))
  BY SaidIs, NotYet DEF SaidBy
<1>2. Said' = Said
  BY Zenon DEF Said, Message
<1>3. QED BY ONLY Got(c, Message(p)), <1>1, <1>2, Zenon DEF B!Hear, Got

(* To release the mutex is to end.                                         *)
LEMMA ReleaseEnds ==
  ASSUME NEW p \in Speakers, mutex = p, mutex' = None, UNCHANGED inbox
  PROVE  B!End
<1>1. Said = {Message(p)} /\ Said' = {}
  BY SaidIs, Zenon DEF SaidBy
<1>2. QED BY ONLY UNCHANGED inbox, <1>1, Zenon DEF B!End

(* The report comes after the message, when its turn is over.              *)
LEMMA ReportConfirms ==
  ASSUME IInv, ReplyInv, NEW c \in Conns, pc[c] = "report",
         UNCHANGED <<mutex, chats>>, Got(c, <<c, "queued", chats[c]>>)
  PROVE  B!Confirm(c)
<1>1. /\ pc[c] = "report" /\ UNCHANGED <<mutex, chats>>
      /\ inbox' = [inbox EXCEPT ![c] = Append(@, <<c, "queued", chats[c]>>)]
  BY Zenon DEF Got
<1>2. PICK i \in DOMAIN inbox[c] : inbox[c][i] = Message(c)
  BY <1>1 DEF ReplyInv
<1>3. PICK n : n = inbox[c][i][3]
  OBVIOUS
<1>4. Message(c) = <<c, "chat", chats[c]>>
  BY DEF Message
<1>5. n = chats[c] /\ inbox[c][i] = <<c, "chat", n>>
  BY ONLY <1>2, <1>3, <1>4
<1>6. inbox[c][i] \notin Said
  <2>1. CASE mutex = None
    BY <2>1, SaidIs DEF SaidBy
  <2>2. CASE mutex # None
    <3>1. PICK p \in Speakers : mutex = p
      BY <2>2 DEF IInv, TypeOK
    <3>2. p # c
      BY <1>1, <3>1 DEF IInv, MutexInv
    <3>3. Message(p) # <<c, "chat", n>>
      BY ONLY <3>2 DEF Message
    <3>4. Said = {Message(p)}
      BY <3>1, SaidIs DEF SaidBy
    <3>5. QED BY <1>5, <3>3, <3>4, Zenon
  <2>3. QED BY <2>1, <2>2
<1>7. ~B!Has(c, <<c, "queued", n>>)
  <2>1. ASSUME NEW j \in DOMAIN inbox[c], inbox[c][j] = <<c, "queued", n>>
        PROVE  FALSE
    <3>1. Sent(inbox[c][j], c)
      BY DEF IInv, SentInv
    <3>2. QED BY ONLY <1>1, <1>5, <2>1, <3>1 DEF Sent
  <2>2. QED BY ONLY <2>1, Zenon DEF B!Has
<1>8. Said' = Said
  BY <1>1, Zenon DEF Said, Message
<1>9. QED BY ONLY <1>1, <1>3, <1>5, <1>6, <1>7, <1>8, Zenon DEF B!Confirm

(* Each step of the speakers is one of Broadcast, or is not seen there.    *)
LEMMA NextBroadcast ==
  ASSUME IInv, ReplyInv, [Next]_vars
  PROVE  [B!Next]_(B!bvars)
<1>0. TypeOK /\ StartInv /\ MutexInv /\ Conns \subseteq Speakers
  BY DEF IInv, Speakers
<1>1. ASSUME UNCHANGED <<inbox, mutex, chats>> PROVE UNCHANGED B!bvars
  BY <1>1, Zenon DEF B!bvars, Said, Message
<1>2. ASSUME NEW c \in Conns, Chat(c) PROVE UNCHANGED B!bvars
  <2>1. /\ UNCHANGED <<inbox, mutex>> /\ pc[c] = "idle"
        /\ \A d \in Conns : d # c => chats'[d] = chats[d]
    BY <1>0, <1>2 DEF Chat, Goto, TypeOK
  <2>2. mutex # c
    BY <1>0, <2>1 DEF MutexInv
  <2>3. \A p \in {mutex} \ {None} : Message(p)' = Message(p)
    BY <2>1, <2>2 DEF Message
  <2>4. Said' = Said
    BY ONLY <2>1, <2>3, Zenon DEF Said
  <2>5. QED BY <2>1, <2>4, Zenon DEF B!bvars
<1>3. ASSUME NEW c \in Conns, Join(c) \/ Leave(c) PROVE UNCHANGED B!bvars
  <2>1. UNCHANGED <<inbox, mutex, chats>>
    BY <1>3, Zenon DEF Join, Leave, Change
  <2>2. QED BY <1>1, <2>1
<1>4. ASSUME NEW p \in Speakers, ReadConnections(p) PROVE UNCHANGED B!bvars
  <2>1. UNCHANGED <<inbox, mutex, chats>>
    BY <1>4, Zenon DEF ReadConnections
  <2>2. QED BY <1>1, <2>1
<1>5. ASSUME NEW p \in Speakers, Lock(p) PROVE B!Begin
  BY <1>5, LockBegins
<1>6. ASSUME NEW p \in Speakers, Unlock(p) PROVE B!End
  <2>1. pc[p] = "loop" /\ mutex' = None /\ UNCHANGED inbox
    BY <1>6, Zenon DEF Unlock, Goto
  <2>2. mutex = p
    BY <1>0, <2>1 DEF MutexInv
  <2>3. QED BY <2>1, <2>2, ReleaseEnds
<1>7. ASSUME NEW p \in Speakers, NEW fails \in BOOLEAN, NEW c \in Conns,
             SendNext(p, c, fails)
      PROVE  B!Hear(c) \/ UNCHANGED B!bvars
  <2>1. pc[p] = "loop" /\ c \in todo[p] /\ UNCHANGED <<mutex, chats>>
    BY <1>7, Zenon DEF SendNext
  <2>2. mutex = p /\ ~By(p, c)
    BY <1>0, <2>1 DEF MutexInv, By
  <2>3. UNCHANGED inbox \/ Got(c, Message(p))
    BY <1>7, Zenon DEF SendNext, Deliver, Got
  <2>4. QED BY <1>1, <2>1, <2>2, <2>3, SendHeard
<1>8. ASSUME NEW c \in Conns, NEW fails \in BOOLEAN, Reply(c, fails)
      PROVE  B!Hear(c) \/ B!End
  <2>1. /\ pc[c] = "reply" /\ UNCHANGED chats
        /\ \/ mutex' = None /\ UNCHANGED inbox
           \/ mutex' = mutex /\ Got(c, Message(c))
    BY <1>8, Zenon DEF Reply, Goto, Deliver, Got
  <2>2. mutex = c /\ ~By(c, c) /\ c \in Speakers
    BY <1>0, <2>1 DEF MutexInv, By
  <2>3. QED BY <2>1, <2>2, SendHeard, ReleaseEnds
<1>9. ASSUME NEW c \in Conns, NEW fails \in BOOLEAN, Report(c, fails)
      PROVE  B!Confirm(c) \/ UNCHANGED B!bvars
  <2>1. /\ pc[c] = "report" /\ UNCHANGED <<mutex, chats>>
        /\ UNCHANGED inbox \/ Got(c, <<c, "queued", chats[c]>>)
    BY <1>9, Zenon DEF Report, Goto, Deliver, Got
  <2>2. QED BY <1>1, <2>1, ReportConfirms
<1>10. CASE UNCHANGED vars
  <2>1. UNCHANGED <<inbox, mutex, chats>>
    BY <1>10, Zenon DEF vars
  <2>2. QED BY <1>1, <2>1
<1>11. QED
  BY ONLY [Next]_vars, <1>2, <1>3, <1>4, <1>5, <1>6, <1>7, <1>8, <1>9, <1>10,
     ZenonT(40)
  DEF Next, HandlerStep, SpeakerStep, B!Next

(* Members hear the conversation as if it were held by one speaker at a    *)
(* time, each message reaching a connection at most once and before the    *)
(* next begins, and an author is told so only after having heard it too:   *)
(* for any number of connections, messages, joins and leaves.              *)
THEOREM ChatsImplementBroadcast == Spec => ImplementsBroadcast
<1>1. Init => B!Init
  <2>1. SaidBy
    BY SaidIs
  <2>2. QED BY <2>1, Zenon DEF Init, B!Init, SaidBy
<1>2. QED
  BY <1>1, NextBroadcast, ReplyInvariant, ChatsInvariant, PTL
  DEF Spec, ImplementsBroadcast, B!Spec

=============================================================================
