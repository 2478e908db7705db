-------------------------- MODULE ConnectionProofs --------------------------
(***************************************************************************)
(* Proofs about Connection, for any senders, closers, callbacks and        *)
(* channel capacities.                                                     *)
(***************************************************************************)
EXTENDS Connection, TLAPS

(* A leaf that names no prover is for the SMT solver.                       *)
USE SMTT(40)

USE ConnectionAssumption

(* The first state satisfies the inductive invariant.                      *)
LEMMA InitIInv == Init => IInv
<1> SUFFICES ASSUME Init PROVE IInv
  OBVIOUS
<1>1. /\ send \in Seq(Messages) /\ Len(send) <= SendCap
      /\ wire \in Seq(Messages)
  BY DEF Init
<1>2. TypeOK
  <2>1. /\ ran \in [Callbacks -> Nat]
        /\ sending \in [Goroutines -> Messages \cup {None}]
        /\ sent \in [Senders \cup {Reader} -> 0 .. MaxSends]
        /\ closing \in [Closers \cup {Reader} ->
                           {"no", "mark", "chan", "take", "run", "done"}]
        /\ taken \in [Closers \cup {Reader} -> SUBSET Callbacks]
        /\ pings \in 0 .. PingCap
    BY DEF Init
  <2>2. /\ closed \in BOOLEAN /\ sendClosed \in BOOLEAN
        /\ callbacks \subseteq Callbacks /\ late \subseteq Callbacks
        /\ reader \in {"connect", "read", "close", "gone"}
        /\ writer \in {"loop", "before", "close", "gone"}
        /\ failed \in BOOLEAN /\ wsClosed \in BOOLEAN /\ panicked \in BOOLEAN
    BY Zenon DEF Init
  <2>3. QED BY <1>1, <2>1, <2>2 DEF TypeOK
<1>3. SendInv /\ CloseInv /\ CallbackInv
  BY DEF Init, SendInv, CloseInv, CallbackInv
<1>4. QED BY <1>2, <1>3 DEF IInv

(* RawSend of a message keeps the type of sending, and a goroutine that    *)
(* comes to hold the read lock found the connection open.                  *)
LEMMA RawSendEnterEffect ==
  ASSUME TypeOK, NEW g \in Goroutines, NEW m \in Messages, RawSendEnter(g, m)
  PROVE  /\ sending' \in [Goroutines -> Messages \cup {None}]
         /\ \A h \in Goroutines : sending'[h] # None =>
                sending[h] # None \/ ~closed
  BY DEF RawSendEnter, TypeOK

(* Messages have the type of messages.                                     *)
LEMMA MessageTypes ==
  /\ Hello \in Messages /\ Goodbye \in Messages
  /\ \A g \in Senders \cup {Reader}, n \in 0 .. MaxSends : <<g, n>> \in Messages
  BY DEF Hello, Goodbye, Messages

(* Every step preserves the types.                                         *)
LEMMA NextTypeOK == TypeOK /\ [Next]_vars => TypeOK'
<1> SUFFICES ASSUME TypeOK, [Next]_vars PROVE TypeOK'
  OBVIOUS
<1> USE DEF closeVars, CloseAt, WriterExit
<1>1. CASE UNCHANGED vars
  BY <1>1 DEF vars, TypeOK
<1>2. ASSUME NEW g \in Senders \cup {Reader}, Send(g) PROVE TypeOK'
  <2>1. g \in Goroutines /\ sent[g] + 1 \in 0 .. MaxSends
    BY <1>2 DEF Send, TypeOK, Goroutines
  <2>2. sending' \in [Goroutines -> Messages \cup {None}]
    BY <1>2, <2>1, MessageTypes, RawSendEnterEffect DEF Send
  <2>3. sent' \in [Senders \cup {Reader} -> 0 .. MaxSends]
    BY <1>2, <2>1 DEF Send, TypeOK
  <2>4. QED BY <1>2, <2>2, <2>3 DEF Send, TypeOK
<1>3. ASSUME NEW g \in Goroutines, RawSendPush(g) PROVE TypeOK'
  <2>1. send' \in Seq(Messages) /\ Len(send') <= SendCap
    <3>1. sending[g] \in Messages
      BY <1>3 DEF RawSendPush, ReadLocked, TypeOK
    <3>2. QED BY <1>3, <3>1 DEF RawSendPush, TypeOK
  <2>2. sending' \in [Goroutines -> Messages \cup {None}]
    BY <1>3 DEF RawSendPush, TypeOK
  <2>3. panicked' \in BOOLEAN
    BY <1>3 DEF RawSendPush, TypeOK
  <2>4. QED BY <1>3, <2>1, <2>2, <2>3 DEF RawSendPush, TypeOK
<1>4. ASSUME NEW g \in Closers, CloseOther(g) PROVE TypeOK'
  BY <1>4 DEF CloseOther, TypeOK
<1>5. ASSUME NEW g \in Closers \cup {Reader}, CloseStep(g) PROVE TypeOK'
  <2>1. CASE CloseMark(g)
    BY <2>1 DEF CloseMark, TypeOK
  <2>2. CASE CloseChan(g)
    BY <2>2 DEF CloseChan, TypeOK
  <2>3. CASE CloseTake(g)
    BY <2>3 DEF CloseTake, TypeOK
  <2>4. CASE CloseReturn(g)
    BY <2>4 DEF CloseReturn, TypeOK
  <2>5. ASSUME NEW cb \in Callbacks, CloseRun(g, cb) PROVE TypeOK'
    BY <2>5 DEF CloseRun, TypeOK
  <2>6. QED BY <1>5, <2>1, <2>2, <2>3, <2>4, <2>5 DEF CloseStep
<1>6. ASSUME NEW cb \in Callbacks, OnClosed(cb) PROVE TypeOK'
  BY <1>6 DEF OnClosed, TypeOK
<1>7. CASE OnConnect
  <2>1. sending' \in [Goroutines -> Messages \cup {None}]
    BY <1>7, MessageTypes, RawSendEnterEffect DEF OnConnect, Goroutines
  <2>2. QED BY <1>7, <2>1 DEF OnConnect, TypeOK
<1>8. CASE Pong
  BY <1>8 DEF Pong, TypeOK
<1>9. CASE ReadEnd
  BY <1>9 DEF ReadEnd, TypeOK
<1>10. CASE OnDisconnect
  BY <1>10 DEF OnDisconnect, TypeOK
<1>11. ASSUME NEW fails \in BOOLEAN, WritePing(fails) PROVE TypeOK'
  <2>1. /\ pings' \in 0 .. PingCap /\ failed' \in BOOLEAN
        /\ writer' \in {writer, "before"}
    <3>1. CASE pings = PingCap
      BY <1>11, <3>1, Zenon DEF WritePing, TypeOK
    <3>2. CASE pings # PingCap
      <4>1. pings' = pings + 1 /\ pings \in 0 .. PingCap /\ PingCap \in Nat
        BY <1>11, <3>2 DEF WritePing, TypeOK
      <4>2. pings' \in 0 .. PingCap
        BY ONLY <3>2, <4>1
      <4>3. failed' \in {failed, TRUE} /\ writer' \in {writer, "before"}
        BY <1>11, <3>2, Zenon DEF WritePing
      <4>4. QED BY <4>2, <4>3, Zenon DEF TypeOK
    <3>3. QED BY <3>1, <3>2
  <2>2. QED BY <1>11, <2>1 DEF WritePing, TypeOK
<1>12. ASSUME NEW fails \in BOOLEAN, WriteNext(fails) PROVE TypeOK'
  <2>1. CASE send # <<>> /\ send' = Tail(send)
    <3>1. /\ Head(send) \in Messages /\ Tail(send) \in Seq(Messages)
          /\ Len(Tail(send)) <= SendCap
      BY <2>1 DEF TypeOK
    <3>2. wire' = wire \/ wire' = Append(wire, Head(send))
      BY <1>12, <2>1 DEF WriteNext
    <3>3. wire' \in Seq(Messages)
      <4>1. wire \in Seq(Messages)
        BY DEF TypeOK
      <4>2. QED BY ONLY <3>1, <3>2, <4>1
    <3>4. writer' \in {writer, "before"} /\ failed' \in {failed, TRUE}
      BY <1>12, <2>1, Zenon DEF WriteNext
    <3>5. QED BY <1>12, <2>1, <3>1, <3>3, <3>4, Zenon DEF WriteNext, TypeOK
  <2>2. CASE send = <<>> /\ WriterExit(TRUE) /\ UNCHANGED <<send, wire>>
    BY <1>12, <2>2 DEF WriteNext, TypeOK
  <2>3. QED BY <1>12, <2>1, <2>2, Zenon DEF WriteNext
<1>13. CASE OnBeforeDisconnect
  <2>1. sending' \in [Goroutines -> Messages \cup {None}]
    BY <1>13, MessageTypes, RawSendEnterEffect
    DEF OnBeforeDisconnect, Goroutines, TypeOK
  <2>2. QED BY <1>13, <2>1 DEF OnBeforeDisconnect, TypeOK
<1>14. CASE CloseWebsocket
  BY <1>14 DEF CloseWebsocket, TypeOK
<1>15. CASE ContextDone
  BY <1>15, Zenon DEF ContextDone, TypeOK
<1>16. QED
  BY <1>1, <1>2, <1>3, <1>4, <1>5, <1>6, <1>7, <1>8, <1>9, <1>10, <1>11,
     <1>12, <1>13, <1>14, <1>15
  DEF Next, WriterStep

(* Every step preserves SendInv: who sets closed waits for the read locks, *)
(* and who takes a read lock finds closed unset.                           *)
LEMMA NextSendInv == IInv /\ [Next]_vars => SendInv'
<1> SUFFICES ASSUME IInv, [Next]_vars PROVE SendInv'
  OBVIOUS
<1> USE DEF IInv, SendInv, closeVars
<1>1. CASE UNCHANGED <<closed, sendClosed, sending, panicked>>
  BY <1>1
<1>2. ASSUME NEW g \in Goroutines, NEW m \in Messages, RawSendEnter(g, m),
             UNCHANGED <<closed, sendClosed, panicked>>
      PROVE  SendInv'
  BY <1>2, RawSendEnterEffect
<1>3. ASSUME NEW g \in Goroutines, RawSendPush(g) PROVE SendInv'
  BY <1>3 DEF RawSendPush, ReadLocked, TypeOK
<1>4. ASSUME NEW g \in Closers \cup {Reader}, CloseMark(g) PROVE SendInv'
  BY <1>4 DEF CloseMark, ReadLocked, TypeOK
<1>5. ASSUME NEW g \in Closers \cup {Reader}, CloseChan(g) PROVE SendInv'
  BY <1>5 DEF CloseChan, CloseAt, CloseInv, TypeOK
<1>6. ASSUME NEW g \in Senders \cup {Reader}, Send(g) PROVE SendInv'
  <2>1. g \in Goroutines /\ <<g, sent[g] + 1>> \in Messages
    BY <1>6, MessageTypes DEF Send, TypeOK, Goroutines
  <2>2. QED BY <1>2, <1>6, <2>1 DEF Send
<1>7. CASE OnConnect
  BY <1>2, <1>7, MessageTypes DEF OnConnect, Goroutines
<1>8. CASE OnBeforeDisconnect
  BY <1>1, <1>2, <1>8, MessageTypes DEF OnBeforeDisconnect, Goroutines
<1>9. ASSUME NEW g \in Closers \cup {Reader}, CloseStep(g) PROVE SendInv'
  BY <1>1, <1>4, <1>5, <1>9 DEF CloseStep, CloseTake, CloseReturn, CloseRun
<1>10. ASSUME NEW g \in Closers, CloseOther(g) PROVE SendInv'
  BY <1>1, <1>10 DEF CloseOther
<1>11. CASE \/ \E cb \in Callbacks : OnClosed(cb)
            \/ Pong \/ ReadEnd \/ OnDisconnect \/ CloseWebsocket \/ ContextDone
            \/ \E fails \in BOOLEAN : WritePing(fails) \/ WriteNext(fails)
  BY <1>1, <1>11, Zenon
  DEF OnClosed, Pong, ReadEnd, OnDisconnect, CloseWebsocket, ContextDone,
      WritePing, WriteNext
<1>12. CASE UNCHANGED vars
  BY <1>1, <1>12 DEF vars
<1>13. QED
  BY <1>3, <1>6, <1>7, <1>8, <1>9, <1>10, <1>11, <1>12 DEF Next, WriterStep

(* The steps that leave Close and the callbacks alone.                     *)
LEMMA OtherSteps ==
  ASSUME [Next]_vars
  PROVE  \/ UNCHANGED <<closeVars, late>>
         \/ \E g \in Closers \cup {Reader} : CloseStep(g)
         \/ \E g \in Closers : CloseOther(g)
         \/ \E cb \in Callbacks : OnClosed(cb)
         \/ ReadEnd
<1>1. ASSUME NEW g \in Senders \cup {Reader}, Send(g)
      PROVE  UNCHANGED <<closeVars, late>>
  BY <1>1 DEF Send, closeVars
<1>2. ASSUME NEW g \in Goroutines, RawSendPush(g)
      PROVE  UNCHANGED <<closeVars, late>>
  BY <1>2 DEF RawSendPush, closeVars
<1>3. ASSUME OnConnect \/ Pong \/ OnDisconnect \/ OnBeforeDisconnect
                 \/ CloseWebsocket \/ ContextDone
      PROVE  UNCHANGED <<closeVars, late>>
  BY <1>3, Zenon
  DEF OnConnect, Pong, OnDisconnect, OnBeforeDisconnect, CloseWebsocket,
      ContextDone, closeVars
<1>4. ASSUME NEW fails \in BOOLEAN, WritePing(fails) \/ WriteNext(fails)
      PROVE  UNCHANGED <<closeVars, late>>
  BY <1>4, Zenon DEF WritePing, WriteNext, closeVars
<1>5. CASE UNCHANGED vars
  BY <1>5 DEF vars, closeVars
<1>6. QED BY <1>1, <1>2, <1>3, <1>4, <1>5 DEF Next, WriterStep

(* Every step preserves CloseInv: closed is looked at and set in one step. *)
LEMMA NextCloseInv == IInv /\ [Next]_vars => CloseInv'
<1> SUFFICES ASSUME IInv, [Next]_vars PROVE CloseInv'
  OBVIOUS
<1> USE DEF IInv, CloseInv, CloseAt, closeVars
<1>1. CASE UNCHANGED <<closeVars, late>>
  BY <1>1
<1>2. ASSUME NEW g \in Closers \cup {Reader}, CloseStep(g) PROVE CloseInv'
  <2>1. CASE CloseMark(g)
    BY <2>1 DEF CloseMark, SendInv, TypeOK
  <2>2. CASE CloseChan(g)
    BY <2>2 DEF CloseChan, TypeOK
  <2>3. CASE CloseTake(g) \/ CloseReturn(g)
    BY <2>3, ZenonT(40) DEF CloseTake, CloseReturn, TypeOK
  <2>4. CASE \E cb \in Callbacks : CloseRun(g, cb)
    BY <2>4 DEF CloseRun
  <2>5. QED BY <1>2, <2>1, <2>2, <2>3, <2>4 DEF CloseStep
<1>3. CASE \/ \E g \in Closers : CloseOther(g)
           \/ \E cb \in Callbacks : OnClosed(cb)
           \/ ReadEnd
  BY <1>3 DEF CloseOther, OnClosed, ReadEnd, TypeOK
<1>4. QED BY <1>1, <1>2, <1>3, OtherSteps

(* Every step preserves CallbackInv: callbacks move from the connection to *)
(* the one goroutine that takes them, and leave it when they are run.      *)
LEMMA NextCallbackInv == IInv /\ [Next]_vars => CallbackInv'
<1> SUFFICES ASSUME IInv, [Next]_vars PROVE CallbackInv'
  OBVIOUS
<1> USE DEF IInv, CallbackInv, CloseAt, closeVars
<1>1. CASE UNCHANGED <<closeVars, late>>
  BY <1>1
<1>2. ASSUME NEW g \in Closers \cup {Reader}, CloseStep(g) PROVE CallbackInv'
  <2>1. CASE CloseMark(g) \/ CloseChan(g) \/ CloseReturn(g)
    BY <2>1 DEF CloseMark, CloseChan, CloseReturn
  <2>2. CASE CloseTake(g)
    BY <2>2 DEF CloseTake, TypeOK
  <2>3. ASSUME NEW cb \in Callbacks, CloseRun(g, cb) PROVE CallbackInv'
    <3>1. /\ UNCHANGED callbacks /\ cb \in taken[g]
          /\ ran[cb] = 0 /\ ran'[cb] = 1
          /\ \A x \in Callbacks : x # cb => ran'[x] = ran[x]
          /\ cb \notin taken'[g]
          /\ \A h \in Closers \cup {Reader} : taken'[h] \subseteq taken[h]
          /\ \A h \in Closers \cup {Reader} : h # g => taken'[h] = taken[h]
      BY <2>3 DEF CloseRun, TypeOK
    <3>2. \A x \in Callbacks : ran'[x] <= 1
      BY <3>1
    <3>3. \A x \in callbacks' : ran'[x] = 0
      BY <3>1 DEF TypeOK
    <3>4. ASSUME NEW h \in Closers \cup {Reader}, NEW x \in taken'[h]
          PROVE  /\ ran'[x] = 0 /\ x \notin callbacks'
                 /\ \A i \in Closers \cup {Reader} : x \in taken'[i] => h = i
      <4>1. x \in taken[h] /\ x # cb /\ x \in Callbacks
        BY <3>1, <3>4 DEF TypeOK
      <4>2. QED BY <3>1, <4>1
    <3>5. QED BY <3>2, <3>3, <3>4
  <2>4. QED BY <1>2, <2>1, <2>2, <2>3 DEF CloseStep
<1>3. ASSUME NEW cb \in Callbacks, OnClosed(cb) PROVE CallbackInv'
  BY <1>3 DEF OnClosed, TypeOK
<1>4. CASE (\E g \in Closers : CloseOther(g)) \/ ReadEnd
  BY <1>4 DEF CloseOther, ReadEnd
<1>5. QED BY <1>1, <1>2, <1>3, <1>4, OtherSteps

(* IInv holds in every reachable state.                                    *)
LEMMA ConnectionInvariant == Spec => []IInv
<1>1. IInv /\ [Next]_vars => IInv'
  BY NextTypeOK, NextSendInv, NextCloseInv, NextCallbackInv DEF IInv
<1>2. QED BY <1>1, InitIInv, PTL DEF Spec

(* Every reachable state of a connection has the declared types; its       *)
(* channels stay within their capacities.                                  *)
THEOREM ConnectionTypeCorrect == Spec => []TypeOK
<1>1. IInv => TypeOK
  BY DEF IInv
<1>2. QED BY <1>1, ConnectionInvariant, PTL

(* However many goroutines send to and close a connection, RawSend never   *)
(* meets a closed channel and Close never closes it twice.                 *)
THEOREM ConnectionNoPanic == Spec => []NoPanic
<1>1. IInv => NoPanic
  BY DEF IInv, SendInv, NoPanic
<1>2. QED BY <1>1, ConnectionInvariant, PTL

(* However many goroutines close a connection, each callback is run at     *)
(* most once.                                                              *)
THEOREM ConnectionCallbackOnce == Spec => []CallbackOnce
<1>1. IInv => CallbackOnce
  BY DEF IInv, CallbackInv, CallbackOnce
<1>2. QED BY <1>1, ConnectionInvariant, PTL

-----------------------------------------------------------------------------
(* The order of messages on the wire.                                      *)

(* What is in a sequence after an Append.                                  *)
LEMMA AppendAt ==
  ASSUME NEW s \in Seq(Messages), NEW m \in Messages
  PROVE  /\ Append(s, m) \in Seq(Messages)
         /\ \A i \in DOMAIN Append(s, m) :
                \/ i \in DOMAIN s /\ Append(s, m)[i] = s[i]
                \/ i = Len(s) + 1 /\ Append(s, m)[i] = m
         /\ \A i \in DOMAIN s : i \in Nat /\ i < Len(s) + 1
  OBVIOUS

(* A newer message may be appended.                                        *)
LEMMA AppendSorted ==
  ASSUME NEW s \in Seq(Messages), NEW m \in Messages, Sorted(s), Newer(m, s)
  PROVE  Sorted(Append(s, m))
<1> DEFINE t == Append(s, m)
<1> SUFFICES ASSUME NEW i \in DOMAIN t, NEW j \in DOMAIN t,
                    i < j, t[i][1] = t[j][1]
             PROVE  t[i][2] < t[j][2]
  BY DEF Sorted
<1>1. i \in DOMAIN s /\ t[i] = s[i]
  BY AppendAt
<1>2. CASE j \in DOMAIN s /\ t[j] = s[j]
  BY <1>1, <1>2 DEF Sorted
<1>3. CASE t[j] = m
  BY <1>1, <1>3 DEF Newer
<1>4. QED BY <1>2, <1>3, AppendAt

(* What is newer than a sequence and than m is newer than both.            *)
LEMMA AppendNewer ==
  ASSUME NEW s \in Seq(Messages), NEW m \in Messages, NEW x \in Messages,
         Newer(x, s), m[1] = x[1] => m[2] < x[2]
  PROVE  Newer(x, Append(s, m))
  BY AppendAt DEF Newer

(* Taking the first message leaves the rest, which is newer.               *)
LEMMA TailAt ==
  ASSUME NEW s \in Seq(Messages), s # <<>>
  PROVE  /\ Tail(s) \in Seq(Messages) /\ Head(s) \in Messages
         /\ Head(s) = s[1] /\ 1 \in DOMAIN s
         /\ \A i \in DOMAIN Tail(s) :
                i \in Nat /\ i + 1 \in DOMAIN s /\ 1 < i + 1 /\ Tail(s)[i] = s[i + 1]
  OBVIOUS

(* The rest is in order, and newer than what was taken.                    *)
LEMMA TailSorted ==
  ASSUME NEW s \in Seq(Messages), s # <<>>, Sorted(s)
  PROVE  /\ Sorted(Tail(s))
         /\ \A i \in DOMAIN Tail(s) :
                Head(s)[1] = Tail(s)[i][1] => Head(s)[2] < Tail(s)[i][2]
<1>1. Sorted(Tail(s))
  <2> SUFFICES ASSUME NEW i \in DOMAIN Tail(s), NEW j \in DOMAIN Tail(s),
                      i < j, Tail(s)[i][1] = Tail(s)[j][1]
               PROVE  Tail(s)[i][2] < Tail(s)[j][2]
    BY DEF Sorted
  <2>1. i + 1 \in DOMAIN s /\ j + 1 \in DOMAIN s /\ i + 1 < j + 1
    BY TailAt
  <2>2. QED BY <2>1, TailAt DEF Sorted
<1>2. QED BY <1>1, TailAt DEF Sorted

(* What is newer than a sequence is newer than its rest.                   *)
LEMMA TailNewer ==
  ASSUME NEW s \in Seq(Messages), s # <<>>, NEW x, Newer(x, s)
  PROVE  Newer(x, Tail(s))
  BY TailAt DEF Newer

(* What a goroutine has got to it does not take back.                      *)
Onward ==
  /\ \A g \in Senders \cup {Reader} : sent[g] <= sent'[g]
  /\ reader' = "connect" => reader = "connect"
  /\ writer \in {"close", "gone"} => writer' \in {"close", "gone"}

(* Every step goes onward.                                                 *)
LEMMA NextOnward == IInv /\ [Next]_vars => Onward
<1> SUFFICES ASSUME IInv, [Next]_vars PROVE Onward
  OBVIOUS
<1>0. \A g \in Senders \cup {Reader} : sent[g] \in Nat
  BY DEF IInv, TypeOK
<1>1. ASSUME NEW g \in Senders \cup {Reader}, Send(g) PROVE Onward
  <2>1. \A h \in Senders \cup {Reader} : sent'[h] \in {sent[h], sent[h] + 1}
    BY <1>1 DEF Send, IInv, TypeOK
  <2>2. UNCHANGED <<reader, writer>>
    BY <1>1 DEF Send
  <2>3. QED BY <1>0, <2>1, <2>2 DEF Onward
<1>2. CASE UNCHANGED <<sent, reader, writer>>
  BY <1>0, <1>2 DEF Onward
<1>3. CASE \/ OnConnect \/ ReadEnd \/ OnDisconnect \/ OnBeforeDisconnect
           \/ CloseWebsocket \/ ContextDone
           \/ \E fails \in BOOLEAN : WritePing(fails) \/ WriteNext(fails)
  <2>1. /\ UNCHANGED sent
        /\ reader' = "connect" => reader = "connect"
        /\ writer \in {"close", "gone"} => writer' \in {"close", "gone"}
    BY <1>3, ZenonT(40)
    DEF OnConnect, ReadEnd, OnDisconnect, OnBeforeDisconnect, CloseWebsocket,
        ContextDone, WritePing, WriteNext, WriterExit
  <2>2. QED BY <1>0, <2>1 DEF Onward
<1>4. CASE \/ \E g \in Goroutines : RawSendPush(g)
           \/ \E g \in Closers : CloseOther(g)
           \/ \E g \in Closers \cup {Reader} : CloseStep(g)
           \/ \E cb \in Callbacks : OnClosed(cb)
           \/ Pong
           \/ UNCHANGED vars
  <2>1. UNCHANGED <<sent, reader, writer>>
    BY <1>4, ZenonT(40)
    DEF RawSendPush, CloseOther, CloseStep, CloseMark, CloseChan, CloseTake,
        CloseReturn, CloseRun, OnClosed, Pong, vars
  <2>2. QED BY <1>2, <2>1
<1>5. QED BY <1>1, <1>3, <1>4 DEF Next, WriterStep

(* What was past stays past.                                               *)
LEMMA PastStays ==
  ASSUME IInv, TypeOK', Onward, NEW m \in Messages, Past(m)
  PROVE  Past(m)'
<1>1. CASE m[1] = Writer
  BY <1>1 DEF Past, Onward
<1>2. CASE m[1] # Writer
  <2>1. m[1] \in Senders \cup {Reader} /\ m[2] \in Nat
    BY <1>2 DEF Messages
  <2>2. sent[m[1]] \in Nat /\ sent'[m[1]] \in Nat
    BY <2>1 DEF IInv, TypeOK
  <2>3. m[2] <= sent[m[1]] /\ sent[m[1]] <= sent'[m[1]]
    BY <1>2, <2>1 DEF Past, Onward
  <2>4. QED BY <1>2, <2>1, <2>2, <2>3 DEF Past, Onward
<1>3. QED BY <1>1, <1>2

(* A new message enters RawSend.                                           *)
LEMMA EnterOrder ==
  ASSUME IInv, OrderInv, TypeOK', Onward, UNCHANGED <<send, wire>>,
         NEW g \in Goroutines, NEW m \in Messages, RawSendEnter(g, m),
         m[1] = g, Past(m)', Newer(m, send), Newer(m, wire)
  PROVE  OrderInv'
<1>1. /\ wire \in Seq(Messages) /\ send \in Seq(Messages)
      /\ sending \in [Goroutines -> Messages \cup {None}]
  BY DEF IInv, TypeOK
<1>2. /\ \A i \in DOMAIN wire : Past(wire[i])'
      /\ \A i \in DOMAIN send : Past(send[i])'
  BY <1>1, PastStays DEF OrderInv
<1>3. \A h \in Goroutines : sending'[h] # None =>
          sending'[h] = sending[h] \/ (h = g /\ sending'[h] = m)
  BY <1>1 DEF RawSendEnter
<1>4. ASSUME NEW h \in Goroutines, sending'[h] # None
      PROVE  /\ sending'[h][1] = h /\ Past(sending[h])'
             /\ Newer(sending'[h], send) /\ Newer(sending'[h], wire)
  <2>1. CASE sending'[h] = sending[h]
    <3>1. PICK x \in Messages : x = sending[h] /\ x = sending'[h]
      BY <1>1, <1>4, <2>1
    <3>2. x[1] = h /\ Past(x) /\ Newer(x, send) /\ Newer(x, wire)
      BY <1>4, <2>1, <3>1 DEF OrderInv
    <3>3. Past(x)'
      BY <3>2, PastStays
    <3>4. QED BY <3>1, <3>2, <3>3 DEF Past
  <2>2. CASE h = g /\ sending'[h] = m
    BY <2>2 DEF Past
  <2>3. QED BY <1>3, <1>4, <2>1, <2>2
<1>5. Sorted(wire)' /\ Sorted(send)'
  BY DEF OrderInv, Sorted
<1>6. \A i \in DOMAIN send : Newer(send[i], wire)'
  BY DEF OrderInv, Newer
<1>7. \A h \in Goroutines : sending'[h] # None =>
          Newer(sending[h], send)' /\ Newer(sending[h], wire)'
  BY <1>4 DEF Newer
<1>8. QED BY <1>2, <1>4, <1>5, <1>6, <1>7 DEF OrderInv

(* How OrderInv of the next state is shown.                                *)
LEMMA OrderPrimed ==
  ASSUME IInv, TypeOK', Onward,
         Sorted(wire'), Sorted(send'),
         \A i \in DOMAIN wire' : wire'[i] \in Messages /\ Past(wire'[i]),
         \A i \in DOMAIN send' : /\ send'[i] \in Messages
                                 /\ Past(send'[i]) /\ Newer(send'[i], wire'),
         \A h \in Goroutines : sending'[h] # None =>
             /\ sending'[h] \in Messages /\ sending'[h][1] = h /\ Past(sending'[h])
             /\ Newer(sending'[h], send') /\ Newer(sending'[h], wire')
  PROVE  OrderInv'
<1>1. \A m \in Messages : Past(m) => Past(m)'
  BY PastStays
<1>2. /\ \A i \in DOMAIN wire' : Past(wire[i])'
      /\ \A i \in DOMAIN send' : Past(send[i])'
      /\ \A h \in Goroutines : sending'[h] # None => Past(sending[h])'
  BY <1>1 DEF Past
<1>3. Sorted(wire)' /\ Sorted(send)'
  BY DEF Sorted
<1>4. /\ \A i \in DOMAIN send' : Newer(send[i], wire)'
      /\ \A h \in Goroutines : sending'[h] # None =>
             Newer(sending[h], send)' /\ Newer(sending[h], wire)'
  BY DEF Newer
<1>5. QED BY <1>2, <1>3, <1>4 DEF OrderInv

(* Steps that touch no message.                                            *)
LEMMA OrderSame ==
  ASSUME IInv, OrderInv, TypeOK', Onward, UNCHANGED <<send, wire, sending>>
  PROVE  OrderInv'
<1>1. /\ wire \in Seq(Messages) /\ send \in Seq(Messages)
      /\ sending \in [Goroutines -> Messages \cup {None}]
  BY DEF IInv, TypeOK
<1>2. /\ Sorted(wire) /\ Sorted(send)
      /\ \A i \in DOMAIN wire : wire[i] \in Messages /\ Past(wire[i])
      /\ \A i \in DOMAIN send : /\ send[i] \in Messages
                                /\ Past(send[i]) /\ Newer(send[i], wire)
      /\ \A h \in Goroutines : sending[h] # None =>
             /\ sending[h] \in Messages /\ sending[h][1] = h /\ Past(sending[h])
             /\ Newer(sending[h], send) /\ Newer(sending[h], wire)
  BY <1>1 DEF OrderInv
<1>3. QED BY <1>2, OrderPrimed

(* A message goes from RawSend to the channel.                             *)
LEMMA PushOrder ==
  ASSUME IInv, OrderInv, TypeOK', Onward, NEW g \in Goroutines, RawSendPush(g)
  PROVE  OrderInv'
<1>1. /\ wire \in Seq(Messages) /\ send \in Seq(Messages)
      /\ sending \in [Goroutines -> Messages \cup {None}]
  BY DEF IInv, TypeOK
<1>2. PICK m \in Messages : m = sending[g]
  BY <1>1 DEF RawSendPush, ReadLocked
<1>3. /\ UNCHANGED wire
      /\ send' = send \/ send' = Append(send, m)
      /\ sending'[g] = None
      /\ \A h \in Goroutines : h # g => sending'[h] = sending[h]
  BY <1>1, <1>2 DEF RawSendPush
<1>4. m[1] = g /\ Past(m) /\ Newer(m, send) /\ Newer(m, wire)
  BY <1>2 DEF OrderInv, RawSendPush, ReadLocked
<1>5. Sorted(send')
  <2>1. Sorted(send)
    BY DEF OrderInv
  <2>2. Sorted(Append(send, m))
    BY ONLY <1>1, <1>4, <2>1, AppendSorted
  <2>3. QED BY ONLY <1>3, <2>1, <2>2, Zenon
<1>6. \A i \in DOMAIN send' : \/ i \in DOMAIN send /\ send'[i] = send[i]
                              \/ send'[i] = m
  BY <1>1, <1>3, AppendAt
<1>7. \A i \in DOMAIN send' : /\ send'[i] \in Messages
                              /\ Past(send'[i]) /\ Newer(send'[i], wire)
  BY <1>1, <1>4, <1>6 DEF OrderInv
<1>8. ASSUME NEW h \in Goroutines, sending'[h] # None
      PROVE  /\ sending'[h] \in Messages /\ sending'[h][1] = h /\ Past(sending'[h])
             /\ Newer(sending'[h], send') /\ Newer(sending'[h], wire)
  <2>1. h # g /\ sending'[h] = sending[h]
    BY <1>3, <1>8
  <2>2. PICK x \in Messages : x = sending[h] /\ x = sending'[h]
    BY <1>1, <1>8, <2>1
  <2>3. x[1] = h /\ Past(x) /\ Newer(x, send) /\ Newer(x, wire)
    BY <1>8, <2>1, <2>2 DEF OrderInv
  <2>4. Newer(x, Append(send, m))
    BY ONLY <1>1, <1>4, <2>1, <2>3, AppendNewer
  <2>5. Newer(x, send')
    BY ONLY <1>3, <2>3, <2>4, Zenon
  <2>6. QED BY <2>2, <2>3, <2>5
<1>9. /\ \A i \in DOMAIN wire' : wire'[i] \in Messages /\ Past(wire'[i])
      /\ Sorted(wire')
  BY <1>1, <1>3 DEF OrderInv
<1>10. QED BY <1>3, <1>5, <1>7, <1>8, <1>9, OrderPrimed

(* A message goes from the channel to the wire, or is lost.                *)
LEMMA WriteOrder ==
  ASSUME IInv, OrderInv, TypeOK', Onward, NEW fails \in BOOLEAN, WriteNext(fails)
  PROVE  OrderInv'
<1>1. /\ wire \in Seq(Messages) /\ send \in Seq(Messages)
      /\ sending \in [Goroutines -> Messages \cup {None}]
  BY DEF IInv, TypeOK
<1>2. UNCHANGED sending
  BY DEF WriteNext
<1>3. /\ Sorted(wire) /\ Sorted(send)
      /\ \A i \in DOMAIN wire : wire[i] \in Messages /\ Past(wire[i])
      /\ \A i \in DOMAIN send : /\ send[i] \in Messages
                                /\ Past(send[i]) /\ Newer(send[i], wire)
      /\ \A h \in Goroutines : sending[h] # None =>
             /\ sending[h] \in Messages /\ sending[h][1] = h /\ Past(sending[h])
             /\ Newer(sending[h], send) /\ Newer(sending[h], wire)
  BY <1>1 DEF OrderInv
<1>4. /\ \/ UNCHANGED <<send, wire>>
         \/ send # <<>> /\ send' = Tail(send)
      /\ UNCHANGED wire \/ wire' = Append(wire, Head(send))
  BY ZenonT(40) DEF WriteNext
<1>5. CASE UNCHANGED <<send, wire>>
  BY <1>2, <1>3, <1>5, OrderPrimed
<1>6. CASE send # <<>> /\ send' = Tail(send)
  <2>1. /\ Sorted(send')
        /\ \A i \in DOMAIN send' : \E k \in DOMAIN send : send'[i] = send[k]
        /\ \A x \in Messages : Newer(x, send) => Newer(x, send')
    BY <1>1, <1>3, <1>6, TailSorted, TailAt, TailNewer
  <2>2. \A i \in DOMAIN send' : /\ send'[i] \in Messages
                                /\ Past(send'[i]) /\ Newer(send'[i], wire)
    BY <1>3, <2>1
  <2>3. CASE UNCHANGED wire
    BY <1>2, <1>3, <2>1, <2>2, <2>3, OrderPrimed
  <2>4. CASE wire' = Append(wire, Head(send))
    <3>1. PICK m \in Messages : /\ m = Head(send) /\ Past(m) /\ Newer(m, wire)
                                /\ \A h \in Goroutines : sending[h] # None =>
                                       Newer(sending[h], send)
                                       /\ (m[1] = sending[h][1] => m[2] < sending[h][2])
      BY <1>1, <1>3, <1>6, TailAt DEF Newer
    <3>2. /\ Sorted(wire')
          /\ \A i \in DOMAIN wire' : wire'[i] \in Messages /\ Past(wire'[i])
      BY <1>1, <1>3, <2>4, <3>1, AppendSorted, AppendAt
    <3>3. \A i \in DOMAIN send' : m[1] = send'[i][1] => m[2] < send'[i][2]
      BY <1>1, <1>3, <1>6, <3>1, TailSorted
    <3>4. \A i \in DOMAIN send' : Newer(send'[i], wire')
      BY <1>1, <2>2, <2>4, <3>1, <3>3, AppendNewer
    <3>5. \A h \in Goroutines : sending[h] # None => Newer(sending[h], wire')
      BY <1>1, <1>3, <2>4, <3>1, AppendNewer
    <3>6. QED BY <1>2, <1>3, <2>1, <2>2, <3>2, <3>4, <3>5, OrderPrimed
  <2>5. QED BY <1>4, <1>6, <2>3, <2>4
<1>7. QED BY <1>4, <1>5, <1>6

(* Every step preserves OrderInv.                                          *)
LEMMA NextOrder == IInv /\ OrderInv /\ [Next]_vars => OrderInv'
<1> SUFFICES ASSUME IInv, OrderInv, [Next]_vars PROVE OrderInv'
  OBVIOUS
<1>1. TypeOK' /\ Onward
  BY NextTypeOK, NextOnward DEF IInv
<1>2. /\ wire \in Seq(Messages) /\ send \in Seq(Messages)
      /\ sending \in [Goroutines -> Messages \cup {None}]
      /\ sent \in [Senders \cup {Reader} -> 0 .. MaxSends]
  BY DEF IInv, TypeOK
<1>3. /\ \A i \in DOMAIN wire : wire[i] \in Messages /\ Past(wire[i])
      /\ \A i \in DOMAIN send : send[i] \in Messages /\ Past(send[i])
  BY <1>2 DEF OrderInv
<1>4. ASSUME NEW m, \A x \in Messages : Past(x) /\ x[1] = m[1] => x[2] < m[2]
      PROVE  Newer(m, send) /\ Newer(m, wire)
  BY <1>3, <1>4 DEF Newer
<1>5. ASSUME NEW g \in Senders \cup {Reader}, Send(g) PROVE OrderInv'
  <2>0. sent[g] \in Nat /\ <<g, sent[g] + 1>> \in Messages
    BY <1>2, <1>5 DEF Send, Messages
  <2> PICK m \in Messages : m = <<g, sent[g] + 1>>
    BY <2>0
  <2>1. /\ RawSendEnter(g, m) /\ UNCHANGED <<send, wire, reader>>
        /\ g \in Goroutines /\ g # Writer /\ m[1] = g
        /\ sent'[g] = sent[g] + 1 /\ (g = Reader => reader = "read")
    BY <1>2, <1>5 DEF Send, Goroutines
  <2>2. Past(m)'
    BY <2>0, <2>1 DEF Past
  <2>3. \A x \in Messages : Past(x) /\ x[1] = m[1] => x[2] < m[2]
    BY <2>0, <2>1 DEF Past, Messages
  <2>4. Newer(m, send) /\ Newer(m, wire)
    BY <1>4, <2>3
  <2>5. QED BY <1>1, <2>1, <2>2, <2>4, EnterOrder
<1>6. CASE OnConnect
  <2>1. /\ RawSendEnter(Reader, Hello) /\ UNCHANGED <<send, wire, sent>>
        /\ reader = "connect" /\ reader' = "read"
    BY <1>6 DEF OnConnect
  <2>2. Past(Hello)'
    BY <1>2, <2>1 DEF Past, Hello
  <2>3. \A x \in Messages : Past(x) /\ x[1] = Hello[1] => x[2] < Hello[2]
    BY <2>1 DEF Past, Hello
  <2>4. Newer(Hello, send) /\ Newer(Hello, wire)
    BY <1>4, <2>3
  <2>5. QED BY <1>1, <2>1, <2>2, <2>4, EnterOrder, MessageTypes DEF Goroutines, Hello
<1>7. CASE OnBeforeDisconnect
  <2>1. /\ RawSendEnter(Writer, Goodbye) \/ UNCHANGED sending
        /\ UNCHANGED <<send, wire>>
        /\ writer = "before" /\ writer' = "close"
    BY <1>7 DEF OnBeforeDisconnect
  <2>2. Past(Goodbye)'
    BY <2>1 DEF Past, Goodbye
  <2>3. \A x \in Messages : Past(x) /\ x[1] = Goodbye[1] => x[2] < Goodbye[2]
    BY <2>1 DEF Past, Goodbye
  <2>4. Newer(Goodbye, send) /\ Newer(Goodbye, wire)
    BY <1>4, <2>3
  <2>5. CASE RawSendEnter(Writer, Goodbye)
    BY <1>1, <2>1, <2>2, <2>4, <2>5, EnterOrder, MessageTypes DEF Goroutines, Goodbye
  <2>6. QED BY <1>1, <2>1, <2>5, OrderSame
<1>8. CASE \/ \E g \in Closers : CloseOther(g)
           \/ \E g \in Closers \cup {Reader} : CloseStep(g)
           \/ \E cb \in Callbacks : OnClosed(cb)
           \/ Pong \/ ReadEnd \/ OnDisconnect \/ CloseWebsocket \/ ContextDone
           \/ \E fails \in BOOLEAN : WritePing(fails)
           \/ UNCHANGED vars
  <2>1. UNCHANGED <<send, wire, sending>>
    BY <1>8, ZenonT(40)
    DEF CloseOther, CloseStep, CloseMark, CloseChan, CloseTake, CloseReturn,
        CloseRun, OnClosed, Pong, ReadEnd, OnDisconnect, CloseWebsocket,
        ContextDone, WritePing, vars
  <2>2. QED BY <1>1, <2>1, OrderSame
<1>9. QED
  BY <1>1, <1>5, <1>6, <1>7, <1>8, PushOrder, WriteOrder DEF Next, WriterStep

(* OrderInv holds in every reachable state.                                *)
LEMMA OrderInvariant == Spec => []OrderInv
<1>1. Init => OrderInv
  BY DEF Init, OrderInv, Sorted, Newer
<1>2. QED BY <1>1, NextOrder, ConnectionInvariant, PTL DEF Spec

(* What one goroutine sends to a connection is written in that order,      *)
(* whatever is dropped, for any number of senders and any capacity.        *)
THEOREM ConnectionWireOrder == Spec => []WireOrder
<1>1. OrderInv => WireOrder
  BY DEF OrderInv, Sorted, WireOrder
<1>2. QED BY <1>1, OrderInvariant, PTL

(* Only the write pump writes.                                             *)
LEMMA WireSteps ==
  ASSUME [Next]_vars
  PROVE  UNCHANGED wire \/ \E fails \in BOOLEAN : WriteNext(fails)
  BY ZenonT(40)
  DEF Next, WriterStep, CloseStep, Send, RawSendPush, CloseOther, CloseMark,
      CloseChan, CloseTake, CloseReturn, CloseRun, OnClosed, OnConnect, Pong,
      ReadEnd, OnDisconnect, WritePing, ContextDone, OnBeforeDisconnect,
      CloseWebsocket, vars

-----------------------------------------------------------------------------
(* The callbacks.                                                          *)

(* Every step keeps the callbacks that were registered in time in the      *)
(* hands of a goroutine inside Close.                                      *)
LEMMA NextStranded == TypeOK /\ NoneStranded /\ [Next]_vars => NoneStranded'
<1> SUFFICES ASSUME TypeOK, NoneStranded, [Next]_vars PROVE NoneStranded'
  OBVIOUS
<1>0. /\ closing \in [Closers \cup {Reader} ->
                          {"no", "mark", "chan", "take", "run", "done"}]
      /\ taken \in [Closers \cup {Reader} -> SUBSET Callbacks]
  BY DEF TypeOK
<1> USE DEF NoneStranded, CloseAt
<1>1. CASE UNCHANGED <<closeVars, late>>
  BY <1>1 DEF closeVars
<1>2. ASSUME NEW g \in Closers \cup {Reader}, CloseMark(g) PROVE NoneStranded'
  <2>1. /\ closing[g] = "mark" /\ closed'
        /\ closing' = [closing EXCEPT ![g] = IF closed THEN "done" ELSE "chan"]
        /\ UNCHANGED <<callbacks, late, taken>>
    BY <1>2 DEF CloseMark
  <2>2. /\ closing'[g] = IF closed THEN "done" ELSE "chan"
        /\ \A h \in Closers \cup {Reader} : h # g => closing'[h] = closing[h]
    BY ONLY <1>0, <2>1, g \in Closers \cup {Reader}
  <2>3. QED BY <2>1, <2>2
<1>3. ASSUME NEW g \in Closers \cup {Reader}, CloseChan(g) PROVE NoneStranded'
  BY <1>0, <1>3 DEF CloseChan
<1>4. ASSUME NEW g \in Closers \cup {Reader}, CloseTake(g) PROVE NoneStranded'
  BY <1>0, <1>4 DEF CloseTake
<1>5. ASSUME NEW g \in Closers \cup {Reader}, CloseReturn(g) PROVE NoneStranded'
  BY <1>0, <1>5 DEF CloseReturn
<1>6. ASSUME NEW g \in Closers \cup {Reader}, NEW cb \in Callbacks, CloseRun(g, cb)
      PROVE  NoneStranded'
  <2>1. /\ UNCHANGED <<closed, callbacks, late, closing>>
        /\ \A h \in Closers \cup {Reader} : taken'[h] # {} => taken[h] # {}
    BY <1>0, <1>6 DEF CloseRun
  <2>2. QED BY <2>1
<1>7. ASSUME NEW cb \in Callbacks, OnClosed(cb) PROVE NoneStranded'
  BY <1>7 DEF OnClosed
<1>8. CASE (\E g \in Closers : CloseOther(g)) \/ ReadEnd
  BY <1>0, <1>8 DEF CloseOther, ReadEnd
<1>9. QED
  BY ONLY [Next]_vars, <1>1, <1>2, <1>3, <1>4, <1>5, <1>6, <1>7, <1>8, OtherSteps,
     Zenon DEF CloseStep

(* However Close and OnClosed meet, a callback that was registered before  *)
(* the connection was closed is waiting for a goroutine that is inside     *)
(* Close and has yet to take it, or is about to be run by one.             *)
THEOREM ConnectionNoneStranded == Spec => []NoneStranded
<1>1. Init => NoneStranded
  BY DEF Init, NoneStranded
<1>2. IInv => TypeOK
  BY DEF IInv
<1>3. QED BY <1>1, <1>2, NextStranded, ConnectionInvariant, PTL DEF Spec

-----------------------------------------------------------------------------
(* Connections implement Outbox.                                           *)

(* What RawSend does is a Put, unless the channel is full.                 *)
LEMMA PushPuts ==
  ASSUME IInv, OrderInv, NEW g \in Goroutines, RawSendPush(g)
  PROVE  (\E m \in Messages : O!Put(m)) \/ UNCHANGED O!ovars
<1>1. /\ sending[g] # None
      /\ send' = IF sendClosed \/ Len(send) = SendCap THEN send
                 ELSE Append(send, sending[g])
      /\ UNCHANGED <<wire, closed, writer>>
  BY DEF RawSendPush, ReadLocked, closeVars
<1>2. ~closed /\ ~sendClosed
  BY <1>1 DEF IInv, SendInv
<1>3. PICK m \in Messages : m = sending[g]
  BY <1>1 DEF IInv, TypeOK
<1>4. Newer(m, send) /\ Newer(m, wire)
  BY <1>1, <1>3 DEF OrderInv
<1>5. CASE Len(send) = SendCap
  <2>1. send' = send
    BY <1>1, <1>5
  <2>2. QED BY ONLY <1>1, <2>1, Zenon DEF O!ovars
<1>6. CASE Len(send) # SendCap
  <2>1. send' = Append(send, m)
    BY <1>1, <1>2, <1>3, <1>6
  <2>2. Len(send) < SendCap
    <3>1. send \in Seq(Messages) /\ Len(send) <= SendCap
      BY DEF IInv, TypeOK
    <3>2. QED BY <3>1, <1>6
  <2>3. O!Put(m)
    BY ONLY <1>1, <1>2, <1>4, <2>1, <2>2, Zenon DEF O!Put, O!After, Newer
  <2>4. QED BY ONLY <2>3, Zenon
<1>7. QED BY <1>5, <1>6

(* The write pump writes the first message, or ends.                       *)
LEMMA WriteWrites ==
  ASSUME NEW fails \in BOOLEAN, WriteNext(fails)
  PROVE  O!Write \/ O!End
<1>1. writer = "loop" /\ UNCHANGED closed
  BY Zenon DEF WriteNext, closeVars
<1>2. \/ /\ send # <<>> /\ send' = Tail(send)
         /\ \/ writer' = "before" /\ wire' = wire
            \/ wire' = Append(wire, Head(send)) /\ writer' = writer
      \/ writer' = "before" /\ send' = send /\ wire' = wire
  BY ZenonT(40) DEF WriteNext, WriterExit
<1>3. CASE send # <<>> /\ send' = Tail(send) /\ wire' = Append(wire, Head(send))
           /\ writer' = writer
  BY ONLY <1>1, <1>3, Zenon DEF O!Write
<1>4. CASE /\ writer' = "before" /\ wire' = wire
           /\ send' = send \/ (send # <<>> /\ send' = Tail(send))
  <2>1. (writer' = "loop") = FALSE
    BY <1>4
  <2>2. QED BY ONLY <1>1, <1>4, <2>1, Zenon DEF O!End
<1>5. QED BY ONLY <1>2, <1>3, <1>4, Zenon

(* The write pump ends without having had a message in its hands.          *)
LEMMA PumpEnds ==
  ASSUME ContextDone \/ \E fails \in BOOLEAN : WritePing(fails)
  PROVE  O!End \/ UNCHANGED O!ovars
<1>1. /\ writer = "loop"
      /\ writer' = "before" \/ writer' = writer
      /\ UNCHANGED <<send, wire, closed>>
  BY ZenonT(40) DEF ContextDone, WritePing, WriterExit, closeVars
<1>2. CASE writer' = "before"
  <2>1. (writer' = "loop") = FALSE
    BY <1>2
  <2>2. QED BY ONLY <1>1, <2>1, Zenon DEF O!End
<1>3. CASE writer' = writer
  BY ONLY <1>1, <1>3, Zenon DEF O!ovars
<1>4. QED BY ONLY <1>1, <1>2, <1>3, Zenon

(* Close shuts the outbox, unless it is shut.                              *)
LEMMA MarkShuts ==
  ASSUME NEW g \in Closers \cup {Reader}, CloseMark(g)
  PROVE  O!Shut
<1>1. closed' = TRUE /\ UNCHANGED <<send, wire, writer>>
  BY Zenon DEF CloseMark
<1>2. (~closed') = FALSE
  BY <1>1
<1>3. QED BY ONLY <1>1, <1>2, Zenon DEF O!Shut

(* The other steps are not seen.                                           *)
LEMMA OutboxStutter ==
  ASSUME UNCHANGED <<send, wire, closed>>, writer' = "loop" <=> writer = "loop"
  PROVE  UNCHANGED O!ovars
<1>1. (writer' = "loop") = (writer = "loop")
  OBVIOUS
<1>2. QED BY <1>1, Zenon DEF O!ovars

(* What RawSend accepts is written in order and once, until the write pump *)
(* ends; Close takes nothing away, and nothing is accepted after it.       *)
THEOREM ConnectionImplementsOutbox == Spec => ImplementsOutbox
<1>1. Init => O!Init
  <2> SUFFICES ASSUME Init PROVE O!Init
    OBVIOUS
  <2>1. send = <<>> /\ wire = <<>> /\ closed = FALSE /\ writer = "loop"
    BY DEF Init
  <2>2. (~closed) = TRUE /\ (writer = "loop") = TRUE
    BY ONLY <2>1
  <2>3. QED BY ONLY <2>1, <2>2, Zenon DEF O!Init
<1>2. ASSUME IInv, OrderInv, [Next]_vars PROVE [O!Next]_(O!ovars)
  <2>1. CASE \E g \in Goroutines : RawSendPush(g)
    BY ONLY IInv, OrderInv, <2>1, PushPuts, Zenon DEF O!Next
  <2>2. CASE \E fails \in BOOLEAN : WriteNext(fails)
    BY ONLY <2>2, WriteWrites, Zenon DEF O!Next
  <2>3. CASE ContextDone \/ \E fails \in BOOLEAN : WritePing(fails)
    BY ONLY <2>3, PumpEnds, Zenon DEF O!Next
  <2>4. CASE \E g \in Closers \cup {Reader} : CloseMark(g)
    BY ONLY <2>4, MarkShuts, Zenon DEF O!Next
  <2>5. CASE \/ \E g \in Senders \cup {Reader} : Send(g)
             \/ \E g \in Closers : CloseOther(g)
             \/ \E g \in Closers \cup {Reader} :
                    \/ CloseChan(g) \/ CloseTake(g) \/ CloseReturn(g)
                    \/ \E cb \in Callbacks : CloseRun(g, cb)
             \/ \E cb \in Callbacks : OnClosed(cb)
             \/ OnConnect \/ Pong \/ ReadEnd \/ OnDisconnect
             \/ OnBeforeDisconnect \/ CloseWebsocket
             \/ UNCHANGED vars
    <3>1. UNCHANGED <<send, wire, closed>>
      BY ONLY <2>5, ZenonT(40)
      DEF Send, CloseOther, CloseChan, CloseTake, CloseReturn, CloseRun, OnClosed,
          OnConnect, Pong, ReadEnd, OnDisconnect, OnBeforeDisconnect,
          CloseWebsocket, closeVars, vars
    <3>2. \/ writer' = writer
          \/ writer = "before" /\ writer' = "close"
          \/ writer = "close" /\ writer' = "gone"
      BY ONLY <2>5, ZenonT(40)
      DEF Send, CloseOther, CloseChan, CloseTake, CloseReturn, CloseRun, OnClosed,
          OnConnect, Pong, ReadEnd, OnDisconnect, OnBeforeDisconnect,
          CloseWebsocket, closeVars, vars
    <3>3. writer' = "loop" <=> writer = "loop"
      BY ONLY <3>2, SMT
    <3>4. QED BY ONLY <3>1, <3>3, OutboxStutter, Zenon
  <2>6. QED
    BY ONLY [Next]_vars, <2>1, <2>2, <2>3, <2>4, <2>5, ZenonT(40)
    DEF Next, CloseStep, WriterStep
<1>3. QED
  BY <1>1, <1>2, OrderInvariant, ConnectionInvariant, PTL
  DEF Spec, ImplementsOutbox, O!Spec

(* The goodbye is put into the channel by the write pump's own goroutine   *)
(* when that reads the channel no more: no client ever gets one.           *)
THEOREM ConnectionGoodbyeUnwritten == Spec => []GoodbyeUnwritten
<1>1. Init => GoodbyeUnwritten
  BY DEF Init, GoodbyeUnwritten
<1>2. ASSUME TypeOK, OrderInv, GoodbyeUnwritten, [Next]_vars
      PROVE  GoodbyeUnwritten'
  <2>1. CASE UNCHANGED wire
    BY <1>2, <2>1 DEF GoodbyeUnwritten
  <2>2. ASSUME NEW fails \in BOOLEAN, WriteNext(fails), wire' # wire
        PROVE  GoodbyeUnwritten'
    <3>1. writer = "loop" /\ send # <<>> /\ wire' = Append(wire, Head(send))
      BY <2>2, ZenonT(40) DEF WriteNext
    <3>2. send \in Seq(Messages) /\ wire \in Seq(Messages)
      BY <1>2 DEF TypeOK
    <3>3. Head(send) \in Messages /\ Past(Head(send))
      BY ONLY OrderInv, <3>1, <3>2 DEF OrderInv
    <3>4. Head(send) # Goodbye
      BY ONLY <3>1, <3>3 DEF Past, Goodbye
    <3>5. QED
      BY ONLY GoodbyeUnwritten, <3>1, <3>2, <3>3, <3>4, AppendAt
      DEF GoodbyeUnwritten
  <2>3. QED BY <1>2, <2>1, <2>2, WireSteps
<1>3. IInv => TypeOK
  BY DEF IInv
<1>4. QED
  BY <1>1, <1>2, <1>3, OrderInvariant, ConnectionInvariant, PTL DEF Spec

=============================================================================
