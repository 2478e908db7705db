----------------------------- MODULE Connection -----------------------------
(***************************************************************************)
(* One websocket connection (signaling/connection/connection.go): the read *)
(* pump, the write pump, whoever sends to the connection, and whoever else *)
(* closes it.                                                              *)
(*                                                                         *)
(* The RWMutex is held across steps only by RawSend, which keeps the read  *)
(* lock from the look at closed to the send; sections under the write lock *)
(* are single steps that need all read locks released.                     *)
(***************************************************************************)
EXTENDS Naturals, Sequences, Functions

CONSTANTS
    Senders,    \* other goroutines that send to the connection
    Closers,    \* other goroutines that close it (mcu Pipeline.Close)
    Callbacks,  \* callbacks the connection's handlers register with OnClosed
    SendCap,    \* capacity of Connection.send
    PingCap,    \* capacity of Connection.ping
    MaxSends,   \* messages a goroutine sends
    Reader,     \* the goroutine of readPump
    Writer,     \* the goroutine of writePump
    None

Goroutines == Senders \cup Closers \cup {Reader, Writer}

(* A message is the n-th one a goroutine sends; 0 is the hello of OnConnect*)
(* and the goodbye of OnBeforeDisconnect.                                  *)
Messages == (Senders \cup {Reader, Writer}) \X (0 .. MaxSends)

Hello == <<Reader, 0>>

Goodbye == <<Writer, 0>>

ASSUME ConnectionAssumption ==
    /\ SendCap \in Nat \ {0} /\ PingCap \in Nat \ {0} /\ MaxSends \in Nat
    /\ Reader \notin Senders \cup Closers \cup {Writer}
    /\ Writer \notin Senders \cup Closers
    /\ None \notin Messages

VARIABLES
    closed,     \* Connection.closed
    send,       \* Connection.send: what is in the channel
    sendClosed, \* close(c.send) was called
    callbacks,  \* onClosedCallbacks
    late,       \* callbacks registered when closed was already set
    ran,        \* how often a callback was run
    sending,    \* the message in a goroutine's RawSend, holding the read lock
    sent,       \* messages a goroutine sent
    reader,     \* where readPump is
    writer,     \* where writePump is
    failed,     \* err of writePump is set
    closing,    \* where a goroutine's call of Close is
    taken,      \* callbacks a goroutine's Close has yet to run
    pings,      \* number of pings in Connection.ping
    wsClosed,   \* ws.Close was called
    wire,       \* messages written to the websocket
    panicked    \* send on, or close of, the closed channel

vars == <<closed, send, sendClosed, callbacks, late, ran, sending, sent,
          reader, writer, failed, closing, taken, pings, wsClosed, wire,
          panicked>>

closeVars == <<closed, sendClosed, closing, callbacks, taken, ran>>

(* The state has the types of the Go declarations; the channels hold no    *)
(* more than their capacity.                                               *)
TypeOK ==
    /\ closed \in BOOLEAN /\ sendClosed \in BOOLEAN
    /\ send \in Seq(Messages) /\ Len(send) <= SendCap
    /\ callbacks \subseteq Callbacks /\ late \subseteq Callbacks
    /\ ran \in [Callbacks -> Nat]
    /\ sending \in [Goroutines -> Messages \cup {None}]
    /\ sent \in [Senders \cup {Reader} -> 0 .. MaxSends]
    /\ reader \in {"connect", "read", "close", "gone"}
    /\ writer \in {"loop", "before", "close", "gone"}
    /\ failed \in BOOLEAN
    /\ closing \in [Closers \cup {Reader} ->
                       {"no", "mark", "chan", "take", "run", "done"}]
    /\ taken \in [Closers \cup {Reader} -> SUBSET Callbacks]
    /\ pings \in 0 .. PingCap
    /\ wsClosed \in BOOLEAN
    /\ wire \in Seq(Messages)
    /\ panicked \in BOOLEAN

Init ==
    /\ closed = FALSE /\ sendClosed = FALSE
    /\ send = <<>>
    /\ callbacks = {} /\ late = {}
    /\ ran = [cb \in Callbacks |-> 0]
    /\ sending = [g \in Goroutines |-> None]
    /\ sent = [g \in Senders \cup {Reader} |-> 0]
    /\ reader = "connect"
    /\ writer = "loop"
    /\ failed = FALSE
    /\ closing = [g \in Closers \cup {Reader} |-> "no"]
    /\ taken = [g \in Closers \cup {Reader} |-> {}]
    /\ pings = 0
    /\ wsClosed = FALSE
    /\ wire = <<>>
    /\ panicked = FALSE

-----------------------------------------------------------------------------
(* RawSend.                                                                *)

ReadLocked(g) == sending[g] # None

(* Mutant of RawSendEnter: closed is not looked at.                        *)
RawSendUnchecked(g, m) ==
    ~ReadLocked(g) /\ sending' = [sending EXCEPT ![g] = m]

(* Take the read lock; go on only if the connection is not closed.         *)
RawSendEnter(g, m) ==
    /\ ~ReadLocked(g)
    /\ sending' = IF closed THEN sending ELSE [sending EXCEPT ![g] = m]

(* Send to the channel without blocking, and release the read lock.  A     *)
(* message for which there is no room is dropped.                          *)
RawSendPush(g) ==
    /\ ReadLocked(g)
    /\ panicked' = (panicked \/ sendClosed)
    /\ send' = IF sendClosed \/ Len(send) = SendCap THEN send
               ELSE Append(send, sending[g])
    /\ sending' = [sending EXCEPT ![g] = None]
    /\ UNCHANGED <<closeVars, late, sent, reader, writer, failed, pings,
                   wsClosed, wire>>

(* A goroutine sends to the connection; so does a handler of its own.      *)
Send(g) ==
    /\ g = Reader => reader = "read"
    /\ sent[g] < MaxSends
    /\ sent' = [sent EXCEPT ![g] = @ + 1]
    /\ RawSendEnter(g, <<g, sent[g] + 1>>)
    /\ UNCHANGED <<closeVars, send, late, reader, writer, failed, pings,
                   wsClosed, wire, panicked>>

-----------------------------------------------------------------------------
(* Close.                                                                  *)

CloseAt(g, from, to) ==
    closing[g] = from /\ closing' = [closing EXCEPT ![g] = to]

(* Mutant of CloseMark: Close of a closed connection runs the callbacks    *)
(* that it finds.                                                          *)
CloseMarkRuns(g) ==
    /\ \A h \in Goroutines : ~ReadLocked(h)
    /\ CloseAt(g, "mark", IF closed THEN "run" ELSE "chan")
    /\ closed' = TRUE
    /\ taken' = IF closed THEN [taken EXCEPT ![g] = callbacks] ELSE taken
    /\ UNCHANGED <<send, sendClosed, callbacks, late, ran, sending, sent,
                   reader, writer, failed, pings, wsClosed, wire, panicked>>

(* Set closed, unless it is.                                               *)
CloseMark(g) ==
    /\ \A h \in Goroutines : ~ReadLocked(h)
    /\ CloseAt(g, "mark", IF closed THEN "done" ELSE "chan")
    /\ closed' = TRUE
    /\ UNCHANGED <<send, sendClosed, callbacks, late, ran, sending, sent,
                   reader, writer, failed, taken, pings, wsClosed, wire,
                   panicked>>

(* Mutant of CloseChan: the callbacks are not taken.                       *)
CloseChanLast(g) ==
    /\ CloseAt(g, "chan", "run")
    /\ panicked' = (panicked \/ sendClosed)
    /\ sendClosed' = TRUE
    /\ UNCHANGED <<closed, send, callbacks, late, ran, sending, sent, reader,
                   writer, failed, taken, pings, wsClosed, wire>>

(* close(c.send), outside the lock.                                        *)
CloseChan(g) ==
    /\ CloseAt(g, "chan", "take")
    /\ panicked' = (panicked \/ sendClosed)
    /\ sendClosed' = TRUE
    /\ UNCHANGED <<closed, send, callbacks, late, ran, sending, sent, reader,
                   writer, failed, taken, pings, wsClosed, wire>>

(* Mutant of CloseTake: the callbacks are lost.                            *)
CloseTakeLoses(g) ==
    /\ \A h \in Goroutines : ~ReadLocked(h)
    /\ CloseAt(g, "take", "run")
    /\ callbacks' = {}
    /\ UNCHANGED <<closed, send, sendClosed, late, ran, sending, sent, reader,
                   writer, failed, taken, pings, wsClosed, wire, panicked>>

(* Take the callbacks.                                                     *)
CloseTake(g) ==
    /\ \A h \in Goroutines : ~ReadLocked(h)
    /\ CloseAt(g, "take", "run")
    /\ taken' = [taken EXCEPT ![g] = callbacks]
    /\ callbacks' = {}
    /\ UNCHANGED <<closed, send, sendClosed, late, ran, sending, sent, reader,
                   writer, failed, pings, wsClosed, wire, panicked>>

(* Run the callbacks, outside the lock.                                    *)
CloseRun(g, cb) ==
    /\ closing[g] = "run"
    /\ cb \in taken[g]
    /\ taken' = [taken EXCEPT ![g] = @ \ {cb}]
    /\ ran' = [ran EXCEPT ![cb] = @ + 1]
    /\ UNCHANGED <<closed, send, sendClosed, callbacks, late, sending, sent,
                   reader, writer, failed, closing, pings, wsClosed, wire,
                   panicked>>

CloseReturn(g) ==
    /\ taken[g] = {}
    /\ CloseAt(g, "run", "done")
    /\ UNCHANGED <<closed, send, sendClosed, callbacks, late, ran, sending,
                   sent, reader, writer, failed, taken, pings, wsClosed, wire,
                   panicked>>

(* Another goroutine calls Close.                                          *)
CloseOther(g) ==
    /\ CloseAt(g, "no", "mark")
    /\ UNCHANGED <<closed, send, sendClosed, callbacks, late, ran, sending,
                   sent, reader, writer, failed, taken, pings, wsClosed, wire,
                   panicked>>

-----------------------------------------------------------------------------
(* readPump.                                                               *)

(* OnConnect sends the hello.                                              *)
OnConnect ==
    /\ reader = "connect"
    /\ reader' = "read"
    /\ RawSendEnter(Reader, Hello)
    /\ UNCHANGED <<closeVars, send, late, sent, writer, failed, pings,
                   wsClosed, wire, panicked>>

(* A handler of the connection registers a callback.                       *)
OnClosed(cb) ==
    /\ reader = "read"
    /\ \A h \in Goroutines : ~ReadLocked(h)
    /\ cb \notin callbacks \cup late /\ ran[cb] = 0
    /\ \A g \in Closers \cup {Reader} : cb \notin taken[g]
    /\ callbacks' = callbacks \cup {cb}
    /\ late' = IF closed THEN late \cup {cb} ELSE late
    /\ UNCHANGED <<closed, send, sendClosed, ran, sending, sent, reader,
                   writer, failed, closing, taken, pings, wsClosed, wire,
                   panicked>>

(* The pong handler empties the ping channel.                              *)
Pong ==
    /\ reader = "read" /\ ~ReadLocked(Reader)
    /\ ~wsClosed
    /\ pings' = 0
    /\ UNCHANGED <<closeVars, send, late, sending, sent, reader, writer,
                   failed, wsClosed, wire, panicked>>

(* The read fails (the peer closed, the read deadline passed, the write    *)
(* pump closed the websocket) or a handler's error ends the loop.          *)
ReadEnd ==
    /\ reader = "read" /\ ~ReadLocked(Reader)
    /\ reader' = "close"
    /\ CloseAt(Reader, "no", "mark")
    /\ UNCHANGED <<closed, send, sendClosed, callbacks, late, ran, sending,
                   sent, writer, failed, taken, pings, wsClosed, wire,
                   panicked>>

(* After Close, OnDisconnect.                                              *)
OnDisconnect ==
    /\ reader = "close"
    /\ closing[Reader] = "done"
    /\ reader' = "gone"
    /\ UNCHANGED <<closeVars, send, late, sending, sent, writer, failed, pings,
                   wsClosed, wire, panicked>>

-----------------------------------------------------------------------------
(* writePump.                                                              *)

WriterExit(err) == writer' = "before" /\ failed' = err

(* Mutant of WriteNext: a message is written and stays in the channel.     *)
WriteNextKeeps(fails) ==
    /\ writer = "loop"
    /\ send # <<>> /\ Len(wire) < 2
    /\ wire' = Append(wire, Head(send))
    /\ UNCHANGED <<closeVars, send, late, sending, sent, reader, writer,
                   failed, pings, wsClosed, panicked>>

(* A message is taken from the channel and written, which may fail; the    *)
(* channel is closed and empty.                                            *)
WriteNext(fails) ==
    /\ writer = "loop"
    /\ \/ /\ send # <<>>
          /\ wsClosed => fails
          /\ send' = Tail(send)
          /\ IF fails THEN WriterExit(TRUE) /\ UNCHANGED wire
             ELSE wire' = Append(wire, Head(send)) /\ UNCHANGED <<writer, failed>>
       \/ /\ send = <<>> /\ sendClosed
          /\ WriterExit(TRUE)
          /\ UNCHANGED <<send, wire>>
    /\ UNCHANGED <<closeVars, late, sending, sent, reader, pings, wsClosed,
                   panicked>>

(* The ticker: hang up if the pings fill their channel, else send a ping.  *)
WritePing(fails) ==
    /\ writer = "loop"
    /\ wsClosed => fails
    /\ IF pings = PingCap
       THEN WriterExit(FALSE) /\ UNCHANGED pings
       ELSE /\ pings' = pings + 1
            /\ IF fails THEN WriterExit(TRUE) ELSE UNCHANGED <<writer, failed>>
    /\ UNCHANGED <<closeVars, send, late, sending, sent, reader, wsClosed,
                   wire, panicked>>

(* The context is done: the server shuts down.                             *)
ContextDone ==
    /\ writer = "loop"
    /\ WriterExit(FALSE)
    /\ UNCHANGED <<closeVars, send, late, sending, sent, reader, pings,
                   wsClosed, wire, panicked>>

(* Deferred: OnBeforeDisconnect sends a goodbye if there was no error.     *)
OnBeforeDisconnect ==
    /\ writer = "before"
    /\ writer' = "close"
    /\ IF failed THEN UNCHANGED sending ELSE RawSendEnter(Writer, Goodbye)
    /\ UNCHANGED <<closeVars, send, late, sent, reader, failed, pings,
                   wsClosed, wire, panicked>>

(* Mutant of CloseWebsocket: the websocket is left open.                   *)
CloseWebsocketNot ==
    /\ writer = "close" /\ ~ReadLocked(Writer)
    /\ writer' = "gone"
    /\ UNCHANGED <<closeVars, send, late, sending, sent, reader, failed, pings,
                   wsClosed, wire, panicked>>

(* Deferred: write the close message and close the websocket.              *)
CloseWebsocket ==
    /\ writer = "close" /\ ~ReadLocked(Writer)
    /\ writer' = "gone"
    /\ wsClosed' = TRUE
    /\ UNCHANGED <<closeVars, send, late, sending, sent, reader, failed, pings,
                   wire, panicked>>

-----------------------------------------------------------------------------
CloseStep(g) ==
    \/ CloseMark(g) \/ CloseChan(g) \/ CloseTake(g) \/ CloseReturn(g)
    \/ \E cb \in Callbacks : CloseRun(g, cb)

WriterStep ==
    \/ \E fails \in BOOLEAN : WriteNext(fails)
    \/ OnBeforeDisconnect \/ CloseWebsocket

Next ==
    \/ \E g \in Senders \cup {Reader} : Send(g)
    \/ \E g \in Goroutines : RawSendPush(g)
    \/ \E g \in Closers : CloseOther(g)
    \/ \E g \in Closers \cup {Reader} : CloseStep(g)
    \/ \E cb \in Callbacks : OnClosed(cb)
    \/ OnConnect \/ Pong \/ ReadEnd \/ OnDisconnect
    \/ \E fails \in BOOLEAN : WritePing(fails)
    \/ WriterStep \/ ContextDone

Spec == Init /\ [][Next]_vars

(* Goroutines are scheduled, and a lock that is released is obtained; what *)
(* OnConnect, the handlers and the callbacks of Close call returns.  A     *)
(* read of a closed websocket fails; otherwise nothing says that the peer, *)
(* the ticker, the senders or the server end the connection.               *)
Fairness ==
    /\ WF_vars(OnConnect) /\ WF_vars(OnDisconnect) /\ WF_vars(WriterStep)
    /\ WF_vars(wsClosed /\ ReadEnd)
    /\ \A g \in Goroutines : WF_vars(RawSendPush(g))
    /\ \A g \in Closers \cup {Reader} : SF_vars(CloseStep(g))

FairSpec == Spec /\ Fairness

-----------------------------------------------------------------------------
(* Properties.                                                             *)

(* No goroutine ever sends on the closed channel or closes it again, which *)
(* would panic, although Close closes it outside the mutex.                *)
NoPanic == ~panicked

(* Whoever closes the connection, a callback is run at most once.          *)
CallbackOnce == \A cb \in Callbacks : ran[cb] <= 1

(* A callback registered before the connection is closed is run once it is.*)
CallbackRuns ==
    \A cb \in Callbacks :
        (closed /\ cb \in callbacks \ late) ~> ran[cb] = 1

(* Whichever side ends first, the other follows: both pumps end, the       *)
(* websocket is closed, and OnDisconnect is called.                        *)
TornDown ==
    (closed \/ writer # "loop") ~> (reader = "gone" /\ writer = "gone" /\ wsClosed)

(* What one goroutine sends is written in the order it was sent, and never *)
(* twice, whatever is dropped because the channel is full.                 *)
WireOrder ==
    \A i, j \in DOMAIN wire :
        i < j /\ wire[i][1] = wire[j][1] => wire[i][2] < wire[j][2]

(* A callback that was registered in time and has not been run is in the   *)
(* hands of a goroutine that is inside Close: no order of Close, another   *)
(* Close and OnClosed leaves it to nobody.                                 *)
NoneStranded ==
    /\ closed => \A cb \in callbacks \ late :
           \E g \in Closers \cup {Reader} : closing[g] \in {"chan", "take"}
    /\ \A g \in Closers \cup {Reader} : taken[g] # {} => closing[g] = "run"

(* The goodbye of OnBeforeDisconnect is never written: it is sent by the   *)
(* goroutine that would have to write it, when that has ceased to.         *)
GoodbyeUnwritten == \A i \in DOMAIN wire : wire[i] # Goodbye

-----------------------------------------------------------------------------
(* What a connection is for.                                               *)

O == INSTANCE Outbox
     WITH Cap <- SendCap, queue <- send, written <- wire,
          open <- ~closed, live <- (writer = "loop")

(* Connections implement Outbox: what RawSend has accepted is written, in  *)
(* order and once, until the write pump ends; Close, which closes the      *)
(* channel, takes nothing out of it, and nothing is accepted after it.     *)
ImplementsOutbox == O!Spec

-----------------------------------------------------------------------------
(* The inductive invariant.                                                *)

(* The read lock keeps closed from being set, and closed is set before the *)
(* channel is closed: who is in RawSend sends on an open channel.          *)
SendInv ==
    /\ ~panicked
    /\ sendClosed => closed
    /\ \A g \in Goroutines : sending[g] # None => ~closed

(* Only the goroutine that set closed goes on in Close, and the channel is *)
(* open until that goroutine closes it.                                    *)
CloseInv ==
    /\ \A g \in Closers \cup {Reader} :
           /\ closing[g] \in {"chan", "take", "run"} => closed
           /\ closing[g] = "chan" => ~sendClosed
    /\ \A g, h \in Closers \cup {Reader} :
           closing[g] \in {"chan", "take", "run"} /\
           closing[h] \in {"chan", "take", "run"} => g = h

(* A callback waits in one place, and only as long as it has not run.      *)
CallbackInv ==
    /\ \A cb \in Callbacks : ran[cb] <= 1
    /\ \A cb \in callbacks : ran[cb] = 0
    /\ \A g \in Closers \cup {Reader} : \A cb \in taken[g] :
           /\ ran[cb] = 0
           /\ cb \notin callbacks
           /\ \A h \in Closers \cup {Reader} : cb \in taken[h] => g = h

IInv == TypeOK /\ SendInv /\ CloseInv /\ CallbackInv

(* m was sent after everything of its goroutine in the sequence s.         *)
Newer(m, s) == \A i \in DOMAIN s : s[i][1] = m[1] => s[i][2] < m[2]

Sorted(s) ==
    \A i, j \in DOMAIN s : i < j /\ s[i][1] = s[j][1] => s[i][2] < s[j][2]

(* The goroutine of m has got as far as sending it.                        *)
Past(m) ==
    IF m[1] = Writer THEN writer \in {"close", "gone"}
    ELSE m[2] <= sent[m[1]] /\ (m[1] = Reader => reader # "connect")

(* What is in RawSend is newer than what is in the channel, and that is    *)
(* newer than what is written.                                             *)
OrderInv ==
    /\ Sorted(wire) /\ Sorted(send)
    /\ \A i \in DOMAIN wire : Past(wire[i])
    /\ \A i \in DOMAIN send : Past(send[i]) /\ Newer(send[i], wire)
    /\ \A g \in Goroutines : sending[g] # None =>
           /\ sending[g][1] = g
           /\ Past(sending[g])
           /\ Newer(sending[g], send) /\ Newer(sending[g], wire)

=============================================================================
