------------------------------- MODULE Server -------------------------------
(***************************************************************************)
(* The server around its websocket connections (signaling/server:          *)
(* server.go, build-supported.go; the ends of signaling/rtm/handlers.go    *)
(* and signaling/mcu/handlers.go; OnServerStatus of signaling/rtm:         *)
(* events.go): how requests become connections that are counted, how       *)
(* clients learn of the server's status, and how Serve stops listening,    *)
(* cancels its context, waits for the connections and returns.             *)
(*                                                                         *)
(* The main goroutine, the HTTP listener, a goroutine for every connection *)
(* and the goroutines that report the license status meet in m.connections *)
(* of the two managers and in m.serverStatus.  What goes on inside a       *)
(* connection is the module Connection, but for this: what OnConnect, a    *)
(* handler or a callback of Close does for a client takes locks of users   *)
(* and channels, and may wait for one of them for good (Users, Channels).  *)
(* The license checks are calls of an external library: a report may come  *)
(* at any time, with any result.                                           *)
(***************************************************************************)
EXTENDS Naturals

CONSTANTS
    Conns,       \* websocket requests, and the connections they become
    Kind,        \* who serves one: "rtm", "control" (an MCU), "pipeline"
    Results,     \* results of license checks; 0 is no error
    MaxReports   \* bound: changes of the server status

ASSUME ServerAssumption ==
    /\ Kind \in [Conns -> {"rtm", "control", "pipeline"}]
    /\ Results \subseteq Nat /\ 0 \in Results
    /\ MaxReports \in Nat

VARIABLES
    phase,       \* where the goroutine of a request or connection is
    table,       \* connections in m.connections of their manager
    stuck,       \* connections whose goroutine waits for a lock for good
    kustomer,    \* kustomerStatus of the reporter
    reporting,   \* the reporter holds kustomerStatusMutex
    version,     \* m.serverStatus: how often it was set
    todo,        \* OnServerStatus: connections not yet looked at
    seen,        \* OnConnect: the version read for the hello
    told,        \* the newest version sent to a client
    missed,      \* clients to which the status could not be sent
    main,        \* where Serve is
    listener,    \* the goroutine of srv.Serve
    busy,        \* Serve: numActive of this round is not zero
    forced,      \* a signal ended the waiting
    atCancel     \* connections in the tables when serveCtx was cancelled

connVars == <<phase, table, stuck>>
statusVars == <<kustomer, reporting, version, todo>>
clientVars == <<seen, told, missed>>
serveVars == <<main, busy, forced, atCancel>>
vars == <<connVars, statusVars, clientVars, serveVars, listener>>

Of(kind) == {c \in Conns : Kind[c] = kind}

Phases == {"new", "request", "serving", "hello", "reading", "ended", "gone"}

(* The goroutine is inside ServeWS.                                        *)
Serving == {"serving", "hello", "reading", "ended"}

(* The state has the types of the Go declarations, and the tables hold no  *)
(* connections of pipelines.                                               *)
TypeOK ==
    /\ phase \in [Conns -> Phases]
    /\ table \subseteq Of("rtm") \cup Of("control")
    /\ stuck \subseteq Of("rtm")
    /\ kustomer \in Results
    /\ reporting \in BOOLEAN
    /\ version \in 0 .. MaxReports
    /\ todo \subseteq Of("rtm")
    /\ seen \in [Conns -> 0 .. MaxReports]
    /\ told \in [Conns -> 0 .. MaxReports]
    /\ missed \subseteq Conns
    /\ main \in {"select", "drain", "count", "countRTM", "wait", "returned"}
    /\ listener \in {"accepting", "stopped", "exited"}
    /\ busy \in BOOLEAN
    /\ forced \in BOOLEAN
    /\ atCancel \subseteq Conns

Init ==
    /\ phase = [c \in Conns |-> "new"]
    /\ table = {} /\ stuck = {}
    /\ kustomer = 0
    /\ reporting = FALSE
    /\ version = 0
    /\ todo = {}
    /\ seen = [c \in Conns |-> 0]
    /\ told = [c \in Conns |-> 0]
    /\ missed = {}
    /\ main = "select"
    /\ listener = "accepting"
    /\ busy = FALSE
    /\ forced = FALSE
    /\ atCancel = {}

Goto(c, from, to) ==
    /\ phase[c] = from /\ phase' = [phase EXCEPT ![c] = to]
    /\ c \notin stuck /\ UNCHANGED stuck

-----------------------------------------------------------------------------
(* Requests and connections.                                               *)

(* Shutdown closes the listener before anything else.                      *)
Request(c) ==
    /\ listener = "accepting" /\ main = "select"
    /\ Goto(c, "new", "request")
    /\ UNCHANGED <<table, statusVars, clientVars, serveVars, listener>>

(* The handler answers with an error.                                      *)
Refuse(c) ==
    /\ Goto(c, "request", "gone")
    /\ UNCHANGED <<table, statusVars, clientVars, serveVars, listener>>

(* What comes after ServeWS has called OnConnect: for a client OnConnect   *)
(* has a hello to send, for an MCU it has nothing to do.                   *)
Entered(c) == IF Kind[c] = "rtm" THEN "serving" ELSE "reading"

(* Mutant of Register: connections of pipelines are put in as well.        *)
RegisterAll(c) ==
    /\ Goto(c, "request", Entered(c))
    /\ table' = table \cup {c}
    /\ UNCHANGED <<statusVars, clientVars, serveVars, listener>>

(* The handler takes the websocket over from the HTTP server, which no     *)
(* longer knows of it, and serveWebsocketConnection puts the connection    *)
(* into the table; one of a pipeline is served without.                    *)
Register(c) ==
    /\ Goto(c, "request", Entered(c))
    /\ table' = table \cup ({c} \ Of("pipeline"))
    /\ UNCHANGED <<statusVars, clientVars, serveVars, listener>>

(* OnConnect reads the status for the hello, and then sends it.  The send  *)
(* may fail, if the send channel is full; nobody looks at the error.       *)
ReadStatus(c) ==
    /\ Goto(c, "serving", "hello")
    /\ seen' = [seen EXCEPT ![c] = version]
    /\ UNCHANGED <<table, statusVars, told, missed, serveVars, listener>>

SendHello(c, full) ==
    /\ Goto(c, "hello", "reading")
    /\ told' = [told EXCEPT ![c] = IF ~full /\ seen[c] > @ THEN seen[c] ELSE @]
    /\ missed' = IF full THEN missed \cup {c} ELSE missed
    /\ UNCHANGED <<table, statusVars, seen, serveVars, listener>>

(* The read loop ends: the peer or, after the context is done, the write   *)
(* pump has closed the websocket.  Close has been called.                  *)
EndOfRead(c) ==
    /\ Goto(c, "reading", "ended")
    /\ UNCHANGED <<table, statusVars, clientVars, serveVars, listener>>

(* Mutant of Unregister: only RTM connections are taken out.               *)
UnregisterRTM(c) ==
    /\ Goto(c, "ended", "gone")
    /\ table' = table \ ({c} \cap Of("rtm"))
    /\ seen' = [seen EXCEPT ![c] = 0]
    /\ told' = [told EXCEPT ![c] = 0]
    /\ missed' = missed \ {c}
    /\ UNCHANGED <<statusVars, serveVars, listener>>

(* serveWebsocketConnection takes the connection out of the table and      *)
(* drops it.                                                               *)
Unregister(c) ==
    /\ Goto(c, "ended", "gone")
    /\ table' = table \ {c}
    /\ seen' = [seen EXCEPT ![c] = 0]
    /\ told' = [told EXCEPT ![c] = 0]
    /\ missed' = missed \ {c}
    /\ UNCHANGED <<statusVars, serveVars, listener>>

(* OnConnect, a handler or a callback of Close waits for good.             *)
Block(c) ==
    /\ Kind[c] = "rtm" /\ c \notin stuck
    /\ phase[c] \in {"serving", "reading", "ended"}
    /\ stuck' = stuck \cup {c}
    /\ UNCHANGED <<phase, table, statusVars, clientVars, serveVars, listener>>

-----------------------------------------------------------------------------
(* The server status.                                                      *)

(* OnServerStatus compares pointers, which always differ, stores the       *)
(* status and goes through the connections.                                *)
OnServerStatus ==
    /\ version' = version + 1
    /\ todo' = Of("rtm")

(* Mutant of Report: who has not got its hello is left out.                *)
ReportGreeted(r) ==
    /\ ~reporting
    /\ r # kustomer /\ version < MaxReports
    /\ kustomer' = r
    /\ reporting' = TRUE
    /\ version' = version + 1
    /\ todo' = {c \in Of("rtm") : phase[c] # "hello"}
    /\ UNCHANGED <<connVars, clientVars, serveVars, listener>>

(* reporter, under its mutex, when the library notifies of new claims, at  *)
(* the start and every minute: a result that differs from the last one is  *)
(* handed on.                                                              *)
Report(r) ==
    /\ ~reporting
    /\ r # kustomer /\ version < MaxReports
    /\ kustomer' = r
    /\ reporting' = TRUE
    /\ OnServerStatus
    /\ UNCHANGED <<connVars, clientVars, serveVars, listener>>

(* OnServerStatus looks at a shard of m.connections and sends the status   *)
(* to a connection it finds there, unless that is closed.  The send may    *)
(* fail, if the send channel is full.                                      *)
StatusSend(c, full) ==
    LET reached == c \in table /\ phase[c] # "ended" IN
    /\ c \in todo
    /\ todo' = todo \ {c}
    /\ told' = IF reached /\ ~full THEN [told EXCEPT ![c] = version] ELSE told
    /\ missed' = IF reached /\ full THEN missed \cup {c}
                 ELSE IF reached THEN missed \ {c} ELSE missed
    /\ UNCHANGED <<connVars, kustomer, reporting, version, seen, serveVars,
                   listener>>

(* OnServerStatus and reporter return.                                     *)
ReportEnd ==
    /\ reporting /\ todo = {}
    /\ reporting' = FALSE
    /\ UNCHANGED <<connVars, kustomer, version, todo, clientVars, serveVars,
                   listener>>

-----------------------------------------------------------------------------
(* The HTTP listener.                                                      *)

(* srv.Serve returns, because of an error or because Shutdown has closed   *)
(* the listener; its error goes to errCh, which has room for it.           *)
ServeReturns ==
    /\ listener = "accepting"
    /\ listener' = "stopped"
    /\ UNCHANGED <<connVars, statusVars, clientVars, serveVars>>

(* close(exitCh).                                                          *)
ListenerExit ==
    /\ listener = "stopped"
    /\ listener' = "exited"
    /\ UNCHANGED <<connVars, statusVars, clientVars, serveVars>>

-----------------------------------------------------------------------------
(* Serve, from the select on.  Nobody waits at signalCh, which has no      *)
(* buffer, at other times: a signal that comes then is lost.               *)

Signal ==
    \/ /\ main = "select"
       /\ main' = "drain"
       /\ UNCHANGED <<connVars, statusVars, clientVars, busy, forced, atCancel,
                      listener>>
    \/ /\ main = "wait"
       /\ main' = "returned"
       /\ forced' = TRUE
       /\ UNCHANGED <<connVars, statusVars, clientVars, busy, atCancel,
                      listener>>

(* There is something in errCh.                                            *)
ReceiveError ==
    /\ main = "select" /\ listener # "accepting"
    /\ main' = "drain"
    /\ UNCHANGED <<connVars, statusVars, clientVars, busy, forced, atCancel,
                   listener>>

(* Shutdown returns, when no request is in a handler or when its time is   *)
(* over, and the context is cancelled.                                     *)
Cancel ==
    /\ main = "drain"
    /\ main' = "count"
    /\ atCancel' = table
    /\ UNCHANGED <<connVars, statusVars, clientVars, busy, forced, listener>>

(* serveCtx is cancelled.                                                  *)
ContextDone == main \in {"count", "countRTM", "wait", "returned"}

(* NumActive of the MCU manager, and then of the RTM manager; the other    *)
(* services count nothing.                                                 *)
CountMCU ==
    /\ main = "count"
    /\ main' = "countRTM"
    /\ busy' = (table \cap Of("control") # {})
    /\ UNCHANGED <<connVars, statusVars, clientVars, forced, atCancel, listener>>

(* Mutant of CountRTM: the sum is replaced.                                *)
CountRTMOnly ==
    /\ main = "countRTM"
    /\ main' = IF table \cap Of("rtm") = {} /\ listener = "exited"
               THEN "returned" ELSE "wait"
    /\ busy' = FALSE
    /\ UNCHANGED <<connVars, statusVars, clientVars, forced, atCancel, listener>>

(* With nothing counted in this round, and exitCh closed, Serve returns.   *)
CountRTM ==
    /\ main = "countRTM"
    /\ main' = IF /\ ~busy /\ table \cap Of("rtm") = {}
                  /\ listener = "exited"
               THEN "returned" ELSE "wait"
    /\ busy' = FALSE
    /\ UNCHANGED <<connVars, statusVars, clientVars, forced, atCancel, listener>>

(* time.After: count again.                                                *)
Timer ==
    /\ main = "wait"
    /\ main' = "count"
    /\ UNCHANGED <<connVars, statusVars, clientVars, busy, forced, atCancel,
                   listener>>

-----------------------------------------------------------------------------
(* What a goroutine does without the peer's help.                          *)
ConnStep(c) ==
    \/ Refuse(c) \/ Register(c) \/ ReadStatus(c) \/ Unregister(c)
    \/ \E full \in BOOLEAN : SendHello(c, full)

ServeStep == ReceiveError \/ Cancel \/ CountMCU \/ CountRTM \/ Timer

(* The process exits when Serve returns.                                   *)
Next ==
    /\ main # "returned"
    /\ \/ \E c \in Conns : Request(c) \/ ConnStep(c) \/ EndOfRead(c) \/ Block(c)
       \/ \E r \in Results : Report(r)
       \/ \E c \in Conns, full \in BOOLEAN : StatusSend(c, full)
       \/ ReportEnd
       \/ ServeReturns \/ ListenerExit
       \/ Signal \/ ServeStep

Spec == Init /\ [][Next]_vars

(* Goroutines are scheduled and Shutdown has a time limit.  When the       *)
(* context is done the write pump closes the websocket, so that the read   *)
(* loop ends (TornDown of Connection); when the listener is closed,        *)
(* srv.Serve returns.  No peer has to hang up and no signal has to come,   *)
(* and no lock has to be free: who is stuck has no step.                   *)
Fairness ==
    /\ \A c \in Conns : WF_vars(ConnStep(c))
    /\ \A c \in Conns : WF_vars(ContextDone /\ EndOfRead(c))
    /\ WF_vars(main # "select" /\ ServeReturns)
    /\ WF_vars(ListenerExit)
    /\ WF_vars(ServeStep)

FairSpec == Spec /\ Fairness

-----------------------------------------------------------------------------
(* Properties.                                                             *)

(* A client that has got its hello has been sent the current status, in    *)
(* the hello or after a change, unless OnServerStatus still has to come to *)
(* it or could not send to it: the table is entered before the status is   *)
(* read, and the status is set before the table is read.  (It need not be  *)
(* the last thing sent: a change may overtake the hello that was built     *)
(* before it.)                                                             *)
StatusKnown ==
    \A c \in Of("rtm") \ (todo \cup missed) :
        phase[c] = "reading" => told[c] = version

(* When Serve returns without a second signal the listener's goroutine is  *)
(* done, and no connection is left that was in a table when the context    *)
(* was cancelled, although the two tables are counted one after the other  *)
(* while connections still come and go.                                    *)
GracefulReturn ==
    main = "returned" /\ ~forced =>
        listener = "exited" /\ atCancel \cap table = {}

(* Once Serve has stopped listening it returns, however many requests and  *)
(* connections are on their way and without a second signal, unless the    *)
(* goroutine of a client's connection waits for a lock for good: that      *)
(* connection stays in the table, and Serve waits for it.                  *)
Stops == main = "drain" ~> main = "returned" \/ stuck # {}

(* How many steps a request or connection is from its end.                 *)
Ahead(p) ==
    CASE p = "request" -> 5 [] p = "serving" -> 4 [] p = "hello" -> 3
      [] p = "reading" -> 2 [] p = "ended" -> 1 [] OTHER -> 0

(* Once it has stopped listening, Serve does not go back, nothing new      *)
(* comes, and whatever a request or connection does brings it nearer to    *)
(* its end.                                                                *)
Drains ==
    [][main # "select" =>
           /\ main' # "select"
           /\ \A c \in Conns :
                  phase'[c] = phase[c] \/ Ahead(phase'[c]) < Ahead(phase[c])]_vars

-----------------------------------------------------------------------------
(* The inductive invariant.                                                *)

(* The tables hold the connections that are being served.                  *)
TableInv ==
    \A c \in Conns :
        c \in table <=> phase[c] \in Serving /\ Kind[c] # "pipeline"

(* A client that is about to get its hello has been or will be told.       *)
StatusInv ==
    /\ \A c \in Of("rtm") \ (todo \cup missed) :
           phase[c] = "hello" => told[c] = version \/ seen[c] = version
    /\ \A c \in Conns : told[c] <= version /\ seen[c] <= version
    /\ todo # {} => reporting

(* A connection that was in a table at the cancel and is not any more is   *)
(* gone for good; a count of nothing holds of those.                       *)
CountInv ==
    /\ \A c \in atCancel : phase[c] \in Serving \cup {"gone"}
    /\ ~ContextDone => atCancel = {}
    /\ main = "countRTM" /\ ~busy => atCancel \cap table \cap Of("control") = {}

IInv ==
    /\ TypeOK /\ TableInv /\ StatusInv /\ CountInv
    /\ StatusKnown /\ GracefulReturn

=============================================================================
