------------------------------ MODULE Pipeline ------------------------------
(***************************************************************************)
(* A pipeline of a channel to the MCU and the transactions it attaches     *)
(* with (signaling/mcu: pipeline.go, manager.go, handlers.go).  An attach  *)
(* is a message to the MCU with a new transaction; the MCU answers, if at  *)
(* all, with a websocket connection for that transaction.  The pipeline    *)
(* attaches again when its connection closes and, by a watcher timer, when *)
(* it has none.                                                            *)
(*                                                                         *)
(* Each critical section of Pipeline.mutex is one step.  A timer that has  *)
(* fired waits for the mutex, and Stop has no effect on it.                *)
(***************************************************************************)
EXTENDS Naturals, FiniteSets

CONSTANTS
    MaxAttach,  \* number of transactions
    Handlers,   \* requests of HandleWebsocketConnect
    Flaky,      \* whether the control connections come and go
    MaxGo,      \* bound on the reconnect goroutines that have not yet run
    None

Attaches == 1 .. MaxAttach

ASSUME PipelineAssumption ==
    /\ Flaky \in BOOLEAN /\ MaxAttach \in Nat /\ MaxGo \in Nat \ {0}
    /\ None \notin Attaches

VARIABLES
    up,          \* a control connection of the MCU is available
    attempts,    \* number of transactions
    asked,       \* transactions in the table whose message was sent
    attached,    \* keys of Manager.attached
    fresh,       \* records with onConnect not nil
    bound,       \* records with connection not nil
    expired,     \* transactions the purger is about to remove
    pc, tx,      \* where a handler is and the transaction it is for
    status,      \* of the websocket connection of a transaction
    made,        \* number of websocket connections of a transaction
    hooked,      \* connections with Pipeline.onClosed as callback
    tracked,     \* connections with the callback that clears the record
    started,     \* Pipeline.Connect is done
    closed, connecting, connection,       \* fields of Pipeline
    rGo, rPtr, rLoose, rFired,            \* reconnect goroutines and timers
    wGo, wPtr, wLoose, wFired             \* watch goroutines and timers

manVars  == <<up, attempts, asked, attached, fresh, bound, expired>>
httpVars == <<pc, tx, made, hooked, tracked>>
pipeVars == <<started, closed, connecting, connection>>
rVars    == <<rGo, rPtr, rLoose, rFired>>
wVars    == <<wGo, wPtr, wLoose, wFired>>
vars     == <<manVars, httpVars, status, pipeVars, rVars, wVars>>

(* The timer a pointer field refers to: none, one that will fire, or one   *)
(* that has fired.                                                         *)
Pointers == {"nil", "armed", "stale"}

ManType ==
    /\ up \in BOOLEAN
    /\ attempts \in 0 .. MaxAttach
    /\ asked \subseteq attached /\ attached \subseteq 1 .. attempts
    /\ fresh \subseteq 1 .. attempts /\ bound \subseteq 1 .. attempts
    /\ expired \subseteq attached

HttpType ==
    /\ pc \in [Handlers -> {"idle", "found", "connect", "hook", "serve"}]
    /\ tx \in [Handlers -> Attaches \cup {None}]
    /\ status \in [Attaches -> {"none", "open", "closing", "closed", "gone"}]
    /\ made \in [Attaches -> Nat]
    /\ hooked \subseteq Attaches /\ tracked \subseteq Attaches
    /\ \A h \in Handlers : pc[h] # "idle" => tx[h] \in Attaches

PipeType ==
    /\ started \in BOOLEAN /\ closed \in BOOLEAN /\ connecting \in BOOLEAN
    /\ connection \in Attaches \cup {None}
    /\ rGo \in 0 .. MaxGo /\ wGo \in Nat
    /\ rPtr \in Pointers /\ wPtr \in Pointers
    /\ rLoose \in Nat /\ rFired \in Nat /\ wLoose \in Nat /\ wFired \in Nat

(* The state has the types of the code's variables; only transactions in   *)
(* the table are about to be removed from it.                              *)
TypeOK == ManType /\ HttpType /\ PipeType

Init ==
    /\ up \in {TRUE, ~Flaky}
    /\ attempts = 0
    /\ asked = {} /\ attached = {} /\ fresh = {} /\ bound = {} /\ expired = {}
    /\ pc = [h \in Handlers |-> "idle"]
    /\ tx = [h \in Handlers |-> None]
    /\ status = [a \in Attaches |-> "none"]
    /\ made = [a \in Attaches |-> 0]
    /\ hooked = {} /\ tracked = {}
    /\ started = FALSE /\ closed = FALSE /\ connecting = FALSE
    /\ connection = None
    /\ rGo = 0 /\ rPtr = "nil" /\ rLoose = 0 /\ rFired = 0
    /\ wGo = 0 /\ wPtr = "nil" /\ wLoose = 0 /\ wFired = 0

Flag(b) == IF b THEN 1 ELSE 0

-----------------------------------------------------------------------------
(* The manager.                                                            *)

(* A control connection of the MCU comes or goes.                          *)
Control ==
    /\ Flaky
    /\ up' = ~up
    /\ UNCHANGED <<attempts, asked, attached, fresh, bound, expired>>
    /\ UNCHANGED <<httpVars, status, pipeVars, rVars, wVars>>

(* Manager.Attach: it fails without a control connection, and when the     *)
(* message cannot be sent, which leaves the record behind.                 *)
Attach(ok) ==
    \/ /\ ~up /\ ~ok
       /\ UNCHANGED manVars
    \/ /\ up /\ attempts < MaxAttach
       /\ attempts' = attempts + 1
       /\ attached' = attached \cup {attempts + 1}
       /\ fresh' = fresh \cup {attempts + 1}
       /\ asked' = IF ok THEN asked \cup {attempts + 1} ELSE asked
       /\ UNCHANGED <<up, bound, expired>>

(* The record of a transaction is locked by the handler that serves it.    *)
RecordLocked(a) ==
    \E h \in Handlers : tx[h] = a /\ pc[h] \in {"connect", "hook", "serve"}

(* Mutant of PurgeMark: the record keeps its onConnect.                    *)
PurgeMarkKeeps(a) ==
    /\ a \in attached \ (bound \cup expired)
    /\ ~RecordLocked(a)
    /\ expired' = expired \cup {a}
    /\ UNCHANGED <<up, attempts, asked, attached, fresh, bound>>
    /\ UNCHANGED <<httpVars, status, pipeVars, rVars, wVars>>

(* purgeExpiredAttached, a record without connection after its time.       *)
PurgeMark(a) ==
    /\ a \in attached \ (bound \cup expired)
    /\ ~RecordLocked(a)
    /\ expired' = expired \cup {a}
    /\ fresh' = fresh \ {a}
    /\ UNCHANGED <<up, attempts, asked, attached, bound>>
    /\ UNCHANGED <<httpVars, status, pipeVars, rVars, wVars>>

(* Mutant of PurgeRemove: the list of the expired is kept.                 *)
PurgeRemoveKeeps(a) ==
    /\ a \in expired
    /\ attached' = attached \ {a}
    /\ asked' = asked \ {a}
    /\ UNCHANGED <<up, attempts, fresh, bound, expired>>
    /\ UNCHANGED <<httpVars, status, pipeVars, rVars, wVars>>

(* purgeExpiredAttached, the removal from the table.                       *)
PurgeRemove(a) ==
    /\ a \in expired
    /\ expired' = expired \ {a}
    /\ attached' = attached \ {a}
    /\ asked' = asked \ {a}
    /\ UNCHANGED <<up, attempts, fresh, bound>>
    /\ UNCHANGED <<httpVars, status, pipeVars, rVars, wVars>>

-----------------------------------------------------------------------------
(* HandleWebsocketConnect for a transaction.                               *)

Find(h, a) ==
    /\ pc[h] = "idle" /\ a \in asked \cap attached
    /\ pc' = [pc EXCEPT ![h] = "found"]
    /\ tx' = [tx EXCEPT ![h] = a]
    /\ UNCHANGED <<made, hooked, tracked, status, manVars, pipeVars, rVars, wVars>>

Finish(h) ==
    /\ pc' = [pc EXCEPT ![h] = "idle"]
    /\ tx' = [tx EXCEPT ![h] = None]

(* The record is used already or expired, or the upgrade fails.            *)
Refuse(h) ==
    /\ pc[h] = "found" /\ ~RecordLocked(tx[h])
    /\ Finish(h)
    /\ UNCHANGED <<made, hooked, tracked, status, manVars, pipeVars, rVars, wVars>>

(* The record is locked and gets the new connection.                       *)
Accept(h) ==
    /\ pc[h] = "found" /\ ~RecordLocked(tx[h])
    /\ tx[h] \in fresh \ bound
    /\ pc' = [pc EXCEPT ![h] = "connect"]
    /\ bound' = bound \cup {tx[h]}
    /\ status' = [status EXCEPT ![tx[h]] = "open"]
    /\ made' = [made EXCEPT ![tx[h]] = @ + 1]
    /\ UNCHANGED <<up, attempts, asked, attached, fresh, expired>>
    /\ UNCHANGED <<tx, hooked, tracked, pipeVars, rVars, wVars>>

(* Pipeline.onConnect.                                                     *)
OnConnect(h) ==
    /\ pc[h] = "connect"
    /\ pc' = [pc EXCEPT ![h] = "hook"]
    /\ connecting' = FALSE
    /\ connection' = tx[h]
    /\ UNCHANGED <<started, closed, tx, made, hooked, tracked, status>>
    /\ UNCHANGED <<manVars, rVars, wVars>>

(* conn.OnClosed(p.onClosed).                                              *)
Hook(h) ==
    /\ pc[h] = "hook"
    /\ pc' = [pc EXCEPT ![h] = "serve"]
    /\ hooked' = IF status[tx[h]] = "open" THEN hooked \cup {tx[h]} ELSE hooked
    /\ UNCHANGED <<tx, made, tracked, status, manVars, pipeVars, rVars, wVars>>

(* Mutant of ServeConn: the record keeps its onConnect.                    *)
ServeConnKeeps(h) ==
    /\ pc[h] = "serve"
    /\ Finish(h)
    /\ tracked' = IF status[tx[h]] = "open" THEN tracked \cup {tx[h]} ELSE tracked
    /\ UNCHANGED <<made, hooked, status, manVars, pipeVars, rVars, wVars>>

(* The transaction is used up; the connection is served.                   *)
ServeConn(h) ==
    /\ pc[h] = "serve"
    /\ Finish(h)
    /\ fresh' = fresh \ {tx[h]}
    /\ tracked' = IF status[tx[h]] = "open" THEN tracked \cup {tx[h]} ELSE tracked
    /\ UNCHANGED <<up, attempts, asked, attached, bound, expired>>
    /\ UNCHANGED <<made, hooked, status, pipeVars, rVars, wVars>>

-----------------------------------------------------------------------------
(* The websocket connection of a transaction.                              *)

(* It fails while it is served: Connection.Close.                          *)
ConnClose(a) ==
    /\ status[a] = "open" /\ ~RecordLocked(a)
    /\ status' = [status EXCEPT ![a] = "closing"]
    /\ UNCHANGED <<manVars, httpVars, pipeVars, rVars, wVars>>

(* Pipeline.onClosed, if it is a callback of the connection.               *)
OnClosed(a) ==
    /\ status[a] = "closing"
    /\ status' = [status EXCEPT ![a] = "closed"]
    /\ IF a \in hooked /\ connection = a /\ ~connecting /\ ~closed
       THEN /\ connection' = None
            /\ rGo < MaxGo /\ rGo' = rGo + 1
       ELSE UNCHANGED <<connection, rGo>>
    /\ UNCHANGED <<started, closed, connecting, rPtr, rLoose, rFired>>
    /\ UNCHANGED <<manVars, httpVars, wVars>>

(* The callback that clears the record, if it is one of the connection.    *)
Release(a) ==
    /\ status[a] = "closed" /\ ~RecordLocked(a)
    /\ status' = [status EXCEPT ![a] = "gone"]
    /\ bound' = IF a \in tracked THEN bound \ {a} ELSE bound
    /\ UNCHANGED <<up, attempts, asked, attached, fresh, expired>>
    /\ UNCHANGED <<httpVars, pipeVars, rVars, wVars>>

-----------------------------------------------------------------------------
(* The pipeline.                                                           *)

(* Connect: it is asked for once, in a goroutine of its own.               *)
Connect ==
    /\ ~started /\ started' = TRUE
    /\ IF closed
       THEN UNCHANGED <<manVars, rGo, wGo>>
       ELSE \E ok \in BOOLEAN :
                /\ Attach(ok)
                /\ rGo' = rGo + Flag(~ok) /\ rGo' <= MaxGo
                /\ wGo' = wGo + 1
    /\ UNCHANGED <<closed, connecting, connection, rPtr, rLoose, rFired>>
    /\ UNCHANGED <<wPtr, wLoose, wFired, httpVars, status>>

(* watch: the timer is started, the one it replaces stopped.               *)
Watch ==
    /\ wGo > 0 /\ wGo' = wGo - 1
    /\ wPtr' = "armed"
    /\ UNCHANGED <<wLoose, wFired, manVars, httpVars, status, pipeVars, rVars>>

(* A watcher's time is over.                                               *)
WatchFire ==
    /\ \/ wPtr = "armed" /\ wPtr' = "stale" /\ UNCHANGED wLoose
       \/ wLoose > 0 /\ wLoose' = wLoose - 1 /\ UNCHANGED wPtr
    /\ wFired' = wFired + 1
    /\ UNCHANGED <<wGo, manVars, httpVars, status, pipeVars, rVars>>

(* Mutant of WatchTimeout: it is not restarted after a reconnect.          *)
WatchTimeoutOnce ==
    /\ wFired > 0 /\ wFired' = wFired - 1
    /\ wPtr' = "nil" /\ wLoose' = wLoose + Flag(wPtr = "armed")
    /\ rGo' = IF ~closed /\ connection = None /\ ~connecting THEN rGo + 1 ELSE rGo
    /\ rGo' <= MaxGo
    /\ wGo' = wGo + Flag(~closed /\ rGo' = rGo)
    /\ UNCHANGED <<manVars, httpVars, status, pipeVars, rPtr, rLoose, rFired>>

(* Mutant of WatchTimeout: it is restarted after Close too.                *)
WatchTimeoutForever ==
    /\ wFired > 0 /\ wFired' = wFired - 1
    /\ wPtr' = "nil" /\ wLoose' = wLoose + Flag(wPtr = "armed")
    /\ rGo' = rGo + Flag(~closed /\ connection = None /\ ~connecting)
    /\ rGo' <= MaxGo
    /\ wGo' = wGo + 1
    /\ UNCHANGED <<manVars, httpVars, status, pipeVars, rPtr, rLoose, rFired>>

(* The function of the watcher: without a connection it reconnects; it     *)
(* starts the next watcher.                                                *)
WatchTimeout ==
    /\ wFired > 0 /\ wFired' = wFired - 1
    /\ wPtr' = "nil" /\ wLoose' = wLoose + Flag(wPtr = "armed")
    /\ rGo' = rGo + Flag(~closed /\ connection = None /\ ~connecting)
    /\ rGo' <= MaxGo
    /\ wGo' = wGo + Flag(~closed)
    /\ UNCHANGED <<manVars, httpVars, status, pipeVars, rPtr, rLoose, rFired>>

(* Mutant of Reconnect: the test of connecting is inverted.                *)
ReconnectNot ==
    /\ rGo > 0 /\ rGo' = rGo - 1
    /\ rPtr' = IF connecting THEN "armed" ELSE rPtr
    /\ UNCHANGED <<started, closed, connecting, connection, rLoose, rFired>>
    /\ UNCHANGED <<manVars, httpVars, status, wVars>>

(* reconnect: nothing to do while connecting.                              *)
Reconnect ==
    /\ rGo > 0 /\ rGo' = rGo - 1
    /\ rPtr' = IF connecting THEN rPtr ELSE "armed"
    /\ connecting' = TRUE
    /\ UNCHANGED <<started, closed, connection, rLoose, rFired>>
    /\ UNCHANGED <<manVars, httpVars, status, wVars>>

ReconnectFire ==
    /\ \/ rPtr = "armed" /\ rPtr' = "stale" /\ UNCHANGED rLoose
       \/ rLoose > 0 /\ rLoose' = rLoose - 1 /\ UNCHANGED rPtr
    /\ rFired' = rFired + 1
    /\ UNCHANGED <<rGo, manVars, httpVars, status, pipeVars, wVars>>

(* Mutant of ReconnectTimeout: connecting is not reset on failure, and so  *)
(* reconnect does nothing.                                                 *)
ReconnectTimeoutStays ==
    /\ rFired > 0 /\ rFired' = rFired - 1
    /\ rPtr' = "nil" /\ rLoose' = rLoose + Flag(rPtr = "armed")
    /\ IF ~connecting \/ closed
       THEN UNCHANGED <<connecting, rGo, wGo, wPtr, manVars>>
       ELSE \E ok \in BOOLEAN :
                /\ Attach(ok)
                /\ connecting' = ~ok
                /\ rGo' = rGo + Flag(~ok) /\ rGo' <= MaxGo
                /\ wGo' = wGo + Flag(ok /\ wPtr # "nil")
                /\ wPtr' = IF ok /\ wPtr = "armed" THEN "stale" ELSE wPtr
    /\ UNCHANGED <<started, closed, connection, wLoose, wFired, httpVars, status>>

(* The function of the reconnect timer: attach, and on success restart the *)
(* watcher, on failure reconnect again.                                    *)
ReconnectTimeout ==
    /\ rFired > 0 /\ rFired' = rFired - 1
    /\ rPtr' = "nil" /\ rLoose' = rLoose + Flag(rPtr = "armed")
    /\ IF ~connecting \/ closed
       THEN UNCHANGED <<connecting, rGo, wGo, wPtr, manVars>>
       ELSE \E ok \in BOOLEAN :
                /\ Attach(ok)
                /\ connecting' = FALSE
                /\ rGo' = rGo + Flag(~ok) /\ rGo' <= MaxGo
                /\ wGo' = wGo + Flag(ok /\ wPtr # "nil")
                /\ wPtr' = IF ok /\ wPtr = "armed" THEN "stale" ELSE wPtr
    /\ UNCHANGED <<started, closed, connection, wLoose, wFired, httpVars, status>>

(* Close: timers are stopped and the connection is closed.                 *)
Close ==
    /\ ~closed /\ closed' = TRUE
    /\ connection' = None
    /\ status' = [a \in Attaches |->
            IF a = connection /\ status[a] = "open" THEN "closing" ELSE status[a]]
    /\ rPtr' = "nil" /\ wPtr' = "nil"
    /\ UNCHANGED <<started, connecting, rGo, rLoose, rFired, wGo, wLoose, wFired>>
    /\ UNCHANGED <<manVars, httpVars>>

-----------------------------------------------------------------------------
HandlerStep(h) == Refuse(h) \/ Accept(h) \/ OnConnect(h) \/ Hook(h) \/ ServeConn(h)
CallbackStep(a) == OnClosed(a) \/ Release(a)

Next ==
    \/ Control
    \/ \E h \in Handlers : HandlerStep(h) \/ \E a \in Attaches : Find(h, a)
    \/ \E a \in Attaches :
            PurgeMark(a) \/ PurgeRemove(a) \/ ConnClose(a) \/ CallbackStep(a)
    \/ Connect \/ Close
    \/ Watch \/ WatchFire \/ WatchTimeout
    \/ Reconnect \/ ReconnectFire \/ ReconnectTimeout

Spec == Init /\ [][Next]_vars

(* Goroutines run, timers fire and handlers go on.  Nothing makes the MCU  *)
(* come, answer or go, the purger run or the channel close its pipeline.   *)
Fairness ==
    /\ \A h \in Handlers : WF_vars(HandlerStep(h))
    /\ \A a \in Attaches : WF_vars(CallbackStep(a))
    /\ WF_vars(Connect)
    /\ WF_vars(Watch) /\ WF_vars(WatchFire) /\ WF_vars(WatchTimeout)
    /\ WF_vars(Reconnect) /\ WF_vars(ReconnectFire) /\ WF_vars(ReconnectTimeout)

FairSpec == Spec /\ Fairness

-----------------------------------------------------------------------------
(* Properties.                                                             *)

(* A transaction gets at most one connection, however many requests the    *)
(* MCU makes for it: HandleWebsocketConnect takes the onConnect of the     *)
(* record, and no request after the connection has closed gets it again.   *)
OneConnection == \A a \in Attaches : made[a] <= 1

(* The record of an open connection is in the manager's table: the purger  *)
(* removes no record that a request found and is about to use.             *)
OpenIsAttached ==
    \A a \in Attaches : status[a] = "open" => a \in attached

(* While the pipeline is not closed a watcher is about to be started, to   *)
(* fire or to run: whatever order watch, its timer and the reconnect timer *)
(* run in, the chain of watchers does not end.                             *)
Watched ==
    started /\ ~closed => wGo + wLoose + wFired > 0 \/ wPtr = "armed"

(* While connecting is set, which keeps reconnect and the watcher from     *)
(* doing anything, a reconnect timer is there that will reset it.          *)
ConnectingEnds ==
    connecting /\ ~closed => rLoose + rFired > 0 \/ rPtr = "armed"

(* There is no control connection to attach with, or the pipeline is about *)
(* to attach more often than the bound allows.                             *)
Unable == ~up \/ (connecting /\ attempts = MaxAttach)

(* A pipeline without a connection gets one, or attaches until it cannot.  *)
Retries ==
    started /\ connection = None ~> connection # None \/ closed \/ Unable

(* After Close the timers and goroutines end.                              *)
ClosedEnds == closed ~> wGo + wLoose + wFired + rGo + rLoose + rFired = 0
                        /\ wPtr # "armed" /\ rPtr # "armed"

(* What goroutines and timers have left to do: a goroutine starts a timer, *)
(* a timer fires, and what it fired runs.                                  *)
Left == 3 * (wGo + rGo) + 2 * (Flag(wPtr = "armed") + Flag(rPtr = "armed"))
        + 2 * (wLoose + rLoose) + wFired + rFired

(* After Close they wind down: nothing attaches any more, and each step of *)
(* a timer or goroutine leaves less to do than there was, so that whatever *)
(* the order they end after as many steps at most.                         *)
ClosedWinds ==
    [][closed => /\ closed' /\ attempts' = attempts
                 /\ Left' < Left \/ UNCHANGED <<rVars, wVars>>]_vars

(* What the watcher is there for, "Ensure to reconnect when no             *)
(* connection.": a pipeline whose connection has closed gets another one,  *)
(* or attaches until it cannot.                                            *)
Reconnects ==
    \A a \in Attaches :
        connection = a /\ status[a] = "gone" ~> connection # a \/ closed \/ Unable

-----------------------------------------------------------------------------
(* The strengthening that makes the safety properties inductive.           *)

(* A record that can be used or is used is in the table and not about to   *)
(* be removed; the record a handler has locked and that of an open         *)
(* connection are used; a record that is not locked and can be used has    *)
(* had no connection.                                                      *)
RecordInv ==
    /\ fresh \cup bound \subseteq attached \ expired
    /\ \A a \in Attaches : RecordLocked(a) \/ status[a] = "open" => a \in bound
    /\ \A a \in fresh : ~RecordLocked(a) => made[a] = 0
    /\ \A a \in Attaches : a > attempts => made[a] = 0

IInv == TypeOK /\ RecordInv /\ OneConnection /\ Watched /\ ConnectingEnds

=============================================================================
