---------------------------- MODULE ServerProofs ----------------------------
(***************************************************************************)
(* Proofs about Server, for any number of clients, MCUs and pipelines and  *)
(* any number of changes of the status: the invariants hold in every       *)
(* reachable state, by induction over IInv.                                *)
(***************************************************************************)
EXTENDS Server, TLAPS

(* A leaf that names no prover is for the SMT solver.                      *)
USE SMTT(40)

USE ServerAssumption

(* The first state satisfies the inductive invariant.                      *)
LEMMA InitIInv == Init => IInv
<1> SUFFICES ASSUME Init PROVE IInv
  OBVIOUS
<1>0. 0 \in 0 .. MaxReports
  OBVIOUS
<1>1. TypeOK
  <2>1. /\ seen \in [Conns -> 0 .. MaxReports] /\ told \in [Conns -> 0 .. MaxReports]
        /\ version \in 0 .. MaxReports
    BY <1>0, Zenon DEF Init
  <2>2. QED BY <2>1, ZenonT(40) DEF Init, TypeOK, Phases
<1>2. TableInv /\ StatusInv /\ CountInv /\ StatusKnown /\ GracefulReturn
  BY DEF Init, TableInv, StatusInv, CountInv, StatusKnown, GracefulReturn, Of,
         Serving, ContextDone
<1>3. QED BY <1>1, <1>2 DEF IInv

(* Every step keeps the types.                                             *)
LEMMA NextTypeOK == TypeOK /\ [Next]_vars => TypeOK'
<1> SUFFICES ASSUME TypeOK, [Next]_vars PROVE TypeOK'
  OBVIOUS
<1> USE DEF TypeOK, Of, connVars, statusVars, clientVars, serveVars
<1>1. ASSUME NEW c \in Conns, Request(c) \/ ConnStep(c) \/ EndOfRead(c) \/ Block(c)
      PROVE  TypeOK'
  <2> USE DEF Goto, Phases
  <2>1. CASE Request(c) \/ Refuse(c) \/ EndOfRead(c)
    BY <2>1 DEF Request, Refuse, EndOfRead
  <2>2. CASE Register(c)
    BY <2>2 DEF Register, Entered
  <2>3. CASE ReadStatus(c) \/ \E full \in BOOLEAN : SendHello(c, full)
    BY <2>3 DEF ReadStatus, SendHello
  <2>4. CASE Unregister(c)
    BY <2>4 DEF Unregister
  <2>5. CASE Block(c)
    BY <2>5 DEF Block
  <2>6. QED BY <1>1, <2>1, <2>2, <2>3, <2>4, <2>5 DEF ConnStep
<1>2. ASSUME NEW r \in Results, Report(r) PROVE TypeOK'
  BY <1>2 DEF Report, OnServerStatus
<1>3. ASSUME NEW c \in Conns, NEW full \in BOOLEAN, StatusSend(c, full)
      PROVE  TypeOK'
  BY <1>3 DEF StatusSend
<1>4. CASE ReportEnd
  BY <1>4, ZenonT(40) DEF ReportEnd
<1>5. CASE ServeReturns \/ ListenerExit
  BY <1>5 DEF ServeReturns, ListenerExit
<1>6. CASE Signal \/ ServeStep
  BY <1>6, ZenonT(40)
  DEF Signal, ServeStep, ReceiveError, Cancel, CountMCU, CountRTM, Timer
<1>7. CASE UNCHANGED vars
  BY <1>7 DEF vars
<1>8. QED BY <1>1, <1>2, <1>3, <1>4, <1>5, <1>6, <1>7 DEF Next

(* The parts of IInv that are not about types.                             *)
Core == TableInv /\ StatusInv /\ CountInv /\ StatusKnown /\ GracefulReturn

(* The steps of requests and connections: a connection enters the table    *)
(* before its status is read, and what is read is the status of the moment.*)
LEMMA ConnCore ==
  ASSUME IInv, NEW c \in Conns, main # "returned",
         Request(c) \/ ConnStep(c) \/ EndOfRead(c) \/ Block(c)
  PROVE  Core'
<1> USE DEF IInv, connVars, statusVars, clientVars, serveVars
<1>0. /\ phase \in [Conns -> Phases] /\ seen \in [Conns -> 0 .. MaxReports]
      /\ told \in [Conns -> 0 .. MaxReports] /\ version \in 0 .. MaxReports
      /\ table \subseteq Conns /\ atCancel \subseteq Conns
  BY DEF TypeOK, Of
<1>1. /\ UNCHANGED <<statusVars, serveVars>>
      /\ UNCHANGED listener
  BY ZenonT(40) DEF Request, ConnStep, Refuse, Register, ReadStatus, SendHello,
     EndOfRead, Unregister, Block
<1>2. /\ \A d \in Conns : d # c => phase'[d] = phase[d]
      /\ \A d \in Conns : d # c => (d \in table' <=> d \in table)
      /\ \A d \in Conns : d # c => told'[d] = told[d] /\ seen'[d] = seen[d]
      /\ \A d \in Conns : d # c => (d \in missed' <=> d \in missed)
  BY <1>0 DEF Request, ConnStep, Refuse, Register, ReadStatus, SendHello,
     EndOfRead, Unregister, Block, Goto
<1>3. c \in table' <=> phase'[c] \in Serving /\ Kind[c] # "pipeline"
  <2>1. CASE Request(c) \/ Refuse(c) \/ ReadStatus(c) \/ EndOfRead(c)
             \/ \E full \in BOOLEAN : SendHello(c, full)
    <3>1. /\ UNCHANGED table
          /\ phase'[c] \in Serving <=> phase[c] \in Serving
      BY <1>0, <2>1 DEF Request, Refuse, ReadStatus, SendHello, EndOfRead, Goto,
         Serving
    <3>2. QED BY <3>1 DEF TableInv
  <2>2. CASE Register(c)
    <3>1. /\ phase'[c] \in Serving /\ phase[c] \notin Serving
          /\ table' = table \cup ({c} \ Of("pipeline"))
      BY <1>0, <2>2 DEF Register, Entered, Goto, Serving
    <3>2. QED BY <3>1 DEF TableInv, Of
  <2>3. CASE Unregister(c)
    <3>1. phase'[c] = "gone" /\ c \notin table'
      BY <1>0, <2>3 DEF Unregister, Goto
    <3>2. QED BY <3>1 DEF Serving
  <2>4. CASE Block(c)
    <3>1. UNCHANGED <<phase, table>>
      BY <2>4 DEF Block
    <3>2. QED BY <3>1 DEF TableInv
  <2>5. QED BY <2>1, <2>2, <2>3, <2>4 DEF ConnStep
<1>4. TableInv'
  BY <1>2, <1>3 DEF TableInv
<1>5. /\ told'[c] <= version /\ seen'[c] <= version
      /\ c \in Of("rtm") \ (todo \cup missed') =>
            /\ phase'[c] = "hello" => told'[c] = version \/ seen'[c] = version
            /\ phase'[c] = "reading" => told'[c] = version
  <2>1. CASE Request(c) \/ Refuse(c) \/ EndOfRead(c)
    BY <1>0, <2>1 DEF Request, Refuse, EndOfRead, Goto, StatusInv
  <2>2. CASE Register(c)
    BY <1>0, <2>2 DEF Register, Entered, Goto, StatusInv, Of
  <2>3. CASE ReadStatus(c)
    BY <1>0, <2>3 DEF ReadStatus, Goto, StatusInv
  <2>4. CASE \E full \in BOOLEAN : SendHello(c, full)
    BY <1>0, <2>4 DEF SendHello, Goto, StatusInv
  <2>5. CASE Unregister(c)
    BY <1>0, <2>5 DEF Unregister, Goto
  <2>6. CASE Block(c)
    <3>1. UNCHANGED <<phase, told, seen, missed>>
      BY <2>6 DEF Block
    <3>2. QED BY <3>1 DEF StatusInv, StatusKnown
  <2>7. QED BY <2>1, <2>2, <2>3, <2>4, <2>5, <2>6 DEF ConnStep
<1>6. StatusInv' /\ StatusKnown'
  BY <1>1, <1>2, <1>5 DEF StatusInv, StatusKnown, Of
<1>7. c \in atCancel => phase'[c] \in Serving \cup {"gone"} /\ (c \in table' => c \in table)
  <2>1. c \in atCancel => phase[c] \in Serving \cup {"gone"}
    BY DEF CountInv
  <2>2. phase[c] \in Serving \cup {"gone"} =>
            /\ phase'[c] \in Serving \cup {"gone"}
            /\ c \in table' => c \in table
    BY <1>0 DEF Request, ConnStep, Refuse, Register, ReadStatus, SendHello,
       EndOfRead, Unregister, Block, Goto, Serving
  <2>3. QED BY <2>1, <2>2
<1>8. CountInv'
  BY <1>0, <1>1, <1>2, <1>7 DEF CountInv, ContextDone, Of
<1>9. GracefulReturn'
  BY <1>1 DEF GracefulReturn
<1>10. QED BY <1>4, <1>6, <1>8, <1>9 DEF Core

(* The status: everybody is to be looked at when it is set, and nobody is  *)
(* passed over who could be told.                                          *)
LEMMA StatusCore ==
  ASSUME IInv, main # "returned",
         \/ \E r \in Results : Report(r)
         \/ \E c \in Conns, full \in BOOLEAN : StatusSend(c, full)
         \/ ReportEnd
  PROVE  Core'
<1> USE DEF IInv, connVars, statusVars, clientVars, serveVars
<1>0. /\ seen \in [Conns -> 0 .. MaxReports] /\ told \in [Conns -> 0 .. MaxReports]
      /\ version \in 0 .. MaxReports /\ todo \subseteq Conns /\ missed \subseteq Conns
  BY DEF TypeOK, Of
<1>1. UNCHANGED <<connVars, serveVars, listener>>
  BY ZenonT(40) DEF Report, OnServerStatus, StatusSend, ReportEnd
<1>2. TableInv' /\ CountInv' /\ GracefulReturn'
  BY <1>1 DEF TableInv, CountInv, GracefulReturn, ContextDone
<1>3. StatusInv' /\ StatusKnown'
  <2>1. ASSUME NEW r \in Results, Report(r) PROVE StatusInv' /\ StatusKnown'
    <3>1. /\ todo' = Of("rtm") /\ reporting' = TRUE /\ version' = version + 1
          /\ UNCHANGED <<phase, told, seen>>
      BY <2>1 DEF Report, OnServerStatus
    <3>2. \A c \in Conns : told[c] \in Nat /\ seen[c] \in Nat
      <4>1. \A c \in Conns : told[c] \in 0 .. MaxReports /\ seen[c] \in 0 .. MaxReports
        BY <1>0, Zenon
      <4>2. \A n \in 0 .. MaxReports : n \in Nat
        BY ONLY ServerAssumption
      <4>3. QED BY ONLY <4>1, <4>2, Zenon
    <3>3. \A c \in Conns : told[c] <= version /\ seen[c] <= version
      BY Zenon DEF IInv, StatusInv
    <3>4. \A c \in Conns : told'[c] <= version' /\ seen'[c] <= version'
      <4> SUFFICES ASSUME NEW c \in Conns
                   PROVE  told'[c] <= version' /\ seen'[c] <= version'
        OBVIOUS
      <4>1. told[c] \in Nat /\ seen[c] \in Nat /\ version \in Nat
        BY <1>0, <3>2
      <4>2. told[c] <= version /\ seen[c] <= version
        BY <3>3
      <4>3. told'[c] = told[c] /\ seen'[c] = seen[c] /\ version' = version + 1
        BY <3>1
      <4>4. QED BY ONLY <4>1, <4>2, <4>3
    <3>5. QED BY ONLY <3>1, <3>4 DEF StatusInv, StatusKnown
  <2>2. ASSUME NEW c \in Conns, NEW full \in BOOLEAN, StatusSend(c, full)
        PROVE  StatusInv' /\ StatusKnown'
    <3>1. /\ c \in todo /\ todo' = todo \ {c}
          /\ UNCHANGED <<phase, table, version, seen, reporting>>
      BY <2>2 DEF StatusSend
    <3>2. /\ \A d \in Conns : d # c => told'[d] = told[d]
          /\ \A d \in Conns : d # c => (d \in missed' <=> d \in missed)
          /\ told'[c] \in {told[c], version}
          /\ c \in table /\ phase[c] # "ended" =>
                 told'[c] = version \/ c \in missed'
      BY <1>0, <2>2 DEF StatusSend
    <3>3. c \in Of("rtm") /\ phase[c] \in {"hello", "reading"} =>
              c \in table /\ phase[c] # "ended"
      BY DEF TableInv, Serving, Of
    <3>4. \A d \in Conns : told'[d] <= version /\ seen[d] <= version
      BY <1>0, <3>2 DEF StatusInv
    <3>5. StatusInv'
      BY <3>1, <3>2, <3>3, <3>4 DEF StatusInv, Of
    <3>6. StatusKnown'
      BY <3>1, <3>2, <3>3 DEF StatusKnown, Of
    <3>7. QED BY <3>5, <3>6
  <2>3. CASE ReportEnd
    BY <2>3 DEF ReportEnd, StatusInv, StatusKnown
  <2>4. QED BY <2>1, <2>2, <2>3
<1>4. QED BY <1>2, <1>3 DEF Core

(* Serve and the listener: a count of nothing in both tables covers all    *)
(* that were there at the cancel, since none of them comes back.           *)
LEMMA ServeCore ==
  ASSUME IInv, main # "returned",
         ServeReturns \/ ListenerExit \/ Signal \/ ServeStep
  PROVE  Core'
<1> USE DEF IInv, connVars, statusVars, clientVars, serveVars
<1>0. table \subseteq Of("rtm") \cup Of("control") /\ forced \in BOOLEAN
  BY DEF TypeOK
<1>1. UNCHANGED <<connVars, statusVars, clientVars>>
  BY ZenonT(40) DEF ServeReturns, ListenerExit, Signal, ServeStep, ReceiveError,
     Cancel, CountMCU, CountRTM, Timer
<1>2. TableInv' /\ StatusInv' /\ StatusKnown'
  BY <1>1 DEF TableInv, StatusInv, StatusKnown
<1>3. CASE ServeReturns \/ ListenerExit
  BY <1>1, <1>2, <1>3
  DEF ServeReturns, ListenerExit, CountInv, GracefulReturn, ContextDone, Core
<1>4. CASE Signal \/ ReceiveError \/ Timer
  BY <1>1, <1>2, <1>4
  DEF Signal, ReceiveError, Timer, CountInv, GracefulReturn, ContextDone, Core
<1>5. CASE Cancel
  <2>1. \A c \in table : phase[c] \in Serving
    BY <1>0, Zenon DEF TableInv, Of
  <2>2. QED
    BY <1>1, <1>2, <1>5, <2>1
    DEF Cancel, CountInv, GracefulReturn, ContextDone, Core
<1>6. CASE CountMCU
  <2>1. /\ main = "count" /\ main' = "countRTM" /\ UNCHANGED atCancel
        /\ busy' = (table \cap Of("control") # {})
    BY <1>6, Zenon DEF CountMCU
  <2>2. ~busy' => atCancel' \cap table' \cap Of("control") = {}
    BY <1>1, <2>1, Zenon
  <2>3. CountInv'
    BY <1>1, <2>1, <2>2, Zenon DEF CountInv, ContextDone
  <2>4. GracefulReturn'
    BY <2>1 DEF GracefulReturn
  <2>5. QED BY <1>2, <2>3, <2>4 DEF Core
<1>7. CASE CountRTM
  BY <1>0, <1>1, <1>2, <1>7
  DEF CountRTM, CountInv, GracefulReturn, ContextDone, Core
<1>8. QED BY <1>3, <1>4, <1>5, <1>6, <1>7 DEF ServeStep

(* Every step preserves the inductive invariant.                           *)
LEMMA NextIInv == IInv /\ [Next]_vars => IInv'
<1> SUFFICES ASSUME IInv, [Next]_vars PROVE Core'
  BY NextTypeOK DEF IInv, Core
<1>1. CASE UNCHANGED vars
  BY <1>1
  DEF vars, connVars, statusVars, clientVars, serveVars, IInv, Core, TableInv,
      StatusInv, CountInv, StatusKnown, GracefulReturn, ContextDone
<1>2. CASE Next
  BY ONLY IInv, <1>2, ConnCore, StatusCore, ServeCore, Zenon DEF Next
<1>3. QED BY <1>1, <1>2

(* IInv holds in every reachable state.                                    *)
LEMMA ServerInvariant == Spec => []IInv
  BY InitIInv, NextIInv, PTL DEF Spec

(* The state always has the declared types.                                *)
THEOREM ServerTypeCorrect == Spec => []TypeOK
<1>1. IInv => TypeOK
  BY DEF IInv
<1>2. QED BY <1>1, ServerInvariant, PTL

(* However connects, changes of the status and broadcasts interleave, a    *)
(* client is sent the current status.                                      *)
THEOREM ServerStatusKnown == Spec => []StatusKnown
<1>1. IInv => StatusKnown
  BY DEF IInv
<1>2. QED BY <1>1, ServerInvariant, PTL

(* Serve does not return by itself before the connections it counted at    *)
(* the cancel and the listener are gone.                                   *)
THEOREM ServerGracefulReturn == Spec => []GracefulReturn
<1>1. IInv => GracefulReturn
  BY DEF IInv
<1>2. QED BY <1>1, ServerInvariant, PTL

(* After the select Serve does not go back, no request comes, and every    *)
(* connection that moves is nearer to its end.                             *)
THEOREM ServerDrains == Spec => Drains
<1> DEFINE Nearer == \A c \in Conns : \/ phase'[c] = phase[c]
                                      \/ Ahead(phase'[c]) < Ahead(phase[c])
<1>1. ASSUME TypeOK, [Next]_vars, main # "select"
      PROVE  main' # "select" /\ Nearer
  <2> USE DEF connVars, serveVars
  <2>1. ASSUME main' # "select", UNCHANGED phase PROVE main' # "select" /\ Nearer
    BY <2>1
  <2>2. ASSUME NEW c \in Conns, NEW from, NEW to, Goto(c, from, to),
               Ahead(to) < Ahead(from)
        PROVE  Nearer
    BY <1>1, <2>2 DEF Goto, TypeOK
  <2>3. /\ Ahead("gone") < Ahead("request") /\ Ahead("serving") < Ahead("request")
        /\ Ahead("reading") < Ahead("request") /\ Ahead("hello") < Ahead("serving")
        /\ Ahead("reading") < Ahead("hello") /\ Ahead("ended") < Ahead("reading")
        /\ Ahead("gone") < Ahead("ended")
    BY DEF Ahead
  <2>4. ASSUME NEW c \in Conns, ConnStep(c) \/ EndOfRead(c)
        PROVE  main' # "select" /\ Nearer
    <3>1. main' = main
      BY <2>4 DEF ConnStep, EndOfRead, Refuse, Register, ReadStatus, SendHello,
                  Unregister
    <3>2. \/ Goto(c, "request", "gone") \/ Goto(c, "request", "serving")
          \/ Goto(c, "request", "reading") \/ Goto(c, "serving", "hello")
          \/ Goto(c, "hello", "reading") \/ Goto(c, "reading", "ended")
          \/ Goto(c, "ended", "gone")
      BY <2>4, Zenon DEF ConnStep, EndOfRead, Refuse, Register, Entered, ReadStatus,
                         SendHello, Unregister
    <3>3. Nearer
      BY <2>2, <2>3, <3>2, Zenon
    <3>4. QED BY <1>1, <3>1, <3>3
  <2>5. \A c \in Conns : ~Request(c)
    BY <1>1 DEF Request
  <2>6. ASSUME \/ \E r \in Results : Report(r)
               \/ \E c \in Conns, full \in BOOLEAN : StatusSend(c, full)
               \/ ReportEnd \/ ServeReturns \/ ListenerExit
        PROVE  main' # "select" /\ Nearer
    BY <1>1, <2>6, <2>1 DEF Report, StatusSend, ReportEnd, ServeReturns, ListenerExit
  <2>7. ASSUME Signal \/ ServeStep PROVE main' # "select" /\ Nearer
    BY <1>1, <2>7, <2>1
    DEF Signal, ServeStep, ReceiveError, Cancel, CountMCU, CountRTM, Timer
  <2>8. ASSUME UNCHANGED vars \/ \E c \in Conns : Block(c)
        PROVE  main' # "select" /\ Nearer
    BY <1>1, <2>8, <2>1 DEF vars, Block
  <2>9. QED BY <1>1, <2>4, <2>5, <2>6, <2>7, <2>8, Zenon DEF Next
<1>2. TypeOK /\ [Next]_vars
      => [main # "select" =>
              /\ main' # "select"
              /\ \A c \in Conns :
                     phase'[c] = phase[c] \/ Ahead(phase'[c]) < Ahead(phase[c])]_vars
  BY <1>1, Zenon
<1>3. QED BY <1>2, ServerTypeCorrect, PTL DEF Spec, Drains

=============================================================================
