--------------------------- MODULE PipelineProofs ---------------------------
(* Proofs of the safety properties of Pipeline, for any number of          *)
(* transactions and any requests of the MCU.                               *)
EXTENDS Pipeline, TLAPS

(* A leaf that names no prover is for the SMT solver.                       *)
USE SMTT(40)

(* Flag counts one timer or none.                                          *)
LEMMA FlagType == \A b \in BOOLEAN : Flag(b) \in {0, 1}
  BY DEF Flag

(* A sum of counters is positive when one of them is, and stays so when    *)
(* the first one grows.                                                    *)
LEMMA SumPositive ==
    ASSUME NEW x \in Nat, NEW y \in Nat, NEW z \in Nat, NEW u \in Nat
    PROVE  /\ x > 0 => x + y + z > 0
           /\ u >= x /\ x + y + z > 0 => u + y + z > 0
  OBVIOUS

(* The transactions made are among the transactions.                       *)
LEMMA MadeAttaches == ManType => 1 .. attempts \subseteq Attaches
  BY PipelineAssumption DEF ManType, Attaches

(* The inductive invariant holds at first.                                 *)
LEMMA InitIInv == Init => IInv
  <1> SUFFICES ASSUME Init PROVE IInv
    OBVIOUS
  <1> USE DEF Init
  <1>0. MaxAttach \in Nat /\ MaxGo \in Nat /\ Flaky \in BOOLEAN
    BY PipelineAssumption
  <1>1. ManType
    <2>1. up \in BOOLEAN
      BY <1>0, Zenon
    <2>2. attempts \in 0 .. MaxAttach
      BY <1>0
    <2> QED
      BY <2>1, <2>2 DEF ManType
  <1>2. HttpType
    BY DEF HttpType
  <1>3. PipeType
    <2>1. rGo \in 0 .. MaxGo
      BY <1>0
    <2> QED
      BY <2>1, Zenon DEF PipeType, Pointers
  <1>4. RecordInv
    BY DEF RecordInv, RecordLocked
  <1>5. OneConnection /\ Watched /\ ConnectingEnds
    BY DEF OneConnection, Watched, ConnectingEnds
  <1> QED
    BY <1>1, <1>2, <1>3, <1>4, <1>5 DEF IInv, TypeOK

-----------------------------------------------------------------------------
(* The manager's table.                                                    *)

(* What Attach does to the table and its records.                          *)
LEMMA AttachEffect ==
    ASSUME TypeOK, RecordInv, NEW ok \in BOOLEAN, Attach(ok)
    PROVE  /\ ManType'
           /\ fresh' \cup bound' \subseteq attached' \ expired'
           /\ bound' = bound
           /\ \A a \in fresh' : a \in fresh \/ (a > attempts /\ a \in Attaches)
           /\ attempts \in Nat /\ attempts' \in Nat /\ attempts' >= attempts
  <1>1. CASE UNCHANGED manVars
    BY <1>1 DEF manVars, TypeOK, ManType, RecordInv
  <1>2. CASE /\ up /\ attempts < MaxAttach
             /\ attempts' = attempts + 1
             /\ attached' = attached \cup {attempts + 1}
             /\ fresh' = fresh \cup {attempts + 1}
             /\ asked' = IF ok THEN asked \cup {attempts + 1} ELSE asked
             /\ UNCHANGED <<up, bound, expired>>
    <2>1. attempts \in Nat /\ MaxAttach \in Nat /\ attempts + 1 \in 0 .. MaxAttach
      BY <1>2, PipelineAssumption DEF TypeOK, ManType
    <2>2. /\ 1 .. attempts \subseteq 1 .. (attempts + 1)
          /\ attempts + 1 \in 1 .. (attempts + 1)
          /\ attempts + 1 \notin 1 .. attempts
          /\ attempts + 1 \in Attaches /\ attempts + 1 > attempts
      BY <2>1 DEF Attaches
    <2>3. ManType'
      BY <1>2, <2>1, <2>2 DEF TypeOK, ManType
    <2>4. attempts + 1 \notin expired
      BY <2>2 DEF TypeOK, ManType
    <2>5. fresh' \cup bound' \subseteq attached' \ expired'
      BY <1>2, <2>4 DEF RecordInv
    <2> QED
      BY <1>2, <2>1, <2>2, <2>3, <2>5
  <1> QED
    BY <1>1, <1>2 DEF Attach

(* A request that goes on has locked the record of its transaction.        *)
LEMMA LockedKept ==
    ASSUME HttpType, NEW h \in Handlers, pc[h] \in {"connect", "hook"},
           pc' = [pc EXCEPT ![h] = CASE pc[h] = "connect" -> "hook" [] pc[h] = "hook" -> "serve"],
           tx' = tx, NEW a
    PROVE  RecordLocked(a)' <=> RecordLocked(a)
  <1> USE DEF HttpType
  <1>1. pc'[h] \in {"hook", "serve"}
    OBVIOUS
  <1>2. \A g \in Handlers : g # h => pc'[g] = pc[g]
    OBVIOUS
  <1> QED
    BY <1>1, <1>2 DEF RecordLocked

(* Steps that touch neither records nor requests nor connections.          *)
LEMMA RecordUntouched ==
    ASSUME TypeOK, RecordInv, OneConnection,
           UNCHANGED <<attempts, attached, fresh, bound, expired, asked, up>>,
           UNCHANGED <<httpVars, status>>
    PROVE  ManType' /\ HttpType' /\ RecordInv' /\ OneConnection'
  BY DEF TypeOK, ManType, HttpType, RecordInv, RecordLocked, OneConnection, httpVars

(* Steps that attach.                                                      *)
LEMMA RecordAttach ==
    ASSUME TypeOK, RecordInv, OneConnection, NEW ok \in BOOLEAN, Attach(ok),
           UNCHANGED <<httpVars, status>>
    PROVE  ManType' /\ HttpType' /\ RecordInv' /\ OneConnection'
  <1>1. UNCHANGED <<pc, tx, made, hooked, tracked, status>>
    BY DEF httpVars
  <1>2. HttpType' /\ OneConnection'
    BY <1>1 DEF TypeOK, HttpType, OneConnection
  <1>3. \A a : RecordLocked(a)' <=> RecordLocked(a)
    BY <1>1 DEF RecordLocked
  <1>4. \A a \in Attaches : RecordLocked(a)' \/ status'[a] = "open" => a \in bound'
    BY <1>1, <1>3, AttachEffect DEF RecordInv
  <1>5. \A a \in fresh' : ~RecordLocked(a)' => made'[a] = 0
    BY <1>1, <1>3, AttachEffect DEF RecordInv
  <1>6. \A a \in Attaches : a > attempts' => made'[a] = 0
    <2> SUFFICES ASSUME NEW a \in Attaches, a > attempts' PROVE made[a] = 0
      BY <1>1
    <2>1. attempts \in Nat /\ attempts' \in Nat /\ attempts' >= attempts
      BY AttachEffect, Zenon
    <2>2. a \in Nat
      BY ONLY PipelineAssumption, a \in Attaches DEF Attaches, PipelineAssumption
    <2>3. a > attempts
      BY ONLY <2>1, <2>2, a > attempts'
    <2> QED
      BY <2>3 DEF RecordInv
  <1> QED
    BY <1>2, <1>4, <1>5, <1>6, AttachEffect DEF RecordInv

(* Every step keeps what is known of the manager, its records and          *)
(* requests.                                                               *)
LEMMA RecordStep ==
    ASSUME TypeOK, RecordInv, OneConnection, [Next]_vars
    PROVE  ManType' /\ HttpType' /\ RecordInv' /\ OneConnection'
  <1> DEFINE Goal == ManType' /\ HttpType' /\ RecordInv' /\ OneConnection'
  <1> USE DEF httpVars, manVars
  <1>1. ASSUME \/ Control \/ Watch \/ WatchFire \/ WatchTimeout
               \/ Reconnect \/ ReconnectFire \/ UNCHANGED vars
        PROVE  Goal
    <2>1. CASE Control
      BY <2>1 DEF Control, TypeOK, ManType, HttpType, RecordInv, RecordLocked, OneConnection
    <2>2. CASE Watch
      BY <2>2, RecordUntouched DEF Watch
    <2>3. CASE WatchFire
      BY <2>3, RecordUntouched DEF WatchFire
    <2>4. CASE WatchTimeout
      BY <2>4, RecordUntouched DEF WatchTimeout
    <2>5. CASE Reconnect
      BY <2>5, RecordUntouched DEF Reconnect
    <2>6. CASE ReconnectFire
      BY <2>6, RecordUntouched DEF ReconnectFire
    <2>7. CASE UNCHANGED vars
      BY <2>7, RecordUntouched DEF vars
    <2> QED
      BY <1>1, <2>1, <2>2, <2>3, <2>4, <2>5, <2>6, <2>7
  <1>2. ASSUME Connect PROVE Goal
    <2>1. CASE closed
      BY <1>2, <2>1, RecordUntouched DEF Connect
    <2>2. CASE ~closed
      BY <1>2, <2>2, RecordAttach DEF Connect
    <2> QED
      BY <2>1, <2>2
  <1>3. ASSUME ReconnectTimeout PROVE Goal
    <2>1. CASE ~connecting \/ closed
      BY <1>3, <2>1, RecordUntouched DEF ReconnectTimeout
    <2>2. CASE ~(~connecting \/ closed)
      BY <1>3, <2>2, RecordAttach DEF ReconnectTimeout
    <2> QED
      BY <2>1, <2>2
  <1> USE DEF TypeOK, ManType, HttpType
  <1>4. ASSUME NEW a \in Attaches, PurgeMark(a) PROVE Goal
    BY <1>4 DEF PurgeMark, RecordInv, RecordLocked, OneConnection
  <1>5. ASSUME NEW a \in Attaches, PurgeRemove(a) PROVE Goal
    BY <1>5 DEF PurgeRemove, RecordInv, RecordLocked, OneConnection
  <1>6. ASSUME NEW a \in Attaches, ConnClose(a) \/ OnClosed(a) PROVE Goal
    <2>1. \A b \in Attaches : status'[b] = "open" => status[b] = "open"
      BY <1>6 DEF ConnClose, OnClosed
    <2>2. UNCHANGED <<manVars, httpVars>>
      BY <1>6 DEF ConnClose, OnClosed
    <2>3. HttpType'
      BY <1>6, <2>2 DEF ConnClose, OnClosed
    <2> QED
      BY <2>1, <2>2, <2>3 DEF RecordInv, RecordLocked, OneConnection
  <1>7. ASSUME NEW a \in Attaches, Release(a) PROVE Goal
    <2>1. \A b \in Attaches : status'[b] = "open" => status[b] = "open" /\ b # a
      BY <1>7 DEF Release
    <2>2. HttpType'
      BY <1>7 DEF Release
    <2> QED
      BY <1>7, <2>1, <2>2, Zenon DEF Release, RecordInv, RecordLocked, OneConnection
  <1>8. ASSUME Close PROVE Goal
    <2>1. \A b \in Attaches : status'[b] = "open" => status[b] = "open"
      BY <1>8 DEF Close
    <2>2. UNCHANGED <<manVars, httpVars>>
      BY <1>8 DEF Close
    <2>3. HttpType'
      BY <1>8, <2>2 DEF Close
    <2> QED
      BY <2>1, <2>2, <2>3 DEF RecordInv, RecordLocked, OneConnection
  <1>9. ASSUME NEW h \in Handlers, NEW a \in Attaches, Find(h, a) PROVE Goal
    <2>1. HttpType'
      BY <1>9 DEF Find
    <2>2. \A b \in Attaches : RecordLocked(b)' <=> RecordLocked(b)
      BY <1>9 DEF Find, RecordLocked
    <2>3. fresh \subseteq Attaches
      BY MadeAttaches
    <2> QED
      BY <1>9, <2>1, <2>2, <2>3 DEF Find, RecordInv, OneConnection
  <1>10. ASSUME NEW h \in Handlers, Refuse(h) PROVE Goal
    <2>1. HttpType'
      BY <1>10 DEF Refuse, Finish
    <2>2. \A b \in Attaches : RecordLocked(b)' <=> RecordLocked(b)
      BY <1>10 DEF Refuse, Finish, RecordLocked
    <2>3. fresh \subseteq Attaches
      BY MadeAttaches
    <2> QED
      BY <1>10, <2>1, <2>2, <2>3 DEF Refuse, RecordInv, OneConnection
  <1>11. ASSUME NEW h \in Handlers, Accept(h) PROVE Goal
    <2> DEFINE t == tx[h]
    <2>1. /\ t \in Attaches /\ t \in fresh /\ ~RecordLocked(t)
          /\ t \in 1 .. attempts
      BY <1>11, MadeAttaches, Zenon DEF Accept
    <2>2. /\ pc' = [pc EXCEPT ![h] = "connect"] /\ tx' = tx
          /\ bound' = bound \cup {t}
          /\ status' = [status EXCEPT ![t] = "open"]
          /\ made' = [made EXCEPT ![t] = @ + 1]
          /\ UNCHANGED <<up, attempts, asked, attached, fresh, expired, hooked, tracked>>
      BY <1>11 DEF Accept
    <2>3. made[t] = 0
      BY <2>1 DEF RecordInv
    <2>4. made'[t] = 1 /\ \A b \in Attaches : b # t => made'[b] = made[b]
      BY <2>1, <2>2, <2>3
    <2>5. HttpType'
      BY <2>1, <2>2
    <2>6. ManType'
      BY <2>1, <2>2, Zenon
    <2>7. \A b \in Attaches : RecordLocked(b)' => RecordLocked(b) \/ b = t
      BY <2>2 DEF RecordLocked
    <2>8. \A b \in Attaches : RecordLocked(b) \/ b = t => RecordLocked(b)'
      BY <1>11, <2>2 DEF RecordLocked, Accept
    <2>9. \A b \in Attaches : status'[b] = "open" => status[b] = "open" \/ b = t
      BY <2>1, <2>2
    <2>10. fresh \subseteq Attaches
      BY MadeAttaches
    <2>11. \A b \in Attaches : b > attempts => b # t
      BY <2>1 DEF Attaches
    <2>12. RecordInv'
      <3>1. (fresh \cup bound \subseteq attached \ expired)'
        BY <2>1, <2>2, Zenon DEF RecordInv
      <3>2. \A b \in Attaches : RecordLocked(b)' \/ status'[b] = "open" => b \in bound'
        BY <2>2, <2>7, <2>9 DEF RecordInv
      <3>3. \A b \in fresh' : ~RecordLocked(b)' => made'[b] = 0
        BY <2>2, <2>4, <2>8, <2>10 DEF RecordInv
      <3>4. \A b \in Attaches : b > attempts' => made'[b] = 0
        BY <2>2, <2>4, <2>11 DEF RecordInv
      <3> QED
        BY <3>1, <3>2, <3>3, <3>4 DEF RecordInv
    <2>13. OneConnection'
      BY <2>4, <2>2 DEF OneConnection
    <2> QED
      BY <2>5, <2>6, <2>12, <2>13
  <1>12. ASSUME NEW h \in Handlers, OnConnect(h) \/ Hook(h) PROVE Goal
    <2>1. /\ pc[h] \in {"connect", "hook"} /\ tx' = tx
          /\ pc' = [pc EXCEPT ![h] = CASE pc[h] = "connect" -> "hook" [] pc[h] = "hook" -> "serve"]
          /\ UNCHANGED <<manVars, made, tracked, status>>
      BY <1>12 DEF OnConnect, Hook
    <2>2. HttpType'
      BY <1>12, <2>1 DEF OnConnect, Hook
    <2>3. \A b : RecordLocked(b)' <=> RecordLocked(b)
      BY <2>1, LockedKept, Zenon
    <2> QED
      BY <2>1, <2>2, <2>3 DEF RecordInv, OneConnection
  <1>13. ASSUME NEW h \in Handlers, ServeConn(h) PROVE Goal
    <2> DEFINE t == tx[h]
    <2>1. /\ pc' = [pc EXCEPT ![h] = "idle"] /\ tx' = [tx EXCEPT ![h] = None]
          /\ fresh' = fresh \ {t}
          /\ UNCHANGED <<up, attempts, asked, attached, bound, expired, made, hooked, status>>
      BY <1>13 DEF ServeConn, Finish
    <2>2. HttpType'
      BY <1>13, <2>1 DEF ServeConn
    <2>3. \A b \in Attaches : RecordLocked(b)' => RecordLocked(b)
      BY <2>1 DEF RecordLocked
    <2>4. \A b \in Attaches : RecordLocked(b) /\ b # t => RecordLocked(b)'
      BY <2>1 DEF RecordLocked
    <2>5. fresh \subseteq Attaches
      BY MadeAttaches
    <2>6. RecordInv'
      BY <2>1, <2>3, <2>4, <2>5, Zenon DEF RecordInv
    <2> QED
      BY <2>1, <2>2, <2>6, Zenon DEF OneConnection
  <1> QED
    BY <1>1, <1>2, <1>3, <1>4, <1>5, <1>6, <1>7, <1>8, <1>9, <1>10, <1>11, <1>12, <1>13, ZenonT(40)
    DEF Next, HandlerStep, CallbackStep

-----------------------------------------------------------------------------
(* The pipeline's timers.                                                  *)

(* Every step keeps what is known of the pipeline and its timers.          *)
LEMMA PipeStep ==
    ASSUME TypeOK, RecordInv, Watched, ConnectingEnds, [Next]_vars
    PROVE  PipeType' /\ Watched' /\ ConnectingEnds'
  <1> DEFINE Goal == PipeType' /\ Watched' /\ ConnectingEnds'
  <1> USE DEF pipeVars, rVars, wVars
  <1>0. PipeType /\ HttpType
    BY DEF TypeOK
  <1>1. ASSUME UNCHANGED <<pipeVars, rVars, wVars>> PROVE Goal
    BY <1>0, <1>1 DEF PipeType, Watched, ConnectingEnds
  <1>2. ASSUME NEW h \in Handlers, OnConnect(h) PROVE Goal
    <2>1. tx[h] \in Attaches
      BY <1>0, <1>2 DEF OnConnect, HttpType
    <2> QED
      BY <1>0, <1>2, <2>1, Zenon DEF OnConnect, PipeType, Watched, ConnectingEnds
  <1>3. ASSUME NEW a \in Attaches, OnClosed(a) PROVE Goal
    <2>1. rGo' \in 0 .. MaxGo
      BY <1>0, <1>3, PipelineAssumption DEF OnClosed, PipeType
    <2> QED
      BY <1>0, <1>3, <2>1 DEF OnClosed, PipeType, Watched, ConnectingEnds
  <1>4. ASSUME Connect PROVE Goal
    <2>1. CASE closed
      BY <1>0, <1>4, <2>1 DEF Connect, PipeType, Watched, ConnectingEnds
    <2>2. CASE ~closed
      <3>1. PICK ok \in BOOLEAN : rGo' = rGo + Flag(~ok) /\ rGo' <= MaxGo
        BY <1>4, <2>2 DEF Connect
      <3>2. Flag(~ok) \in {0, 1}
        BY FlagType, Zenon
      <3>3. rGo' \in 0 .. MaxGo
        BY <1>0, <3>1, <3>2, PipelineAssumption DEF PipeType
      <3>4. wGo' = wGo + 1
        BY <1>4, <2>2 DEF Connect
      <3> QED
        BY <1>0, <1>4, <3>3, <3>4 DEF Connect, PipeType, Watched, ConnectingEnds
    <2> QED
      BY <2>1, <2>2
  <1>5. ASSUME Watch PROVE Goal
    BY <1>0, <1>5 DEF Watch, PipeType, Pointers, Watched, ConnectingEnds
  <1>6. ASSUME WatchFire PROVE Goal
    BY <1>0, <1>6 DEF WatchFire, PipeType, Pointers, Watched, ConnectingEnds
  <1>7. ASSUME WatchTimeout PROVE Goal
    <2>1. /\ Flag(wPtr = "armed") \in {0, 1}
          /\ Flag(~closed /\ connection = None /\ ~connecting) \in {0, 1}
      BY DEF Flag
    <2>2. closed \/ Flag(~closed) = 1
      BY DEF Flag
    <2>3. Flag(~closed) \in {0, 1}
      BY DEF Flag
    <2>4. rGo' \in 0 .. MaxGo
      BY <1>0, <1>7, <2>1, PipelineAssumption DEF WatchTimeout, PipeType
    <2>5. wGo' \in Nat /\ wFired' \in Nat /\ wLoose' \in Nat /\ wPtr' \in Pointers
      BY <1>0, <1>7, <2>1, <2>3 DEF WatchTimeout, PipeType, Pointers
    <2>6. UNCHANGED <<pipeVars, rPtr, rLoose, rFired>>
      BY <1>7 DEF WatchTimeout
    <2>7. closed \/ wGo' > 0
      BY <1>0, <1>7, <2>2 DEF WatchTimeout, PipeType
    <2>8. closed \/ wGo' + wLoose' + wFired' > 0
      BY ONLY <2>5, <2>7, SumPositive, Zenon
    <2>9. PipeType'
      BY <1>0, <2>4, <2>5, <2>6 DEF PipeType
    <2>10. Watched'
      BY <2>6, <2>8 DEF Watched
    <2>11. ConnectingEnds'
      BY <2>6 DEF ConnectingEnds
    <2> QED
      BY <2>9, <2>10, <2>11
  <1>8. ASSUME Reconnect PROVE Goal
    <2>1. rGo' \in 0 .. MaxGo
      BY <1>0, <1>8, PipelineAssumption DEF Reconnect, PipeType
    <2> QED
      BY <1>0, <1>8, <2>1 DEF Reconnect, PipeType, Pointers, Watched, ConnectingEnds
  <1>9. ASSUME ReconnectFire PROVE Goal
    BY <1>0, <1>9 DEF ReconnectFire, PipeType, Pointers, Watched, ConnectingEnds
  <1>10. ASSUME ReconnectTimeout PROVE Goal
    <2>1. Flag(rPtr = "armed") \in {0, 1}
      BY DEF Flag
    <2>2. rFired' \in Nat /\ rLoose' \in Nat /\ rPtr' \in Pointers
      BY <1>0, <1>10, <2>1 DEF ReconnectTimeout, PipeType, Pointers
    <2>3. UNCHANGED <<started, closed, connection, wLoose, wFired>>
      BY <1>10 DEF ReconnectTimeout
    <2>4. CASE ~connecting \/ closed
      <3>1. UNCHANGED <<connecting, rGo, wGo, wPtr>>
        BY <1>10, <2>4 DEF ReconnectTimeout
      <3> QED
        BY <1>0, <2>2, <2>3, <2>4, <3>1, Zenon DEF PipeType, Watched, ConnectingEnds
    <2>5. CASE ~(~connecting \/ closed)
      <3>1. PICK ok \in BOOLEAN :
                /\ connecting' = FALSE
                /\ rGo' = rGo + Flag(~ok) /\ rGo' <= MaxGo
                /\ wGo' = wGo + Flag(ok /\ wPtr # "nil")
                /\ wPtr' = IF ok /\ wPtr = "armed" THEN "stale" ELSE wPtr
        BY <1>10, <2>5 DEF ReconnectTimeout
      <3>2. Flag(~ok) \in {0, 1} /\ Flag(ok /\ wPtr # "nil") \in {0, 1}
        BY DEF Flag
      <3>3. rGo' \in 0 .. MaxGo
        BY <1>0, <3>1, <3>2, PipelineAssumption DEF PipeType
      <3>4. wPtr' = wPtr \/ Flag(ok /\ wPtr # "nil") = 1
        BY <3>1 DEF Flag
      <3>5. wGo' \in Nat /\ wGo' >= wGo /\ (wPtr' = wPtr \/ wGo' > 0)
        BY <1>0, <3>1, <3>2, <3>4 DEF PipeType
      <3>6. wPtr' \in Pointers
        BY <1>0, <3>1 DEF PipeType, Pointers
      <3>7. PipeType' /\ ConnectingEnds'
        BY <1>0, <2>2, <2>3, <3>1, <3>3, <3>5, <3>6, Zenon DEF PipeType, ConnectingEnds
      <3>8. Watched'
        <4>1. wGo \in Nat /\ wLoose \in Nat /\ wFired \in Nat
          BY <1>0 DEF PipeType
        <4>2. wGo + wLoose + wFired > 0 => wGo' + wLoose + wFired > 0
          BY ONLY <3>5, <4>1, SumPositive, Zenon
        <4>3. wGo' > 0 => wGo' + wLoose + wFired > 0
          BY ONLY <3>5, <4>1, SumPositive, Zenon
        <4>4. UNCHANGED <<started, closed, wLoose, wFired>>
          BY <2>3
        <4> QED
          BY <3>5, <4>2, <4>3, <4>4 DEF Watched
      <3> QED
        BY <3>7, <3>8
    <2> QED
      BY <2>4, <2>5
  <1>11. ASSUME Close PROVE Goal
    BY <1>0, <1>11 DEF Close, PipeType, Pointers, Watched, ConnectingEnds
  <1> QED
    BY <1>1, <1>2, <1>3, <1>4, <1>5, <1>6, <1>7, <1>8, <1>9, <1>10, <1>11, Zenon
    DEF Next, HandlerStep, CallbackStep, vars, Control, PurgeMark, PurgeRemove, Find,
        Refuse, Accept, Hook, ServeConn, ConnClose, Release

-----------------------------------------------------------------------------
(* IInv is an inductive invariant.                                         *)
THEOREM PipelineInvariant == Spec => []IInv
  <1>1. IInv /\ [Next]_vars => IInv'
    BY RecordStep, PipeStep DEF IInv, TypeOK
  <1> QED
    BY InitIInv, <1>1, PTL DEF Spec

(* The manager, its requests and the pipeline always have their types.     *)
THEOREM PipelineTypeCorrect == Spec => []TypeOK
  <1>1. IInv => TypeOK
    BY DEF IInv
  <1> QED
    BY PipelineInvariant, <1>1, PTL

(* HandleWebsocketConnect makes at most one connection for a transaction.  *)
THEOREM PipelineOneConnection == Spec => []OneConnection
  <1>1. IInv => OneConnection
    BY DEF IInv
  <1> QED
    BY PipelineInvariant, <1>1, PTL

(* purgeExpiredAttached removes no record of an open connection.           *)
THEOREM PipelineOpenIsAttached == Spec => []OpenIsAttached
  <1>1. IInv => OpenIsAttached
    BY DEF IInv, RecordInv, OpenIsAttached
  <1> QED
    BY PipelineInvariant, <1>1, PTL

(* A pipeline that is not closed always has a watcher.                     *)
THEOREM PipelineWatched == Spec => []Watched
  <1>1. IInv => Watched
    BY DEF IInv
  <1> QED
    BY PipelineInvariant, <1>1, PTL

(* While connecting is set a timer is there that will reset it.            *)
THEOREM PipelineConnectingEnds == Spec => []ConnectingEnds
  <1>1. IInv => ConnectingEnds
    BY DEF IInv
  <1> QED
    BY PipelineInvariant, <1>1, PTL

-----------------------------------------------------------------------------
(* A step after Close keeps closed set and attaches nothing; of the        *)
(* actions that touch a timer or a goroutine each leaves less to do.       *)
LEMMA ClosedStep ==
    ASSUME TypeOK, closed, [Next]_vars
    PROVE  /\ closed' /\ attempts' = attempts
           /\ Left' < Left \/ UNCHANGED <<rVars, wVars>>
  <1> DEFINE Goal == /\ closed' /\ attempts' = attempts
                     /\ Left' < Left \/ UNCHANGED <<rVars, wVars>>
             W == Flag(wPtr = "armed")
             R == Flag(rPtr = "armed")
  <1>0. /\ wGo \in Nat /\ wLoose \in Nat /\ wFired \in Nat
        /\ rGo \in Nat /\ rLoose \in Nat /\ rFired \in Nat
    BY PipelineAssumption DEF TypeOK, PipeType
  <1>1. W \in {0, 1} /\ R \in {0, 1} /\ W' \in {0, 1} /\ R' \in {0, 1}
    BY DEF Flag
  <1>3. ASSUME NEW a \in Attaches, OnClosed(a) PROVE Goal
    BY <1>3 DEF OnClosed, manVars, rVars, wVars
  <1>4. ASSUME Connect PROVE Goal
    BY <1>4 DEF Connect, manVars, rVars, wVars
  <1>5. ASSUME Watch PROVE Goal
    <2>1. /\ wGo' = wGo - 1 /\ UNCHANGED <<wLoose, wFired, rGo, rPtr, rLoose, rFired>>
          /\ UNCHANGED <<closed, attempts>> /\ R' = R
      BY <1>5 DEF Watch, manVars, pipeVars, rVars
    <2>2. Left' < Left
      BY <1>0, <1>1, <2>1 DEF Left
    <2> QED
      BY <2>1, <2>2
  <1>6. ASSUME WatchFire PROVE Goal
    <2>1. /\ wFired' = wFired + 1 /\ UNCHANGED <<wGo, rGo, rPtr, rLoose, rFired>>
          /\ UNCHANGED <<closed, attempts>> /\ R' = R
      BY <1>6 DEF WatchFire, manVars, pipeVars, rVars
    <2>2. \/ W = 1 /\ W' = 0 /\ wLoose' = wLoose
          \/ W' = W /\ wLoose' = wLoose - 1
      BY <1>6 DEF WatchFire, Flag
    <2>3. Left' < Left
      BY <1>0, <1>1, <2>1, <2>2 DEF Left
    <2> QED
      BY <2>1, <2>3
  <1>7. ASSUME WatchTimeout PROVE Goal
    <2>1. /\ wFired' = wFired - 1 /\ wLoose' = wLoose + W /\ wPtr' = "nil"
          /\ UNCHANGED <<closed, attempts, rPtr, rLoose, rFired>> /\ R' = R
      BY <1>7 DEF WatchTimeout, manVars, pipeVars
    <2>2. wGo' = wGo /\ rGo' = rGo
      BY <1>0, <1>7 DEF WatchTimeout, Flag
    <2>3. W' = 0
      BY <2>1 DEF Flag
    <2>4. Left' < Left
      BY <1>0, <1>1, <2>1, <2>2, <2>3 DEF Left
    <2> QED
      BY <2>1, <2>4
  <1>8. ASSUME Reconnect PROVE Goal
    <2>1. /\ rGo' = rGo - 1 /\ UNCHANGED <<rLoose, rFired, wGo, wPtr, wLoose, wFired>>
          /\ UNCHANGED <<closed, attempts>> /\ W' = W
      BY <1>8 DEF Reconnect, manVars, wVars
    <2>2. Left' < Left
      BY <1>0, <1>1, <2>1 DEF Left
    <2> QED
      BY <2>1, <2>2
  <1>9. ASSUME ReconnectFire PROVE Goal
    <2>1. /\ rFired' = rFired + 1 /\ UNCHANGED <<rGo, wGo, wPtr, wLoose, wFired>>
          /\ UNCHANGED <<closed, attempts>> /\ W' = W
      BY <1>9 DEF ReconnectFire, manVars, pipeVars, wVars
    <2>2. \/ R = 1 /\ R' = 0 /\ rLoose' = rLoose
          \/ R' = R /\ rLoose' = rLoose - 1
      BY <1>9 DEF ReconnectFire, Flag
    <2>3. Left' < Left
      BY <1>0, <1>1, <2>1, <2>2 DEF Left
    <2> QED
      BY <2>1, <2>3
  <1>10. ASSUME ReconnectTimeout PROVE Goal
    <2>1. /\ rFired' = rFired - 1 /\ rLoose' = rLoose + R /\ rPtr' = "nil"
          /\ UNCHANGED <<closed, attempts, rGo, wGo, wPtr, wLoose, wFired>> /\ W' = W
      BY <1>10 DEF ReconnectTimeout, manVars
    <2>2. R' = 0
      BY <2>1 DEF Flag
    <2>3. Left' < Left
      BY <1>0, <1>1, <2>1, <2>2 DEF Left
    <2> QED
      BY <2>1, <2>3
  <1>11. ~Close
    BY DEF Close
  <1>12. ASSUME UNCHANGED <<attempts, pipeVars, rVars, wVars>> PROVE Goal
    BY <1>12 DEF pipeVars
  <1>13. ASSUME NEW h \in Handlers, OnConnect(h) PROVE Goal
    BY <1>13 DEF OnConnect, manVars
  <1> QED
    BY <1>3, <1>4, <1>5, <1>6, <1>7, <1>8, <1>9, <1>10, <1>11, <1>12, <1>13, Zenon
    DEF Next, HandlerStep, CallbackStep, vars, manVars, Control, PurgeMark, PurgeRemove,
        Find, Refuse, Accept, Hook, ServeConn, ConnClose, Release

(* After Close the timers and goroutines of a pipeline wind down: each     *)
(* step of one leaves less to do, and none attaches.                       *)
THEOREM PipelineClosedWinds == Spec => ClosedWinds
  <1>1. TypeOK /\ [Next]_vars
        => [closed => /\ closed' /\ attempts' = attempts
                      /\ Left' < Left \/ UNCHANGED <<rVars, wVars>>]_vars
    BY ClosedStep
  <1> QED
    BY PipelineTypeCorrect, <1>1, PTL DEF Spec, ClosedWinds

=============================================================================
