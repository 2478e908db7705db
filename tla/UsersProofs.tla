---------------------------- MODULE UsersProofs ----------------------------
(***************************************************************************)
(* Proofs about the user table, for any number of users, connections,      *)
(* shards and look-ups: the invariants of module Users hold in every       *)
(* reachable state.  The argument is the induction over IInv, one step for *)
(* every action.                                                           *)
(***************************************************************************)
EXTENDS Users, TLAPS

(* A leaf that names no prover is for the SMT solver.                       *)
USE SMTT(40)

(* Init establishes the inductive invariant.                               *)
LEMMA InitIInv == Init => IInv
<1> SUFFICES ASSUME Init PROVE IInv
  OBVIOUS
<1> USE UsersAssumption DEF Init
<1>1. TypeOK
  BY Zenon DEF TypeOK, Records, Phases, Slices, EmptySlice, PurgeStates, LookupStates
<1>2. RegisteredOnce /\ DisconnectFindsConnection /\ LookupComplete
  BY DEF RegisteredOnce, DisconnectFindsConnection, LookupComplete, Records,
         EmptySlice, Registered
<1>3. MapInv /\ OwnRecordInv /\ PurgeInv /\ LookupInv
  BY Zenon DEF MapInv, OwnRecordInv, PurgeInv, LookupInv
<1>4. QED
  BY <1>1, <1>2, <1>3 DEF IInv

(* Every step keeps the types.                                             *)
LEMMA NextTypeOK == TypeOK /\ [Next]_vars => TypeOK'
<1> SUFFICES ASSUME TypeOK, [Next]_vars PROVE TypeOK'
  OBVIOUS
<1> USE UsersAssumption DEF TypeOK, Records, Phases, Goto
<1>1. ASSUME NEW c \in Conns, ConnStep(c) \/ EndOfRead(c) PROVE TypeOK'
  <2>1. CASE Serve(c)
    BY <2>1 DEF Serve
  <2>2. CASE LockOwnRecord(c)
    BY <2>2 DEF LockOwnRecord
  <2>3. CASE ConnectEnter(c)
    BY <2>3 DEF ConnectEnter, ShardOfConn
  <2>4. CASE ConnectFirst(c)
    <3>1. Append1(conns[c], c) \in Slices
      BY DEF Append1, Slices
    <3>2. QED
      BY <2>4, <3>1 DEF ConnectFirst, ShardOfConn
  <2>5. CASE ConnectAgain(c)
    <3>1. users[UserOf[c]] \in Records
      BY <2>5 DEF ConnectAgain
    <3>2. Append1(conns[users[UserOf[c]]], c) \in Slices
      BY <3>1 DEF Append1, Slices
    <3>3. QED
      BY <2>5, <3>1, <3>2 DEF ConnectAgain, ShardOfConn
  <2>6. CASE UnlockOwnRecord(c)
    BY <2>6 DEF UnlockOwnRecord
  <2>7. CASE SendHello(c)
    BY <2>7 DEF SendHello
  <2>8. CASE DisconnectEnter(c)
    BY <2>8 DEF DisconnectEnter, ShardOfConn
  <2>9. CASE DisconnectDrop(c)
    <3> DEFINE ur == users[UserOf[c]]
    <3>1. ur # None /\ conns[ur][c] > 0 =>
            ur \in Records /\ Without(conns[ur], c) \in Slices
      BY DEF Without, Slices
    <3>2. conns' \in [Records -> Slices] /\ exited' \subseteq Records
      BY <2>9, <3>1 DEF DisconnectDrop
    <3>3. QED
      BY <2>9, <3>2 DEF DisconnectDrop, ShardOfConn
  <2>10. CASE Unserve(c)
    BY <2>10 DEF Unserve
  <2>11. CASE EndOfRead(c)
    BY <2>11 DEF EndOfRead
  <2>12. QED
    BY <1>1, <2>1, <2>2, <2>3, <2>4, <2>5, <2>6, <2>7, <2>8, <2>9, <2>10,
       <2>11 DEF ConnStep
<1>2. ASSUME PurgeStep PROVE TypeOK'
  <2> USE DEF PurgeStates
  <2>1. CASE PurgeStart
    BY <2>1, Zenon DEF PurgeStart
  <2>2. ASSUME NEW s \in Shards, PurgeSnapshot(s) PROVE TypeOK'
    <3> DEFINE shards == purge.shards \ {s}
               todo == purge.todo \cup
                 ({users[u] : u \in {v \in UserIDs : ShardOf[v] = s}} \ {None})
    <3>1. shards \in SUBSET Shards /\ todo \in SUBSET Records
      OBVIOUS
    <3>2. purge' = [purge EXCEPT !.shards = shards, !.todo = todo]
      BY <2>2 DEF PurgeSnapshot
    <3> HIDE DEF shards, todo
    <3>3. purge' \in PurgeStates
      BY <3>1, <3>2, Zenon
    <3>4. QED
      BY <2>2, <3>3, Zenon DEF PurgeSnapshot
  <2>3. ASSUME NEW r \in Records, NEW e \in BOOLEAN, PurgeScan(r, e)
        PROVE TypeOK'
    <3> DEFINE todo == purge.todo \ {r}
               empty == purge.empty \cup {x \in {r} : IsEmpty(conns[x]) /\ e}
    <3>1. todo \in SUBSET Records /\ empty \in SUBSET Records
      OBVIOUS
    <3>2. purge' = [purge EXCEPT !.todo = todo, !.empty = empty]
      BY <2>3 DEF PurgeScan
    <3> HIDE DEF todo, empty
    <3>3. purge' \in PurgeStates
      BY <3>1, <3>2, Zenon
    <3>4. QED
      BY <2>3, <3>3, Zenon DEF PurgeScan
  <2>4. ASSUME NEW r \in Records, PurgeLock(r) PROVE TypeOK'
    <3>1. CASE IsEmpty(conns[r])
      <4>1. purge' = [purge EXCEPT !.pc = "remove", !.at = r]
        BY <2>4, <3>1 DEF PurgeLock
      <4>2. purge' \in PurgeStates
        BY <4>1, Zenon
      <4>3. QED
        BY <2>4, <3>1, <4>2 DEF PurgeLock
    <3>2. CASE ~IsEmpty(conns[r])
      <4> DEFINE empty == purge.empty \ {r}
      <4>1. empty \in SUBSET Records
        OBVIOUS
      <4>2. purge' = [purge EXCEPT !.empty = empty]
        BY <2>4, <3>2 DEF PurgeLock
      <4> HIDE DEF empty
      <4>3. purge' \in PurgeStates
        BY <4>1, <4>2
      <4>4. QED
        BY <2>4, <3>2, <4>3 DEF PurgeLock
    <3>3. QED
      BY <3>1, <3>2
  <2>5. CASE PurgeRemove
    BY <2>5, ZenonT(40) DEF PurgeRemove
  <2>6. CASE PurgeEnd
    BY <2>6 DEF PurgeEnd
  <2>7. QED
    BY <1>2, <2>1, <2>2, <2>3, <2>4, <2>5, <2>6 DEF PurgeStep
<1>3. ASSUME NEW l \in Lookups, LookupStep(l) PROVE TypeOK'
  <2>1. CASE LookupCopy(l)
    <3> DEFINE found == Members(conns[lookup[l].rec])
               done == [lookup[l] EXCEPT !.pc = "done", !.result = found]
    <3>1. found \in SUBSET Conns
      BY DEF Members
    <3>2. lookup' = [lookup EXCEPT ![l] = done]
      BY <2>1, ZenonT(40) DEF LookupCopy
    <3>3. lookup[l] \in LookupStates
      OBVIOUS
    <3> HIDE DEF found
    <3>4. done \in LookupStates
      BY ONLY <3>1, <3>3, Zenon DEF LookupStates, done
    <3> HIDE DEF done
    <3>5. lookup' \in [Lookups -> LookupStates]
      BY <3>2, <3>4
    <3>6. QED
      BY <2>1, <3>5 DEF LookupCopy
  <2>2. ASSUME NEW u \in UserIDs, LookupGet(l, u) PROVE TypeOK'
    BY <2>2 DEF LookupGet, LookupStates
  <2>3. QED
    BY <1>3, <2>1, <2>2 DEF LookupStep
<1>4. CASE UNCHANGED vars
  BY <1>4 DEF vars
<1>5. QED
  BY <1>1, <1>2, <1>3, <1>4 DEF Next

-----------------------------------------------------------------------------
(* The conjuncts of IInv that are not about types.                         *)
Core ==
    /\ RegisteredOnce
    /\ DisconnectFindsConnection
    /\ LookupComplete
    /\ MapInv
    /\ OwnRecordInv
    /\ PurgeInv
    /\ LookupInv

(* The steps of a connection that leave the table alone keep Core.         *)
LEMMA PlainConnSteps ==
    ASSUME IInv, TypeOK', NEW c \in Conns,
           Serve(c) \/ LockOwnRecord(c) \/ ConnectEnter(c) \/ SendHello(c)
           \/ EndOfRead(c) \/ DisconnectEnter(c) \/ Unserve(c)
    PROVE  Core'
<1> USE UsersAssumption DEF IInv, TypeOK, Records, Phases, Goto, Registered,
        Arriving
<1> USE DEF Serve, LockOwnRecord, ConnectEnter, SendHello, EndOfRead,
        DisconnectEnter, Unserve
<1>1. UNCHANGED <<users, conns, bound, panicked, purge, lookup>>
  OBVIOUS
<1>2. /\ \A d \in Conns : (pc'[d] \in Registered) = (pc[d] \in Registered)
      /\ \A d \in Conns : pc'[d] \in Arriving => pc[d] \in Arriving
      /\ \A d \in Conns : pc'[d] \in {"own", "upsert", "stored"} => recLock'[d] = d
      /\ \A d \in Conns : pc[d] \in Registered => pc'[d] \notin Arriving
      /\ \A r \in Records : recLock[r] = Purger => recLock'[r] = Purger
  BY DEF OwnRecordInv
<1> HIDE DEF Goto, Serve, LockOwnRecord, ConnectEnter, SendHello, EndOfRead,
        DisconnectEnter, Unserve
<1>3. RegisteredOnce'
  BY <1>1, <1>2 DEF RegisteredOnce
<1>4. DisconnectFindsConnection' /\ MapInv'
  BY <1>1 DEF DisconnectFindsConnection, MapInv
<1>5. LookupComplete' /\ LookupInv'
  BY <1>1, <1>2 DEF LookupComplete, LookupInv, LookupStates
<1>6. OwnRecordInv'
  BY <1>1, <1>2 DEF OwnRecordInv
<1>7. PurgeInv'
  BY <1>1, <1>2 DEF PurgeInv, PurgeStates
<1>8. QED
  BY ONLY <1>3, <1>4, <1>5, <1>6, <1>7, Zenon DEF Core

(* nur.Unlock() keeps Core.                                                *)
LEMMA UnlockOwnRecordCore ==
    ASSUME IInv, TypeOK', NEW c \in Conns, UnlockOwnRecord(c)
    PROVE  Core'
<1> USE UsersAssumption DEF IInv, TypeOK, Records, Phases, Goto, Registered,
        Arriving, UnlockOwnRecord
<1>1. UNCHANGED <<users, conns, bound, panicked, purge, lookup>>
  OBVIOUS
<1>2. /\ \A d \in Conns : (pc'[d] \in Registered) = (pc[d] \in Registered)
      /\ \A d \in Conns : pc'[d] \in Arriving => pc[d] \in Arriving
      /\ \A d \in Conns : pc'[d] \in {"own", "upsert", "stored"} => recLock'[d] = d
      /\ \A r \in Records : recLock[r] = Purger => recLock'[r] = Purger
  BY DEF OwnRecordInv
<1> HIDE DEF Goto, UnlockOwnRecord
<1>3. RegisteredOnce'
  BY <1>1, <1>2 DEF RegisteredOnce
<1>4. DisconnectFindsConnection' /\ MapInv'
  BY <1>1 DEF DisconnectFindsConnection, MapInv
<1>5. LookupComplete' /\ LookupInv'
  BY <1>1, <1>2 DEF LookupComplete, LookupInv, LookupStates
<1>6. OwnRecordInv'
  BY <1>1, <1>2 DEF OwnRecordInv
<1>7. PurgeInv'
  BY <1>1, <1>2 DEF PurgeInv, PurgeStates
<1>8. QED
  BY ONLY <1>3, <1>4, <1>5, <1>6, <1>7, Zenon DEF Core

(* Both branches of OnConnect's callback append c once to the record ur    *)
(* that the map then holds for the user, and bind c to it.  No record had  *)
(* c before, and the cleanup does not hold ur.                             *)
LEMMA ConnectCore ==
    ASSUME IInv, TypeOK', NEW c \in Conns, ConnectFirst(c) \/ ConnectAgain(c)
    PROVE  Core'
<1> DEFINE ur == users'[UserOf[c]]
<1> USE UsersAssumption DEF IInv, TypeOK, Records, Phases, Goto
<1>1. /\ ur \in Conns /\ UserOf[ur] = UserOf[c]
      /\ bound' = [bound EXCEPT ![c] = ur]
      /\ conns' = [conns EXCEPT ![ur] = Append1(@, c)]
      /\ \A u \in UserIDs : u # UserOf[c] => users'[u] = users[u]
      /\ users[UserOf[c]] \in {None, ur}
      /\ recLock[ur] # Purger
  <2>1. CASE ConnectFirst(c)
    BY <2>1 DEF ConnectFirst, OwnRecordInv, Arriving
  <2>2. CASE ConnectAgain(c)
    BY <2>2 DEF ConnectAgain, MapInv
  <2>3. QED
    BY <2>1, <2>2
<1>2. /\ pc[c] = "upsert"
      /\ pc' = [pc EXCEPT ![c] = "stored"]
      /\ UNCHANGED <<recLock, panicked, purge, lookup>>
  BY DEF ConnectFirst, ConnectAgain
<1> HIDE DEF ur
<1>3. /\ \A r \in Records, d \in Conns \cup {None} :
            ~(r = ur /\ d = c) => conns'[r][d] = conns[r][d]
      /\ conns'[ur][c] = conns[ur][c] + 1
  BY <1>1 DEF Append1, Slices
<1>4. \A r \in Records : conns[r][c] = 0
  BY <1>2 DEF RegisteredOnce, Registered
<1>5. \A d \in Conns : d # c =>
        /\ pc'[d] = pc[d]
        /\ bound'[d] = bound[d]
        /\ pc[d] \in Registered => users'[UserOf[d]] = users[UserOf[d]]
  BY <1>1, <1>2 DEF RegisteredOnce, ur
<1>6. pc'[c] = "stored" /\ bound'[c] = ur
  BY <1>1, <1>2
<1>7. RegisteredOnce'
  <2>1. \A r \in Records : conns'[r][None] = 0
    BY ONLY RegisteredOnce, UsersAssumption, c \in Conns, <1>3
    DEF RegisteredOnce, UsersAssumption
  <2>2. \A d \in Conns : pc'[d] \in Registered =>
            users'[UserOf[d]] = bound'[d] /\ conns'[bound'[d]][d] = 1
    BY <1>1, <1>3, <1>4, <1>5, <1>6 DEF RegisteredOnce, ur
  <2>3. \A d \in Conns, r \in Records :
            (pc'[d] \in Registered => r # bound'[d]) => conns'[r][d] = 0
    BY <1>1, <1>3, <1>4, <1>5, <1>6 DEF RegisteredOnce, Registered
  <2>4. QED
    BY ONLY <2>1, <2>2, <2>3, Zenon DEF RegisteredOnce
<1>8. DisconnectFindsConnection' /\ MapInv'
  BY <1>1, <1>2 DEF DisconnectFindsConnection, MapInv, ur
<1>9. \A l \in Lookups : c \notin lookup[l].present
  BY <1>2 DEF LookupInv, Arriving
<1>10. LookupComplete' /\ LookupInv'
  BY <1>2, <1>5, <1>9 DEF LookupComplete, LookupInv, LookupStates
<1>11. OwnRecordInv'
  BY <1>2, <1>5, <1>6 DEF OwnRecordInv, Arriving
<1>12. PurgeInv'
  <2>1. \A r \in purge.todo \cup purge.empty : users'[UserOf[r]] = users[UserOf[r]]
    BY <1>1 DEF PurgeInv, ur
  <2>2. purge.pc = "remove" => purge.at \in Records /\ conns'[purge.at] = conns[purge.at]
    BY <1>1 DEF PurgeInv, PurgeStates
  <2>3. QED
    BY <1>2, <2>1, <2>2 DEF PurgeInv
<1>13. QED
  BY ONLY <1>7, <1>8, <1>10, <1>11, <1>12, Zenon DEF Core

(* OnDisconnect's callback finds c exactly once in the record of the map   *)
(* and takes it out.                                                       *)
LEMMA DisconnectDropCore ==
    ASSUME IInv, TypeOK', NEW c \in Conns, DisconnectDrop(c)
    PROVE  Core'
<1> DEFINE ur == users[UserOf[c]]
<1> USE UsersAssumption DEF IInv, TypeOK, Records, Phases, Goto
<1>1. pc[c] = "drop" /\ pc' = [pc EXCEPT ![c] = "left"]
  BY DEF DisconnectDrop
<1>2. ur \in Conns /\ ur = bound[c] /\ conns[ur][c] = 1
  BY <1>1 DEF RegisteredOnce, MapInv, Registered
<1>3. /\ conns' = [conns EXCEPT ![ur] = Without(@, c)]
      /\ UNCHANGED <<users, bound, recLock, panicked, purge, lookup>>
      /\ recLock[ur] = None
  BY <1>2 DEF DisconnectDrop
<1> HIDE DEF ur
<1>4. /\ \A r \in Records, d \in Conns : ~(r = ur /\ d = c) => conns'[r][d] = conns[r][d]
      /\ \A r \in Records : conns'[r][None] = conns[r][None]
      /\ conns'[ur][c] = 0
  BY <1>2, <1>3 DEF Without, Slices
<1>5. \A d \in Conns : d # c => pc'[d] = pc[d]
  BY <1>1
<1>6. pc'[c] = "left"
  BY <1>1
<1>7. RegisteredOnce'
  <2>1. \A r \in Records : conns'[r][None] = 0
    BY <1>4 DEF RegisteredOnce
  <2>2. \A d \in Conns : pc'[d] \in Registered =>
            users'[UserOf[d]] = bound'[d] /\ conns'[bound'[d]][d] = 1
    BY <1>3, <1>4, <1>5, <1>6 DEF RegisteredOnce, Registered
  <2>3. \A d \in Conns, r \in Records :
            (pc'[d] \in Registered => r # bound'[d]) => conns'[r][d] = 0
    BY <1>2, <1>3, <1>4, <1>5, <1>6 DEF RegisteredOnce, Registered
  <2>4. QED
    BY ONLY <2>1, <2>2, <2>3, Zenon DEF RegisteredOnce
<1>8. DisconnectFindsConnection' /\ MapInv'
  BY <1>3 DEF DisconnectFindsConnection, MapInv
<1>9. LookupComplete' /\ LookupInv'
  BY <1>3, <1>5, <1>6
     DEF LookupComplete, LookupInv, LookupStates, Registered, Arriving
<1>10. OwnRecordInv'
  BY <1>3, <1>5, <1>6 DEF OwnRecordInv, Arriving
<1>11. PurgeInv'
  <2>1. purge.pc = "remove" => purge.at \in Records /\ conns'[purge.at] = conns[purge.at]
    BY <1>2, <1>3 DEF PurgeInv, PurgeStates
  <2>2. QED
    BY <1>3, <2>1 DEF PurgeInv
<1>12. QED
  BY ONLY <1>7, <1>8, <1>9, <1>10, <1>11, Zenon DEF Core

(* The cleanup keeps Core.  The record it removes is the one in the map,   *)
(* and it is empty, so no connection loses its record.                     *)
LEMMA PurgeCore ==
    ASSUME IInv, TypeOK', PurgeStep
    PROVE  Core'
<1> USE UsersAssumption DEF IInv, TypeOK, Records
<1>1. UNCHANGED <<pc, conns, bound, panicked, lookup>>
  BY ZenonT(40) DEF PurgeStep, PurgeStart, PurgeSnapshot, PurgeScan, PurgeLock,
         PurgeRemove, PurgeEnd
<1>2. LookupComplete' /\ LookupInv'
  BY <1>1 DEF LookupComplete, LookupInv, LookupStates
<1>3. CASE PurgeRemove
  <2> DEFINE r == purge.at
  <2>1. /\ r \in Conns /\ r \in purge.empty
        /\ users[UserOf[r]] = r
        /\ recLock[r] = Purger
        /\ IsEmpty(conns[r])
    BY <1>3 DEF PurgeRemove, PurgeInv
  <2>2. /\ users' = [users EXCEPT ![UserOf[r]] = None]
        /\ recLock' = [recLock EXCEPT ![r] = None]
        /\ purge'.pc = "work"
        /\ purge.todo = {} /\ purge'.todo = {}
        /\ purge'.empty = purge.empty \ {r}
    BY <1>3, <2>1 DEF PurgeRemove, PurgeStates, PurgeInv
  <2> HIDE DEF r
  <2>3. \A c \in Conns : pc[c] \in Registered => UserOf[c] # UserOf[r]
    BY <2>1 DEF RegisteredOnce, IsEmpty
  <2>4. RegisteredOnce'
    BY <1>1, <2>2, <2>3 DEF RegisteredOnce
  <2>5. DisconnectFindsConnection' /\ MapInv'
    BY <1>1, <2>2 DEF DisconnectFindsConnection, MapInv
  <2>6. OwnRecordInv'
    BY <1>1, <2>1, <2>2 DEF OwnRecordInv
  <2>7. PurgeInv'
    BY <2>1, <2>2 DEF PurgeInv
  <2>8. QED
    BY ONLY <1>2, <2>4, <2>5, <2>6, <2>7, Zenon DEF Core
<1>4. CASE ~PurgeRemove
  <2>1. UNCHANGED users
    BY <1>4, ZenonT(40) DEF PurgeStep, PurgeStart, PurgeSnapshot, PurgeScan, PurgeLock, PurgeEnd
  <2>2. RegisteredOnce' /\ DisconnectFindsConnection' /\ MapInv'
    BY <1>1, <2>1 DEF RegisteredOnce, DisconnectFindsConnection, MapInv
  <2>3. OwnRecordInv' /\ PurgeInv'
    <3>1. CASE PurgeStart \/ PurgeEnd
      <4>1. /\ purge'.pc # "remove"
            /\ purge'.todo = purge.todo /\ purge'.empty = purge.empty
        <5>1. purge \in PurgeStates
          OBVIOUS
        <5>2. CASE PurgeStart
          BY ONLY <5>1, <5>2 DEF PurgeStart, PurgeStates
        <5>3. CASE PurgeEnd
          BY ONLY <5>1, <5>3 DEF PurgeEnd, PurgeStates
        <5>4. QED BY ONLY <3>1, <5>2, <5>3
      <4>2. UNCHANGED recLock
        BY <3>1 DEF PurgeStart, PurgeEnd
      <4>3. QED
        BY <4>1, <4>2, <1>1, <2>1 DEF OwnRecordInv, PurgeInv
    <3>2. ASSUME NEW s \in Shards, PurgeSnapshot(s) PROVE OwnRecordInv' /\ PurgeInv'
      <4> DEFINE seen == {users[u] : u \in {v \in UserIDs : ShardOf[v] = s}} \ {None}
      <4>1. /\ purge'.pc = purge.pc
            /\ purge'.empty = purge.empty
            /\ purge'.todo = purge.todo \cup seen
            /\ purge.shards # {}
        BY <3>2, Zenon DEF PurgeSnapshot, PurgeStates
      <4>2. UNCHANGED recLock
        BY <3>2 DEF PurgeSnapshot
      <4>3. \A r \in seen : r \in Conns /\ users[UserOf[r]] = r
        BY DEF MapInv
      <4> HIDE DEF seen
      <4>4. QED
        BY <4>1, <4>2, <4>3, <1>1, <2>1 DEF OwnRecordInv, PurgeInv
    <3>3. ASSUME NEW r \in Records, NEW e \in BOOLEAN, PurgeScan(r, e)
          PROVE OwnRecordInv' /\ PurgeInv'
      <4>1. /\ purge'.pc = purge.pc
            /\ purge'.todo \subseteq purge.todo
            /\ purge'.empty \subseteq purge.empty \cup {r}
            /\ r \in purge.todo
        BY <3>3, Zenon DEF PurgeScan, PurgeStates
      <4>2. UNCHANGED recLock
        BY <3>3 DEF PurgeScan
      <4>3. QED
        BY <4>1, <4>2, <1>1, <2>1 DEF OwnRecordInv, PurgeInv
    <3>4. ASSUME NEW r \in Records, PurgeLock(r) PROVE OwnRecordInv' /\ PurgeInv'
      <4>1. CASE IsEmpty(conns[r])
        <5>0. /\ purge' = [purge EXCEPT !.pc = "remove", !.at = r]
              /\ purge.shards = {} /\ purge.todo = {} /\ r \in purge.empty
          BY <3>4, <4>1 DEF PurgeLock
        <5>1. /\ purge'.at = r
              /\ purge'.shards = {} /\ purge'.todo = {}
              /\ purge'.empty = purge.empty /\ r \in purge.empty
          BY <5>0 DEF PurgeStates
        <5>2. recLock[r] = None /\ recLock' = [recLock EXCEPT ![r] = Purger]
          BY <3>4, <4>1 DEF PurgeLock
        <5>3. QED
          BY <4>1, <5>1, <5>2, <1>1, <2>1 DEF OwnRecordInv, PurgeInv
      <4>2. CASE ~IsEmpty(conns[r])
        <5>1. /\ purge'.pc = "work"
              /\ purge'.todo = {}
              /\ purge'.empty = purge.empty \ {r}
          BY <3>4, <4>2 DEF PurgeLock, PurgeStates
        <5>2. UNCHANGED recLock
          BY <3>4, <4>2 DEF PurgeLock
        <5>3. QED
          BY <5>1, <5>2, <1>1, <2>1 DEF OwnRecordInv, PurgeInv
      <4>3. QED
        BY ONLY <4>1, <4>2, Zenon
    <3>5. QED
      BY ONLY PurgeStep, <1>4, <3>1, <3>2, <3>3, <3>4, Zenon DEF PurgeStep
  <2>4. QED
    BY ONLY <1>2, <2>2, <2>3, Zenon DEF Core
<1>5. QED
  BY ONLY <1>3, <1>4, Zenon

(* A look-up keeps Core: everybody who is registered when the map is read  *)
(* is bound to the record that is read, and is in it while registered.     *)
LEMMA LookupCore ==
    ASSUME IInv, TypeOK', NEW l \in Lookups, LookupStep(l)
    PROVE  Core'
<1> USE UsersAssumption DEF IInv, TypeOK, Records
<1>1. UNCHANGED <<pc, users, conns, bound, recLock, panicked, purge>>
  BY ONLY LookupStep(l) DEF LookupStep, LookupGet, LookupCopy
<1>2. /\ RegisteredOnce' /\ DisconnectFindsConnection' /\ MapInv'
      /\ OwnRecordInv' /\ PurgeInv'
  BY <1>1 DEF RegisteredOnce, DisconnectFindsConnection, MapInv, OwnRecordInv,
              PurgeInv
<1>3. CASE LookupCopy(l)
  <2> DEFINE r == lookup[l].rec
  <2>1. /\ lookup'[l].pc = "done"
        /\ lookup'[l].present = lookup[l].present
        /\ lookup'[l].user = lookup[l].user
        /\ lookup'[l].result = Members(conns[r])
        /\ \A k \in Lookups : k # l => lookup'[k] = lookup[k]
    BY <1>3 DEF LookupCopy, LookupStates
  <2>2. lookup[l].pc = "got" /\ r \in Conns /\ UserOf[r] = lookup[l].user
    BY <1>3 DEF LookupCopy, LookupInv
  <2>3. lookup[l].present \subseteq Conns
    BY DEF LookupStates
  <2>4. \A c \in lookup[l].present : pc[c] \in Registered => c \in Members(conns[r])
    BY <2>2, <2>3 DEF LookupInv, RegisteredOnce, Members
  <2>5. \A c \in Members(conns[r]) : UserOf[c] = lookup[l].user
    BY <2>2 DEF RegisteredOnce, MapInv, Members
  <2> HIDE DEF r
  <2>6. LookupComplete'
    BY <1>1, <2>1, <2>4, <2>5 DEF LookupComplete
  <2>7. LookupInv'
    BY <1>1, <2>1 DEF LookupInv
  <2>8. QED
    BY ONLY <1>2, <2>6, <2>7, Zenon DEF Core
<1>4. ASSUME NEW u \in UserIDs, LookupGet(l, u) PROVE Core'
  <2> DEFINE p == {c \in Conns : UserOf[c] = u /\ pc[c] \in Registered}
  <2>1. /\ lookup'[l].pc = IF users[u] = None THEN "done" ELSE "got"
        /\ lookup'[l].present = p
        /\ lookup'[l].user = u
        /\ lookup'[l].rec = users[u]
        /\ lookup'[l].result = {}
        /\ \A k \in Lookups : k # l => lookup'[k] = lookup[k]
    BY <1>4 DEF LookupGet
  <2>2. users[u] = None => p = {}
    BY DEF RegisteredOnce
  <2>3. \A c \in p : bound[c] = users[u] /\ pc[c] \notin Arriving
    BY DEF RegisteredOnce, Registered, Arriving
  <2> HIDE DEF p
  <2>4. LookupComplete'
    <3>1. LookupComplete
      BY Zenon DEF IInv
    <3>2. QED
      BY ONLY <3>1, <1>1, <2>1, <2>2, l \in Lookups DEF LookupComplete
  <2>5. LookupInv'
    BY <1>1, <2>1, <2>3 DEF LookupInv, MapInv
  <2>6. QED
    BY ONLY <1>2, <2>4, <2>5, Zenon DEF Core
<1>5. QED
  BY ONLY LookupStep(l), <1>3, <1>4, Zenon DEF LookupStep

-----------------------------------------------------------------------------
(* IInv is inductive.                                                      *)
LEMMA NextIInv == IInv /\ [Next]_vars => IInv'
<1> SUFFICES ASSUME IInv, [Next]_vars PROVE IInv'
  OBVIOUS
<1>1. TypeOK'
  BY NextTypeOK DEF IInv
<1>2. Core'
  <2>1. ASSUME NEW c \in Conns, ConnStep(c) \/ EndOfRead(c) PROVE Core'
    BY ONLY IInv, <1>1, <2>1, PlainConnSteps, UnlockOwnRecordCore, ConnectCore,
       DisconnectDropCore, Zenon DEF ConnStep
  <2>2. CASE PurgeStep
    BY ONLY IInv, <1>1, <2>2, PurgeCore, Zenon
  <2>3. ASSUME NEW l \in Lookups, LookupStep(l) PROVE Core'
    BY ONLY IInv, <1>1, <2>3, LookupCore, Zenon
  <2>4. CASE UNCHANGED vars
    BY <2>4 DEF vars, IInv, Core, RegisteredOnce, DisconnectFindsConnection,
                LookupComplete, MapInv, OwnRecordInv, PurgeInv, LookupInv
  <2>5. QED
    BY ONLY [Next]_vars, <2>1, <2>2, <2>3, <2>4, Zenon DEF Next
<1>3. QED
  BY ONLY <1>1, <1>2, Zenon DEF IInv, Core

(* The state always has the declared types.                                *)
THEOREM UsersTypeCorrect == Spec => []TypeOK
<1>1. IInv => TypeOK
  BY ONLY Zenon DEF IInv
<1>2. QED
  BY InitIInv, NextIInv, <1>1, PTL DEF Spec

(* OnConnect, OnDisconnect and the cleanup keep every live connection      *)
(* exactly once in its user's record, whatever their interleaving.         *)
THEOREM UsersRegisteredOnce == Spec => []RegisteredOnce
<1>1. IInv => RegisteredOnce
  BY ONLY Zenon DEF IInv
<1>2. QED
  BY InitIInv, NextIInv, <1>1, PTL DEF Spec

(* The branch of OnDisconnect that "should not happen" does not happen,    *)
(* and its copy loop never overruns the shorter slice.                     *)
THEOREM UsersDisconnectFinds == Spec => []DisconnectFindsConnection
<1>1. IInv => DisconnectFindsConnection
  BY ONLY Zenon DEF IInv
<1>2. QED
  BY InitIInv, NextIInv, <1>1, PTL DEF Spec

(* LookupConnectionsByID misses nobody who is registered throughout.       *)
THEOREM UsersLookupComplete == Spec => []LookupComplete
<1>1. IInv => LookupComplete
  BY ONLY Zenon DEF IInv
<1>2. QED
  BY InitIInv, NextIInv, <1>1, PTL DEF Spec

-----------------------------------------------------------------------------
(***************************************************************************)
(* Users implement Presence.                                               *)
(***************************************************************************)

(* IInv holds in every reachable state.                                    *)
LEMMA UsersInvariant == Spec => []IInv
  BY InitIInv, NextIInv, PTL DEF Spec

PresentIsRegistered == Present = {c \in Conns : pc[c] \in Registered}

(* Who can be found is who is registered.                                  *)
LEMMA IInvPresent == IInv => PresentIsRegistered
<1> SUFFICES ASSUME IInv, NEW c \in Conns
             PROVE  (users[UserOf[c]] # None /\ conns[users[UserOf[c]]][c] > 0)
                    <=> pc[c] \in Registered
  BY Zenon DEF PresentIsRegistered, Present
<1>1. /\ users[UserOf[c]] \in Records \cup {None} /\ bound[c] \in Records
      /\ None \notin Records
  BY UsersAssumption DEF IInv, TypeOK, Records
<1>2. RegisteredOnce
  BY ONLY IInv, Zenon DEF IInv
<1>3. CASE pc[c] \in Registered
  BY ONLY <1>1, <1>2, <1>3, c \in Conns DEF RegisteredOnce
<1>4. CASE pc[c] \notin Registered
  BY ONLY <1>1, <1>2, <1>4, c \in Conns DEF RegisteredOnce
<1>5. QED BY ONLY <1>3, <1>4, Zenon

Looks == [l \in Lookups |-> Look(l)]

(* The steps of Presence in terms of Present, Left and Looks.              *)
LEMMA Abstract ==
  /\ UNCHANGED <<Present, Left, Looks>> => UNCHANGED P!pvars
  /\ \A c \in Conns :
         /\ c \notin Present \cup Left
         /\ Present' = Present \cup {c}
         /\ UNCHANGED <<Left, Looks>>
         => P!Next
  /\ \A c \in Conns :
         /\ c \in Present
         /\ Present' = Present \ {c}
         /\ Left' = Left \cup {c}
         /\ Looks' = [l \in Lookups |-> [Looks[l] EXCEPT !.must = @ \ {c}]]
         => P!Next
  /\ \A l \in Lookups, u \in UserIDs :
         /\ ~Looks[l].busy
         /\ \/ Looks' = [Looks EXCEPT ![l] =
                            [busy |-> TRUE, user |-> u,
                             must |-> P!PresentOf(u), result |-> {}]]
            \/ P!PresentOf(u) = {} /\ P!Found(l, u, {})
         /\ UNCHANGED <<Present, Left>>
         => P!Next
  /\ \A l \in Lookups :
         /\ Looks[l].busy
         /\ \E S \in SUBSET P!PresentOf(Looks[l].user) :
               Looks[l].must \subseteq S /\ P!Found(l, Looks[l].user, S)
         /\ UNCHANGED <<Present, Left>>
         => P!Next
<1> USE DEF Looks
<1>1. UNCHANGED <<Present, Left, Looks>> => UNCHANGED P!pvars
  BY ONLY Zenon DEF P!pvars
<1>2. \A c \in Conns :
         /\ c \notin Present \cup Left
         /\ Present' = Present \cup {c}
         /\ UNCHANGED <<Left, Looks>>
         => P!Next
  BY ONLY Zenon DEF P!Next, P!Arrive
<1>3. \A c \in Conns :
         /\ c \in Present
         /\ Present' = Present \ {c}
         /\ Left' = Left \cup {c}
         /\ Looks' = [l \in Lookups |-> [Looks[l] EXCEPT !.must = @ \ {c}]]
         => P!Next
  BY ONLY Zenon DEF P!Next, P!Leave
<1>4. \A l \in Lookups, u \in UserIDs :
         /\ ~Looks[l].busy
         /\ \/ Looks' = [Looks EXCEPT ![l] =
                            [busy |-> TRUE, user |-> u,
                             must |-> P!PresentOf(u), result |-> {}]]
            \/ P!PresentOf(u) = {} /\ P!Found(l, u, {})
         /\ UNCHANGED <<Present, Left>>
         => P!Next
  BY ONLY Zenon DEF P!Next, P!Ask
<1>5. \A l \in Lookups :
         /\ Looks[l].busy
         /\ \E S \in SUBSET P!PresentOf(Looks[l].user) :
               Looks[l].must \subseteq S /\ P!Found(l, Looks[l].user, S)
         /\ UNCHANGED <<Present, Left>>
         => P!Next
  BY ONLY Zenon DEF P!Next, P!Answer
<1>6. QED BY ONLY <1>1, <1>2, <1>3, <1>4, <1>5, Zenon

Row(b, u, m, r) == [busy |-> b, user |-> u, must |-> m, result |-> r]

Less(row, x) == [row EXCEPT !.must = @ \ x]

(* Changing one field of a record.                                         *)
LEMMA LessMust ==
  \A b, u, m, r, x : Less(Row(b, u, m, r), x) = Row(b, u, m \ x, r)
  BY DEF Less, Row

(* A look-up only waits for connections.                                   *)
LEMMA PresentTyped ==
  IInv => \A l \in Lookups : lookup[l].present \subseteq Conns
<1> SUFFICES ASSUME IInv, NEW l \in Lookups
             PROVE  lookup[l].present \subseteq Conns
  BY Zenon
<1>1. lookup \in [Lookups -> LookupStates]
  BY ONLY IInv, Zenon DEF IInv, TypeOK
<1>2. QED BY ONLY <1>1, l \in Lookups DEF LookupStates

(* Steps that leave look-ups and who is registered alone are not seen.     *)
LEMMA NotSeen ==
  ASSUME IInv, IInv', UNCHANGED lookup,
         \A c \in Conns : pc'[c] \in Registered <=> pc[c] \in Registered,
         \A c \in Conns : pc'[c] \in {"left", "gone"} <=> pc[c] \in {"left", "gone"}
  PROVE  UNCHANGED P!pvars
<1>1. PresentIsRegistered /\ PresentIsRegistered'
  BY IInvPresent, PTL
<1>2. UNCHANGED Present
  BY ONLY <1>1, \A c \in Conns : pc'[c] \in Registered <=> pc[c] \in Registered
  DEF PresentIsRegistered
<1>3. UNCHANGED Left
  BY ONLY \A c \in Conns :
              pc'[c] \in {"left", "gone"} <=> pc[c] \in {"left", "gone"}
  DEF Left
<1>4. UNCHANGED Looks
  <2>1. \A l \in Lookups : lookup[l].present \subseteq Conns
    BY ONLY IInv, PresentTyped, Zenon
  <2>2. \A l \in Lookups :
            {c \in lookup'[l].present : pc'[c] \in Registered}
            = {c \in lookup[l].present : pc[c] \in Registered}
    BY ONLY <2>1, UNCHANGED lookup,
            \A c \in Conns : pc'[c] \in Registered <=> pc[c] \in Registered
  <2>3. \A l \in Lookups : Look(l)' = Look(l)
    BY ONLY <2>2, UNCHANGED lookup, Zenon DEF Look
  <2>4. QED BY ONLY <2>3, Zenon DEF Looks
<1>5. QED BY ONLY <1>2, <1>3, <1>4, Abstract, Zenon

(* The end of OnConnect's Upsert is an arrival.                            *)
LEMMA ArriveSeen ==
  ASSUME IInv, IInv', NEW c \in Conns, ConnectFirst(c) \/ ConnectAgain(c)
  PROVE  P!Next
<1>1. PresentIsRegistered /\ PresentIsRegistered'
  BY IInvPresent, PTL
<1>2. pc \in [Conns -> Phases]
  BY ONLY IInv, Zenon DEF IInv, TypeOK
<1>3. /\ pc[c] = "upsert" /\ pc' = [pc EXCEPT ![c] = "stored"]
      /\ UNCHANGED lookup
  BY ONLY ConnectFirst(c) \/ ConnectAgain(c), Zenon
  DEF ConnectFirst, ConnectAgain, Goto
<1>4. /\ \A d \in Conns : pc'[d] \in Registered <=> pc[d] \in Registered \/ d = c
      /\ \A d \in Conns :
             pc'[d] \in {"left", "gone"} <=> pc[d] \in {"left", "gone"}
      /\ pc[c] \notin Registered \cup {"left", "gone"} /\ pc[c] \in Arriving
  BY ONLY <1>2, <1>3, c \in Conns DEF Registered, Arriving
<1>5. c \notin Present \cup Left /\ Present' = Present \cup {c}
  BY ONLY <1>1, <1>4, c \in Conns DEF PresentIsRegistered, Left
<1>6. UNCHANGED Left
  BY ONLY <1>4 DEF Left
<1>7. UNCHANGED Looks
  <2>1. \A l \in Lookups : lookup[l].present \subseteq Conns \ {c}
    <3>1. LookupInv
      BY ONLY IInv, Zenon DEF IInv
    <3>2. \A l \in Lookups : lookup[l].present \subseteq Conns
      BY ONLY IInv, PresentTyped, Zenon
    <3>3. QED BY ONLY <1>4, <3>1, <3>2 DEF LookupInv
  <2>2. \A l \in Lookups :
            {d \in lookup'[l].present : pc'[d] \in Registered}
            = {d \in lookup[l].present : pc[d] \in Registered}
    BY ONLY <1>3, <1>4, <2>1
  <2>3. \A l \in Lookups : Look(l)' = Look(l)
    BY ONLY <1>3, <2>2, Zenon DEF Look
  <2>4. QED BY ONLY <2>3, Zenon DEF Looks
<1>8. QED BY ONLY <1>5, <1>6, <1>7, c \in Conns, Abstract, Zenon

(* The end of OnDisconnect's Upsert is a departure.                        *)
LEMMA LeaveSeen ==
  ASSUME IInv, IInv', NEW c \in Conns, DisconnectDrop(c)
  PROVE  P!Next
<1>1. PresentIsRegistered /\ PresentIsRegistered'
  BY IInvPresent, PTL
<1>2. pc \in [Conns -> Phases]
  BY ONLY IInv, Zenon DEF IInv, TypeOK
<1>3. /\ pc[c] = "drop" /\ pc' = [pc EXCEPT ![c] = "left"]
      /\ UNCHANGED lookup
  BY ONLY DisconnectDrop(c), Zenon DEF DisconnectDrop, Goto
<1>4. /\ \A d \in Conns : pc'[d] \in Registered <=> pc[d] \in Registered /\ d # c
      /\ \A d \in Conns :
             pc'[d] \in {"left", "gone"} <=> pc[d] \in {"left", "gone"} \/ d = c
      /\ pc[c] \in Registered
  BY ONLY <1>2, <1>3, c \in Conns DEF Registered
<1>5. c \in Present /\ Present' = Present \ {c}
  BY ONLY <1>1, <1>4, c \in Conns DEF PresentIsRegistered
<1>6. Left' = Left \cup {c}
  BY ONLY <1>4, c \in Conns DEF Left
<1>7. Looks' = [l \in Lookups |-> [Looks[l] EXCEPT !.must = @ \ {c}]]
  <2>1. \A l \in Lookups : lookup[l].present \subseteq Conns
    BY ONLY IInv, PresentTyped, Zenon
  <2>2. \A l \in Lookups :
            {d \in lookup'[l].present : pc'[d] \in Registered}
            = {d \in lookup[l].present : pc[d] \in Registered} \ {c}
    BY ONLY <1>3, <1>4, <2>1
  <2>3. ASSUME NEW l \in Lookups
        PROVE  Look(l)' = Less(Look(l), {c})
    <3> DEFINE got == lookup[l].pc = "got"
               must == IF got THEN {d \in lookup[l].present : pc[d] \in Registered}
                       ELSE {}
    <3>1. Look(l) = Row(got, lookup[l].user, must, lookup[l].result)
      BY ONLY Zenon DEF Look, Row
    <3>2. Look(l)' = Row(got, lookup[l].user, must \ {c}, lookup[l].result)
      <4>1. CASE got
        BY ONLY <1>3, <2>2, <4>1, l \in Lookups, Zenon DEF Look, Row
      <4>2. CASE ~got
        <5>1. {} \ {c} = {}
          BY ONLY Zenon
        <5>2. QED BY ONLY <1>3, <4>2, <5>1, Zenon DEF Look, Row
      <4>3. QED BY ONLY <4>1, <4>2, Zenon
    <3> HIDE DEF got, must
    <3>3. QED BY ONLY <3>1, <3>2, LessMust
  <2>4. QED BY ONLY <2>3, Zenon DEF Looks, Less
<1>8. QED BY ONLY <1>5, <1>6, <1>7, c \in Conns, Abstract, Zenon

(* Reading the map begins a look-up, or ends it when there is nobody.      *)
LEMMA AskSeen ==
  ASSUME IInv, IInv', NEW l \in Lookups, NEW u \in UserIDs, LookupGet(l, u)
  PROVE  P!Next
<1> DEFINE p == {c \in Conns : UserOf[c] = u /\ pc[c] \in Registered}
           row == [pc |-> IF users[u] = None THEN "done" ELSE "got",
                   user |-> u, rec |-> users[u], present |-> p, result |-> {}]
<1>0. /\ PresentIsRegistered /\ PresentIsRegistered'
      /\ lookup \in [Lookups -> LookupStates]
  BY IInvPresent, PTL DEF IInv, TypeOK
<1>1. /\ lookup' = [lookup EXCEPT ![l] = row] /\ UNCHANGED pc
      /\ lookup[l].pc # "got"
  BY ONLY LookupGet(l, u), Zenon DEF LookupGet
<1>2. UNCHANGED <<Present, Left>>
  BY ONLY <1>0, <1>1 DEF PresentIsRegistered, Left
<1>3. P!PresentOf(u) = p
  BY ONLY <1>0 DEF P!PresentOf, PresentIsRegistered
<1>4. users[u] = None => p = {}
  <2>1. RegisteredOnce /\ bound \in [Conns -> Records] /\ None \notin Records
    BY ONLY IInv, UsersAssumption, Zenon DEF IInv, TypeOK, Records, UsersAssumption
  <2>2. QED BY ONLY <2>1 DEF RegisteredOnce
<1>5. {c \in p : pc[c] \in Registered} = p
  BY ONLY Zenon
<1> HIDE DEF p
<1>6. /\ row.pc = (IF users[u] = None THEN "done" ELSE "got")
      /\ row.user = u /\ row.present = p /\ row.result = {}
  BY ONLY DEF row
<1> HIDE DEF row
<1>7. lookup'[l] = row /\ \A k \in Lookups : k # l => lookup'[k] = lookup[k]
  BY ONLY <1>0, <1>1, l \in Lookups
<1>8. ~Looks[l].busy
  BY ONLY <1>1, l \in Lookups, Zenon DEF Looks, Look
<1>9. \A k \in Lookups : k # l => Look(k)' = Look(k)
  BY ONLY <1>1, <1>7, Zenon DEF Look
<1>10. ASSUME NEW r, Look(l)' = r PROVE Looks' = [Looks EXCEPT ![l] = r]
  BY ONLY <1>9, <1>10, l \in Lookups, Zenon DEF Looks
<1>11. CASE users[u] = None
  <2>1. Look(l)' = [busy |-> FALSE, user |-> u, must |-> {}, result |-> {}]
    <3>1. (row.pc = "got") = FALSE
      BY ONLY <1>6, <1>11
    <3>2. QED BY ONLY <1>6, <1>7, <3>1, Zenon DEF Look
  <2>2. P!Found(l, u, {})
    BY ONLY <1>10, <2>1, Zenon DEF P!Found, Looks
  <2>3. P!PresentOf(u) = {}
    BY ONLY <1>3, <1>4, <1>11, Zenon
  <2>4. QED
    BY ONLY <1>2, <1>8, <2>2, <2>3, l \in Lookups, u \in UserIDs, Abstract, Zenon
<1>12. CASE users[u] # None
  <2>1. Look(l)' = [busy |-> TRUE, user |-> u, must |-> P!PresentOf(u),
                    result |-> {}]
    <3>1. (row.pc = "got") = TRUE
      BY ONLY <1>6, <1>12
    <3>2. QED BY ONLY <1>1, <1>3, <1>5, <1>6, <1>7, <3>1, Zenon DEF Look
  <2>2. Looks' = [Looks EXCEPT ![l] = [busy |-> TRUE, user |-> u,
                                       must |-> P!PresentOf(u), result |-> {}]]
    BY ONLY <1>10, <2>1, Zenon
  <2>3. QED
    BY ONLY <1>2, <1>8, <2>2, l \in Lookups, u \in UserIDs, Abstract, Zenon
<1>13. QED BY ONLY <1>11, <1>12, Zenon

(* Copying the record's slice ends a look-up.                              *)
LEMMA AnswerSeen ==
  ASSUME IInv, IInv', NEW l \in Lookups, LookupCopy(l)
  PROVE  P!Next
<1> DEFINE r == lookup[l].rec
           S == Members(conns[r])
<1>0. /\ PresentIsRegistered /\ PresentIsRegistered'
      /\ lookup \in [Lookups -> LookupStates]
  BY IInvPresent, PTL DEF IInv, TypeOK
<1>1. /\ lookup' = [lookup EXCEPT ![l].pc = "done", ![l].result = S]
      /\ UNCHANGED pc /\ lookup[l].pc = "got"
  BY ONLY LookupCopy(l), Zenon DEF LookupCopy
<1>2. UNCHANGED <<Present, Left>>
  BY ONLY <1>0, <1>1 DEF PresentIsRegistered, Left
<1>3. r \in Conns /\ UserOf[r] = lookup[l].user
  BY ONLY IInv, <1>1, l \in Lookups, Zenon DEF IInv, LookupInv
<1>4. S \subseteq P!PresentOf(lookup[l].user)
  <2>1. \A c \in Conns : conns[r][c] > 0 => pc[c] \in Registered /\ r = bound[c]
    BY ONLY IInv, <1>3 DEF IInv, RegisteredOnce, Records
  <2>2. \A c \in Conns : conns[r][c] > 0 => UserOf[c] = UserOf[r]
    <3>1. RegisteredOnce /\ MapInv
      BY ONLY IInv, Zenon DEF IInv
    <3>2. None \notin Conns /\ UserOf \in [Conns -> UserIDs]
      BY ONLY UsersAssumption, Zenon DEF UsersAssumption
    <3>3. QED BY ONLY <1>3, <2>1, <3>1, <3>2 DEF RegisteredOnce, MapInv
  <2>3. QED
    BY ONLY <1>0, <1>3, <2>1, <2>2 DEF P!PresentOf, PresentIsRegistered, Members
<1>5. {c \in lookup[l].present : pc[c] \in Registered} \subseteq S
  <2>1. lookup[l].present \subseteq Conns
    BY ONLY IInv, l \in Lookups, PresentTyped, Zenon
  <2>2. RegisteredOnce /\ LookupInv
    BY ONLY IInv, Zenon DEF IInv
  <2>3. QED
    BY ONLY <1>1, <1>3, <2>1, <2>2, l \in Lookups
    DEF LookupInv, RegisteredOnce, Members
<1> HIDE DEF S, r
<1>6. /\ lookup'[l].pc = "done" /\ lookup'[l].user = lookup[l].user
      /\ lookup'[l].result = S
      /\ \A k \in Lookups : k # l => lookup'[k] = lookup[k]
  BY ONLY <1>0, <1>1, l \in Lookups DEF LookupStates
<1>7. /\ Looks[l].busy /\ Looks[l].user = lookup[l].user
      /\ Looks[l].must = {c \in lookup[l].present : pc[c] \in Registered}
  BY ONLY <1>1, l \in Lookups, Zenon DEF Looks, Look
<1>8. Look(l)' = [busy |-> FALSE, user |-> lookup[l].user, must |-> {},
                  result |-> S]
  <2>1. (lookup'[l].pc = "got") = FALSE
    BY ONLY <1>6
  <2>2. QED BY ONLY <1>6, <2>1, Zenon DEF Look
<1>9. \A k \in Lookups : k # l => Look(k)' = Look(k)
  BY ONLY <1>1, <1>6, Zenon DEF Look
<1>10. ASSUME NEW x, Look(l)' = x PROVE Looks' = [Looks EXCEPT ![l] = x]
  BY ONLY <1>9, <1>10, l \in Lookups, Zenon DEF Looks
<1>11. P!Found(l, Looks[l].user, S)
  BY ONLY <1>7, <1>8, <1>10, Zenon DEF P!Found, Looks
<1>12. QED
  BY ONLY <1>2, <1>4, <1>5, <1>7, <1>11, l \in Lookups, Abstract, Zenon

(* Every step is a step of Presence or is not seen there.                  *)
LEMMA StepPresence ==
  ASSUME IInv, IInv', [Next]_vars
  PROVE  P!Next \/ UNCHANGED P!pvars
<1> DEFINE Goal == P!Next \/ UNCHANGED P!pvars
<1>0. pc \in [Conns -> Phases]
  BY ONLY IInv, Zenon DEF IInv, TypeOK
<1>1. ASSUME UNCHANGED <<pc, lookup>> PROVE Goal
  BY ONLY IInv, IInv', <1>1, NotSeen, Zenon
<1>2. ASSUME NEW c \in Conns, ConnStep(c) \/ EndOfRead(c) PROVE Goal
  <2>1. CASE Serve(c) \/ LockOwnRecord(c) \/ ConnectEnter(c)
             \/ UnlockOwnRecord(c) \/ SendHello(c) \/ EndOfRead(c)
             \/ DisconnectEnter(c) \/ Unserve(c)
    <3>1. UNCHANGED lookup
      BY ONLY <2>1, Zenon
      DEF Serve, LockOwnRecord, ConnectEnter, UnlockOwnRecord, SendHello,
          EndOfRead, DisconnectEnter, Unserve
    <3>2. \E from, to \in Phases :
              /\ pc[c] = from /\ pc' = [pc EXCEPT ![c] = to]
              /\ from \in Registered <=> to \in Registered
              /\ from \in {"left", "gone"} <=> to \in {"left", "gone"}
      BY ONLY <2>1
      DEF Serve, LockOwnRecord, ConnectEnter, UnlockOwnRecord, SendHello,
          EndOfRead, DisconnectEnter, Unserve, Goto, Registered, Phases
    <3>3. \A d \in Conns :
              /\ pc'[d] \in Registered <=> pc[d] \in Registered
              /\ pc'[d] \in {"left", "gone"} <=> pc[d] \in {"left", "gone"}
      BY ONLY <1>0, <3>2
    <3>4. QED BY ONLY IInv, IInv', <3>1, <3>3, NotSeen, Zenon
  <2>2. CASE ConnectFirst(c) \/ ConnectAgain(c)
    BY ONLY IInv, IInv', c \in Conns, <2>2, ArriveSeen, Zenon
  <2>3. CASE DisconnectDrop(c)
    BY ONLY IInv, IInv', c \in Conns, <2>3, LeaveSeen, Zenon
  <2>4. QED BY ONLY <1>2, <2>1, <2>2, <2>3, Zenon DEF ConnStep
<1>3. CASE PurgeStep
  <2>1. UNCHANGED <<pc, lookup>>
    BY ONLY <1>3, ZenonT(40)
    DEF PurgeStep, PurgeStart, PurgeSnapshot, PurgeScan, PurgeLock, PurgeRemove,
        PurgeEnd
  <2>2. QED BY ONLY <1>1, <2>1, Zenon
<1>4. ASSUME NEW l \in Lookups, LookupStep(l) PROVE Goal
  BY ONLY IInv, IInv', <1>4, AskSeen, AnswerSeen, Zenon DEF LookupStep
<1>5. CASE UNCHANGED vars
  BY ONLY <1>1, <1>5 DEF vars
<1>6. QED BY ONLY [Next]_vars, <1>2, <1>3, <1>4, <1>5, Zenon DEF Next

(* The user table implements Presence, for any number of connections,      *)
(* users, shards and look-ups.                                             *)
THEOREM UsersImplementPresence == Spec => ImplementsPresence
<1>1. Init => P!Init
  <2> SUFFICES ASSUME Init PROVE P!Init
    BY Zenon
  <2>1. Present = {} /\ Left = {}
    <3>1. /\ pc = [c \in Conns |-> "accepted"] /\ users = [u \in UserIDs |-> None]
          /\ UserOf \in [Conns -> UserIDs]
      BY ONLY Init, UsersAssumption, Zenon DEF Init, UsersAssumption
    <3>2. QED BY ONLY <3>1 DEF Present, Left
  <2>2. \A l \in Lookups :
            Look(l) = [busy |-> FALSE, user |-> None, must |-> {}, result |-> {}]
    <3> SUFFICES ASSUME NEW l \in Lookups
                 PROVE  Look(l) = [busy |-> FALSE, user |-> None, must |-> {},
                                   result |-> {}]
      BY Zenon
    <3>1. lookup[l] = [pc |-> "idle", user |-> None, rec |-> None,
                       present |-> {}, result |-> {}]
      BY ONLY Init, l \in Lookups, Zenon DEF Init
    <3>2. /\ (lookup[l].pc = "got") = FALSE
          /\ lookup[l].user = None /\ lookup[l].result = {}
      BY ONLY <3>1
    <3>3. QED BY ONLY <3>2, Zenon DEF Look
  <2>3. QED BY ONLY <2>1, <2>2, Zenon DEF P!Init
<1>2. IInv /\ IInv' /\ [Next]_vars => [P!Next]_(P!pvars)
  BY StepPresence
<1>3. QED
  BY <1>1, <1>2, UsersInvariant, PTL DEF Spec, ImplementsPresence, P!Spec

-----------------------------------------------------------------------------
(* Who waits for whom.                                                     *)

(* The three parts of LockInv.                                             *)
RecordLocks ==
  \A r \in Records : recLock[r] # None =>
      \/ r \in Conns /\ recLock[r] = r /\ pc[r] \in {"own", "upsert", "stored"}
      \/ recLock[r] = Purger /\ purge.pc = "remove" /\ purge.at = r

ShardLocks ==
  \A c \in Conns, s \in Shards :
      shardLock[s] = c <=> pc[c] \in {"upsert", "drop"} /\ ShardOfConn(c) = s

StoredLate == \A u \in UserIDs : users[u] \in Conns => pc[users[u]] \notin Arriving

(* What a step of a connection does to the locks and the map.              *)
LEMMA ConnLocks ==
  ASSUME NEW c \in Conns, ConnStep(c) \/ EndOfRead(c)
  PROVE  /\ UNCHANGED purge
         /\ \/ /\ \/ Goto(c, "accepted", "connect") \/ Goto(c, "hello", "reading")
                  \/ Goto(c, "reading", "closed") \/ Goto(c, "left", "gone")
               /\ UNCHANGED <<users, recLock, shardLock>>
            \/ /\ Goto(c, "connect", "own")
               /\ recLock' = [recLock EXCEPT ![c] = c]
               /\ UNCHANGED <<users, shardLock>>
            \/ /\ Goto(c, "own", "upsert") \/ Goto(c, "closed", "drop")
               /\ shardLock[ShardOfConn(c)] = None
               /\ shardLock' = [shardLock EXCEPT ![ShardOfConn(c)] = c]
               /\ UNCHANGED <<users, recLock>>
            \/ /\ \/ /\ Goto(c, "upsert", "stored")
                     /\ users' = users \/ users' = [users EXCEPT ![UserOf[c]] = c]
                  \/ /\ Goto(c, "drop", "left")
                     /\ users' = users \/ users' = [users EXCEPT ![UserOf[c]] = Stray]
               /\ shardLock' = [shardLock EXCEPT ![ShardOfConn(c)] = None]
               /\ UNCHANGED recLock
            \/ /\ Goto(c, "stored", "hello")
               /\ recLock' = [recLock EXCEPT ![c] = None]
               /\ UNCHANGED <<users, shardLock>>
<1>1. CASE Serve(c) \/ SendHello(c) \/ EndOfRead(c) \/ Unserve(c)
  BY <1>1, Zenon DEF Serve, SendHello, EndOfRead, Unserve
<1>2. CASE LockOwnRecord(c) \/ UnlockOwnRecord(c)
  BY <1>2, Zenon DEF LockOwnRecord, UnlockOwnRecord
<1>3. CASE ConnectEnter(c) \/ DisconnectEnter(c)
  BY <1>3, Zenon DEF ConnectEnter, DisconnectEnter
<1>4. CASE ConnectFirst(c) \/ ConnectAgain(c)
  BY <1>4, Zenon DEF ConnectFirst, ConnectAgain
<1>5. CASE DisconnectDrop(c)
  BY <1>5, Zenon DEF DisconnectDrop
<1>6. QED BY <1>1, <1>2, <1>3, <1>4, <1>5, Zenon DEF ConnStep

(* The steps of a connection keep what is said of the records' locks.      *)
LEMMA ConnRecordLocks ==
  ASSUME TypeOK, RecordLocks, NEW c \in Conns, ConnStep(c) \/ EndOfRead(c)
  PROVE  RecordLocks'
<1>0. /\ pc \in [Conns -> Phases] /\ recLock \in [Records -> Conns \cup {Purger, None}]
      /\ Conns \subseteq Records
  BY DEF TypeOK, Records
<1>1. UNCHANGED purge
  BY ConnLocks, Zenon
<1>2. /\ \A d \in Conns : d # c => pc'[d] = pc[d]
      /\ \A r \in Records : r # c => recLock'[r] = recLock[r]
      /\ \/ recLock'[c] = None
         \/ recLock'[c] = c /\ pc'[c] = "own"
         \/ /\ recLock'[c] = recLock[c]
            /\ pc[c] \in {"own", "upsert", "stored"} =>
                   pc'[c] \in {"own", "upsert", "stored"}
  BY ONLY c \in Conns, ConnStep(c) \/ EndOfRead(c), <1>0, ConnLocks DEF Goto
<1>3. QED BY ONLY RecordLocks, c \in Conns, <1>1, <1>2 DEF RecordLocks

(* They keep what is said of the shards' locks.                            *)
LEMMA ConnShardLocks ==
  ASSUME TypeOK, ShardLocks, NEW c \in Conns, ConnStep(c) \/ EndOfRead(c)
  PROVE  ShardLocks'
<1>0. /\ pc \in [Conns -> Phases] /\ shardLock \in [Shards -> Conns \cup {None}]
      /\ ShardOfConn(c) \in Shards /\ None \notin Conns
  BY UsersAssumption DEF TypeOK, ShardOfConn
<1>1. /\ \A d \in Conns : d # c => pc'[d] = pc[d]
      /\ \/ /\ shardLock[ShardOfConn(c)] = None /\ pc'[c] \in {"upsert", "drop"}
            /\ shardLock' = [shardLock EXCEPT ![ShardOfConn(c)] = c]
         \/ /\ pc[c] \in {"upsert", "drop"} /\ pc'[c] \notin {"upsert", "drop"}
            /\ shardLock' = [shardLock EXCEPT ![ShardOfConn(c)] = None]
         \/ /\ pc[c] \notin {"upsert", "drop"} /\ pc'[c] \notin {"upsert", "drop"}
            /\ shardLock' = shardLock
  BY ONLY c \in Conns, ConnStep(c) \/ EndOfRead(c), <1>0, ConnLocks DEF Goto
<1>2. ASSUME NEW d \in Conns, NEW s \in Shards
      PROVE  (shardLock'[s] = d) <=> (pc'[d] \in {"upsert", "drop"} /\ ShardOfConn(d) = s)
  <2>1. (shardLock[s] = d) <=> (pc[d] \in {"upsert", "drop"} /\ ShardOfConn(d) = s)
    BY ONLY ShardLocks, <1>2, Zenon DEF ShardLocks
  <2>2. pc[c] \in {"upsert", "drop"} <=> shardLock[ShardOfConn(c)] = c
    BY ONLY ShardLocks, c \in Conns, <1>0, Zenon DEF ShardLocks
  <2>3. QED
    BY ONLY <1>0, <1>1, <2>1, <2>2, c \in Conns, d \in Conns, s \in Shards, SMTT(40)
<1>3. QED BY ONLY <1>2, Zenon DEF ShardLocks, ShardOfConn

(* They keep what is said of the map.                                      *)
LEMMA ConnStored ==
  ASSUME TypeOK, StoredLate, NEW c \in Conns, ConnStep(c) \/ EndOfRead(c)
  PROVE  StoredLate'
<1>0. /\ pc \in [Conns -> Phases] /\ users \in [UserIDs -> Records \cup {None}]
      /\ Stray \notin Conns /\ UserOf[c] \in UserIDs
  BY UsersAssumption DEF TypeOK
<1>1. /\ \A d \in Conns : d # c => pc'[d] = pc[d]
      /\ pc[c] \notin Arriving => pc'[c] \notin Arriving
      /\ \A u \in UserIDs : \/ users'[u] = users[u] \/ users'[u] = Stray
                            \/ users'[u] = c /\ pc'[c] \notin Arriving
  BY ONLY c \in Conns, ConnStep(c) \/ EndOfRead(c), <1>0, ConnLocks
  DEF Goto, Arriving
<1>2. QED BY ONLY StoredLate, c \in Conns, <1>0, <1>1 DEF StoredLate

(* So do the steps of the cleanup.                                         *)
LEMMA PurgeLocks ==
  ASSUME IInv, RecordLocks, ShardLocks, StoredLate, PurgeStep
  PROVE  RecordLocks' /\ ShardLocks' /\ StoredLate'
<1>0. /\ recLock \in [Records -> Conns \cup {Purger, None}]
      /\ users \in [UserIDs -> Records \cup {None}] /\ purge \in PurgeStates
      /\ None \notin Conns /\ None # Purger /\ PurgeInv
  BY UsersAssumption DEF IInv, TypeOK
<1>1. UNCHANGED <<pc, shardLock>>
  BY Zenon DEF PurgeStep, PurgeStart, PurgeSnapshot, PurgeScan, PurgeLock,
     PurgeRemove, PurgeEnd
<1>2. \A u \in UserIDs : users'[u] = users[u] \/ users'[u] = None
  <2>1. users' = users \/ users' = [users EXCEPT ![UserOf[purge.at]] = None]
    BY Zenon DEF PurgeStep, PurgeStart, PurgeSnapshot, PurgeScan, PurgeLock,
       PurgeRemove, PurgeEnd
  <2>2. QED BY ONLY <1>0, <2>1
<1>3. ShardLocks' /\ StoredLate'
  BY ONLY ShardLocks, StoredLate, <1>0, <1>1, <1>2
  DEF ShardLocks, StoredLate, ShardOfConn, Arriving
<1>4. ASSUME UNCHANGED recLock, purge.pc # "remove" PROVE RecordLocks'
  BY ONLY RecordLocks, <1>1, <1>4, UNCHANGED <<pc, recLock>> DEF RecordLocks
<1>5. ASSUME NEW r \in Records, PurgeLock(r) PROVE RecordLocks'
  <2>1. CASE UNCHANGED recLock
    BY <1>4, <1>5, <2>1 DEF PurgeLock
  <2>2. CASE /\ purge' = [purge EXCEPT !.pc = "remove", !.at = r]
             /\ recLock' = [recLock EXCEPT ![r] = Purger]
    <3>1. purge'.pc = "remove" /\ purge'.at = r
      BY ONLY <1>0, <2>2 DEF PurgeStates
    <3>2. purge.pc # "remove"
      BY <1>5 DEF PurgeLock
    <3>3. QED BY ONLY RecordLocks, <1>0, <1>1, <2>2, <3>1, <3>2 DEF RecordLocks
  <2>3. QED BY ONLY <1>5, <2>1, <2>2, Zenon DEF PurgeLock
<1>6. CASE PurgeRemove
  <2>1. /\ purge.pc = "remove"
        /\ recLock' = [recLock EXCEPT ![purge.at] = None]
    BY <1>6, Zenon DEF PurgeRemove
  <2>2. ASSUME NEW r \in Records, recLock'[r] # None
        PROVE  r \in Conns /\ recLock'[r] = r /\ pc'[r] \in {"own", "upsert", "stored"}
    <3>1. r # purge.at /\ recLock'[r] = recLock[r]
      BY ONLY <1>0, <2>1, <2>2
    <3>2. QED BY ONLY RecordLocks, <1>1, <2>2, <3>1 DEF RecordLocks
  <2>3. QED BY ONLY <1>3, <2>2, Zenon DEF RecordLocks
<1>7. CASE \/ PurgeStart \/ PurgeEnd
           \/ \E s \in Shards : PurgeSnapshot(s)
           \/ \E r \in Records, expired \in BOOLEAN : PurgeScan(r, expired)
  <2>1. UNCHANGED recLock
    BY <1>7, Zenon DEF PurgeStart, PurgeEnd, PurgeSnapshot, PurgeScan
  <2>2. purge.pc # "remove"
    <3>1. \/ purge.pc = "idle" \/ purge.pc = "work"
          \/ (\E s \in Shards : s \in purge.shards)
          \/ (\E r \in Records : r \in purge.todo)
      BY ONLY <1>7, Zenon DEF PurgeStart, PurgeEnd, PurgeSnapshot, PurgeScan
    <3>2. QED BY ONLY <1>0, <3>1 DEF PurgeInv
  <2>3. QED BY <1>3, <1>4, <2>1, <2>2
<1>8. QED BY ONLY PurgeStep, <1>3, <1>5, <1>6, <1>7, Zenon DEF PurgeStep

(* LockInv holds in every reachable state.                                 *)
LEMMA UsersLocks == Spec => []LockInv
<1>0. LockInv <=> RecordLocks /\ ShardLocks /\ StoredLate
  BY Zenon DEF LockInv, RecordLocks, ShardLocks, StoredLate
<1>1. Init => RecordLocks /\ ShardLocks /\ StoredLate
  BY UsersAssumption DEF Init, RecordLocks, ShardLocks, StoredLate
<1>2. ASSUME IInv, RecordLocks, ShardLocks, StoredLate, [Next]_vars
      PROVE  RecordLocks' /\ ShardLocks' /\ StoredLate'
  <2>0. TypeOK
    BY <1>2 DEF IInv
  <2>1. ASSUME NEW c \in Conns, ConnStep(c) \/ EndOfRead(c)
        PROVE  RecordLocks' /\ ShardLocks' /\ StoredLate'
    BY ONLY <1>2, <2>0, <2>1, ConnRecordLocks, ConnShardLocks, ConnStored, Zenon
  <2>2. CASE PurgeStep
    BY ONLY <1>2, <2>2, PurgeLocks, Zenon
  <2>3. CASE UNCHANGED <<pc, users, recLock, shardLock, purge>>
    BY <1>2, <2>3 DEF RecordLocks, ShardLocks, StoredLate, ShardOfConn
  <2>4. ASSUME NEW l \in Lookups, LookupStep(l)
        PROVE  UNCHANGED <<pc, users, recLock, shardLock, purge>>
    BY <2>4, Zenon DEF LookupStep, LookupCopy, LookupGet
  <2>5. UNCHANGED vars => UNCHANGED <<pc, users, recLock, shardLock, purge>>
    BY Zenon DEF vars
  <2>6. QED BY ONLY <1>2, <2>1, <2>2, <2>3, <2>4, <2>5, Zenon DEF Next
<1>3. QED BY <1>0, <1>1, <1>2, UsersInvariant, PTL DEF Spec

(* The circle of an Upsert that waits for a record and the cleanup that    *)
(* waits, with that record locked, for the shard is the only one: whatever *)
(* else waits for a shard or a record waits for someone who can go on.     *)
THEOREM UsersOnlyPurgeBlocks == Spec => []OnlyPurgeBlocks
<1>1. ASSUME TypeOK, MapInv, LockInv PROVE OnlyPurgeBlocks
  <2> DEFINE Waits(c, ur, s) ==
        /\ pc[c] \in {"upsert", "drop"} /\ ShardOfConn(c) = s
        /\ ur # None /\ recLock[ur] # None =>
             \/ recLock[ur] \in Conns /\ pc[recLock[ur]] = "stored"
             \/ purge.pc = "remove" /\ purge.at = ur
  <2> SUFFICES ASSUME NEW s \in Shards, shardLock[s] # None,
                      NEW c, c = shardLock[s], NEW ur, ur = users[UserOf[c]]
               PROVE  Waits(c, ur, s)
    <3>1. \A s \in Shards : shardLock[s] # None =>
              Waits(shardLock[s], users[UserOf[shardLock[s]]], s)
      OBVIOUS
    <3>2. QED BY ONLY <3>1, Zenon DEF OnlyPurgeBlocks
  <2>1. c \in Conns
    BY <1>1 DEF TypeOK
  <2>2. pc[c] \in {"upsert", "drop"} /\ ShardOfConn(c) = s
    BY <1>1, <2>1, Zenon DEF LockInv
  <2>3. ASSUME ur # None, recLock[ur] # None
        PROVE  \/ recLock[ur] \in Conns /\ pc[recLock[ur]] = "stored"
               \/ purge.pc = "remove" /\ purge.at = ur
    <3>1. UserOf[c] \in UserIDs
      BY <2>1, UsersAssumption
    <3>2. ur \in Conns /\ ur \in Records /\ pc[ur] \notin Arriving
      BY <1>1, <2>3, <3>1 DEF MapInv, LockInv, Records
    <3>3. \/ recLock[ur] = ur /\ pc[ur] \in {"own", "upsert", "stored"}
          \/ purge.pc = "remove" /\ purge.at = ur
      BY ONLY <1>1, <2>3, <3>2, Zenon DEF LockInv
    <3>4. QED BY ONLY <3>2, <3>3 DEF Arriving
  <2>4. QED BY <2>2, <2>3
<1>2. IInv => TypeOK /\ MapInv
  BY ONLY Zenon DEF IInv
<1>3. QED BY <1>1, <1>2, UsersInvariant, UsersLocks, PTL

=============================================================================
