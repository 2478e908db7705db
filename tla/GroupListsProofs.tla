-------------------------- MODULE GroupListsProofs --------------------------
(* Proofs of the safety properties of GroupLists, for any users, any       *)
(* connections of them and any number of changes and resets.               *)
EXTENDS GroupLists, TLAPS

(* A leaf that names no prover is for the SMT solver.                       *)
USE SMTT(40)

(* The task of the next change of a user is a task, of that user.            *)
LEMMA ChangeTask ==
    ASSUME NEW u \in UserIDs, TypeOK, changes[u] < MaxChanges[u]
    PROVE  /\ <<u, changes[u] + 1>> \in Tasks
           /\ <<u, changes[u] + 1>>[1] = u
  <1>1. changes[u] \in Nat /\ MaxChanges[u] \in Nat
    BY GroupListsAssumption DEF TypeOK
  <1>2. changes[u] + 1 \in 1 .. MaxChanges[u]
    BY <1>1
  <1>3. <<u, changes[u] + 1>> \in ChangeTasks(u)
    BY <1>2 DEF ChangeTasks
  <1>4. ChangeTasks(u) \subseteq Tasks
    BY DEF Tasks
  <1> QED
    BY <1>3, <1>4

(* The task of the next reset is a task, of no user.                       *)
LEMMA ResetTask ==
    ASSUME TypeOK, resets < MaxResets
    PROVE  /\ <<None, resets + 1>> \in Tasks
           /\ <<None, resets + 1>>[1] = None
  <1>1. resets + 1 \in 1 .. MaxResets
    BY GroupListsAssumption DEF TypeOK
  <1>2. <<None, resets + 1>> \in ResetTasks
    BY <1>1 DEF ResetTasks
  <1>3. ResetTasks \subseteq Tasks
    BY DEF Tasks
  <1> QED
    BY <1>2, <1>3

(* The inductive invariant holds at first.                                 *)
LEMMA InitIInv == Init => IInv
  <1> SUFFICES ASSUME Init PROVE IInv
    OBVIOUS
  <1>1. TypeOK
    BY GroupListsAssumption DEF Init, TypeOK, Members
  <1>2. ListInv
    BY DEF Init, ListInv, Listeners, Members
  <1> QED
    BY <1>1, <1>2 DEF IInv

(* What the start of a goroutine does to the counters.                     *)
LEMMA SpawnTypes ==
    ASSUME NEW u \in UserIDs, TypeOK, Spawn(u)
    PROVE  /\ changes' \in [UserIDs -> Nat]
           /\ pc' \in [Tasks -> {"no", "read", "loop", "done"}]
           /\ \E t \in Tasks : t[1] = u /\ pc'[t] = "read"
           /\ \A t \in Tasks : pc[t] = "read" => pc'[t] = "read"
  <1>1. /\ <<u, changes[u] + 1>> \in Tasks
        /\ <<u, changes[u] + 1>>[1] = u
    BY ChangeTask DEF Spawn
  <1> DEFINE t == <<u, changes[u] + 1>>
  <1>2. pc' = [pc EXCEPT ![t] = "read"] /\ changes' = [changes EXCEPT ![u] = @ + 1]
    BY DEF Spawn
  <1>3. /\ pc \in [Tasks -> {"no", "read", "loop", "done"}]
        /\ changes \in [UserIDs -> Nat]
    BY DEF TypeOK
  <1>4. t \in Tasks /\ t[1] = u
    BY <1>1
  <1> HIDE DEF t
  <1>5. pc'[t] = "read"
    BY <1>2, <1>3, <1>4
  <1>6. pc' \in [Tasks -> {"no", "read", "loop", "done"}]
    BY <1>2, <1>3, <1>4
  <1>7. changes' \in [UserIDs -> Nat]
    BY <1>2, <1>3
  <1>8. \A v \in Tasks : pc[v] = "read" => pc'[v] = "read"
    BY <1>2, <1>3, <1>4
  <1> QED
    BY <1>4, <1>5, <1>6, <1>7, <1>8

(* What Channel.Add does to who is there.                                  *)
LEMMA AddPlace ==
    ASSUME TypeOK, NEW c \in Conns, Add(c)
    PROVE  /\ \A v \in UserIDs : connections'[v] = IF v = UserOf[c] THEN c ELSE connections[v]
           /\ connections' \in [UserIDs -> (Conns \ gone') \cup {None}]
           /\ \A v \in Members' : UserOf[connections'[v]] = v
  <1>1. UserOf[c] \in UserIDs /\ c \in Conns \cup {None}
    BY GroupListsAssumption
  <1>2. /\ connections' = [connections EXCEPT ![UserOf[c]] = c]
        /\ gone' = gone /\ c \notin gone
    BY DEF Add
  <1>3. \A v \in UserIDs : connections'[v] = IF v = UserOf[c] THEN c ELSE connections[v]
    BY <1>1, <1>2 DEF TypeOK
  <1>4. connections' \in [UserIDs -> (Conns \ gone') \cup {None}]
    BY <1>1, <1>2 DEF TypeOK
  <1>5. \A v \in Members' : UserOf[connections'[v]] = v
    BY <1>3 DEF Members, TypeOK
  <1> QED
    BY <1>3, <1>4, <1>5

(* The removal of the user of c, by a hangup or when c is closed.          *)
Freed(c) ==
    /\ connections' = [connections EXCEPT ![UserOf[c]] = None]
    /\ gone' = gone \/ gone' = gone \cup {c}

(* What a removal does to who is there.                                    *)
LEMMA FreePlace ==
    ASSUME TypeOK, NEW c \in Conns, Freed(c)
    PROVE  /\ \A v \in UserIDs : connections'[v] = IF v = UserOf[c] THEN None ELSE connections[v]
           /\ connections' \in [UserIDs -> (Conns \ gone') \cup {None}]
           /\ \A v \in Members' : UserOf[connections'[v]] = v
  <1>1. UserOf[c] \in UserIDs /\ None \in Conns \cup {None} /\ None \notin Conns
    BY GroupListsAssumption
  <1>2. \A v \in UserIDs \ {UserOf[c]} : connections[v] \notin gone' \ gone
    BY <1>1 DEF TypeOK, Members, Freed
  <1>3. \A v \in UserIDs : connections'[v] = IF v = UserOf[c] THEN None ELSE connections[v]
    BY <1>1 DEF TypeOK, Freed
  <1>4. connections' \in [UserIDs -> (Conns \ gone') \cup {None}]
    BY <1>1, <1>2, <1>3 DEF TypeOK, Freed
  <1>5. \A v \in Members' : UserOf[connections'[v]] = v
    BY <1>3 DEF Members, TypeOK
  <1> QED
    BY <1>3, <1>4, <1>5

(* Every step keeps the types.                                             *)
LEMMA TypeStep == TypeOK /\ [Next]_vars => TypeOK'
  <1> SUFFICES ASSUME TypeOK, [Next]_vars PROVE TypeOK'
    OBVIOUS
  <1>u. \A c \in Conns : UserOf[c] \in UserIDs
    BY GroupListsAssumption
  <1>1. ASSUME NEW c \in Conns, Join(c) \/ Accept(c) PROVE TypeOK'
    <2>1. Add(c)
      BY <1>1 DEF Join, Accept
    <2>2. /\ changes' \in [UserIDs -> Nat]
          /\ pc' \in [Tasks -> {"no", "read", "loop", "done"}]
      BY <2>1, <1>u, SpawnTypes DEF Add
    <2>3. joining' \subseteq Conns /\ silent' \subseteq Conns
      BY <1>1 DEF Join, Accept, Own, TypeOK
    <2>4. sent' \subseteq Conns /\ UNCHANGED <<resets, gone, listed, todo>>
      BY <2>1 DEF Add, TypeOK
    <2> QED
      BY <2>1, <2>2, <2>3, <2>4, AddPlace DEF TypeOK
  <1>2. ASSUME NEW c \in Conns, JoinReply(c) PROVE TypeOK'
    BY <1>2 DEF JoinReply, Deliver, TypeOK, Members, taskVars
  <1>3. ASSUME NEW c \in Conns, Leave(c) PROVE TypeOK'
    <2>1. /\ changes' \in [UserIDs -> Nat]
          /\ pc' \in [Tasks -> {"no", "read", "loop", "done"}]
      BY <1>3, <1>u, SpawnTypes DEF Leave
    <2>2. /\ silent' \subseteq Conns /\ sent' \subseteq Conns
          /\ UNCHANGED <<resets, joining, gone, listed, todo>>
      BY <1>3 DEF Leave, Own, TypeOK
    <2>3. Freed(c)
      BY <1>3, Zenon DEF Leave, Freed
    <2> QED
      BY <2>1, <2>2, <2>3, FreePlace DEF TypeOK
  <1>4. ASSUME NEW c \in Conns, Closed(c) PROVE TypeOK'
    <2>1. gone' = gone \cup {c} /\ UNCHANGED <<resets, joining, listed, todo>>
      BY <1>4 DEF Closed
    <2>2. CASE connections[UserOf[c]] = c
      <3>1. /\ connections' = [connections EXCEPT ![UserOf[c]] = None]
            /\ sent' = {} /\ silent' = Own(silent, UserOf[c]) /\ Spawn(UserOf[c])
        BY <1>4, <2>2 DEF Closed
      <3>2. /\ changes' \in [UserIDs -> Nat]
            /\ pc' \in [Tasks -> {"no", "read", "loop", "done"}]
        BY <3>1, <1>u, SpawnTypes
      <3>3. Freed(c)
        BY <2>1, <3>1, Zenon DEF Freed
      <3>4. sent' \subseteq Conns /\ silent' \subseteq Conns /\ gone' \subseteq Conns
        BY <2>1, <3>1 DEF Own, TypeOK
      <3> QED
        BY <2>1, <3>2, <3>3, <3>4, FreePlace DEF TypeOK
    <2>3. CASE connections[UserOf[c]] # c
      <3>1. UNCHANGED <<connections, changes, pc, sent, silent>>
        BY <1>4, <2>3 DEF Closed
      <3>2. \A v \in UserIDs : connections[v] # c
        BY <2>3, GroupListsAssumption DEF TypeOK, Members
      <3>3. connections' \in [UserIDs -> (Conns \ gone') \cup {None}]
        BY <2>1, <3>1, <3>2 DEF TypeOK
      <3> QED
        BY <2>1, <3>1, <3>3 DEF TypeOK, Members
    <2> QED
      BY <2>2, <2>3
  <1>5. ASSUME Reset PROVE TypeOK'
    <2>1. resets' \in 0 .. MaxResets
      BY <1>5, GroupListsAssumption DEF Reset, TypeOK
    <2>2. pc' \in [Tasks -> {"no", "read", "loop", "done"}]
      BY <1>5, ResetTask DEF Reset, TypeOK
    <2> QED
      BY <1>5, <2>1, <2>2 DEF Reset, TypeOK, Members
  <1>6. ASSUME NEW t \in Tasks, ReadMembers(t) PROVE TypeOK'
    <2> DEFINE there == {connections[u] : u \in Members \ {t[1]}}
    <2>1. /\ there \subseteq Conns
          /\ \A c \in there : UserOf[c] \in Members
          /\ Members \subseteq UserIDs
      BY DEF TypeOK, Members
    <2>2. /\ listed' = [listed EXCEPT ![t] = Members]
          /\ todo' = [todo EXCEPT ![t] = there]
          /\ pc' = [pc EXCEPT ![t] = "loop"]
          /\ UNCHANGED <<connections, changes, resets, joining, gone, sent, silent>>
      BY <1>6 DEF ReadMembers
    <2> HIDE DEF there
    <2>3. Members' = Members
      BY <2>2 DEF Members
    <2> QED
      BY <2>1, <2>2, <2>3 DEF TypeOK
  <1>7. ASSUME NEW t \in Tasks, Done(t) PROVE TypeOK'
    BY <1>7 DEF Done, TypeOK, Members
  <1>8. ASSUME NEW t \in Tasks, NEW c \in Conns, SendList(t, c) PROVE TypeOK'
    BY <1>8 DEF SendList, Deliver, TypeOK, Members
  <1>9. ASSUME NEW c \in Conns, Rejoin(c) PROVE TypeOK'
    BY <1>9 DEF Rejoin, TypeOK, Members, taskVars
  <1>10. CASE UNCHANGED vars
    BY <1>10 DEF vars, TypeOK, Members, taskVars
  <1> QED
    BY <1>1, <1>2, <1>3, <1>4, <1>5, <1>6, <1>7, <1>8, <1>9, <1>10 DEF Next

(* A change of u leaves a goroutine that owes the list to every connection *)
(* of another user.                                                        *)
LEMMA ChangeOwes ==
    ASSUME NEW u \in UserIDs, TypeOK, Spawn(u), NEW d \in Conns, UserOf[d] # u
    PROVE  \E t \in Tasks : Owes(t, d)'
  <1>1. PICK t \in Tasks : t[1] = u /\ pc'[t] = "read"
    BY SpawnTypes
  <1>2. Owes(t, d)'
    BY <1>1 DEF Owes
  <1> QED
    BY <1>2

(* Who is listed and not silent is there for its user.                     *)
LEMMA ListenerPlace ==
    ASSUME TypeOK, NEW d \in Listeners
    PROVE  d \in Conns /\ connections[UserOf[d]] = d /\ UserOf[d] \in Members /\ d \notin silent
  BY DEF Listeners, Members, TypeOK

(* A step that leaves the members alone keeps the invariant, when every    *)
(* listener that is still owed the list was one, and is owed it after the  *)
(* step if it was before.                                                  *)
LEMMA QuietStep ==
    ASSUME IInv,
           \A d \in Listeners' \ (sent' \cup joining') :
               /\ d \in Listeners \ (sent \cup joining)
               /\ \A t \in Tasks : Owes(t, d) => Owes(t, d)'
    PROVE  ListInv'
  BY DEF ListInv, IInv

(* Every step keeps the invariant of the lists.                            *)
LEMMA ListStep == IInv /\ [Next]_vars => ListInv'
  <1> SUFFICES ASSUME IInv, [Next]_vars PROVE ListInv'
    OBVIOUS
  <1>t. TypeOK /\ TypeOK' /\ \A c \in Conns : UserOf[c] \in UserIDs
    BY TypeStep, GroupListsAssumption DEF IInv
  <1>p. \A d \in Listeners' : d \in Conns /\ connections'[UserOf[d]] = d /\ d \notin silent'
    BY <1>t DEF Listeners, Members, TypeOK
  <1>o. \A d \in Listeners : d \in Conns /\ connections[UserOf[d]] = d /\ UserOf[d] \in Members
    BY <1>t, ListenerPlace
  <1>1. ASSUME NEW c \in Conns, Join(c) \/ Accept(c) PROVE ListInv'
    <2>1. Add(c) /\ c \in joining' \cup silent'
      BY <1>1 DEF Join, Accept
    <2>2. connections'[UserOf[c]] = c
      BY <2>1, <1>t, AddPlace
    <2>3. \A d \in Listeners' \ joining' : UserOf[d] # UserOf[c]
      BY <1>p, <2>1, <2>2
    <2> QED
      BY <2>1, <2>3, <1>p, <1>t, ChangeOwes DEF ListInv, Add
  <1>2. ASSUME NEW c \in Conns, JoinReply(c) PROVE ListInv'
    <2>1. /\ UNCHANGED <<connections, pc, listed, todo, silent>>
          /\ joining' = joining \ {c} /\ sent' = sent \cup {c}
      BY <1>2 DEF JoinReply, Deliver, taskVars
    <2>2. Listeners' = Listeners /\ \A t \in Tasks, d \in Conns : Owes(t, d)' = Owes(t, d)
      BY <2>1, Zenon DEF Listeners, Members, Owes
    <2> QED
      BY <2>1, <2>2, <1>o, QuietStep
  <1>3. ASSUME NEW c \in Conns, Freed(c), Spawn(UserOf[c]) PROVE ListInv'
    <2>1. connections'[UserOf[c]] = None
      BY <1>3, <1>t, FreePlace
    <2>2. \A d \in Listeners' : UserOf[d] # UserOf[c]
      BY <1>p, <2>1, GroupListsAssumption
    <2> QED
      BY <1>3, <2>2, <1>p, <1>t, ChangeOwes DEF ListInv
  <1>4. ASSUME NEW c \in Conns, Leave(c) PROVE ListInv'
    <2>1. Freed(c) /\ Spawn(UserOf[c])
      BY <1>4, Zenon DEF Leave, Freed
    <2> QED
      BY <1>3, <2>1
  <1>5. ASSUME NEW c \in Conns, Closed(c) PROVE ListInv'
    <2>1. CASE connections[UserOf[c]] = c
      <3>1. Freed(c) /\ Spawn(UserOf[c])
        BY <1>5, <2>1, Zenon DEF Closed, Freed
      <3> QED
        BY <1>3, <3>1
    <2>2. CASE connections[UserOf[c]] # c
      <3>1. UNCHANGED <<connections, pc, listed, todo, silent, sent, joining>>
        BY <1>5, <2>2 DEF Closed
      <3>2. Listeners' = Listeners /\ \A t \in Tasks, d \in Conns : Owes(t, d)' = Owes(t, d)
        BY <3>1, Zenon DEF Listeners, Members, Owes
      <3> QED
        BY <3>1, <3>2, <1>o, QuietStep
    <2> QED
      BY <2>1, <2>2
  <1>6. ASSUME Reset PROVE ListInv'
    <2> DEFINE r == <<None, resets + 1>>
    <2>1. r \in Tasks /\ r[1] = None
      BY <1>6, <1>t, ResetTask DEF Reset
    <2>2. pc' = [pc EXCEPT ![r] = "read"] /\ DOMAIN pc = Tasks
      BY <1>6, <1>t DEF Reset, TypeOK
    <2> HIDE DEF r
    <2>3. PICK t \in Tasks : pc'[t] = "read" /\ \A d \in Conns : t[1] # UserOf[d]
      BY <2>1, <2>2, <1>t, GroupListsAssumption
    <2>4. \A d \in Conns : Owes(t, d)'
      BY <2>3, Zenon DEF Owes
    <2> QED
      BY <2>4, <1>p, Zenon DEF ListInv
  <1>7. ASSUME NEW t \in Tasks, ReadMembers(t) PROVE ListInv'
    <2>1. /\ UNCHANGED <<connections, joining, sent, silent>>
          /\ pc' = [pc EXCEPT ![t] = "loop"] /\ pc[t] = "read"
          /\ listed' = [listed EXCEPT ![t] = Members]
          /\ todo' = [todo EXCEPT ![t] = {connections[u] : u \in Members \ {t[1]}}]
      BY <1>7 DEF ReadMembers
    <2>2. Listeners' = Listeners /\ Members' = Members
      BY <2>1 DEF Listeners, Members
    <2>3. ASSUME NEW d \in Listeners, Owes(t, d) PROVE Owes(t, d)'
      <3>1. pc'[t] = "loop" /\ listed'[t] = Members
            /\ todo'[t] = {connections[u] : u \in Members \ {t[1]}}
        BY <2>1, <1>t DEF TypeOK
      <3>2. UserOf[d] \in Members \ {t[1]} /\ d = connections[UserOf[d]]
        BY <2>3, <1>o DEF Owes
      <3> QED
        BY <2>3, <2>2, <3>1, <3>2 DEF Owes
    <2>4. ASSUME NEW d \in Listeners, NEW v \in Tasks, v # t, Owes(v, d) PROVE Owes(v, d)'
      <3>1. pc'[v] = pc[v] /\ listed'[v] = listed[v] /\ todo'[v] = todo[v]
        BY <2>1, <2>4, <1>t DEF TypeOK
      <3> QED
        BY <2>4, <2>2, <3>1 DEF Owes
    <2> QED
      BY <2>1, <2>2, <2>3, <2>4, QuietStep
  <1>8. ASSUME NEW t \in Tasks, Done(t) PROVE ListInv'
    <2>1. /\ UNCHANGED <<connections, joining, sent, silent, todo>>
          /\ pc' = [pc EXCEPT ![t] = "done"] /\ pc[t] = "loop" /\ todo[t] = {}
          /\ listed' = [listed EXCEPT ![t] = {}]
      BY <1>8 DEF Done
    <2>2. Listeners' = Listeners /\ Members' = Members
      BY <2>1 DEF Listeners, Members
    <2>3. \A v \in Tasks, d \in Listeners : Owes(v, d) => Owes(v, d)'
      BY <2>1, <2>2, <1>t DEF Owes, TypeOK
    <2> QED
      BY <2>1, <2>2, <2>3, QuietStep
  <1>9. ASSUME NEW t \in Tasks, NEW c \in Conns, SendList(t, c) PROVE ListInv'
    <2>1. /\ UNCHANGED <<connections, joining, silent, pc, listed>>
          /\ todo' = [todo EXCEPT ![t] = @ \ {c}]
          /\ sent' = IF listed[t] = Members THEN sent \cup {c} ELSE sent
      BY <1>9 DEF SendList, Deliver
    <2>2. Listeners' = Listeners /\ Members' = Members
      BY <2>1 DEF Listeners, Members
    <2>3. \A v \in Tasks, d \in Listeners \ sent' : Owes(v, d) => Owes(v, d)'
      BY <2>1, <2>2, <1>t DEF Owes, TypeOK
    <2>4. sent \subseteq sent'
      BY <2>1
    <2> QED
      BY <2>1, <2>2, <2>3, <2>4, QuietStep
  <1>10. ASSUME NEW c \in Conns, Rejoin(c) PROVE ListInv'
    <2>1. /\ UNCHANGED <<connections, pc, listed, todo, sent>>
          /\ joining' = joining \cup {c} /\ silent' = silent \ {c}
      BY <1>10 DEF Rejoin, taskVars
    <2>2. /\ Listeners' \ {c} \subseteq Listeners
          /\ \A t \in Tasks, d \in Conns : Owes(t, d)' = Owes(t, d)
      BY <2>1 DEF Listeners, Members, Owes
    <2> QED
      BY <2>1, <2>2, <1>o, QuietStep
  <1>11. CASE UNCHANGED vars
    <2>1. UNCHANGED <<connections, pc, listed, todo, silent, sent, joining>>
      BY <1>11 DEF vars, taskVars
    <2>2. Listeners' = Listeners /\ \A t \in Tasks, d \in Conns : Owes(t, d)' = Owes(t, d)
      BY <2>1, Zenon DEF Listeners, Members, Owes
    <2> QED
      BY <2>1, <2>2, <1>o, QuietStep
  <1> QED
    BY <1>1, <1>2, <1>4, <1>5, <1>6, <1>7, <1>8, <1>9, <1>10, <1>11 DEF Next

(* IInv is an inductive invariant.                                         *)
THEOREM GroupListsInvariant == Spec => []IInv
  <1>1. IInv /\ [Next]_vars => IInv'
    BY TypeStep, ListStep DEF IInv
  <1> QED
    BY InitIInv, <1>1, PTL DEF Spec

(* The state of a group's lists always has its types, and a list is sent   *)
(* to none but those on it (onAfterGroupAddOrRemove).                      *)
THEOREM GroupListsTypeCorrect == Spec => []TypeOK
  <1>1. IInv => TypeOK
    BY DEF IInv
  <1> QED
    BY GroupListsInvariant, <1>1, PTL

(* Once the goroutines of onAfterGroupAddOrRemove are done and webrtc_group *)
(* was replied to, every member has been sent the list of the present      *)
(* members, but one that came in with an accept and after which no other   *)
(* user has come or gone.                                                  *)
THEOREM GroupListsCurrentSent == Spec => []CurrentListSent
  <1>1. IInv => CurrentListSent
    BY DEF IInv, ListInv, Owes, CurrentListSent
  <1> QED
    BY GroupListsInvariant, <1>1, PTL

=============================================================================
