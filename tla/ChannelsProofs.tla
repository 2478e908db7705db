--------------------------- MODULE ChannelsProofs ---------------------------
(***************************************************************************)
(* Proofs about Channels, for any users, connections and channels: the     *)
(* inductive invariant IInv and what follows from it, with what guest      *)
(* access grants for the guests among the users.                           *)
(***************************************************************************)
EXTENDS Channels, Guests, TLAPS

(* A leaf that names no prover is for the SMT solver.                       *)
USE SMTT(40)

USE ChannelsAssumption

(* The first state satisfies the inductive invariant.                      *)
LEMMA InitIInv == Init => IInv
<1> SUFFICES ASSUME Init PROVE IInv
  OBVIOUS
<1>1. TypeOK
  BY DEF Init, TypeOK, Phases, Keys
<1>2. MemberInv /\ MapInv /\ HandlerInv /\ PurgeInv /\ GuestsStayInGroup
  BY DEF Init, MemberInv, MapInv, HandlerInv, PurgeInv, GuestsStayInGroup
<1>3. QED BY ONLY <1>1, <1>2, Zenon DEF IInv

(* What Add does, in the cases a caller tells apart: the channel's entry   *)
(* for the user is set and registered, or nothing but the lock changes.    *)
LEMMA AddEffect ==
  ASSUME TypeOK, NEW c \in Conns, NEW ch \in Chans, Add(c, ch)
  PROVE  /\ locked' \in [Chans -> BOOLEAN]
         /\ connections' \in [Chans -> [UserIDs -> Conns \cup {None}]]
         /\ callbacks' \in [Conns -> SUBSET Chans]
         /\ \/ UNCHANGED <<connections, callbacks>>
            \/ /\ ~closed[ch]
               /\ connections' = [connections EXCEPT ![ch][UserOf[c]] = c]
               /\ callbacks' = [callbacks EXCEPT ![c] = @ \cup {ch}]
<1> DEFINE old == connections[ch][UserOf[c]]
           taken == old # None /\ old # c /\ ~IsGroup(ch)
<1>1. CASE closed[ch] \/ old = c \/ taken
  <2>1. /\ locked' = [locked EXCEPT ![ch] = ~closed[ch] /\ taken]
        /\ UNCHANGED <<connections, callbacks>>
    BY <1>1 DEF Add
  <2>2. QED BY <2>1 DEF TypeOK
<1>2. CASE ~(closed[ch] \/ old = c \/ taken)
  <2>1. /\ ~closed[ch]
        /\ connections' = [connections EXCEPT ![ch][UserOf[c]] = c]
        /\ callbacks' = [callbacks EXCEPT ![c] = @ \cup {ch}]
        /\ UNCHANGED locked
    BY <1>2 DEF Add
  <2>2. QED BY <2>1 DEF TypeOK
<1>3. QED BY ONLY <1>1, <1>2, Zenon

(* What Remove does.                                                       *)
LEMMA RemoveEffect ==
  ASSUME TypeOK, NEW ch \in Chans, NEW u \in UserIDs,
         NEW conn \in Conns \cup {None}, Remove(ch, u, conn)
  PROVE  /\ connections' \in [Chans -> [UserIDs -> Conns \cup {None}]]
         /\ \A x \in Chans, v \in UserIDs :
                \/ connections'[x][v] = connections[x][v]
                \/ /\ x = ch /\ v = u /\ connections'[x][v] = None
                   /\ conn # None => connections[x][v] = conn
         /\ conn # None => connections'[ch][u] # conn
  BY DEF Remove, TypeOK

(* Every step preserves the types.                                         *)
LEMMA NextTypeOK == IInv /\ [Next]_vars => TypeOK'
<1> SUFFICES ASSUME IInv, [Next]_vars PROVE TypeOK'
  OBVIOUS
<1> USE DEF IInv, Phases, Goto, Enter, Return
<1>1. CASE UNCHANGED vars
  BY <1>1 DEF vars, handlerVars, channelVars, purgeVars, TypeOK
<1>2. ASSUME NEW c \in Conns, ClientStep(c) PROVE TypeOK'
  <2>1. ASSUME NEW k \in GroupKeys, NEW ch \in Chans, GroupUpsert(c, k, ch)
        PROVE  TypeOK'
    <3>1. k \in Keys
      BY ONLY k \in GroupKeys DEF Keys
    <3>2. channels' \in [Keys -> Chans \cup {None}] /\ created' \subseteq Chans
      <4>1. channels \in [Keys -> Chans \cup {None}] /\ created \subseteq Chans
        BY ONLY IInv, Zenon DEF IInv, TypeOK
      <4>2. QED BY ONLY <2>1, <3>1, <4>1, SMTT(40) DEF GroupUpsert
    <3>3. /\ \E to \in {"join", "size"} : Enter(c, ch, to)
          /\ UNCHANGED <<callbacks, connections, closed, locked, hashed, purgeVars>>
      BY ONLY <2>1, Zenon DEF GroupUpsert
    <3>4. pc' \in [Conns -> Phases] /\ at' \in [Conns -> Chans \cup {None}]
      <4>1. pc \in [Conns -> Phases] /\ at \in [Conns -> Chans \cup {None}]
        BY ONLY IInv, Zenon DEF IInv, TypeOK
      <4>2. QED
        BY ONLY <3>3, <4>1, ch \in Chans, SMTT(40) DEF Enter, Goto, Phases
    <3>5. QED
      BY ONLY IInv, <3>2, <3>3, <3>4, SMTT(40) DEF IInv, TypeOK, purgeVars
  <2>2. ASSUME NEW ch \in Chans, NEW target \in UserIDs,
               CallStart(c, ch, target)
        PROVE  TypeOK'
    <3>1. Add(c, ch) BY <2>2 DEF CallStart
    <3>2. QED BY <2>2, <3>1, AddEffect DEF CallStart, purgeVars, TypeOK
  <2>3. ASSUME NEW k \in Keys, NEW g \in GroupKeys \cup {None},
               NEW yes \in BOOLEAN,
               CallAnswer(c, k, g, yes) \/ SignalOrHangup(c, k, g, yes)
        PROVE  TypeOK'
    <3>1. channels[k] \in Chans
      BY <2>3 DEF CallAnswer, SignalOrHangup, ForChannel, TypeOK
    <3>2. at' = [at EXCEPT ![c] = channels[k]]
          /\ \E to \in Phases : pc' = [pc EXCEPT ![c] = to]
      BY <2>3 DEF CallAnswer, SignalOrHangup
    <3>3. UNCHANGED <<callbacks, channelVars, purgeVars>>
      BY <2>3 DEF CallAnswer, SignalOrHangup
    <3>4. QED BY <3>1, <3>2, <3>3 DEF channelVars, purgeVars, TypeOK
  <2>4. CASE Close(c)
    BY <2>4 DEF Close, channelVars, purgeVars, TypeOK
  <2>5. QED BY ONLY <1>2, <2>1, <2>2, <2>3, <2>4, Zenon DEF ClientStep
<1>3. ASSUME NEW c \in Conns, HandlerStep(c) PROVE TypeOK'
  <2>0. /\ None \in Conns \cup {None} /\ c \in Conns \cup {None}
        /\ UserOf[c] \in UserIDs
        /\ pc[c] \in {"size", "join", "accept", "reply", "hangup"} =>
               at[c] \in Chans
    BY DEF HandlerInv, TypeOK
  <2>1. CASE GroupSize(c)
    BY <2>1, ZenonT(40) DEF GroupSize, channelVars, purgeVars, TypeOK
  <2>2. CASE GroupAdd(c)
    <3>1. at[c] \in Chans /\ Add(c, at[c]) BY <2>0, <2>2 DEF GroupAdd
    <3>2. /\ locked' \in [Chans -> BOOLEAN]
          /\ connections' \in [Chans -> [UserIDs -> Conns \cup {None}]]
          /\ callbacks' \in [Conns -> SUBSET Chans]
      BY <3>1, AddEffect
    <3>3. pc' \in [Conns -> Phases] /\ at' \in [Conns -> Chans \cup {None}]
      BY <2>2, ZenonT(40) DEF GroupAdd, TypeOK
    <3>4. KeyOf[at[c]] \in Keys BY <3>1
    <3>5. hashed' \in [Keys -> SUBSET UserIDs]
      <4>1. hashed \in [Keys -> SUBSET UserIDs]
        BY ONLY IInv, Zenon DEF IInv, TypeOK
      <4>2. QED BY ONLY <2>0, <2>2, <3>4, <4>1, SMTT(40) DEF GroupAdd
    <3>6. QED BY <2>2, <3>2, <3>3, <3>5 DEF GroupAdd, purgeVars, TypeOK
  <2>3. CASE CallAdd(c)
    <3>1. at[c] \in Chans /\ Add(c, at[c]) BY <2>0, <2>3 DEF CallAdd
    <3>2. /\ locked' \in [Chans -> BOOLEAN]
          /\ connections' \in [Chans -> [UserIDs -> Conns \cup {None}]]
          /\ callbacks' \in [Conns -> SUBSET Chans]
      BY <3>1, AddEffect
    <3>3. pc' \in [Conns -> Phases] /\ at' \in [Conns -> Chans \cup {None}]
      BY <2>3, ZenonT(40) DEF CallAdd, TypeOK
    <3>4. QED BY <2>3, <3>2, <3>3 DEF CallAdd, purgeVars, TypeOK
  <2>4. CASE Reply(c)
    BY <2>4 DEF Reply, channelVars, purgeVars, TypeOK
  <2>5. CASE HangupRemove(c)
    <3>1. at[c] \in Chans /\ Remove(at[c], UserOf[c], None)
      BY <2>0, <2>5 DEF HangupRemove
    <3>2. connections' \in [Chans -> [UserIDs -> Conns \cup {None}]]
      BY <2>0, <3>1, RemoveEffect
    <3>3. QED BY <2>5, <3>2 DEF HangupRemove, purgeVars, TypeOK
  <2>6. CASE CloseDone(c)
    BY <2>6 DEF CloseDone, channelVars, purgeVars, TypeOK
  <2>7. ASSUME NEW ch \in Chans, ClosedCallback(c, ch) PROVE TypeOK'
    <3>1. Remove(ch, UserOf[c], c) BY <2>7 DEF ClosedCallback
    <3>2. connections' \in [Chans -> [UserIDs -> Conns \cup {None}]]
      BY <2>0, <3>1, RemoveEffect
    <3>3. QED BY <2>7, <3>2 DEF ClosedCallback, purgeVars, TypeOK
  <2>8. QED
    BY ONLY <1>3, <2>1, <2>2, <2>3, <2>4, <2>5, <2>6, <2>7, Zenon DEF HandlerStep
<1>4. CASE PurgeStep
  <2>1. CASE PurgeStart
    BY <2>1 DEF PurgeStart, handlerVars, channelVars, TypeOK
  <2>2. ASSUME NEW ch \in Chans, NEW expired \in BOOLEAN,
               PurgeScan(ch, expired)
        PROVE  TypeOK'
    BY <2>2 DEF PurgeScan, handlerVars, channelVars, TypeOK
  <2>3. ASSUME NEW ch \in Chans, Cleanup(ch) PROVE TypeOK'
    BY <2>3, ZenonT(40) DEF Cleanup, handlerVars, TypeOK
  <2>4. CASE PurgeRemove
    BY <2>4 DEF PurgeRemove, handlerVars, TypeOK
  <2>5. QED BY ONLY <1>4, <2>1, <2>2, <2>3, <2>4, Zenon DEF PurgeStep
<1>5. QED BY ONLY [Next]_vars, <1>1, <1>2, <1>3, <1>4, Zenon DEF Next

(* The parts of the inductive invariant other than the types.              *)
Core == MemberInv /\ MapInv /\ HandlerInv /\ PurgeInv

(* Steps that only move a handler: no channel and no callback changes.     *)
LEMMA MoveCore ==
  ASSUME IInv, NEW c \in Conns,
         \/ \E k \in Keys, g \in GroupKeys \cup {None}, yes \in BOOLEAN :
                CallAnswer(c, k, g, yes) \/ SignalOrHangup(c, k, g, yes)
         \/ GroupSize(c) \/ Reply(c) \/ Close(c) \/ CloseDone(c)
  PROVE  Core'
<1> USE DEF IInv, Goto, Enter, Return, channelVars, purgeVars, Phases
<1>0. TypeOK /\ MemberInv /\ MapInv /\ HandlerInv /\ PurgeInv
  BY Zenon DEF IInv
<1>1. UNCHANGED <<callbacks, channelVars, purgeVars>>
  BY DEF CallAnswer, SignalOrHangup, GroupSize, Reply, Close, CloseDone
<1>2. MapInv' /\ PurgeInv'
  BY ONLY <1>0, <1>1 DEF MapInv, PurgeInv, channelVars, purgeVars
<1>3. MemberInv'
  <2>1. \A d \in Conns : pc'[d] = "gone" =>
            pc[d] = "gone" \/ callbacks[d] = {}
    BY DEF CallAnswer, SignalOrHangup, GroupSize, Reply, Close, CloseDone,
           TypeOK
  <2>2. QED BY <1>1, <2>1 DEF MemberInv
<1>4. HandlerInv'
  <2>1. ASSUME NEW k \in Keys, NEW g \in GroupKeys \cup {None},
               NEW yes \in BOOLEAN,
               CallAnswer(c, k, g, yes) \/ SignalOrHangup(c, k, g, yes)
        PROVE  HandlerInv'
    <3>1. /\ channels[k] \in created /\ KeyOf[channels[k]] = k
          /\ Allowed(c, g) /\ UserOf[c] \in hashed[k]
      BY <2>1 DEF CallAnswer, SignalOrHangup, ForChannel, HasHash, MapInv, TypeOK
    <3>2. /\ pc'[c] \in {"accept", "reply", "hangup"} /\ at'[c] = channels[k]
          /\ pc'[c] = "accept" => g = None
          /\ \A d \in Conns : d # c => pc'[d] = pc[d] /\ at'[d] = at[d]
      BY <2>1 DEF CallAnswer, SignalOrHangup, TypeOK
    <3>3. QED
      BY ONLY <1>0, <1>1, <3>1, <3>2 DEF Allowed, HandlerInv, channelVars
  <2>2. CASE GroupSize(c) \/ Reply(c) \/ Close(c) \/ CloseDone(c)
    <3>1. \/ pc'[c] \in {"idle", "closing", "gone"}
          \/ pc[c] = "size" /\ pc'[c] = "join" /\ at'[c] = at[c]
      BY ONLY <1>0, <2>2, c \in Conns
      DEF GroupSize, Reply, Close, CloseDone, Goto, Return, Phases, TypeOK
    <3>2. \A d \in Conns : d # c => pc'[d] = pc[d] /\ at'[d] = at[d]
      BY ONLY <1>0, <2>2, c \in Conns
      DEF GroupSize, Reply, Close, CloseDone, Goto, Return, Phases, TypeOK
    <3>3. QED
      BY ONLY <1>0, <1>1, <3>1, <3>2 DEF Allowed, HandlerInv, channelVars
  <2>3. QED
    BY ONLY <2>1, <2>2, Zenon,
       \/ \E k \in Keys, g \in GroupKeys \cup {None}, yes \in BOOLEAN :
              CallAnswer(c, k, g, yes) \/ SignalOrHangup(c, k, g, yes)
       \/ GroupSize(c) \/ Reply(c) \/ Close(c) \/ CloseDone(c)
<1>5. QED BY ONLY <1>2, <1>3, <1>4, Zenon DEF Core

(* Getting or making the channel of a group: a new one takes an id under   *)
(* which there was none, so no open channel and no entry the cleanup has   *)
(* collected loses it.                                                     *)
LEMMA GroupUpsertCore ==
  ASSUME IInv, NEW c \in Conns, NEW k \in GroupKeys, NEW ch \in Chans,
         GroupUpsert(c, k, ch)
  PROVE  Core'
<1> USE DEF IInv, Goto, Enter, purgeVars
<1>1. k \in Keys
  BY DEF Keys
<1>2. /\ ch \in created' /\ created \subseteq created'
      /\ channels'[k] = ch /\ KeyOf[ch] = k
      /\ \A x \in Chans, j \in Keys : channels[j] = x => channels'[j] = x
      /\ \A j \in Keys : j # k => channels'[j] = channels[j]
      /\ \A x \in created' : x \in created \/ x = ch
  BY <1>1 DEF GroupUpsert, MapInv, TypeOK
<1>3. /\ UNCHANGED <<callbacks, connections, closed, hashed, purgeVars>>
      /\ \A d \in Conns : pc'[d] = "gone" => pc[d] = "gone"
      /\ \A d \in Conns : d # c => pc'[d] = pc[d] /\ at'[d] = at[d]
      /\ pc'[c] \in {"size", "join"} /\ at'[c] = ch
  BY DEF GroupUpsert, TypeOK
<1>4. MemberInv'
  BY <1>2, <1>3 DEF MemberInv
<1>5. MapInv'
  <2>1. \A j \in Keys, x \in Chans :
            channels'[j] = x => x \in created' /\ KeyOf[x] = j
    BY <1>1, <1>2 DEF MapInv
  <2>2. \A x \in created' : ~closed'[x] => channels'[KeyOf[x]] = x
    BY <1>1, <1>2, <1>3 DEF MapInv, TypeOK
  <2>3. QED BY ONLY <2>1, <2>2, Zenon DEF MapInv
<1>6. HandlerInv'
  <2>1. Allowed(c, KeyOf[ch])
    BY <1>2 DEF GroupUpsert
  <2>2. QED BY <1>2, <1>3, <2>1 DEF Allowed, HandlerInv
<1>7. PurgeInv'
  BY <1>2, <1>3 DEF PurgeInv, TypeOK
<1>8. QED BY ONLY <1>4, <1>5, <1>6, <1>7, Zenon DEF Core

(* Adding a connection that has the hash, or gets it, to a channel that    *)
(* was made: if it is still open it is found under its id.                 *)
LEMMA JoinCore ==
  ASSUME IInv, NEW c \in Conns, GroupAdd(c) \/ CallAdd(c)
  PROVE  Core'
<1> USE DEF IInv, Goto, Return, purgeVars
<1> DEFINE ch == at[c]
<1>0. TypeOK /\ MemberInv /\ MapInv /\ HandlerInv /\ PurgeInv
  BY Zenon DEF IInv
<1>1. ch \in created /\ ch \in Chans /\ KeyOf[ch] \in Keys
  <2>1. pc[c] \in {"join", "accept"}
    BY ONLY GroupAdd(c) \/ CallAdd(c), Zenon DEF GroupAdd, CallAdd, Goto, Return
  <2>2. QED
    BY ONLY <1>0, <2>1, c \in Conns, ChannelsAssumption
    DEF HandlerInv, TypeOK, ChannelsAssumption
<1>2. Add(c, ch)
  BY DEF GroupAdd, CallAdd
<1>3. \/ UNCHANGED <<connections, callbacks>>
      \/ /\ ~closed[ch]
         /\ connections' = [connections EXCEPT ![ch][UserOf[c]] = c]
         /\ callbacks' = [callbacks EXCEPT ![c] = @ \cup {ch}]
  <2>1. TypeOK
    BY Zenon DEF IInv
  <2>2. QED BY ONLY <1>1, <1>2, <2>1, c \in Conns, AddEffect, ZenonT(40)
<1>4. /\ UNCHANGED <<channels, created, closed, purgeVars>>
      /\ pc'[c] \in {"idle", "reply"}
      /\ pc'[c] = "reply" => at'[c] = ch
      /\ \A d \in Conns : d # c => pc'[d] = pc[d] /\ at'[d] = at[d]
      /\ \A d \in Conns : pc'[d] = "gone" => pc[d] = "gone"
  BY DEF GroupAdd, CallAdd, TypeOK
<1>5. /\ \A k \in Keys : hashed[k] \subseteq hashed'[k]
      /\ ~closed[ch] => UserOf[c] \in hashed'[KeyOf[ch]]
  BY <1>1 DEF GroupAdd, CallAdd, HandlerInv, TypeOK
<1> HIDE DEF ch
<1>6. MemberInv'
  <2> SUFFICES ASSUME NEW x \in Chans, NEW u \in UserIDs, NEW d \in Conns,
                      connections'[x][u] = d
               PROVE  /\ UserOf[d] = u /\ pc'[d] # "gone"
                      /\ x \in callbacks'[d] /\ UserOf[d] \in hashed'[KeyOf[x]]
                      /\ x \in created' /\ ~closed'[x]
    BY DEF MemberInv
  <2>1. KeyOf[x] \in Keys
    OBVIOUS
  <2>2. CASE connections[x][u] = d
    <3>1. /\ UserOf[d] = u /\ pc[d] # "gone" /\ x \in callbacks[d]
          /\ UserOf[d] \in hashed[KeyOf[x]] /\ x \in created /\ ~closed[x]
      BY ONLY <1>0, <2>2, x \in Chans, u \in UserIDs, d \in Conns DEF MemberInv
    <3>2. callbacks[d] \subseteq callbacks'[d]
      <4>1. callbacks \in [Conns -> SUBSET Chans]
        BY DEF TypeOK
      <4>2. callbacks' \in {callbacks, [callbacks EXCEPT ![c] = @ \cup {ch}]}
        BY <1>3
      <4>3. QED BY <4>1, <4>2, c \in Conns, d \in Conns
    <3>3. QED BY ONLY <1>4, <1>5, <2>1, <3>1, <3>2, d \in Conns
  <2>3. CASE connections[x][u] # d
    <3>1. /\ ~closed[ch] /\ x = ch /\ u = UserOf[c] /\ d = c
          /\ x \in callbacks'[d]
      BY <1>1, <1>3, <2>3 DEF TypeOK
    <3>2. QED BY <1>1, <1>4, <1>5, <3>1
  <2>4. QED BY ONLY <2>2, <2>3, Zenon
<1>7. MapInv' /\ PurgeInv'
  BY ONLY <1>0, <1>4 DEF MapInv, PurgeInv, purgeVars
<1>8. HandlerInv'
  <2>1. \A d \in Conns : at[d] \in created => KeyOf[at[d]] \in Keys
    BY DEF TypeOK
  <2>2. QED BY <1>1, <1>4, <1>5, <2>1 DEF Allowed, HandlerInv
<1>9. QED BY ONLY <1>6, <1>7, <1>8, Zenon DEF Core

(* A call channel has an id of its own, so storing it displaces nothing.   *)
LEMMA CallStartCore ==
  ASSUME IInv, NEW c \in Conns, NEW ch \in Chans, NEW target \in UserIDs,
         CallStart(c, ch, target)
  PROVE  Core'
<1> USE DEF IInv, purgeVars
<1>0. TypeOK /\ MapInv /\ HandlerInv /\ PurgeInv
  BY Zenon DEF IInv
<1>1. /\ ch \notin created /\ pc[c] = "idle" /\ KeyOf[ch] \in Keys
      /\ \A x \in created : KeyOf[x] # KeyOf[ch]
  <2>1. ch \notin created /\ ~IsGroup(ch) /\ created \subseteq Chans
    BY DEF CallStart, TypeOK
  <2>2. QED BY <2>1 DEF CallStart
<1>2. \/ UNCHANGED <<connections, callbacks>>
      \/ /\ ~closed[ch]
         /\ connections' = [connections EXCEPT ![ch][UserOf[c]] = c]
         /\ callbacks' = [callbacks EXCEPT ![c] = @ \cup {ch}]
  BY AddEffect DEF CallStart
<1>3. /\ UNCHANGED <<pc, at, closed, purgeVars>>
      /\ created' = created \cup {ch}
      /\ channels'[KeyOf[ch]] = ch
      /\ UserOf[c] \in hashed'[KeyOf[ch]]
      /\ \A k \in Keys : k # KeyOf[ch] =>
             channels'[k] = channels[k] /\ hashed'[k] = hashed[k]
  BY <1>1 DEF CallStart, TypeOK
<1>4. MemberInv'
  <2> SUFFICES ASSUME NEW x \in Chans, NEW u \in UserIDs, NEW d \in Conns,
                      connections'[x][u] = d
               PROVE  /\ UserOf[d] = u /\ pc'[d] # "gone"
                      /\ x \in callbacks'[d] /\ UserOf[d] \in hashed'[KeyOf[x]]
                      /\ x \in created' /\ ~closed'[x]
    BY DEF MemberInv
  <2>1. CASE connections[x][u] = d
    <3>1. /\ UserOf[d] = u /\ pc[d] # "gone" /\ x \in callbacks[d]
          /\ UserOf[d] \in hashed[KeyOf[x]] /\ x \in created /\ ~closed[x]
      BY <2>1 DEF MemberInv
    <3>2. callbacks[d] \subseteq callbacks'[d]
      <4>1. callbacks \in [Conns -> SUBSET Chans]
        BY DEF TypeOK
      <4>2. callbacks' \in {callbacks, [callbacks EXCEPT ![c] = @ \cup {ch}]}
        BY <1>2
      <4>3. QED BY <4>1, <4>2, c \in Conns, d \in Conns
    <3>3. KeyOf[x] \in Keys /\ KeyOf[x] # KeyOf[ch]
      BY <1>1, <3>1
    <3>4. QED BY <1>3, <3>1, <3>2, <3>3
  <2>2. CASE connections[x][u] # d
    <3>1. /\ ~closed[ch] /\ x = ch /\ u = UserOf[c] /\ d = c
          /\ x \in callbacks'[d]
      BY <1>1, <1>2, <2>2 DEF TypeOK
    <3>2. QED BY <1>1, <1>3, <3>1
  <2>3. QED BY ONLY <2>1, <2>2, Zenon
<1>5. MapInv'
  <2>1. \A k \in Keys, x \in Chans :
            channels'[k] = x => x \in created' /\ KeyOf[x] = k
    BY ONLY <1>0, <1>1, <1>3 DEF MapInv
  <2>2. \A x \in created' : ~closed'[x] => channels'[KeyOf[x]] = x
    BY ONLY <1>0, <1>1, <1>3, ChannelsAssumption
    DEF MapInv, TypeOK, ChannelsAssumption
  <2>3. QED BY ONLY <2>1, <2>2, Zenon DEF MapInv
<1>6. HandlerInv'
  <2>1. \A d \in Conns : at[d] \in created =>
            KeyOf[at[d]] \in Keys /\ KeyOf[at[d]] # KeyOf[ch]
    BY <1>1 DEF TypeOK
  <2>2. QED BY <1>3, <2>1 DEF Allowed, HandlerInv
<1>7. PurgeInv'
  <2>1. \A x \in pToScan \cup pEmpty :
            x \in created /\ KeyOf[x] \in Keys /\ channels[KeyOf[x]] = x
    BY DEF PurgeInv, MapInv, TypeOK
  <2>2. QED BY <1>1, <1>3, <2>1 DEF PurgeInv
<1>8. QED BY ONLY <1>4, <1>5, <1>6, <1>7, Zenon DEF Core

(* Leaving a channel by a hangup, or by the callback of a closed           *)
(* connection, which goes with the connection's place in the channel.      *)
LEMMA LeaveCore ==
  ASSUME IInv, NEW c \in Conns,
         HangupRemove(c) \/ \E ch \in Chans : ClosedCallback(c, ch)
  PROVE  Core'
<1> USE DEF IInv, Goto, Return, purgeVars
<1>0. TypeOK /\ MemberInv /\ MapInv /\ HandlerInv /\ PurgeInv /\ None \notin Conns
  BY Zenon DEF ChannelsAssumption
<1>1. UNCHANGED <<channels, created, closed, hashed, purgeVars>>
  BY DEF HangupRemove, ClosedCallback
<1>2. MapInv' /\ PurgeInv'
  BY ONLY <1>0, <1>1 DEF MapInv, PurgeInv, purgeVars
<1>3. HandlerInv'
  <2>1. \A d \in Conns : \/ pc'[d] = pc[d] /\ at'[d] = at[d]
                         \/ pc'[d] = "idle"
    BY DEF HangupRemove, ClosedCallback, TypeOK
  <2>2. QED BY ONLY <1>0, <1>1, <2>1 DEF Allowed, HandlerInv
<1>4. MemberInv'
  <2>0. UserOf[c] \in UserIDs /\ c # None
    BY ONLY ChannelsAssumption, c \in Conns DEF ChannelsAssumption
  <2>1. CASE HangupRemove(c)
    <3>1. at[c] \in Chans /\ Remove(at[c], UserOf[c], None)
      BY <2>1 DEF HangupRemove, HandlerInv, TypeOK
    <3>2. \A x \in Chans, v \in UserIDs :
              connections'[x][v] \in {connections[x][v], None}
      BY ONLY <1>0, <2>0, <3>1, RemoveEffect
    <3>3. UNCHANGED callbacks /\ \A d \in Conns : pc'[d] \in {pc[d], "idle"}
      BY <2>1 DEF HangupRemove, TypeOK
    <3>4. QED BY ONLY <1>0, <1>1, <3>2, <3>3 DEF MemberInv
  <2>2. ASSUME NEW ch \in Chans, ClosedCallback(c, ch) PROVE MemberInv'
    <3>1. Remove(ch, UserOf[c], c)
      BY ONLY <2>2, Zenon DEF ClosedCallback
    <3>2. /\ \A x \in Chans, v \in UserIDs :
                 connections'[x][v] \in {connections[x][v], None}
          /\ connections'[ch][UserOf[c]] # c
      BY ONLY <1>0, <2>0, <3>1, c \in Conns, ch \in Chans, RemoveEffect
    <3>3. /\ UNCHANGED pc
          /\ \A d \in Conns, x \in Chans :
                 x \in callbacks[d] /\ ~(d = c /\ x = ch) => x \in callbacks'[d]
      BY <2>2 DEF ClosedCallback, TypeOK
    <3>4. QED BY ONLY <1>0, <1>1, <3>2, <3>3 DEF MemberInv
  <2>3. QED
    BY ONLY <2>1, <2>2, Zenon,
       HangupRemove(c) \/ \E ch \in Chans : ClosedCallback(c, ch)
<1>5. QED BY ONLY <1>2, <1>3, <1>4, Zenon DEF Core

(* The cleanup: only an empty channel is closed, and the entry removed is  *)
(* that of the channel closed.                                             *)
LEMMA PurgeCore == ASSUME IInv, PurgeStep PROVE Core'
<1> USE DEF IInv, handlerVars, channelVars
<1>0. /\ TypeOK /\ MemberInv /\ MapInv /\ HandlerInv /\ PurgeInv
      /\ \A ch \in Chans : KeyOf[ch] \in Keys /\ ch # None
  BY Zenon DEF ChannelsAssumption
<1>1. CASE PurgeStart
  <2>1. \A x \in pToScan' : channels[KeyOf[x]] = x
    BY <1>1 DEF PurgeStart, MapInv, TypeOK
  <2>2. UNCHANGED <<handlerVars, channelVars, pEmpty, pRemove>> /\ pEmpty = {}
    BY ONLY <1>1 DEF PurgeStart
  <2>3. MemberInv' /\ MapInv' /\ HandlerInv'
    BY ONLY <1>0, <2>2
    DEF MemberInv, MapInv, Allowed, HandlerInv, handlerVars, channelVars
  <2>4. PurgeInv'
    BY ONLY PurgeInv, <2>1, <2>2 DEF PurgeInv, channelVars
  <2>5. QED BY ONLY <2>3, <2>4, Zenon DEF Core
<1>2. ASSUME NEW ch \in Chans, NEW expired \in BOOLEAN, PurgeScan(ch, expired)
      PROVE  Core'
  <2>1. pToScan' \cup pEmpty' \subseteq pToScan \cup pEmpty
        /\ pEmpty \subseteq pEmpty'
    BY <1>2 DEF PurgeScan
  <2>2. /\ UNCHANGED <<handlerVars, channelVars, pRemove>>
        /\ pToScan' \subseteq pToScan
    BY ONLY <1>2 DEF PurgeScan
  <2>3. MemberInv' /\ MapInv' /\ HandlerInv'
    BY ONLY <1>0, <2>2
    DEF MemberInv, MapInv, Allowed, HandlerInv, handlerVars, channelVars
  <2>4. PurgeInv'
    BY ONLY PurgeInv, <2>1, <2>2 DEF PurgeInv, channelVars
  <2>5. QED BY ONLY <2>3, <2>4, Zenon DEF Core
<1>3. ASSUME NEW ch \in Chans, Cleanup(ch) PROVE Core'
  <2>1. /\ UNCHANGED <<handlerVars, channels, created, connections, hashed,
                       pToScan>>
        /\ \A x \in Chans : closed[x] => closed'[x]
        /\ \A x \in Chans : closed'[x] => closed[x] \/ x = ch
        /\ closed'[ch] => closed[ch] \/ IsEmpty(ch)
    <3>1. closed \in [Chans -> BOOLEAN]
      BY ONLY <1>0, Zenon DEF TypeOK
    <3>2. QED BY ONLY <1>3, <3>1, ch \in Chans, SMTT(40) DEF Cleanup
  <2>2. MemberInv'
    BY <2>1 DEF MemberInv, IsEmpty
  <2>3. MapInv' /\ HandlerInv'
    BY <2>1 DEF MapInv, Allowed, HandlerInv, TypeOK
  <2>4. PurgeInv'
    BY <1>3, <2>1 DEF Cleanup, PurgeInv, TypeOK
  <2>5. QED BY ONLY <2>2, <2>3, <2>4, Zenon DEF Core
<1>4. CASE PurgeRemove
  <2> DEFINE k == KeyOf[pRemove]
  <2>1. /\ pRemove \in Chans /\ k \in Keys /\ closed[pRemove]
        /\ channels[k] = pRemove
    BY <1>4 DEF PurgeRemove, PurgeInv, TypeOK
  <2>2. /\ UNCHANGED <<handlerVars, created, connections, closed, hashed,
                       pToScan>>
        /\ channels'[k] = None
        /\ \A j \in Keys : j # k => channels'[j] = channels[j]
        /\ pEmpty' = pEmpty \ {pRemove} /\ pRemove' = None
    <3>1. channels \in [Keys -> Chans \cup {None}]
      BY DEF TypeOK
    <3>2. QED BY ONLY <1>4, <2>1, <3>1 DEF PurgeRemove
  <2> HIDE DEF k
  <2>3. MemberInv' /\ HandlerInv'
    BY ONLY <1>0, <2>2 DEF MemberInv, Allowed, HandlerInv, handlerVars
  <2>4. MapInv'
    <3>1. \A j \in Keys, x \in Chans :
              channels'[j] = x => x \in created' /\ KeyOf[x] = j
      BY ONLY <1>0, <2>1, <2>2 DEF MapInv
    <3>2. \A x \in created' : ~closed'[x] => channels'[KeyOf[x]] = x
      <4>1. \A x \in created : x \in Chans
        BY ONLY <1>0, Zenon DEF TypeOK
      <4>2. QED BY ONLY <1>0, <2>1, <2>2, <4>1 DEF MapInv
    <3>3. QED BY ONLY <3>1, <3>2, Zenon DEF MapInv
  <2>5. PurgeInv'
    <3>1. \A x \in pToScan \cup pEmpty : x \in Chans /\ channels[KeyOf[x]] = x
      BY ONLY <1>0, Zenon DEF TypeOK, PurgeInv
    <3>2. pToScan = {}
      BY ONLY <1>0, <1>4 DEF PurgeRemove, PurgeInv
    <3>3. QED BY ONLY <1>0, <2>1, <2>2, <3>1, <3>2 DEF PurgeInv
  <2>6. QED BY ONLY <2>3, <2>4, <2>5, Zenon DEF Core
<1>5. QED BY ONLY PurgeStep, <1>1, <1>2, <1>3, <1>4, Zenon DEF PurgeStep

(* Why a connection may be put into a channel.                             *)
Admitted(c, ch) ==
    \/ Allowed(c, KeyOf[ch]) \/ Allowed(c, None)
    \/ Auth[UserOf[c]].canCreate /\ ~IsGroup(ch)

Placed(c, ch) ==
    Admitted(c, ch) /\ connections' = [connections EXCEPT ![ch][UserOf[c]] = c]

(* A step puts at most one connection into one channel or takes one out.   *)
LEMMA MembersStep ==
  ASSUME IInv, Next
  PROVE  \/ UNCHANGED connections
         \/ \E c \in Conns, ch \in Chans : Placed(c, ch)
         \/ \E ch \in Chans, u \in UserIDs :
                connections' = [connections EXCEPT ![ch][u] = None]
<1> DEFINE Goal == \/ UNCHANGED connections
                   \/ \E c \in Conns, ch \in Chans : Placed(c, ch)
                   \/ \E ch \in Chans, u \in UserIDs :
                          connections' = [connections EXCEPT ![ch][u] = None]
<1>0. TypeOK /\ HandlerInv
  BY ONLY IInv, Zenon DEF IInv
<1>1. ASSUME NEW c \in Conns, ClientStep(c) PROVE Goal
  <2>1. ASSUME NEW ch \in Chans, NEW target \in UserIDs,
               CallStart(c, ch, target)
        PROVE  Goal
    <3>1. \/ UNCHANGED connections
          \/ connections' = [connections EXCEPT ![ch][UserOf[c]] = c]
      BY <1>0, <2>1, AddEffect DEF CallStart
    <3>2. Admitted(c, ch)
      BY ONLY <2>1 DEF CallStart, Admitted
    <3>3. QED BY ONLY <3>1, <3>2, c \in Conns, ch \in Chans, Zenon DEF Placed
  <2>2. \/ UNCHANGED connections
        \/ \E ch \in Chans, target \in UserIDs : CallStart(c, ch, target)
    BY ONLY <1>1, ZenonT(40)
    DEF ClientStep, GroupUpsert, CallAnswer, SignalOrHangup, Close, channelVars
  <2>3. QED BY ONLY <2>1, <2>2, Zenon
<1>2. ASSUME NEW c \in Conns, HandlerStep(c) PROVE Goal
  <2>0. UserOf[c] \in UserIDs
    OBVIOUS
  <2>1. CASE GroupAdd(c) \/ CallAdd(c)
    <3>1. at[c] \in Chans /\ Add(c, at[c])
      BY <1>0, <2>1 DEF GroupAdd, CallAdd, HandlerInv, TypeOK
    <3>2. \/ UNCHANGED connections
          \/ connections' = [connections EXCEPT ![at[c]][UserOf[c]] = c]
      BY ONLY <1>0, <3>1, c \in Conns, AddEffect, ZenonT(40)
    <3>3. Admitted(c, at[c])
      BY ONLY <1>0, <2>1, c \in Conns, Zenon
      DEF GroupAdd, CallAdd, HandlerInv, Admitted
    <3>4. QED BY ONLY <3>1, <3>2, <3>3, c \in Conns, Zenon DEF Placed
  <2>2. CASE HangupRemove(c)
    <3>1. at[c] \in Chans
      BY <1>0, <2>2 DEF HangupRemove, HandlerInv, TypeOK
    <3>2. QED BY ONLY <2>0, <2>2, <3>1, Zenon DEF HangupRemove, Remove
  <2>3. ASSUME NEW ch \in Chans, ClosedCallback(c, ch) PROVE Goal
    BY ONLY <2>0, <2>3, ch \in Chans, Zenon DEF ClosedCallback, Remove
  <2>4. \/ UNCHANGED connections
        \/ GroupAdd(c) \/ CallAdd(c) \/ HangupRemove(c)
        \/ \E ch \in Chans : ClosedCallback(c, ch)
    BY ONLY <1>2, Zenon DEF HandlerStep, GroupSize, Reply, CloseDone, channelVars
  <2>5. QED BY ONLY <2>1, <2>2, <2>3, <2>4, Zenon
<1>3. CASE PurgeStep
  BY ONLY <1>3, Zenon
  DEF PurgeStep, PurgeStart, PurgeScan, Cleanup, PurgeRemove, channelVars
<1>4. QED BY ONLY Next, <1>1, <1>2, <1>3, Zenon DEF Next

(* Every step keeps guests where they may be.                              *)
LEMMA NextGuests ==
  ASSUME IInv, Next
  PROVE  GuestsStayInGroup'
<1>0. TypeOK /\ GuestsStayInGroup
  BY ONLY IInv, Zenon DEF IInv
<1>1. CASE UNCHANGED connections
  BY ONLY <1>0, <1>1 DEF GuestsStayInGroup
<1>2. ASSUME NEW c \in Conns, NEW ch \in Chans, Placed(c, ch)
      PROVE  GuestsStayInGroup'
  <2>1. \A x \in Chans, u \in UserIDs :
            \/ connections'[x][u] = connections[x][u]
            \/ x = ch /\ u = UserOf[c]
    BY <1>0, <1>2 DEF Placed, TypeOK
  <2>2. QED
    BY ONLY <1>0, <1>2, <2>1, ch \in Chans
    DEF Placed, Admitted, Allowed, GuestsStayInGroup
<1>3. ASSUME NEW ch \in Chans, NEW u \in UserIDs,
             connections' = [connections EXCEPT ![ch][u] = None]
      PROVE  GuestsStayInGroup'
  <2>1. \A x \in Chans, v \in UserIDs :
            connections'[x][v] \in {connections[x][v], None}
    BY <1>0, <1>3 DEF TypeOK
  <2>2. QED BY ONLY <1>0, <2>1 DEF GuestsStayInGroup
<1>4. QED BY ONLY IInv, Next, MembersStep, <1>1, <1>2, <1>3, Zenon

(* Every step preserves the inductive invariant.                           *)
LEMMA NextIInv == IInv /\ [Next]_vars => IInv'
<1> SUFFICES ASSUME IInv, [Next]_vars PROVE Core'
  <2>1. ASSUME IInv, UNCHANGED vars PROVE GuestsStayInGroup'
    <3>1. UNCHANGED connections
      BY ONLY <2>1, Zenon DEF vars, channelVars
    <3>2. QED BY ONLY <2>1, <3>1, Zenon DEF IInv, GuestsStayInGroup
  <2>2. QED BY <2>1, NextTypeOK, NextGuests DEF IInv, Core
<1>1. CASE UNCHANGED vars
  <2>1. UNCHANGED <<handlerVars, channelVars, purgeVars>>
    BY ONLY <1>1, Zenon DEF vars
  <2>2. Core
    BY ONLY IInv, Zenon DEF IInv, Core
  <2>3. QED
    BY ONLY <2>1, <2>2
    DEF handlerVars, channelVars, purgeVars, Core, MemberInv, MapInv, HandlerInv,
        PurgeInv
<1>2. ASSUME NEW c \in Conns, ClientStep(c) PROVE Core'
  BY ONLY IInv, <1>2, GroupUpsertCore, CallStartCore, MoveCore, Zenon DEF ClientStep
<1>3. ASSUME NEW c \in Conns, HandlerStep(c) PROVE Core'
  BY ONLY IInv, <1>3, MoveCore, JoinCore, LeaveCore, Zenon DEF HandlerStep
<1>4. CASE PurgeStep
  BY ONLY IInv, <1>4, PurgeCore, Zenon
<1>5. QED BY ONLY [Next]_vars, <1>1, <1>2, <1>3, <1>4, Zenon DEF Next

(* IInv holds in every reachable state.                                    *)
LEMMA ChannelsInvariant == Spec => []IInv
  BY InitIInv, NextIInv, PTL DEF Spec

(* Every reachable state of Channels has the declared types.               *)
THEOREM ChannelsTypeCorrect == Spec => []TypeOK
<1>1. IInv => TypeOK
  BY ONLY Zenon DEF IInv
<1>2. QED BY <1>1, ChannelsInvariant, PTL

(* A channel with a member is open and found under its id, for any number  *)
(* of connections, groups and cleanups: processWebRTCMessage and           *)
(* purgeEmptyChannels never split a group or lose a channel in use.        *)
THEOREM ChannelsMembersReachable == Spec => []MembersReachable
<1>1. IInv => MembersReachable
  BY DEF IInv, TypeOK, MemberInv, MapInv, MembersReachable, IsEmpty
<1>2. QED BY <1>1, ChannelsInvariant, PTL

(* A connection whose Close has run all callbacks is in no channel.        *)
THEOREM ChannelsNoGhostMember == Spec => []NoGhostMember
<1>1. IInv => NoGhostMember
  <2>1. IInv => MemberInv
    BY ONLY Zenon DEF IInv
  <2>2. MemberInv => NoGhostMember
    <3> SUFFICES ASSUME MemberInv, NEW ch \in Chans, NEW u \in UserIDs,
                        NEW c \in Conns, connections[ch][u] = c
                 PROVE  pc[c] # "gone"
      BY Zenon DEF NoGhostMember
    <3> QED BY Zenon DEF MemberInv
  <2>3. QED BY ONLY <2>1, <2>2, Zenon
<1>2. QED BY <1>1, ChannelsInvariant, PTL

(* The members of a channel are connections of users a hash was made for.  *)
THEOREM ChannelsMembersHoldHash == Spec => []MembersHoldHash
<1>1. IInv => MembersHoldHash
  BY DEF IInv, TypeOK, MemberInv, MembersHoldHash
<1>2. QED BY <1>1, ChannelsInvariant, PTL

(* A guest is in no channel but those of the groups its auth allows and,   *)
(* if it may create channels, those of calls.                              *)
THEOREM ChannelsGuestsStayInGroup == Spec => []GuestsStayInGroup
<1>1. IInv => GuestsStayInGroup
  BY ONLY Zenon DEF IInv
<1>2. QED BY <1>1, ChannelsInvariant, PTL

(* The late close of a replaced connection does not remove the connection  *)
(* that replaced it, nor does anything else but its own close and its own  *)
(* user's hangups and joins.                                               *)
THEOREM ChannelsReplacementStays == Spec => ReplacementStays
<1>1. ASSUME IInv, [Next]_vars PROVE [PlaceKept]_vars
  <2> USE <1>1 DEF IInv, channelVars
  <2>0. TypeOK /\ MemberInv /\ HandlerInv
    BY ONLY IInv, Zenon DEF IInv
  <2>1. ASSUME UNCHANGED connections PROVE PlaceKept
    BY <2>1 DEF PlaceKept
  <2>2. ASSUME NEW c \in Conns, NEW ch \in Chans, NEW target \in UserIDs,
               CallStart(c, ch, target)
        PROVE  PlaceKept
    <3>1. connections' \in {connections,
                            [connections EXCEPT ![ch][UserOf[c]] = c]}
      BY ONLY <2>0, <2>2, AddEffect DEF CallStart
    <3>2. ch \notin created
      BY ONLY <2>2, Zenon DEF CallStart
    <3>3. \A u \in UserIDs : connections[ch][u] = None
      BY ONLY <2>0, <3>2, ch \in Chans DEF MemberInv, TypeOK
    <3>4. \A x \in Chans, u \in UserIDs :
              x # ch => connections'[x][u] = connections[x][u]
      BY <3>1 DEF TypeOK
    <3>5. QED BY <3>3, <3>4 DEF PlaceKept
  <2>3. ASSUME NEW c \in Conns, GroupAdd(c) \/ CallAdd(c) PROVE PlaceKept
    <3>1. at[c] \in Chans /\ Add(c, at[c]) /\ pc[c] \in {"join", "accept"}
      BY <2>3 DEF GroupAdd, CallAdd, HandlerInv, TypeOK
    <3>2. \/ UNCHANGED connections
          \/ connections' = [connections EXCEPT ![at[c]][UserOf[c]] = c]
      BY ONLY <3>1, TypeOK, c \in Conns, AddEffect
    <3>3. \A x \in Chans, u \in UserIDs :
              connections'[x][u] # connections[x][u] =>
                  x = at[c] /\ u = UserOf[c]
      BY ONLY <2>0, <3>1, <3>2 DEF TypeOK
    <3>4. QED BY ONLY <3>1, <3>3, c \in Conns DEF PlaceKept
  <2>4. ASSUME NEW c \in Conns, HangupRemove(c) PROVE PlaceKept
    <3>1. /\ at[c] \in Chans /\ Remove(at[c], UserOf[c], None)
          /\ pc[c] = "hangup" /\ UserOf[c] \in UserIDs
      BY <2>4 DEF HangupRemove, HandlerInv, TypeOK
    <3>2. \A x \in Chans, u \in UserIDs :
              connections'[x][u] # connections[x][u] =>
                  x = at[c] /\ u = UserOf[c]
      BY ONLY <2>0, <3>1, RemoveEffect, ChannelsAssumption
    <3>3. QED BY ONLY <3>1, <3>2, c \in Conns DEF PlaceKept
  <2>5. ASSUME NEW c \in Conns, NEW ch \in Chans, ClosedCallback(c, ch)
        PROVE  PlaceKept
    <3>1. /\ Remove(ch, UserOf[c], c) /\ pc[c] = "closing"
          /\ UserOf[c] \in UserIDs /\ c # None
      BY <2>5 DEF ClosedCallback
    <3>2. \A x \in Chans, u \in UserIDs :
              connections'[x][u] # connections[x][u] => connections[x][u] = c
      BY ONLY <2>0, <3>1, RemoveEffect, ChannelsAssumption
    <3>3. QED BY ONLY <3>1, <3>2, c \in Conns DEF PlaceKept
  <2>6. ASSUME Next PROVE PlaceKept
    <3>1. ASSUME NEW c \in Conns, ClientStep(c) PROVE PlaceKept
      <4>1. \/ UNCHANGED connections
            \/ \E ch \in Chans, target \in UserIDs : CallStart(c, ch, target)
        BY ONLY <3>1, ZenonT(40)
        DEF ClientStep, GroupUpsert, CallAnswer, SignalOrHangup, Close,
            channelVars
      <4>2. QED BY ONLY <2>1, <2>2, <4>1, c \in Conns, ZenonT(40)
    <3>2. ASSUME NEW c \in Conns, HandlerStep(c) PROVE PlaceKept
      <4>1. \/ UNCHANGED connections
            \/ GroupAdd(c) \/ CallAdd(c) \/ HangupRemove(c)
            \/ \E ch \in Chans : ClosedCallback(c, ch)
        BY ONLY <3>2, Zenon DEF HandlerStep, GroupSize, Reply, CloseDone, channelVars
      <4>2. QED
        BY ONLY <2>1, <2>3, <2>4, <2>5, <4>1, c \in Conns, ZenonT(40)
    <3>3. CASE PurgeStep
      <4>1. UNCHANGED connections
        BY ONLY <3>3
        DEF PurgeStep, PurgeStart, PurgeScan, Cleanup, PurgeRemove, channelVars
      <4>2. QED BY ONLY <2>1, <4>1, Zenon
    <3>4. QED BY ONLY <2>6, <3>1, <3>2, <3>3, Zenon DEF Next
  <2>7. QED BY ONLY <1>1, <2>6, Zenon
<1>2. QED BY <1>1, ChannelsInvariant, PTL DEF Spec, ReplacementStays

(***************************************************************************)
(* Channels implement Membership.                                          *)
(***************************************************************************)

(* The members under an id are those of the one Channel object with that   *)
(* id that has any.                                                        *)
Found ==
    \A k \in Keys, u \in UserIDs :
        /\ MembersOf(k)[u] \in Conns \cup {None}
        /\ \A ch \in Chans : KeyOf[ch] = k /\ connections[ch][u] # None =>
               channels[k] = ch /\ MembersOf(k)[u] = connections[ch][u]
        /\ MembersOf(k)[u] # None =>
               channels[k] \in Chans /\ KeyOf[channels[k]] = k
               /\ MembersOf(k)[u] = connections[channels[k]][u]

(* Which of several Channel objects a lookup finds does not matter.        *)
LEMMA IInvFound == IInv => Found
<1> SUFFICES ASSUME IInv, NEW k \in Keys, NEW u \in UserIDs
             PROVE  /\ MembersOf(k)[u] \in Conns \cup {None}
                    /\ \A ch \in Chans :
                           KeyOf[ch] = k /\ connections[ch][u] # None =>
                               /\ channels[k] = ch
                               /\ MembersOf(k)[u] = connections[ch][u]
                    /\ MembersOf(k)[u] # None =>
                           channels[k] \in Chans /\ KeyOf[channels[k]] = k
                           /\ MembersOf(k)[u] = connections[channels[k]][u]
  BY DEF Found
<1>1. channels[k] \in Chans \cup {None}
  BY DEF IInv, TypeOK
<1>2. \A ch \in Chans : connections[ch][u] \in Conns \cup {None}
  BY DEF IInv, TypeOK
<1>3. \A ch \in Chans : KeyOf[ch] = k /\ connections[ch][u] # None =>
          channels[k] = ch
  BY <1>2 DEF IInv, MemberInv, MapInv
<1>4. channels[k] # None => KeyOf[channels[k]] = k
  BY <1>1 DEF IInv, MapInv
<1>5. QED BY <1>1, <1>2, <1>3, <1>4 DEF MembersOf

Put(f, k, u, x) == [f EXCEPT ![k] = [@ EXCEPT ![u] = x]]

Tables == [Keys -> [UserIDs -> Conns \cup {None}]]

(* Put changes a table of members in one place.                            *)
LEMMA PutIs ==
  ASSUME NEW f \in Tables, NEW k \in Keys, NEW u \in UserIDs,
         NEW x \in Conns \cup {None}
  PROVE  /\ Put(f, k, u, x) \in Tables
         /\ \A j \in Keys, v \in UserIDs :
                Put(f, k, u, x)[j][v] =
                    IF j = k /\ v = u THEN x ELSE f[j][v]
  BY DEF Put, Tables

(* Tables of members are equal if they are in every place.                 *)
LEMMA TablesEqual ==
  ASSUME NEW f \in Tables, NEW g \in Tables,
         \A j \in Keys, v \in UserIDs : f[j][v] = g[j][v]
  PROVE  f = g
<1>1. \A j \in Keys : f[j] = g[j]
  BY DEF Tables
<1>2. QED BY <1>1 DEF Tables

Members == [k \in Keys |-> MembersOf(k)]

(* What Membership sees of a step that leaves Channel.connections alone,   *)
(* sets a place in it, or clears one.                                      *)
LEMMA MembersSeen ==
  ASSUME IInv, IInv'
  PROVE  /\ UNCHANGED connections => UNCHANGED Members
         /\ \A c \in Conns, ch \in Chans :
                connections' = [connections EXCEPT ![ch][UserOf[c]] = c] =>
                    Members' = Put(Members, KeyOf[ch], UserOf[c], c)
         /\ \A ch \in Chans, u \in UserIDs :
                connections' = [connections EXCEPT ![ch][u] = None] =>
                    \/ UNCHANGED Members
                    \/ Members' = Put(Members, KeyOf[ch], u, None)
<1> DEFINE Place == Conns \cup {None}
<1>1. Found /\ Found'
  BY IInvFound, PTL
<1>2. TypeOK /\ TypeOK'
  BY ONLY IInv, IInv', Zenon DEF IInv
<1>3. /\ connections \in [Chans -> [UserIDs -> Place]]
      /\ connections' \in [Chans -> [UserIDs -> Place]]
      /\ channels \in [Keys -> Chans \cup {None}]
      /\ channels' \in [Keys -> Chans \cup {None}]
  BY ONLY <1>2 DEF TypeOK
<1>4. Members \in Tables /\ Members' \in Tables
  BY ONLY <1>3 DEF Members, MembersOf, Tables
<1>5. /\ \A k \in Keys : Members[k] = MembersOf(k)
      /\ \A k \in Keys : Members'[k] = MembersOf(k)'
  BY ONLY DEF Members
<1> HIDE DEF Members
<1>6. ASSUME UNCHANGED connections PROVE UNCHANGED Members
  <2>1. \A k \in Keys, u \in UserIDs : Members'[k][u] = Members[k][u]
    BY ONLY <1>1, <1>5, <1>6, ChannelsAssumption, SMTT(40) DEF Found
  <2>2. QED BY ONLY <1>4, <2>1, TablesEqual, Zenon
<1>7. ASSUME NEW c \in Conns, NEW ch \in Chans,
             connections' = [connections EXCEPT ![ch][UserOf[c]] = c]
      PROVE  Members' = Put(Members, KeyOf[ch], UserOf[c], c)
  <2>0. /\ KeyOf[ch] \in Keys /\ UserOf[c] \in UserIDs /\ c \in Place
        /\ c # None
    OBVIOUS
  <2>1. \A x \in Chans, v \in UserIDs :
            connections'[x][v] =
                IF x = ch /\ v = UserOf[c] THEN c ELSE connections[x][v]
    BY ONLY <1>3, <1>7, <2>0, SMTT(40)
  <2>2. \A j \in Keys, v \in UserIDs :
            Members'[j][v] = IF j = KeyOf[ch] /\ v = UserOf[c] THEN c
                             ELSE Members[j][v]
    BY ONLY <1>1, <1>5, <2>0, <2>1, ch \in Chans, SMTT(40) DEF Found
  <2> DEFINE p == Put(Members, KeyOf[ch], UserOf[c], c)
  <2>3. /\ p \in Tables
        /\ \A j \in Keys, v \in UserIDs :
               p[j][v] = IF j = KeyOf[ch] /\ v = UserOf[c] THEN c
                         ELSE Members[j][v]
    BY ONLY <1>4, <2>0, PutIs
  <2> HIDE DEF p
  <2>4. Members' = p
    BY ONLY <1>4, <2>2, <2>3, TablesEqual
  <2>5. QED BY ONLY <2>4, Zenon DEF p
<1>8. ASSUME NEW ch \in Chans, NEW u \in UserIDs,
             connections' = [connections EXCEPT ![ch][u] = None]
      PROVE  \/ UNCHANGED Members
             \/ Members' = Put(Members, KeyOf[ch], u, None)
  <2>0. KeyOf[ch] \in Keys /\ None \in Place
    OBVIOUS
  <2>1. \A x \in Chans, v \in UserIDs :
            connections'[x][v] =
                IF x = ch /\ v = u THEN None ELSE connections[x][v]
    BY ONLY <1>3, <1>8
  <2>2. CASE connections[ch][u] = None
    <3>1. UNCHANGED connections
      <4>1. \A x \in Chans : connections'[x] = connections[x]
        BY ONLY <1>3, <2>1, <2>2
      <4>2. QED BY ONLY <1>3, <4>1
    <3>2. QED BY ONLY <1>6, <3>1, Zenon
  <2>3. CASE connections[ch][u] # None
    <3>1. \A j \in Keys, v \in UserIDs :
              Members'[j][v] = IF j = KeyOf[ch] /\ v = u THEN None
                               ELSE Members[j][v]
      BY ONLY <1>1, <1>5, <2>0, <2>1, <2>3, ch \in Chans, SMTT(40) DEF Found
    <3> DEFINE p == Put(Members, KeyOf[ch], u, None)
    <3>2. /\ p \in Tables
          /\ \A j \in Keys, v \in UserIDs :
                 p[j][v] = IF j = KeyOf[ch] /\ v = u THEN None
                           ELSE Members[j][v]
      BY ONLY <1>4, <2>0, u \in UserIDs, PutIs
    <3> HIDE DEF p
    <3>3. Members' = p
      BY ONLY <1>4, <3>1, <3>2, TablesEqual
    <3>4. QED BY ONLY <3>3, Zenon DEF p
  <2>4. QED BY ONLY <2>2, <2>3, Zenon
<1>9. QED BY ONLY <1>6, <1>7, <1>8, Zenon

(* The steps of Membership in terms of Members.                            *)
LEMMA Abstract ==
  /\ UNCHANGED <<Members, hashed, Gone>> => UNCHANGED M!mvars
  /\ \A k \in Keys :
         /\ hashed[k] \subseteq hashed'[k]
         /\ hashed' = [hashed EXCEPT ![k] = hashed'[k]]
         /\ UNCHANGED <<Members, Gone>>
         => M!Next
  /\ \A k \in Keys, c \in Conns :
         /\ c \notin Gone /\ UserOf[c] \in hashed'[k]
         /\ Members' = Put(Members, k, UserOf[c], c)
         /\ hashed[k] \subseteq hashed'[k]
         /\ hashed' = [hashed EXCEPT ![k] = hashed'[k]]
         /\ UNCHANGED Gone
         => M!Next
  /\ \A k \in Keys, u \in UserIDs :
         Members' = Put(Members, k, u, None) /\ UNCHANGED <<hashed, Gone>>
         => M!Next
  /\ \A c \in Conns :
         /\ \A k \in Keys, u \in UserIDs : Members[k][u] # c
         /\ Gone' = Gone \cup {c}
         /\ UNCHANGED <<Members, hashed>>
         => M!Next
<1> USE DEF Members, Put
<1>1. UNCHANGED <<Members, hashed, Gone>> => UNCHANGED M!mvars
  BY ONLY Zenon DEF M!mvars
<1>2. \A k \in Keys :
         /\ hashed[k] \subseteq hashed'[k]
         /\ hashed' = [hashed EXCEPT ![k] = hashed'[k]]
         /\ UNCHANGED <<Members, Gone>>
         => M!Next
  BY ONLY Zenon DEF M!Next, M!Invite
<1>3. \A k \in Keys, c \in Conns :
         /\ c \notin Gone /\ UserOf[c] \in hashed'[k]
         /\ Members' = Put(Members, k, UserOf[c], c)
         /\ hashed[k] \subseteq hashed'[k]
         /\ hashed' = [hashed EXCEPT ![k] = hashed'[k]]
         /\ UNCHANGED Gone
         => M!Next
  BY ONLY Zenon DEF M!Next, M!Join, M!Invite
<1>4. \A k \in Keys, u \in UserIDs :
         Members' = Put(Members, k, u, None) /\ UNCHANGED <<hashed, Gone>>
         => M!Next
  BY ONLY Zenon DEF M!Next, M!Leave
<1>5. \A c \in Conns :
         /\ \A k \in Keys, u \in UserIDs : Members[k][u] # c
         /\ Gone' = Gone \cup {c}
         /\ UNCHANGED <<Members, hashed>>
         => M!Next
  BY ONLY Zenon DEF M!Next, M!Go
<1>6. QED BY ONLY <1>1, <1>2, <1>3, <1>4, <1>5, Zenon

(* A step of a handler that adds its connection.                           *)
LEMMA JoinSeen ==
  ASSUME IInv, IInv', NEW c \in Conns, NEW ch \in Chans, Add(c, ch),
         UNCHANGED Gone, c \notin Gone,
         hashed[KeyOf[ch]] \subseteq hashed'[KeyOf[ch]],
         hashed' = [hashed EXCEPT ![KeyOf[ch]] = hashed'[KeyOf[ch]]],
         ~closed[ch] => UserOf[c] \in hashed'[KeyOf[ch]]
  PROVE  M!Next
<1> DEFINE k == KeyOf[ch]
<1>0. k \in Keys /\ TypeOK
  BY ONLY IInv, ch \in Chans, ChannelsAssumption DEF IInv, ChannelsAssumption
<1>1. \/ UNCHANGED connections
      \/ /\ ~closed[ch]
         /\ connections' = [connections EXCEPT ![ch][UserOf[c]] = c]
  BY ONLY <1>0, Add(c, ch), c \in Conns, ch \in Chans, AddEffect, Zenon
<1> HIDE DEF k
<1>2. /\ hashed[k] \subseteq hashed'[k]
      /\ hashed' = [hashed EXCEPT ![k] = hashed'[k]]
      /\ ~closed[ch] => UserOf[c] \in hashed'[k]
  BY DEF k
<1>3. CASE UNCHANGED connections
  <2>1. UNCHANGED Members
    BY ONLY IInv, IInv', <1>3, MembersSeen, Zenon
  <2>2. QED BY ONLY <1>0, <1>2, <2>1, UNCHANGED Gone, Abstract, Zenon
<1>4. CASE /\ ~closed[ch]
           /\ connections' = [connections EXCEPT ![ch][UserOf[c]] = c]
  <2>1. Members' = Put(Members, k, UserOf[c], c)
    BY ONLY <1>4, IInv, IInv', c \in Conns, ch \in Chans, MembersSeen, Zenon
    DEF k
  <2>2. QED
    BY ONLY <1>0, <1>2, <1>4, <2>1, UNCHANGED Gone, c \notin Gone, c \in Conns,
            Abstract, Zenon
<1>5. QED BY ONLY <1>1, <1>3, <1>4, Zenon

(* A step that clears a place in a channel.                                *)
LEMMA LeaveSeen ==
  ASSUME IInv, IInv', NEW ch \in Chans, NEW u \in UserIDs,
         \/ UNCHANGED connections
         \/ connections' = [connections EXCEPT ![ch][u] = None],
         UNCHANGED <<hashed, Gone>>
  PROVE  M!Next \/ UNCHANGED M!mvars
<1>1. UNCHANGED Members \/ Members' = Put(Members, KeyOf[ch], u, None)
  BY ONLY IInv, IInv', ch \in Chans, u \in UserIDs, MembersSeen, Zenon,
     \/ UNCHANGED connections
     \/ connections' = [connections EXCEPT ![ch][u] = None]
<1>2. KeyOf[ch] \in Keys
  OBVIOUS
<1>3. QED
  BY ONLY <1>1, <1>2, u \in UserIDs, UNCHANGED <<hashed, Gone>>, Abstract, Zenon

(* Every step is a step of Membership or is not seen there.                *)
LEMMA StepMembership ==
  ASSUME IInv, IInv', [Next]_vars
  PROVE  M!Next \/ UNCHANGED M!mvars
<1> DEFINE Goal == M!Next \/ UNCHANGED M!mvars
<1>0. TypeOK /\ MemberInv /\ HandlerInv
  BY ONLY IInv, Zenon DEF IInv
<1>1. ASSUME UNCHANGED <<connections, hashed>>,
             \A c \in Conns : pc'[c] = "gone" <=> pc[c] = "gone"
      PROVE  Goal
  <2>1. UNCHANGED Gone
    BY ONLY <1>1 DEF Gone
  <2>2. UNCHANGED Members
    BY ONLY IInv, IInv', <1>1, MembersSeen, Zenon
  <2>3. QED BY ONLY <1>1, <2>1, <2>2, Abstract, Zenon
<1>2. CASE UNCHANGED vars
  BY ONLY <1>1, <1>2 DEF vars, handlerVars, channelVars
<1>3. ASSUME NEW c \in Conns, ClientStep(c) PROVE Goal
  <2>1. ASSUME NEW ch \in Chans, NEW target \in UserIDs,
               CallStart(c, ch, target)
        PROVE  Goal
    <3>1. Add(c, ch) /\ UNCHANGED pc /\ pc[c] = "idle"
      BY ONLY <2>1 DEF CallStart
    <3>2. UNCHANGED Gone /\ c \notin Gone
      BY ONLY <3>1 DEF Gone
    <3>3. /\ hashed \in [Keys -> SUBSET UserIDs] /\ KeyOf[ch] \in Keys
          /\ hashed' = [hashed EXCEPT ![KeyOf[ch]] =
                 @ \cup {UserOf[c], target}]
      BY <1>0, <2>1 DEF TypeOK, CallStart
    <3>4. /\ hashed[KeyOf[ch]] \subseteq hashed'[KeyOf[ch]]
          /\ hashed' = [hashed EXCEPT ![KeyOf[ch]] = hashed'[KeyOf[ch]]]
          /\ UserOf[c] \in hashed'[KeyOf[ch]]
      BY ONLY <3>3, Zenon
    <3>5. QED
      BY ONLY IInv, IInv', c \in Conns, ch \in Chans, <3>1, <3>2, <3>4, JoinSeen,
              Zenon
  <2>2. \/ /\ UNCHANGED <<connections, hashed>>
           /\ \E to \in Phases \ {"gone"} :
                  pc[c] = "idle" /\ pc' = [pc EXCEPT ![c] = to]
        \/ \E ch \in Chans, target \in UserIDs : CallStart(c, ch, target)
    BY ONLY <1>3, Zenon
    DEF ClientStep, GroupUpsert, CallAnswer, SignalOrHangup, Close, Enter, Goto,
        Phases, channelVars
  <2>3. ASSUME NEW to \in Phases \ {"gone"}, pc[c] = "idle",
               pc' = [pc EXCEPT ![c] = to]
        PROVE  \A d \in Conns : pc'[d] = "gone" <=> pc[d] = "gone"
    BY ONLY <1>0, <2>3, c \in Conns DEF TypeOK
  <2>4. QED BY ONLY <1>1, <2>1, <2>2, <2>3, Zenon
<1>4. ASSUME NEW c \in Conns, HandlerStep(c) PROVE Goal
  <2>0. pc \in [Conns -> Phases] /\ UserOf[c] \in UserIDs
    BY <1>0 DEF TypeOK
  <2>1. CASE GroupSize(c) \/ Reply(c)
    <3>1. \A d \in Conns : pc'[d] = "gone" <=> pc[d] = "gone"
      BY ONLY <2>0, <2>1, ZenonT(40) DEF GroupSize, Reply, Return, Goto
    <3>2. UNCHANGED <<connections, hashed>>
      BY ONLY <2>1 DEF GroupSize, Reply, channelVars
    <3>3. QED BY ONLY <1>1, <3>1, <3>2, Zenon
  <2>2. CASE GroupAdd(c) \/ CallAdd(c)
    <3>1. at[c] \in Chans /\ Add(c, at[c]) /\ KeyOf[at[c]] \in Keys
      BY <1>0, <2>2 DEF GroupAdd, CallAdd, HandlerInv, TypeOK
    <3>2. UNCHANGED Gone /\ c \notin Gone
      <4>1. pc[c] # "gone"
            /\ \A d \in Conns : pc'[d] = "gone" <=> pc[d] = "gone"
        BY ONLY <2>0, <2>2, ZenonT(40) DEF GroupAdd, CallAdd, Return, Goto
      <4>2. QED BY ONLY <4>1, SMTT(40) DEF Gone
    <3>3. /\ hashed \in [Keys -> SUBSET UserIDs]
          /\ \/ hashed' = [hashed EXCEPT ![KeyOf[at[c]]] = @ \cup {UserOf[c]}]
             \/ /\ UNCHANGED hashed
                /\ closed[at[c]] \/ UserOf[c] \in hashed[KeyOf[at[c]]]
      BY ONLY <1>0, <2>2, c \in Conns, Zenon
      DEF GroupAdd, CallAdd, HandlerInv, TypeOK
    <3>4. /\ hashed[KeyOf[at[c]]] \subseteq hashed'[KeyOf[at[c]]]
          /\ hashed' = [hashed EXCEPT ![KeyOf[at[c]]] = hashed'[KeyOf[at[c]]]]
          /\ ~closed[at[c]] => UserOf[c] \in hashed'[KeyOf[at[c]]]
      BY ONLY <3>1, <3>3, Zenon
    <3>5. QED
      BY ONLY IInv, IInv', c \in Conns, <3>1, <3>2, <3>4, JoinSeen, Zenon
  <2>3. CASE HangupRemove(c)
    <3>1. at[c] \in Chans
      BY <1>0, <2>3 DEF HangupRemove, HandlerInv, TypeOK
    <3>2. /\ \/ UNCHANGED connections
             \/ connections' = [connections EXCEPT ![at[c]][UserOf[c]] = None]
          /\ UNCHANGED hashed
      BY ONLY <2>3, Zenon DEF HangupRemove, Remove
    <3>3. \A d \in Conns : pc'[d] = "gone" <=> pc[d] = "gone"
      BY ONLY <2>0, <2>3 DEF HangupRemove, Return, Goto
    <3>4. UNCHANGED Gone
      BY ONLY <3>3 DEF Gone
    <3>5. QED BY ONLY IInv, IInv', <2>0, <3>1, <3>2, <3>4, LeaveSeen, Zenon
  <2>4. ASSUME NEW ch \in Chans, ClosedCallback(c, ch) PROVE Goal
    <3>1. /\ \/ UNCHANGED connections
             \/ connections' = [connections EXCEPT ![ch][UserOf[c]] = None]
          /\ UNCHANGED <<hashed, pc>>
      BY ONLY <2>4, Zenon DEF ClosedCallback, Remove
    <3>2. UNCHANGED Gone
      BY ONLY <3>1 DEF Gone
    <3>3. QED
      BY ONLY IInv, IInv', ch \in Chans, <2>0, <3>1, <3>2, LeaveSeen, Zenon
  <2>5. CASE CloseDone(c)
    <3>1. UNCHANGED <<connections, hashed>> /\ callbacks[c] = {}
      BY ONLY <2>5 DEF CloseDone, channelVars
    <3>2. UNCHANGED Members
      BY ONLY IInv, IInv', <3>1, MembersSeen, Zenon
    <3>3. \A d \in Conns : pc'[d] = "gone" <=> pc[d] = "gone" \/ d = c
      BY ONLY <2>0, <2>5, c \in Conns DEF CloseDone, Goto
    <3>4. Gone' = Gone \cup {c}
      BY ONLY <3>3, c \in Conns DEF Gone
    <3>5. \A k \in Keys, u \in UserIDs : Members[k][u] # c
      <4>1. \A ch \in Chans, u \in UserIDs : connections[ch][u] # c
        BY ONLY <1>0, <3>1, c \in Conns DEF MemberInv
      <4>2. Found
        BY ONLY IInv, IInvFound, Zenon
      <4>3. \A k \in Keys, u \in UserIDs : MembersOf(k)[u] # c
        BY ONLY <4>1, <4>2, c \in Conns, ChannelsAssumption DEF Found
      <4>4. QED BY ONLY <4>3 DEF Members
    <3>6. QED BY ONLY <3>1, <3>2, <3>4, <3>5, c \in Conns, Abstract, Zenon
  <2>6. QED BY ONLY <1>4, <2>1, <2>2, <2>3, <2>4, <2>5, Zenon DEF HandlerStep
<1>5. CASE PurgeStep
  <2>1. UNCHANGED <<connections, hashed, pc>>
    BY ONLY <1>5, ZenonT(40)
    DEF PurgeStep, PurgeStart, PurgeScan, Cleanup, PurgeRemove, handlerVars,
        channelVars
  <2>2. QED BY ONLY <1>1, <2>1
<1>6. QED BY ONLY [Next]_vars, <1>2, <1>3, <1>4, <1>5, Zenon DEF Next

(* Channels implement Membership, for any number of connections, users and *)
(* channels.                                                               *)
THEOREM ChannelsImplementMembership == Spec => ImplementsMembership
<1>1. Init => M!Init
  <2> SUFFICES ASSUME Init PROVE M!Init
    OBVIOUS
  <2>1. \A k \in Keys : MembersOf(k) = [u \in UserIDs |-> None]
    BY DEF Init, MembersOf
  <2>2. Gone = {}
    BY DEF Init, Gone
  <2>3. QED BY ONLY <2>1, <2>2, Init DEF Init, M!Init
<1>2. IInv /\ IInv' /\ [Next]_vars => [M!Next]_(M!mvars)
  BY StepMembership
<1>3. QED BY <1>1, <1>2, ChannelsInvariant, PTL DEF Spec, ImplementsMembership, M!Spec

-----------------------------------------------------------------------------
(* Channels that are left locked.                                          *)

(* A step leaves a channel's members and lock alone, is an Add of somebody *)
(* who has the hash or joins a group or a new channel, or a Remove.        *)
LEMMA LockSteps ==
  ASSUME IInv, [Next]_vars
  PROVE  \/ UNCHANGED <<connections, locked>>
         \/ \E c \in Conns, ch \in Chans :
                /\ Add(c, ch)
                /\ UserOf[c] \in hashed[KeyOf[ch]] \/ IsGroup(ch) \/ ch \notin created
         \/ \E ch \in Chans, u \in UserIDs :
                /\ ~locked[ch] /\ UNCHANGED locked
                /\ \/ UNCHANGED connections
                   \/ connections' = [connections EXCEPT ![ch][u] = None]
<1> DEFINE Goal == \/ UNCHANGED <<connections, locked>>
                   \/ \E c \in Conns, ch \in Chans :
                          /\ Add(c, ch)
                          /\ \/ UserOf[c] \in hashed[KeyOf[ch]] \/ IsGroup(ch)
                             \/ ch \notin created
                   \/ \E ch \in Chans, u \in UserIDs :
                          /\ ~locked[ch] /\ UNCHANGED locked
                          /\ \/ UNCHANGED connections
                             \/ connections' = [connections EXCEPT ![ch][u] = None]
<1>0. TypeOK /\ HandlerInv
  BY ONLY IInv, Zenon DEF IInv
<1>1. ASSUME NEW c \in Conns, NEW ch \in Chans, NEW target \in UserIDs,
             CallStart(c, ch, target)
      PROVE  Goal
  BY ONLY <1>1, Zenon DEF CallStart
<1>2. ASSUME NEW c \in Conns, GroupAdd(c) \/ CallAdd(c) PROVE Goal
  <2>1. /\ at[c] \in Chans /\ Add(c, at[c])
        /\ UserOf[c] \in hashed[KeyOf[at[c]]] \/ Allowed(c, KeyOf[at[c]])
    BY <1>0, <1>2 DEF GroupAdd, CallAdd, HandlerInv, TypeOK
  <2>2. Allowed(c, KeyOf[at[c]]) => IsGroup(at[c])
    <3>1. /\ UserOf[c] \in UserIDs /\ KeyOf[at[c]] \in Keys /\ None \notin Keys
          /\ \A u \in UserIDs : Auth[u].groups \subseteq GroupKeys \cup {None}
      <4>1. UserOf[c] \in UserIDs /\ KeyOf[at[c]] \in Keys /\ None \notin Keys
        BY ONLY ChannelsAssumption, <2>1, c \in Conns, Zenon
      <4>2. \A u \in UserIDs : Auth[u].groups \subseteq GroupKeys \cup {None}
        BY ONLY ChannelsAssumption
      <4>3. QED BY ONLY <4>1, <4>2, Zenon
    <3>2. CASE KeyOf[at[c]] \in GroupKeys
      BY ONLY <3>2, Zenon DEF IsGroup
    <3>3. CASE KeyOf[at[c]] \notin GroupKeys
      <4>1. KeyOf[at[c]] \notin Auth[UserOf[c]].groups
        BY ONLY <3>1, <3>3, Zenon
      <4>2. QED BY ONLY <4>1, Zenon DEF Allowed
    <3>4. QED BY <3>2, <3>3, Zenon
  <2>3. QED BY ONLY <2>1, <2>2, c \in Conns, Zenon
<1>3. ASSUME NEW c \in Conns, HangupRemove(c) PROVE Goal
  <2>1. at[c] \in Chans /\ UserOf[c] \in UserIDs
    BY <1>0, <1>3 DEF HangupRemove, HandlerInv, TypeOK
  <2>2. QED BY ONLY <1>3, <2>1, Zenon DEF HangupRemove, Remove
<1>4. ASSUME NEW c \in Conns, NEW ch \in Chans, ClosedCallback(c, ch) PROVE Goal
  <2>1. UserOf[c] \in UserIDs
    OBVIOUS
  <2>2. QED BY ONLY <1>4, <2>1, Zenon DEF ClosedCallback, Remove
<1>5. ASSUME NEW c \in Conns, ClientStep(c) PROVE Goal
  <2>1. \/ UNCHANGED <<connections, locked>>
        \/ \E ch \in Chans, target \in UserIDs : CallStart(c, ch, target)
    BY ONLY <1>5, ZenonT(40)
    DEF ClientStep, GroupUpsert, CallAnswer, SignalOrHangup, Close, channelVars
  <2>2. QED BY ONLY <1>1, <1>5, <2>1, Zenon
<1>6. ASSUME NEW c \in Conns, HandlerStep(c) PROVE Goal
  <2>1. \/ UNCHANGED <<connections, locked>>
        \/ GroupAdd(c) \/ CallAdd(c) \/ HangupRemove(c)
        \/ \E ch \in Chans : ClosedCallback(c, ch)
    BY ONLY <1>6, Zenon DEF HandlerStep, GroupSize, Reply, CloseDone, channelVars
  <2>2. QED BY ONLY <1>2, <1>3, <1>4, <1>6, <2>1, Zenon
<1>7. CASE PurgeStep
  BY ONLY <1>7, Zenon
  DEF PurgeStep, PurgeStart, PurgeScan, Cleanup, PurgeRemove, channelVars
<1>8. CASE UNCHANGED vars
  BY ONLY <1>8, Zenon DEF vars, channelVars
<1>9. QED BY ONLY [Next]_vars, <1>5, <1>6, <1>7, <1>8, Zenon DEF Next

(* Nobody loses a hash, and only an unlocked channel is closed.            *)
LEMMA HashesStay ==
  ASSUME TypeOK, [Next]_vars
  PROVE  /\ \A k \in Keys : hashed[k] \subseteq hashed'[k]
         /\ \A ch \in Chans : locked[ch] => closed'[ch] = closed[ch]
<1> DEFINE More(k) == \E Y : /\ hashed[k] \subseteq Y
                             /\ hashed' = [hashed EXCEPT ![k] = Y]
<1>1. UNCHANGED hashed \/ \E k : More(k)
  <2>1. ASSUME NEW c \in Conns, NEW ch \in Chans, NEW target \in UserIDs,
               CallStart(c, ch, target)
        PROVE  More(KeyOf[ch])
    <3>1. PICK Y : Y = hashed[KeyOf[ch]] \cup {UserOf[c], target}
      BY Zenon
    <3>2. hashed' = [hashed EXCEPT ![KeyOf[ch]] = Y]
      BY ONLY <2>1, <3>1, Zenon DEF CallStart
    <3>3. hashed[KeyOf[ch]] \subseteq Y
      BY ONLY <3>1, Zenon
    <3>4. QED BY ONLY <3>2, <3>3, Zenon
  <2>2. ASSUME NEW c \in Conns, GroupAdd(c)
        PROVE  UNCHANGED hashed \/ More(KeyOf[at[c]])
    <3>1. PICK Y : Y = hashed[KeyOf[at[c]]] \cup {UserOf[c]}
      BY Zenon
    <3>2. UNCHANGED hashed \/ hashed' = [hashed EXCEPT ![KeyOf[at[c]]] = Y]
      BY ONLY <2>2, <3>1, Zenon DEF GroupAdd
    <3>3. hashed[KeyOf[at[c]]] \subseteq Y
      BY ONLY <3>1, Zenon
    <3>4. QED BY ONLY <3>2, <3>3, Zenon
  <2>3. ASSUME NEW c \in Conns, ClientStep(c)
        PROVE  \/ UNCHANGED hashed
               \/ \E ch \in Chans, target \in UserIDs : CallStart(c, ch, target)
    BY ONLY <2>3, ZenonT(40)
    DEF ClientStep, GroupUpsert, CallAnswer, SignalOrHangup, Close, channelVars
  <2>4. ASSUME NEW c \in Conns, HandlerStep(c) PROVE UNCHANGED hashed \/ GroupAdd(c)
    BY ONLY <2>4, Zenon
    DEF HandlerStep, GroupSize, CallAdd, Reply, HangupRemove, ClosedCallback,
        CloseDone, channelVars
  <2>5. ASSUME PurgeStep \/ UNCHANGED vars PROVE UNCHANGED hashed
    BY ONLY <2>5, Zenon
    DEF PurgeStep, PurgeStart, PurgeScan, Cleanup, PurgeRemove, vars, channelVars
  <2>6. QED
    BY ONLY [Next]_vars, <2>1, <2>2, <2>3, <2>4, <2>5, Zenon DEF Next
<1>2. UNCHANGED closed \/ \E ch \in Chans : Cleanup(ch)
  BY ONLY [Next]_vars, ZenonT(60)
  DEF Next, ClientStep, GroupUpsert, CallStart, CallAnswer, SignalOrHangup, Close,
      HandlerStep, GroupSize, GroupAdd, CallAdd, Reply, HangupRemove,
      ClosedCallback, CloseDone, PurgeStep, PurgeStart, PurgeScan, PurgeRemove,
      vars, channelVars
<1>3. ASSUME NEW k \in Keys PROVE hashed[k] \subseteq hashed'[k]
  <2>1. k \in DOMAIN hashed
    BY DEF TypeOK
  <2>2. QED BY ONLY <1>1, <2>1, Zenon
<1>4. ASSUME NEW ch \in Chans, locked[ch] PROVE closed'[ch] = closed[ch]
  <2>1. ASSUME NEW x \in Chans, Cleanup(x) PROVE closed'[ch] = closed[ch]
    BY <1>4, <2>1 DEF Cleanup, TypeOK
  <2>2. QED BY <1>2, <2>1, Zenon
<1>5. QED BY <1>3, <1>4

(* A channel that is locked is left alone, and one that gets locked was    *)
(* found as KeptLock says.                                                 *)
LEMMA LockKept ==
  ASSUME IInv, [Next]_vars, NEW ch \in Chans
  PROVE  /\ locked[ch] => locked'[ch] /\ connections'[ch] = connections[ch]
         /\ locked'[ch] /\ ~locked[ch] =>
                /\ ~IsGroup(ch) /\ UNCHANGED connections
                /\ \E c \in Conns :
                       /\ UserOf[c] \in hashed[KeyOf[ch]]
                       /\ connections[ch][UserOf[c]] \notin {None, c}
<1> DEFINE Goal == /\ locked[ch] => locked'[ch] /\ connections'[ch] = connections[ch]
                   /\ locked'[ch] /\ ~locked[ch] =>
                        /\ ~IsGroup(ch) /\ UNCHANGED connections
                        /\ \E c \in Conns :
                               /\ UserOf[c] \in hashed[KeyOf[ch]]
                               /\ connections[ch][UserOf[c]] \notin {None, c}
<1>0. /\ locked \in [Chans -> BOOLEAN]
      /\ connections \in [Chans -> [UserIDs -> Conns \cup {None}]]
      /\ MemberInv
  BY DEF IInv, TypeOK
<1>1. CASE UNCHANGED <<connections, locked>>
  BY ONLY <1>1, Zenon
<1>2. ASSUME NEW c \in Conns, NEW x \in Chans, Add(c, x),
             UserOf[c] \in hashed[KeyOf[x]] \/ IsGroup(x) \/ x \notin created
      PROVE  Goal
  <2>1. PICK old : old = connections[x][UserOf[c]]
    BY Zenon
  <2>2. PICK taken \in BOOLEAN : taken <=> old # None /\ old # c /\ ~IsGroup(x)
    BY Zenon
  <2>3. /\ ~locked[x]
        /\ \/ /\ locked' = [locked EXCEPT ![x] = ~closed[x] /\ taken]
              /\ UNCHANGED connections
           \/ /\ connections' = [connections EXCEPT ![x][UserOf[c]] = c]
              /\ UNCHANGED locked
    <3>1. taken = (old # None /\ old # c /\ ~IsGroup(x))
      BY ONLY <2>2
    <3>2. QED BY ONLY <1>2, <2>1, <3>1, Zenon DEF Add
  <2>4. CASE ch # x
    <3>1. locked'[ch] = locked[ch] /\ connections'[ch] = connections[ch]
      BY ONLY <1>0, <2>3, <2>4, ch \in Chans
    <3>2. QED BY ONLY <3>1, Zenon
  <2>5. CASE ch = x
    <3>1. locked'[x] => taken /\ UNCHANGED connections
      BY ONLY <1>0, <2>3, x \in Chans
    <3>2. taken => x \in created
      <4>1. UserOf[c] \in UserIDs
        OBVIOUS
      <4>2. old \in Conns \cup {None}
        BY ONLY <1>0, <2>1, <4>1, x \in Chans
      <4>3. QED BY ONLY <1>0, <2>1, <2>2, <4>1, <4>2, x \in Chans DEF MemberInv
    <3>3. QED BY ONLY <1>2, <2>1, <2>2, <2>3, <2>5, <3>1, <3>2, Zenon
  <2>6. QED BY ONLY <2>4, <2>5, Zenon
<1>3. ASSUME NEW x \in Chans, NEW u \in UserIDs, ~locked[x], UNCHANGED locked,
             \/ UNCHANGED connections
             \/ connections' = [connections EXCEPT ![x][u] = None]
      PROVE  Goal
  <2>1. ch # x => connections'[ch] = connections[ch]
    BY ONLY <1>0, <1>3, ch \in Chans
  <2>2. QED BY ONLY <1>3, <2>1, Zenon
<1>4. QED BY ONLY IInv, [Next]_vars, LockSteps, <1>1, <1>2, <1>3, Zenon

(* Add leaves a channel locked only when a user a hash was made for, the   *)
(* caller or the user called, accepts on a second connection.  Group       *)
(* channels are never left locked.                                         *)
THEOREM ChannelsKeptLock == Spec => []KeptLock
<1>1. Init => KeptLock
  BY DEF Init, KeptLock
<1>2. ASSUME IInv, KeptLock, [Next]_vars PROVE KeptLock'
  <2> SUFFICES ASSUME NEW ch \in Chans, locked'[ch]
               PROVE  /\ ~IsGroup(ch)
                      /\ \E c \in Conns :
                             /\ UserOf[c] \in hashed'[KeyOf[ch]]
                             /\ connections'[ch][UserOf[c]] \notin {None, c}
    BY Zenon DEF KeptLock, IsGroup
  <2>1. hashed[KeyOf[ch]] \subseteq hashed'[KeyOf[ch]]
    <3>1. TypeOK /\ KeyOf[ch] \in Keys
      BY <1>2 DEF IInv
    <3>2. QED BY <1>2, <3>1, HashesStay
  <2>2. CASE locked[ch]
    <3>1. connections'[ch] = connections[ch]
      BY ONLY <1>2, <2>2, ch \in Chans, LockKept, Zenon
    <3>2. QED BY ONLY <1>2, <2>1, <2>2, <3>1, ch \in Chans, Zenon DEF KeptLock
  <2>3. CASE ~locked[ch]
    BY ONLY <1>2, <2>1, <2>3, locked'[ch], ch \in Chans, LockKept, Zenon
  <2>4. QED BY <2>2, <2>3
<1>3. QED BY <1>1, <1>2, ChannelsInvariant, PTL DEF Spec

(* Nothing ever changes in a channel that is left locked.                  *)
THEOREM ChannelsLockedForGood == Spec => LockedForGood
<1> DEFINE Frozen == \A ch \in Chans : locked[ch] =>
                         /\ locked'[ch]
                         /\ connections'[ch] = connections[ch]
                         /\ closed'[ch] = closed[ch]
<1>1. ASSUME IInv, [Next]_vars PROVE Frozen
  <2>1. TypeOK
    BY <1>1 DEF IInv
  <2>2. QED BY ONLY <1>1, <2>1, LockKept, HashesStay, Zenon
<1>2. QED BY <1>1, ChannelsInvariant, PTL DEF Spec, LockedForGood

-----------------------------------------------------------------------------
(* Guests, from the logon request to the channel.                          *)

(* Lookup lets nobody in without an id.                                    *)
LEMMA LookupNamed ==
    ASSUME NEW clients, NEW uri, NEW id, NEW secret, NEW origin, NEW without,
           Lookup(clients, uri, id, secret, origin, without).ok
    PROVE  id # ""
  BY Zenon DEF Lookup

(* The client it returns is the registered one of that id.                 *)
LEMMA LookupFinds ==
    ASSUME NEW clients, NEW uri, NEW id, NEW secret, NEW origin, NEW without,
           Lookup(clients, uri, id, secret, origin, without).client # NoClient
    PROVE  /\ id \in DOMAIN clients
           /\ Lookup(clients, uri, id, secret, origin, without).client = clients[id]
  BY Zenon DEF Lookup

(* A logon that is not refused was for a public path of the manager and    *)
(* made by a registered client, whatever origin is trusted, that has a key *)
(* and a method to sign with; the claims hold that path.                   *)
LEMMA LogonGrants ==
    ASSUME NEW m, NEW req, Logon(m, req) # Refused
    PROVE  /\ Logon(m, req) = [type |-> guestTypeSimple, path |-> req.path.name]
           /\ req.path.name \in m.public /\ req.path.name # ""
           /\ req.client # "" /\ Private(m.registry[req.client], "") # NoClient
           /\ m.registry[req.client].alg \in SigningMethods
           /\ req.client \in DOMAIN m.registry
<1>1. /\ Logon(m, req) = [type |-> req.guest, path |-> req.path.name]
      /\ req.guest = guestTypeSimple
      /\ req.path.name # "" /\ req.path.name \in m.public
      /\ MaySign(m, req.client)
  BY Zenon DEF Logon, TrimSpace, isValidPublicPath
<1> DEFINE reg == m.registry
           uri == m.trustedURI
           id == req.client
           none == ""
           look(without) == Lookup(reg, uri, id, none, NoOrigin, without)
<1>2. /\ look(TRUE).ok /\ look(TRUE).client # NoClient
      /\ look(TRUE).client.alg \in SigningMethods
      /\ Private(look(TRUE).client, "") # NoClient
  BY <1>1, Zenon DEF MaySign
<1> HIDE DEF reg, uri, id, none
<1>3. \A without : look(without).ok => id # ""
  BY ONLY LookupNamed, ZenonT(30)
<1>4. \A without : look(without).client # NoClient
          => id \in DOMAIN reg /\ look(without).client = reg[id]
  BY ONLY LookupFinds, SMTT(40)
<1> HIDE DEF look
<1>5. id # "" /\ id \in DOMAIN reg /\ look(TRUE).client = reg[id]
  BY <1>2, <1>3, <1>4, Zenon
<1> QED BY <1>1, <1>2, <1>5, Zenon DEF reg, id

(* The auth of a guest who is let in with these claims names the path of   *)
(* the claims as its only group.                                           *)
LEMMA GuestAuthGrants ==
    ASSUME NEW m, NEW path,
           GuestAuth(m, [type |-> guestTypeSimple, path |-> path]) # Refused,
           [type |-> guestTypeSimple, path |-> path] # NoClaims
    PROVE  GuestAuth(m, [type |-> guestTypeSimple, path |-> path])
               = [canCreate |-> m.allowGuestOnlyChannels, groups |-> {path}]
<1> DEFINE claims == [type |-> guestTypeSimple, path |-> path]
<1>1. claims.type = guestTypeSimple /\ claims.path = path
  OBVIOUS
<1> HIDE DEF claims
<1>2. claims # NoClaims /\ GuestAuth(m, claims) # Refused
  BY Zenon DEF claims
<1>3. GuestAuth(m, claims)
          = [canCreate |-> m.allowGuestOnlyChannels, groups |-> {path}]
  BY <1>1, <1>2, Zenon DEF GuestAuth, ApplyRestrictions
<1> QED BY <1>3, Zenon DEF claims

(* A user in no channel but that of a group and, if it may call, of calls. *)
Confined(u, group, calls) ==
    \A ch \in Chans :
        connections[ch][u] # None =>
            KeyOf[ch] = group \/ (calls /\ ~IsGroup(ch))

(* Who was granted guest access for a path is never in a channel but that  *)
(* of the path, which the manager's public pattern matches, or, where      *)
(* guests may create channels, of calls: the checks of the logon handler,  *)
(* of the guest claims and of the WebRTC handlers add up.  (The group of a *)
(* message that names none is not a path the pattern is asked about.)      *)
THEOREM ChannelsGuestConfined ==
    ASSUME NEW u \in UserIDs, NEW m, NEW req,
           Logon(m, req) \notin {Refused, NoClaims},
           Auth[u] = GuestAuth(m, Logon(m, req)), Auth[u] # Refused,
           None \notin m.public
    PROVE  /\ Spec => []Confined(u, req.path.name, m.allowGuestOnlyChannels)
           /\ req.path.name \in m.public
<1>1. /\ Logon(m, req) = [type |-> guestTypeSimple, path |-> req.path.name]
      /\ req.path.name \in m.public
  BY LogonGrants, Zenon
<1>2. Auth[u] = [canCreate |-> m.allowGuestOnlyChannels, groups |-> {req.path.name}]
  BY <1>1, GuestAuthGrants, Zenon
<1>3. /\ Auth[u].canCreate = m.allowGuestOnlyChannels
      /\ Auth[u].groups = {req.path.name}
  BY ONLY <1>2
<1>4. None \notin Auth[u].groups
  BY ONLY <1>1, <1>3, None \notin m.public, Zenon
<1>5. GuestsStayInGroup => Confined(u, req.path.name, m.allowGuestOnlyChannels)
  BY ONLY <1>3, <1>4, Zenon DEF GuestsStayInGroup, Confined
<1>6. Spec => []Confined(u, req.path.name, m.allowGuestOnlyChannels)
  BY <1>5, ChannelsGuestsStayInGroup, PTL
<1> QED BY <1>1, <1>6, Zenon

=============================================================================
