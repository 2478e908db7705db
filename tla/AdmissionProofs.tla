--------------------------- MODULE AdmissionProofs ---------------------------
(* Proofs of the safety properties of Admission, for any keys, requests,   *)
(* tokens and periods.                                                     *)
EXTENDS Admission, TLAPS

(* A leaf that names no prover is for the SMT solver.                       *)
USE SMTT(40)

(* The lives are natural numbers, and None is no time, no record and no    *)
(* key.                                                                    *)
LEMMA Periods ==
    /\ KeyLife \in Nat /\ TokenLife \in Nat
    /\ None \notin Nat /\ None \notin IDs /\ None \notin Keys
  BY AdmissionAssumption

(* The inductive invariant holds at first.                                 *)
LEMMA InitIInv == Init => IInv
  <1> SUFFICES ASSUME Init PROVE IInv
    OBVIOUS
  <1> USE DEF Init
  <1>0. Start \in Nat
    BY Periods DEF Start, Zero
  <1>1. TypeOK
    <2>1. now \in Nat
      BY <1>0
    <2> QED
      BY <2>1, Zenon DEF TypeOK
  <1>2. UseInv
    <2>1. \A k \in Keys : keys[k] = None /\ made[k] = 0 /\ request[k] = "idle"
      <3>1. \A k \in Keys : keys[k] = None
        BY Zenon
      <3>2. \A k \in Keys : made[k] = 0
        BY Zenon
      <3>3. \A k \in Keys : request[k] = "idle"
        BY Zenon
      <3> QED
        BY <3>1, <3>2, <3>3, Zenon
    <2>2. \A s \in Sockets : held[s] = None /\ socket[s] = "idle"
      OBVIOUS
    <2>3. UsedOnce
      <3>1. \A k \in Keys : made[k] = 0
        BY ONLY <2>1, Zenon
      <3>2. 0 <= 1
        BY ONLY SMT
      <3> QED
        BY ONLY <3>1, <3>2, Zenon DEF UsedOnce
    <2>4. \A k \in Keys, s \in Sockets : held[s] # k
      BY <2>2, Periods
    <2> QED
      BY ONLY <2>1, <2>2, <2>3, <2>4 DEF UseInv
  <1>3. AgeInv
    BY DEF AgeInv
  <1>4. TokenInv
    BY DEF TokenInv
  <1>5. ExpiredInv
    <2>1. keyPurge = {}
      BY Zenon
    <2> QED
      BY ONLY <2>1, Zenon DEF ExpiredInv
  <1> QED
    BY ONLY <1>1, <1>2, <1>3, <1>4, <1>5, Zenon DEF IInv

-----------------------------------------------------------------------------
(* The records of tokens.                                                  *)

(* The part of TypeOK about records.                                       *)
TokenType ==
    /\ tokens \in [IDs -> Nat \cup {None}]
    /\ blank \subseteq {t \in IDs : tokens[t] # None}
    /\ tokenPurging \in BOOLEAN /\ tokenPurge \subseteq IDs
    /\ reset \subseteq IDs

(* SetToken and RefreshAdminAuthToken keep the types, and a purge's list.  *)
LEMMA SetTokenKeeps ==
    ASSUME TokenType, TokenInv, now \in Nat, NEW t \in IDs, SetToken(t), now' = now
    PROVE  TokenType' /\ TokenInv'
  <1> USE DEF TokenType, SetToken
  <1>1. tokens' \in [IDs -> Nat \cup {None}] /\ tokens'[t] = now
    OBVIOUS
  <1>2. \A u \in IDs : u # t => tokens'[u] = tokens[u]
    OBVIOUS
  <1>3. TokenType'
    BY <1>1, <1>2, Periods
  <1>4. TokenInv'
    BY <1>2 DEF TokenInv
  <1> QED
    BY <1>3, <1>4

(* RefreshAdminAuthToken, which waits for tokensMutex, keeps what is known *)
(* of the records.                                                         *)
LEMMA RefreshKeeps ==
    ASSUME TokenType, TokenInv, now \in Nat, NEW t \in IDs \cup {None},
           RefreshAdminAuthToken(t), now' = now
    PROVE  TokenType' /\ TokenInv'
  <1>1. CASE t \in BasicIDs \cup {None}
    BY <1>1 DEF RefreshAdminAuthToken, tokenVars, TokenType, TokenInv
  <1>2. CASE t \in IDs /\ t \notin BasicIDs
    <2>1. /\ ~tokenPurging
          /\ tokens' = [tokens EXCEPT ![t] = IF @ = None THEN Zero ELSE now]
          /\ blank' = IF tokens[t] = None THEN blank \cup {t} ELSE blank
          /\ UNCHANGED <<tokenPurging, tokenPurge, reset>>
      BY <1>2, Periods DEF RefreshAdminAuthToken
    <2>2. tokens' \in [IDs -> Nat \cup {None}] /\ tokens'[t] \in Nat
      BY <1>2, <2>1 DEF TokenType, Zero
    <2>3. \A u \in IDs : u # t => tokens'[u] = tokens[u]
      BY <2>1 DEF TokenType
    <2>4. blank' \subseteq {u \in IDs : tokens'[u] # None}
      BY <1>2, <2>1, <2>2, <2>3, Periods DEF TokenType
    <2>5. tokenPurge = {}
      BY <2>1 DEF TokenInv
    <2> QED
      BY <2>1, <2>2, <2>4, <2>5 DEF TokenType, TokenInv
  <1> QED
    BY <1>1, <1>2

(* Every step keeps what is known of the token records.                    *)
LEMMA TokenStepKeeps ==
    ASSUME TypeOK, UseInv, TokenInv, [Next]_vars
    PROVE  TokenType' /\ TokenInv'
  <1>0. TokenType /\ now \in Nat
    BY DEF TypeOK, TokenType
  <1>1. ASSUME UNCHANGED <<tokenVars, now>> PROVE TokenType' /\ TokenInv'
    BY <1>0, <1>1 DEF tokenVars, TokenType, TokenInv
  <1>2. ASSUME NEW t \in IDs, CreateToken(t) PROVE TokenType' /\ TokenInv'
    BY <1>0, <1>2, SetTokenKeeps DEF CreateToken
  <1>3. ASSUME NEW k \in Keys, Resurrect(k) PROVE TokenType' /\ TokenInv'
    <2>1. IDOf[k] \in IDs
      BY <1>3, AdmissionAssumption DEF Resurrect, UseInv
    <2> QED
      BY <1>0, <1>3, <2>1, SetTokenKeeps DEF Resurrect
  <1>4. ASSUME NEW k \in Keys, RefreshRequest(k) PROVE TokenType' /\ TokenInv'
    <2>1. IDOf[k] \in IDs \cup {None}
      BY AdmissionAssumption
    <2> QED
      BY <1>0, <1>4, <2>1, RefreshKeeps DEF RefreshRequest
  <1>5. ASSUME NEW s \in Sockets, Serve(s) PROVE TokenType' /\ TokenInv'
    <2>1. held[s] \in Keys
      BY <1>5 DEF Serve, UseInv
    <2>2. IDOf[held[s]] \in IDs \cup {None}
      BY <2>1, AdmissionAssumption
    <2> QED
      BY <1>0, <1>5, <2>2, RefreshKeeps DEF Serve
  <1>6. ASSUME NEW t \in IDs, RemoveToken(t) PROVE TokenType' /\ TokenInv'
    BY <1>0, <1>6 DEF RemoveToken, TokenType, TokenInv
  <1>7. ASSUME TokenPurgeStart PROVE TokenType' /\ TokenInv'
    BY <1>0, <1>7 DEF TokenPurgeStart, TokenType, TokenInv
  <1>8. ASSUME NEW t \in IDs, TokenPurgeRemove(t) PROVE TokenType' /\ TokenInv'
    BY <1>0, <1>8 DEF TokenPurgeRemove, TokenType, TokenInv
  <1>9. ASSUME TokenPurgeEnd PROVE TokenType' /\ TokenInv'
    <2>2. tokenPurge' = {} /\ UNCHANGED <<tokens, blank>>
      BY <1>9 DEF TokenPurgeEnd
    <2>3. tokenPurging' = FALSE /\ reset' = {}
      BY <1>9 DEF TokenPurgeEnd
    <2>4. TokenInv'
      BY <2>2 DEF TokenInv
    <2>5. TokenType'
      BY <1>0, <2>2, <2>3, Zenon DEF TokenType
    <2> QED
      BY <2>4, <2>5
  <1>10. ASSUME Tick PROVE TokenType' /\ TokenInv'
    <2>1. UNCHANGED tokenVars /\ now' = now + 1
      BY <1>10 DEF Tick
    <2>2. \A t \in IDs : tokens[t] \in Nat /\ tokens[t] + TokenLife < now
                            => tokens[t] + TokenLife < now'
      BY <1>0, <2>1, Periods
    <2>3. TokenType'
      BY <1>0, <2>1 DEF tokenVars, TokenType
    <2>4. TokenInv'
      BY <1>0, <2>1, <2>2 DEF tokenVars, TokenType, TokenInv
    <2> QED
      BY <2>3, <2>4
  <1> QED
    BY <1>1, <1>2, <1>3, <1>4, <1>5, <1>6, <1>7, <1>8, <1>9, <1>10
    DEF Next, RequestStep, SocketStep, TokenStep, vars, Authenticate, Connect,
        KeyPurgeStart, KeyPurgeRemove, KeyPurgeEnd, Pop, Check, Forbid, Upgrade

-----------------------------------------------------------------------------
(* The keys.                                                               *)

(* The part of TypeOK about keys.                                          *)
KeyType ==
    /\ now \in Nat
    /\ keys \in [Keys -> Nat \cup {None}]
    /\ keyStart \in Nat \cup {None} /\ keyPurge \subseteq Keys

(* Every step keeps what is known of the keys and their age.               *)
LEMMA KeyStepKeeps ==
    ASSUME TypeOK, AgeInv, [Next]_vars
    PROVE  KeyType' /\ AgeInv'
  <1>0. KeyType
    BY DEF TypeOK, KeyType
  <1>1. ASSUME UNCHANGED <<now, keyVars>> PROVE KeyType' /\ AgeInv'
    BY <1>0, <1>1 DEF keyVars, KeyType, AgeInv
  <1>2. ASSUME NEW k \in Keys, Connect(k) PROVE KeyType' /\ AgeInv'
    <2>1. /\ keys' = [keys EXCEPT ![k] = now]
          /\ UNCHANGED <<now, keyStart, keyPurge>>
      BY <1>2 DEF Connect
    <2>2. KeyType'
      BY <1>0, <2>1 DEF KeyType
    <2>3. keys'[k] = now /\ \A j \in Keys : j # k => keys'[j] = keys[j]
      BY <1>0, <2>1 DEF KeyType
    <2>4. keyStart # None => keyStart <= now + KeyLife
      BY <1>0, Periods DEF KeyType, AgeInv
    <2> QED
      BY <2>1, <2>2, <2>3, <2>4 DEF AgeInv
  <1>3. ASSUME KeyPurgeStart PROVE KeyType' /\ AgeInv'
    <2>1. /\ keyPurge' = {k \in Keys : keys[k] # None /\ keys[k] + KeyLife < now}
          /\ keyStart' = now
          /\ UNCHANGED <<keys, now>>
      BY <1>3 DEF KeyPurgeStart
    <2>2. \A k \in Keys \ keyPurge' : keys[k] # None => now <= keys[k] + KeyLife
      BY <1>0, <2>1, Periods DEF KeyType
    <2> QED
      BY <1>0, <2>1, <2>2 DEF KeyType, AgeInv
  <1>4. ASSUME NEW k \in Keys, KeyPurgeRemove(k) PROVE KeyType' /\ AgeInv'
    BY <1>0, <1>4 DEF KeyPurgeRemove, KeyType, AgeInv
  <1>5. ASSUME KeyPurgeEnd PROVE KeyType' /\ AgeInv'
    BY <1>0, <1>5 DEF KeyPurgeEnd, KeyType, AgeInv
  <1>6. ASSUME NEW s \in Sockets, NEW k \in Keys, Pop(s, k) PROVE KeyType' /\ AgeInv'
    BY <1>0, <1>6 DEF Pop, KeyType, AgeInv
  <1>7. ASSUME Tick PROVE KeyType' /\ AgeInv'
    <2>1. now' = now + 1 /\ UNCHANGED keyVars
      BY <1>7 DEF Tick
    <2>2. now' \in Nat /\ (keyStart # None => keyStart <= now')
      BY <1>0, <2>1 DEF KeyType, AgeInv
    <2> QED
      BY <1>0, <2>1, <2>2 DEF keyVars, KeyType, AgeInv
  <1> QED
    BY <1>1, <1>2, <1>3, <1>4, <1>5, <1>6, <1>7
    DEF Next, RequestStep, SocketStep, TokenStep, vars, Authenticate, Resurrect,
        RefreshRequest, CreateToken, RemoveToken, TokenPurgeStart, TokenPurgeRemove,
        TokenPurgeEnd, Check, Forbid, Upgrade, Serve

-----------------------------------------------------------------------------
(* The use of keys.                                                        *)

(* The part of TypeOK about requests.                                      *)
UseType ==
    /\ request \in [Keys -> {"idle", "resurrect", "refresh", "issue", "done"}]
    /\ socket \in [Sockets -> {"idle", "check", "upgrade", "refresh"}]
    /\ held \in [Sockets -> Keys \cup {None}]
    /\ made \in [Keys -> Nat]

(* Every step keeps what is known of the use of keys.                      *)
LEMMA UseStepKeeps ==
    ASSUME TypeOK, UseInv, [Next]_vars
    PROVE  UseType' /\ UseInv'
  <1>0. UseType /\ keys \in [Keys -> Nat \cup {None}] /\ now \in Nat
    BY DEF TypeOK, UseType
  <1>1. ASSUME UNCHANGED <<keys, webVars>> PROVE UseType' /\ UseInv'
    BY <1>0, <1>1 DEF webVars, UseType, UseInv, UsedOnce
  <1>2. ASSUME NEW k \in Keys, Authenticate(k) \/ Resurrect(k) \/ RefreshRequest(k)
        PROVE  UseType' /\ UseInv'
    <2>1. UNCHANGED <<keys, socket, held, made>>
      BY <1>2 DEF Authenticate, Resurrect, RefreshRequest, keyVars
    <2>2. /\ request[k] # "done" /\ \A j \in Keys : j # k => request'[j] = request[j]
          /\ request'[k] \in {"resurrect", "refresh", "issue"}
          /\ request'[k] = "resurrect" => IDOf[k] # None
      BY <1>0, <1>2 DEF Authenticate, Resurrect, RefreshRequest, UseType
    <2>3. UseType'
      BY <1>0, <1>2, <2>1 DEF Authenticate, Resurrect, RefreshRequest, UseType
    <2> QED
      BY <2>1, <2>2, <2>3 DEF UseInv, UsedOnce
  <1>3. ASSUME NEW k \in Keys, Connect(k) PROVE UseType' /\ UseInv'
    <2>1. /\ request[k] = "issue"
          /\ request' = [request EXCEPT ![k] = "done"]
          /\ keys' = [keys EXCEPT ![k] = now]
          /\ UNCHANGED <<socket, held, made>>
      BY <1>3 DEF Connect
    <2>2. UseType'
      BY <1>0, <2>1 DEF UseType
    <2>3. \A j \in Keys : j # k => request'[j] = request[j] /\ keys'[j] = keys[j]
      BY <1>0, <2>1 DEF UseType
    <2>4. request'[k] = "done"
      BY <1>0, <2>1 DEF UseType
    <2>5. made[k] = 0 /\ \A s \in Sockets : held[s] # k
      BY <2>1 DEF UseInv
    <2> QED
      BY <2>1, <2>2, <2>3, <2>4, <2>5 DEF UseInv, UsedOnce
  <1>4. ASSUME NEW k \in Keys, KeyPurgeRemove(k) PROVE UseType' /\ UseInv'
    <2>1. keys' = [keys EXCEPT ![k] = None] /\ UNCHANGED <<request, socket, held, made>>
      BY <1>4 DEF KeyPurgeRemove, webVars
    <2>2. \A j \in Keys : keys'[j] = keys[j] \/ keys'[j] = None
      BY <1>0, <2>1
    <2> QED
      BY <1>0, <2>1, <2>2 DEF UseType, UseInv, UsedOnce
  <1>5. ASSUME NEW s \in Sockets, NEW k \in Keys, Pop(s, k) PROVE UseType' /\ UseInv'
    <2>1. /\ socket[s] = "idle" /\ keys[k] # None
          /\ keys' = [keys EXCEPT ![k] = None]
          /\ socket' = [socket EXCEPT ![s] = "check"]
          /\ held' = [held EXCEPT ![s] = k]
          /\ UNCHANGED <<request, made>>
      BY <1>5 DEF Pop
    <2>2. UseType'
      BY <1>0, <2>1 DEF UseType
    <2>3. keys'[k] = None /\ \A j \in Keys : j # k => keys'[j] = keys[j]
      BY <1>0, <2>1
    <2>4. held'[s] = k /\ \A r \in Sockets : r # s => held'[r] = held[r]
      BY <1>0, <2>1 DEF UseType
    <2>5. socket'[s] = "check" /\ \A r \in Sockets : r # s => socket'[r] = socket[r]
      BY <1>0, <2>1 DEF UseType
    <2>6. /\ request[k] = "done" /\ made[k] = 0
          /\ \A r \in Sockets : held[r] # k
      BY <2>1 DEF UseInv
    <2> QED
      BY <2>1, <2>2, <2>3, <2>4, <2>5, <2>6 DEF UseInv, UsedOnce
  <1>6. ASSUME NEW s \in Sockets, Check(s) \/ Upgrade(s) PROVE UseType' /\ UseInv'
    <2>1. UNCHANGED <<keys, request, held, made>>
      BY <1>6 DEF Check, Upgrade, keyVars
    <2>2. \A r \in Sockets : socket'[r] = "idle" <=> socket[r] = "idle"
      BY <1>0, <1>6 DEF Check, Upgrade, UseType
    <2>3. UseType'
      BY <1>0, <1>6, <2>1 DEF Check, Upgrade, UseType
    <2> QED
      BY <2>1, <2>2, <2>3 DEF UseInv, UsedOnce
  <1>7. ASSUME NEW s \in Sockets, Forbid(s) PROVE UseType' /\ UseInv'
    <2>1. /\ socket' = [socket EXCEPT ![s] = "idle"]
          /\ held' = [held EXCEPT ![s] = None]
          /\ UNCHANGED <<keys, request, made>>
      BY <1>7 DEF Forbid, keyVars
    <2>2. UseType'
      BY <1>0, <2>1 DEF UseType
    <2>3. /\ held'[s] = None /\ \A r \in Sockets : r # s => held'[r] = held[r]
          /\ socket'[s] = "idle" /\ \A r \in Sockets : r # s => socket'[r] = socket[r]
      BY <1>0, <2>1 DEF UseType
    <2> QED
      BY <2>1, <2>2, <2>3, Periods DEF UseInv, UsedOnce
  <1>8. ASSUME NEW s \in Sockets, Serve(s) PROVE UseType' /\ UseInv'
    <2> DEFINE k == held[s]
    <2>1. /\ made' = [made EXCEPT ![k] = @ + 1]
          /\ socket' = [socket EXCEPT ![s] = "idle"]
          /\ held' = [held EXCEPT ![s] = None]
          /\ UNCHANGED <<keys, request>>
      BY <1>8 DEF Serve, keyVars
    <2>2. k \in Keys /\ k # None /\ made[k] = 0 /\ \A r \in Sockets : held[r] = k => r = s
      BY <1>8, Periods DEF Serve, UseInv
    <2> HIDE DEF k
    <2>3. UseType'
      BY <1>0, <2>1, <2>2 DEF UseType
    <2>4. /\ held'[s] = None /\ \A r \in Sockets : r # s => held'[r] = held[r]
          /\ socket'[s] = "idle" /\ \A r \in Sockets : r # s => socket'[r] = socket[r]
      BY <1>0, <2>1 DEF UseType
    <2>5. made'[k] = 1 /\ \A j \in Keys : j # k => made'[j] = made[j]
      BY <1>0, <2>1, <2>2 DEF UseType
    <2>6. request[k] = "done" /\ keys[k] = None
      BY <2>2 DEF UseInv, k
    <2>7. UsedOnce'
      BY <2>5 DEF UseInv, UsedOnce
    <2>8. \A r \in Sockets : held'[r] # None => held'[r] \in Keys /\ held'[r] # k /\ r # s
      BY <1>0, <2>2, <2>4 DEF UseType
    <2>9. \A r \in Sockets : held'[r] # None =>
            made'[held'[r]] = 0 /\ \A q \in Sockets : held'[q] = held'[r] => q = r
      BY <2>4, <2>5, <2>8 DEF UseInv
    <2>10. \A j \in Keys : request'[j] # "done" \/ keys'[j] # None =>
            made'[j] = 0 /\ \A r \in Sockets : held'[r] # j
      BY <2>1, <2>4, <2>5, <2>6, <2>8, Periods DEF UseInv
    <2> QED
      BY <2>1, <2>3, <2>4, <2>7, <2>9, <2>10 DEF UseInv
  <1> QED
    BY <1>1, <1>2, <1>3, <1>4, <1>5, <1>6, <1>7, <1>8
    DEF Next, RequestStep, SocketStep, TokenStep, vars, keyVars, CreateToken,
        RemoveToken, TokenPurgeStart, TokenPurgeRemove, TokenPurgeEnd,
        KeyPurgeStart, KeyPurgeEnd, Tick

-----------------------------------------------------------------------------
(* The keys a purge has collected stay expired: none of them is made anew. *)
LEMMA ExpiredStepKeeps ==
    ASSUME TypeOK, UseInv, AgeInv, ExpiredInv, [Next]_vars
    PROVE  ExpiredInv'
  <1>0. /\ keys \in [Keys -> Nat \cup {None}] /\ now \in Nat /\ keyPurge \subseteq Keys
        /\ request \in [Keys -> {"idle", "resurrect", "refresh", "issue", "done"}]
    BY DEF TypeOK
  <1>1. ASSUME UNCHANGED <<now, keyVars>>,
               \A k \in Keys : request[k] = "done" => request'[k] = "done"
        PROVE  ExpiredInv'
    BY <1>0, <1>1 DEF keyVars, ExpiredInv
  <1>2. ASSUME NEW k \in Keys, Connect(k) PROVE ExpiredInv'
    <2>1. /\ request[k] = "issue"
          /\ request' = [request EXCEPT ![k] = "done"]
          /\ keys' = [keys EXCEPT ![k] = now]
          /\ UNCHANGED <<keyStart, keyPurge, now>>
      BY <1>2 DEF Connect
    <2>2. k \notin keyPurge
      BY <2>1 DEF ExpiredInv
    <2>3. \A j \in Keys : j # k => request'[j] = request[j] /\ keys'[j] = keys[j]
      BY ONLY <1>0, <2>1
    <2> QED
      BY <1>0, <2>1, <2>2, <2>3 DEF ExpiredInv
  <1>3. ASSUME KeyPurgeStart PROVE ExpiredInv'
    <2>1. /\ keyPurge' = {k \in Keys : keys[k] # None /\ keys[k] + KeyLife < now}
          /\ keyStart' = now
          /\ UNCHANGED <<keys, now, request>>
      BY <1>3 DEF KeyPurgeStart, webVars
    <2> QED
      BY <1>0, <2>1, Periods DEF UseInv, ExpiredInv
  <1>4. ASSUME NEW k \in Keys, KeyPurgeRemove(k) PROVE ExpiredInv'
    BY <1>0, <1>4 DEF KeyPurgeRemove, webVars, ExpiredInv
  <1>5. ASSUME KeyPurgeEnd PROVE ExpiredInv'
    BY <1>5 DEF KeyPurgeEnd, ExpiredInv
  <1>6. ASSUME NEW s \in Sockets, NEW k \in Keys, Pop(s, k) PROVE ExpiredInv'
    BY <1>0, <1>6 DEF Pop, ExpiredInv
  <1>7. ASSUME Tick PROVE ExpiredInv'
    <2>1. now' = now + 1 /\ UNCHANGED <<keys, keyStart, keyPurge, request>>
      BY <1>7 DEF Tick, keyVars, webVars
    <2>2. \A k \in Keys : keys[k] # None /\ keys[k] + KeyLife < now => keys[k] + KeyLife < now'
      BY <1>0, <2>1, Periods
    <2> QED
      BY <1>0, <2>1, <2>2 DEF ExpiredInv
  <1>8. ASSUME NEW k \in Keys, Authenticate(k) \/ Resurrect(k) \/ RefreshRequest(k)
        PROVE  ExpiredInv'
    <2>1. \A j \in Keys : request[j] = "done" => request'[j] = "done"
      BY <1>0, <1>8 DEF Authenticate, Resurrect, RefreshRequest
    <2>2. UNCHANGED <<now, keyVars>>
      BY <1>8 DEF Authenticate, Resurrect, RefreshRequest
    <2> QED
      BY <1>1, <2>1, <2>2
  <1>9. ASSUME UNCHANGED <<now, keyVars, request>> PROVE ExpiredInv'
    BY ONLY <1>0, <1>1, <1>9
  <1>10. ASSUME NEW s \in Sockets, Check(s) \/ Forbid(s) \/ Upgrade(s) \/ Serve(s)
         PROVE  ExpiredInv'
    BY ONLY <1>9, <1>10 DEF Check, Forbid, Upgrade, Serve
  <1>11. ASSUME NEW t \in IDs, TokenStep(t) PROVE ExpiredInv'
    BY ONLY <1>9, <1>11 DEF TokenStep, CreateToken, RemoveToken, TokenPurgeRemove,
        webVars
  <1>12. ASSUME TokenPurgeStart \/ TokenPurgeEnd \/ UNCHANGED vars PROVE ExpiredInv'
    BY ONLY <1>9, <1>12 DEF TokenPurgeStart, TokenPurgeEnd, vars, webVars
  <1> QED
    BY ONLY [Next]_vars, <1>2, <1>3, <1>4, <1>5, <1>6, <1>7, <1>8, <1>10, <1>11,
       <1>12, Zenon DEF Next, RequestStep, SocketStep

-----------------------------------------------------------------------------
(* IInv is an inductive invariant.                                         *)
THEOREM AdmissionInvariant == Spec => []IInv
  <1>1. IInv /\ [Next]_vars => IInv'
    <2> SUFFICES ASSUME IInv, [Next]_vars PROVE IInv'
      OBVIOUS
    <2>1. TypeOK /\ UseInv /\ AgeInv /\ ExpiredInv /\ TokenInv
      BY DEF IInv
    <2>2. TokenType' /\ TokenInv'
      BY <2>1, TokenStepKeeps
    <2>3. KeyType' /\ AgeInv'
      BY <2>1, KeyStepKeeps
    <2>4. UseType' /\ UseInv'
      BY <2>1, UseStepKeeps
    <2>5. TypeOK'
      BY <2>2, <2>3, <2>4 DEF TypeOK, TokenType, KeyType, UseType
    <2>6. ExpiredInv'
      BY <2>1, ExpiredStepKeeps
    <2> QED
      BY <2>2, <2>3, <2>4, <2>5, <2>6 DEF IInv
  <1> QED
    BY InitIInv, <1>1, PTL DEF Spec

(* The tables of keys and tokens and the requests always have their types. *)
THEOREM AdmissionTypeCorrect == Spec => []TypeOK
  <1>1. IInv => TypeOK
    BY DEF IInv
  <1> QED
    BY AdmissionInvariant, <1>1, PTL

(* A connect key makes at most one connection (HandleWebsocketConnect).    *)
THEOREM AdmissionUsedOnce == Spec => []UsedOnce
  <1>1. IInv => UsedOnce
    BY DEF IInv, UseInv
  <1> QED
    BY AdmissionInvariant, <1>1, PTL

(* A purge of keys that has ended has left none that was expired when it   *)
(* began (purgeExpiredKeys).                                               *)
THEOREM AdmissionPurgeComplete == Spec => PurgeComplete
  <1>1. IInv => (KeyPurgeEnd =>
            \A k \in Keys : keys[k] # None => keyStart <= keys[k] + KeyLife)
    BY DEF IInv, AgeInv, KeyPurgeEnd
  <1> QED
    BY AdmissionInvariant, <1>1, PTL DEF PurgeComplete

(* purgeExpiredTokens removes no record that was refreshed since it found  *)
(* it to be expired.                                                       *)
THEOREM AdmissionRefreshedKept == Spec => RefreshedKept
  <1>1. IInv => \A t \in IDs : TokenPurgeRemove(t) =>
            tokens[t] = None \/ t \in reset \/ tokens[t] + TokenLife < now
    BY DEF IInv, TokenInv, TokenPurgeRemove
  <1> QED
    BY AdmissionInvariant, <1>1, PTL DEF RefreshedKept

-----------------------------------------------------------------------------
(* Admission implements Tickets.                                           *)

Issued == {k \in Keys : request[k] = "done"}
Used == {k \in Keys : made[k] > 0}

(* A step that leaves alone what Tickets speaks of is a stutter.           *)
LEMMA TicketsStutter ==
    ASSUME UNCHANGED <<now, keys, held, made>>, Issued' = Issued
    PROVE  UNCHANGED T!tvars
  <1>1. Held' = Held /\ Used' = Used
    BY DEF Held, Used
  <1> QED
    BY <1>1, Zenon DEF T!tvars, Issued, Used

(* What the first state looks like to Tickets.                             *)
LEMMA TicketsInit == Init => T!Init
  <1> SUFFICES ASSUME Init PROVE T!Init
    OBVIOUS
  <1>1. now \in Nat
    BY Periods DEF Init, Start, Zero
  <1>2. Issued = {}
    BY DEF Init, Issued
  <1>3. Held = {}
    BY DEF Init, Held
  <1>4. Used = {}
    BY DEF Init, Used
  <1>5. keys = [k \in Keys |-> None]
    BY DEF Init
  <1> QED
    BY ONLY <1>1, <1>2, <1>3, <1>4, <1>5, Zenon DEF T!Init, Issued, Used

(* Manager.Connect makes a key.                                            *)
LEMMA ConnectIssues ==
    ASSUME IInv, NEW k \in Keys, Connect(k)
    PROVE  T!Issue(k)
  <1>1. /\ request \in [Keys -> {"idle", "resurrect", "refresh", "issue", "done"}]
        /\ request[k] = "issue"
        /\ request' = [request EXCEPT ![k] = "done"]
        /\ keys' = [keys EXCEPT ![k] = now]
        /\ UNCHANGED <<held, made, now>>
    BY DEF Connect, IInv, TypeOK
  <1>2. k \notin Issued /\ Issued' = Issued \cup {k}
    BY ONLY <1>1, k \in Keys DEF Issued
  <1>3. Held' = Held /\ Used' = Used
    BY ONLY <1>1 DEF Held, Used
  <1> QED
    BY ONLY <1>1, <1>2, <1>3, Zenon DEF T!Issue, Issued, Used

(* A websocket request takes the key out of the table.                     *)
LEMMA PopTakes ==
    ASSUME IInv, NEW s \in Sockets, NEW k \in Keys, Pop(s, k)
    PROVE  T!Take(k)
  <1>1. /\ keys[k] # None
        /\ keys' = [keys EXCEPT ![k] = None]
        /\ held' = [held EXCEPT ![s] = k]
        /\ UNCHANGED <<request, made, now>>
    BY DEF Pop
  <1>2. held \in [Sockets -> Keys \cup {None}] /\ held[s] = None /\ k # None
    BY Periods DEF Pop, IInv, TypeOK, UseInv
  <1>3. Held' = Held \cup {k}
    BY ONLY <1>1, <1>2, s \in Sockets DEF Held
  <1>4. Issued' = Issued /\ Used' = Used
    BY ONLY <1>1 DEF Issued, Used
  <1> QED
    BY ONLY <1>1, <1>3, <1>4, Zenon DEF T!Take, Issued, Used

(* The key of a websocket request is not that of another one, and has made *)
(* no connection.                                                          *)
LEMMA HeldAlone ==
    ASSUME IInv, NEW s \in Sockets, socket[s] # "idle"
    PROVE  \E k \in Keys :
               /\ k = held[s] /\ k # None /\ made[k] = 0
               /\ \A r \in Sockets : held[r] = k => r = s
  <1>1. held[s] \in Keys
    BY DEF IInv, UseInv
  <1>2. held[s] # None
    BY <1>1, Periods
  <1>3. made[held[s]] = 0 /\ \A r \in Sockets : held[r] = held[s] => r = s
    BY ONLY IInv, <1>2, s \in Sockets, Zenon DEF IInv, UseInv
  <1> QED
    BY ONLY <1>1, <1>2, <1>3, Zenon

(* When the request ends the key is in nobody's hands.                     *)
LEMMA HeldReleased ==
    ASSUME TypeOK, NEW s \in Sockets, NEW k \in Keys, k = held[s], k # None,
           \A r \in Sockets : held[r] = k => r = s,
           held' = [held EXCEPT ![s] = None]
    PROVE  k \in Held /\ Held' = Held \ {k}
  <1>1. held \in [Sockets -> Keys \cup {None}]
    BY DEF TypeOK
  <1> QED
    BY <1>1 DEF Held

(* The connection is made with the key.                                    *)
LEMMA ServeUses ==
    ASSUME IInv, NEW s \in Sockets, Serve(s)
    PROVE  \E k \in Keys : T!Use(k)
  <1>1. /\ socket[s] # "idle"
        /\ made' = [made EXCEPT ![held[s]] = @ + 1]
        /\ held' = [held EXCEPT ![s] = None]
        /\ UNCHANGED <<request, keys, now>>
    BY DEF Serve, keyVars
  <1>2. TypeOK /\ made \in [Keys -> Nat]
    BY DEF IInv, TypeOK
  <1>3. PICK k \in Keys : /\ k = held[s] /\ k # None /\ made[k] = 0
                          /\ \A r \in Sockets : held[r] = k => r = s
    BY <1>1, HeldAlone
  <1>4. k \in Held /\ Held' = Held \ {k}
    BY ONLY <1>1, <1>2, <1>3, s \in Sockets, HeldReleased, Zenon
  <1>5. k \notin Used /\ Used' = Used \cup {k}
    BY ONLY <1>1, <1>2, <1>3 DEF Used
  <1>6. Issued' = Issued
    BY ONLY <1>1 DEF Issued
  <1>7. T!Use(k)
    BY ONLY <1>1, <1>4, <1>5, <1>6, Zenon DEF T!Use, Issued, Used
  <1> QED
    BY <1>7

(* The key is refused.                                                     *)
LEMMA ForbidRefuses ==
    ASSUME IInv, NEW s \in Sockets, Forbid(s)
    PROVE  \E k \in Keys : T!Refuse(k)
  <1>1. /\ socket[s] # "idle"
        /\ held' = [held EXCEPT ![s] = None]
        /\ UNCHANGED <<request, made, keys, now>>
    BY DEF Forbid, keyVars
  <1>2. PICK k \in Keys : /\ k = held[s] /\ k # None
                          /\ \A r \in Sockets : held[r] = k => r = s
    BY <1>1, HeldAlone
  <1>3. k \in Held /\ Held' = Held \ {k}
    BY <1>1, <1>2, HeldReleased, Zenon DEF IInv
  <1>4. Issued' = Issued /\ Used' = Used
    BY ONLY <1>1 DEF Issued, Used
  <1>5. T!Refuse(k)
    BY ONLY <1>1, <1>3, <1>4, Zenon DEF T!Refuse, Issued, Used
  <1> QED
    BY <1>5

(* purgeExpiredKeys removes a key whose life is over, or one that was used *)
(* since it was collected.                                                 *)
LEMMA PurgeExpires ==
    ASSUME IInv, NEW k \in Keys, KeyPurgeRemove(k)
    PROVE  T!Expire(k) \/ UNCHANGED T!tvars
  <1>1. /\ k \in keyPurge
        /\ keys' = [keys EXCEPT ![k] = None]
        /\ UNCHANGED <<request, made, held, now>>
    BY DEF KeyPurgeRemove, webVars
  <1>2. keys \in [Keys -> Nat \cup {None}]
    BY DEF IInv, TypeOK
  <1>3. Issued' = Issued /\ Used' = Used /\ Held' = Held
    BY ONLY <1>1 DEF Issued, Used, Held
  <1>4. CASE keys[k] = None
    <2>1. keys' = keys
      BY ONLY <1>1, <1>2, <1>4
    <2> QED
      BY <1>1, <1>3, <2>1, TicketsStutter
  <1>5. CASE keys[k] # None
    <2>1. keys[k] + KeyLife < now
      BY <1>1, <1>5 DEF IInv, ExpiredInv
    <2> QED
      BY ONLY <1>1, <1>3, <1>5, <2>1, Zenon DEF T!Expire, Issued, Used
  <1> QED
    BY <1>4, <1>5

(* Time passes.                                                            *)
LEMMA TickTicks ==
    ASSUME IInv, Tick
    PROVE  T!Tick
  <1>1. now' = now + 1 /\ UNCHANGED <<keys, request, held, made>>
    BY DEF Tick, keyVars, webVars
  <1>2. Issued' = Issued /\ Used' = Used /\ Held' = Held
    BY ONLY <1>1 DEF Issued, Used, Held
  <1> QED
    BY ONLY <1>1, <1>2, Zenon DEF T!Tick, Issued, Used

(* The steps of the requests before the key is made change no key.         *)
LEMMA RequestIssuesLast ==
    ASSUME IInv, NEW k \in Keys, Authenticate(k) \/ Resurrect(k) \/ RefreshRequest(k)
    PROVE  UNCHANGED T!tvars
  <1>1. request \in [Keys -> {"idle", "resurrect", "refresh", "issue", "done"}]
    BY DEF IInv, TypeOK
  <1>2. UNCHANGED <<now, keys, held, made>>
    BY DEF Authenticate, Resurrect, RefreshRequest, keyVars
  <1>3. \A j \in Keys : request[j] = "done" <=> request'[j] = "done"
    BY <1>1 DEF Authenticate, Resurrect, RefreshRequest
  <1>4. Issued' = Issued
    BY ONLY <1>3 DEF Issued
  <1> QED
    BY <1>2, <1>4, TicketsStutter

(* Connect keys keep the promise of Tickets, through every step of the     *)
(* requests, the purges and the clock.                                     *)
THEOREM AdmissionImplementsTickets == Spec => ImplementsTickets
  <1>1. ASSUME IInv, [Next]_vars PROVE [T!Next]_(T!tvars)
    <2>1. ASSUME NEW k \in Keys, RequestStep(k) PROVE [T!Next]_(T!tvars)
      BY ONLY IInv, <2>1, ConnectIssues, RequestIssuesLast, Zenon
      DEF RequestStep, T!Next
    <2>2. ASSUME NEW k \in Keys, KeyPurgeRemove(k) PROVE [T!Next]_(T!tvars)
      BY ONLY IInv, <2>2, PurgeExpires, Zenon DEF T!Next
    <2>3. ASSUME NEW s \in Sockets, SocketStep(s) PROVE [T!Next]_(T!tvars)
      <3>1. CASE \E k \in Keys : Pop(s, k)
        BY ONLY IInv, <3>1, s \in Sockets, PopTakes, Zenon DEF T!Next
      <3>2. CASE Forbid(s)
        BY ONLY IInv, <3>2, s \in Sockets, ForbidRefuses, Zenon DEF T!Next
      <3>3. CASE Serve(s)
        BY ONLY IInv, <3>3, s \in Sockets, ServeUses, Zenon DEF T!Next
      <3>4. CASE Check(s) \/ Upgrade(s)
        <4>1. UNCHANGED <<now, keys, held, made, request>>
          BY <3>4 DEF Check, Upgrade, keyVars
        <4>2. Issued' = Issued
          BY ONLY <4>1 DEF Issued
        <4> QED
          BY <4>1, <4>2, TicketsStutter
      <3> QED
        BY ONLY <2>3, <3>1, <3>2, <3>3, <3>4, Zenon DEF SocketStep
    <2>4. CASE Tick
      BY ONLY IInv, <2>4, TickTicks, Zenon DEF T!Next
    <2>5. ASSUME UNCHANGED <<now, keys, webVars>> PROVE [T!Next]_(T!tvars)
      <3>1. UNCHANGED <<now, keys, held, made, request>>
        BY <2>5 DEF webVars
      <3>2. Issued' = Issued
        BY ONLY <3>1 DEF Issued
      <3> QED
        BY <3>1, <3>2, TicketsStutter
    <2>6. ASSUME NEW t \in IDs, TokenStep(t) PROVE [T!Next]_(T!tvars)
      <3>1. UNCHANGED <<now, keys, webVars>>
        BY <2>6 DEF TokenStep, CreateToken, RemoveToken, TokenPurgeRemove, keyVars
      <3> QED
        BY ONLY <3>1, <2>5, Zenon
    <2>7. CASE TokenPurgeStart \/ TokenPurgeEnd \/ KeyPurgeStart \/ KeyPurgeEnd
               \/ UNCHANGED vars
      <3>1. UNCHANGED <<now, keys, webVars>>
        BY <2>7 DEF TokenPurgeStart, TokenPurgeEnd, KeyPurgeStart, KeyPurgeEnd,
            keyVars, vars
      <3> QED
        BY ONLY <3>1, <2>5, Zenon
    <2> QED
      BY ONLY [Next]_vars, <2>1, <2>2, <2>3, <2>4, <2>6, <2>7, Zenon DEF Next
  <1> QED
    BY AdmissionInvariant, TicketsInit, <1>1, PTL DEF Spec, ImplementsTickets, T!Spec

=============================================================================
