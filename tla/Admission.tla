------------------------------ MODULE Admission ------------------------------
(***************************************************************************)
(* How a client is let in (signaling/rtm: http.go, manager.go,             *)
(* handlers.go; signaling/admin: manager.go, auth.go): rtm.connect checks  *)
(* the authentication of a request and makes a connect key, a websocket    *)
(* request uses the key up, checks the authentication again and makes the  *)
(* connection.  Admin auth tokens have a record that every use refreshes,  *)
(* one goroutine removes the keys and another one the records that are too *)
(* old.  The signature of an admin auth token is valid for a year, so that *)
(* its expiry is not modelled.                                             *)
(*                                                                         *)
(* A request may fail at any step (no user, another user than the one of   *)
(* the token, no TURN credentials): it then goes no further.  rtm.turn     *)
(* does what rtm.connect does up to the refresh.                           *)
(*                                                                         *)
(* Time passes in steps, at any moment.  Nothing bounds when a purge       *)
(* starts or how long it takes: the one of the keys shares its goroutine   *)
(* with those of channels and users, which may wait for a lock for good.   *)
(***************************************************************************)
EXTENDS Naturals

CONSTANTS
    Keys,      \* connect keys; each is random and made for one request
    Sockets,   \* websocket requests
    IDs,       \* records of admin auth tokens
    IDOf,      \* the record for the authentication of a connect request,
               \* None for bearer authentication
    Basic,     \* keys for connect requests with basic authentication
    KeyLife,   \* connectExpiration
    TokenLife, \* tokenExpiration
    MaxTime,   \* bound on the time
    None

(* The id of a record tells admin auth tokens from basic authentication.   *)
BasicIDs == {IDOf[k] : k \in Basic}

ASSUME AdmissionAssumption ==
    /\ IDOf \in [Keys -> IDs \cup {None}]
    /\ Basic \subseteq Keys /\ None \notin BasicIDs
    /\ \A k \in Keys \ Basic : IDOf[k] \notin BasicIDs
    /\ {KeyLife, TokenLife, MaxTime} \subseteq Nat
    /\ None \notin Nat \cup IDs \cup Keys

VARIABLES
    now,
    keys,      \* Manager.keys: when a key was made, None if it is not there
    keyStart, keyPurge,  \* when the purge of keys that is under way has
               \* started, if one is, and the keys it has yet to remove
    tokens,    \* Manager.tokens: when a record was refreshed
    blank,     \* records without a token
    tokenPurging, tokenPurge,  \* whether tokens are purged, with tokensMutex
               \* held, and the records it has yet to remove
    reset,     \* records SetToken made during the purge
    request,   \* where the connect request of a key is
    socket, held,  \* where a websocket request is and the key it has
    made       \* number of connections made with a key

keyVars   == <<keys, keyStart, keyPurge>>
tokenVars == <<tokens, blank, tokenPurging, tokenPurge, reset>>
webVars   == <<request, socket, held, made>>
vars      == <<now, keyVars, tokenVars, webVars>>

(* The state has the types of the code's variables; a key that was not     *)
(* issued is not there.                                                    *)
TypeOK ==
    /\ now \in Nat
    /\ keys \in [Keys -> Nat \cup {None}]
    /\ keyStart \in Nat \cup {None} /\ keyPurge \subseteq Keys
    /\ tokens \in [IDs -> Nat \cup {None}]
    /\ blank \subseteq {t \in IDs : tokens[t] # None}
    /\ tokenPurging \in BOOLEAN /\ tokenPurge \subseteq IDs
    /\ reset \subseteq IDs
    /\ request \in [Keys -> {"idle", "resurrect", "refresh", "issue", "done"}]
    /\ socket \in [Sockets -> {"idle", "check", "upgrade", "refresh"}]
    /\ held \in [Sockets -> Keys \cup {None}]
    /\ made \in [Keys -> Nat]

(* The zero time, at which a record is expired whenever the program runs.  *)
Zero == 0
Start == Zero + TokenLife + 1

Init ==
    /\ now = Start
    /\ keys = [k \in Keys |-> None] /\ keyStart = None /\ keyPurge = {}
    /\ tokens = [t \in IDs |-> None] /\ blank = {}
    /\ tokenPurging = FALSE /\ tokenPurge = {} /\ reset = {}
    /\ request = [k \in Keys |-> "idle"]
    /\ socket = [s \in Sockets |-> "idle"]
    /\ held = [s \in Sockets |-> None]
    /\ made = [k \in Keys |-> 0]

-----------------------------------------------------------------------------
(* admin.Manager: the records of tokens.                                   *)

SetToken(t) ==
    /\ tokens' = [tokens EXCEPT ![t] = now]
    /\ blank' = blank \ {t}
    /\ reset' = IF tokenPurging THEN reset \cup {t} ELSE reset
    /\ UNCHANGED <<tokenPurging, tokenPurge>>

(* IsValidAdminAuthToken, false for all but admin auth tokens.             *)
Known(t) == t \in IDs \ (BasicIDs \cup blank) /\ tokens[t] # None

(* Mutant of RefreshAdminAuthToken: tokensMutex is not taken.              *)
RefreshAdminAuthTokenNoLock(t) ==
    IF t \in BasicIDs \cup {None}
    THEN UNCHANGED tokenVars
    ELSE /\ tokens' = [tokens EXCEPT ![t] = IF @ = None THEN Zero ELSE now]
         /\ blank' = IF tokens[t] = None THEN blank \cup {t} ELSE blank
         /\ UNCHANGED <<tokenPurging, tokenPurge, reset>>

(* RefreshAdminAuthToken, RefreshToken: waits for a purge.  A record that  *)
(* is not there is made, without a token and with the zero time.           *)
RefreshAdminAuthToken(t) ==
    IF t \in BasicIDs \cup {None}
    THEN UNCHANGED tokenVars
    ELSE /\ ~tokenPurging
         /\ tokens' = [tokens EXCEPT ![t] = IF @ = None THEN Zero ELSE now]
         /\ blank' = IF tokens[t] = None THEN blank \cup {t} ELSE blank
         /\ UNCHANGED <<tokenPurging, tokenPurge, reset>>

(* createAuthToken.                                                        *)
CreateToken(t) ==
    /\ t \notin BasicIDs
    /\ SetToken(t)
    /\ UNCHANGED <<now, keyVars, webVars>>

(* removeAuthToken: PopToken.                                              *)
RemoveToken(t) ==
    /\ tokens[t] # None
    /\ tokens' = [tokens EXCEPT ![t] = None]
    /\ blank' = blank \ {t}
    /\ UNCHANGED <<tokenPurging, tokenPurge, reset, now, keyVars, webVars>>

(* purgeExpiredTokens.                                                     *)
TokenPurgeStart ==
    /\ ~tokenPurging /\ tokenPurging' = TRUE
    /\ tokenPurge' = {t \in IDs : tokens[t] # None /\ tokens[t] + TokenLife < now}
    /\ reset' = {}
    /\ UNCHANGED <<tokens, blank, now, keyVars, webVars>>

TokenPurgeRemove(t) ==
    /\ t \in tokenPurge
    /\ tokenPurge' = tokenPurge \ {t}
    /\ tokens' = [tokens EXCEPT ![t] = None]
    /\ blank' = blank \ {t}
    /\ UNCHANGED <<tokenPurging, reset, now, keyVars, webVars>>

TokenPurgeEnd ==
    /\ tokenPurging /\ tokenPurge = {}
    /\ tokenPurging' = FALSE
    /\ reset' = {}
    /\ UNCHANGED <<tokens, blank, tokenPurge, now, keyVars, webVars>>

-----------------------------------------------------------------------------
(* rtm.connect.                                                            *)

(* isRequestWithValidAuth: a token whose record is not there comes back,   *)
(* and basic authentication always makes its record anew.                  *)
Authenticate(k) ==
    /\ request[k] = "idle"
    /\ request' = [request EXCEPT ![k] =
            IF IDOf[k] = None \/ Known(IDOf[k]) THEN "refresh" ELSE "resurrect"]
    /\ UNCHANGED <<socket, held, made, now, keyVars, tokenVars>>

Resurrect(k) ==
    /\ request[k] = "resurrect"
    /\ SetToken(IDOf[k])
    /\ request' = [request EXCEPT ![k] = "refresh"]
    /\ UNCHANGED <<socket, held, made, now, keyVars>>

RefreshRequest(k) ==
    /\ request[k] = "refresh"
    /\ RefreshAdminAuthToken(IDOf[k])
    /\ request' = [request EXCEPT ![k] = "issue"]
    /\ UNCHANGED <<socket, held, made, now, keyVars>>

(* Manager.Connect.                                                        *)
Connect(k) ==
    /\ request[k] = "issue"
    /\ request' = [request EXCEPT ![k] = "done"]
    /\ keys' = [keys EXCEPT ![k] = now]
    /\ UNCHANGED <<socket, held, made, keyStart, keyPurge, now, tokenVars>>

(* Mutants of KeyPurgeStart: the life of keys is not counted; their age is *)
(* taken to the next full step of time.                                    *)
KeyPurgeStartNow ==
    /\ keyStart = None /\ keyStart' = now
    /\ keyPurge' = {k \in Keys : keys[k] # None /\ keys[k] < now}
    /\ UNCHANGED <<keys, now, tokenVars, webVars>>

KeyPurgeStartLate ==
    /\ keyStart = None /\ keyStart' = now
    /\ keyPurge' = {k \in Keys : keys[k] # None /\ keys[k] + KeyLife + 1 < now}
    /\ UNCHANGED <<keys, now, tokenVars, webVars>>

(* purgeExpiredKeys.                                                       *)
KeyPurgeStart ==
    /\ keyStart = None /\ keyStart' = now
    /\ keyPurge' = {k \in Keys : keys[k] # None /\ keys[k] + KeyLife < now}
    /\ UNCHANGED <<keys, now, tokenVars, webVars>>

KeyPurgeRemove(k) ==
    /\ k \in keyPurge
    /\ keyPurge' = keyPurge \ {k}
    /\ keys' = [keys EXCEPT ![k] = None]
    /\ UNCHANGED <<keyStart, now, tokenVars, webVars>>

KeyPurgeEnd ==
    /\ keyStart # None /\ keyPurge = {}
    /\ keyStart' = None
    /\ UNCHANGED <<keys, keyPurge, now, tokenVars, webVars>>

-----------------------------------------------------------------------------
(* HandleWebsocketConnect.                                                 *)

(* Mutant of Pop: the key is looked up and stays.                          *)
PopGet(s, k) ==
    /\ socket[s] = "idle" /\ keys[k] # None
    /\ socket' = [socket EXCEPT ![s] = "check"]
    /\ held' = [held EXCEPT ![s] = k]
    /\ UNCHANGED <<request, made, keyVars, now, tokenVars>>

(* The key is taken out of the table.                                      *)
Pop(s, k) ==
    /\ socket[s] = "idle" /\ keys[k] # None
    /\ keys' = [keys EXCEPT ![k] = None]
    /\ socket' = [socket EXCEPT ![s] = "check"]
    /\ held' = [held EXCEPT ![s] = k]
    /\ UNCHANGED <<request, made, keyStart, keyPurge, now, tokenVars>>

(* The record of an admin auth token must be there still; a bearer token   *)
(* is validated as before, basic authentication is not.                    *)
Check(s) ==
    /\ socket[s] = "check"
    /\ IDOf[held[s]] \in BasicIDs \cup {None} \/ Known(IDOf[held[s]])
    /\ socket' = [socket EXCEPT ![s] = "upgrade"]
    /\ UNCHANGED <<request, held, made, keyVars, now, tokenVars>>

(* The request ends: the token is not valid or the upgrade fails.          *)
Forbid(s) ==
    /\ \/ socket[s] = "check" /\ held[s] \notin Basic /\ ~Known(IDOf[held[s]])
       \/ socket[s] = "upgrade"
    /\ socket' = [socket EXCEPT ![s] = "idle"]
    /\ held' = [held EXCEPT ![s] = None]
    /\ UNCHANGED <<request, made, keyVars, now, tokenVars>>

Upgrade(s) ==
    /\ socket[s] = "upgrade"
    /\ socket' = [socket EXCEPT ![s] = "refresh"]
    /\ UNCHANGED <<request, held, made, keyVars, now, tokenVars>>

(* The token is refreshed and the connection made.                         *)
Serve(s) ==
    /\ socket[s] = "refresh"
    /\ RefreshAdminAuthToken(IDOf[held[s]])
    /\ made' = [made EXCEPT ![held[s]] = @ + 1]
    /\ socket' = [socket EXCEPT ![s] = "idle"]
    /\ held' = [held EXCEPT ![s] = None]
    /\ UNCHANGED <<request, keyVars, now>>

-----------------------------------------------------------------------------
Tick ==
    /\ now < MaxTime
    /\ now' = now + 1
    /\ UNCHANGED <<keyVars, tokenVars, webVars>>

RequestStep(k) == Authenticate(k) \/ Resurrect(k) \/ RefreshRequest(k) \/ Connect(k)
SocketStep(s) == Check(s) \/ Forbid(s) \/ Upgrade(s) \/ Serve(s) \/ \E k \in Keys : Pop(s, k)
TokenStep(t) == CreateToken(t) \/ RemoveToken(t) \/ TokenPurgeRemove(t)

Next ==
    \/ \E k \in Keys : RequestStep(k) \/ KeyPurgeRemove(k)
    \/ \E s \in Sockets : SocketStep(s)
    \/ \E t \in IDs : TokenStep(t)
    \/ TokenPurgeStart \/ TokenPurgeEnd \/ KeyPurgeStart \/ KeyPurgeEnd
    \/ Tick

Spec == Init /\ [][Next]_vars

-----------------------------------------------------------------------------
(* Properties.                                                             *)

(* "URLs ... can only be used once": a key makes at most one connection,   *)
(* whatever requests use it at the same time and while keys are purged.    *)
UsedOnce == \A k \in Keys : made[k] <= 1

(* A purge that has ended has left no key that was expired when it began,  *)
(* whatever requests made and used keys meanwhile: a key can be used until *)
(* the end of the first purge that begins after it expired.                *)
PurgeComplete ==
    [][KeyPurgeEnd =>
            \A k \in Keys : keys[k] # None => keyStart <= keys[k] + KeyLife]_vars

(* The purge removes no record that was refreshed since it found it to be  *)
(* expired; a record that SetToken made meanwhile is not so protected.     *)
RefreshedKept ==
    [][\A t \in IDs : TokenPurgeRemove(t) =>
            tokens[t] = None \/ t \in reset \/ tokens[t] + TokenLife < now]_vars

-----------------------------------------------------------------------------
(* What the keys are for.                                                  *)

Held == {held[s] : s \in Sockets} \ {None}

T == INSTANCE Tickets
     WITH Life <- KeyLife,
          clock <- now,
          issued <- {k \in Keys : request[k] = "done"},
          valid <- keys,
          taken <- Held,
          used <- {k \in Keys : made[k] > 0}

(* Admission implements Tickets: each key is made once, makes one          *)
(* connection at most and can be used for connectExpiration at least.  How *)
(* long it can be used at most is up to the purge.  That this collects the *)
(* expired keys and removes them one by one while requests use them and    *)
(* new ones are made is never seen, nor is what happens to the tokens.     *)
ImplementsTickets == T!Spec

-----------------------------------------------------------------------------
(* The strengthening that makes the safety properties inductive.           *)

(* A key is in the table, held by one request or used, and never two.      *)
UseInv ==
    /\ \A s \in Sockets : socket[s] # "idle" => held[s] \in Keys
    /\ \A s \in Sockets : socket[s] = "idle" => held[s] = None
    /\ \A k \in Keys : request[k] = "resurrect" => IDOf[k] # None
    /\ \A k \in Keys : request[k] # "done" => keys[k] = None
    /\ \A k \in Keys : request[k] # "done" \/ keys[k] # None =>
            made[k] = 0 /\ \A s \in Sockets : held[s] # k
    /\ \A s \in Sockets : held[s] # None =>
            made[held[s]] = 0 /\ \A r \in Sockets : held[r] = held[s] => r = s
    /\ UsedOnce

(* What a purge of keys did not find was not expired when it began, or is  *)
(* newer.                                                                  *)
AgeInv ==
    keyStart # None =>
        /\ keyStart <= now
        /\ \A k \in Keys \ keyPurge : keys[k] # None => keyStart <= keys[k] + KeyLife

(* What a purge of keys found stays expired, or was used meanwhile.        *)
ExpiredInv ==
    \A k \in keyPurge :
        /\ keyStart # None /\ request[k] = "done"
        /\ keys[k] # None => keys[k] + KeyLife < now

(* What a purge of tokens found stays expired, as long as it is found.     *)
TokenInv ==
    \A t \in tokenPurge :
        /\ tokenPurging
        /\ tokens[t] = None \/ t \in reset \/ tokens[t] + TokenLife < now

IInv == TypeOK /\ UseInv /\ AgeInv /\ ExpiredInv /\ TokenInv

=============================================================================
