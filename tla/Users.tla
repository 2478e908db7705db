------------------------------- MODULE Users -------------------------------
(***************************************************************************)
(* The user table of the RTM manager (signaling/rtm: handlers.go,          *)
(* events.go, manager.go): which connections a user has, how they enter    *)
(* and leave the table, how the cleanup goroutine removes inactive users,  *)
(* and how message handlers look up a user's connections.                  *)
(*                                                                         *)
(* Every connection runs in a goroutine of its own, the cleanup is one     *)
(* more goroutine, and look-ups are made by the goroutines of other        *)
(* connections.  They meet in m.users, a sharded map whose Upsert runs its *)
(* callback with the shard locked, and in the lock every user record has.  *)
(* Between two lock operations a goroutine is not disturbed, so one action *)
(* here is the code from one blocking lock operation to the next.          *)
(***************************************************************************)
EXTENDS Naturals

CONSTANTS
    Conns,      \* connections, each accepted at most once
    UserIDs,    \* user ids
    UserOf,     \* the user id in the key that opened the connection
    Shards,     \* shards of m.users
    ShardOf,    \* the shard a user id hashes to
    Lookups,    \* goroutines that look up a user's connections
    Purger,     \* the cleanup goroutine
    Stray,      \* the record OnDisconnect makes when the user is unknown
    None        \* nil

ASSUME UsersAssumption ==
    /\ UserOf \in [Conns -> UserIDs]
    /\ ShardOf \in [UserIDs -> Shards]
    /\ Purger \notin Conns
    /\ Stray \notin Conns
    /\ None \notin Conns \cup {Purger, Stray}

VARIABLES
    pc,         \* where the goroutine of a connection is
    users,      \* m.users
    conns,      \* userRecord.connections: how often a connection is in it
    bound,      \* Connection.binder
    recLock,    \* holder of userRecord.RWMutex, locked for writing
    shardLock,  \* holder of a shard of m.users inside Upsert
    active,     \* m.connections
    exited,     \* records whose exit is later than the cleanup's now
    panicked,   \* a slice was indexed out of range
    purge,      \* state of purgeInactiveUsers
    lookup      \* state of LookupConnectionsByID

vars == <<pc, users, conns, bound, recLock, shardLock, active, exited,
          panicked, purge, lookup>>

-----------------------------------------------------------------------------
(* A user record is named by the connection whose key brought it.          *)
Records == Conns \cup {Stray}

Phases == {"accepted", "connect", "own", "upsert", "stored", "hello",
           "reading", "closed", "drop", "left", "gone"}

(* The connection is between the end of OnConnect's Upsert and the end of  *)
(* OnDisconnect's.                                                         *)
Registered == {"stored", "hello", "reading", "closed", "drop"}

(* userRecord.connections is a slice.  Its order is never used, so it is a *)
(* count for every connection, and under None the count of nil entries.    *)
Slices == [Conns \cup {None} -> Nat]

EmptySlice == [c \in Conns \cup {None} |-> 0]

Append1(slice, c) == [slice EXCEPT ![c] = @ + 1]

(* A slip: the new slice is made without counting the skipped entry.       *)
WithoutTwoShort(slice, c) == [slice EXCEPT ![c] = 0, ![None] = @ - 1]

(* OnDisconnect copies all entries but c to a slice that is one shorter:   *)
(* every further occurrence of c leaves a nil entry at the end.            *)
Without(slice, c) == [slice EXCEPT ![c] = 0, ![None] = @ + (slice[c] - 1)]

IsEmpty(slice) == \A c \in Conns \cup {None} : slice[c] = 0

Members(slice) == {c \in Conns : slice[c] > 0}

LookupStates == [pc : {"idle", "got", "done"},
                 user : UserIDs \cup {None},
                 rec : Records \cup {None},
                 present : SUBSET Conns,
                 result : SUBSET Conns]

PurgeStates == [pc : {"idle", "work", "remove"},
                shards : SUBSET Shards,
                todo : SUBSET Records,
                empty : SUBSET Records,
                at : Records \cup {None}]

(* The state has the types of the Go declarations.                         *)
TypeOK ==
    /\ pc \in [Conns -> Phases]
    /\ users \in [UserIDs -> Records \cup {None}]
    /\ conns \in [Records -> Slices]
    /\ bound \in [Conns -> Records]
    /\ recLock \in [Records -> Conns \cup {Purger, None}]
    /\ shardLock \in [Shards -> Conns \cup {None}]
    /\ active \subseteq Conns
    /\ exited \subseteq Records
    /\ panicked \in BOOLEAN
    /\ purge \in PurgeStates
    /\ lookup \in [Lookups -> LookupStates]

Init ==
    /\ pc = [c \in Conns |-> "accepted"]
    /\ users = [u \in UserIDs |-> None]
    /\ conns = [r \in Records |-> EmptySlice]
    /\ bound = [c \in Conns |-> c]
    /\ recLock = [r \in Records |-> None]
    /\ shardLock = [s \in Shards |-> None]
    /\ active = {}
    /\ exited = {}
    /\ panicked = FALSE
    /\ purge = [pc |-> "idle", shards |-> {}, todo |-> {}, empty |-> {},
                at |-> None]
    /\ lookup = [l \in Lookups |->
                    [pc |-> "idle", user |-> None, rec |-> None,
                     present |-> {}, result |-> {}]]

Goto(c, from, to) == pc[c] = from /\ pc' = [pc EXCEPT ![c] = to]

ShardOfConn(c) == ShardOf[UserOf[c]]

-----------------------------------------------------------------------------
(* The goroutine of a connection.                                          *)

(* serveWebsocketConnection: the connection counts as active.              *)
Serve(c) ==
    /\ Goto(c, "accepted", "connect")
    /\ active' = active \cup {c}
    /\ UNCHANGED <<users, conns, bound, recLock, shardLock, exited,
                   panicked, purge, lookup>>

(* OnConnect: nur.Lock(), the record the key brought.                      *)
LockOwnRecord(c) ==
    /\ Goto(c, "connect", "own")
    /\ recLock[c] = None
    /\ recLock' = [recLock EXCEPT ![c] = c]
    /\ UNCHANGED <<users, conns, bound, shardLock, active, exited,
                   panicked, purge, lookup>>

(* OnConnect: m.users.Upsert locks the shard.                              *)
ConnectEnter(c) ==
    /\ Goto(c, "own", "upsert")
    /\ shardLock[ShardOfConn(c)] = None
    /\ shardLock' = [shardLock EXCEPT ![ShardOfConn(c)] = c]
    /\ UNCHANGED <<users, conns, bound, recLock, active, exited, panicked,
                   purge, lookup>>

(* OnConnect's callback when the user has no record: the key's is stored.  *)
ConnectFirst(c) ==
    /\ Goto(c, "upsert", "stored")
    /\ users[UserOf[c]] = None
    /\ users' = [users EXCEPT ![UserOf[c]] = c]
    /\ conns' = [conns EXCEPT ![c] = Append1(@, c)]
    /\ shardLock' = [shardLock EXCEPT ![ShardOfConn(c)] = None]
    /\ UNCHANGED <<bound, recLock, active, exited, panicked, purge,
                   lookup>>

(* A slip: the connection is appended to the record the key brought.       *)
ConnectAgainOwnRecord(c) ==
    LET ur == users[UserOf[c]] IN
    /\ Goto(c, "upsert", "stored")
    /\ ur # None
    /\ recLock[ur] = None
    /\ conns' = [conns EXCEPT ![c] = Append1(@, c)]
    /\ bound' = [bound EXCEPT ![c] = ur]
    /\ shardLock' = [shardLock EXCEPT ![ShardOfConn(c)] = None]
    /\ UNCHANGED <<users, recLock, active, exited, panicked, purge,
                   lookup>>

(* OnConnect's callback when the user has one: wait for its lock, append,  *)
(* and bind the connection to that record.                                 *)
ConnectAgain(c) ==
    LET ur == users[UserOf[c]] IN
    /\ Goto(c, "upsert", "stored")
    /\ ur # None
    /\ recLock[ur] = None
    /\ conns' = [conns EXCEPT ![ur] = Append1(@, c)]
    /\ bound' = [bound EXCEPT ![c] = ur]
    /\ shardLock' = [shardLock EXCEPT ![ShardOfConn(c)] = None]
    /\ UNCHANGED <<users, recLock, active, exited, panicked, purge,
                   lookup>>

(* A slip: the record stays locked.                                        *)
UnlockOwnRecordNot(c) ==
    /\ Goto(c, "stored", "hello")
    /\ UNCHANGED <<users, conns, bound, recLock, shardLock, active, exited,
                   panicked, purge, lookup>>

(* OnConnect: nur.Unlock().                                                *)
UnlockOwnRecord(c) ==
    /\ Goto(c, "stored", "hello")
    /\ recLock' = [recLock EXCEPT ![c] = None]
    /\ UNCHANGED <<users, conns, bound, shardLock, active, exited,
                   panicked, purge, lookup>>

(* OnConnect: send hello, then read.                                       *)
SendHello(c) ==
    /\ Goto(c, "hello", "reading")
    /\ UNCHANGED <<users, conns, bound, recLock, shardLock, active, exited,
                   panicked, purge, lookup>>

(* readPump ends for whatever reason and closes the connection.            *)
EndOfRead(c) ==
    /\ Goto(c, "reading", "closed")
    /\ UNCHANGED <<users, conns, bound, recLock, shardLock, active, exited,
                   panicked, purge, lookup>>

(* OnDisconnect: m.users.Upsert locks the shard.                           *)
DisconnectEnter(c) ==
    /\ Goto(c, "closed", "drop")
    /\ shardLock[ShardOfConn(c)] = None
    /\ shardLock' = [shardLock EXCEPT ![ShardOfConn(c)] = c]
    /\ UNCHANGED <<users, conns, bound, recLock, active, exited, panicked,
                   purge, lookup>>

(* OnDisconnect's callback: wait for the record in the map and take the    *)
(* connection out; the copy overruns when the connection is not in it.     *)
(* When the user is unknown ("this should not happen") a record with the   *)
(* id of the connection is stored.                                         *)
DisconnectDrop(c) ==
    LET ur == users[UserOf[c]]
        known == ur # None
        found == known /\ conns[ur][c] > 0
    IN
    /\ Goto(c, "drop", "left")
    /\ known => recLock[ur] = None
    /\ users' = IF known THEN users ELSE [users EXCEPT ![UserOf[c]] = Stray]
    /\ conns' = IF found THEN [conns EXCEPT ![ur] = Without(@, c)] ELSE conns
    /\ exited' = IF found /\ IsEmpty(conns'[ur]) THEN exited \cup {ur} ELSE exited
    /\ panicked' = (panicked \/ (known /\ ~found))
    /\ shardLock' = [shardLock EXCEPT ![ShardOfConn(c)] = None]
    /\ UNCHANGED <<bound, recLock, active, purge, lookup>>

(* serveWebsocketConnection returns: the connection is no longer active.   *)
Unserve(c) ==
    /\ Goto(c, "left", "gone")
    /\ active' = active \ {c}
    /\ UNCHANGED <<users, conns, bound, recLock, shardLock, exited,
                   panicked, purge, lookup>>

(* All steps but the end of the read loop, which the peer decides.         *)
ConnStep(c) ==
    \/ Serve(c) \/ LockOwnRecord(c) \/ ConnectEnter(c) \/ ConnectFirst(c)
    \/ ConnectAgain(c) \/ UnlockOwnRecord(c) \/ SendHello(c)
    \/ DisconnectEnter(c) \/ DisconnectDrop(c) \/ Unserve(c)

-----------------------------------------------------------------------------
(* purgeInactiveUsers.                                                     *)

PurgeStart ==
    /\ purge.pc = "idle"
    /\ purge' = [purge EXCEPT !.pc = "work", !.shards = Shards]
    /\ exited' = {}
    /\ UNCHANGED <<pc, users, conns, bound, recLock, shardLock, active,
                   panicked, lookup>>

(* IterBuffered copies one shard after the other.                          *)
PurgeSnapshot(s) ==
    /\ s \in purge.shards
    /\ shardLock[s] = None
    /\ purge' = [purge EXCEPT
                    !.shards = @ \ {s},
                    !.todo = @ \cup ({users[u] : u \in {v \in UserIDs :
                                            ShardOf[v] = s}} \ {None})]
    /\ UNCHANGED <<pc, users, conns, bound, recLock, shardLock, active,
                   exited, panicked, lookup>>

(* First loop: remember the records that are empty and whose exit is past  *)
(* the deadline, channelExpiration before the now of the cleanup's start.  *)
PurgeScan(r, expired) ==
    /\ purge.shards = {}
    /\ r \in purge.todo
    /\ recLock[r] = None
    /\ expired => r \notin exited
    /\ purge' = [purge EXCEPT
                    !.todo = @ \ {r},
                    !.empty = @ \cup {x \in {r} : IsEmpty(conns[x]) /\ expired}]
    /\ UNCHANGED <<pc, users, conns, bound, recLock, shardLock, active,
                   exited, panicked, lookup>>

(* A slip: the second loop trusts what the first one saw.                  *)
PurgeLockUnchecked(r) ==
    /\ purge.pc = "work"
    /\ purge.shards = {} /\ purge.todo = {}
    /\ r \in purge.empty
    /\ recLock[r] = None
    /\ purge' = [purge EXCEPT !.pc = "remove", !.at = r]
    /\ recLock' = [recLock EXCEPT ![r] = Purger]
    /\ UNCHANGED <<pc, users, conns, bound, shardLock, active, exited,
                   panicked, lookup>>

(* Second loop: lock the record and look again; keep the lock when it is   *)
(* still empty.                                                            *)
PurgeLock(r) ==
    /\ purge.pc = "work"
    /\ purge.shards = {} /\ purge.todo = {}
    /\ r \in purge.empty
    /\ recLock[r] = None
    /\ IF IsEmpty(conns[r])
       THEN /\ purge' = [purge EXCEPT !.pc = "remove", !.at = r]
            /\ recLock' = [recLock EXCEPT ![r] = Purger]
       ELSE /\ purge' = [purge EXCEPT !.empty = @ \ {r}]
            /\ UNCHANGED recLock
    /\ UNCHANGED <<pc, users, conns, bound, shardLock, active, exited,
                   panicked, lookup>>

(* Second loop: m.users.Remove(record.id) while the record is locked.  The *)
(* id of the stray record is no user id.                                   *)
PurgeRemove ==
    LET r == purge.at IN
    /\ purge.pc = "remove"
    /\ IF r = Stray
       THEN UNCHANGED users
       ELSE /\ shardLock[ShardOfConn(r)] = None
            /\ users' = [users EXCEPT ![UserOf[r]] = None]
    /\ recLock' = [recLock EXCEPT ![r] = None]
    /\ purge' = [purge EXCEPT !.pc = "work", !.empty = @ \ {r}, !.at = None]
    /\ UNCHANGED <<pc, conns, bound, shardLock, active, exited, panicked,
                   lookup>>

PurgeEnd ==
    /\ purge.pc = "work"
    /\ purge.shards = {} /\ purge.todo = {}
    /\ purge.empty = {}
    /\ purge' = [purge EXCEPT !.pc = "idle"]
    /\ UNCHANGED <<pc, users, conns, bound, recLock, shardLock, active,
                   exited, panicked, lookup>>

PurgeStep ==
    \/ PurgeStart
    \/ \E s \in Shards : PurgeSnapshot(s)
    \/ \E r \in Records, expired \in BOOLEAN : PurgeScan(r, expired)
    \/ \E r \in Records : PurgeLock(r)
    \/ PurgeRemove
    \/ PurgeEnd

-----------------------------------------------------------------------------
(* LookupConnectionsByID.                                                  *)

(* lookupUserEntryByID: m.users.Get under the shard's read lock.  present  *)
(* remembers, for the properties, who was registered at that moment.       *)
LookupGet(l, u) ==
    LET present == {c \in Conns : UserOf[c] = u /\ pc[c] \in Registered} IN
    /\ lookup[l].pc # "got"
    /\ shardLock[ShardOf[u]] = None
    /\ lookup' = [lookup EXCEPT ![l] =
                    [pc |-> IF users[u] = None THEN "done" ELSE "got",
                     user |-> u, rec |-> users[u],
                     present |-> present, result |-> {}]]
    /\ UNCHANGED <<pc, users, conns, bound, recLock, shardLock, active,
                   exited, panicked, purge>>

(* The copy of the slice under the record's read lock.                     *)
LookupCopy(l) ==
    /\ lookup[l].pc = "got"
    /\ recLock[lookup[l].rec] = None
    /\ lookup' = [lookup EXCEPT ![l].pc = "done",
                                ![l].result = Members(conns[lookup[l].rec])]
    /\ UNCHANGED <<pc, users, conns, bound, recLock, shardLock, active,
                   exited, panicked, purge>>

LookupStep(l) == LookupCopy(l) \/ \E u \in UserIDs : LookupGet(l, u)

-----------------------------------------------------------------------------
Next ==
    \/ \E c \in Conns : ConnStep(c) \/ EndOfRead(c)
    \/ PurgeStep
    \/ \E l \in Lookups : LookupStep(l)

Spec == Init /\ [][Next]_vars

(* A goroutine that can run does run, and a sync.RWMutex serves a waiting  *)
(* goroutine after a finite time.  Nothing makes a client hang up.         *)
Fairness ==
    /\ \A c \in Conns : SF_vars(ConnStep(c))
    /\ SF_vars(PurgeStep)
    /\ \A l \in Lookups : SF_vars(LookupCopy(l))

FairSpec == Spec /\ Fairness

-----------------------------------------------------------------------------
(* The properties.                                                         *)

(* From the end of OnConnect's Upsert to OnDisconnect's, a connection is   *)
(* exactly once in the record that m.users holds for its user, which is    *)
(* the record it is bound to, and in no other record: the cleanup never    *)
(* drops a user who has come back, and no nil entry is left in a slice.    *)
RegisteredOnce ==
    /\ \A r \in Records : conns[r][None] = 0
    /\ \A c \in Conns : pc[c] \in Registered =>
            /\ users[UserOf[c]] = bound[c]
            /\ conns[bound[c]][c] = 1
    /\ \A c \in Conns, r \in Records :
            (pc[c] \in Registered => r # bound[c]) => conns[r][c] = 0

(* OnDisconnect always finds its user and its connection: the branch that  *)
(* warns "this should not happen" is never taken, and the copy into the    *)
(* shorter slice never runs over its end.                                  *)
DisconnectFindsConnection ==
    /\ ~panicked
    /\ \A u \in UserIDs : users[u] # Stray

(* LookupConnectionsByID reads the map and the record under different      *)
(* locks.  Even so it misses no connection that was registered when the    *)
(* map was read and still is, and returns only connections of that user.   *)
LookupComplete ==
    \A l \in Lookups : lookup[l].pc = "done" =>
        /\ {c \in lookup[l].present : pc[c] \in Registered} \subseteq lookup[l].result
        /\ \A c \in lookup[l].result : UserOf[c] = lookup[l].user

(* Who holds a shard is inside Upsert and waits, if at all, for the lock   *)
(* of the user's record, and that is held by a connection that has only to *)
(* unlock it or by the cleanup about to remove it: everyone who waits for  *)
(* a shard or a record waits, in the end, for someone who can go on or for *)
(* that one circle of the cleanup and an Upsert.                           *)
OnlyPurgeBlocks ==
    \A s \in Shards : shardLock[s] # None =>
        LET c == shardLock[s]
            ur == users[UserOf[c]]
        IN
        /\ pc[c] \in {"upsert", "drop"} /\ ShardOfConn(c) = s
        /\ ur # None /\ recLock[ur] # None =>
               \/ recLock[ur] \in Conns /\ pc[recLock[ur]] = "stored"
               \/ purge.pc = "remove" /\ purge.at = ur

-----------------------------------------------------------------------------
(* What the table is for: who is there.                                    *)

(* The connections in the records that m.users holds.                      *)
Present ==
    {c \in Conns : users[UserOf[c]] # None /\ conns[users[UserOf[c]]][c] > 0}

Left == {c \in Conns : pc[c] \in {"left", "gone"}}

(* A look-up between its two reads must find who was registered at the     *)
(* first and still is.                                                     *)
Look(l) ==
    [busy |-> lookup[l].pc = "got",
     user |-> lookup[l].user,
     must |-> IF lookup[l].pc = "got"
              THEN {c \in lookup[l].present : pc[c] \in Registered} ELSE {},
     result |-> lookup[l].result]

P == INSTANCE Presence
     WITH present <- Present, left <- Left, look <- [l \in Lookups |-> Look(l)]

(* Users implement Presence: whoever looks only at the connections that    *)
(* can be found sees each come once and leave once, and look-ups that miss *)
(* nobody who is there throughout.  Records, locks and the several steps   *)
(* in which the cleanup collects, locks and removes a record, and those in *)
(* which a user comes back meanwhile, are never seen.                      *)
ImplementsPresence == P!Spec

-----------------------------------------------------------------------------
(* The inductive strengthening of the three invariants.                    *)

Arriving == {"accepted", "connect", "own", "upsert"}

(* m.users holds under a user id only records made for that id.            *)
MapInv ==
    \A u \in UserIDs : users[u] # None =>
        users[u] \in Conns /\ UserOf[users[u]] = u

(* A connection holds its own record from nur.Lock() to nur.Unlock(), and  *)
(* is bound to it until the Upsert.                                        *)
OwnRecordInv ==
    \A c \in Conns :
        /\ pc[c] \in {"own", "upsert", "stored"} => recLock[c] = c
        /\ pc[c] \in Arriving => bound[c] = c

(* What the cleanup remembers is still in the map: nobody else removes.    *)
PurgeInv ==
    /\ \A r \in purge.todo \cup purge.empty :
            r \in Conns /\ users[UserOf[r]] = r
    /\ purge.pc = "remove" =>
            /\ purge.shards = {} /\ purge.todo = {}
            /\ purge.at \in purge.empty
            /\ recLock[purge.at] = Purger
            /\ IsEmpty(conns[purge.at])

(* A look-up holds the record of everybody it still has to find.           *)
LookupInv ==
    \A l \in Lookups :
        /\ lookup[l].pc = "got" =>
              /\ lookup[l].rec \in Conns
              /\ UserOf[lookup[l].rec] = lookup[l].user
        /\ \A c \in lookup[l].present :
              /\ pc[c] \notin Arriving
              /\ lookup[l].pc = "got" /\ pc[c] \in Registered =>
                     bound[c] = lookup[l].rec

IInv ==
    /\ TypeOK
    /\ RegisteredOnce
    /\ DisconnectFindsConnection
    /\ LookupComplete
    /\ MapInv
    /\ OwnRecordInv
    /\ PurgeInv
    /\ LookupInv

(* Who holds a lock, and what for: a record's lock is its connection's in  *)
(* OnConnect or the cleanup's, a shard's a connection's in Upsert.  A      *)
(* record is stored in the map after its connection's Upsert.              *)
LockInv ==
    /\ \A r \in Records : recLock[r] # None =>
           \/ r \in Conns /\ recLock[r] = r /\ pc[r] \in {"own", "upsert", "stored"}
           \/ recLock[r] = Purger /\ purge.pc = "remove" /\ purge.at = r
    /\ \A c \in Conns, s \in Shards :
           shardLock[s] = c <=> pc[c] \in {"upsert", "drop"} /\ ShardOfConn(c) = s
    /\ \A u \in UserIDs : users[u] \in Conns => pc[users[u]] \notin Arriving

-----------------------------------------------------------------------------
(* api-v1/rtm.go: hello is "the message sent to clients after connect".    *)
(* Every connection that enters OnConnect gets as far as sending it.       *)
HelloAfterConnect ==
    \A c \in Conns : pc[c] = "connect" ~> pc[c] \in {"reading", "closed", "drop",
                                                   "left", "gone"}

=============================================================================
