# A TLA+ verification of kwmserver

kwmserver is the signalling server of Kopano's web meetings. Clients ask for a
connect key by HTTP, open a websocket with it, and then exchange messages to
call each other, to join groups and to chat. Groups may be bridged to an MCU,
which connects to the server by websockets of its own. Everything is in memory:
a restart forgets all, so there is no recovery to verify. What is hard to get
right is the concurrency: every connection has two goroutines, the managers
have cleanup goroutines, and they meet in sharded maps, record locks, channels
and timers.

## Contents

1. [The system's parts](#the-systems-parts)
2. [Modules and code](#modules-and-code)
3. [What is checked](#what-is-checked)
4. [Bounds](#bounds)
5. [Fairness](#fairness)
6. [What is proved](#what-is-proved)
7. [Where code and text disagree](#where-code-and-text-disagree)
8. [What is not modelled](#what-is-not-modelled)

## The system's parts

| Part | Source | State | Changed by | Module |
|---|---|---|---|---|
| Admission | `signaling/rtm/http.go`, `rtm/handlers.go`, `admin/auth.go`, `admin/manager.go` | connect keys, token records | connect and websocket requests, token API, two purges | `Admission` |
| Connection | `signaling/connection/connection.go` | send and ping channels, callbacks, closed | read pump, write pump, senders, closers | `Connection` |
| User table | `signaling/rtm/events.go`, `rtm/manager.go` | users, their connections | OnConnect, OnDisconnect, purge | `Users` |
| Channels | `signaling/rtm/channel.go`, `rtm/webrtc.go` | channels, members | group, call, hangup and signal messages, closed connections, purge | `Channels` |
| Group lists | `signaling/rtm/group.go` | lists sent to members | goroutines after joins, leaves, resets | `GroupLists` |
| Chats | `signaling/rtm/chats.go` | order of chat messages | handlers of chat messages, goroutines after joins and leaves | `Chats` |
| MCU | `signaling/mcu` | attached records, a pipeline, its timers | attach, websocket requests, timers, purge | `Pipeline` |
| Server status | `signaling/server/build-supported.go`, `rtm/events.go` | status in hello and server messages | reporter, OnServerStatus | `Server` |
| Server | `signaling/server/server.go` | listener, connections that are counted, Serve | requests, signals, NumActive | `Server` |
| Guests | `signaling/guest` | none | requests | `Guests`, as operators |
| Client registry | `clients` | clients, read at start | start | `Clients`, as operators |
| TURN | `turn` | none | requests | no |
| Payloads, routes, metrics, command, static files | `signaling/api-v1`, `api-v2`, `rtm/metrics.go`, `cmd`, `config`, `signaling/www` | none the server's behaviour depends on | | no |

How they interact: Admission makes a key and later, in exchange for it, a
connection bound to a user record. The read pump of the connection calls
OnConnect (the user enters the table), then hands every message to a handler,
and calls OnDisconnect at the end. Handlers look up other users' connections in
the table, put connections into channels, and send. `Channel.Add` registers a
callback with the connection, so that closing it takes it out of its channels.
A change of a channel starts goroutines that send group lists and chat notices.
A group channel may own a pipeline, which attaches to the MCU and accepts the
MCU's websocket as its connection. Guest access, with the client registry,
decides what the auth of a guest's user record allows, and the handlers of
channels look at it. The server counts the connections of both managers, tells
clients of changes of its status, and waits for connections before it exits.

## Modules and code

Each component has a module `X`, an instance `MCX` for TLC with one or more
configurations, and `XProofs`. The variables carry the names
of the fields they stand for; comments at the declarations say which. Names of
actions are the names of functions, with a suffix where a function is several
steps. `PROJECT.json` maps every definition to lines of the source. Operators
that stand just before an action under a longer name (`PurgeLockUnchecked`
before `PurgeLock`) are faulty variants of it, used to see that a property can
fail.

**Grain.** A step is what a goroutine does between two operations at which
others can come between: taking a lock that others hold across steps, a map
operation, a channel operation, a websocket operation. Critical sections that
contain no blocking operation are single steps.

* `Users`: one process per connection through accepted, OnConnect (its own
  record, then the Upsert with shard and record locked), hello, reading, closed,
  OnDisconnect, gone; the purge with its two loops; a look-up in two steps. A
  record is named by the connection whose key brought it, and its `connections`
  is a count for each connection, so that duplicates and leftovers show.
* `Channels`: one handler per connection. `webrtc_group` is Upsert, the size
  check for restricted users, and Add; a call is its start, its answer and the
  Add; a hangup removes and replies. Every message is first held against the
  auth of the user's record (`Allowed`). A closing connection runs its callbacks.
  `purgeEmptyChannels` is its scan, Cleanup and removal. Random channel ids are
  made once. A hash is bound to a channel id and a user id (`hashed`): what the
  server made for a user, any connection of that user can present, at any time.
  A channel with a pipeline leaves the check of hashes to it, and is not in this
  module.
* `Connection`: read pump, write pump, RawSend in two steps under the read lock,
  Close in its steps (mark, close the channel, take the callbacks, run them).
  Messages are numbered by sender.
* `Chats`: speakers (chat handlers, and goroutines after joins and leaves) that
  take the mutex, reply, read the members, and send one by one.
* `GroupLists`: users with several connections that join by `webrtc_group` (and
  are replied to) or by an accept (and are not), take each other's place, hang up
  and close; the goroutines that read the members and send the list one by one.
  A list counts as sent whether or not RawSend accepted it.
* `Pipeline`: the attach table, requests of the MCU, the purge, one pipeline,
  and its timers as counts of armed, replaced and fired ones, since a timer
  that has fired cannot be stopped and waits for the mutex. The MCU and its
  control connections are an environment that may do anything.
* `Admission`: connect requests with an admin auth token, a bearer token or
  basic authentication; websocket requests; the token API; two purges; time in
  steps. A purge may begin at any time and take any time: its goroutine has other
  work, some of which can block it, so that no interval is assumed.
* `Server`: requests that become connections of a client, of an MCU or of a
  pipeline and enter the table of their manager; the reporter and OnServerStatus,
  which go through the connections one by one; the goroutine of the listener;
  Serve through select, Shutdown, the cancelled context, and the loop that counts
  the two tables, one after the other. The goroutine of a client may come to wait
  for good (`Block`, variable `stuck`), as `users_hello` and `channels_lock` show
  that it can.
* `Guests`, `Clients`: operators for the logon of a guest, the restrictions that
  come of its claims, and the registration, look-up and keys of clients. An
  origin is its text, scheme and host, since the look-up trusts by scheme and
  host and compares registered origins as text. They keep no state. `MCChannels` evaluates them: `LogonAgrees` compares the logon
  with a definition of its own for all registration files of up to two entries
  from a small set, and the guest of the `channels` run has the auth they give.
* `Presence`, `Membership`: what the user table and the channels are for, without
  records, locks, objects and cleanup. `Presence` has a set of connections that
  come and leave, and look-ups that take time and must find who is there all the
  while. `Membership` has for each channel id one connection per user, who was
  invited, and the connection is out before it is gone. `Users` and `Channels` implement them
  under the mappings `Present`, `Left`, `Look` and `MembersOf`, `Gone`.
* `Tickets`, `Outbox`, `Broadcast`: what connect keys, a connection's send
  channel and a channel's chat are for. A ticket is issued once, taken once, and
  forgotten not before its life is over. An outbox is a queue
  of limited size that is written from its front and accepts nothing after it was
  shut. A broadcast is one message at a time that each hears at most once, an
  author's in order, with a confirmation afterwards. `Admission` implements
  `Tickets` with `taken` mapped to the keys requests hold (`Held`), `Connection`
  implements `Outbox` with its channel as the queue, open until `closed` is set,
  and `Chats` implements `Broadcast` with what the holder of the mutex says
  (`Said`).

The maps of `orcaman/concurrent-map`, the websocket library and Go's timers are
modelled from how this code uses them.

## What is checked

| Run | Shows |
|---|---|
| `users` | `RegisteredOnce`: a served connection is exactly once in the record of its user that is in the map. `DisconnectFindsConnection`: OnDisconnect finds it there, so its copying of the slice is within bounds. `OnlyPurgeBlocks`: who holds a shard waits, if at all, for a record that is about to be unlocked or that the purge is about to remove, so the circle of `users_hello` is the only one. `ImplementsPresence`: the whole is an implementation of `Presence`, in which a look-up misses nobody who is there all the while. |
| `channels` | `KeptLock`: a channel is left locked only by an accept on a second connection of a user in a call channel, so that group channels never are. `NoGhostMember`: a closed connection is in no channel. `MembersHoldHash`: who is in a channel is there for a user the server made a hash of the channel for. `GuestsStayInGroup`: a guest is in no channel but its group's (and those of calls, if it may create channels). `ReplacementStays`: a connection leaves only by its own close, a hangup of its user, or a newer connection of its user. |
| `channels_live` | `MembersReachable`: a channel with members is open and in the map. `ImplementsMembership`: seen by channel id, the whole is an implementation of `Membership`. `CloseCompletes`: a closing connection gets to the end of Close. `EmptyChannelRemoved`: a channel that stays empty is removed. Group channels only, and a purge that is not kept by its other work; see [below](#what-the-liveness-properties-rest-on). |
| `connection` | `NoPanic`: no send on, or second close of, the closed channel. `CallbackOnce`, `CallbackRuns`: callbacks registered before Close run exactly once. `NoneStranded`: until then they are in the list of an open connection or in the hands of a goroutine inside Close. `ImplementsOutbox`: what senders see is an implementation of `Outbox`, so that messages go out in order, once, from a bounded queue, whatever Close and the pumps do meanwhile. `TornDown`: when one pump ends all ends. |
| `chats` | `SameOrder`: two members get the messages they both get in the same order. `ImplementsBroadcast`: the whole is an implementation of `Broadcast`. `SpeakersEnd`: nobody waits forever for the mutex. |
| `group_lists` | `CurrentListSent`: when the goroutines are done, every member was sent the present list. The exception is a connection that came in with an accept: the handler does not send it the list, and the goroutine skips the user whose change it reports, so it first gets one when somebody else comes or goes. That the present list is the last one a member gets is not so: nothing orders the goroutines. |
| `pipeline` | `OneConnection` per transaction; `OpenIsAttached`: the purge takes no record with an open connection; `Watched`, `ConnectingEnds`, `Retries`: retrying goes on until Close; `ClosedEnds`: and then stops. |
| `admission` | `UsedOnce`: a key makes one connection. `PurgeComplete`: a purge leaves no key that was expired when it began, so a key can be used until the end of the first purge that begins after it expired. `ImplementsTickets`: keys are an implementation of `Tickets`: usable for their life at least. `RefreshedKept`: a record refreshed since it was found expired is not purged. |
| `server` | `StatusKnown`: a client that has its hello has been sent the current status, unless it is still to be told or a send failed. `GracefulReturn`: Serve returns, but for a second signal, only after the listener and every connection it had when it cancelled its context. `Stops`: and it does return, unless the goroutine of a client waits for a lock for good. |
| `users_hello`, `channels_lock`, `pipeline_stuck` | Expected violations, see [below](#where-code-and-text-disagree). |

### What the liveness properties rest on

Each liveness property is checked in the module of its component, and so holds
provided that the deadlocks found elsewhere do not occur:

* `CloseCompletes` passes for group channels only. For a connection in a call
  channel it fails, which is `channels_lock`; `KeptLock` says that this is the
  only way.
* `EmptyChannelRemoved`: the goroutine that purges channels also purges users, and
  locks call channels to see whether they are empty. It is stuck for good in the
  deadlock of `users_hello`, and at a channel left locked as in `channels_lock`.
* `CallbackRuns` and `TornDown` of `Connection` assume that OnConnect, the
  handlers and the callbacks of OnClosed return. OnConnect does not in
  `users_hello`, and the callback of `Channel.Add` does not in `channels_lock`.
* `SpeakersEnd`: a speaker calls `channel.Connections()`, which takes the
  channel's lock, so a call channel left locked keeps it, and with it the chats
  mutex.
* `Stops` names the case itself (`stuck`): a client whose goroutine waits for good
  stays in the table, and Serve counts it until a second signal.

To run one: `tlc -config MCUsers.cfg MCUsers`. No configuration checks for
deadlock in TLC's sense, since every model may come to rest: connections are
gone, the messages are sent. That nobody is left waiting is stated by the
liveness properties instead.

## Bounds

| Instance | Bounds | Why they are enough |
|---|---|---|
| `MCUsers` | three connections of two users in one shard, one look-up | A user with two devices, one of which leaves and comes back while the purge runs; a second user in the same shard, so that it is locked for somebody else. |
| `MCChannels` | a user with two connections, a guest with one, a group and a call channel | Replacement, the kept lock and a hash made for another connection need two connections of one user, and a restriction somebody else who makes the channel. |
| `ChannelsLive` | a user with two connections, a group id with two Channel objects, no calls | A channel that is purged and made again needs two objects. Calls can lock a channel for good, which `channels_lock` shows with three connections and one call. |
| `MCConnection` | one sender, one closer, one callback, `SendCap` 2, `PingCap` 1, one message per goroutine besides hello and goodbye | Three goroutines send, so the queue of two can be full; both pumps and the closer can race in Close. |
| `MCChats` | three connections, two chat messages of one and one of another, a leave and a join | Chat messages and notices compete for the mutex, an author's second message with the report of its first; one connection is slow. |
| `MCGroupLists` | a user with two connections and two changes, a user with one of each, one reset | Join, replacement or leave against another's join: up to four goroutines at once. |
| `MCPipeline` | one transaction, two requests, `MaxGo` 1 | Two requests race for a record with the purge; `PipelineStuck` has two transactions and one request. |
| `MCAdmission` | three keys (token, bearer, basic), two websocket requests, lives of 1, time 2 to 4 | A key is issued, expires and can be used late while another is issued during the purge that finds it; the purges begin at any time and any number of times. |
| `MCServer` | a client, an MCU's control connection, a pipeline's connection, results 0 and 1, `MaxReports` 2 | One connection of each kind, in each table and in none; the status changes, and changes back while a client connects. |

`MaxReports`, `MaxAttach`, `MaxGo`, `MaxTime`, `MaxSends`, `MaxChats`, `MaxChanges` and
`MaxResets` bound what the code leaves unbounded. They are in the guards, so the
properties `Retries` and `Reconnects` except the state in which the bound, and
not the code, stops the pipeline (`Unable`). The theorems hold for every value
of them.

Symmetry is used in the runs without liveness properties where identities are
interchangeable: for the connections of the user with two of them (`users`,
`channels`, `group_lists`) and for the websocket requests (`admission`).

## Fairness

* Goroutines that can run do run: weak fairness of their steps.
* Go's `sync.Mutex` and `sync.RWMutex` do not starve who waits: strong fairness
  of the steps that take a lock others take again and again (`Users`,
  `CloseStep` of `Connection`, `SpeakerStep` of `Chats`).
* Timers fire (`WatchFire`, `ReconnectFire`). The cleanup of channels is a
  ticker, so a channel that stays empty is old enough at some scan
  (`PurgeScan(ch, TRUE)`).
* OnConnect, handlers and callbacks return (`Connection`). `Server` does not
  assume it: fairness there is of the steps of connections that are not stuck.
* A read of a websocket that this side has closed fails (`wsClosed /\ ReadEnd`).
  In `Server`, where connections are not looked into, this is that reading ends
  once the context is done, which `TornDown` of `Connection` shows.
* `srv.Serve` returns once Shutdown has closed its listener, and Shutdown has a
  time limit. No signal has to come.
* Nothing is assumed of clients, of the MCU, or of the times at which tickers
  of pings fire.

The violations `users_hello`, `channels_lock` and `pipeline_stuck` are found
under this same fairness: the code is stuck although everybody who can move does.

## What is proved

TLAPS proves the safety properties for every value of the constants that meets
the named assumption of the module (`UsersAssumption` and so on, which say
little more than that functions have their domains, that capacities are
not zero, and that `None` is nothing else). The invariants follow
from one inductive invariant `IInv`, defined at the end of the component's
module, and from few further ones that are inductive relative to it; the proofs
have one step per action.

| Module | Theorems | The invariant, and why it is needed |
|---|---|---|
| `UsersProofs` | types, `RegisteredOnce`, `DisconnectFindsConnection`, `LookupComplete`, `OnlyPurgeBlocks`, `ImplementsPresence` | The map holds under an id only records of that id (`MapInv`); a connection holds its own record's lock until after the Upsert (`OwnRecordInv`), so the purge cannot look at a new record too early; what the purge remembers is still in the map, and it removes only a record that it holds locked and empty (`PurgeInv`); a look-up holds the right record (`LookupInv`). For the locks: who holds which, and at which point of its code, and that a record is in the map only after the Upsert of its connection, which therefore does not wait for itself (`LockInv`). |
| `ChannelsProofs` | types, `MembersReachable`, `NoGhostMember`, `MembersHoldHash`, `GuestsStayInGroup`, `ReplacementStays`, `KeptLock`, `LockedForGood`, `ImplementsMembership`, and `ChannelsGuestConfined` about guests | A member has a callback for its channel, and its channel is open (`MemberInv`); an open channel is found under its id (`MapInv`); who is about to join was allowed to, and the user who is about to accept has the hash (`HandlerInv`); what the purge collected is still in the map (`PurgeInv`). |
| `ConnectionProofs` | types, `NoPanic`, `CallbackOnce`, `NoneStranded`, `WireOrder`, `GoodbyeUnwritten`, `ImplementsOutbox` | Who is in RawSend holds the read lock, so `closed` is not set (`SendInv`); only one Close goes on (`CloseInv`); a callback waits in one place only (`CallbackInv`). For the order: of each sender's messages, the wire is older than the send channel, which is older than what the sender is about to put in, and both are sorted (`OrderInv`). |
| `ChatsProofs` | types, `SameOrder`, `ImplementsBroadcast` | Who is past the lock and before the unlock is the holder (`MutexInv`); what is in an inbox has been sent to it by its speaker's loop (`SentInv`), once (`Distinct`); what the holder has delivered is followed, in any inbox, by delivery reports only, which go to one connection each (`LastInv`). So the holder's message can be added to further inboxes without changing the order. For the refinement: who sends to the others, or reports, has got its own copy (`ReplyInv`). |
| `GroupListsProofs` | types, `CurrentListSent` | Every member but the exception has been sent the present list, or is being replied to, or a task still owes it the list (`ListInv`). |
| `PipelineProofs` | types, `OneConnection`, `OpenIsAttached`, `Watched`, `ConnectingEnds`, `ClosedWinds` | A usable record is in the table and not about to be removed, and the record of an open or just accepted connection is bound (`RecordInv`). |
| `AdmissionProofs` | types, `UsedOnce`, `PurgeComplete`, `RefreshedKept`, `ImplementsTickets` | A key is in the table, held by one request, or used (`UseInv`); a key that was expired when the purge of keys began is on its list as long as it is in the table (`AgeInv`); what the purge of tokens found stays expired (`TokenInv`), and what the purge of keys found as well, or was used meanwhile (`ExpiredInv`). |
| `ServerProofs` | types, `StatusKnown`, `GracefulReturn`, `Drains` | The tables hold exactly what is being served, but for pipelines (`TableInv`); who is between reading the status and sending the hello has the current one in hand, or was told, or will be (`StatusInv`); who was counted as gone does not come back (`CountInv`). |

**Refinements.** Each is proved step by step: first states are first states of
the abstract specification, and every action is one of its steps or a stutter.

* `Users` to `Presence`: the Upsert is the arrival, OnDisconnect's copy the
  leaving, everything else of a connection or the purge a stutter.
* `Channels` to `Membership`: what is closed is empty, so neither closing nor
  removing it is seen.
* `Connection` to `Outbox`: the send inside RawSend is a `Put`, the write pump's
  write a `Write`, the mark of Close the `Shut`, the end of the pump's loop the
  `End`. `OrderInv` gives that what is put is newer than all of its sender that
  was put before.
* `Chats` to `Broadcast`: the lock is `Begin` and the unlock `End`; replies and
  sends of the loop are `Hear`; the delivery report is `Confirm`.
* `Admission` to `Tickets`: `Connect` issues, `Pop` takes, `Serve` uses. The
  removal by the purge is `Expire` by `ExpiredInv`, although the purge looked at
  the key some steps before; any time may pass.

**Theorems without a run of their own.** TLC finds their properties true of the
instances above (`LockedForGood` of that of `channels_lock`); to see it, name one
in a configuration.

* `ChannelsGuestConfined` goes from the logon request to the channel: whatever
  manager, registration and request, if the logon is granted and the user's auth
  is what the guest claims give, then the user is never in a channel but that of
  the path asked for, which the public pattern matches, or, where guests may
  create channels, of calls. Its lemma `LogonGrants` says that the client is a
  registered one with a key and method to sign, even if the look-up would let in
  others from a trusted URI. It assumes that the pattern does not match the
  empty path, which the handler refuses, and that the OpenID provider hands on
  the claims as they were signed.
* `LockedForGood`, with `KeptLock`, bounds the finding `channels_lock`: only call
  channels are left locked, only after a user accepted on a second connection,
  and then for good.
* `ClosedWinds` and `Drains` are the safety halves of `ClosedEnds` and `Stops`, as
  `NoneStranded` is that of `CallbackRuns`. The first gives a measure (`Left`) that
  each step of a timer or goroutine decreases after Close; the second one
  (`Ahead`) for each connection after Serve has stopped listening. What fairness
  adds is that these steps are taken.
* `GoodbyeUnwritten`: see [below](#where-code-and-text-disagree).

Only model-checked: the liveness properties (`CloseCompletes`,
`EmptyChannelRemoved`, `CallbackRuns`, `TornDown`, `SpeakersEnd`, `Retries`,
`ClosedEnds`, `Stops`), since they rest on fairness, which is out of the prover's
reach; and `LogonAgrees`, which is about a recursion over the registration file
and would need an induction over it.

## Where code and text disagree

* `users_hello`. `purgeInactiveUsers` holds a record's lock when it calls
  `m.users.Remove` (`src/signaling/rtm/manager.go:181`), which takes the shard's
  lock; OnConnect's Upsert holds the shard's lock when it takes the record's
  (`src/signaling/rtm/events.go:53`). A user who comes back as the purge is
  about to remove the record is never sent a hello, and everybody in the shard
  waits. `src/signaling/api-v1/rtm.go:119` says that hello is sent after connect.
* `channels_lock`. `Channel.Add` returns with the channel locked when another
  connection of the user is in a call channel
  (`src/signaling/rtm/channel.go:198`). The members cannot get to the end of
  Close. `src/signaling/rtm/events.go:96` says that OnDisconnect is called after
  a connection has closed.
* `pipeline_stuck`. `Pipeline.onClosed` returns early while a reconnect is
  scheduled (`src/signaling/mcu/pipeline.go:113`) and leaves the closed
  connection in place; the watcher then sees a connection and does nothing.
  The comment at `pipeline.go:142` says "Ensure to reconnect when no connection."

Without a run of their own:

* `src/docs/api-v1/kwm-openapi-v1.yaml:53` says that URLs expire after 30
  seconds. Expired keys are only removed by the purge, which a ticker starts once
  a minute, and nothing else looks at their age, so that one can be used until the
  end of the first purge after it expired (`PurgeComplete`). That is usually
  within a minute, but the goroutine may be late, and if it is caught in the
  deadlock of `users_hello` the keys never expire. `Tickets` therefore has a bound
  from below only.
* `RefreshToken` makes an empty record for a token that is not known
  (`src/signaling/admin/manager.go:180`); its comment says that it updates the
  token if it is known. `Admission` has these records (`blank`); a request does
  not take them for a token, and the purge removes them.
* `src/signaling/api-v1/rtm.go:119` says that hello is also sent before the
  server disconnects. OnBeforeDisconnect puts the goodbye into the send channel
  when the loop that would write it has ended (`src/signaling/rtm/events.go:149`;
  `OnBeforeDisconnect` of `Connection`): no client ever gets one, which the
  theorem `ConnectionGoodbyeUnwritten` states for every schedule.
* The comment at `src/signaling/server/server.go:360` says that Serve waits on
  managers. It waits for the connections in their tables: a request that was
  upgraded and has not entered its table when both have been counted, and the
  connections of pipelines, which never do, are not waited for.
  `GracefulReturn` states and proves what is.
* `ServerStatus.Equal` says "deeply equal" and compares pointers
  (`src/signaling/api-v1/common.go:33`). Its one caller passes a new pointer each
  time, and is itself called on changes only.
* The comment at `src/signaling/rtm/webrtc.go:184` says "Ensure that the channel
  is not empty." The last member may leave between that check and the Add, so
  that a restricted user can be alone in a channel (`GroupSize`, `GroupAdd`).
* The guest logon answers an empty `client_id` with an error and goes on
  (`src/signaling/guest/http.go:63`); the look-up of the client refuses it
  (`MaySign`, `LogonAgrees`).

## What is not modelled

* Formatting, parsing, logging, metrics, HTTP routing, signatures, claims: data
  that the properties do not tell apart.
* `Connection.SendTransaction`, which nothing calls.
* Deadlines and the times of pings and pongs: `Connection` lets the read pump
  end at any time, which includes every timeout. That a pong which does not
  answer the last ping leaves the deadline alone is therefore not seen.
* Messages through a pipeline (`Pipeline.Send`, `onText`, `Channel.Forward`),
  and which of several control connections a message to the MCU takes. They
  change no state of the server; what the MCU does with them is not in this
  repository.
* The license checks, which are calls of an external library, and the start of
  the server up to its listener.
* TURN credentials: computed from the time and a secret for each request, or
  asked of an external server.
* Parsing of configuration and registration files, signing, display names of
  guests, static files, the health check and the command line.
* Panics of handlers and exhaustion of memory.
