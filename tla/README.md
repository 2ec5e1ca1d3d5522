# A TLA+ development of flz_chat

`flz_chat` is the long-connection service of an instant messenger. Clients hold
WebSocket connections; what they send goes over RabbitMQ to a business service,
and what the business service announces comes back over RabbitMQ and is pushed
to the connections of the users concerned. This directory holds TLA+ models of
the service, the TLC runs that check them, and TLAPS proofs about the session
layer, the frames sent down to clients, the frame limiter, the msg.send
pipeline, the publisher, the consumer, the fan-out of events, the idempotency
cache, client frames, tokens and the histogram. Paths below are relative to the
root of the repository.

## 1. The system

    client ==WebSocket==> ChatWSServlet --> SessionRegistry <-- MyModule's timer
                               |                  ^                  |
                               v                  |                  v
                        WsToMqDispatcher --- pending map --- MqToWsDispatcher
                               |                                     ^
                               v                                     |
                          MqPublisher ==> business.exchange     MqConsumer
                                               |                     ^
                                               v                     |
                                        business service ==> chat.delivery.queue

| Component | State | Operations | What makes it correct |
|---|---|---|---|
| session registry (`chat/session/session_registry.*`) | `m_conns`: user -> device -> connection, one read-write lock | Add (replaces, evicts), Remove by key, Get, GetByUser, IsUserOnline, Touch, CollectTimeouted | an outer key has 1..max devices, each under its own key; whatever is dropped is handed back for closing |
| session life and presence (`chat/chat_servlet.cc`, `chat/session/online_conn.h`) | one fiber per connection, its locals | onConnect, handle, onClose, CloseSessionOnOwner | no finished connection stays listed; presence events end up telling the truth; displaced connections close |
| frame limiter (`OnlineConn`) | bucket: two atomics per connection, shared by the fibers of its key | ConsumeToken | the bucket stays in range; no burst above two buckets; no frame refused that should pass |
| module and timer (`chat/my_module.cc`) | recurring timer | onServerReady, startMq, stopMq | silent connections and stale requests are swept; Stop returns |
| idempotency cache (`chat/util/lru_idempotency.*`) | list and index | TryMark, Sweep | list and index agree; forgets by expiry or for room only; never a false duplicate |
| consumer (`chat/mq/consumer.*`, `amqp_client.cc`) | `m_running`, client, cache, delivery in hand, promise | Start, Run, DispatchToScheduler, Stop | nothing is awaited on a channel that is half set up; a message is handled at most once, acknowledged only after dispatch, settled in the end |
| publisher (`chat/mq/publisher.*`, `amqp_client.cc`) | bounded queue, `m_running`, client | Publish, Run, Start, Stop | lossy FIFO; every accepted event is accounted for; nothing is sent on a connection that is half set up; the queue drains |
| upstream dispatcher (`chat/dispatch/ws_to_mq.*`) | pending map | HandleMsgSend, HandleMsgAck, HandleMsgRead, TakePending, SweepPending | a request is answered once; a frame is acted on whole or not at all; the map does not leak |
| downstream dispatcher (`chat/dispatch/mq_to_ws.cc`) | none of its own | OnChatMsgSend and six handlers that only push, PushToUser | the answer goes to the sending device, msg.new to the others; everybody named and listed is pushed to, nobody twice but for a member named twice in chat.conversation.created, in whatever order the tasks run |
| client protocol (`chat/protocol.*`) | none | ParseClientFrame, BuildFrame, SendFrame | a frame with a member of the wrong type has no effect |
| token verification (`chat/auth/jwt.cc`) | none | Verify | exactly the trusted tokens within their time give a session |
| metrics (`chat/metrics/metrics.*`) | counters, latency histogram | increments, ObserveMsgSendLatencyMs, render | bucket lines agree with what was observed |
| envelope, config, util | none, or read once | conversions | see section 7 |

What is hard: fibers of one user run on several threads and call the registry
and the publisher in between each other's steps; Remove and Touch go by key and
not by connection; the consumer gives up on a handler after five seconds while
the handler stays scheduled; the broker redelivers; connections to the broker
break between two calls; the process may be stopped or die at any point; the
answer of a request may overtake the call that sent it. The list of hazards
with their lines is in `PROJECT.json`.

## 2. Modules

| Module | Models | Kind |
|---|---|---|
| `SessionRegistry` | the registry class as operators on the table | operators |
| `ChatSession` | the life of connections over that table, presence, closing tasks, timer | state machine, EXTENDS `SessionRegistry` |
| `SessionRegistryProofs` | what Add, Remove and the eviction loop do to any table | lemmas |
| `ChatSessionProofs` | invariance theorems of `ChatSession` | proofs, EXTENDS `SessionRegistryProofs` |
| `Downlink` | pushes, kicks and closes as tasks of an IOManager with several threads | state machine, EXTENDS `SessionRegistry` |
| `DownlinkProofs` | no double copies, kicks for cause | proofs, EXTENDS `SessionRegistryProofs` |
| `LruCache` | `LruIdempotencyCache` as operators | operators |
| `LruIdempotency` | the cache as an object under any sequence of calls | state machine, EXTENDS `LruCache` |
| `MqConsumer` | consumer thread, its AMQP client, IOManager tasks, broker | state machine, EXTENDS `LruCache` |
| `MqConsumerProofs` | types and delivery tags, set-up, who is acknowledged, who is dead-lettered, at-most-once handling | proofs |
| `LossyFifo` | what the upstream path promises | abstract specification |
| `MqPublisher` | publisher queue and thread, its AMQP client, broker | state machine, implements `LossyFifo` |
| `MqPublisherProofs` | types, set-up, accounting of events, the refinement | proofs |
| `SendPipeline` | msg.send from the request to the answer and the pushes | state machine |
| `SendPipelineProofs` | all its safety invariants | proofs |
| `FrameLimiter` | ConsumeToken, load by load and store by store | state machine |
| `EventFanout` | the seven handlers of MqToWsDispatcher and PushToUser | state machine |
| `EventFanoutProofs` | all its safety invariants | proofs |
| `JsonValue` | what jsoncpp's conversions return and what they throw on | operators |
| `ClientFrame` | ParseClientFrame, the dispatch in handle, and the three upstream handlers as functions of a frame | operators, EXTENDS `JsonValue` |
| `TokenCheck` | JWT Verify as a function of token and time | operators, EXTENDS `JsonValue` |
| `LatencyHistogram` | ObserveMsgSendLatencyMs and the rendering of the buckets | operators |
| `SequentialParts` | the three above against statements of what they should compute, beside the cache | EXTENDS them and `LruIdempotency` |
| `PartsProofs` | all properties of the cache, the sequential parts and the limiter | proofs, EXTENDS `SequentialParts` and `FrameLimiter` |
| `MC...` | values for the constants of a run | |

How code becomes state and actions:

* **`ChatSession`.** `pc[c]` is how far the fiber of connection `c` has come.
  onConnect is four steps after the token has been verified: the IsUserOnline
  read (`OnConnectCheck`), Add (`OnConnectAdd`), the closing tasks for what Add
  handed back (`OnConnectKick`), and the user.online event
  (`OnConnectPublish`). Between the second and the third the lock is free, and
  what was displaced is in `displaced`: out of the table and not yet told to
  close, so that it goes on serving frames, or finishes by itself. onClose is
  Remove, IsUserOnline and the user.offline event. handle is one step, since
  Touch is the one thing it changes here; the clock it reads and the Touch fall
  into one tick. `login_at` is any time between check and Add, because NowMs is
  read outside the lock. `idle` stands for `now - last_active_ts` and saturates
  at the timeout, the only comparison CollectTimeouted makes. `tasks` holds the
  closing tasks that are scheduled. The server that calls the servlet is
  external: it calls handle per frame and onClose once when receiving fails or
  handle returns non-zero, and not at all when onConnect has failed.
* **`LruCache`.** A record of list and index. An iterator is modelled as the
  node it points at, so that an index entry without its node shows.
* **`MqConsumer`.** `pc` is the place in the loop of Run. A message is what the
  broker holds once; two messages may carry one msgId. `tasks[m]` counts
  handler tasks not yet run, which survive the five-second wait. `link` tells
  "m_connected is false" from "the broker has given up a connection the client
  believes in". The set-up is call by call (`setup`), and the broker delivers
  once StartConsume is answered; a refused call counts with the lost connections
  (`MaxDrops`). Stop, a crash and an exception in the parser end in the places
  where the code is at that moment.
* **`MqPublisher`.** `result[e]` is how mq_publish_total counted an event,
  `wire` what the socket has taken and the broker not received. The read of the
  loop condition and the look at the queue are one step: a Stop between them
  changes nothing the thread reads before it is back at the head. Connect,
  OpenChannel and each declaration is a step of its own (`setup`), since the
  connection may break or the broker refuse between any two of them.
* **`SendPipeline`.** The pending map with its three users. What lies between
  publisher and consumer is abstracted to "refused, lost, or persisted and
  announced", which is what `LossyFifo` and `HandledAtMostOnce` leave of it.
  That a message is persisted once per clientMsgId is the unique key of
  `db/07_message.sql`. `LostUpstream` also stands for events that Stop or a
  crash left behind. A device stands for the connection under its key. `steady`
  is history: the other devices of the sender that have been listed ever since
  the request's entry was made.
* **`Downlink`.** onConnect is Add and then the kicks, as in `ChatSession`;
  `due` holds whom a connection has still to kick, and why. `tasks[c][f]` counts
  the tasks scheduled on the IOManager of `c` that are still to write frame `f`,
  or to close; any of them may be next, as the threads of the IOManager take
  them in any order. `todo[e]` is the rest of the snapshot the handler of `e`
  works through, `heard` what the socket has taken. A frame to a session that
  was closed is dropped (`SendFrame`). The "auth_ok" the fiber of a connection
  writes itself may come after a push; no property is about it and it is left
  out.
* **`FrameLimiter`.** Each atomic load and store of ConsumeToken is a step,
  since handle finds the connection by key: the fibers of the connections it has
  replaced use its bucket too. The locals of the call are variables per fiber,
  `granted` is history, the time that each frame that was let through had read
  (`now_ms`), in their order, and `disorder` remembers whether calls have
  overlapped or the wall clock was set back (`SetBack`), after which `granted`
  is not continued. Its specification is `LimiterSpec`, so that one module can
  prove about it and about `PartsSpec`.
* **`EventFanout`.** One handler at work on one event: handlers share only the
  registry, which they read. The two ways the handlers have of reading ids are
  `Gathered` (all, then push; a single member is the shortest case) and
  `Streamed` (push while reading); `todo` is what is left to push to, to skip or
  to stumble over. Each push is a step with its own snapshot of the table, and
  connections enter and leave between them. A payload has the members its
  handler reads and no other (`HasFrom`, `HasTo`, `HasIds`). Of OnChatMsgSend it
  is the part for the receivers.
* **`SequentialParts`.** The input is chosen in the initial state, out of a set
  the MC module builds, and an invariant compares the result of the code with a
  statement that does not follow the code's steps. A JSON member is its type,
  and where a range decides, its value; `MaxInt` and `Word` stand for the limits
  of signed 64-bit integers and the number of unsigned ones. The HMAC appears as
  "signed or not".

## 3. Runs

All runs finish; "states" are distinct states.

| Run | cfg | Instance | Shows |
|---|---|---|---|
| `session_safety` | `MCChatSession.cfg` | 3 connections of a user, two with one device id, limit 1, 5.5 M states | table well formed, no ghosts, presence settles, orphans only by key collision, one login displaces at most one |
| `session_liveness` | `MCChatSessionLive.cfg` | 2 connections, clock 0..1, timeout 2, 298 k states | scheduled closes happen, silent connections leave |
| `session_listed` | `MCChatSessionListed.cfg` | 2 connections | violation, section 6 |
| `session_presence` | `MCChatSessionPresence.cfg` | 2 connections | violation, section 6 |
| `sequential` | `MCSequentialParts.cfg` | 3 keys and the empty one, 2 places, times 0..3, 6 calls; frames and tokens with members of every type; up to 3 latencies; 3.2 M states | cache properties under a clock that goes back; a frame is acted on whole or not at all; which tokens give a session; bucket lines agree |
| `consumer` | `MCMqConsumer.cfg` | one envelope published twice, a bad body, a body that throws, prefetch 2, a connection lost or a call refused at any stage of the set-up, 2 starts, handlers with any outcome, 162 k states | no wait on a channel that is not consumed on, at-most-once handling, acknowledgement after dispatch, dead letters, tags; every message is settled, Stop returns |
| `publisher` | `MCMqPublisher.cfg` | 4 events, capacity 2, 2 lost connections in any stage of the set-up, 2 starts, 174 k states | nothing sent on a half-made connection, accounting, failed never arrives, refinement of `LossyFifo`, queue drains, Stop returns |
| `publisher_confirm` | `MCMqPublisherConfirm.cfg` | 2 events | violation, section 6 |
| `send` | `MCSendPipeline.cfg` | a request, its retry from a second device, another request, the sender among the receivers, one repeated event, TTL 1, 385 k states | answered once, no echo, answered unless excused, own other devices told unless swept, refused is not pending, the pending map does not leak |
| `limiter` | `MCFrameLimiter.cfg` | 2 fibers, limit 2, second of 2 ticks, 5 ticks, a clock that may be set back, 2.4 M states | the bucket stays in range in every order of loads and stores; bursts are bounded and nobody is refused early as long as calls do not overlap and the clock runs forward |
| `fanout` | `MCEventFanout.cfg` | 7 event types, lists of up to 3 ids, 3 connections of 2 users, 268 k states | acknowledged means pushed to all who are named; once each; refused means nobody |
| `downlink` | `MCDownlink.cfg` | 4 connections of a user, limit 2, two with one device id, one without, one event, 3.5 M states | at most one copy per device and no more copies than devices; who is kicked hears the right reason, once, and is out of the table for good |

### Bounds

* Connections are not reused (each has one life), so three connections are
  three logins. Two with one device id give replacement and key collision; the
  third has no device id and gets a fallback name, so at limit 1 it evicts and
  is evicted. In `session_safety` the clock stands at 0 (`MaxNow`) and
  `HeartbeatTimeout` is 1: with equal login times the eviction loop may take any
  device, which includes every order the clock could give, and idle time still
  passes. Differing login times are in `session_liveness`. The clock `now` stops
  counting at `MaxNow`; idle time does not.
* In `downlink` four logins at limit 2 are what replacement, eviction and a
  login during the pushes of one event need together. Events share nothing but
  the table, so one is enough.
* Exchanging `c1` and `c2` (in `session_safety` and `downlink`), the keys of the
  cache, or the fibers of the limiter changes nothing, hence the symmetry sets;
  no liveness run uses symmetry.
* In `send` the receivers are the sender, whom the handler must leave out, and a
  user without a device; pushes to others are `fanout`'s subject.
* `MaxCalls` bounds the history of the cache, and the run stops there. It
  (`sequential`), `fanout` and `downlink`, where handlers return and connections
  end, are the runs without deadlock check. Six calls fill the cache three times over.
* `MaxDrops` and `MaxStarts` bound how often the connection breaks and the
  process is stopped or dies. One of each meets every place of the loop. From
  the last start on the process does not end of its own account; bodies that
  throw still end it.
* `FrameLimiter`'s clock stops at `MaxNow`; five ticks hold two refills, a
  frame before the first and a refusal after it. The clock may be set back any
  number of times, to any earlier tick. Frames have no bound of their
  own: the tokens are one.
* Lists of three ids, out of two users, 0 and a malformed one, contain every
  repetition and every place a malformed id can have before, between and after
  two pushes.
* `MaxRepeats` bounds events the business service announces again.
* Capacity 2 for the one msgId of `consumer`: the 100000 places of the real cache
  are not exhausted by redeliveries; what happens when a cache is too small is
  the cache's subject in `sequential`.
* `MaxInt` = 7, `Word` = 16, `Skew` = 1, `MaxContent` = 2 scale the widths and
  limits of `sequential` down, so that every number below, at and above them is
  tried; the code compares, adds once and converts, and does nothing else with
  these numbers.

### Fairness

* `ChatSession`: a runnable fiber is resumed, a receive on a closed socket
  returns, scheduled tasks run (the IOManager's run loop), the timer recurs, time
  passes. Nothing makes a client connect, send or hang up.
* `MqConsumer`: the thread's steps, whose calls are bounded by timeouts (1 s in
  Consume, 5 s for the handler); the broker delivers; a lost link is noticed in
  the end (heartbeat of the AMQP connection), for which strong fairness is
  needed since Consume may time out on it first; a dead process is restarted by
  its operator. The handler has no fairness: it may miss every deadline.
* `MqPublisher`: the thread's steps only. The broker may stay unreachable.
* `SendPipeline`: the clock and the sweep only.
* `FrameLimiter`, `EventFanout`, `Downlink`, `SequentialParts`: none, no liveness
  is claimed.

## 4. Mutants

Each property of a passing run has an operator in the module, marked "Mutant",
that changes one action or helper the way a plausible error in the code would;
`PROJECT.json` lists which definition it replaces. No specification uses them.

## 5. Proofs

Each proof module proves invariants of one state machine for every value of its
constants. The assumptions are the named ASSUMEs of the modules, which TLC
evaluates in the runs: what `ChatConfig::Load` enforces, that a token determines
user and device, that sets of a model are disjoint, that a payload has the
members its type has, that integers are integers. One of them is a claim about
the world: a clock is not set by as much as the width of the counters, 2^64 ms
(`LatenciesAssumption`). One theorem, `AtMostOnce` of the consumer, states an
assumption of its own.

### Sessions

`ChatSessionProofs`, over the lemmas of `SessionRegistryProofs`, proves for any
sets of connections, users and devices, any device limit above 0 and any clock bound:

1. `TypeCorrect`, `TableWellFormed`. The inductive invariant is their
   conjunction `TypeAndTable`: Add needs the finiteness of the inner map, which
   typing carries, for the eviction loop to leave between 1 and `MaxDevices`
   devices (`EvictionLeaves`).
2. `NoGhosts`. Inductive relative to types: Remove is by key, so it takes out at
   least the connection that is leaving (`RemoveRegistered`), and Add registers
   nobody but the new one (`AddRegistered`).
3. `PresenceSettled`. `PresenceSettles` is not inductive. The strengthening
   `PresenceBacked` says that as long as a user is reported online some
   connection of that user has still to finish its onClose. The step that
   matters is `OnCloseCheck` finding the user online: the table then holds a
   connection which, being no ghost, is unfinished (`OnlineHasConn`), and it
   inherits the duty. So (1) and (2) are lemmas of (3).
4. `Orphans`. A connection in service leaves the table by Add, which hands it
   over for closing, or by the Remove of an older connection with its key. That
   what Add handed over is either still with the login that displaced it or
   scheduled (`Dismissed`) needs that only a login between Add and its kicks
   holds any (`HandedOver`).
5. `OneDisplaced`. In a well-formed table Add either replaces a device, and then
   the user is at most at the limit and nobody is evicted, or adds an entry and
   evicts at most one (`DisplacedIsSingle`); the step in which a connection
   passes Add is its own (`AddedByItself`).

### Frames to clients

`DownlinkProofs`, for any connections, users, events and limit, over the same
lemmas about the registry:

1. `TypeCorrect`, with the table well formed: `TypeAndTable` is inductive.
2. `OneCopy`. The invariant `OneOnTheWay` says that of the connections that are
   still in a snapshot, hold a task for the event or have heard it, no two have
   one key, and each counts once. A snapshot of a well-formed table has distinct
   keys (`SnapshotDistinct`), and the event is handled once.
3. `Kicked`. `KicksSettled` counts, for each connection, kicks due, kick tasks and
   kicks heard together, and ties them to its having left the table. It needs
   that a displaced connection is not in the table afterwards
   (`DisplacedIsGone`), and that no two logins hold a kick for one connection
   (`DueOnce`).

### Frame limiter

`PartsProofs`, for any number of fibers, any limit and length of a second:

1. `BucketInRange`: what a fiber stores is the limit or one less than a value it
   has tested, whatever the others stored in between. `TypeOK` is inductive as it
   stands. The limit may be 0, which refuses every frame.
2. `BurstsBounded`, `RefusalsJust`, as long as no two calls have overlapped and
   the clock has only run forward (`disorder` is empty). The inductive invariant
   `LimiterInv` says that one fiber at most is in its call and its locals are
   those of the bucket (`CallInv`), that the tokens and the frames let through
   since the last refill make up the limit (`Balance`, except between the two
   stores of a refill), that the second before the last refill saw no more than
   one bucket and any second no more than two. A refill comes a second or more
   after the one before, so the frames since then move into the second before; a
   grant adds one frame to the windows that hold its time and to no other.
   Frames are counted as the indices of `granted` in a window (`GrantsCount`,
   `GrantsAdjoin`, `OneMoreGrant`).

### msg.send

`SendPipelineProofs`, for any requests, retries, devices, users and receivers,
in layers, each inductive relative to those before:

1. `TypeOK`.
2. `Agree`: an entry is filed under the clientMsgId of its request, a refused
   request has none, events are of published requests, and a handler holds an
   entry of its event's clientMsgId only. `NothingRefusedWaits` is part of it;
   `NoEcho` is inductive relative to it (`Echoless`).
3. `AtOnePlace`: a request that is not retried is in the map, or with one
   handler, or answered, and at no two of these places. Hence `OneAnswer`.
4. `AtSomePlace`: from its entry on a request that is not retried is in the map,
   with a handler, answered, swept, refused or missed by its device. Hence
   `EveryoneAnswered` and, with the history `steady`, `OwnDevicesHear`.

### Publisher

`MqPublisherProofs`, for any events, capacity, lost connections and starts:

1. `TypeCorrect`, with `TaskInHand`: the thread holds an event exactly at the
   places of the loop that work on one.
2. `SetUpFirst`. `SetUpSoFar` ties the calls answered on the present connection
   to the place in the set-up; it carries over a break, since a lost connection
   starts from none.
3. `NothingLostSilently`, `FailedStaysAway`. `Accounts` says of each event that
   it is in memory at one place, queue or hand, exactly while it is accepted and
   not counted, and that only what was counted ok is on the wire or at the broker.
4. `IsLossyFifo`: the publisher implements `LossyFifo`. The mapping lays wire,
   hand and queue behind each other; what a broken connection, a failed send or a
   crash takes away is always a run of consecutive events of that
   sequence (`LosesRun`), and what the broker receives is its front
   (`ArrivesRun`). Put needs (3): an event that is accepted is nowhere yet.

### Consumer

`MqConsumerProofs`, for any messages, msgIds, prefetch, losses and starts:

1. `TagsInOrder`, `TypeCorrect`. They are one invariant, `TypesAndTags`: settling
   takes the first unsettled delivery, so the types of the broker's part are kept
   only because that is the delivery in hand.
2. `SetUpFirst`, with `SetUpSoFar` as for the publisher.
3. `AckedReachedHandler`, `OnlyHandlerKills`. `Accounts` says that each msgId the
   cache knows, and the one in hand, has reached its handler, has a task that
   will run it, or died with a process; `TryMarkKnows` is the fact about the
   cache, whatever it evicts.
4. `AtMostOnce`, for a cache with room for every msgId (`Room`; the run has two
   places for its one msgId, the program 100000). `Once` says that a msgId that
   is handled, or that a task waits to handle, has been marked, and that its
   tasks and handlings count one together; `Holds` says that the cache has one
   unexpired node for what it knows. Only a dispatch makes a task, and TryMark
   lets it through for a msgId that is not known (`TryMarkHolds`,
   `SweepKeepsAll`). The clock of the model stands still, since a message lives
   no longer in the queue than its msgId in the cache, 24 hours each
   (`chat/mq/amqp_client.cc:119`, `chat/mq/consumer.cc:19`); an envelope that is
   published again after that time is outside the claim, in the model and in the
   program.

### Fan-out

`EventFanoutProofs`, for any users, connections and lists of any length:

1. `RefusedReachesNobody`. `StumblesFirst` says that a collecting handler that
   pushes has nothing left to stumble over, or has pushed nothing: what it
   gathers is the malformed id alone, or the users among the ids, each once
   (`CollectedIs`), since a list has finitely many members (`RangeIsFinite`) and
   a sequence of as many different ones holds them all (`SetAsSeq`).
2. `EverybodyAddressed`. `Fanned` ties the connections that have frames to the
   users told so far (`Pushed`), and what is still to do to the users that the
   event addresses (`Ahead`): every one of them has been told or is ahead, unless
   the handler is going to stumble, and nobody ahead is a stranger or will be
   skipped. That each of the seven handlers begins so is `RecipientsAre`.
   `TypeCorrect` follows, since `Fanned` carries the types.
3. `OnceEach`, relative to (2): `Once` says that what is ahead of a collecting
   handler is new to it, and that chat.conversation.created, k ids into its list,
   has pushed to each connection at most as often as its user stands among the
   first k (`AfterIds`).

### Cache, frames, tokens, histogram

`PartsProofs`, for `PartsSpec`, any keys, capacity, TTL, clocks, frames, tokens
and latencies:

1. `IndexMatches`, `NotForgotten`, `RefusedTwiceOnly`. The inductive invariant
   `CacheInv` joins three things: list and index match (`Matches`); every node
   of the list was left by a call that was accepted; and every accepted call has
   expired for some later call, or as many were accepted since as there are
   places, or its node is in the list with no more nodes before it than were
   accepted since (`Remembered`). The empty key leaves the cache as it is, and
   `NoFalseDuplicate` excepts it: it is refused without having been seen. What
   TryMark does to any such cache is `TryMarkDoes`, from lemmas on what Sweep
   keeps (`KeepMatches`, `SweepsExpired`), what erasing one node leaves
   (`WithoutOne`) and what a mark with the trimming leaves (`Marks`).
2. `FramesWhole`, `TokensSound`: no steps, but many cases; `TokenAnswers` says
   what the checks of Verify come to.
3. `HistogramRight`, by induction over the messages (`AfterSteps`, `Counts`) and
   over the buckets (`CumulativeAdds`); that the sum of remainders is the
   remainder of the sum is `ModSum`.

Theorems of induction in the library take an operator as a parameter, which the
provers cannot instantiate. Where it is needed, induction is over a set: `Least`
and `Steps` (a set that holds 0 and, with each number, the next holds them all)
carry it, and `Recursion` and `Iterates` that the recursive functions of the
models exist and satisfy their equations.

### Only model-checked

All liveness properties, since fairness is outside the provers' reach
(`ScheduledCloses`, `SilentLeaves`, `EventuallySettled`, `QueueDrains`,
`StopReturns`, `PendingLeaves`), and the violations of section 6. Every safety
property of a passing run is a theorem.

## 6. Where the code and its description part

* **A replaced connection takes its successor out of the table**
  (`session_listed`). The first connection of a device is replaced, its closing
  task runs, its onClose calls Remove by key and erases the second one
  (`chat/chat_servlet.cc:147`, `chat/session/session_registry.cc:48`). The second
  serves frames, but is pushed nothing, counts for no limit and is never swept.
  `Orphans` proves that this is the only way an unlisted connection comes about.
  `README.md:7` of the repository describes the table as the online sessions.
* **An online user may be left reported offline** (`session_presence`). onClose
  looks and then publishes (`chat/chat_servlet.cc:148`); a login in between may
  publish its event first or, having found the user still online, none.
  `README.md:8` has offline follow from disconnection. The other direction, a
  disconnected user left online, is excluded by `PresenceSettled`.
* **ok does not mean received** (`publisher_confirm`). The option
  `rabbitmq.publisher.confirm_select`, "rabbitmq publisher confirm", is on by
  default (`chat/config/chat_config.cc:24`) and read by nobody; an event is
  counted ok when the socket took it.

Things the models show that no document speaks about, kept as comments on the
properties: a requeued message is acknowledged as its own duplicate when it
returns, so NACK_REQUEUE never leads to a second handling (`EventuallySettled`);
a crash between a duplicate's acknowledgement and the first copy's handler loses
the message (`AckedWasDispatched`); a body with a field of the wrong type ends
the process each time it is delivered (`ParseThrows`); two fibers on one bucket
may undo each other's refill, so a frame may be refused too early
(`NoFalseRefusal` excepts calls that overlap); after the wall clock was set back
frames are refused until it has caught up (the same exception);
`chat.frame_rate_limit_per_second` allows up to twice the limit in a second
around a refill (`BurstBound`); a malformed id in a list leaves an event pushed
to some and not to others (`AllOrNobody`).

## 7. Not modelled

* The order of the frames on one connection: pushes are tasks on several threads
  and may be swapped, which `Downlink` allows, and no document promises an order.
* What the application framework does with a module whose onServerReady returned
  false, with servlets and with onUnload: it is not in the repository. Start and
  Stop of the two threads, which these hooks call, are modelled.
* The branches of DispatchToScheduler without a handler or a scheduler
  (`chat/mq/consumer.cc:83`): startMq, the only caller of Start, passes both.
* Expiry of messages in the queue after 24 hours, `consumer_auto_ack = true`
  (off by default), backoff times (they delay and decide nothing).
* An exception that leaves a servlet: what the server framework makes of it is
  not in the repository.
* The text of JSON, base64url, dates, uuids, the HMAC: conversions and library
  code; used through their outcome (a type, valid or not, fresh or not).
* Configuration: read once and copied field by field; the checks of Load are the
  ASSUMEs on constants. Values it does not check (a negative
  `pending_send_ttl_seconds`, a queue capacity of 0) are left to whoever writes
  the file. Metrics other than the histogram and the result of a publication:
  counters nobody decides on. Database schema and build files: no behaviour of
  this program.

## 8. Plan

Done, models: session registry and sessions, cache, consumer, publisher with its
abstract specification, msg.send pipeline, frame limiter, fan-out of events,
downlink, client frames, tokens, histogram.

Done, proofs: every safety property of the passing runs, the refinement of
`LossyFifo` among them.

Next: a clock in `MqConsumer`, so that an envelope published again after the TTL
is part of it and `AtMostOnce` says which repetition is handled; the eviction
loop's victim (the oldest login) as a property of the table.
