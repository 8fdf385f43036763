# A verification project for the MQTT v5 client library

`cc.mqtt5.libs` is an MQTT v5 client library in C++ (`client/lib`) with two
command line applications (`client/app`) and a fuzzing tool (`client/afl_fuzz`).
The library does no I/O of its own. The application gives it received bytes
(`processData`), the time (`tick`), and the news of a lost network
(`notifyNetworkDisconnected`); the library answers with callbacks that transmit
bytes, program the next tick, report messages and report the end of operations.
It is single threaded. What is hard in it is not parallelism but the number of
orders in which calls of the application, messages of the broker, timers and
disconnections can meet, and the loops over lists of operations whose bodies end
operations of the same lists.

The project models the core of the library in TLA+, checks it with TLC on small
instances, and proves with TLAPS, for every value of the constants, the accounting,
the order and the wake-ups of the publish engine, the packet ids, the receive engine
and its aliases, that both engines implement the abstract specification of a
delivery, what that specification promises, the life of the other operations, the
timers and the keep alive. `PROJECT.json` is the index: components, runs, mutants,
the map from definitions to source lines, findings, hazards and theorems. Paths
below are relative to `client/lib/src` unless they say otherwise.

## 1. The system

| Component | State | Operations | Module |
|---|---|---|---|
| Client core, `ClientImpl` | lists of operations (`m_ops`, `m_sendOps`, `m_recvOps`, ...), `ClientState`, `SessionState`, `ReuseState`, `m_preparationLocked`, API guard count | `...Prepare()`, `processData`, `tick`, `notifyNetworkDisconnected`, `brokerConnected`, `brokerDisconnected`, `opComplete` | `SendOps`, `RecvOps`, `Session`, `AppTicks` |
| Publish, `op/SendOp` | message, packet id, attempts, `m_published`, `m_acked`, `m_paused`, response timer | `send`, `cancel`, PUBACK, PUBREC, PUBCOMP, timeout, resume, resend | `SendOps`, `SendDelivery`, `TopicAlias` |
| Packet ids, `op/Op` | `m_allocatedPacketIds`, `m_lastPacketId` | `allocPacketId`, `releasePacketId` | `PacketIdOps`, `PacketIds` |
| Receive, `op/RecvOp` | packet id, response timer | PUBLISH, PUBREL, timeout, resumption | `RecvOps`, `RecvDelivery` |
| Connect, disconnect, subscribe, unsubscribe, re-authentication, and what publish shares with them | message, callback, response timer, `m_preparationLocked` | `...Prepare`, `send`, `cancel`, the answer, AUTH, timeout | `Session` |
| Record of subscriptions | `ReuseState::m_subFilters` | SUBACK, UNSUBACK, PUBLISH, CONNACK | `SubFilters`, `MCSubFilters` |
| Keep alive, `op/KeepAliveOp` | ping, receive and response timers | message sent, message received, the three timeouts | `KeepAlive` |
| Timers, `TimerMgr` | slots, number of allocated ones | `allocTimer`, `freeTimer`, wait, cancel, suspend, `tick`, `getMinWait` | `TimerMgr`, `AppTicks` |
| Session expiry | `m_sessionExpiryIntervalMs`, `m_sessionExpiryTimer` | CONNACK, disconnection, tick | `SessionExpiry` |
| Topic aliases of sent messages | `m_sendTopicAliases`, `m_sendTopicFreeAliases`, registration counts | alloc, free, configuration of a publish, confirmation, reconnection | `TopicAlias` |
| Topic formats and matching | none (pure) | `verifySubFilter`, `verifyPubTopic`, `isTopicMatch` | `TopicFilter` |
| Aliases of received topics | `m_recvTopicAliases` | PUBLISH, CONNECT | `RecvOps`, `RecvDelivery` |
| The clock of the applications, `client/app/common/AppClient` | `m_timer`, `m_lastWaitProgram`, queued handlers | `nextTickProgramInternal`, `cancelNextTickWaitInternal`, the handler of the wait | `AppTicks` |
| Properties, allocation, configuration, C interface, build scripts, the rest of the applications, fuzzer | | | not modelled, see section 7 |

How they interact. Every entry point takes an API guard (`apiEnter`): it first
runs the timers with the time that has passed and, when the last guard goes,
removes ended operations from `m_ops` and programs the next tick. Operations call
back into `ClientImpl`: `sendMessage` (which restarts the ping timer of the keep
alive operation), `opComplete` (which for a publish resumes paused ones),
`brokerConnected` and `brokerDisconnected` (which end or keep every other
operation). Packet ids, the in-flight count and the preparation lock are shared
by all operations.

What is hard, and what makes each part correct (the full list, each at its line,
is `hazards` in `PROJECT.json`):

* publish: the window, packet ids and order must survive acknowledgements out of
  order, timeouts, pausing, cancellation, lost connections and lost sessions, and
  nothing may be left paused for ever, also when callbacks publish while a loop over
  the operations is running;
* delivery, in both directions: exactly once over connections that break anywhere,
  nothing finished that was not handed over, and a conforming broker is neither
  overrun nor taken for a faulty one;
* receive: an exact Receive Maximum, and topics through aliases that come and go;
* session: every operation is reported once and ends, one is prepared at a time,
  the application knows whether there is a connection;
* expiry: milliseconds in machine arithmetic, and a connection lost between
  CONNECT and CONNACK;
* timers: slots are reused, several callbacks belong to one tick, and the time is
  measured by an application whose handlers are queued;
* keep alive: three timers that overlap when the response timeout is long;
* aliases and subscriptions: state of a connection or a session that operations
  outlive.

## 2. The modules

`SendOps` and `PacketIds` EXTEND `PacketIdOps`; `SendDelivery` EXTENDS `SendOps`,
`RecvDelivery` EXTENDS `RecvOps`, and both INSTANCE `Delivery`, the specification
they implement; `AppTicks` EXTENDS `TimerMgr`;
`SubFilters` EXTENDS `TopicFilter`; `MCSubFilters` EXTENDS `SubFilters` with the
filters of an instance; `X_proofs` EXTENDS `X` (the theorems on `SendOps` are in
`SendDelivery_proofs`, their inductive invariants in `SendInvariants`). The others stand alone. Where an
instance needs no more than values for the constants, TLC runs on the module
itself and the `.cfg` file gives them. Definitions marked "Mutant" in the comments
are plausible bugs: each stands before the definition it would replace and belongs
to an entry of `mutants`, under which TLC finds the property violated.

### SendOps: the publish engine

Operations are numbered in the order of their preparation, which is their order in
both lists, so the lists are functions of the number. A call of the library is a
sequence of steps because its loops transmit several packets and may end
operations on the way: `call` says which loop is running, where it stands and from
where paused operations are to be resumed. `ResumeNext` is one turn of
`resumeSendOpsSince`, `ResendNext` of `resendAllUntil`, `ReconnectNext` and
`ReconnectResume` of `brokerConnected` with a session, `AbortNext` without one,
`Terminate` the end of a call that must disconnect, `ApiExit` the last guard.
Nothing else starts before `Idle`, as the library is single threaded.

Each action is a whole handler: `Prepare`, `Send`, `Cancel`, `Puback`, `Pubrec`,
`Pubcomp`, `PubrecUnknown`, `ResponseTimeout`, `Connect`, `Connack`,
`ConnectFails`, `Disconnect`, `NetworkDisconnected`, `SessionExpiryTimeout`.
Acknowledgements carry any live packet id and any validity. `fault` records
undefined behaviour (an invalidated iterator, a null entry): the behaviour ends
there, which is why deadlock is not checked in `SendOps_fair`.
`nulls` is the part of `m_ops` that needs it: the entries set to `nullptr` until
the last guard.

With `CallbacksPublish` the completion callback of a publish may itself prepare and
send another one, as applications do: `call.cbs` counts the callbacks that run when
`resumeSendOpsSince` has returned, `Prepare` and `Send` are enabled there, and
`CallbackReturns` ends one. A new operation made in a callback of one of the loops
may move the storage of the lists, which the loop by iterator of `brokerConnected`
does not survive.

`apiEnter()` runs the timers that are due. In most entry points it comes first, so that
the timeouts are steps of their own before the call. `SendOp::send()` calls it between
`canSend()` (`op/SendOp.cpp:607`) and the transmission (`op/SendOp.cpp:616`). With
`TicksInSend`, `SendDue` is `send()` up to `apiEnter()` and leaves the operation in
`call.sending`; `SendTick` is a timer that fires there (a response timer, whose callback
may publish, the keep alive timer, the session expiry timer), and `Transmit` the rest of
`send()`. `Send` is the call in which no timer is due.

Left out: contents of messages, texts and properties (a message is valid or not),
`cancel` and `disconnect` from within callbacks, changes of the number of attempts.
The publish ordering may be changed (`setPublishOrdering`) when no publish is alive.
The decision of `brokerDisconnected` to keep the session looks at the publish
operations only; the receive operations are in `RecvOps`, and neither list changes
what happens to the elements of the other one.

### Delivery: what both directions promise

The abstract specification of a QoS 1 or 2 exchange between a sender and a receiver:
for every message the stage of the sender (`new`, `offered`, `released`, `done`,
`failed`), how often the receiver handed it over, which QoS 2 messages it still
remembers (`held`), and which it forgot while they were still offered (`early`). Its
steps are `Offer`, `Deliver`, `Release`, `Finish`, `Fail` and `Forget`. A message
that is held is not handed over again, and the sender cannot release or finish what
was not handed over; `Deliver` and `Forget` may be one step, as the end of a session
in a callback is. `Delivery_proofs` proves what follows from it.

### SendDelivery

`SendOps` with a conforming broker (external) and two channels, first in first out,
emptied by a lost connection. Here the client is the sender: the stage of a message
is the state of its operation, `held` is what the broker holds. The broker answers
every packet when it takes it, may refuse a message, and may have lost its session;
answers of one kind keep their order, answers of different kinds may overtake each
other. It acts between two calls of the client, since the client is single threaded
and reads nothing during a call. Histories: `resent` says that the client repeated
a packet on the connection other than at its start, `overdrawn` that it gave up a
message in flight or started with more than the Receive Maximum. QoS 1 and 2 under
SameQos ordering; there are more packet ids than operations, so that no id is used
again (`PacketIds` is about that).

### PacketIdOps and PacketIds

The search of `allocPacketId` as the least free id above, else below, with the
wrap to 0 that the loop does not skip; `PacketIds` lets any operations take and
give back ids in any order. The sorted vector of the code is a set.

### RecvOps and RecvDelivery

`RecvOps` is the receiving side against a broker that sends anything:
`HandlePublish` with the order of its checks (known packet id, storage, QoS and
Receive Maximum, connection, properties, alias, topic, subscription),
`HandlePubrel`, timeouts, connections, and the application that disconnects from
within the callback that reports a message (`LeaveInCallback`). A `RecvOp` that is
in the list while its own handler ends the session stays there with the packet id 0,
as in the code. The table of aliases is that of `m_recvTopicAliases`; topics are
numbers and `Subscribed` those some filter matches (`SubFilters` is about the
filters).

`RecvDelivery` composes it with two brokers, one of them chosen at the start. One
sends anything (`RecvOps!Next`). The conforming one is external: it keeps the
client's Receive Maximum, repeats only on a resumed session, defines an alias before
it uses it, possibly by a repeated message, and may have lost its session. The
client may change the interval of the broker's session with DISCONNECT. The
application disconnects and connects at any moment, the network is lost at any
moment. A connect operation may time out on a network that stays (`ClientGivesUp`): the
CONNACK is ignored when it comes (`IgnoreConnack`), while the broker takes the connection
for established, publishes on it, and may have started its session anew. Two histories
follow what comes of it: `stale`, that receptions are left from before such a CONNECT,
and `mistaken`, the messages that were taken for the repeat of another one because of
them. Here the client is the receiver: `held` are the messages of the operations in
`m_recvOps`.

### SessionExpiry

`toMs` is the product of two `unsigned` values, modulo `UintRange`, stored in a
wider variable; `NeverExpiresMs` is the value the code compares it with.

### TimerMgr and KeepAlive

`TimerMgr` has the slots with their reuse, and a tick that first collects the
expired timers and then makes one callback a step; the effects callbacks have on
other timers are those of the operations of the library (restart or end their own
operation, send a ping, end every operation). `KeepAlive` has the three timers and
their rules in units of time, with the callbacks of one tick in any order.

### AppTicks

`TimerMgr` driven by time. `doApiEnter` cancels the programmed wait and reports the
time since it was programmed, `doApiExit` programs the next one; `InCall` is what
operations do to their timers in between, `Prepare` and `CancelSend` are the calls
that have no guard. `pending` is the wait of `AppClient`, `queued` the handlers of
waits that have expired: the event loop may run a call of the library first, and a
queued handler cannot be cancelled. No time passes while a handler is queued: what
is left out is that a busy loop delays every timer by as much. `misled` are the
owners the code charges with time they did not wait for.

### TopicAlias

The table of aliases, the free list, the registration counts, the preference of a
publish, confirmation by PUBACK, and the reconnection that clears or keeps them.
The broker (external) learns an alias from a message with topic and alias and
understands a bare alias by what it learnt. QoS 0 and 1 under SameQos ordering
are enough: QoS 2 confirms like QoS 1. The history variable `spoilt` records that
something was done after which the code's aliases are not reliable; the field
`carried` marks a message that was paused when the connection was made.

### Session

The life of the connection and of all operations, with one action for each
`...Prepare`, `send`, answer, timeout and cancellation. Publish is here for what it
shares with the others: the preparation lock, `terminateOps`, which may keep it, and the
session expiry. `lockedAfter` is the test of `cancel()`: an operation without a callback
counts as one that was not sent, and a publish may be sent without. `brokerDisconnected`
has the reason its callers pass, and only a reason below `ValuesLimit` is reported:
`appConnected` is what the application knows from `connect` callbacks, from such reports
and from its own calls. `misopened` records that the `cancel()` of a publish opened the
lock under a prepared operation.

### SubFilters and TopicFilter

`SubFilters` puts the client's record of subscriptions beside the broker's. MQTT lets
the broker publish to a new subscription before SUBACK (section 3.8.4) and deliver what
it has buffered after UNSUBACK (section 3.10.4), so a message to any topic may come at
any time; `confirmed` marks those that match a subscription the broker has answered, by
the reference definition of `TopicFilter`, which speaks of all levels of a string at once
and of topics that begin with `$` ([MQTT-4.7.2-1]). The client looks for a filter that
matches by `isTopicMatch`, the code's recursion over the first separator. `configTopic` tries every short string. The history variable
`unsure` records that the client missed the answer to a request: it gave the
request up, or lost it with the connection, or had no room to record the filters.

## 3. The runs

Eight runs pass; four find a violation of what a document or a comment of the
repository says, which the `findings` of `PROJECT.json` quote.

| Run | States | What it shows |
|---|---|---|
| `SendOps_fair` | 372,608 | 3 publishes of QoS 0 to 2 in both orderings, windows of 1 and 2, sessions kept, lost and not kept, a message too long for the next broker, callbacks that publish, timers that fire inside `send()`: `InFlightExact`, `PacketIdsExact`, `AwaitsAnswer`, `OrderKept`, `NoneStranded`, `WithinReceiveMaximum`, `PublishNotAfterPubrec`, and every publish ends unless a timer it depends on was suspended by a disconnection (`EndsUnlessSuspended`) |
| `SendDelivery_fair` | 1,015,022 | 2 publishes of QoS 1 and 2 to a conforming broker, connections and sessions lost at any moment, timers that fire inside `send()`: the delivery promise (`ImplementsDelivery`), the broker's window (`WithinBrokerWindow`), no protocol error seen where there is none (`ConformingNotTerminated`), an end for every publish with nothing but answers (`Answered`) |
| `RecvDelivery_fair` | 356,186 | any broker: one reception per id, never more than the limit (`OneOpPerId`, `ReceiveLimitKept`). A conforming one, 2 messages, 2 topics, 1 alias, connect operations that time out: the delivery promise, nothing conforming refused but in the named cases, messages reported under their topics, the broker gets every id back (`ExchangeEnds`) |
| `Session_fair` | 334,292 | 4 operations, publishes with and without callback among them: each reported once, each that was sent ends (publishes are the matter of `SendOps`), every lost connection reported, one prepared at a time unless `misopened` |
| `MCSubFilters_any` | 674,056 | 3 overlapping filters, room for 2, 3 requests: record and broker agree and no message of a confirmed subscription is refused unless an answer was missed; every filter up to 5 symbols is accepted exactly when well formed and matches every topic up to 4 symbols as their levels say |
| `TopicAlias_any` | 168,032 | 2 topics, 3 publishes, a reconnection with another maximum: no resent message carries an alias, none is above the maximum, the lists fit their storage, messages are understood as meant until the aliases are spoilt |
| `AppTicks_any` | 1,243,931 | 4 owners, 3 slots, time and calls at any moment: count, time left and programmed tick exact |
| `KeepAlive_any` | 2,421 | intervals below, at and above the response timeout: pings in time, silent brokers given up, answering ones not |
| `SendOps_v_loops` | | violated: `cancel()` between CONNECT and CONNACK leaves a null entry that `brokerConnected()` dereferences |
| `PacketIds_v_zero` | | violated: the search for a free packet id can return 0 |
| `SessionExpiry_v_never` | | violated: a session that never expires is expired, because seconds become milliseconds in a 32-bit product |
| `TopicAlias_v_unique` | | violated: every topic gets the alias 1 |

Bounds. Three publishes are the least with which one is in flight, one is paused
and one completes out of order, and two windows let the window shrink and grow.
Two attempts reach both the resend and the exhaustion. Five packet ids exceed what
the runs of `SendOps` have in use; the wrap is the subject of `PacketIds`. That `send()` exceeds the window takes a
fourth publish (one that ends, one that is checked, two from the callback), which the
theorem `ReceiveMaximumOfFirstSends` covers and the run does not. In `SendDelivery` two
publishes and windows of 1 and 2 have one paused, one in flight, answers that overtake
each other and a window that shrinks. Three ids, a Receive Maximum of 2 and room for 3
receptions make both limits of `RecvOps` exact; two messages of any QoS and topic
have one repeated while the other is reported, and one alias is redefined. Four
owners over three slots force reuse and a refusal; a timeout of 2 has a moment
before, at and after a call, and time is told apart up to 3. `UintRange = 32` and
`MsPerSec = 6` bring the wrap of 2^32 by 1000 within reach: both have a common factor, as in the code, so
that a product can become 0. Four operations in `Session` are a "connect" and three
others that meet in any order. Three requests are the least that add, remove and add
again. A topic of four and a filter of five symbols have up to six empty or full
levels. Response timeouts of 1, 2 and 4 are below, at and above intervals of 2 and
3; the history counters stop at 8, above every bound the properties state.

Deadlock is not checked where the model really may stop: after undefined
behaviour (`SendOps_fair`, `SendDelivery_fair`, `RecvDelivery_fair`) and when the
bound on operations, owners or messages is used up (`Session_fair`,
`TopicAlias_any`, `AppTicks_any`).

Nothing is replaced in a `.cfg`: a case a property excepts is written in the
property, and the next section says what happens there.

## 4. Where the code departs from what is expected

Besides the four violations above, modelling met the following. The models have
all of these behaviours but the ones that say otherwise; a property that would be broken by one excepts it in its
own text, or the constant named here turns the case on.

* Publish. `postReconnectionResend()` (`op/SendOp.cpp:692`) cancels and restarts a
  timer that a disconnection has suspended, and neither clears the suspension: a
  resumed publish may wait for ever. This is the exception of
  `EndsUnlessSuspended`.
* `SendOp::send()` checks `canSend()` before the `apiEnter()` that runs the timers
  (`op/SendOp.cpp:607`, `op/SendOp.cpp:615`) and checks nothing after it. A publish
  whose attempts are used up may end there, its callback may publish until the window is full, and the message that
  was checked goes out one above the Receive Maximum: `WithinReceiveMaximum` allows that
  one message, and no more follow it, since every other transmission is checked. The
  messages of the callback are transmitted before the one whose `send()` they interrupt,
  although it was prepared first: `OrderKept`, which is about what waits, does not see
  the wire. And a keep alive timeout in that tick ends the session: if it is not kept the
  operation is destroyed while its `send()` goes on (`fault`), if it is kept the message is
  transmitted after DISCONNECT.
* The `send()` of a connect, subscribe, unsubscribe or re-authentication operation
  calls `apiEnter()` after the transmission and before `restartTimer()`
  (`op/SubscribeOp.cpp:175`, `op/ConnectOp.cpp:501`): a keep alive timeout in that tick
  ends the operation, and `restartTimer()` is called on a destroyed one. Not in the models:
  `Session` has no timer due in `send()`.
* `initInternal()` (`ClientImpl.cpp:1177`) resets the expiry interval at CONNECT; a
  network lost before CONNACK then drops the operations of a session that is not
  over, and a message may be delivered twice (the set `gaveUp`, the abstract
  `early`).
* A prepared operation ended by a disconnection (`ClientImpl.cpp:965`) leaves the
  preparation lock closed with nobody to open it. `cancel()` of a publish that was
  sent without a callback, which the documentation allows
  (`client/lib/templ/client.h.templ:713`), opens the lock of another operation that is
  being prepared (`op/SendOp.cpp:627`), so that two may be; and with no operation being
  prepared the assertion in `allowNextPrepare()` fails. This is `misopened`, the exception
  of `OneAtATime`, and `NoCallback` in `SendOps`.
* A resumed session with a smaller Receive Maximum is resent everything in flight
  (`ClientImpl.cpp:902`): `WithinReceiveMaximum` speaks of first transmissions and
  `overdrawn` excepts it from `WithinBrokerWindow`. `client/lib/spec_compliance.md:460`
  quotes [MQTT-3.3.4-7], which has no such exception.
* The response timeout and `resendAllUntil` repeat packets on a live connection,
  while `spec_compliance.md:742` quotes [MQTT-4.4.0-1], "Clients and Servers MUST NOT
  resend messages at any other time". A conforming broker answers the repeat: the
  second PUBREC is a protocol error to the client (`op/SendOp.cpp:168`), and the
  broker may count one message more than the client. This is `resent` in
  `ConformingNotTerminated` and `WithinBrokerWindow`; without it both fail.
* A publish given up in flight frees its place in the client's window, not in the
  broker's (`op/SendOp.cpp:764`, `overdrawn`).
* Aborting the operations of a lost session (`ClientImpl.cpp:937`) wakes and
  transmits paused ones further down, and the loop may meet an entry that became
  `nullptr` (`ClientImpl.cpp:931`); resending a message too long for the new broker
  erases the element the loop stands on (`ClientImpl.cpp:902`). Both set `fault`, and
  `SendOps_v_loops` is the shortest way there. A publish from a callback of these loops may
  move the list under them.
* `cancel()` has no guard (`op/SendOp.cpp:632`): the paused publish it resumes arms
  its timer with no tick programmed, and is charged at the next call with the time
  since the last one (`misled` in `AppTicks`).
* The handler of a wait that has expired is queued (`client/app/common/AppClient.cpp:703`);
  a call of the library that runs first reports the same time, and the handler reports
  it again (`misled`).
* `client/app/common/TcpSession.cpp:63` reports a failed write as a lost network from
  within the output callback of the library: in a session that is not kept the
  operation that is transmitting is destroyed under its own feet. Not in the models,
  where a transmission is part of its step.
* A publish prepared before a disconnection and sent after the reconnection
  overtakes paused ones (`op/SendOp.cpp:861`). `SendsLate = TRUE` makes `OrderKept`
  fail.
* PUBREC, and malformed input, are answered after DISCONNECT was sent
  (`ClientImpl.cpp:743`, `ClientImpl.cpp:89`).
* Disconnecting from within the message callback destroys the `RecvOp` that goes on
  to acknowledge, in a session that is not kept (`op/RecvOp.cpp:334`): `recvFault`.
* A reception refused with a DISCONNECT stays in the list of a kept session with the
  id 0 and counts against the next connection's Receive Maximum
  (`op/RecvOp.cpp:136`): an exception of `ConformingNotRefused`.
* In a build with `CC_MQTT5_CLIENT_RECEIVE_MAX_LIMIT` nothing compares the Receive
  Maximum the application announces with it (`op/ConnectOp.cpp:306`), and none is
  announced by default: a broker that keeps to it is then disconnected when the
  storage is full (`StorageSuffices` of section 6).
* A repeated PUBLISH that is only reconfirmed does not define the alias it carries
  (`ClientImpl.cpp:714`), while `spec_compliance.md:408` quotes [MQTT-3.3.2-10]:
  messages that use the alias are refused or reported under an older topic
  (`unlearnt`, an exception of `ConformingNotRefused` and `ReportedUnderItsTopic`).
* A broker that lost its session says so in a CONNACK the client may miss, as its
  connect operation timed out (`op/ConnectOp.cpp:988`); the next one presents a session,
  the client resends, and a QoS 2 message is handed over again (`early` in
  `SendDelivery`).
* In the other direction the client that missed such a CONNACK keeps its receptions of
  the old session. The broker uses their packet ids for new messages: on that connection
  the client refuses what arrives (`link = "refused"`, `op/RecvOp.cpp:141`); on a later,
  resumed one it answers a repeat of the new message as if it were the old one
  (`ClientImpl.cpp:712`), so that the broker finishes a message that was never reported,
  or refuses the new one with PacketIdInUse (`ClientImpl.cpp:710`). These are
  `mistaken`, which the map to `Delivery` takes for failed, and `stale`, an exception of
  `ConformingNotRefused`.
* A duplicate PUBLISH of QoS 2 cancels the wait for PUBREL and does not start it
  again (`op/RecvOp.cpp:417`, `Reconfirm`).
* `op/ConnectOp.cpp:705`: an interval above 4294967 seconds wraps as well, and can
  become 0 (`Intervals = {16}` in `SessionExpiry`).
* Of two timers that expire in one tick the callback of the first may end the
  owner, or restart the timer, of the second (`TimerMgr.cpp:83`).
* A ping timer that expires while a response is awaited is not armed again
  (`op/KeepAliveOp.cpp:131`), so `PingInTime` asks for a response timeout not above
  the interval; and a broker that sends nothing after CONNACK is not pinged while the
  client sends (`op/KeepAliveOp.cpp:37`), so `SilenceBounded` begins with the first
  message. When the ping timer and the response timer expire in one tick and the callback
  of the first runs first, it starts the response timer again, and the assertion in the
  callback of the second fails (`op/KeepAliveOp.cpp:144`); without assertions the
  connection is ended as it should be.
* Aliases: a cancelled or paused publish counts as a registration
  (`op/SendOp.cpp:398`), a message resent without its alias confirms it
  (`op/SendOp.cpp:686`), the confirmation of a freed alias is taken for the next
  topic (`op/SendOp.cpp:828`), a paused publish keeps the alias of the old connection
  (`op/SendOp.cpp:638`). These are what `spoilt` and `carried` record.
* A "connect" whose AUTH the application refuses to answer has no timer left
  (`op/ConnectOp.cpp:844`): the exception of `SentOperationEnds`.
* A SUBACK that is late or lost leaves the record behind the broker's session, and
  its messages are refused (`op/SubscribeOp.cpp:194`): the exception of `InSync` and
  `LegitReported`. A message the broker sends before SUBACK, or after UNSUBACK, is
  refused too, unless another filter matches: `LegitReported` speaks of messages sent
  while their subscription was confirmed.
* `a/+` does not match the topic `a/` (`op/RecvOp.cpp:33`), and no topic matches a
  shared filter, which is recorded with its prefix (`op/SubscribeOp.cpp:299`): the
  exceptions of `MatchExact`. `#` and `+` match topics that begin with `$`, which
  `spec_compliance.md:792` quotes [MQTT-4.7.2-1] against; it is the broker that must not
  send them. For the filter `a/` and the topic `a/b` the first character of an empty
  `string_view` is read (`op/RecvOp.cpp:74`); the result is right whatever it is.

## 5. Fairness

* `SendOps`: `WF(CallStep)`, as a call that has begun runs to its end, and
  `SF(ResponseTimeout(o))`: every entry into the library runs the timers with the
  time elapsed and the last guard programs the next tick, so a timer that is active
  and not suspended again and again between calls fires. No fairness on the
  broker, on the network or on the application.
* `RecvDelivery`: `WF(BrokerRecv)` and `WF(ClientRecv)`: packets of a connection
  that stays up are delivered and handled. `ExchangeEnds` ends when the connection
  does.
* `SendDelivery`: the same two, and a call that has begun runs to its end. No timer
  has to fire: `Answered` holds for operations whose timers stay suspended.
* `Session`: `WF(opTimeout(i))`. That it is weak says that the broker does not
  restart the timer of an operation with AUTH messages for ever.

## 6. What is proved

All proofs are checked by TLAPS down to the last leaf, for all values of the
constants that satisfy the named assumptions: sizes and limits are naturals, sets of
values are of the right kind, packet ids of received messages are finitely many
positive numbers, and the bounds of the history counters are above the timeouts they
measure (`KeepAliveAssumption`, `AppTicksAssumption`). TLC evaluates them on every
run.

### Packet ids

`PacketIdOps_proofs`: a non-empty set of naturals has a least element
(`LeastInSet`); the id the search finds is free (`FoundIsFree`); what an allocation
does to the list (`AllocEffect`). The search has a free id because fewer ids are
in use than there are: a counting argument from `FiniteSetTheorems`.
`PacketIds_proofs!UniqueIds`: `Spec => [](TypeOK /\ IdsExact)`; the invariant is
inductive as it stands.

### The publish engine

`SendDelivery_proofs` has two inductive invariants of `SendOps` alone.

* `Inductive`: `Spec => []IndInv`, the books. `InFlightExact` alone is not inductive:
  that an ending operation lowers the count exactly when it was counted needs the
  types, the packet ids need to know that a prepared operation has none (or a first
  allocation could collide), and `AwaitsAnswer` needs that only published operations
  have a timer or a PUBREC. `IndInv` is the conjunction of the types,
  `InFlightExact`, `PacketIdsExact`, `AwaitsAnswer`, `FieldsOfStates` and the shape of
  `call` inside a loop. `OpsInv...` are lemmas on what can happen to one operation or
  to all of them; `StepInv...` lift them to the sub-actions that handlers share;
  `IndInv<Action>` is one lemma per action. `TypeCorrect`, `InFlightCorrect`,
  `PacketIdsCorrect`, `AnswerAwaited` follow; `PubrecFinal` and
  `ReceiveMaximumOfFirstSends` are action properties, proved from `IndInv` by one
  lemma for each kind of step. These hold with lost sessions, late sends, oversize
  messages, missing callbacks, callbacks that publish and timers inside `send()`: what
  section 4 lists does not touch the books. `ReceiveMaximumOfFirstSends` needs
  `SendInv`: while the timers of a `send()` run, the count is within the window, as every
  other transmission is checked, so that the one that follows is all there can be above.
* `OrderInductive`: `PlainUse /\ Spec => [](IndInv /\ OrderInv)`, the order and the
  end of waiting, from which `PublishOrder` (`OrderKept`) and `NoLostWakeUp`
  (`NoneStranded`). The two need each other: a publish is transmitted in order
  because whoever waits before it is blocked (`Blocked`: the window is full or, under
  Full ordering, something of a higher QoS is unfinished), and nobody is left waiting
  because every completion starts to resume at its own place, before which everybody
  is blocked already. `OrderInv` says that operations are created in order and the
  prepared one is the newest and holds the lock; that everything transmitted is before
  everything paused, whatever its QoS (stronger than `OrderKept`); that outside of
  Full ordering QoS 0 never waits; what the loops have behind them; and that at every
  step either somebody is about to look at the operation that waits first or it is
  `Blocked`. The reconnection is the subtle step: resuming starts in the window of the
  first `limit` operations, and if the first paused one is not in it the window is
  full, by counting (`OrderInvReconnectResume`). `PlainUse` excludes sending after a
  disconnection what was prepared before it and publishing without a callback: with
  either TLC finds `OrderKept` violated, as section 4 says. It also excludes timers due
  inside `send()` (`TicksInSend`), which `SendOps_fair` has and the invariant, made of
  operations that either wait or were transmitted, does not describe.

### Receiving and the delivery

`Delivery_proofs!DeliveryCorrect`: `Spec => [](TypeOK /\ OnceUnlessForgotten /\
FinishedWasDelivered)` for any set of messages. A second handing over is excluded
only by what the receiver remembers, so the invariant adds `Remembered` (handed over
and still offered means held, or forgotten too early) and `NewWasNotDelivered`.

`RecvDelivery_proofs`, against both brokers, for any ids, topics, aliases, limits and
number of messages:

* `RecvTypeCorrect`, `ReceptionsApart` (`OneOpPerId`), `ReceiveMaximumKept`
  (`ReceiveLimitKept`): `RecvInv` is inductive against a broker that sends anything,
  as `HandlePublish` looks for the id and for room before it adds an operation;
* `ReceiveImplementsDelivery`: `DeliverySpec => ImplementsDelivery`, every step of the composition
  is a step of `Delivery` or a stutter under the map that takes the broker's
  `exchange` to the stage of a message and the client's operations to what is held.
  It needs `DeliveryInv`: what the packets on their way say of the exchange of their
  id (`ToClientInv`, `ToBrokerInv`, `AckOK`), that there is only one packet about an id
  on its way (`OnePacketPerId`, else an old PUBREC could release a message that was
  not handed over), that a message has one id (`ExchangeInv`) and that a reception
  belongs to no other message than the one under its id (`ReceptionInv`), unless it is
  `stale`. Receptions become stale with a connect timeout only and cease to be with the
  last of them (`StaleStep`); a message that meets one is `mistaken`, and is neither reported nor
  taken for finished by the map until it is reported after all;
* `TopicsReported` (`ReportedUnderItsTopic`) and `BrokerNotRefused`
  (`ConformingNotRefused`), action properties. Both need `TopicInv`: a message without
  a topic is on its way only when its alias will stand for its topic once the packets
  before it are taken (`AliasInv`: the last definition before it says so, or the
  client's table does when there is none), and the broker's next message may rely on
  the broker's own table in the same way. A repeat that starts a resumed session
  defines an alias several times, in the ascending order of the ids, so the greatest of
  them counts. That there is room is counting: every reception, and the message that
  arrives, has an id of its own among those the broker uses, and these are within the
  Receive Maximum; stale receptions are not, hence the exception. `BrokerNotRefused`
  assumes `StorageSuffices`: the Receive Maximum, or all packet ids when there is none,
  fit into the storage (the instance of `RecvDelivery_fair` has room for 3 and a maximum
  of 2).

With `DeliveryCorrect` it follows, for every value of the constants, that a QoS 2
message is handed to the application twice only in the cases `early` names, and that
a broker finishes no message that was not handed over, but for the mistaken ones.

The other direction is the second part of `SendDelivery_proofs`, for any number of
messages, limits and lost connections and sessions. Its hypotheses are `PlainUse`,
as above, and `FewMessages`: QoS 1 and 2 only, and as many packet ids as messages.
The second one excludes that an id is used again: the answer to a packet that was
repeated may arrive after the operation it belongs to has ended, and a new operation
with the same id would take it for its own (`PacketIds` is about the reuse). The
instance of `SendDelivery_fair` satisfies both.

* `DeliveryInductive`: `[](IndInv /\ OrderInv /\ DeliveryInv)`. `DeliveryInv` says
  that there is an assignment of packet ids to messages, which stays when the operation
  is gone, under which: what the broker holds under an id is the message of this id
  (`HeldOK`); a PUBLISH on its way belongs to a transmitted operation and, if its QoS 2
  message was handed over, the broker still holds it or lost it early (`PublishOK`); a
  PUBREL or PUBCOMP on its way means the operation has its PUBREC or is gone, and no
  PUBLISH of the id comes after it (`PubrelOK`, `PubcompOK`); an answer with success
  means that the message was handed over (`PubackOK`, `PubrecOK`). Without `resent` at
  most one packet or answer of an id is on its way (`Unique`), and what the broker
  counts are ids of operations in flight (`WindowOK`). The steps of the client are first
  reduced to few kinds by what they do to the operations (`Silent`, `Starts`, `Repeats`,
  `Confirms`, ...: `...Class`), the steps of the broker by what they do to the messages
  held (`BrokerCases`), and the conjuncts are proved per kind.
* `BrokerWindowKept` (`WithinBrokerWindow`): the ids counted by the broker are among
  those of the operations in flight, of which `InFlightExact` and `canSend()` leave no
  more than the limit. `ConformingBrokerKept` (`ConformingNotTerminated`): an answer
  that does not fit the state of its operation is one of two to the same id, which
  `Unique` leaves to connections with `resent`.
* `SendImplementsDelivery`: `ImplementsDelivery`, one lemma per kind of step
  (`RefinesFail`, `RefinesOffer`, `RefinesFinish`, `RefinesTakesTwo`, ...). That an
  operation completed with success was handed over needs `PubackOK`; that a QoS 2
  message held by the broker is not handed over again needs that a PUBLISH which follows
  the PUBREC of its message finds it held.

### The connection, timers, keep alive

* `Session_proofs`: `SessionTypeCorrect`, `EachReportedOnce` (`ReportedOnce`),
  `ConnectionKnown` (`ConnectionReported`), `PreparedOneAtATime` (`OneAtATime`).
  `SessionInv` adds what an operation in each phase may look like (`OpOK`), that an
  operation other than publish exists only in an initialised client, that a prepared one
  holds the lock unless it was `misopened`, and that no connect operation is left in a
  connection.
* `AppTicks_proofs`: `TimersTypeCorrect`, `TimersCounted` (`CountExact`),
  `TimeLeftCorrect` (`TimeLeftExact`), `TickAlwaysProgrammed` (`TickProgrammed`).
  `CountExact` needs `SlotsInv`: owners and allocated slots correspond one to one, and
  an armed slot belongs to its owner and has at least 1 and at most what was asked
  left. `TimeLeftExact` and `TickProgrammed` need each other: time passes only up to
  the end of the programmed wait, which is not after any timer, so that what a call
  reports is what every timer waited for.
* `KeepAlive_proofs`: `PingsInTime` (`PingInTime`), `SilentBrokerGivenUp`
  (`SilenceBounded`), `AnsweringBrokerKept` (`TimeoutOnlyUnanswered`, an action
  property). `KeepAliveInv` relates each history counter to what the running timer has
  left (`PingMeasured`, `SilenceMeasured`, `ResponseMeasured`).

### Only model-checked

* Everything about fairness and `ENABLED`, outside of the prover's reach:
  `EndsUnlessSuspended`, `Answered`, `ExchangeEnds`, `SentOperationEnds`.
* `SubFilters` and `TopicFilter`: `isTopicMatch` is recursive, and what it returns for
  every topic would need an induction over strings.
* `TopicAlias`: what the broker learns is a fold over the messages of a step, and a
  reconnection filters the list of publishes; what a fold or a filter makes of every
  sequence is an induction over data too.
* `SessionExpiry`: its one property is violated.

## 7. Not modelled

* Properties and contents of messages, property lists (`PropsHandler`), the
  configuration functions: data that a model sees as a message that is valid or
  not.
* Allocators and `ExtConfig`: the limits are constants of the models.
* The C interface and the build scripts: generated code that forwards calls.
* The applications but for their clock, and the fuzzer: command line programs over
  sockets. Packets arrive whole in every model; the buffering of partial ones and the
  output callback that reports a failed write are left out.
* `cancel` and `disconnect` from within callbacks other than that of a message; a
  change of the publish ordering while publishes of the other one are paused
  (`ClientImpl.cpp:618`).
* Timers due in the `send()` of operations other than publish (section 4).
* A broker that raises the session expiry other than by CONNACK, or answers late in a
  call of the client.

## 8. Plan

1. `cancel` and `disconnect` from the callbacks of a publish.
2. The output callback that fails, as a step of its own in `SendOps`.
3. `OrderKept` and the delivery of `SendDelivery` proved with timers inside `send()`.
