# A verification project for ext-nghttp3

ext-nghttp3 is a PHP extension that gives a PHP program an HTTP/3 connection object: the program
opens request streams, submits headers and body, and polls for events; the extension turns what the
QUIC transport reports into those events. This directory holds TLA+ modules that model that
extension, TLC configurations that model-check them, and theorems about them that the TLA+ proof
system checks. Everything is translated from the C sources; `PROJECT.json` names, for every
definition, the lines it stands for.

Paths below are relative to the repository. `http3_connection.c` and its neighbours are in `src/`.

## 1. Inventory

### Components

| component | source | state it keeps | operations |
|---|---|---|---|
| Event objects | `event.c`, `internal/types.h` | type, stream id, error code, payload | five final classes; two of them extend `TerminalStreamEvent` |
| Connection core | `http3_connection.c`, `internal/types.h` | `state`, `closing`, `close_called`; `stream_states` (four flags per stream); `request_streams`; `event_queue` | `createRequestStream`, `getRequestStream`, `pollEvents`, `close`; one `consume_*` function per kind of signal |
| Request stream handle | `http3_request_stream.c` | `headers_submitted`, `local_ended`, `closed` | `submitHeaders`, `submitData`, `end`, `reset` |
| Fake adapter | `testing.c`, `http3_connection.c` | pending signals, calls made, next stream id | `inject*`, `openBidirectionalStream`, `writeStream`, `finishStream`, `resetStream`, `pollSignals` |
| Generic QUIC transport | `http3_connection.c` | `quic_streams` (cache of stream objects); the QUIC objects behind it | `pump_ngtcp2_signals`, `consume_ngtcp2_event`, `consume_ngtcp2_stream_readable`, `find_quic_stream`, `open_request_stream_id` |
| Outgoing body buffers | `http3_connection.c` | `native_stream_bodies`: buffer, read offset, acknowledged offset, EOF | `append`, `read_data`, `acked`, `compact` |
| Native nghttp3 session | `http3_connection.c` | `h3_conn`, `native_h3_enabled`, `native_h3_server` | the nghttp3 callbacks, `submit_request_headers`, `flush_h3_writes` |
| Control and QPACK streams | `http3_connection.c` | `native_h3_streams_bound` | `open_uni_stream_id`, `bind_native_h3_streams` |
| Exceptions, registration | `exception.c`, `nghttp3.c` | none | class registration |
| Object memory | all | Zend reference counts | create and free handlers |
| Example client and server | `examples/` | PHP event loops | |

### How they interact

One PHP thread runs everything, so there is no preemption inside a method. The interleaving that
matters is between *calls*: the peer's signals pile up between two `pollEvents()` calls, the
application calls methods between two polls, and one poll consumes a whole batch of signals before
it returns. A signal never calls the application; it queues event objects, which `pollEvents()`
returns as an array and forgets. A request stream handle calls back into its connection, which
calls the transport (adapter, QUIC object or nghttp3). Both objects keep part of a stream's state:
the connection keeps the peer's direction in `stream_states`, the handle keeps its own in three
flags, and `mark_stream_closed()` and `getRequestStream()` are the two places that carry the end of
the stream from the one to the other.

### What is hard

* Signals of one stream spread over polls, arriving late, twice or after the stream's end.
* GOAWAY, transport close and `close()` in any order, over one `state` and two flags.
* A handle made before its stream ended, or after.
* A poll that throws in the middle of a batch: part of the events is queued, the rest is gone.
* Data taken out of a QUIC stream and the fin that is asked for separately afterwards.
* The bound of 1024 reads per readable event.
* An id handed out by the transport that overwrites the tables of that id.
* One readable event that runs several nghttp3 callbacks, any of which may end the stream the rest of
  the data belongs to; QUIC events that name a stream nghttp3 has forgotten.
* A flush loop that throws between `write()`, `end()` and telling nghttp3, and what it leaves behind
  for the next flush, of whichever stream.
* A body buffer that is read, grown, compacted and freed while nghttp3 may point into it.
* Three opens and two binds, any of which may fail, and the retries that follow.

`PROJECT.json` lists each of these at its line under `hazards`, with the properties that would
catch it, or the reason why no property covers it yet.

### What makes each component correct

* Events: per stream, headers first and once, then data, then one terminal event and nothing more;
  one GOAWAY per connection.
* Connection core: `state`, `closing` and `close_called` agree; `state` never goes back; a stream is
  completed or reset and not both; a GOAWAY that is queued already blocks new requests.
* Handles: the transport is asked for headers, then body, then an end; nothing but `reset()` reaches
  it after the stream's terminal event.
* Fake adapter: what is injected is what is delivered, byte for byte, up to the stream's end.
* Generic QUIC transport: the same event order; a poll that throws loses none of the events already
  queued; completion is not invented; what is read and what is unread add up to what was sent.
* Body buffers: nghttp3 is handed every byte once and in order and the end behind the last; the
  buffer holds exactly what is unacknowledged.
* Native session: the same order of events, except that a stream closed with error code 0 counts as
  completed even if its headers never came; what is submitted is written once and in order; nothing
  is written after the end; the body of an ended stream is freed and not made again.
* Control streams: no headers before the control stream and both QPACK streams are bound; never one
  stream in two roles; no stream opened for nothing while calls succeed, and few when they throw.

## 2. Modules

```
Http3Events
├── EventContract
│   └── NativeContract ── EventContractProofs
└── Http3Connection ── Http3ConnectionProofs
    ├── FakeTransport            implements EventContract
    ├── QuicTransport            implements EventContract
    │   └── NativeTransport      implements NativeContract (extends BodyBuffer too)
    └── ControlStreams
BodyBuffer
└── NativeBody                   implements BodyPipe
```

A branch is EXTENDS. `FakeTransport`, `QuicTransport`, `NativeTransport`, `NativeBody` and
`ControlStreams` each have a `...Proofs` module, and `NativeSendProofs` extends `NativeTransportProofs`
with the sending side; `FakeTransport`, `QuicTransport`, `NativeTransport` and `ControlStreams` each
have an `MC...` module. `EventContractProofs` covers both contracts.

| module | models |
|---|---|
| `Http3Events` | the event classes and `php_http3_connection_queue_event()`; the burst one readable signal queues |
| `EventContract` | abstract: the order of events a connection promises, whatever the transport. Its variables are a log, a phase per stream (idle, open, ended) and one flag. It speaks neither of polls nor of handles |
| `NativeContract` | abstract: `EventContract` with one more step, the completion of a stream that never had headers |
| `Http3Connection` | the shared core: one operator per `consume_*` function and per method of the two PHP classes |
| `FakeTransport` | the core composed with `FakeQuicAdapter`, the connection `Http3ConnectionFactory::fromFake()` makes |
| `QuicTransport` | the core composed with a QUIC object that is not one of the native ngtcp2 classes (the stubs of tests 101, 110, 111 and 112) |
| `BodyBuffer` | `php_http3_native_stream_body`: append, EOF, read, acknowledge and compact, as functions of its value |
| `BodyPipe` | abstract: bytes go in, the same bytes come out, the end behind the last |
| `NativeBody` | one buffer driven by `submitData()`, `end()`, `read_data_cb` and `acked_stream_data_cb` |
| `NativeTransport` | the native path: the core, the QUIC side of `QuicTransport` and a `BodyBuffer` per stream, composed with nghttp3 |
| `ControlStreams` | the binding of the control and the two QPACK streams on a client, with the methods that race with its failures |
| `MessageBodies`, `MC*` | the concatenation of a stream's payloads and the properties that add bodies up, for TLC and for the proofs; the default ids, for TLC only |
| `*Proofs` | theorems, see section 5 |

### State

A hash table of flags per stream is a set of ids per flag: `stream_states` is `known`,
`remoteHeaders`, `remoteEnded`, `terminal` and `wasReset`; `request_streams` and the flags of its
handles are `handles`, `closed`, `headersSubmitted` and `localEnded`. `event_queue` is the sequence
`eventQueue`; `delivered` is a history variable with everything `pollEvents()` has returned.

A payload is a sequence of opaque chunks: the code only measures, concatenates and copies bytes, and
a chunk stands for any non-empty byte string. Headers are not carried by events in this version of
the code, so they have no contents in the model either.

`polling` is TRUE while a `pollEvents()` call runs. The call is several steps (take the signals,
consume them one by one, return the queue), because invariants must hold, and a throw may happen,
between two of them; no other method has its guard enabled meanwhile, since the extension runs on
one thread and calls nothing of the application.

### Actions

One action per public method and per signal handler, with everything the handler does in that one
action: a readable signal queues up to three events, updates `stream_states` and closes the handle
in one step. Early returns are disjuncts of their own (`ConsumeLateReadable`, `ConsumeLateReset`,
`ConsumeLateClosing`). A method that throws before it changes anything is the absence of a step.
`RefusedCall`, `RefusedOpen` and `AbortPoll` are the throws that do change something.

`FakeTransport`: `Inject*` push signals; `PollSignals`, `ConsumeSignal`, `PollReturn` are the poll;
`OpenRequestStream`, `FetchRequestStream`, `CloseConnection` are the methods of the connection;
`WriteHeaders`, `WriteData`, `FinishStream`, `ResetStream` are those of the handle and append to the
adapter's record of calls.

`QuicTransport`: the QUIC connection and its streams are external and described by what the code
calls on them: `unread` is what successive `read()` calls return, `quicClosed` what `isClosed()`
answers, `quicStreams` what `getStream()` finds. `PeerSends`, `PeerResets`, `QuicCloses` and
`ConnectionEnds` move them. `ReadStream` is one readable event: up to `MaxReads` reads, then
`isClosed()`, then one readable signal. `AbortPoll` is any QUIC call that throws.

`NativeBody`: `SubmitBytes`, `EndBody`, `ReadData`, `PeerConfirms` and `Acknowledge`. The source
registers `acked_stream_data_cb` and calls nothing that would make nghttp3 invoke it, so there are two
next-state relations: `NextAsBuilt` without `Acknowledge`, and `Next` with a caller that passes
acknowledgements on, which is what the compaction code is written for.

`NativeTransport` keeps the QUIC variables and adds, per stream, what nghttp3 knows: whether it has
the stream (`h3Stream`), how far each direction has come (`h3In`, `h3Out`), whether it will ask
`read_data_cb` (`asks`), and what it has serialized and not been told is written (`outq`). `bodies` are
the body buffers. `feed` is what `nghttp3_conn_read_stream()` has still to parse, `call` the method
whose flush loop runs; both make one C call several steps, for the same reason as `polling` does.

* Receiving: `ReadableToH3` is one STREAM_READABLE event, the read loop and `isClosed()`; `Parse` is
  one nghttp3 callback (`recv_header_cb`, `recv_data_cb`, `end_stream_cb`); `ParseReject` is
  `stop_sending_cb` or `reset_stream_cb`, which close the stream in nghttp3 and reset it in QUIC;
  `ParseFails` is an error return, on which `pollEvents()` throws. `ConsumeNativeEvent` is STREAM_CLOSED
  and STREAM_RESET, first through nghttp3's close callback and then as the generic signal, or the
  connection's end.
* Sending: `BeginHeaders`, `BeginData`, `BeginEnd` give nghttp3 what the method submits; `FlushWrite`
  is one turn of the flush loop, a write of any part of what nghttp3 has for any stream, and
  `nghttp3_conn_add_write_offset()`; `FlushThrows` leaves the loop with nghttp3 not told of what was
  written; `FlushReturns` sets the handle's flag. `HeadersRefused`, `NativeReset`, `ResetThrows` are
  `submitHeaders()` that nghttp3 refuses and `reset()`.

`ControlStreams`: `StartBinding`, three of `OpenUniStream` or `TakeDefault`, then `Bind` are one
`submitHeaders()` that finds nothing bound; `OpenThrows`, `BindHalf` and `BindRefused` are its three
failures. `PeerGoaway` is a GOAWAY frame, which nghttp3 notes and nobody is told of.

### What the models assume of their environment

* A signal names a stream of the peer or one that is already open (`IsOpened`, `PeerUses`).
* The transport hands out ids that nothing has named before. `createRequestStream()` overwrites the
  tables of the id it gets, so this assumption matters; `FreshIds` in the proofs is where it is
  used.
* The QUIC object does not call back into the connection while the connection calls it.
* nghttp3 calls `recv_header_cb` before `recv_data_cb` and `end_stream_cb` last, and refuses a message
  that is not of that shape. When it may refuse more (a stream it has closed, headers submitted
  again), the model lets it do either. A stream it has forgotten has no output any more.
* Data that nghttp3 holds by pointer is a chunk until the buffer moves or is freed, and may then be
  anything (`Spoiled`, `"UNSPECIFIED"`).
* A server never opens a request stream: `createRequestStream()` throws there, so `PeerIds` is all of
  `StreamIds` on a server and empty on a client.
* The QUIC stream of every stream nghttp3 has is in the cache: it was put there when the stream was
  opened or first read. That is why the flush always finds it.
* `isClosed()` of a QUIC stream may answer TRUE as soon as one side has ended (`FinCloses = TRUE`, as
  the stubs of the tests do) or only when both have (`FALSE`). `quic_read` and `native_send` have
  FALSE, under which a completion of a stream the peer still sends on is wrong, whatever the
  application did; the other runs have TRUE, since with FALSE there is no liveness to state: when our
  side ends last, no event follows that would make the connection look at the stream again. The
  theorems are about both.

## 3. Runs

Every behaviour bound is a constant of the module, tested in the guard of the action it stops.

| run | question | result |
|---|---|---|
| `fake_receive` | over any split into polls: are a stream's events those of `EventContract`, its bytes conserved, its ending unique, and every end and close noticed? | holds, under fair polling |
| `fake_calls` | do GOAWAY, transport close, `close()`, opening, fetching and sending in any order ever make state and handles disagree, go back, let a request through or send a malformed one? | holds |
| `quic_read` | do `unread` and the delivered body add up with partial reads, and what does a throw cost; is completion never invented; does a poll that throws keep the contract and the queue? | holds |
| `quic_complete` | does a completed stream have its whole body and does every end arrive, while no event finds more than the bound on reads and nothing throws? | holds, under fair polling |
| `quic_readcap` | the question of `quic_complete` without that restriction | violated, see section 6 |
| `body_buffer` | does the buffer, with compaction, hand nghttp3 each byte once and hold what is unacknowledged? | holds |
| `body_acks` | is what the peer acknowledged released, in the extension as it is built? | violated, see section 6 |
| `native_receive` | a server: do callbacks, QUIC events, resets and a throw keep `NativeContract`; does the body add up; is completion never invented, and behind the whole body; does every end arrive? | holds, liveness under fair polling |
| `native_send` | a client: is what is submitted written once and in order, is nothing written after an end, is the body of an ended stream gone? | holds |
| `control_bind` | with failing opens and binds and retries: headers only after all three roles, no stream in two roles, at most three wasted by a call that throws? | holds |
| `control_hidden` | are the control and QPACK streams kept from the application? | violated, see section 6 |
| `control_goaway` | does the peer's GOAWAY frame stop `createRequestStream()`? | violated, see section 6 |

### Bounds, and why they are enough

* Streams: over the fake adapter one of the peer's and one of ours, {0, 1}. Streams only interact
  through the connection's three lifecycle fields and through the id that is opened next. Over a QUIC
  object one stream, ours (`quic_read`) or the peer's (`quic_complete`, `quic_readcap`), with the
  deeper interleaving of reads, ends and failing calls. On the native path the flush of one stream
  writes what others have left, so `native_send` has two streams; `native_receive` has one.
* Signals and QUIC events: three or four per behaviour. The longest interesting sequence for one
  stream is data, data, fin or reset, and something late; for the connection, GOAWAY, GOAWAY, close.
  `native_send` has one, enough for the peer to end or reset a stream in the middle of a flush.
* Payloads: one chunk per signal, up to `MaxReads` per readable event. Two chunk values distinguish
  order and duplication; on the native path one of them is a HEADERS frame.
* Error codes: 0 and one other where the code tells them apart.
* `MaxCalls`: four adapter calls per stream, which is headers, data, finish, reset; 0 where the sending
  side is not looked at. `MaxPieces`: one piece of body per stream in `native_send`, so that two
  streams have headers, body and FIN each in flight, and 0 in `native_receive`.
* `MaxReads`: 1024 in the code; 1 or 2 in the runs, so that the bound is reached, 4 in
  `quic_complete` and 3 in `native_receive`, as many as there are QUIC events, so that it is not.
* `MaxFailures`: one call throws; two while binding, one open and one bind. After it the
  connection is in a state that other behaviours reach too, except for what was lost.
* `MaxBytes`: four bytes of two values, enough for two compactions with unread bytes behind them.
* `UniIds`: seven unidirectional ids, which is two attempts that fail at their second open and one
  that succeeds. The request streams are 0 and 4, the default ids 2, 6 and 10.

No deadlock is allowed except in `body_*`, where the body may be over, and in `control_*`, where
retries may use up the ids; elsewhere `pollEvents()` can always be called.

### Fairness

Over the fake and the generic transport, `WF_vars(Poll)` and nothing else. It stands for the event
loops of `examples/http3_server_echo.php`, `examples/http3_client_once.php` and the tests, which poll
in a loop, and for the fact that a `pollEvents()` that has started runs to its end. Nothing is assumed
of the peer or of the application's other calls. `EndIsDelivered` starts from an end the peer has
already announced. `quic_complete` has `MaxFailures = 0`: when a call throws, the rest of the batch
is gone, so a STREAM_CLOSED behind the failing event is never consumed and no polling brings it back.

On the native path a poll cannot start while a method's flush loop runs, so `NativePoll` is enabled
again and again rather than for ever: the event loop is `SF(NativePoll)`, and `WF(Flush)` says that a
method that has started goes on; each turn of it writes something. `NativeEndIsDelivered` makes two
exceptions: a call that threw (as above), and `refused`, because the exception that tells the
application of refused data also drops the rest of the batch. `SpecAsBuilt` of `NativeBody` has
`WF(ReadData)`, so that its counterexample is not one in which nghttp3 never asks.

### Mutants

Operators marked "Mutant" in the modules are what a plausible slip would make of the definition that
follows them (a terminal flag not set, a guard dropped, data lost with the fin). Each checked
property is violated when the definition is replaced by one of them, which shows that the bounds let
the case happen and that the property looks at it. They are part of no specification.

## 4. Properties

Over the fake adapter and a generic QUIC object:

* `EventsInOrder`, `ImplementsContract`: the order of events. The first is stated on everything
  delivered and queued, the second says that every single step is one the contract allows.
* `BodyConserved` (fake), `BodyAccounted`, `CompletedInFull` (QUIC): no byte lost, doubled or out
  of order. The QUIC ones are stated for behaviours in which no call has thrown, because the code
  frees what it had read so far when a later `read()` or `isClosed()` throws. `BodyHasOnlyGaps` says that
  losing is all a throw can do: nothing comes twice or out of order afterwards.
* `OneEnding`, `TerminalClosesHandle`, `NoSendAfterTerminal`, `SendDiscipline`: the two halves of a
  stream's state agree, and what the transport sees follows.
* `ClosingAgreesWithState`, `StateOnlyAdvances`, `NoRequestAfterGoaway`: the lifecycle.
* `NoEventIsLost`: a poll that throws keeps the queue for the next one.
* `CompletionIsEarned`: `RequestCompleted` only for streams the peer or QUIC ended, or, with a class
  that closes a stream with its first side, the application (`MayBeClosed`). The code asks
  `isClosed()` after its reads and takes the answer for the peer's fin.
* `EndIsDelivered`, `CloseIsNoticed`: liveness.

The body buffer:

* `ImplementsPipe`: appends, reads and compactions in any order are a pipe.
* `HoldsUnacked`: the buffer is exactly the written bytes behind the acknowledged ones. It relates
  three offsets that compaction moves together.

The native path:

* `ImplementsNativeContract`: the order of events, with callbacks, the generic signals behind them and
  the application's resets in any order, and with polls and flushes that throw.
* `NativeBodyAccounted`: delivered, being parsed and unread are together what the peer sent.
* `NativeCompletionIsEarned`, `NativeEndIsDelivered`: completion is not invented and ends arrive. The
  application's own `reset()` with code 0 completes a stream here, so the first admits its ends.
* `NativeCompletedInFull`: a stream reported complete, by `end_stream_cb`, by STREAM_CLOSED or by a reset
  with code 0, has told the whole body, unless the application ended it itself. An `isClosed()` taken for
  an end too early, or a closing event that overtakes what is unread, would break it.
* `SentInFull`: what QUIC was given is what was submitted, whenever no method runs and none has
  thrown. `HungUpIsSilent` needs no such guard: after `end()` or `reset()` of a QUIC stream nothing is
  written to it, not even what an earlier flush left in nghttp3.
* `EndedHasNoBody`: the buffer of an ended stream is freed and no later call makes another.

The binding of the control streams:

* `HeadersNeedAllRoles`, `RolesAreDistinct`, `WasteIsBounded`: over any sequence of failed attempts.
  An attempt that fails forgets what it opened, so the third counts: at most three opened streams
  without a role for each call that has thrown, and none before one has. It excepts the state in which
  nghttp3 has taken the control stream alone. There every later attempt opens three more and is
  refused, without end and without a call that fails.

## 5. Proofs

All constants are arbitrary in the theorems: any set of streams, any payloads, any number of signals,
calls and failures. The assumptions are the named `ASSUME`s of the modules: `StreamIds \subseteq Nat`,
`ErrorCodes` is a set of naturals with 0 in it, the bounds are naturals, `MaxReads \in 1..MaxPayload`,
`PeerIds \subseteq StreamIds`, all or none of it on the native path, no chunk is one of the model's own
marks HEADERS, FIN and UNSPECIFIED (`MarksAssumption`), and the three default ids differ. Every state
and action property a passing run checks is a theorem, `CompletedInFull` and `NativeCompletedInFull`
under a hypothesis stated below; what is left to TLC is named at the end of this section.

| theorem | module | states |
|---|---|---|
| `ContractOrder`, `ContractGone` | `EventContractProofs` | a log the contract allows is in order; a GOAWAY in it sets its flag |
| `NativeContractOrder` | `EventContractProofs` | a log the native contract allows is in order, data after headers |
| `TypeCorrect`, `Invariance` | `FakeTransportProofs` | `TypeOK`; the inductive invariant |
| `ClosingAgrees`, `TerminalCloses`, `EndsOneWay` | `FakeTransportProofs` | the agreement of the state tables |
| `StateAdvances` | `FakeTransportProofs` | `StateOnlyAdvances` |
| `Refinement`, `Order` | `FakeTransportProofs` | `ImplementsContract`, `EventsInOrder` |
| `SendsInOrder`, `SilentAfterTerminal` | `FakeTransportProofs` | `SendDiscipline`, `NoSendAfterTerminal` |
| `NoLateRequest` | `FakeTransportProofs` | `NoRequestAfterGoaway` |
| `BodyIsConserved` | `FakeTransportProofs` | `BodyConserved` |
| `TypeCorrect`, `Invariance` | `QuicTransportProofs` | `TypeOK`; the inductive invariant |
| `CompletionEarned` | `QuicTransportProofs` | `CompletionIsEarned` |
| `Refinement`, `Order` | `QuicTransportProofs` | `ImplementsContract`, `EventsInOrder` |
| `NoneLost` | `QuicTransportProofs` | `NoEventIsLost` |
| `BodyConservation`, `OnlyGaps` | `QuicTransportProofs` | `BodyAccounted`, `BodyHasOnlyGaps` |
| `CompletionInFull` | `QuicTransportProofs` | `CompletedInFull`, where no stream ever holds more than one event may read |
| `TypeCorrect`, `BufferHoldsUnacked` | `NativeBodyProofs` | `TypeOK`, `HoldsUnacked` |
| `Refinement` | `NativeBodyProofs` | `ImplementsPipe` |
| `NativeTypeCorrect`, `NativeInvariance` | `NativeTransportProofs` | `NativeTypeOK`; the inductive invariant |
| `EndedBodiesFreed` | `NativeTransportProofs` | `EndedHasNoBody` |
| `NativeRefinement`, `NativeOrder` | `NativeTransportProofs` | `ImplementsNativeContract`; stream order, data after headers, one GOAWAY |
| `NativeCompletionEarned` | `NativeTransportProofs` | `NativeCompletionIsEarned` |
| `NativeBodyConservation` | `NativeTransportProofs` | `NativeBodyAccounted` |
| `NativeCompletionInFull` | `NativeTransportProofs` | `NativeCompletedInFull`, where no stream ever holds more than one event may read |
| `SendInvariance` | `NativeSendProofs` | the inductive invariant of the sending side |
| `NativeSentInFull`, `NativeHungUpIsSilent` | `NativeSendProofs` | `SentInFull`, `HungUpIsSilent` |
| `TypeCorrect`, `Invariance` | `ControlStreamsProofs` | `TypeOK`; the inductive invariant |
| `HeadersWait`, `RolesDiffer`, `WasteBounded` | `ControlStreamsProofs` | `HeadersNeedAllRoles`, `RolesAreDistinct`, `WasteIsBounded` |

**The contract.** `StreamOrder` and `HeadersFirst` speak of a whole log, a step looks only at the
stream's phase. `LogMatchesPhase` (no event of an idle stream, no terminal event of one that is not
ended) and `OpenHasHeaders` make them inductive. `BurstShape` says which events one readable signal
can queue, and `StreamBurst` that appending such a burst keeps the invariant. The lemmas are stated for
`OrderInv(types)`, the invariant with the set of event types that need headers as a parameter: with
data and completion it is the invariant of `EventContract`, with data alone that of
`NativeContract`, whose proof adds one step.

**The core.** `Http3ConnectionProofs` proves three families of lemmas that do not know the transport:
each operation keeps the types, keeps the tables in agreement, and is a step of the contract or a
stutter. The transports' proofs only have to say which of them a step calls.

**The invariant.** The three state properties are inductive together with the types, except for
one step: `createRequestStream()` clears the flags of the id it gets. If that id had ended before,
its terminal event would be in the log and its phase would be idle again. `FreshIds` closes that
gap: every id in the tables, and every id in a signal on its way, has been opened, and the id the
transport hands out has not. Over a QUIC object the same invariant is needed for the types, since the
cache of streams may only hold streams QUIC has, and `EndsAreReal` is added to it: a STREAM_CLOSED or
STREAM_RESET event on its way is about a stream the peer or QUIC ended, and an `isClosed()` that answers
TRUE about one that may be closed (`MayBeClosed`). Without it `CompletionIsEarned` is not inductive.

**The refinement.** The mapping is `log <- delivered \o eventQueue`, `goneAway <- closing`, and the
phase from `terminal` and `remoteHeaders`. With `ContractOrder` through the same mapping
(`ContractGivesOrder`) it gives `EventsInOrder` for every transport that implements the contract,
without an induction of its own. `NoneLost` comes the same way: `ContractKeepsLog` says that no step
of the contract shortens or changes its log. So does `NoLateRequest`: `ContractGivesClosing` says that a
connection with a GOAWAY in its history is closing, `ClosingAgreesWithState` that one that was closed
is, and a closing connection opens no stream.

**The calls on the adapter.** `SendDiscipline` is about a record of calls that the code does not have.
`CallsMatchHandle` says what of it the handle's flags remember: the first call sends headers or resets,
a call that sends headers set `headers_submitted`, and a call that ends sending closed the handle.
With it `SendDiscipline` is inductive, and a step can be refused by what the flags say.

**The buffer.** `OffsetsAgree` says that the read offset is the number of bytes taken minus the number
acknowledged and that the acknowledged offset is 0 between two calls, since compaction always
consumes it whole; this needs acknowledged <= confirmed <= taken <= written, which holds of what QUIC
can acknowledge. `TakenIsPrefix` is what the refinement needs. The arithmetic is on lengths; the lemmas
about sequences (`TailGrows` and its neighbours) keep it out of the steps.

**The native path.** `NativeInv` adds to the invariant of the QUIC side four facts about nghttp3.
`OneCallAtATime`: a flush and a poll exclude each other, and what is being parsed belongs to a poll
and to a stream QUIC has. `H3HoldsItsOwn`: output, a wish to be asked and a buffer belong to a stream
nghttp3 has. `HeardIsTold`: what nghttp3 has heard the connection has told, so that data can only
come behind headers; without it `ParseData` would not be a step of the contract. `SendersAreInH3`: a
handle that can send a body belongs to a stream nghttp3 has, so `BeginData` makes no buffer for a
stream that has ended, which is where `EndedHasNoBody` would break. Each step is proved in three
parts, what it does to the connection, to the QUIC side and to nghttp3 (`ConnectionStepOK`,
`QuicStepOK`, `H3StepOK`), and the refinement is a conjunct of the first.

`EarnedInv` carries the origin of an end from QUIC through nghttp3: what is being parsed with a fin
belongs to a stream somebody ended.

**What is written.** `OutgoingInv` holds whatever throws: nghttp3 asks for a body only between the
headers and the end of a message, a FIN is the last thing it has of a stream and stands behind a whole
message, and `HungUpOK`, nghttp3 has nothing left for a stream QUIC was told to end, and no method can
give it any. `HungUpIsSilent` is then one step. `SentInv` holds while nothing has thrown:
`NothingHeldBack` says that what was written, and behind it what nghttp3 has queued or will be
given by the buffer, is what was submitted, and that outside a flush loop nothing is left;
`BodiesAreTaken` says that a handle which may send a body finds nghttp3 willing to take it. Without the
second, `BeginData` could fill a buffer that nobody reads, and the first would not be inductive.

**Bodies.** A body is the concatenation of any number of payloads. `FlattenSeq` is a recursive
function, and the library's induction theorems take an operator as a parameter, so `SetInduction`
restates induction for a set of naturals, from the library's fact that < is well-founded.
`FlattensExists` and `FlattensAgree` use it to show that the recursion has one solution;
`FlattenAppend` and `FlattenConcat`, what a longer sequence adds, are all the steps need.

* Generic QUIC: `StepReads` says that a step of a stream either moves a beginning of `unread` behind
  what was told, or adds to `unread` what the peer sends. `BodyConservation` is the sum. For
  `OnlyGaps` a read that fails drops what it took, and `IsWithin` is proved to survive that.
* `CompletionInFull` has a hypothesis about the behaviour, `[]FewUnread`: no stream ever holds more
  unread chunks than one event may read. `quic_readcap` shows that the property is false without it.
  `ReadIsPending` is the invariant: while nothing has thrown, what is unread of a live stream will be
  offered for reading before the stream is reported closed.
* Fake adapter: `BodyInv` says that the payloads told, and behind them what the signals not yet
  consumed will add before the stream's first end, are the peer's body.
* Native path: `Fed` is what nghttp3 is still to parse. Parsing moves one chunk from `Fed` to what was
  told, or drops a HEADERS frame, which `BodyIn` does not count.
* `NativeCompletionInFull` has the hypothesis `[]FewUnread` too. `NoneBehind` is the invariant: while
  nothing throws and nothing is refused, QUIC holds nothing of the stream that is being parsed, and
  what it holds of a live stream is offered for reading before an event ends the stream. A step that
  completes a stream then finds nothing still to come, and `NativeBodyAccounted` says that all is told.
  `EndedStays` gets from the contract that a stream which is over has nothing told of it any more.

**The binding.** `Suits` says of the candidates and of the roles that they are different streams QUIC
has opened, or the defaults at their places: a new id is in no list because it was not opened before.
`BoundHasRoles` and `AttemptsAreInOrder` carry the flag and the roles through the three failures.
`WasteBounded` counts: a stream in no list is new, so opening one adds it to the candidates and not to
the waste, a failure adds the at most three candidates and one call that threw, and `Bind` adds nothing.

**Model-checked only.** Liveness under fairness and `ENABLED` are out of the prover's reach:
`EndIsDelivered`, `CloseIsNoticed` and `NativeEndIsDelivered` are checked on small instances alone. So
are the four disagreements of section 6, which are counterexamples.

## 6. Where code, tests and documents disagree

* **The bound on reads** (`quic_readcap`). Test 110 says "ngtcp2 readable drain preserves full
  payload". The read loop in `php_http3_connection_consume_ngtcp2_stream_readable()` stops after 1024
  reads. If the stream is closed by then, the signal carries fin, the stream becomes terminal and a
  later readable event for the rest is dropped as late data: the application gets `RequestCompleted`
  after a truncated body. The body of test 110 needs two reads, so the test does not see it. The run
  scales the bound to 1; `quic_complete` shows that the bound is the only cause.
* **Acknowledgements** (`body_acks`). `DEVELOPMENT_PLAN.md:288` asks that the reflection of
  `nghttp3_conn_add_ack_offset()` is not omitted. Nothing in the source calls that function, so
  `acked_stream_data_cb` never runs and the buffer is not compacted: a body stays in memory whole
  until its stream ends. `body_buffer` shows that the compaction code itself is right.
* **Control streams** (`control_hidden`). `DEVELOPMENT_PLAN.md:9` says that control and QPACK streams
  are not published. `getRequestStream()` wraps any stream the QUIC object or the cache finds, and
  opening a unidirectional stream puts it into the cache.
* **GOAWAY** (`control_goaway`). `DEVELOPMENT_PLAN.md:287` wants `createRequestStream()` to throw after
  the peer's GOAWAY. The callbacks given to nghttp3 do not include `shutdown`, so a GOAWAY frame
  changes neither `state` nor `closing`; only the end of the QUIC connection does.

## 7. Not modelled, and what comes next

Left out for good:

* class registration and exceptions, which have no state; reference counts and object destruction,
  which are below this level; the text of headers and errors, and the encoding of header blocks;
* constructing a connection twice, and a QUIC object that calls back into the connection: no caller
  in the repository does either;
* the bytes of the control and QPACK streams: they are nghttp3's, and `ControlStreams` follows only
  which streams exist and who has them;
* the bound of 4096 turns of the flush loop: where it throws the model has `FlushThrows` at any turn;
* binding on a server, where QUIC allocates other ids and nothing else differs;
* the examples, apart from what they say about fairness.

What would come next:

* the loop of `examples/http3_server_echo.php` on top of `NativeTransport`, for its
  answer-every-request property.
