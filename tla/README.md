# procwire-client in TLA+

A TLA+ development kept beside the Rust crate `procwire-client`: the child side
of a parent/child IPC protocol. The parent spawns the child, talks JSON lines
with it over stdio (control plane) and binary frames over a Unix socket or a
named pipe (data plane). The crate is the repository's `src/` directory; paths
below are relative to the repository.

`PROJECT.json` holds the same information for tools: components, runs, the map
from definitions to source lines, mutants, findings, hazards and theorems.

## The system and its parts

| Part | Source | State | Operations | Module |
|---|---|---|---|---|
| Writer task, `WriterHandle` | `src/writer.rs` | shared atomic `pending`, bounded mpsc channel, the batch | `send`, `try_send`, `wait_for_backpressure`, `writer_loop`, `write_batch` | `Writer`, `FrameStream`, `WriterProofs`, `WriteBatch`, `WriteBatchProofs` |
| Request dispatch, `RequestContext` | `src/client.rs`, `src/handler/context.rs` | semaphore, map of active contexts, per request a `responded` flag and a cancellation token | `dispatch_frame`, the spawned task, `respond*`, `ack`, `chunk*`, `end`, `error*`, `cancelled` | `Dispatch`, `DispatchProofs`, `Wire` |
| Inbound framing, authentication, read loop | `src/protocol/frame_buffer.rs`, `src/protocol/wire_format.rs`, `src/client.rs` | byte buffer, parser state, frames parsed and not yet dispatched | `FrameBuffer::push`, `Header::decode`, `Header::validate`, accept loop, `run_auth_handshake`, `read_loop` | `Inbound`, `InboundProofs` |
| Client lifecycle, control plane | `src/client.rs`, `src/control/stdin.rs`, `src/control/stdio.rs` | where `start()` is, shutdown token, oneshot of the read loop | `start`, `run_control_reader`, `emit`, `wait_for_shutdown` | `Lifecycle`, `LifecycleProofs` |
| Handler registry, schema | `src/handler/registry.rs`, `src/control/init.rs`, `ClientBuilder` in `src/client.rs` | two maps by name, the map from ids to names, two `u16` counters | `register`, `register_event`, look-ups, `build_schema`, `dispatch` | `Registry`, `RegistryProofs`, `Wire` |
| Wire format, frames | `src/protocol/wire_format.rs`, `src/protocol/frame.rs` | none | `encode`, `decode`, `validate`, predicates, flags, `build_frame` | `Wire`, `WireProofs` |
| `BackpressureController`, `BackpressureGuard` | `src/backpressure.rs` | atomic counter, a flag per guard | public API, unused by the client | `Backpressure`, `BackpressureProofs` |
| Pipe transport | `src/transport/pipe.rs` | sockets or pipe instances | bind, accept, drop, on Unix and Windows | steps of `Lifecycle` and `Inbound` |
| `HeaderPool` | `src/protocol/header_pool.rs` | ring of sixteen slots | public API, unused by the client | not modelled |
| Codecs, errors | `src/codec/`, `src/error.rs` | none | pure functions | not modelled |

How they interact. `Client::start` binds the pipe, writes `$init`, spawns the
control thread and loops over `accept` and the handshake until a connection is
adopted; it then spawns the writer task and the read loop and returns. The read
loop pushes what it reads into the `FrameBuffer` and awaits `dispatch_frame` for
every frame; that spawns one task per request, and each task answers through a
clone of `WriterHandle`. `wait_for_shutdown` selects over the end of the read
loop and the token that the control thread cancels.

What is hard. Senders race on `pending` between a load and an increment; futures
are dropped at any await; one failed write strands everything queued; a handler,
its helper tasks and the automatic error race for one terminal frame; an ABORT
arrives at any point in a task's life; bytes arrive cut anywhere, also across the
hand-over from handshake to read loop; the control thread runs beside a `start()`
that may never return; ids are handed out from an unchecked `u16`; a batch may be
written a few bytes at a time. The hazards are listed at their lines in `PROJECT.json`.

## Modules

**Writer** - one action per atomic step. `Begin` is the load that opens a call,
`Poll` one turn of `wait_for_backpressure` (it may time out), `Reserve` the
`fetch_add`, `Enqueue` the channel's acceptance, `Refuse` and `Undo` the error
path with its separate `fetch_sub`, `DropFuture` and `DropHandle` what callers
may do at any await. `Receive`, `Collect`, `Write` or `WriteFails`, `Release` and
`Shutdown` are `writer_loop`. A frame is `<<sender, n>>`; the bytes of a batch are
one step (a failing write may get any prefix of whole frames out). `stranded` is
a history variable: increments no one will undo.

**WriteBatch** - the bytes behind that step: one call of `write_batch`, from
`BuildSlices` over `FirstWrite` (the fast path), `Rebuild` and `NextWrite` (the loop)
to `Flush`. The pipe takes any number of the bytes offered, none included, or fails.
A batch is given by the calls that sent its frames (`Calls`: an answer of
`RequestContext` or an `emit`), and `FrameSent` builds header and payload with the
operators of `Wire`. `Skipped` is the running total that `build_remaining_slices` carries
over the frames; `RemainderExact` compares the slices with the reference, the
concatenation of the batch less what the pipe has taken. `OutcomeExact` is what entitles
`Writer` to its atomic `Write` and `WriteFails`. `Parsed` is a reader that has only the
bytes: it goes from one end of a frame to the next by the length in the header
(`FrameEnds`).

**Wire** - operators only: header records, `encode` and `decode`, `Valid`, the flags
and their combinations, the predicates of `Header` and `Frame` (`HeaderTraits`,
`FrameTraits`), and the frame each answering call and `emit` builds. `Radix` is the
number of values of a byte of the integers, so that the ends of `u16` and `u32`
(and with them the reserved ids and the truncation of `len() as u32`) are in reach of small instances.

**FrameStream** - what the outbound path promises: accepted frames reach the pipe
once, in order, without gaps; an orderly end only after all of them; nothing
after a break. `Writer` implements it with `wire` as `delivered` and the end of
`writer_loop` as `status`.

**Dispatch** - `AdmitRequest` takes the permit, `Register` is the write-locked
insert and the spawn, `AbortFrame` the look-up and cancel. A task then goes through
`Invoke`, the handler's own steps, `CheckResponded`, `AutoError`, `Cleanup` and
`ReleasePermit`. Between the test of `has_responded()` and the swap in `error()`
other steps happen. The calls of a context are split at their awaits
(`CallTerminal` or `CallChunk`, then one of `EncodeFails`, `SendSucceeds`,
`SendFails`, `DropCall`), and a helper task with a clone may outlive the handler.
User code may panic between the handler's calls, beside one and, in the encode, inside one
(`PanicUnwinds`).
Either may wait in `cancelled().await` (`AwaitCancelled`, `CancelledReturns`).
Frames that `dispatch_frame` ignores (a stray AUTH, a response, a request that
finds no permit) change nothing and have no action.

**Inbound** - the peer's byte stream is given by the frames it sends, each with the
offset `at` where its header begins (`Contiguous` says that each begins where the one
before it ends), and a byte is
known by its offset; the buffer is the interval `start..got`. `Decoded` yields the
peer's header where a frame begins and any header elsewhere, so that a parser
that lost alignment shows. `config` is what the application passed to the builder
and what the environment holds; `auth_token` and `max_payload_size` resolve it as
`ClientBuilder` does. `ExtractHeader`, `ExtractPayload` and `PushReturns` are
`push` and `try_extract_one`; `Handshake` decides on the first frame; after it the
buffer and the remaining frames pass to `DispatchNext`.

**Lifecycle** - main (`Bind` to `WaitReturns`), the control thread (`ControlReads`,
`ControlEnds`), the read loop's end, and a parent and other peers that write lines,
close stdio, connect, stay silent or leave as they please. `platform` chooses the
listener: a Unix socket exists from `BindUnix` on, while on Windows `bind` drops the
instance it creates (`BindWindows`) and each `accept` opens a new one
(`OpenInstance`), which the first connect takes. It takes handshake,
read loop and writer by their outcomes; `Inbound` and `Writer` have the detail.

**Registry** - `Handle` and `Event` are the builder's calls, `Announce` is
`build_schema` and `$init`, after which the parent sends one request (`Request`,
`Answer`) or the application emits one event (`Emit`); more would only repeat that,
since nothing changes the registry any more. `+= 1` on a `u16` wraps or panics,
by `overflow_checks`. `Insert` is `HashMap::insert`. `Fate` is what becomes of a request,
by the first test of the code that takes it. A handler is the number of its registration; it
may answer with any call of its context, whatever its response type, and what is proper to
the type (`Proper`) is a condition of `AnswersRouted` only. What goes to the
parent is the encoded header of `Wire`, and the properties look only at what the
parent can: `schema` and the decoded header.

**Backpressure** - tasks that share clones of one controller. `TryReserve` and
`Reserve` are the loads, `WaitAndReserve` a turn of the slow path, `Take` the
`fetch_add`; a slot is then under a guard that is released, disarmed (`Disarm`
hands the slot to a releaser, `ReleaseMany`) or dropped. The counter wraps at
`Width`, and `Reset` may come at any time.

The MC modules extend them for TLC, the modules named `...Proofs` for the prover.
Operators marked *Mutant of X* state plausible mistakes in the code of `X`; each
property is known to be violated when one of them takes the place of the original.

## Runs

| Run | Checks | Shows |
|---|---|---|
| `writer` | `TypeOK`, `PendingExact`, `OvershootBound`, `ChannelWaitBounded`, `OutcomeIsTruthful`, `ImplementsFrameStream`, `SendReturns`, `AcceptedIsWritten` | the counter is exact and never wraps, the limit is overrun by at most one frame per other sender and no more senders wait on the full channel than that leaves over, a call's result says whether its frame is in the stream, the stream is ordered and gapless; with a parent that reads, or a pipe that fails, every call returns and every accepted frame is written or lost to the failure |
| `writer_stalled` | `SendReturns`, violated | with capacity equal to the limit (the default) and a parent that does not read, `send` waits past its timeout |
| `write_batch` | `RemainderExact`, `OutcomeExact`, `FramesRecovered`, `BatchEnds` | resuming after a partial write loses and repeats nothing, `Ok` means every byte was taken, a reader of the bytes finds the frames as long as each length fits its `u32` and only then, the loop ends |
| `dispatch_capacity` | `PermitsConserved`, `ContextsTracked`, `AbortExact` | permits, map entries and cancellations match the tasks, with panics inside and outside the calls of a context and shared id 0 |
| `dispatch_answers` | `TypeOK`, `AtMostOneTerminal`, `TaskReleased`, `FailureEventuallyAnswered`, `AbortWakes` | one terminal frame at most; a failure without failing calls is answered, after chunks too, unless the request was aborted; tasks end outside handler code; an ABORT wakes whoever waits for it |
| `dispatch_encode` | `ErrAlwaysAnswered`, violated | an answer that cannot be encoded leaves the request marked and unanswered |
| `registry` | `SchemaResolves`, `AnswersRouted`, `EventsResolve`, `IdsStayBound` | an announced id reaches the handler registered last under its name, with the announced response type, as long as no more methods are registered than there are usable ids; beyond that a name may be announced under a reserved id, and is reached exactly if its id is not one; answers proper to the response type, automatic errors included, arrive in the table where the parent waits; events are told from answers and from each other, as long as their ids last |
| `inbound` | `TypeOK`, `DispatchedInOrder`, `NothingLeftBehind`, `OnlyAuthenticated`, `PayloadsWithinLimit`, `AllDispatched` | for every cut of the stream the peer's frames are dispatched, in order, none left behind, none before the token that the configuration asks for, none over the limit, and all in the end unless the connection ends |
| `lifecycle` | `TypeOK`, `FoundWhenExpected`, `ServesOnlyProven`, `PingsAccounted`, `StartedClientStops`, `LinesAreRead` | on Unix the parent finds the socket from `$init` until a peer is adopted, on Windows while main is in `accept`; only a peer that proved the token is served; every `$ping` is answered once or still unread; a started client exits when asked, and when the data plane ends even if the control thread is gone; lines are read while main waits in `accept` or in a handshake for a silent peer |
| `lifecycle_shutdown` | `ShutdownExits`, violated | `$shutdown` during `start()` is acted on by nobody |
| `lifecycle_windows` | `ListeningWhenAnnounced`, violated | on Windows `$init` goes out while no pipe instance exists |
| `backpressure` | `CounterExact`, `LimitOverrun`, `ReservationEnds`, `SlotsReturn` | each slot is given back once whichever way it takes; the overrun is bounded; a reset under slots in use wraps the counter, and even then every reservation ends |

Each violated property states what a comment or document of the repository says;
the quotation is in the `findings` of `PROJECT.json`.

The models contain the following behaviours and no property forbids them. The first three
disagree with a document of the repository.

- A chunk may follow the terminal frame: `CallChunk` does not look at `responded`.
  `docs/01-PROTOCOL-SPEC.md:344-346` wants no frame behind an error frame.
  `AtMostOneTerminal` does not speak of chunks.
- An aborted request may still be answered, by the automatic error too: neither
  `mark_responded` nor `CheckResponded` looks at the token.
  `docs/01-PROTOCOL-SPEC.md:385` wants no answer after an ABORT unless the handler was first.
  `FailureEventuallyAnswered` therefore asks nothing of an aborted request.
- Methods and events registered after the usable ids have run out are announced under 0xFFFE,
  0xFFFF and, in a build without overflow checks, 0. `src/protocol/wire_format.rs:91` gives
  1-65533 as the range, `docs/01-PROTOCOL-SPEC.md:238-240` reserves the three, and
  `src/control/init.rs:52` and `:91` let events have 65534. `SchemaResolves` states the limit
  for methods exactly; `EventsResolve` stops at it.
- A line of stdin that is not UTF-8 ends the control thread (`"garbled"` in `ControlReads`).
  `PingsAccounted` says nothing once the thread has ended.
- A handshake with a silent peer has no timeout (`Handshake`).
- An invalid header drops the valid frames of the same `push` (`ExtractHeader`):
  `DispatchedInOrder` allows a stream to be cut short.

### Bounds

- Writer: two senders with two calls each show every race of two calls with each
  other and with a batch that is full while a third frame waits, and fill a channel
  of two with a third frame waiting for it; `writer_stalled` needs a third sender for the
  overrun. The proofs remove these bounds, and those below, for every
  invariant.
- WriteBatch: `Radix` 2, so that a payload of 16 bytes has one too many for its length
  field; batches of up to two frames with empty and non-empty payloads put every seam in
  front of and behind another part, and the pipe stops at every byte.
- Registry: `Radix` 3 leaves the ids 1 to 6 usable; nine registrations of two
  names pass the reserved ids and wrap to 0. The two build profiles are initial states.
- Backpressure: three tasks, a limit of two, so that the limit binds and two tasks
  can overrun it; two reservations each let a slot be reused; a width of 8 lets
  the counter wrap to values above the limit.
- Dispatch: capacity needs more requests than permits, hence three tasks and two
  permits, with two ids and the shared id 0, and failing calls left out; the
  answers are per request, hence one task with a helper, two chunks and every
  failure.
- Inbound: headers of 2 bytes and payloads of 0 to 4 with limits of 2 and 3 give every
  relation of a cut to a boundary; three frames let a frame be found misplaced
  behind another (the third is a call or malformed: what other kinds do, they do in the
  first two places); two connections let a rejected peer be followed by an accepted
  one; the four configurations have no token, the parent's, the parent's overridden by
  an empty one, and the application's own with a limit that is clamped. A read takes up to 9 bytes, so several frames can come in one.
- Lifecycle: three lines put every combination of two before a third, and a second
  peer can follow one that failed, left or stays silent, on either platform. Emits count only as zero or more, so one suffices.

### Fairness

- Tokio polls every ready task, hence weak fairness of the steps of tasks
  (senders, writer task, dispatch tasks, read loop, main). The channel serves
  waiting senders in order, hence strong fairness of `Enqueue`.
- `Write` is fair only in `FairSpec` of `Writer`: it needs a parent that reads. Without it
  (`StalledSpec`) the documented timeout does not hold.
- `Dispatch` takes from `Writer` that a send returns. Nothing is assumed of handler
  code: `TaskReleased` says nothing about a handler that never returns. A cancelled
  token wakes its waiters (`CancelledReturns`).
- `WriteBatch` is one task and a parent that reads. `Backpressure` assumes that tasks
  are polled, that a wait's clock runs out, that guards leave their scope and that
  the releaser works; nobody has to reserve or to reset.
- `Lifecycle` assumes that the application goes on to `wait_for_shutdown`, and
  nothing of the parent, of peers or of the writer.
- Dropped futures and handles, panics, aborts, failing pipes and encodes are never fair.

## Proofs

Every invariant that a passing run checks, the action property
`IdsStayBound` and the refinement `ImplementsFrameStream` are theorems: they hold for
every value of the constants. Each proof follows one pattern: an inductive invariant
that TLC has checked on the instance of the run, one step per action that preserves
it, the property as its consequence.

| Module | Theorems (properties) |
|---|---|
| `WriterProofs` | `TypeCorrect` (`TypeOK`), `CounterExact` (`PendingExact`), `OvershootBounded` (`OvershootBound`), `SendRarelyBlocked` (`ChannelWaitBounded`), `ResultsTruthful` (`OutcomeIsTruthful`), `StreamImplemented` (`ImplementsFrameStream`) |
| `WriteBatchProofs` | `Remainder` (`RemainderExact`), `Outcome` (`OutcomeExact`), `Recovered` (`FramesRecovered`) |
| `DispatchProofs` | `DispatchTypes` (`TypeOK`), `PermitsNeverLost` (`PermitsConserved`), `MapTracksTasks` (`ContextsTracked`), `AbortReachesItsRequest` (`AbortExact`), `OneAnswer` (`AtMostOneTerminal`) |
| `InboundProofs` | `InboundTypes` (`TypeOK`), `FramesInOrder` (`DispatchedInOrder`), `NoFrameLeftBehind` (`NothingLeftBehind`), `OnlyAuthenticatedServed` (`OnlyAuthenticated`), `NoOversizedPayload` (`PayloadsWithinLimit`) |
| `LifecycleProofs` | `LifecycleTypes` (`TypeOK`), `ParentFindsListener` (`FoundWhenExpected`), `OnlyProvenServed` (`ServesOnlyProven`), `EveryPingAccounted` (`PingsAccounted`) |
| `RegistryProofs` | `IdsNeverRebound` (`IdsStayBound`), `SchemaIsServed` (`SchemaResolves`), `AnswersFindTheirRequest` (`AnswersRouted`), `EventsFindTheirName` (`EventsResolve`) |
| `BackpressureProofs` | `CountsSlots` (`CounterExact`), `OverrunBounded` (`LimitOverrun`) |
| `WireProofs` | lemmas on widths and headers, used by `RegistryProofs` and `WriteBatchProofs` |

### Assumptions

- `WriterAssumption`: finitely many senders, a channel capacity and batch size that are
  not zero (tokio panics on the former, the latter is a constant 64).
- `DispatchAssumption`: finitely many requests; a handler with at most one helper. In the
  specification itself the parent repeats no id other than 0 in a session (`Fresh`), as
  `docs/01-PROTOCOL-SPEC.md:244-245` has it: a request that reuses an id in flight would
  displace, and later remove, the entry of the other, and `ContextsTracked` and `AbortExact`
  do not cover it.
- `InboundAssumption`: headers of at least one byte, and streams whose frames lie one
  behind the other, which is what it means to be a stream of frames. Any lengths, any
  order of kinds, malformed and oversized headers included.
- `LifecycleAssumption`: the bounds are natural numbers.
- `BatchesAssumption`: every batch is a finite sequence of calls that the API allows,
  each id within its integer. Any number of frames, payloads of any length.
- `WireAssumption`: a radix of at least 2 (the program has 256). `NoneAssumption`: the
  value that stands for no call is not a call.
- `BackpressureAssumption`: finitely many tasks and a counter wider than the limit and
  its overrun together. The program's `usize` is, unless the limit is chosen within the
  number of tasks of its maximum.

### Arguments

**Writer.** The inductive invariant is `IndInv == TypeOK /\ PendingExact /\
OvershootBound /\ Shape`. None of its parts is inductive alone: that a decrement leaves
`pending` a natural follows only from `PendingExact`, which finds the matching increment
among queue, batch, calls in flight and stranded increments; `OvershootBound` counts
the senders that have passed the load and not yet incremented as if they had, and
needs the exact count to survive `Begin` and `Poll`; `Shape` says that the batch is
empty outside a turn of the loop, so that `Receive` may start one, and that a call in
progress has a frame number. The counting lemmas `CountMove` and `MovedCounts` say how
the sets `InFlight` and `Admitted` change when one sender moves. `ChannelWaitBounded`
follows without induction: a sender in the channel's send is itself counted in `pending`.

**Refinement.** `InTransit`: until the pipe fails, what the channel accepted is what was
written, then what the batch still has to write, then what is queued. Lemmas on
sequences say that moving the head of the channel to the end of the batch keeps that
concatenation. `CallsAccounted` adds which calls may have a frame in it. Then every step
of `Writer` is one of `FrameStream` or changes nothing there.

**WriteBatch.** The functions of the model go over a batch frame by frame, and a proof about
any batch is an induction over its length. The library's induction theorems take a
predicate as a parameter, which the provers cannot instantiate; here induction is about a
*set* of naturals (`Induction`, `InductionUpTo`), which follows from the least element of its
complement, and that from the library's well-foundedness of `<`. `Recursion` derives that a
function with a recursive definition exists, so that `Skipped`, `FrameEnds` and the
`FlattenSeq` of the community modules satisfy their equations (`SkippedSums`,
`FrameEndsSteps`, `FlattenIsConcat`).

`LeftOf(ss, c, k)` says that the slices `ss` are the bytes `c` without the first `k`, none
empty. `PartLeft` shows that the slice pushed for a header or a payload keeps it, whether
`k` lies before, inside or behind the part or at its seam; by induction over the frames
`build_remaining_slices` has it for the batch and any `k` (`RemainingSlices`). The
inductive invariant (`IndInv`) is that the frames were built for their payloads
(`SentFrames`, from `CallSends`), that the pipe has taken the first bytes of the batch
(`Taken`), that the counter is their number while the loop runs, and that the slices of the
next write are the rest; `TakenMore` is the step of a write that takes `n` bytes.

For `FramesRecovered` the ends found by the reader are those of the batch as long as the
frame is whole, and past the end of the bytes otherwise (`EndFound`, `EndsFound`): where a
frame begins the reader has the header that was sent, which decodes to the length of what
follows if that fits its field. Conversely a frame that the reader finds is as long as
its header says, hence shorter than the width of the field (`ParsedFits`).

**Dispatch.** Three invariants that share only the types. `CapacityInv` counts the holders
of permits. `MapInv` needs `OwnIds` (two live requests that want an answer differ in their
id), or an insert could displace another request's entry, and `Untouched` (nobody cancels
a request before it is in the map). `OneEntitled` speaks of the right to answer: nobody
has it before `mark_responded`, one user from then until the frame is out or lost. That
nobody else gets it in between is what makes `AtMostOneTerminal` inductive.

**Inbound.** `Aligned` is the heart: `FrameBuffer` is always at the beginning of a frame, or
of a payload whose header it holds, and the frames parsed and not yet dispatched are the
next ones of the stream. Hence garbage is never decoded and a header that is refused is
one that the peer sent. `Checked` says that whatever got past the parser was validated,
`History` what became of the connection, `Control` what each place of the loops knows, in
particular that `push` stops only when the buffer holds less than it waits for.

**Lifecycle.** One invariant per property over the types with `LineCounts` (a pong takes
a line off stdin). `ListenerInv` names where `start()` may be while it holds the listener,
`ServeInv` what it has got hold of, `ThreadInv` that the control thread is started once.
`PingsAppend` and `PingsTail` count the pings of a line queue.

**Registry.** `MapsInv` ties the ids in use to the number of registrations (`IdsInOrder`), so
that a new id is new; then the id in a name's entry leads back to the name
(`IdsLeadBack`), the entry is that of the last registration (`EntriesLatest`), and events
have ids of their own. `IdsKnown` also holds after the counter has wrapped: the id of an
entry leads to some registered name, so only the reserved ids keep a request from a handler
(`AnnouncedFate`). `ExchangeInv` says that schema and contexts stay what a look-up
returns, since nothing is registered after `$init`, and that the header sent was built
from the context of the request. `RoundTrip` proves that `decode` undoes `encode` for
every header and radix, by division with remainder for each field. `AnswerFlags` goes
through the flags of every answer on a method of any response type.

**Backpressure.** `CounterExact` carries itself through the wrapping arithmetic
(`WrappedSum`), but a task is admitted on the value of the counter, so the bound on the
overrun needs that the value is the number of slots in use, which holds as long as those
are fewer than `Width`, which is the bound. `ClaimsBounded` states it over the
exact numbers, and the two are proved together.

### Only model-checked

- Liveness: `SendReturns`, `AcceptedIsWritten`, `BatchEnds`, `TaskReleased`,
  `FailureEventuallyAnswered`, `AbortWakes`, `AllDispatched`, `StartedClientStops`,
  `LinesAreRead`, `ReservationEnds`, `SlotsReturn`. The prover handles neither fairness nor
  `ENABLED`.

## Not modelled

- `HeaderPool`: public, not used by the client. It hands out one mutable borrow at a
  time and `encode_into` overwrites all eleven bytes, so a reused slot shows nothing.
- `FrameBuffer::extend`, `clear` and the deprecated `try_extract`: not called by the client.
- Codecs: their only effect on control, a failing encode or decode, is a choice of
  `Dispatch`.
- Path generation and the poll functions of the pipe: pure I/O.
- The legacy `InitMessage` types of `src/control/init.rs`: unused.
- The wording of messages, logging, JSON and MessagePack layout.
- Weak memory: the atomics use acquire/release on one location each, whose
  modification order is total, so interleaving is exact for them.

## Plan

What is left: the composition of `Dispatch` with `Writer`, that is the order of the frames
of one request on the wire when handler and helper send concurrently, and a writer that
dies under running tasks.
