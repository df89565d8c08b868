# A TLA+ model of libexositecoap

libexositecoap lets a small device read, write and subscribe to dataports of the
Exosite One Platform over CoAP.  This directory models the library, checks it
with TLC and proves its main properties with TLAPS.  Paths below are relative to
the root of the repository.

## The system

| part | source | state | operations |
|---|---|---|---|
| operation engine | `src/exosite.c`, `src/exosite.h` | the application's array of `exo_op` | `exo_operate`: receive, then send, retransmit, renew, acknowledge |
| activation | `src/exosite.c` | `device_state`, `cik`, slot 0 of the array | `exo_init`, `exo_activate`, answers 4.01 and 4.04 |
| application calls | `src/exosite.c` | the same array | `exo_write`, `exo_read`, `exo_subscribe`, `exo_op_done`, `exo_op_init` |
| example program | `examples/subscribe.c` | the array, a round counter | subscribe, write, operate until idle, look at the results |
| request builders | `src/exosite.c` | `message_id_counter` | `exo_build_msg_*` |
| codec | `picocoap/src/coap.c`, `coap.h` | a message buffer | getters, setters, validation |
| codec example | `picocoap/examples/posix/client.c` | a socket, the last request | send a request, wait for a datagram, compare |
| platform layer | `pal/posix/exosite_pal.c` | the file `cik`, a socket, the clock | send, receive, store, retrieve, time |

The library has no thread of its own.  The application owns the array, queues
operations in it and calls `exo_operate` until nothing is left to do.  Each call
first drains the waiting datagrams, matching every one against the array from
the front (a notification by its token, an acknowledgement by its message id, a
reset by both), and then walks the array once and acts on the state of each
operation.  Until the device has a CIK the call begins by putting an activation
into slot 0; a 4.01 answer to any operation does so from the middle of the
receive loop.

What is hard is what happens between the calls and around them: answers are
lost, late, repeated and reordered; sends fail, after the message id was spent;
timers fire in any order; the server refuses, resets, ends an observation or
sends a notification while the last one is still being handled; the power fails
while the CIK is being stored.  `PROJECT.json` lists these hazards at the lines
where they bite.

What makes each part correct:

* engine: an answer reaches the operation that asked, a retransmission is the
  same request, results stay until the application has seen them, and every
  operation ends or is asked for again;
* activation: it is retried until it succeeds, and the device survives a torn
  CIK file;
* codec: what was set is read back after any sequence of calls that adds options in
  ascending order and sets one payload, and no call writes beyond the buffer;
* builders: a message says what the operation asked for, or the builder reports
  that it does not; nothing of an earlier message or of the stack gets into it;
* example program: it subscribes once and for all, never overwrites a write under
  way, and reports failures;
* codec example: of all answers it takes only that to its last request.

## Modules

`ExoEngine` is the engine with activation, the platform layer's outcomes, the
application, the network and the server.  Variables named after statics and
fields of the code (`op`, `device_state`, `message_id_counter`, `cik`, `mid`,
`obs_seq`, ...) are those; `file` is the file `cik`; `pc` and `cursor` say where
`exo_operate` is.  A step is one datagram, one visited slot, one call of the
application or the passing of time: power and the clock can interfere at each
of these points, and nothing else shares memory with the library.

| code | actions |
|---|---|
| `exo_init` | `exo_init`, `exo_init_fails` |
| `exo_operate` | `exo_operate` (entry), `Return`, `exo_operate_result` |
| `exo_process_waiting_datagrams` | `RecvNone`, `Receive`: `Notify*`, `Ack*`, `Reset`, `Unrecognised`; `Crash` where it reads through a null pointer |
| `exo_process_active_ops` | `Process`: `SendRequest`, `Retransmit`, `GiveUp`, `Renew`, `SendAck`, `Skip` and their failing forms |
| application calls | `Queue`, `Done`, `Cancel` |
| environment | `Tick`, `Reboot`, the datagrams of `Datagrams` |

Abstractions of data:

* *Timeouts* are only ever compared with the clock, so an operation keeps the
  outcome of the comparison: ahead, due (equal), past.  The code tests `<` in
  one place and `<=` in another, hence three values.
* *The network* has no inbox.  `wire` holds the requests whose answers may
  arrive and `watch` the registrations of the server; while the library receives,
  any datagram these allow may be next, any number of times or never.  When a
  request is sent, any of the earlier ones may still be answered later
  (`Survivors`), those under the same message id, of operations that were finished
  or cancelled and of the time before a restart included: `exo_init` seeds the
  counter at random, and sends that fail spend ids as fast as `exo_operate` is
  called, so nothing keeps an id from coming back while its last exchange lives.
  `InFlight` bounds how many.
* *Values* are the version of the dataport a buffer holds; a payload has a length
  too, which decides between empty, accepted and too long.
* *Observe sequence numbers* are sets of one bits, because the code combines them
  with a bitwise or.  One option byte is modelled, where the shift is by 0.
* *Options* of a message are known by what the lookup of Observe meets
  (`OptionLists`).  Behind an option with a larger number it gives an empty one; in a
  message without options it gives the payload, whose bytes make any number
  (`Sequence`, `Folded`); behind options with smaller numbers only, it gives a null
  pointer with a length, and the loops over its bytes end the program (`ReadsNull`,
  `Crash`).  The program is then started again, as after a power loss.
* A message `coap_validate_pkt` refuses changes nothing and is a stuttering step.

`sent`, `reused`, `clash` and the slot of a request in `wire` are history: no action
reads them.  The slot says which operation waits for the answer to this request;
it becomes `Past` when that slot sends another request (`Superseded`).  `reused` says
that an id was issued while an earlier request under it was awaited or could still
be answered.

`OpLifecycle` is the abstract specification: what the repository's README
promises about single-shot and sustained operations, without messages, timers,
retries or activation.  `ExoEngine!ImplementsLifecycle` is the refinement.

`MCExoEngine` adds the initial state of a device activated earlier.  `ExoClaims`
and `CoapClaims` state what comments, documentation and tests say and the code
does not do.

`ExoExample` replaces the free application of `ExoEngine` by the `main` of
`examples/subscribe.c`, step for step, and keeps all other actions of the engine:
a step of `ExampleNext` is a step of `main` (`Start`, `Setup`, `QueueUptime`,
`LookAtResults`), a call or return of `exo_operate`, or a step inside it.  The loop
over the results is one step, since nothing but power loss can come between.

`CoapOption` is one option header: its size, its bytes, decoding it.  `CoapCodec`
holds the other functions of `coap.c` as operators on a byte buffer.  `CoapPdu` is a
caller of them, with the message it means to build as a second variable; an action
is a call of a setter, which may fail and must then leave the message as it was.
Options are added in ascending order and a payload is set once and is not empty, as
the builders of `exosite.c` do and `coap.h` asks for; an option may follow the payload.
A loop of the C code is a function from its state to the next one, and `Loop` is where
it comes to rest: a state that is its own successor.

`ExoMessages` puts the builders of `exosite.c` on top of `CoapCodec`: one call of
`exo_operate`, which may answer a datagram it does not recognise with a reset built
over that datagram, and then builds one message after the other in a buffer that
nobody initialises.  It gives bytes to what `ExoEngine` calls a request; which
operation is in which state is the engine's business, so here the walk may meet any
request, any message id and any string.

| code | `ExoMessages` |
|---|---|
| `exo_build_msg_activate`, `_read`, `_observe`, `_write` | `exo_build_msg`, with `Header`, `WithToken`, `WithOptions`, `WithPayload` for the calls and `Options`, `Payload` for their arguments |
| `ret \|= ...` | `Then` |
| `strlen` passed as `uint16_t opt_len` | `Passed` |
| `exo_build_msg_ack`, `exo_build_msg_rst` | the same names |
| rebuilt message of a retransmission | `Repeat`, with `Readdressed` for the two calls that follow the builder |
| a datagram that passes the validation | `Received` |
| the calls in the two loops | `Unrecognised`, `Walk`, `SendRequest`, `Retransmit`, `SendAck` |

`PicoClient` is `main` of `picocoap/examples/posix/client.c` with the server, other
hosts, the network and the receive buffer of its socket.  `recvfrom` writes the
sender's address over the one `sendto` uses; `peer` is that address, so a request may
go to another host, which then knows its message id and token and may answer it as
the server does.  Anybody may also send what nobody asked for: valid CoAP with ids and
tokens of its own choice (`stray`), or bytes the validation refuses (`noise`).  An
answer carries as history the age of its request, counted in requests; the network
delivers nothing older than `Lifetime`, the receive buffer holds `Backlog` datagrams in
the order of their arrival.  What is printed is left out, except whether a datagram
is taken for the response (`Matches`), which compares id and token and not the sender.

The theorems are in eight modules, each of which extends what it is about:
`ExoEngineProofs`, `ExoLifecycleProofs` (the refinement), `ExoExampleProofs`,
`CoapOptionProofs`, `CoapCodecProofs`, `CoapPduProofs`, `ExoMessagesProofs` and
`PicoClientProofs`.

## Runs

| run | what it checks |
|---|---|
| `SingleShot` | reads and writes from power-up through activation, over restarts: `TypeOK`, `OpShape`, `RequestOwn`, `OneMessageId`, `IdleMeansFinished`, `ApplicationOwns` |
| `TwoSlots` | two slots of reads and subscriptions, every acknowledgement ambiguous, two tokens: `NotificationOwn`, `ImplementsLifecycle` |
| `LiveOperations` | one slot, fairness: `ImplementsLifecycle`, `SingleShotFinishes`, `SubscriptionRefreshed`, `UpdateShown` |
| `LiveActivation` | activation, power loss, torn files, fairness: `ActivationPersists`, `ComesUp` |
| `Codec` | setter calls in any order, options ascending and one payload: `WithinBuffer`, `RoundTrip`, `FindsOption` |
| `Messages` | all messages of one call of `exo_operate`: `BuilderTellsLoss`, `NothingForeign`, `RepeatSaysTheSame`, `ResetEchoes`, `MarkerHasPayload` |
| `Example` | the example program from power-up, with activation, power loss and crashes: `OpShape`, `ApplicationOwns`, `NoWriteOverwritten`, `SubscribedOnce`, `ErrorCountQueued` |
| `PicoClient` | the client of picocoap, fairness: `AcceptedIsOwn`, `WaitsForSomething`, `AsksAgain` |
| `ClaimRetransmit` | refuted: a retransmission repeats the token of its request |
| `ClaimUpdate` | refuted: an update that changes the value is always shown |
| `ClaimFirstBoot` | refuted: a device without a `cik` file starts |
| `ClaimAbsent` | refuted: an absent option has length 0 |

The properties, with the conditions that make them true:

* `RequestOwn` needs `~reused`: it says that an answer goes astray only if an id was
  issued while an earlier request under it was awaited or could still be answered,
  and in no other way: not by a retransmission, a cancelled or requeued slot, a
  restart as such.  The code does not ensure the condition, and the
  invariant fails without it: while one read waits, sends of another fail, each of
  them spending an id, until the counter comes round and both are pending under one
  id, where the answer to either completes the first of the array.  `NotificationOwn`
  needs `~clash`: tokens are 16 random bits and nobody checks them.
* `UpdateReported` (`ClaimUpdate`) is about an application that takes nothing back and
  releases every result (`Releases`), and a server that refuses nothing.  In the trace
  the answer to a renewed subscription is folded into the number of the first one, and
  a notification that carries the outcome counts as repeated.
* `ApplicationOwns` needs an application that leaves slot 0 alone, as the example
  does.  Slot 0 is rewritten by `exo_operate` and by a 4.01 answer whatever it
  holds, which the repository does not mention.
* `ComesUp` holds for a short or torn file, and fails for a missing one.
* `IdleMeansFinished` is for single-shot operations.  A subscription whose
  acknowledgement could not be sent does not keep `EXO_IDLE` from being
  returned; `UpdateShown` says that its update is not lost.
* `BuilderTellsLoss` is about the error the engine ignores: a request that does
  not fit is sent all the same, without the parts that found no room
  (`NothingForeign` says that it holds nothing else).  An alias too long for the
  datagram makes a read of the wrong resource, an overlong value a write of nothing.
* `RepeatSaysTheSame` is about options and payload; that the token is dropped is
  the finding of `ClaimRetransmit`.
* `MarkerHasPayload` has one exception: a write of the empty string ends in a bare
  payload marker, which RFC 7252 calls a format error and `coap_validate_pkt`
  accepts, since its check compares with the wrong end.
* `ErrorCountQueued` is for the subscription and the uptime.  When the report in
  slot 3 fails itself, a new one is queued and released in the same round of the
  loop, before it was sent; `errorcount` is never counted up.
* `SubscribedOnce` says that the subscription stays in its slot.  A notification
  that arrives while the previous one is unacknowledged or unread is answered with
  a RST, which ends the observation at the server; `SubscriptionRefreshed` says that
  the library asks again after the silence.
* `AcceptedIsOwn` is about answers: the accepted one is that to the last request, from
  the host that request went to, which after a redirection need not be the server.  A
  stray datagram that repeats both id and token is accepted as well, since nothing
  else is compared.  It needs `Lifetime + Backlog < MidSpace`, and that bound is exact:
  with one id fewer a datagram read out of a full receive buffer can carry the id of
  the last request.  The client takes one datagram per request, so a duplicate leaves
  it one answer behind for good, and it then drops valid answers as stale.
* `WaitsForSomething` and `AsksAgain` need `~lost` and a peer that is the server: the
  client hangs after a single lost datagram, and a datagram of another host redirects
  it.

### Bounds

`MidSpace` = 2 (3 for activation) makes the message id counter wrap and issue ids in
use at once, and leaves room for behaviours in which it does not; `TwoSlots`,
`LiveOperations` and `Example` take 1, so that an acknowledgement matches whatever is
pending, which an operation's lifecycle and the example must survive.  `InFlight` = 2
keeps one earlier request that may be answered late beside the latest one and its
repeats; `TwoSlots` and `Example` take 1, since under a single id the answer to any
request already matches every pending operation.  One retransmission
(`COAP_MAX_RETRANSMIT` = 1) separates the first, the last and the exhausted attempt;
`TwoSlots` and `Example` use 0, where every timeout is the last.  The token of
`SingleShot` is 0, the one a retransmission carries in any case, so that a request and
its repeats count as one in flight; only a reset is compared with it there.
`PayloadLens` {0, 1, 2} against `ValueMax` = 2 and `CIK_LENGTH` = 1 gives an empty, a
fitting and an overlong value, and a CIK of right and of wrong length; `SingleShot`
leaves out the overlong one and the empty acknowledgement, which it could not tell
from other refusals.  One application slot beside slot 0 already shares the counter
with the activation; two application slots start on an activated device to keep the
state space small.  `ObsBits` {0} gives two sequence numbers, enough for updates that
count as new, for repeated ones and for the folding of `ClaimUpdate`; where it is
empty (`TwoSlots`, `Example`) there is one number, and updates that count as new are
left to `LiveOperations`.  `ServerOptions` matters where there are subscriptions:
`LiveOperations` has all lists that give a number, `Example` the one that ends the
program.  The slots are visited in order and slot 0 is special, so no symmetry is used.

`Codec` takes a buffer of 300 bytes, deltas of 6, 9, 15, 285, 294 and 300 and
lengths around 13 and 269, so that all three encodings of both occur and the
buffer runs full in each; values, payloads and tokens consist of the byte 255, which
is also the payload marker, and fresh memory holds 0 or 255.  Token length 9 is
refused by the code.

`Messages` keeps the datagram at its 576 bytes and chooses strings around the
boundary: an alias of 522 bytes is the longest a read can carry (with the query
behind it), 520 and 521 leave just room or none for a one-byte value, values of 519
and 520 and names of 540 and 541 are the last that fits and the first that does not.
Two operations in a row suffice, since a message depends on the buffer only through
its content, and the byte 255 (the payload marker) fills strings and memory.

`Example` has its four slots; the uptime is written every second round instead of
every hundredth (`Period`), so that rounds with and without a write alternate.
Refusals 4.01 and 4.04 lose and find the CIK, resets stand for the others.

`PicoClient` has four message ids for a lifetime of one request and a receive buffer
of two datagrams, the tightest the assumption allows, and two tokens, so that they
repeat.  One id is that of stray datagrams; the counter comes round to it.

### Fairness

`exo_operate` is weakly fair because the application calls it in a loop, and its
inner steps because a C function runs to its end; `RecvNone` says that datagrams
do not arrive faster than they are drained for ever.  `exo_init` is called again
after a failure, by the application or by whatever restarts it (the example calls
it once per start).  Successful sends are strongly fair: a network
that is down comes back, and the code retries on the next call.  The clock
(`Expires`, `Elapses`) is strongly fair since it advances whatever the program
does.  No fairness is assumed of the server, of answers or of the application's
queueing: an unanswered read ends by its retries.

In `PicoClient` the program's own steps are weakly fair, and a request in flight is
eventually answered or lost; losing it is noted in `lost`, so this assumes nothing.

## Proofs

Every theorem holds for every value of the constants that satisfies the named
assumptions of the modules.  Those of `ExoEngine` state types and subset relations
only; of the others, these say more:

* `CoapPdu`: the buffer holds the fixed header (`Max >= 4`, without which
  `coap_init_pdu` fails and leaves no message), it does not begin at address 0, and no
  option has number 0, which ends the iterator;
* `ExoMessages`: a datagram holds the header and the longest token
  (`MINIMUM_DATAGRAM_SIZE >= 12`; the code has 576), and aliases and names are shorter
  than 65536 bytes (`StringAssumption`): `coap_add_option` takes its length as a
  `uint16_t`, so a longer one would be cut to its length modulo 65536 with no error
  (`Passed`);
* `ExoExample`: the four slots of the program;
* `PicoClient`: `Lifetime + Backlog < MidSpace`, which at one request per second,
  answers of at most 247 s and the usual receive buffers holds of 2^16 ids.

### The engine

`TypeCorrect` is proved by itself: each operator on operations stays in `Op`, every
datagram of `Datagrams` is a `Message`, and each action follows.

The safety invariants need a stronger one, `IInv`:

* `RequestOwn` alone is not inductive.  A retransmission puts a request on the wire
  under the id of its operation, which no other pending operation may share:
  `PendingApart` says that two pending operations have different ids unless `reused`.
  A restart leaves nothing pending and the requests in flight as they are
  (`RestartPreserves`).  `OpShape` rules out a pending operation without a type.
* `NotificationOwn` follows from `Registered`, a subscription's token has a
  registration of its own slot, and `Unambiguous`, no two slots are registered
  under one token unless `clash`.
* `OneMessageId` is inductive with `OpShape`.

Most actions are *quiet*: they leave the network alone and move one operation (or
slot 0 as well) in a way that cannot create a pending operation, a new token or a
new id (`Follows`).  `QuietPreserves` deals with all of them once; `SendRequest`,
`Retransmit`, `Queue` and a restart have lemmas of their own.  `LibraryRespects`
proves the action property `ApplicationOwns` from the same invariant, for
applications that leave slot 0 to the library.  `IdleFinishes` follows from
`OpShape` and the type of states.

`EngineImplements` (module `ExoLifecycleProofs`) proves the refinement
`Spec => ImplementsLifecycle`, again for applications that leave slot 0 to the
library.  `Allowed(o, q)` lists what the lifecycle lets happen to one operation
record; `Steps` and `Stutters` turn a change of one slot into a step of
`OpLifecycle!Next`, or into a stuttering one.  Each action of the engine then needs
a statement about a single record (`HandleLives`, `ProcessLives`,
`ApplicationLives`), and a restart, by power loss or crash, is `PowerLoss`.  `OpShape` is needed for two of
them: only a subscription is ever notified, and an activation, whose answer clears
the slot, is never in one of the application's.

### The example program

`EInv` (module `ExoExampleProofs`) is `IInv` of the engine together with where the
program is.  `NoWriteOverwritten` and `SubscribedOnce` are not inductive alone:
that the slots of the program hold only what it puts there (`OwnSlots`) needs that
inside `exo_operate` an operation keeps its type or is cleared (`Keeps`), that the
subscription is free to queue needs that nothing was queued before (`NothingYet`),
and both need that `exo_operate` runs only where `main` calls it (`CalledFromLoop`).
The lemmas of `ExoEngineProofs` about single actions are used as they are: every
step of the example is one of the engine's, with calls of its own choice
(`CallsAreSteps`).  The loop over the results is a fold over the slots
(`LookedAt`); `ErrorsCounted` proves the action property `ErrorCountQueued` from it.
`ExampleOwns` and `ExampleShape` carry over what the engine promises to any
application.

### The codec

`HeaderRoundTrip` and `HeaderFrame` show, for every 16-bit delta and length and any
buffer, that an option header is decoded to what was encoded, points to the value,
and occupies exactly the bytes that were counted for it.

`Represents(p, m, at, marked)` (module `CoapCodecProofs`) says that the buffer of `p`
holds message `m`: the header, the token, the k-th option at offset `at[k]` and the
next one right behind it, then nothing or the marker and the payload.  About it there
are two groups of lemmas:

* every getter reads its part of `m`, wherever it has to walk over the options
  (`LastDecodedEnd`, `IteratedAll`, `PayloadReads`, `Validates`, `FindsByNum`; together
  `ReadsBack`);
* every setter leaves a buffer that represents the changed message if it returns no
  error, and the old message if it does (`Leaves`), and it fails exactly when the bytes
  it needs are not there (`Grows`).  Where the code moves memory, the moved options
  are still there (`LaidMoved`, `BodyMoved`, `FrontKept`).

The loops are recursive functions over the states of the loop.  The prover has no
induction over data and cannot unfold such a function unless it is known to exist,
so both are done once, by hand: `LeastNumber` takes a least element of a set of
counterexamples, `LoopDefined` concludes that a loop whose states climb towards a bound
is defined, and `LoopEnds` that it comes to rest in the last state of a trace.  Each
walk over the options then only has to name its trace.

`PInv` (module `CoapPduProofs`) is that the buffer represents the caller's message; it is
inductive by the lemmas about the setters, and `WithinBuffer`, `RoundTrip` and
`FindsOption` follow from those about the getters.  `FindsOption` speaks of an option
that fewer than 255 with the same number precede: the code counts them in a `uint8_t`.

### The builders

A builder goes on after a call that failed, so a message need not be the one that was
asked for, and `BuilderTellsLoss` and its companions are about what it is then.
`Built` (module `ExoMessagesProofs`) is the invariant of the sequence of
`coap_add_option` calls: the options in the buffer are some of those asked for so far,
in their order (`Kept`), and `ok` says whether all are there.  Whether the next one
fits depends on the options already there and on the length alone, not on what the
buffer or the header holds; so of one request built twice, the same parts find room both times
(`Twins`, `OptionsBuild`, `RequestBuilds`).  `Readdresses` shows that taking
the token out of a finished message always succeeds and moves the rest without loss,
and `ResetBuilds` that a reset can be built over the datagram it answers, since id and
token are read before.  `MInv` states this for the state of the two loops; it is
inductive because a builder assumes nothing of the buffer it is given but its type, and
the five properties of the run `Messages` follow from it.

### The client

`AcceptedIsOwnHolds` is proved for every `MidSpace`, `Lifetime` and `Backlog` with
`Lifetime + Backlog < MidSpace`.  That a matching datagram has age 0 is not
inductive; its invariant says that message ids tell ages (`mid + age + 1` is the
counter, or the counter plus `MidSpace`), and that the datagram at place k of the
receive buffer will be at most `Lifetime + Backlog` old when it is read: a round makes
it one older and moves it one place on (`AgeWhenRead`).  That it comes from the host the
request went to needs `WentToPeer`: while the client waits, whatever has age 0 was asked
of `peer`.  `Matches` tests neither age nor sender, so both follow from ids alone.
`WaitsForSomethingHolds` needs only the types.

### Only model-checked

What holds under fairness: `SingleShotFinishes`, `SubscriptionRefreshed`, `UpdateShown`,
`ActivationPersists`, `ComesUp` and `AsksAgain`.  The prover has no `ENABLED`, and so
cannot use `WF` and `SF`.  All invariants, action properties and the refinement that
the passing runs check are proved.  `Represents`, and with it `PInv` and `MInv`,
quantifies over all offsets and is not evaluated by TLC, which checks the consequences.

## Not modelled

* `pal/template`: stubs.  Sockets and name resolution in `pal/posix`: I/O, of which
  only the outcomes matter here.
* `picocoap/examples/posix/client_dtls.c`: it does not compile.  It has two functions
  `main`, uses variables nobody declares (`sent_pdu`, `test_cases`, `coap_ctx`) and
  functions picocoap does not have, so there is no behaviour to model.
* What `client.c` prints, and answers longer than its 64-byte buffer, which the
  socket cuts short.
* The provisioning service: the repository's README says "You can not yet activate",
  so nothing is promised of an activation answered after it was queued again.
* `exo_do_activate` and `exo_util_is_ascii_hex`, which nothing calls.
* The vendored test framework.
* Sequence numbers of several option bytes, and wrap-around of the 64-bit clock.
* Received messages with options malformed behind the first, which
  `coap_validate_pkt` accepts, its checks notwithstanding.
* Callers of the codec that add options out of order or set a payload twice: nothing
  in the repository does.

## Plan

1. (done) `ExoEngine`, `OpLifecycle`, its runs and the inductive invariant; the codec
   and the option header.
2. (done) `ExoMessages`, `ExoExample`, `PicoClient` and its proofs; the refinement of
   `OpLifecycle` as a theorem.
3. (done) The invariants of `ExoExample` from those of the engine; the codec for
   messages of any length, with its loops; the builders.
4. Further safety consequences that the liveness properties rest on, such as a bound
   on the retransmissions of one operation between two calls of the application.
