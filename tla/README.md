# A verification development of comms_champion

comms_champion is two programs in one repository. The **comms library**
(`src/comms/include/comms`) is a header-only C++11 library from which a binary
protocol is put together at compile time: fields, messages, a stack of protocol
layers, dispatch, and containers that never allocate. The **tools**
(`src/comms_champion`) are Qt applications that load a protocol, a socket and
any number of filters as plugins, and send, receive, display and record
messages: `cc_view` is the graphical one, `cc_dump` the one for scripts, and
`lib/` is what they share.

The tools run on one thread, in Qt's event loop. What interleaves is therefore
not instructions but *events*: timers, socket notifications, the user's clicks,
and callbacks that are invoked before the caller has finished. A modal error
dialog runs an event loop of its own, inside the callback that reported the
error, so that almost everything may be re-entered.

## Inventory

| Component | Source | State | Operations | What is hard, what makes it right |
|---|---|---|---|---|
| Message sending manager | `lib/src/MsgSendMgrImpl.cpp` | list of messages with *relative* delays, one timer, the protocol | `start`, `stop`, the timeout slot `sendPendingAndWait`, two callbacks | every message goes out exactly when the script places it; re-inserting a repeated one must not move the others; re-entrance from the send callback |
| Message manager | `lib/src/MsgMgrImpl.cpp` | all messages, the next number, socket, protocol, filters | `start`, `stop`, `clear`, `sendMsgs`, `addMsgs`, `deleteMsg`, `socketDataReceived`, filter callbacks | the message list is searched by number, so it must stay sorted across send, receive and delete; data goes through every filter, in both directions |
| Socket base and Filter base | `lib/src/Socket.cpp`, `lib/src/Filter.cpp` | running, connected, callbacks | start, stop, connect, disconnect, send, report | no events after stop |
| Echo socket | `plugin/echo_socket` | pending data, a zero timer | send, postponed delivery | order; delivery only after the send has returned |
| TCP server, client, proxy sockets | `plugin/tcp_socket` | socket lists, connection pairs | connection, data, error and disconnection slots | order of signals; data of one side before the other is connected; the last words of a side that closes; sockets destroyed inside their own signal |
| UDP, serial, null sockets | `plugin/udp_socket`, `plugin/serial_socket`, `plugin/null_socket` | one or two OS sockets | connect, read, write | almost all of it is OS calls |
| Protocol adapter | `lib/include/comms_champion/ProtocolBase.h` | unread bytes, garbage bytes | `read`, `write`, `updateMessage`, `cloneMessage` | no byte of the stream is lost, duplicated or reordered, wherever the chunks are cut |
| View application manager | `app/cc_view/src/GuiAppMgr.cpp` | receive and send state, list counts, selection, pending display | some forty slots, plugin reconfiguration | signals delivered while a slot is still running; five copies of the selection, the counts and the sending state; answers to dialogs that were opened earlier; sending across a reconfiguration |
| View widgets | `app/cc_view/src/widget` | the items and the current row of each list, the toolbars' copies of selection, count and sending state | clicks, buttons, moving an item, dialogs | taking the current item out of a list selects another one |
| Dump application manager | `app/cc_dump/src/AppMgr.cpp` | configuration, flush timer | `start`, callbacks | quitting after the last message |
| Plugin manager | `lib/src/PluginMgrImpl.cpp` | available and applied plugins | scan, load, apply, unload | the applied plugins are loaded |
| Message file manager, configuration manager | `lib/src/MsgFileMgr.cpp`, `lib/src/ConfigMgr.cpp` | none that lasts | load, save | JSON input and output |
| Static queue | `comms/util/StaticQueue.h` | a ring of cells, its start, its count | push, pop, insert, erase, resize, linearise, compare, iterate | the logical sequence under every wrap of the ring |
| Static vector, static string, other utilities | `comms/util` | array and size | container operations | bounds |
| Fields | `comms/field` | a value | read, write, length, validity | encoding is the inverse of decoding; lengths |
| Protocol layers | `comms/protocol` | none | read, write, length | error codes, missing bytes, checksum and size fields that agree with the data |
| Message interfaces, factory, dispatch, processing | `comms/MessageBase.h`, `comms/MsgFactory.h`, `comms/dispatch.h`, `comms/process.h`, `comms/util/alloc.h` | the storage of a message allocated in place | find a type by id and index, create, read, handle, destroy, process a buffer | every search finds the same type, or a message is cast to a type it is not; storage is given back exactly once; the error that is reported |
| Raw data protocol plugin | `plugin/raw_data_protocol` | none | one message without framing | a configuration of the library |
| Demo protocol and plugin, docs, CMake | `demo`, `doc` | none | none | examples |

## The modules

| Module | What it is |
|---|---|
| `SendSchedule` | the promise of the sending manager: a calendar of messages |
| `MsgSendMgr` | `MsgSendMgrImpl`, with its promise as a refinement (`KeepsSchedule`) |
| `MCMsgSendMgr` | the scripts TLC sends |
| `Induction`, `MsgSendMgrProofs` | induction over natural numbers as facts about sets; the theorems about `MsgSendMgr` |
| `BoundedDeque` | the promise of the static queue: a bounded sequence |
| `StaticQueue`, `MCStaticQueue` | `comms::util::StaticQueue`; the rings TLC uses |
| `StaticQueueProofs` | the theorems about `StaticQueue`, the refinement of `BoundedDeque` among them |
| `ProtocolStack` | the layers of a protocol as functions on bytes |
| `ProtocolStream`, `MCProtocolStream` | `ProtocolBase` between a wire and the raw data dialog; the messages TLC sends |
| `ProtocolStreamProofs` | the theorems about `ProtocolStream` and the stack |
| `MsgMgr` | `MsgMgrImpl` with filters, the echo socket and the view's list |
| `MsgMgrProofs` | the theorems about `MsgMgr` |
| `GuiAppMgr` | `cc_view`: the application manager, both lists, their toolbars, dialogs and plugins |
| `GuiAppMgrProofs` | the theorems about `GuiAppMgr` |
| `Relay` | the promise of a proxy: pairs of byte streams that may end |
| `TcpProxy`, `MCTcpProxy` | the TCP proxy on the socket base, with Relay's promise as a refinement (`KeepsPromise`); what TLC's peers send |
| `TcpProxyProofs` | the theorems about `TcpProxy`, the refinement of `Relay` among them |
| `Dispatch` | the three searches of a message type, one instantiation a step |
| `MsgFactory`, `MCMsgFactory` | creation, reading, handling and destruction of messages, on `Dispatch`; the tuples of types TLC uses |
| `MsgFactoryProofs` | the theorems about the searches and the factory |
| `IntField` | integer fields as functions on bytes: every encoding of a number |
| `CompositeField` | lists, bundles, optional fields and variants, as functions on trees of fields |
| `Fields`, `MCFields` | a field filled in, refreshed, written, and read in pieces; the definitions of fields TLC uses |

Definitions are named after the functions and members they stand for, as far as
TLA+ allows; `PROJECT.json` has the lines of each under `map`. Definitions whose
comment begins with *Mutant* are not part of the model: each is a plausible
mistake in the definition whose name it begins with, and a property of a run
fails when it takes that definition's place.

### Sending (`SendSchedule`, `MsgSendMgr`)

The state is the list `m_msgsToSend` of messages with relative delays, the
timer, whether the protocol is held, and two variables for the callbacks: how
many send callbacks are in progress, and what the latest step has handed to
one. `SendPendingAndWait` is the slot up to its callbacks: it takes the leading
messages without a delay, puts the repeated ones back (`ReinsertIter` is the
`find_if` with its mutable lambda, `Elapsed` what that has subtracted), sets
the front's delay to zero and starts the timer. `Start` and `Timeout` call it.
`SendReturns` and `SendReturnsLast` are the end of the slot after the send
callback; between the two, `Timeout` may happen again, because an error dialog
in the send callback runs an event loop. What the completion callback does
depends on the tool: `cc_view` stops, `cc_dump` does not; both are modelled.

Time is nominal: a tick is a millisecond of the timer. A late timeout delays
all that follows it, in the code and in the model, and the calendar promises no
more. The user cannot click while a modal dialog is open, so `Start` and `Stop`
wait for `callbacks = 0`.

`SendSchedule` knows no timer, list or nesting. Its `calendar` has an entry for
each message with the time until it is due; what is due together goes out
together and in order. The refinement maps the list to a calendar by adding up
delays (`CalendarOfList`). It is what "puts the message back at the right
place" means.

### The ring buffer (`BoundedDeque`, `StaticQueue`)

A queue is a record of `cells`, `startIdx` and `count`, as in the code. A cell
is `Raw` or holds an object, which may have been moved from. Constructing over
an object, and assigning to, moving from or destroying a raw cell, leave the
cell `Broken` for good: undefined behaviour is a state an invariant excludes
rather than something assumed away. `linearise` is modelled in all its four
ways, with the order in which objects are constructed, moved and destroyed.
Linearised iterators are cells, iterators are indices. What a call on a
position gives back is kept in `returned` until the next call. Comparing cells
that hold no element may give either answer (`EqualAnswers`).

### The stream (`ProtocolStack`, `ProtocolStream`)

`ProtocolStack` has one operator per layer, from the bytes left to the error
status, the number of bytes consumed and the message. A field is a byte of
`Base` values. `ProtocolStream` is `readImpl` and `writeImpl` around it: a wire
that carries messages and noise and delivers any part of what is on it, and the
raw data dialog, which reads finally from the same object. `received`, `read`
and `reported` are histories the properties speak of.

### The message manager (`MsgMgr`)

`SendMsgs` is the whole loop of `sendMsgs`, with the recording in the scope
guard after the data has gone to the socket. The echo socket collects and, when
its timer expires, delivers everything: one action, since the loop of
`sendDataPostponed` calls nothing that returns to the event loop. The view's
list follows from `msgAdded`, is rebuilt by `refreshRecvList`, and is what
deletion and clearing start from. Data is the message it carries and the layers
that filters have put around it. `ApplyNewPlugins` is the reconfiguration as
far as it changes this state.

The loops of the code are recursive functions over the index of the loop:
`SendAll`, `AddAll`, `DeliverAll`, `DeleteAll`, `Listed` and the two chains of
filters. They take the record of all members that change in the course of a
call (`Now`) to what it has become, and an action installs that (`Become`).

Filters are plugins of the user and not part of the repository. The ones in
the model each add a layer to what is sent and take it off what is received,
the way `Filter.h` describes a filter's place in a chain. Each may withhold the
data of any message of a batch.

### The view (`GuiAppMgr`)

Five objects keep their own idea of the selection, the counts and the sending
state: `GuiAppMgr` (`mgr`), the two toolbars (`recvBar`, `sendBar`), and the two
list widgets (`recvList`, `sendList`). `env` is what they work with: the
messages of the message manager, how many messages the sending manager still
has, the plugins, an open dialog. Qt's direct connections make a signal a call
of its slots in the order in which they were connected. A handler is therefore
an operator from the state of all objects to the next one, and a nested signal
is a nested operator: `SetSendState` runs the toolbars' slots, then the list's,
which starts the sending, whose completion announces `Idle` inside the signal
that announces `SendingAll`. The order of connections is the order of the
definitions' compositions, and the mutants of this module change it.

An `assert` of the source is not assumed: `Assert_` records whether its
condition held, and `AssertsHold` says that all of them always have.

Message objects are numbered, and a number is used again when no pointer to its
object is left (`Held`), as the invariants compare objects only by identity.
Dialogs are modal but not blocking for timers and sockets; the ones that work
on a message chosen before they opened (edit, comment) are split into the
opening and `DialogDone`, the others are one action. `PluginsMayFail = FALSE`
in the run: a plugin set that cannot create its socket or protocol leaves the
application without a running message manager, and the next attempt to apply
plugins stops it twice, against the assertion of `stop` (`GuiAppMgr.cpp:615`,
under `hazards`).

### The proxy (`Relay`, `TcpProxy`)

`pairs` is `m_sockets`. Each of the two `QTcpSocket`s of a pair is what Qt
documents of one: data on the wire, data available, for which `readyRead` is
emitted when it arrives and never again, data written and not yet taken over
by the system, and whether the peer has closed. The slots are the actions:
`NewConnection`, `ConnectionSocketConnected` (which connects `readyRead` of the
client and passes on what is there), `ReadyRead`, `ClientConnectionTerminated`,
`ConnectionSocketDisconnected`, and the destructor, `Unload`. The socket base
adds `Start`, `Stop`, `Connect`, `Disconnect`, `SendData`.

External assumptions: `flush` hands to the system all that is written, a socket
destroyed with unread data resets its connection, so that what was flushed may
be cut short, and `connectToHost` does not finish before it returns. In
`cc_view` an error is shown in a modal dialog inside the error signal
(`emitting`), during which other signals arrive; `cc_dump` opens none. A run has
both. With a dialog, a client that closes while it is open takes its pair out of
the list, and with it the socket whose `error()` is being handled. The model has
this order and what it does to the data; that the code destroys a socket in use
there is in no property, for no comment of the repository says it may not (see
*What else was met*).

`Relay` knows two streams per side and link, one from the other side and one
from the application, in order and without loss or repetition while the link is
established. It also says what an end may lose (`MayBeLost`): the last words
of the side that closes arrive, unless it was being sent to at the same time.
`Relay` is a promise of safety. `WordsArrive` adds that nothing which was sent is
under way for ever: it arrives, or the link ends. The signal for data that has
come before the remote side was connected is not emitted again, so this rests on
the slots for a connection reading what is there and then watching for more.

### Finding and making messages (`Dispatch`, `MsgFactory`)

A search in the comms library is a recursion over template parameters. Each
instantiation is a step of `Dispatch`, with its parameters `TFrom` and `TCount`
as `from` and `count`, counted modulo `SizeLimit` as `std::size_t` is; the
static binary search, the linear switch and the polymorphic tables are kept
apart, each for ids that are all different (`Strong`) and ids that types share.
`std::lower_bound` and `std::upper_bound` are external and defined by what the
standard says of them.

`MsgFactory` puts a message's life on top: `Create` starts the search,
`Created` and its alternatives allocate, `ReadFails` goes on to the next type
with the id, `CreateAndReadGenericMsg` is what is done when there is none left:
the `GenericMessage` is read by the next layer, and stays in the pointer
whatever that says. `Handle` and `Release` cast the message to what yet another search
finds. `options` are those of the factory and of the interface. `cast`
remembers the last cast of a message and `answer` what the read has returned:
they are histories for the properties.

### Fields (`IntField`, `CompositeField`, `Fields`)

A field of the library is a type put together from options; the value of that
type in the model is a record that names them (`IntForm`, `List`, `Bundle`,
...), and `LengthOf`, `CanWrite`, `WriteOf`, `ReadOf` and `AtVersion` descend
in it as the member functions do. `IntField` does the arithmetic: casts to a
number of bytes, two's complement, base 128 with its continue bit, sign
extension, a serialisation offset, for bytes of `ByteBits` bits. A byte is a
number, so nothing is lost by taking three bits instead of eight: every
overflow is there, earlier.

`Fields` is one exchange. The program may set the version of the message and
assign a value, refresh, and write into a buffer; the reader tries with some of
the bytes, and again with more, on the same object; or another peer sends bytes
of its own. A message hands its version to the fields when it is refreshed and
when it is read, never when it is assigned; the properties of what is read
speak of fields whose version agrees.

`Representable` says which values have bytes at all, `Waits` which definitions
allow a reader to tell that more must come, and `Ends` which ones never take a
part for the whole. They are in terms of the definition, not of what is read.

## The runs

| Run | Question | Instance | Outcome |
|---|---|---|---|
| `send_schedule` | are messages sent when the script says, is anything ever stranded, do finite scripts complete, does every message get its turn? | scripts of one or two messages, delays and periods 0, 1 or 3, counts 0 or 2, and of three messages with delays 0 or 2; 2 nested callbacks; 11,461 states | holds |
| `static_queue` | does every operation do to a sequence what it promises, with the right lifetimes, also when queues are assigned to each other? | one ring of 5 cells with all operations, rings of 3 and 2 cells with assignment; 24,380 states | holds, but for `insert` |
| `static_queue_insert` | does `insert` insert? | the ring of 5 cells | violated |
| `protocol_stream` | are bytes conserved, does decoding depend on the cuts, is what was sent received? | bytes of 4 values, garbage limit 3; 8 bytes of any messages and noise with the dialog (accepting it counts as a byte), or 10 bytes with noise free of the sync prefix; 468,105 states | holds |
| `protocol_stream_shared` | is the receiver undisturbed by the dialog? | the first of the two | violated |
| `msg_mgr` | do list, manager and socket agree? | 3 messages sent, 6 numbers, batches of 2, a filter that may withhold data; 232,888 states | holds |
| `msg_mgr_filters` | does an echo find its way back through two filters? | the same with two filters | violated |
| `gui_app` | do the five objects agree after any clicks, arrivals, timeouts, dialogs and plugin changes; does every assertion hold? | 2 messages received or sent, 3 in the script, 4 together; 676,492 states | holds |
| `tcp_proxy` | does the proxy keep the promise of a relay, and does what is sent arrive? | one link, peers that send twice, or once with the application; with and without dialogs; 44,596 states | holds |
| `msg_factory` | is the type found the one asked for, does a search ever leave the tuple, are casts and answers right, is storage accounted for, does every call return? | every sorted tuple of up to five types over the ids 1, 2, 30 or 0 to 3 that `Dispatchable` admits; two pointers; 145,292 states | holds |
| `dispatch_groups` | and when more than two types share an id? | all sorted tuples of up to five types | violated |
| `fields` | is a field read as it was written, wherever the bytes are cut; do lengths agree; does the version reach every part? | bytes of 3 bits, 26 definitions: 11 numbers, 12 lists, 3 messages; 3 versions; 54,808 states | holds |

**Why the bounds are enough.** Three messages are the fewest with one put back
between two others; with periods of 1 and 3 against delays of 2 a message lands
before, at the same time as and behind another, and a count of 2 both repeats
and ends. `IntMax = 3` is the largest duration used, so the conversion to int
is exercised up to its edge. Five cells are the fewest in which each way to
linearise moves more than one element. Seven bytes hold a complete frame with
noise on both sides, or a frame cut short by another; a garbage limit of 3 (512
in the code) is reached within them. Two messages with the same id exist, so
that the choice by index is made. In `msg_mgr` there are enough numbers for a
hidden message between listed ones to be deleted around. In `gui_app` three
items are the fewest that can be moved to the top, up, down and to the bottom
with different outcomes, and two listed messages the fewest of which one is
deleted and another one clicked. One link of the proxy is enough because pairs
share nothing but the listening socket and the application's data, which
`TcpProxyProofs` confirms for any number. Tuples of five types make the binary search halve twice and have a shared id at the
beginning, in the middle and at the end; ids of 30 make the direct table
unsuitable; `SizeLimit = 8` lets unsigned differences wrap; indices go up to 4,
beyond every group. Factories are made with five of those tuples, and the
functions of `dispatch.h` are called directly only while no message is held:
the two share no state. In `fields`, a byte of three bits makes a prefix of one
byte announce at most 7, so that lists of 9 elements are beyond it; a variable
length number has two bits in each byte, so that values of six bits take one to
four of them; every value of the type of a number is assigned. The bytes of
other peers are all sequences of up to two bytes over the edges of the
encoding, and of three and four bytes over fewer.

**Deadlock.** TLC checks for it everywhere but in `ProtocolStream` and
`TcpProxy`, where the budget of what the peers send ends and with it the
behaviour, and in `Fields`, which is one exchange; the code has no such end.

**Fairness.** `MsgSendMgr` assumes that time passes while the timer runs
(`Tick`), that the event loop delivers an expired timer (`Timeout`; Qt does,
and a nested event loop does as well) and that a dialog is closed in the end
(`SendReturns \/ SendReturnsLast`). Nobody has to start or stop anything.
`MsgFactory` assumes that a function that was called goes on (`FactoryStep`):
the library runs in its caller's thread and waits for nothing. `TcpProxy` has it
in a specification of its own (`FairSpec`), as the proofs are about safety: the
event loop, that of a dialog too, delivers each signal of a socket that has
something to say (`ReadyRead`, `ClientConnectionTerminated`,
`ConnectionSocketDisconnected`), a connection that was begun is made or refused,
and, which is external, a peer takes what was handed to the system and the user
closes a dialog. Nobody has to send, close, start or stop anything. Fairness is weak
throughout: each of these actions stays enabled until it, or one that stands
for it, is taken.

## What the violated runs show

Each run checks one promise that a comment in the repository makes, quoted in
`PROJECT.json` under `findings`.

- `StaticQueue::insert` into the first range of a ring overwrites the element
  at the position and leaves a moved-from object behind (`StaticQueue.h:806`).
- The raw data dialog reads, finally, with the receiver's protocol object: half
  a message that was arriving is reported to the dialog as garbage
  (`RawHexDataDialog.cpp:159`).
- Outgoing and incoming data go through the filters in the same order
  (`MsgMgrImpl.cpp:197`, `:355`).
- The static binary search among the types of one id compares an offset within
  the group with an index into the tuple: with three types of one id behind
  another one, the wrong type is dispatched to
  (`DispatchMsgStaticBinSearchHelper.h:489`).

## What else was met

These have no run of their own; where the models contain the code, they do what
it does.

- Data a filter generates is meant to go through the filters below it, but the
  loop is left as soon as there is data (`MsgMgrImpl.cpp:315`).
- `StaticQueue::erase` of an iterator returns one that skips an element when it
  has popped the front, and the linearised form returns the end of the array at
  the seam (`StaticQueue.h:551`, `:507`).
- `operator==` of queues that are wrapped at different places may compare other
  ranges than it means to, and cells without an element (`StaticQueue.h:709`;
  `Compare` gives either answer then).
- `MidRangeCount` subtracts an index from a count without adding `TFrom`. Its
  unsigned difference wraps whenever `TFrom` is not zero, so that the minimum
  with the size of the group is right after all; `MsgFactoryProofs` depends on it
  (`f > 0 => n < f`).
- If a `GenericMessage` cannot be allocated while a message is held in place,
  the answer is `InvalidMsgId`, not the `MsgAllocFailure` that
  `doc/page_prot_stack.dox:194` announces (`MsgIdLayer.h:852`).
- A `GenericMessage` that cannot be read is left in the caller's pointer beside
  the error (`MsgIdLayer.h:866`), unlike any other message and against the
  `@post` of the layers' `doRead`, which promises a message if and only if the
  answer is success. `AnswersTruthfully` allows this and the one before, and
  nothing else.
- In `cc_view`, a client that closes while a dialog tells that its remote side
  has failed destroys the socket inside its own `error()` (`NewConnection`,
  `ConnectionFails`, `PeerCloses`, `ClientConnectionTerminated`;
  `proxy/Socket.cpp:196`). Only the socket that emits `disconnected()` is
  destroyed later.
- A client whose remote side has refused stays connected to the proxy, which
  never reads it (`proxy/Socket.cpp:213`): the exception in `WordsArrive`.
- `createGenericMsg` of an id that a type has leaves the index at its default
  0; without a virtual destructor the message is then destroyed as that type.
- A message that waits to be displayed is displayed up to 250 ms after it was
  cleared (`GuiAppMgr.cpp:765`).
- A script that is being sent survives a change of the protocol: the list is
  cleared, and the sending manager goes on with the messages of the old one
  (`GuiAppMgr.cpp:554`).
- Deleting the last selected message does not make the list select new ones
  again; loading a script while a received message is selected leaves the send
  list with no current row.
- `acceptError` of the proxy's listening socket is connected to the slot for
  connections, which asserts that a `QTcpSocket` has sent it
  (`proxy/Socket.cpp:56`, `:222`).
- The place of the sign bit of an `AvailableLength` number is computed as
  `bytes * 8 - (bytes + 1)` (`AvailableLength.h:210`): 64 in one byte is read as
  -64. Signed ones are not among the forms of `fields`.
- `VarLength` narrows a value to the type of its longest number before
  `canWrite` looks at it (`VarLength.h:85`): a `uint32` with `VarLength<1, 2>`
  writes 0x10000 as 0.
- The length before an element is compared with its maximum together with the
  prefix when it is written, and without it in `valid()`
  (`SequenceElemSerLengthFieldPrefix.h:165`).
- A list with `SequenceElemFixedSerLengthFieldPrefix` writes no prefix when it
  is empty; its `read` wants one. A list of fixed size that holds too many
  elements computes its length without the prefix of the first element, and, if
  all elements take the same, without one before each
  (`SequenceFixedSize.h:201`, `RecalcLen`), though it writes them; what it adds
  to too few is written without the version. Fixed lists with such prefixes are
  in the model, but not among the forms of `fields`.
- `write` of a list with a length prefix or a terminator relies on a buffer of
  `length()` bytes, whatever size it is given.
- A variant that is copied or moved does not take its version with it
  (`basic/Variant.h:427`), nor does `selectField`; `FailOnInvalid` reads into a
  field with the default version.
- An optional field that became *missing* for lack of data stays missing when
  the read is repeated with more; a list whose elements take no bytes reads
  for ever.

## The proofs

`MsgSendMgrProofs` holds for any set of identities, any set of non-empty
scripts whose delays and periods fit an int, any `IntMax` and any depth of
nesting. These are the assumptions `IntMaxAssumption`, `NestingAssumption` and
`ScriptsAssumption` of `MsgSendMgr`, which TLC evaluates on each run. The
restriction to durations that fit is needed: beyond it `start(int)` is given a
negative interval and the script is stranded.

The invariants the run checks are not inductive alone. `IInv` is

- `TypeOK`: every delay is a natural number. That this is kept is not obvious:
  `Reinsert` subtracts from the delay of the message behind;
- `DurationsFit`: every delay and every period in the list fits an int. Without
  it the conversion in `sendPendingAndWait` might stop the timer;
- `NothingStranded`: without it a timeout might find an empty list, or a list
  and no protocol to clone its messages with;
- `WaitsForLater`.

The argument goes through `Waitable`, the lists a timer can be started for:
those whose front has a delay and whose durations fit. Taking the ready
messages off leaves a waitable list (`RestWaitable`), putting one back keeps it
waitable (`ReinsertWaitable`, from the shape of the new list in
`ReinsertShape`), and so does putting back any number of them
(`ReinsertAllWaitable`). `SendPendingAndWaitKeeps` concludes for the slot, and
`NextKeeps` has a step per action.

`Elapsed` and `ReinsertAll` are recursive functions. Reasoning about them needs
that they exist and satisfy their equations, which `Induction` derives from the
well-foundedness of `<` on the natural numbers by induction *on sets* (a subset
of `Nat` with 0 and successors is `Nat`): `LeastElement`, `SetInduction`,
`IteratesExist`.

| Theorem | Says |
|---|---|
| `Invariance` | `Spec => []IInv` |
| `TypeCorrect`, `NothingIsStranded`, `WaitsAreForLater` | types, and the two invariants of `send_schedule` |
| `ReinsertKeepsDueTimes` | a message put back is due one period from now, and every other one when it was due before |
| `ScheduleIsKept` | the list, the timer and the nested loops implement `SendSchedule` |

`ScheduleIsKept` reads the list and what the timer has left as a calendar
(`CalendarOf`). When the timer expires, the messages that the slot takes off
the front are those due at this tick, and no other (`TimerTakesFront`,
`FrontTaken`: behind the last of them the first delay is positive, and due times
never decrease). Putting one back is planning it one period on
(`PlanIsReinsert`: `find_if` with what it has subtracted stops where the
calendar's first later entry is), and so is putting all back
(`AllAgainIsReinsertAll`, an induction over their number). `SendIsRelease` joins
these for the slot, and `StepIsPromised` has a case per action; most of them
leave the calendar alone.

### `MsgFactoryProofs`

For tuples of any length with any ids, provided that at most two types share an
id, or up to four if it is the first one (`Dispatchable`, an assumption of the
theorems; `dispatch_groups` shows that it is needed). `IInv` has two stages.
While the id is searched, every type with the id is within the range, and the
range never cuts through a group (`IdStage`). Then, in the group, the distance
from its first type to `from` is what has been subtracted from the index
(`OffsetStage`). A lemma per step shows that the next instantiation is again
such a range. Of the factory, `FInv` adds that a message is of the type that
its id and index stand for, so that every later search finds it
(`CastsCorrect`); that the storage is taken exactly while a message lives in it
(`PlaceAccounted`); and that what a read answers is true (`AnswersTrue`), for any
answer of the next layer, to a `GenericMessage` too.
Counting is the same search: where it ends, the types with the id are exactly
one interval of the tuple, and its length is what is returned (`RangeCounts`).

### `TcpProxyProofs`

For any number of links and any load. The invariant of a pair (`PairFits`) is
that the client is connected as long as the pair is listed, that its data is
read exactly while the remote side is connected, and that whatever is read is
passed on in the same slot. `NothingIsHeldBack` follows, as does
`ConnectedListens`.

`ProxyKeepsPromise` is the refinement of `Relay`. What `Relay` calls under way
is spread over three places: what is written to one socket, sorted by its
source (`From`), what is available in the other and what is on its wire.
`Traffic` adds to the invariant what makes the three add up: only peers are
read from, a remote side that is not connected has sent nothing, and while it
is connecting only the application has written to it. Without the last,
`ConnectionFails` would lose the client's words. Then there is a lemma per action
on one pair of sockets (`ReadyReadCarries`, `EndingCarries`, ...): passing on
moves a datum from one place to the next and leaves the concatenation as it is
(`PassingOnCarries`, `ReadingCarries`); an end leaves a prefix, and all of it
where `Relay` says so, because a side that disconnects without being broken has
been read to the end and the other one has nothing unread to reset its
connection. From these each action is a step of `Relay` or none
(`NextRelays`). Selecting by source is recursive, and the lemmas about it
(`FromAppend`, `FromConcat`, `FromPrefix`) go by induction over the length.

### `ProtocolStreamProofs`

For any stack of that shape: any message types, base, garbage limit, and any
messages and noise. `BytesAreConserved`: every byte that was received is in
exactly one message, garbage report or buffer, in order. The loop of `readImpl`
is a recursive function; its invariant (`Good`) says that what it has collected
is the garbage it began with and the bytes up to its position. It needs that a
stack never consumes more than it was given (`Within`), which is proved layer
by layer, and that concatenating the collected sequences commutes with
appending to them.

`CutsDoNotMatter` says that a receiver who gets the stream in chunks is told
what one read of all the bytes would have told it. The invariant (`Decoded`) is
that, as long as the object serves the stream alone, what it has kept and
reported is where one call of `read` with everything received would have ended.
`LoopSplits` is what `Receive` needs of it: the loop over some data and more is
the loop over the data, followed by the loop over what that left and the rest.
The argument: what a stack has decided (anything but `NotEnoughData`) does not
change when bytes are appended, layer by layer (`StackReadStays`); so the loop
over more data gets to where it would end with less (`GetsThere`, by induction
over the rounds); from there it does what it would with the rest alone
(`StepAfter`); and as each round uses up a byte or ends the loop, both have
enough rounds (`CourseEnds`). The premise of `DecodesTheStream` is needed, and
needed exactly: accepting the raw data dialog with nothing typed in counts as
use by someone else, because it flushes what the object has kept.

`MessagesArrive` says that what one tool writes the other reads: what the
receiver is told of is, in order, the messages that were sent and that their
type accepts, and it is all of them when the wire is empty. Its invariant
(`Framed`) lays out the bytes received and those on the wire, together, as the
frames of what was sent: there are positions, in ascending order, at which the
frames are (`LaidOut`), and no byte outside of them is the sync prefix.
From there:

- a stack that is given a frame and anything behind it takes exactly the frame,
  as the message that was written or, if its type does not accept it, as invalid
  (`FrameRead`, which undoes the layers one by one; the checksum and the size
  that `StackUpdate` fills in last are those the reader computes). By
  `StackReadStays` the same holds for what it decides when only a part of the
  frame is there (`ReadAhead`);
- so the loop of `readImpl` is always between two frames, and has told of the
  messages of the frames before it (`LoopReaches`, by induction over the rounds,
  with `StepReaches` for each: noise is skipped byte by byte, a frame at once, and
  a frame that has only begun ends the loop);
- and with `Decoded` the loop over everything received is what the receiver has
  been told (`FramedMeans`).

Its hypothesis `Recognised` is about the messages the other tool sends, and
has three parts. TLC refutes `SentIsReceived` for messages that break either of
the first two:

- their size can be written in the size field: with a body of four bytes and
  bytes of four values the size that is read is 0;
- of the types with the id of a message, none tried before its own accepts its
  values. Two types that share an id and both accept them cannot be told
  apart, and the first is the one that is reported;
- a message with a value that its type rejects is rejected as invalid by all
  types with its id. Then the frame is dropped as a whole. Otherwise (a type that
  waits for more) the bytes within would be searched for the beginning of
  another message, and what is found depends on them. A run of TLC without this
  part found no violation; the proof needs it.

TLC evaluates `Recognised` for the messages of the run (`MCRecognised`). The
messages of a list that satisfy something are selected by `Selected`, a
recursive function with lemmas of its own (`SelectedMore`, `SelectedPrefix`):
`SelectSeq` of the standard modules has no definition the provers know.

### `MsgMgrProofs`

For any bounds and any number of filters. The numbers of messages ascend and
are below the next number. So the binary search of `deleteMsg` arrives at the
message it is meant to (`DeletesTheMessage`); and as two lists of the same
messages with ascending numbers are the same list (`AscendingUnique`), it is
enough to show that the view's list has the right *messages* (`Shows`), which
every action keeps, to have `ListsAlwaysAgree`. `EchoesAlwaysFollow` needs two
more facts: what waits in the socket is in the order of sending (`Queued`), and
comes after everything received so far (`Earlier`). Each loop has a lemma that
its recursive function exists and is typed, and one that it keeps the invariant
(`SendAllKeeps`, `AddAllKeeps`, `DeliverAllKeeps`, `DeleteAllDeletes`).

### `GuiAppMgrProofs`

For any bounds on the lists, any kinds of messages listed (with the sent ones
among them: what is sent is recorded) and plugins that may or may not fail. The
properties of the run are not inductive together. `IInv` is a predicate of the
state of all objects at once (`Whole`), so that it can also be said of the
states in the middle of a handler. It adds

- `Listings`: no list has a message twice, and what is listed is known to the
  message manager. Otherwise deleting or moving an item, or filling the list
  anew, would leave another item with the selected message;
- that the list makes a new item current only while nothing is selected
  (`selectOnAdd`, in `Focus`): otherwise an arrival would move the current row
  away from the selected message without a signal;
- `Dialogs`: the message a dialog was opened for is still the selected one when
  it is accepted, though messages arrive and are sent in between;
- `Fine`: what is applied is running, and no assertion has failed. It is
  required of plugins that do not fail only, and is the one part that
  `AssertionsHold` needs that hypothesis for.

In a handler the parts break and are repaired one after the other: the count is
ahead of the list when a message is added, the list ahead of the count when one
is deleted, the toolbars behind both. A lemma per slot says what it sets when
what it asserts holds (`RecvToldIs`, `RecvReportedIs`, ...); a lemma per
function of `GuiAppMgr` which parts it needs and which it gives back
(`RecvPicks` and `RecvDrops` for a click, whose only demands are a row within
the toolbar's count and the message in the current row; `RecvEmptiedKeeps`,
`SendAddedWhole`, `SendUpdatedWhole`, `MoveItemIs`, ...); and one per action puts
them together. The loops, over recorded, loaded and listed messages, are
recursive functions that keep a set per round (`LoopStays`, `LoopExists`). In
`RelistAllSound` the set says that the message that was selected either is not
one that is listed, or has been clicked again, or is still to come and nothing
is selected meanwhile: at most one click happens, and it is the right one. That
a message object is free when a new one is made (`FreshMsgIs`, `FreshScriptIs`)
is counted from the bounds.

### `StaticQueueProofs`

For any queues, capacities, elements and programs. The inductive invariant
(`RingInv`) is that every ring is `Sound`: an object lives in exactly the cells
that the start and the count say, and in no other. `TypeOK` alone is not
inductive, nor is `LifetimesMatch`: without the start in the array nothing is
known about the cell an index stands for.

The operations are followed cell by cell. A loop of moves is a recursive
function (`MoveRunLoop`); one that does not overwrite what it has still to read,
and constructs exactly in the cells that hold no object (`ReadyForward`,
`ReadyBackward`), is all in all a shift of a range (`RunsForward`,
`RunsBackward`). From these follow erasing and inserting in either range and
three of the four ways to linearise; the fourth, which pops a range and pushes
it back across a single move of the rest, is an induction of its own
(`LinearisedByPopOne`). Each operation has a lemma that says where each element
is afterwards, and one that says the same of the sequence (`PushContents`,
`EraseContents`, ...), from which `NextAsDeque` puts together the refinement.
Insertion keeps the lifetimes (`InsertedRing`) but not the sequence
(`static_queue_insert`), which is why the refinement leaves it out.

| Theorem | Says |
|---|---|
| `RingsStaySound`, `Typed`, `LifetimesAlwaysMatch`, `IndexOfAlwaysInverts`, `AlwaysLinearisedAfterwards`, `AlwaysStepsAsDeque` | types, the invariants and the refinement of `static_queue` |
| `TypeIsFound`, `TypesAreCounted`, `SearchTypesCorrect` | every search finds the type with the id and index, the count is that of the id's types, and no range that is searched leaves the tuple |
| `FactoryFindsTypes`, `FactoryCountsTypes`, `CastsCorrect`, `PlaceAccounted`, `AnswersTrue`, `FactoryTypesCorrect` | types and the invariants of `msg_factory` |
| `ProxyInvariance`, `ProxyTypesCorrect`, `ConnectedListens`, `NothingIsHeldBack`, `ProxyKeepsPromise` | types, the invariants and the refinement of `tcp_proxy` |
| `StreamInvariance`, `StreamTypesCorrect`, `BytesAreConserved`, `CutsDoNotMatter`, `MessagesArrive` | types, conservation of bytes, independence of the chunks, and that what was sent is received, in `protocol_stream` |
| `GuiInvariance`, `GuiTypes`, `SelectionAgrees`, `PartsOfViewAgree`, `SelectionStaysDisplayed`, `AssertionsHold`, `MovedStaysSelected` | types and the properties of `gui_app` |
| `ManagerInvariance`, `ManagerTypesCorrect`, `ListsAlwaysAgree`, `EchoesAlwaysFollow`, `PendingAlwaysScheduled` | types and the invariants of `msg_mgr` |

### Model-checked only

Liveness (`FiniteScriptCompletes`, `NoneStarves`, `EveryCallReturns`,
`WordsArrive`), which is
out of the prover's reach. `Fields`: definitions of fields
are trees of any depth, and what descends in them is recursive. Numbers of any
width, with powers of two as operations, would be needed even for the leaves,
and the provers know nothing of `2^n` for a variable `n`. Everything else a
passing run checks is stated by a theorem for every value of the constants.

## Not modelled, and why

- Wording, layout, timestamps, extra information attached to messages, logging.
- The TCP server and client: the server is the proxy without its second
  connection, the client a single socket. Sockets of the operating system (UDP,
  serial, null): no state to speak of.
- An error of the proxy's listening socket: it ends in an assertion.
- The connection buttons of `cc_view`, saving, its configuration; the widgets
  that display and edit fields.
- `cc_dump`: a start that runs once and three callbacks.
- Loading of plugins, JSON files: input and output.
- Of the fields: strings and lists of raw bytes, bit fields and masks,
  enumerations, floating point numbers (a number or a list with another view of
  the value), the adapters that force a size or length from outside, trailing
  suffixes, `IgnoreInvalid`, a length that is a member of its own, and what
  makes a value valid. The stack's models take one byte and the set of its
  valid values instead of a field. Many of the library's lines (options, units,
  detection of member functions at compile time, documentation in headers) have
  no behaviour in time to model.
- Static vector and static string: sequential containers without a ring.
- Of the stack: `TransportValueLayer`, `ChecksumPrefixLayer`, verification
  before reading, reading of fields without a message.
- Of processing: what handlers return, `processAllWithDispatch` (a loop around
  the modelled function), messages without a static id, `InPlacePool`.
- `createGenericMsg` called by the user directly.
- Messages that a repetition clones: `cloneMessage` is taken to give an equal
  message.
- Scripts with durations beyond the range of an int (24 days).
- Qt itself, the filters, and the peers at the other end of the wire are
  external: timers, sockets, list widgets, the wire and filters are modelled
  from how the code uses them.

## Plan

Done, in the order of what is hardest to test: sending, the ring buffer, the
stream, the message manager, the view, the proxy, dispatch and the factory, the
fields, and the proofs above. What is left:

1. A protocol object that outlives a connection (`ProtocolBase.h:113`), which
   composes `TcpProxy` or a client socket with `ProtocolStream`.
2. The server and client sockets as instances of a smaller `TcpProxy`.
3. `comms/process.h` on `ProtocolStack`, with the fields of `CompositeField` in
   its messages; the remaining layers and adapters.
