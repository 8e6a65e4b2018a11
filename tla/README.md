# LXMax, specified in TLA+

LXMax adds lighting (DMX) universes to Max: a service that every patcher shares
keeps a table of universes, saves it to a preferences file and is meant to send
and receive their channels; two objects, `lx.config` and `lx.config.ui`, edit the
table. This directory holds TLA+ models of the parts with state worth checking,
TLC configurations for small instances, and TLAPS proofs for all instances.

Paths below are relative to `src/source/lxmax/`.

## The system

| Component | State | Operations | Uses |
|---|---|---|---|
| **DMX buffer** `lxmax/internals/dmx_buffer.*` | two channel vectors, the roles current/next, the address map, a mutex per direction | `write`, `read`, `swap`, `resize` | called by the DMX IO service |
| **Universe configuration** `liblxmax/src/lx_universe_config.c` | one universe: type, protocol, mode, interface and the adapter or port behind it, numbers, priority, unicast addresses | a setter per attribute, clone, increment, to and from a dictionary | interface look-up; reads the service's global interfaces |
| **Interface look-up** `liblxmax/src/lx_net.c`, `lx_serial.c` | none; the lists enumerated at start | name an adapter or port, find it again, list the menu | – |
| **Service** `lxmax/lx.service.cpp`, `liblxmax/src/lx_service.c` | table of universes, global attributes, queued save, preferences file, IO thread | add, remove, clear, quick patch, notify, save, load, start, stop | owns the universes; notifies itself and the user interfaces |
| **lx.config** `lx.config/lx.config.c` | none | messages that add, clear, patch or set | calls the service, from the main or the scheduler thread |
| **lx.config.ui** `lx.config.ui/lx.config.ui.c` | rows, selected row, a flag that ignores notifications | add, remove, set value, select, refresh | calls the service, is notified by it |
| **DMX IO service** `lxmax/internals/dmx_io_service.*` | an asio context with its work guard, a mutex, input and output buffers, protocol objects | `run`, `stop`, `set_universes`, `process_io`, `write`, `read` | owns two DMX buffers; made, run on a thread of its own, and deleted by the service |
| **UDP socket service** `lxmax/internals/udp_socket_service.*` | a socket and one receive buffer | the receive loop, `send`, join and leave a group | nothing constructs one yet |
| **Protocol objects** `lxmax/internals/protocols/` | universes per direction | all empty at this commit | – |
| **Packets** `lxmax/internals/packets/` | none | build and take apart Art-Net and sACN packets | – |
| **Universe addressing** `liblxmax/src/lx_dmx.c` | none | Art-Net `net.subnet.universe` text, sACN multicast groups | – |
| **Helpers** `liblxmax/src/lx_helpers.cpp` | none | increment a label, sorted neighbours of a key, regular expressions | – |
| **lx.dmx.read, lx.dmx.write** | a reference to the service | subscribe, unsubscribe | – |
| **Enumeration** `liblxmax/src/lx_net_macos.c`, `lx_net_win.c`, `lx_serial_macos.cpp`, `lx_serial_win.c` | none; fills the lists of the service at start | list the network adapters and the serial ports | the operating system |
| **Symbols, registration** | none | tables of names | – |

### What is hard, and what makes each part correct

* **Buffer.** Writers, readers, the publisher and a reconfiguration run in
  parallel. The universe is looked up *before* the mutex is taken. A reader must
  see one whole frame, a write must not be lost by a swap, an access must stay in
  its own universe, and two mutexes must not deadlock.
* **Universe configuration.** Type, protocol, mode, number and interface
  constrain one another; each can be set alone in any order, some setters call
  others, and clone and load replay them. After any sequence the attributes must
  fit, the interface's name must be that of the handle, and a reload must restore
  what the user saw.
* **Service.** An edit is saved later, by a queued function. The flag that asks
  for a save can be set while a save runs, from another thread; the program may
  quit at any step; a clear may run between the look-up and the use of a
  universe. What is at rest must be on disk, files must be whole, nothing freed
  may be used, every universe must be listened to.
* **User interface.** It ignores the notifications that its own edits cause and
  patches its rows itself; the rows must still be the table.
* **Packets on the network.** Datagrams are lost, repeated and reordered, arrive among
  those of other equipment, and all go through one receive buffer. What is taken must be
  what was sent, and no byte may come from an earlier, longer datagram.
* **IO service.** The thread that stops it may come before the thread that runs
  it has registered its work. A reconfiguration reads the table while messages change
  it. All protocols must send the same frame, a pending frame must not stay pending,
  and the service must outlive its thread. The clock outlives the service.
* **Helpers and rows.** A label the user typed is counted up by a conversion that
  throws. Which universe is copied and which row comes next depends on the order of the
  table at that moment; two universes with one number share their channels.
* **Enumeration.** Adapters and devices come and go between starts and, on Windows,
  between the tries to list them. What was listed must be complete, what is chosen must be
  found, and the destinations of a universe must not be of a network it was not given.

## The modules

| Module | Models | Role |
|---|---|---|
| `DmxBuffer` | dmx_buffer.cpp | one action per access to the shared state |
| `DmxFrames` | what a DMX buffer promises | abstract: atomic writes and reads of whole frames |
| `DmxBufferRefinement` | – | the mapping from `DmxBuffer` to `DmxFrames` |
| `DmxBufferProofs` | – | proofs about `DmxBuffer` and its refinement |
| `DmxIoService` | dmx_io_service.cpp, its owner in lx.service.cpp | life, reconfiguration, clock and callers over two `DmxFrames` |
| `DmxIoServiceProofs` | – | proofs about `DmxIoService` |
| `InterfaceLookup` | lx_net.c, lx_serial.c | names, menus and searches as operators, in both builds |
| `HostInterfaces` | the enumeration sources, lx_net.c | one universe on a machine that changes between starts; the destinations it would send to |
| `HostInterfacesProofs` | – | proofs about `HostInterfaces` |
| `UniverseRecord` | lx_universe_config.c | setters, clone and dictionary as operators on a record |
| `UniverseConfig` | one universe over its life | the setters in any order, global interfaces, clone, restart |
| `UniverseRecordProofs` | – | lemmas about the setters, look-ups and lists of `UniverseRecord` |
| `UniverseConfigProofs` | – | proofs about `UniverseConfig` and `QuickPatch` |
| `QuickPatch` | lx.config.c, lx_service.c | the message that makes a run of universes |
| `LxHelpers` | lx_helpers.cpp | increment of a label, sorted neighbours, as operators |
| `ConfigUi` | lx.config.ui.c | one user interface and the numbers, labels and rows it gives |
| `ConfigUiProofs` | – | proofs about `LxHelpers` and `ConfigUi` |
| `LxService` | lx.service.cpp, lx_service.c, lx.config.c, lx.config.ui.c | table, notifications, saving, stop and start |
| `LxServiceProofs` | – | proofs about `LxService` |
| `DmxAddress` | lx_dmx.c, endian_ints.hpp | the forms of an address as operators |
| `DmxPacket` | dmx_packet_artnet.hpp, dmx_packet_sacn.hpp | constructors, serialize and deserialize as operators |
| `DmxLink` | udp_socket_service.cpp with the packets | packets sent over a lossy network into the one receive buffer |
| `DmxLinkProofs` | – | proofs about `DmxAddress`, `DmxPacket` and `DmxLink` |
| `MCDmxBuffer`, `MCDmxIoService`, `MCUniverseConfig`, `MCHostInterfaces`, `MCQuickPatch`, `MCConfigUi`, `MCLxService`, `MCDmxLink` | – | instances for TLC |

Operators that end in `_Something` and are marked *seeded fault* are used by no
specification. Each is a plausible mistake in the operator that follows it, and
makes one of the checked properties fail when it takes that operator's place.

### DmxBuffer

The variables carry the names of the members; `universes` is the key set of
`_universes`, because the offset of a universe follows from the keys (`Base`).
`pc[t]` says where a thread is inside an operation and `call[t]` holds its locals:
the iterator (`it`), the channels copied (`k`), and whether a `resize` has replaced
the map since the look-up (`stale`). `resize` is modelled loop iteration by loop
iteration as it is written, including that its iterator is already past a kept
universe when the channels are copied, and that for a new universe it dereferences
the end of the map.

Channels are integers, so that a span may begin at channel 0 and end anywhere; `InBounds`
is the test of `read`, with its unsigned sum, and `write` has none. Whether an access
that leaves its universe meets another universe or leaves the vector follows from the layout.

What the language leaves undefined is a choice: an iterator into a map that was
replaced yields any of `StrayOffsets`; an access outside a vector has no visible
effect or ends the process (`crashed`).

`DmxFrames` is the promise: writes and reads are atomic, a swap publishes the whole
pending frame, and only a call that overlaps a reconfiguration may go astray. The
mapping places the effect of a write and of a read at the acquisition of the mutex,
and that of a swap at the exchange of the pointers.

### DmxIoService

Four threads: the main thread makes, reconfigures and deletes the service, the IO thread
runs its context, Max's scheduler thread runs the clock and edits the table, a patcher writes
and reads. `work` and `stopped` are what matters of the asio context: it runs until the last
work is taken from it, and `stop` can only take what `run` has registered. The two
buffers are `DmxFrames`, which `DmxBuffer` implements; `set_universes` is a begin and an end
of a reconfiguration of each, so that a patcher's call may fall between. It lists the keys, looks
up one after the other, resizes, and then reads the universes again: one that was given a serial
protocol meanwhile finds no object, one that was removed is freed memory (`SetProtocols`).

`Delete` waits for nobody but the mutex, as the code does, and `Destroy` is the end of the object. The clock is
neither unset nor freed by `lx_service_free`, so that `Tick` may come later and dereference the cleared pointer; a
round or a call that is under way then goes on in freed memory (`UseDeleted`), to a crash or as if nothing were.

Nobody sets the clock or calls the service at this commit. The constant `Driven` adds
a caller, because the code is written for one: with it the properties say what such a
caller could rely on, without it that nothing happens. `Hung` is the wait for
a thread that stop did not reach; it and the deleted service are the ends of the process.

### UniverseRecord and UniverseConfig

`UniverseRecord` has an operator per setter, each with the setters it calls:
`SetProtocol` settles the mode, clamps the number and looks the interface up again,
as the code does. `FromDictionary` sets the attributes in the order in which
`ToDictionary` appended them. `InterfaceLookup` keeps of a symbol `head (tail)` its
two parts, which is what the look-ups take apart, and keeps their quirks: a search
by address that runs always and overrides the search by name, a pointer to a port
that is not cleared when nothing is found. `ListMax` is how many addresses fit into the
255 characters of a symbol, `Windows` the build. `Quads` are the texts that the regular expression takes for an address and
`IpAddresses` those that are one: a symbol whose address is no quad makes the look-up fail (`[global]`), one whose quad
is no address makes it succeed with nothing (`All`). `ParsedAddresses` is the loop over a list of
addresses, written as a recursive function so that it can be proved about.

### HostInterfaces

`machine` and `devices` are what the operating system would list, and change at any
time. A start lists them once, adapter by adapter or in up to three tries, and loads the universe
that was saved; a table is walked in any order. `Destinations` is the getter of the attribute that lists where the universe
would send to, bit by bit for the broadcast addresses; nothing at this commit sends there. The loops over adapters and addresses are recursive functions
(`Entries`, `IpsOf`, `TableOf`), one round each, so that they can be proved about. The history variables `listed`, `failed` and `changes` relate what
the program knows to what the machine was then.

### QuickPatch

`Accepts` is the test of the arguments, `Patched` one round of the loop with the
setters of `UniverseRecord` in their order. A message that is refused changes nothing. `Reported`, which only
the properties use, is what the report messages of `lx.config` offer.

### LxHelpers and ConfigUi

A label is its head, the width and the value of the number at its end; `LongMax` stands for
the largest `long`, and a sum beyond it wraps to a negative number whose sign is text the next time. A sorted table
is a set of sequences, because entries with one number come in no specified order. `ConfigUi`
has the handlers of `lx.config.ui` as single steps of the main thread, with the choices
that `LxService` leaves open made by the helpers; `LxService` has their threads and notifications.

### LxService

A task is an edit, a message or a save on one of two threads, and is cut wherever
it calls Max or touches shared state. `queued` is the qelem, `file` the preferences,
`draft` the dictionary a save is filling. A stop may come at any step of the main
thread's rest and loses what is queued; a start loads, and saves what it loaded.
With `MaxFails`, Max may refuse to store a universe, to list the keys of the table and to write the file. The code goes on
without a word: a universe that was refused is owned by nobody (`leaked`), a patch goes on to its next one (`StoreFails`,
`AfterStore`), a refresh shows no rows, a save without keys writes a file without universes (`WithoutUniverses`). The history
variables `strayed`, `dropped`, `unwritten` and `unlisted` record a use of a freed universe, a request that `qelem_unset`
took back, a save that failed or left the universes out, and a refresh that could not list them.

### DmxAddress, DmxPacket and DmxLink

A datagram is a size, the header fields a receiver tests, and the bytes after the
header. `ArtDmx` and `SacnDmx` are the constructors, `Serialize` both serialize
functions, and `ArtDmxAccepts` and `SacnAccepts` the tests of the two deserialize
functions in their order. `DmxLink` sends packets through `inflight`: `Lose` drops one, and
a datagram that stays after `Receive` will come again; the set has no order. `Receive`
writes over the front of `buffer` and leaves what is behind it, as the socket does.
`ReceiveFails` is the error after which `start_receive` is not called again.

At this commit no code calls deserialize and nothing constructs the socket: that the
socket's callback calls deserialize with the buffer and the number of bytes is an
assumption about the code to come, and all that `DmxLink` adds to the source.

## What the runs check

| Run | Instance | Shows |
|---|---|---|
| `buffer` | 3 threads, 2 universes of 2 channels, 4 calls; 379,632 states, 1.5 min | in every interleaving the buffer implements `DmxFrames`; no two threads are at conflicting accesses; a copy not overtaken by a resize stays in its universe |
| `buffer_wide` | 3 threads, 2 universes of 1 channel, spans from channel 0 and beyond the end, 3 calls, fair; 119,000 states | a read that is not refused ends in its universe; a crash needs a resize or a span out of range; every call returns |
| `io_service` | 2 names, 3 kinds of universes, 2 `set_universes`, 1 edit or call, fair; 64,679 states, 30 s | the service outlives its thread; the buffers hold what the table held; all protocols send one frame; what a crash needs; a quit ends unless stop overtook run; a pending frame is published or dropped |
| `io_unused` | the same, not driven | *violation*: a service that is up publishes no frame |
| `universe_config` | 3 adapters (two of one name, one without address), 3 ports (two of one description, one without), 4 protocols; 55,104 states | menus, ranges, interface and handle agree; clone is faithful; what a reload shows and loses; when a universe loses track of a global interface; a port is sticky; what leaves a range |
| `host` | on a Mac 4 machines and 2 lists of devices, on Windows the same number with an adapter whose name does not convert; 392,480 states | every address and device is listed, on Windows unless the adapters change twice during three tries; the destinations of a universe are the networks of its adapter and no other; which choices are honoured, and what a restart finds and forgets |
| `quick_patch` | 2 adapters, 1 port, patches of 2, ranges of 1 to 4; 11,691 states, 1.5 min | what is reported as possible is made; numbers run on |
| `config_ui` | 4 names, numbers to 3, a `long` that counts to 11, 2 edits; 49,188 states | numbers are distinct while rows are only appended; removing goes down the rows; an exception needs a huge label |
| `service` | main thread only, 3 names, 3 edits, patches of 2, stores, listings and writes that fail; 1,276,114 states, 1 min | what is at rest is saved; nothing freed is used; rows are the table; a written file is the table or has no universes |
| `service_overdrive` | both threads, 2 names, 3 edits, patches of 2, no failures, fair; 704,866 states, 2.5 min | every universe is listened to; a change is saved in the end, unless the program stops or `qelem_unset` took the request back |
| `link_artnet` | universes of 3 channels, 4 addresses, 2 sequence numbers, 2 frames, 7 foreign datagrams, 2 sent; 676,000 states | what is taken is what was sent; no channel is older than the datagram; our packets are taken |
| `link_sacn` | universes of 512 channels, 2 addresses | *violation*: our own sACN packets are refused |

**Why the bounds are enough.** *Buffer*: three threads hold the two mutexes and one
iterator at once, which is all that can be contended; two universes have a first, a
last, a kept and a new one; addresses 1 and 4 are not consecutive; two channels tell
a torn copy from a whole one; four calls allow a resize that installs universes, and
three calls that race over them. *Universe*: every protocol, type and mode;
each range has numbers inside it, at its ends and outside; the ambiguous names
exercise every branch of the look-ups. There is no bound on the number of edits;
`UniverseBound` limits counting up. *Service*: a patch of two universes is
interrupted between them; two or three names allow a clear and a second edit to meet
it; `MaxCalls` counts edits, while saves, stops and starts are unbounded.
*IO service*: a reconfiguration lists two names and is met, between any two of its steps, by an edit or a call;
the kinds of universes have an input and an output, equal and different numbers and one that is not on the network; a
second `set_universes` meets the protocols and frames of the first; rounds of the clock are not bounded. *Host*: the machines have
an adapter whose addresses lie apart, one whose address another takes over, one with
more addresses than fit and one without; masks of 24 and of 20 bits; the first buffer on Windows is
too short for all. *Patch and rows*: ranges end within a patch of two; labels are below, at and beyond the end of a `long`,
or have no number; four names allow a chain of additions around a removal.
*Link*: foreign datagrams are shorter and longer than ours, cut short, of another version
or protocol and too small; one datagram before the last is all that can be left in the
buffer. Art-Net universes have 3 channels instead of 512, because only their length and
the last channel matter and the proofs hold for all lengths; sACN runs with 512, as its
finding is about the number itself.

**Deadlock** is checked in all runs. `Stopped` in `DmxBuffer` stands for the end of a
finite run, not for a blocked one: it needs every thread idle. `Ended` in `DmxIoService` and `ConfigUi` is a
process that crashed, was quit, or hangs as `Hung` says.

**Fairness.** `buffer_wide` assumes weak fairness of every thread inside an operation:
the threads are the operating system's. A mutex alone would let a thread be overtaken
for ever by others; here the number of calls is finite, so a waiting thread is only
claimed to proceed when the others run out. `io_service` assumes that the main, the IO and the
scheduler thread run, that a set clock ticks, and that a patcher's call goes on; nobody is assumed to set the
clock, to write, to edit, to reconfigure or to quit. Fairness of the threads is strong, as each waits for a mutex that
the others take again and again: who holds it gives it back, and between two rounds the clock lets milliseconds pass.
`service_overdrive` assumes that Max serves the
main thread's queue and that a thread with a task under way runs; nobody is assumed to
make an edit, to start or to stop.

### What the runs found out about the code

The first two points contradict the repository's README.md, `[X] Support for Art-Net and
sACN protocols.` (line 22) and `[X] Basic working IO service and lx.dmx.write/lx.dmx.read
objects.` (line 21), and are the findings in PROJECT.json. The others contradict no
document; the properties say exactly how far the code goes.

* `dmx_packet_sacn::deserialize` takes the length from `flags_length & 0x1000`. That is 0
  or 4096 whatever was sent, so every sACN packet is refused, also those this code
  builds (`OwnPacketsTaken` in `link_sacn`; `SacnRefusesAll` proves it for every header).
  The flags are in the upper four bits, `0x7000`, and the length in `0x0FFF`. The Art-Net
  side has no such fault.
* The clock that would drive `process_io` is created and never set, and the call of
  `set_universes` is commented out: a service that is up publishes no frame
  (`FramesArePublished` in `io_unused`).
* A `stop` before `run` has registered its work does nothing, and the quit then waits for the
  IO thread for ever (`QuitEnds` has that exception).
* The clock is neither unset nor freed with the service. Once something sets it, a tick after the quit uses a null
  pointer, and a round or a call that is under way uses freed memory (`ServiceCrashNeedsCause` names both).
* `set_universes` reads the table twice. A universe that was given a serial protocol in between is looked for among
  the protocol objects and there is none: the null pointer is used; a universe that was removed is freed
  (`ServiceCrashNeedsCause`: an edit during the call).
* A reconfiguration copies the published frame over the next one, so that what was written and not yet published is
  gone (`PendingIsPublishedOrDropped`).
* `write` tests neither the channel nor the count, and a span that ends behind its universe
  overwrites the next one or leaves the vector; `read` lets channel 0 through, whose sum wraps
  (`ReadEndsAtHome`, `CrashNeedsCause`).
* A `resize` can end in a crash on its own (it writes through an iterator at the end),
  and may crash or misdirect any `write` or `read` whose look-up it overtakes
  (`CrashNeedsCause`, `FreshAccessAtHome` for the others).
* With messages on the scheduler thread, `qelem_unset` at the end of a save takes back
  a request made during it (`SavedAtRest` has that exception), rows and files can mix
  two states of the table, and a freed universe can be used. With everything on the
  main thread none of it happens (`NoUseAfterFree`, `RowsMatchTable`,
  `WholeTableSaved`).
* A universe set to `[global]` keeps its adapter when the global interface changes, and
  has none after a restart (`DriftNeedsGlobalChange`).
* Setting a serial universe to `[none]` does not take its port away (`PortIsSticky`).
* The unicast addresses of an input are not restored (`ReloadKeepsVisible` leaves them
  out). An adapter that is shown by its name alone, because it has no address or more than fit, is not found by it: a
  reload or a restart sets the universe to `[global]` although the adapter is there. A saved name whose address is four
  numbers but no address becomes `All` (`ReloadKeepsVisible`, `NoStrangerFound`).
* The number of a serial universe is not clamped until its mode changes
  (`RangeLeftOnlyByNumber`), and the numbers of a patch that runs beyond a range are clamped one
  by one, so that several universes end with the same one (`NumbersRunOn`).
* A label that ends in digits beyond a `long` ends the process when it is counted up: the
  exception of `std::stol` is caught nowhere (`CrashNeedsHugeLabel`).
* On Windows a port is offered by its name alone and looked for in another form, so no choice
  of a port is ever found; on both systems an adapter whose addresses do not fit into a
  symbol cannot be chosen (`ChoiceIsHonoured`).
* A universe whose adapter is absent at a start forgets it (`NoStrangerFound`), and one that
  follows `[global]` has no broadcast destination while that is `All`
  (`SendsToItsNetworks`).
* A write of the preferences that fails is not tried again until the next edit, and a file
  that cannot be read is overwritten at once (`SavedAtRest` has the first exception). When Max cannot list the
  table, the file is written without its universes (`WholeTableSaved`); a universe that Max refuses to store has a row in
  the user interface and nobody who owns it (`RowsMatchTable`).
* Two frees that no model follows into Max: the free function of a universe frees an array that is
  inside it (`lx_universe_config.c:325`), and a patch whose mode is refused frees the
  arguments of the message (`lx.config.c:267`).

## What is proved

| Theorem | For | Says |
|---|---|---|
| `LayoutDisjoint` | any length, any addresses | universes share no offset |
| `TypeCorrect` | any threads, spans, values, lengths | `TypeOK` |
| `NoConflict` | the same | `NoConflictingAccess` |
| `VectorsFit` | the same | `VectorsFitLayout` |
| `FreshAccess` | the same | `FreshAccessAtHome` |
| `ReadBounded` | the same | `ReadEndsAtHome` |
| `CrashOnlyWithCause` | the same | `CrashNeedsCause` |
| `BufferImplementsFrames` | the same, spans in range | `RefinesFrames` |
| `NeverDeletedUnderRun` | any names, tables, values and bounds | `NotDeletedUnderRun` |
| `JoinAfterStop` | the same | `JoinNeedsStop` |
| `AllSendOneFrame` | the same | `OneFrameForAll` |
| `ServiceCrashesWithCause` | the same | `ServiceCrashNeedsCause` |
| `LayoutIsConfigured` | the same | `LayoutWasConfigured` |
| `MenusAlwaysOffer` | any machine, ranges and inputs | `OfferedByMenus` |
| `AlwaysInRange` | the same | `UniverseInRange` |
| `HandleAlwaysMatches` | the same | `InterfaceMatchesHandle` |
| `LeavesRangeByNumber` | the same | `RangeLeftOnlyByNumber` |
| `CloneIsSame` | the same | `CloneIsFaithful` |
| `ReloadShowsSame` | the same | `ReloadKeepsVisible` |
| `DriftOnlyByGlobal` | the same, adapters that print differently | `DriftNeedsGlobalChange` |
| `PortsStick` | the same, built for macOS | `PortIsSticky` |
| `ChoicesAreHonoured` | any lists, ranges and record; ports apart | what `ChoiceIsHonoured` says of the lists of the moment |
| `LoadsNoStranger` | the same | what `NoStrangerFound` says of a load |
| `AllIsListed` | any machines, devices, addresses and lengths; both builds | `EverythingListed` |
| `SendsAreRight` | the same, all masks | `SendsToItsNetworks` |
| `ChoicesAreKept` | the same | `ChoiceIsHonoured` |
| `NeverAStranger` | the same | `NoStrangerFound` |
| `ReportsAreMade` | any machine, ranges and messages | `ReportedIsMade` |
| `NumbersAreRun` | the same | `NumbersRunOn` |
| `NothingFreedIsUsed` | any names, values, bounds and failures of Max; main thread | `NoUseAfterFree` |
| `RowsAreTheTable` | the same | `RowsMatchTable` |
| `TheWholeTableIsSaved` | the same | `WholeTableSaved` |
| `AllAreAttached` | any names, values, bounds and failures; either thread | `EveryUniverseAttached` |
| `RestIsSaved` | the same | `SavedAtRest` |
| `NumbersStayDistinct` | any names, labels, numbers and width of a `long` | `NumbersDistinct` |
| `OnlyHugeLabelsCrash` | the same | `CrashNeedsHugeLabel` |
| `RemovesDownwards` | the same | `RemoveGoesDown` |
| `NeighboursAlwaysAgree` | the same | `NeighboursAgree` |
| `ArtNetRoundTrip`, `MulticastRoundTrip` | all addresses | a conversion and its inverse give the address back |
| `NeverStale` | any universe length, frames and foreign datagrams, both protocols | `NoStaleChannels` |
| `ArrivesAsSent` | the same, addresses in range | `ReceivedWasSent` |
| `ArtNetTaken` | the same, Art-Net | `OwnPacketsTaken` |
| `SacnRefusesAll` | every size and header | sACN accepts nothing |

**Buffer.** `TypeOK` is not inductive: a resize stores into vectors whose length is
that of another layout than the map's. The invariant `IInv` adds that both mutexes
belong to the thread in `swap` or `resize` and one to a writer or reader, that a resize
under way has sized the next vector for its new layout and works through a part of it
(`RebuildFits`), that outside it both vectors fit, and that an iterator that is not
stale is the offset of its universe. Each action has one lemma for the types and one for the
rest. Assumptions: a universe has a length above 0, addresses are finitely many
numbers, spans are pairs of numbers, stray offsets are numbers, no thread is called
like the free mutex. Spans are not assumed to lie in a universe: the code has no
caller of `read` and `write` yet, and `write` does not test its arguments. `VectorsFitLayout` is
proved and checked in no run of its own, as is `JoinNeedsStop` below, the safety that `QuitEnds` rests on.

**Refinement.** `IInv` and `MapInv` (who waits has copied nothing; the two vectors are equal at
the end of a resize) make every step of the buffer one step of `DmxFrames` or none. Looking a
universe up starts a call; the acquisition of a mutex is its effect, or a stray one when a resize
has overtaken the look-up; the exchange of the pointers publishes; a resize is a reconfiguration from its
lock to its return; a step that crashes is a crash; the rest, above all every single channel that is
copied, changes nothing. That needs the pending frame to be a function of the state, which holds because
there is one writer at a time (`PendingChannels`). Assumption: `SpansInRange`. With a span that leaves its
universe the claim is wrong, as `write` then overwrites the next one; TLC checks the refinement, too, for spans in
range only (`buffer`).

**IO service.** `LifeInv` relates the main thread's place to the IO thread's and to the
context: a thread that runs has registered work unless stop came first, and who is past the
wait has seen it end. `TurnInv` says that whoever is between a swap and the last protocol
holds the mutex, which `set_universes` needs as well; that keeps `offered` to the one published
frame. `LayoutInv` follows `set_universes` from one step to the next: what it has listed was in the table
at that step (`ever`), what was in it all the time (`always`) is listed, and the buffer of each direction
gets what was collected for it. The frames enter only through what each of their actions leaves alone. For
`ServiceCrashesWithCause` the invariant adds that what was collected is of the network and, as long as nothing was edited during the
call, is in the table still; then what is read again is what was collected.

**Universe.** `Consistent` is inductive because the mode setter establishes `Offered`
and `InRange` whatever the record was (`ModeSet`), the look-up establishes `Matches`
whatever the interface was (`Found`), and every other operation is a composition of the two
or touches nothing they depend on. Assumptions: ranges are not empty and hold the
default number 1; the lists of adapters and ports are lists; a port has a name; no
adapter prints as `All` or `[global]` (`NameAssumption`, without which the look-up of such
an adapter would be taken for the reserved name).

A clone sets the adapter or the port again by the look-up that made it the first time, so it is the record
again (`CloneIsSame`). A load sets every attribute from the default in the order of the dictionary; it shows what
was saved because no later setter takes an earlier one back and every clamp meets a value that is in range:
that is `Bounded`, which needs the loop over the unicast addresses to give a list that
the loop leaves alone (`ParsedType`, `ParsedSame`). `GlobalInv` says that a known global adapter belongs to the global
interface; a universe set to `[global]` then gets the same adapter by any path, if no two adapters print alike
(`SymbolsTellApart`). A port stays because `PortFind` of its own symbol finds a port (`OwnPort`); that is the form of
macOS, so `PortsStick` assumes `~Windows`. The port's condition does not hold for every Windows machine: there a symbol that was
typed in the form of macOS can find a port that a clone then loses.

`ChoicesAreHonoured` and `LoadsNoStranger` are about the operators, for any lists and any record: `Honoured` and
`NoStranger` are the bodies of the two properties of `HostInterfaces`. `NoStranger` is about every saved name: one
that holds no address or port is lost, one with an address that is none becomes `All`, and any other is found if something
that is listed shares a name or an address with it. `ReloadShowsSame` has no hypothesis about names either; it says
for which the interface comes back, and what comes instead. Assumption: `PortsApart`.
No two ports have one path, and none is described as `[unknown]` or `[none]`, the texts the program puts there itself; with
such a port the look-up by description finds it for another one.

**Host.** The properties speak of what was listed, so the invariant says it of the lists: an adapter in the list has exactly
the addresses its machine had, in their order, and every one with an IPv4 address is there (`AdaptersInv`); ports are apart
(`PortsInv`). Behind that are the loops. A recursive function is a `CHOOSE` to the prover, so each of them first has to be shown to exist:
`RunExists` does that for any loop of finitely many rounds, and `IpRoundsAre`, `EntryRoundsAre` and `TableRoundsAre` read
off what a round leaves. `TableIs` then follows the macOS table entry by entry, a name's addresses being those of the
entries that bear it; on Windows, where no two adapters of a machine have one name, one adapter's list is the same
(`AddressesOfOne`). `TriesInv` counts: a buffer that is too short again means that the adapters changed since the last try, so after three tries they
changed twice.

`ConfigInv` says of the universe what it keeps while it is saved (`Saved`) and, while the program is up, that it has the adapter it names
(`Placed`). Both are kept by every setter and established by a load, for any lists whatever (`LoadPlaces`, `InterfacePlaces`,
`ProtocolPlaces`, `ModePlaces`, `UnicastPlaces` in `UniverseRecordProofs`). They are needed because a choice is honoured only if no port is left over
on Windows, and because only an adapter that is named sends to that adapter's networks. The assumptions of `UniverseRecord` become facts about the lists
here: `ListsFit` shows that whatever is listed satisfies them.

That a directed broadcast is the highest address of its network (`HighestIs`) is arithmetic: the mask leaves open a power of two in one byte and
all bytes below it. `OrNotIs` says what or-ing does to the byte, `HighestOf` what rounding up does to the number, and `DigitsOf` that a number has
only one set of bytes.

Assumptions (`MachineAssumption`, `DeviceAssumption`, `AddressAssumption`): no adapter is called `All` or `[global]`; on Windows no two adapters of a machine have one
name; a mask is ones followed by zeros; no two devices have one path, none is described as `[unknown]` or `[none]`, and on Windows a device whose name
can be read has one, is not named by an IP address nor described like an adapter. The last one is needed: there a universe that changes
from Art-Net to a serial protocol takes a port that is described as its adapter is named, though no choice of a port is ever found.
`TextAssumption` only tells the prover that two texts of the program are texts.

**Patch.** `MadeInv` says of every universe a message made that it is `Patched` of the message and its place. What is
reported is what the menus of the record with the same protocol, type and mode offer, and setting what a menu offers sets it
(`OfferedModeSettles`, `LeadsBackIsSet`).

**Service.** The invariant relates each task to the table it is about to change. `NewInv`: what is about to be
stored is in nobody else's hands and was never freed. `AttachInv`: a universe nobody listens to is in the hands of a task that
will attach or delete it. `SaveInv`: what is not saved is asked for (`queued`), or a task is
on its way to ask (`Telling`), or a save under way has in its draft exactly the universes it has passed, with the values they
have now (`SaveOnCourse`); only with a second thread may a request be dropped instead. These hold on
both threads. `HoldInv` and `RowsInv` are about the main thread alone, where what a task holds stays in the table and the rows
are behind the table by just the universe that the user interface is adding or removing, and ahead of it only by
what Max refused (`leaked`), which is never in the table, attached or freed. TLC found the invariant true in both
configurations before it was proved. Assumptions: there are finitely many names, and none is `NoName`; the
default value is a value.

**Rows.** A table of finitely many numbered keys has an order (`OrderExists`, by induction on their
number), every order has each key once (`OrderComplete`, by cardinality), and a neighbour is what lies next to a key in some
order (`NextIs`, `PrevIs`). `NumbersStayDistinct` follows, because what is added after the last universe is
above all others unless that has the greatest number there is; that case, in which the number is clipped, is left out by `appended`. `LabelsAre` bounds the number of a label by what was typed and how often
universes were added, through the wrap as well.

**Induction.** The library's induction theorems cannot be used, because they take an operator. Where a proof
needs induction, `NatSet` is applied to the *set* of the numbers for which a fact holds; it follows from the existence of a least
element (`LeastExists`), which the library states without an operator. `UpTo` is the same for the rounds of a loop.

**Link.** The properties of the last datagram are not inductive, because the buffer is
older than it. `LinkInv` adds `Parsed`: what deserialize made of the buffer is what it
would make of the last datagram alone. That holds because the accepted length is never more than what
was received (`AcceptedLength`) and new bytes hide the old (`OverwriteFirst`). Assumptions: a universe
has 2 to 512 channels, frames have that length, and the size of a foreign datagram is that of
its header and payload. `NeverStale` is vacuous for sACN, since nothing is taken.

**Only model-checked.** Liveness (`CallsReturn`, `QuitEnds`, `PendingIsPublishedOrDropped`, `SavedInTheEnd`), which is beyond the
prover. Every other property that a passing run checks is a theorem. The properties with assumptions above are
checked by TLC in configurations that satisfy them.

## What is left out

* *IO service*: `dmx_received` and the protocol objects, which are empty at this commit: what
  a protocol would do with a frame or a universe is only that it is given one.
* *Enumeration*: the hardware identification of a device, which nothing uses; IPv6, of
  which only the entries that are skipped remain.
* *Helpers*: joining symbols and regular expressions, which keep no state and appear as the two
  parts of a symbol.
* *Patch*: the sending of the report messages. The message that asks for the types passes no
  protocol to a handler that reads one; what it then reports is not modelled.
* *Universe*: label, enable flag and status, on which nothing in this module depends.
  `attr_dictionary_process` is taken to set attributes in the order of the
  dictionary. The setter of the unicast addresses has a second condition for symbols that
  can never hold, because both its symbols are the same.
* *Service*: one user interface object; names are reused between sessions, as Max's symbols
  are unique only within one; a start is atomic because nobody can reach the service
  before it is registered; Max detaches a freed object from its listeners. The
  `lx.config` message that removes a universe reads its key as a number and the table is keyed by symbols, so it
  removes nothing and is not an action. A preferences file that cannot be read is
  overwritten by the default table, as the code does.
* *Packets*: the CID, the name of the source, priority, options, vectors and the lengths of
  the outer layers, which no receiver reads; taking apart sync packets, which tests
  neither opcode nor vector; datagrams longer than the 1024 bytes of the buffer.
* *Not modelled*: the Art-Net and sACN protocol objects, `lx.dmx.read` and `lx.dmx.write`, which
  do nothing but subscribe at this commit; symbols and class registration, which are tables
  of names.

## Plan

1. *(done)* Buffer, its abstract frames, refinement and proofs.
2. *(done)* Universe record, life and proofs; service with its editors.
3. *(done)* The IO service with its owner, its life and its frames; proofs of its life and of
   the one frame.
4. *(done)* Addresses, packets and the link over UDP; broadcast addresses of an adapter.
   Left: sync packets.
5. *(done)* Helpers and the user interface's choices; quick patch; enumeration in both builds.
6. *(done)* Proofs: the refinement of `DmxFrames`; the service on one thread and on two; clone, reload,
   global interface and port of a universe; patches; the rows of the user interface; the lists of adapters and ports,
   what is found among them and the destinations of a universe.
7. Left: a caller's view of `DmxIoService` once the protocol objects do something, and sync packets.
