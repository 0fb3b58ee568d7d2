# A verification development for Ziqe

Ziqe runs the threads of one process on several machines.  `Base/` is its own
standard library (it has to run inside kernels), `Network/` its streams,
`Core/` the protocol between process instances, `Platforms/` the adapters to
the operating systems.  This directory models the parts that carry logic of
their own in TLA+, checks them with TLC on small instances, and proves most of
what the runs check with TLAPS for instances of any size.

`PROJECT.json` lists the components, the runs, the source lines of every
definition (`map`), a mutant for every checked property, the disagreements
found (`findings`), what is hard to test in the code (`hazards`) and the
theorems.

## Inventory

| component | state | operations | interacts with | what is hard | what makes it correct |
|---|---|---|---|---|---|
| linked list (`Base/LinkedList.hpp`) | nodes, `mBegin`, `mBeforeEnd`, `mSize` | emplace, insert, erase (node, range), pop, clear, copy, move, swap | under the hash table, the peers and the streams | loops that leave the list half linked; the two ends; null as `end()`; members without a value | pointers equal the intended sequence both ways; no leak; returned iterators are live |
| hash table (`Base/HashTable.hpp`) | `mTable` of iterators into one list of all entries | insert, operator[], insertOrAssign, find, count, erase (key, iterator, range) | linked list, vector | all hashes share one list; slots go stale | entries of a hash are contiguous; slots lead to the first of them; it is a map |
| ownership (`SharedPointer`, `UniquePointer`, `Callback`, `Vector`, `Expected`, `Optional`, `ScopedContainer`) | counts, buffers, a tag | construct, copy, move, swap, destroy | everywhere | long sequences of copies and moves | one owner, one destruction, the right type and contents |
| binary tree (`Base/RedBlackTree.hpp`) | nodes, head, two ends | insert, find, iterate | nothing yet | - | cannot be instantiated: not modelled |
| stream input (`Network/Stream.cpp`, `Base/FieldReader.hpp`) | current segment, queued segments, byte count | hasLength, operator[], increaseBegin | linked list, sockets | fields across segments, empty segments, exact ends | bytes in order, none lost or repeated |
| stream output (`ExtendedVector`, `FieldWriter`, UDP and TCP streams) | a vector and two unsigned indexes; number and flags of the next datagram | write, expand, createNewSegment, sync | socket, message stream | index arithmetic; automatic sends; loss, repeats and reorder | writes stay inside; a segment holds its writes; headers decode |
| sockets (`Base/Socket`, the C layers) | a handle | connect, bind, listen, accept, move, close, send, receive | kernel, streams, servers | calls that fail half-way or do part of the work | a socket has one owner; a receive takes what it asked for, packets whole; all bytes sent once |
| message protocol (`Core/Protocol`) | bytes of a stream | sendMessage, receiveMessage, ReadFrom | streams | byte orders; lengths from the network; refused types | what is read is what was sent |
| process peers (`Core/Common/ProcessPeers*`) | connections with reference counts, thread table, RWLock, a task per client | hello, goodbye, find, sendToAll, stop, continue, kill | hash table, linked list, streams | readers against the handler; messages out of order; a wait for an answer | counts exact; who announced threads is listed once while connected; no reader on an erased connection; goodbye reaches everyone; the wait ends (it does not) |
| global peers, peer lookup | a task, a proposed client | lookup, propose, accept | message streams | answers late, repeated or never | a call accepts one peer, which has proposed itself to the client |
| hosted threads | local threads, a task of each client | stop, continue, kill, system call | message streams | repeated and reordered requests | what was answered for a thread was done |
| locks (`RWLock`, `SpinLock`, `Mutex`) | a platform lock | scoped lock and unlock, move | peers, memory manager | release on every path, moves under a lock | mutual exclusion; one release of each native lock |
| user memory (`Platforms/Linux`) | pinned pages, mapped areas, map objects | map, fault, move, release | kernel, `Optional` | partial failure of the kernel's calls | what was pinned is given back once; a fault shows the right page |
| drivers and USB devices | driver, callback, devices | load, probe, disconnect, unload | kernel, libusb | callbacks of another thread | every arrival is told to an observer that is there (it is not) |
| IOKit service | command gate, clients | start, terminate, stop, setPowerState | IOKit's threads | calls that are not serialized | one conclusion and then one release of the gate |
| system call hook | the hook, the probe | initialise, pre-handler | other processors | calls during registration | there is always a hook to call |
| memory map and revisions, generated tables, macros | - | - | - | - | compiled out, empty or without state: not modelled |

## Modules

*Containers, one instance, in depth*

* `LinkedList` - the list as nodes in a heap, with stale pointers in the freed
  ones.  One action per operation; the range erase and `insertAfter` take one
  loop iteration per step (`op`, `it`, `stop`, `saved`, `beginHit`,
  `beforeEndHit` are their local variables).  `pos` is a history variable, the
  sequence the caller asked for.  `Spec` calls the range erase on the ranges it
  is written for (a node before and a node after, or everything through
  `clear`); `SpecAnyRange` calls it on any range.
* `LinkedListProofs` - its theorems.  `MCLinkedList` - the list for TLC.
* `HashTable` - extends `LinkedList`: `mKeysList` *is* that module's list, and
  `insert` and `erase` use its effects.  The range erase walks its range one
  entry per step before the list erases it.  `HSpec` erases the ranges the list's
  loop is written for (`ListRange`) that hold the first entry of one hash at most
  (`SafeRange`), because of the finding below; `HSpecAnyHashes` drops the second
  condition.
* `MultiHashTable` - the table whose keys have many entries, and the hash
  functions with their wrap-around.
* `MapSpec` - what the table promises: a map with insert, insertOrAssign and
  erase.  `HashTable` implements it, with the map its live entries form.
* `MCHashTable` - four keys, as strings of bytes that `Djb2` puts on two hashes,
  two on each; symmetry over nodes (they are only compared); the first state
  chooses the unique or the multi table.
* `HashTableProofs` - the theorems about both tables and the refinement.

*Value classes* (composed in `MCValues`, one class per behavior)

* `Pointers` - `UniquePointer`, `SharedPointer`, `WeakPointer` and the owning
  `Callback`s as slots over heap objects and reference objects.  `spoiled` are
  the objects whose count an assignment within one shared type or a weak pointer
  has touched: the code loses track of those.  The pointer that made an object
  keeps a null reference when it is copied, and deletes the object with itself.
* `Variants` - `Optional`, `TwoVariant` under `Expected`, and
  `MovableScopedContainer`: storage, status, and how often each value was
  destructed.  `lost` are the values a move abandons.
* `Vectors` - buffers of cells that are constructed or dead; `contents` is the
  sequence each vector stands for, `tainted` the vectors a broken operation
  (move assignment, expansion by nothing, copy assignment to itself, a shrink
  beyond the size) has left.
* `Lists` - `LinkedList` as a value: constructors, assignments, swap, destructor.

*Network* (composed in `MCNetwork`)

* `InputStream` - `InputStreamVector` under `FieldReader`; a byte is its arrival
  number.  The network is `receiveData`: any segment, empty too, or an error.
* `OutputStream` - `FieldWriter` over `ExtendedVector` with wrapping indexes,
  UDP's and TCP's segments, the datagram header as bytes, and `receiveData` of
  repeated, reordered and foreign datagrams.
* `Messages` - the layouts of `Message.hpp` as byte sequences through writer,
  framing, `receiveMessage` and `ReadFrom`, for either byte order of the reader.
  As written the array of ids cannot be instantiated (`readTVector` calls
  `readT ()` without its type, and `ReadFrom` tests a vector for being false); it
  is modelled as meant, with the test free to report a short message or not.
* `Sockets` - which `Socket` object holds which socket of the system.
* `Transfer` - a receive as its two kernel calls while packets arrive, from a
  datagram socket that keeps their boundaries or a stream that keeps none, and
  the sending loops over the results of the Linux and Posix layers.

*Core and platforms* (composed in `MCCore`, except the peers)

* `ProcessPeers` - the handler, the clients and the destructor as concurrent
  threads over `OtherServers`; one step per statement that touches shared
  state, with the RWLock explicit.  The thread table is the map that
  `HashTable` was shown to implement.  Peers send numbered hellos and goodbyes
  that the network loses, repeats and reorders; a peer may host no thread, and
  as nothing in the code enters a thread into `mProcessLocalThreads`, the hellos
  of such peers are the ones the code can send.  The constructor's own `sendHello`
  walks a list that is still empty and sends nothing.  A client calls again as
  often as it likes.  `connected`, `expected` and `disordered` are history
  variables.  `MCProcessPeers` - its constants: a peer of two threads, one of none.
* `PeerLookup` - clients and servers of the lookup, with the messages in flight.
* `HostedThreads` - the handlers on local threads, one statement per step, and
  `ThreadClient`'s loop.  The thread's methods are declared only: the model counts
  their calls and gives them no effect.
* `Locks` - lock objects, native locks and scoped locks, with moves of both.
* `UserMemory` - Linux map objects over pinned pages and mapped areas; `fate` is
  a history variable that names the path each `Create` took.
* `Drivers` - a driver with its `UsbDeviceManager`, on Linux and in user mode, in a
  run of its own.  `told` is a history variable: whom the observer has heard of.
* `IOService` - `ZqIOService`'s gate under unserialized calls: `start` by its
  statements, `tear_down` by its steps, each use of the gate as a second read of
  the member and then a run on what was read.
* `SystemCallHook` - the hook and the kprobe.

*Theorems* of the other modules are in `ProcessPeersProofs`, `NetworkProofs`
(`Sockets`, `Transfer`, `InputStream`, `OutputStream`, `Messages`), `ValuesProofs`
(`Pointers`, `Variants`, `Lists`, `Vectors`), `PeersProofs` (`PeerLookup`, `HostedThreads`), `LocksProofs` and
`PlatformProofs` (`SystemCallHook`, `IOService`, `UserMemory`); see *Proofs*.

The composing modules choose in the first state which class a behavior is about;
the others stay in their first state.  One run then checks each class over its
own states, without the product of all of them.

Definitions that stand before another one and do slightly less
(`DeleteUncounted`, `LockReadAlways`, ...) are the mutants of `PROJECT.json`; no
specification uses them.  The `TypeOK` of each module is there for its proofs.

## Runs

| run | expects | shows |
|---|---|---|
| `linked_list` | pass | four nodes, any sequence of calls: `ListInv`, `Linked`, `SizeIsCount`, `ReturnIsLive`, and `clear()` ends on an empty list (`ClearEmpties`) |
| `hash_table` | pass | contiguous entries, exact slots, exact `find`, the refinement of `MapSpec`; the multi table's `count` is exact unless another key of the hash has come |
| `process_peers` | pass | exact counts in an orderly network, no dangling iterators in a disorderly one, safe readers, a complete goodbye, and a lock that everyone who took it gives back (`LockGivenBack`) |
| `values` | pass | one owner and one deletion of every object (`OwnedOnce`), vectors that hold what was put in them (`VectorIsSequence`), values destructed once (`ConstructedOnce`) under the right type (`StatusTellsType`), lists that share no node |
| `network` | pass | bytes in order on input; output that stays in bounds until its indexes cross, holds its writes and decodes; numbers repeated only after a sync; messages read back; one owner per socket; whole packets; every byte sent once |
| `core` | pass | a call accepts one peer, that proposed itself to the client; requests are answered after they were done; scoped locks exclude; native locks, pinned pages and the gate are released once; the probe finds a hook |
| `list_erase_range` | violation | a range erase from `begin()` leaves a dangling `previous`, and the next `clear()` dereferences null before its assertion `size() == 0` |
| `hash_erase_range` | violation | a range over two hashes leaves an iterator to an erased entry in `mTable` |
| `peers_task` | violation | a client never returns although the answer has arrived |
| `lookup_retry` | violation | a lookup that is lost is never sent again |
| `shared_pointer` | violation | a move assignment between two pointers of one object deletes it, and one of them still points to it |
| `device_notifications` | violation | a device that is probed while the Linux module unloads is reported to an observer that is deleted already |

Bounds.  Four list nodes give ranges with a node before, inside and after them,
and reuse of freed addresses.  Three entries over four keys and two hashes give
two mini-lists, one of them of two entries, in any position.  In `values`, two
variables of each class and two or three values give every pairing of a source
and a target, the same variable as both included, and one more object than a
variable can hold; `MaxSlots`, `MaxCount` and `MaxSize` bound pointers, counts and
vectors, and a size has five values (`SizeValues`), so that it wraps.  In `network`, fields of up to four bytes
over segments of up to three make a field span three segments, empty ones
included (`MaxSegment`, `MaxBytes`, `MaxQueue`); a byte has four values so that
a field of two or four bytes carries over; three segments (`MaxSent`) contain a
full one, a synced one and its successor; `AutoSendSizes` is the uninitialised
size: none, small and never reached.  A packet of zero to two bytes, three
arrivals and four sends split an array in every way (`MaxPacket`, `MaxArrived`,
`DataSize`, `MaxSends`).  In `process_peers` one peer has two threads, so that a
goodbye takes two rounds of its loop, and joins twice, so that addresses are
reused; the other has none and joins once; one datagram may be repeated, any may be lost
(`MaxSent`, `MaxRepeats`).  In `core`, two lookups of two clients (`MaxRuns`)
make a call after a completed one; three guards on two locks and three natives
make a waiting third and a moved lock; the ranges start and end inside pages;
three threads are the two that race for the gate and one more.  The runs that
expect a violation are as small as their traces.

Deadlock checking is off where the system may stop: after the bytes, messages or
events of a bound, after a null dereference, or in a state in which every
variable is destroyed.

Fairness.  `LinkedList`: a call that has started its loop finishes it (one
caller, no blocking).  `ProcessPeers`: each thread keeps running; nothing is
assumed of the network, of who calls, or of the order in which the lock is
granted.  `LockGivenBack` therefore says that whoever has the lock gives it back,
and not that whoever waits gets it: readers that overlap for ever keep a writer
out, and neither the code nor the model excludes that.
`TaskCompletes` is refuted under the same fairness.  `PeerLookup`'s `FairSpec`:
the client's and the servers' loops, which never pause, keep receiving what is
in flight; losing a message is not forced and not forbidden.

## Proofs

Every theorem below is about a module's own specification with its constants
left open: any number of nodes, keys, peers, segments or threads.  Each follows
one argument: an inductive invariant, one lemma per action or loop step that
keeps it, a lemma `...Next` or `...Step` that collects them, and the property as a
consequence.  TLC checked every inductive invariant on the run's instance first.

| module | theorems (the property) | inductive invariant |
|---|---|---|
| `LinkedListProofs` | `ListInvariant` (`ListInv`), `ListLinked` (`Linked`), `ListSize` (`SizeIsCount`), `ListReturn` (`ReturnIsLive`) | `ListInv` |
| `HashTableProofs` | `HashInvariant`, `AlwaysContiguous` (`Contiguous`), `TableAlwaysOK` (`TableOK`), `FindAlwaysExact` (`FindIsExact`), `CountAlwaysExact` (`CountIsExact`), `TableImplementsMap` (`ImplementsMap`) | `HashInv`, and `UniqueKeys` for the unique table |
| `ProcessPeersProofs` | `RefCountAlwaysExact` (`RefCountExact`), `CountAlwaysCoversThreads` (`CountCoversThreads`), `ReadAlwaysCurrent` (`ReadIsCurrent`), `CrashAlwaysNeedsDisorder` (`CrashNeedsDisorder`), `GoodbyeAlwaysReachesAll` (`GoodbyeReachesAll`) | `AllInv` |
| `NetworkProofs` | `BytesAlwaysInOrder` (`BytesInOrder`), `CrashAlwaysDrained` (`CrashOnlyWhenDrained`), `PacketsAlwaysWhole` (`PacketsWhole`), `AlwaysSendsAll` (`SendsAll`), `SocketsAlwaysOwned` (`SocketsOwned`), `OutputAlwaysInBounds` (`WritesInBounds`), `OutputAlwaysHoldsWrites` (`SegmentHoldsWrites`), `NumbersAlwaysRepeatAfterSync` (`NumbersRepeatAfterSync`), `HeadersAlwaysDecode` (`HeaderDecodes`), `MessagesAlwaysReadBack` (`MessagesReadBack`) | `InputInv`, `PacketInv`, `SendInv`, `SocketInv`, `OutInv`, `MessageInv` |
| `PeersProofs` | `AlwaysAcceptsOneProposer` (`AcceptsOneProposer`), `AnsweredAlwaysDone` (`AnsweredWasDone`) | `LookupInv`, `HostInv` |
| `LocksProofs` | `NativeAlwaysOwnedOnce` (`NativeOwnedOnce`), `GuardsAlwaysExclude` (`GuardsExclude`) | `OwnInv`, `GuardInv` |
| `ValuesProofs` | `ObjectsAlwaysOwnedOnce` (`OwnedOnce`), `AlwaysConstructedOnce` (`ConstructedOnce`), `StatusAlwaysTellsType` (`StatusTellsType`), `ListsAlwaysKeepNodes` (`ListsKeepNodes`), `VectorsAlwaysSequences` (`VectorIsSequence`) | `PointerInv`, `ConstructInv`, `TypeInv`, `ListsInv`, `VectorsInv` |
| `PlatformProofs` | `HookAlwaysFound` (`HookFound`), `GateAlwaysReleasedOnce` (`GateReleasedOnce`), `MapsAlwaysReleasedOnce` (`MapsReleasedOnce`) | `HookInv`, `GateInv`, `MapsInv` |

**The list.**  `Linked` alone is not inductive: it says nothing in the middle of
a loop.  `ListInv` adds what the loops keep.  At every step all links are right
except the one across the loop's gap: from `savedCurrentPrevious` to the
iterator in the range erase, from `self` to `previousNext` in `insertAfter`
(`LinkedButGap`); `EraseLoop` and `InsertAfterLoop` say where the two sides of
the gap stand, which is what the statement that closes it relies on.
`Positions` makes the history variable a numbering of the live nodes.

**The hash table** stands on `ListInv`: its proofs use the list's lemmas for the
effects on the list, for both tables at once.  While a range is erased some
entries are still on the list and already forgotten by `mTable`; `HashInv`
therefore says where a slot leads among the entries that stay (`Staying`), and
`ScanInv` what the loop before the erasure has passed.  `Contiguous` is needed
because a slot is updated from the list neighbour of an erased entry, which has
the same hash only if the hash's entries stand together.  The refinement maps
the table to the map its live entries form; a range erase takes one key out of
the map with each entry the list deletes, and its other steps stutter.

**The peers.**  The counts are exact only outside of the handler's critical
section and in order.  In the middle, `ThreadsCounted` and `Due` say which
threads the running hello or goodbye has counted so far (`ExactInv`,
`CoverInv`); `OrderInv` connects the parity of a peer's message numbers to its
being connected, which is what "no disorder" gives.  `LockInv` ties the lock to
the program counters, so a reader's iterator (`CopyInv`) and the destructor's
walk (`WalkInv`) are not disturbed while they hold it.

**The network.**  `InputInv` names, for each segment, the offset at which it
starts in the bytes that arrived; the proof adds, drops or shortens offsets.
That `FlattenSeq` of such segments is one run of bytes (`FlattenSegments`) is
shown through the least index at which the recursive function of its definition
would differ.  `PacketInv` says that the buffer fits the first datagram,
unless the receiver was already waiting with none; of a stream, that it is no larger
than what is queued: the two kernel calls are not atomic, and this is all that
another packet can do between them.  `SendInv` holds the wire against `bytesSent`,
as far as the uninitialised count of a failed call allows.

**The output.**  `OutInv` takes the two properties of the bytes together: while no
field went outside, the begin index is the number of bytes written and the vector
starts with them (`OutHolds`).  Expanding keeps this whether it grows the vector,
sends the segment or does neither, which the lemmas about the wrapping `size()`
and `expand` work out (`SizeIs`, `ExpandIs`).  For a datagram it says more: the
header is all there ever is (`OutUdp`), for behind it the indexes have crossed,
`size()` is huge, and the vector never grows.  `OutNumbers` adds that the number is
that of the segments sent as long as each was full.  `OutHeaders` holds every
datagram against the digits of its message; the fold of `readT` over two bytes
is unfolded over the four sets of indexes it meets (`ReadTwoBytes`).

**The messages.**  `MessageInv` has three cases while nothing was cut or rejected:
all is read, the last message has arrived whole, or its body is left; the last
case is reached only by the reader that agrees with the writer, without a
datagram's header in front (`TypeRead`).  That a field of any size is read back as
the number that was written is an induction over its bytes: the function the
fold iterates exists for any number of indexes (`NumberExists`), its value on the
first k bytes is the number divided by 256 as often as there are bytes left
(`NumberIs`, `DivideTwice`, `NumberBack`).  In the same way `FlattenSeq` of the
ids' bytes has each byte at its place (`FlattenBlocks`), so that `readTVector`
gets the ids that `writeT` was given (`VectorBack`).

**Several lists.**  `ListsInv` says of every list, made or not, that the chain of its
first node has no node twice, the elements the list stands for, its end as the
last one and its length as the size (`ListOK`), that no cell is on two chains, and
that the allocated cells are the ones on a chain.  A copy finds enough cells that
are free (`FreeCells`); swaps and moves keep the invariant because both ends go
with the chain.  Sizes are counted modulo `SizeValues`, and no chain is that long,
as each node takes a cell (`ShortLists`).

**The vectors.**  Of a vector that an operation has broken (`tainted`) `VectorsInv`
claims only that its buffer is allocated and no other vector's: this is why its
later operations do not disturb the sound ones.  What an operation does to the
memory of one vector is shown first, for a record of its pointer, its size and the
heap (`Backed`), and then put back among the others (`VecStep`).

**User memory.**  `MapsInv` says what each context owns by its fate: all that its
`Create` pinned until it is released, or nothing.  That a fault at any offset shows
the page of that byte is a lemma about division by any page size (`PageOfSum`).

**The others.**  `OwnInv`, `SocketInv`, `PointerInv` and `ConstructInv` have
the same shape: a resource is not made yet, held by exactly one object, given
back once, or recorded as lost.  `GuardInv` adds that the native lock is taken
as the scoped locks say.  `GateInv` counts the threads between the swap of the
gate and its release (there is one at most), and says how far each of them has
come with its conclusion and release.  `LookupInv` says of a task that is complete
that its peer proposed itself to the client's first call and was accepted by each
call that has ended; `HostInv` that a handler that rejects has no thread, so that
the answers for a thread stay behind its calls.

Assumptions.  They are the named `ASSUME`s, and TLC evaluates each on a run.
Markers such as null, "no address" or the invalid handle are not among the
values they are told apart from, and bounds are naturals.  Beyond that: the
table's slots are finitely many (`SlotAssumption`; `mTable` is a vector); a peer's
threads are listed once each, and no thread belongs to two peers
(`HostsAssumption`, `HostsApart`; a `HostedThreadID` names one thread of one
host), while a peer may host none; the
boxes of different classes are different objects (`VariantsBoxAssumption`); an
array that is sent has a byte and there is a host to talk to
(`TransferAssumption`); the cells of the lists are finitely many and fewer than
`SizeType` has values, as each takes memory (`ListsAssumption`); a vector with room for a header
and one more field does not take all the memory a `SizeType` can count
(`OutputAssumption`); the flag of a header fits its field (`HeaderAssumption`); a
thread id is a number of `IDSize` bytes, and an array of ids has fewer than
65536, as its size is written in two bytes and the code does not test it
(`MessageAssumption`).  The provers know nothing of `^`: the equations that define the
powers the models use are part of the last two assumptions.

Induction over data.  A fold or a recursive function is a choice of a function that
satisfies its equation.  The library's induction theorems cannot be used for it, as
they take an operator as parameter.  The proofs use sets instead: a set of
naturals that is not empty has a least element (`LeastNatural`), so a set of
counterexamples without one is empty.  That the function exists at all needs
the same argument, and is what the lemmas `...Exists` are for.

Only model-checked: `ClearEmpties` and `LockGivenBack`, which are liveness, out of the
prover's reach, and the properties that a run shows to be violated.  Every safety
property of a passing run is a theorem.

## What the runs found

The six `findings` of `PROJECT.json`: the range erase of the list at its ends,
the range erase of the hash table over several hashes, the blocking calls of
`ProcessPeersClient`, the lookup without its retry, the shared pointer that is
deleted under its copies, and the USB observer that is deleted before the devices
stop coming.

Others show as exceptions a property has to make.  Where a history variable is
named, the property sets the case aside and does not catch it:

* `increaseBegin(mVectorsSize)` dereferences null although its assertion allows
  it (`CrashOnlyWhenDrained`); `erase` of the last list node returns the node
  before it, not `++iterator` as documented (`EraseResult`).
* Assignment of shared pointers and weak pointers lose the count (`spoiled`);
  a moved-from list has no size (`unsized`); a vector assigned by move, also onto
  itself, keeps or hands over the buffer it deleted (`tainted`).
* Moving an `Expected` that holds an error leaves both without a status, and its
  value with nobody (`lost`).
* `ExtendedVector`'s indexes cross when a segment is created (`crossed`), and an
  automatic send takes the place of an expansion (`flushed`).
* `LittleEndianFieldWriter` is an alias of the big-endian writer: a `MessageStream`
  without datagrams reads its own types in the wrong order (`desynced`).
* A socket that fails to connect is never closed (`leaked`); the Posix results are
  inverted, so that there a failed socket is returned (`ReadyOnLinux`); a receive
  that begins before its packet arrives loses it and reports a disconnection
  (`r.asked > 0` in `PacketsWhole`).
* The connection of a peer whose hello named no thread stays when the peer has
  gone (`Announcing`).
* A second `runThread` accepts the peer that answered the first; the second
  conjunct of `AcceptsOneProposer` holds, the first allows it.
* A request for an unknown thread is answered, and then a method of nullptr is
  called (`CallNoThread`); a hosted thread's client waits for an answer without
  end (`Core/Host/ThreadClient.hpp` 89).
* The multi table splits the entries of a key (`CountIsExact`).
* User memory, all in `fate`: an optional that was move assigned releases its map
  twice; a pin of no page and an error of `vm_mmap` are reported as `ZQ_E_OK`; a
  failing `vmap` keeps its pages.  The count of pages misses the last page of a
  range (`PagesCount`).
* A spin lock that was not moved from is never granted (`Locks`); a lock object
  moved under its scoped lock (`disturbed`) defeats the exclusion.
* In user mode one USB device that cannot be opened ends the notifications of the
  others (`LibusbCallback`).
* The IOKit service reads the gate again after testing it and runs on what it
  read, which may be null or released by then (`misuse`); `PMstop` is also called
  by a thread that lost the gate, while the winner concludes (`PowerOff`); `init`
  and `start` load, and `free` unloads once (`loads`).

## Abstractions to keep in mind

* `Core/` and `Network/` are not part of the build files, and some of their
  calls do not match `Base/` any more; the models take them as written.
* `ProcessPeersServer::onMessageReceived` selects a case and calls nothing; the
  models call the handlers for their messages.
* `IsValidMessageType` accepts nothing ("TODO"); `Messages` and `PeerLookup`
  check that and the enumeration's types.
* The members of a destroyed `ProcessPeersServer` stay in place in the model:
  its destructor ends with the goodbye.
* `ZQ_ASSERT` logs; it stops nothing, and no guard is taken from it.
* A member that a constructor leaves without a value may have any (`mSize` of a
  moved list, `mAutoSendDataSize`, a context's protection).
* Undefined behaviour ends a behavior (`stopped`, `crashed`) except a write
  outside of the output vector, after which a release build goes on (`overran`).
* The kernel, libusb and IOKit are modelled from how the code uses them
  (`external` in the map).

## Not modelled

* Compiled out, empty or declared only: `MemoryMap`, `MemoryRevision*`,
  `MemoryRevisionTree`, `RangesMap`, the Core `Process`, `Thread`,
  `ThreadManager` and `ThreadServer`, `Platforms/Posix/Memory.c`, `main.cpp`,
  `MainDriver.cpp`, the WDK drafts.
* Code that cannot be compiled once used: the per-client stream of `UdpServer`
  (`UdpServer.cpp` 49-105), `BinaryTree` and `RedBlackTree` (`findNode` calls
  `getKey` on a pointer to a pointer and compares through an undeclared `mCompare`;
  `erase` is a stub; nothing instantiates them), the body of the system call message
  (`ReadFrom` drops the array it read, the writer calls a `write` that does not
  exist), `Vector`'s take-over of a unique array, `Atomic`, `reset()` and `lock()` of shared and weak
  pointers, the IOKit ioctl, property and `each_client` templates.
* Code without state: `Tuple`, `Array`, `DummyPointer`, macros, logging, type
  traits, the generated system call lists, socket options and addresses.
* Code nothing calls: `MessageWithThreadInfo`, the memory manager's write lock
  (whose unlock locks again, `Memory.c` 174), the Posix receive functions, which
  have other parameters than their caller passes.

## Plan

The modelling stands as planned, and every invariant and refinement that a
passing run checks is proved for all values of the constants.  What is left:

1. The destruction of the members of `ProcessPeersServer` and `ProcessPeersClient`,
   once the code says which of the two objects lives longer.
2. The parts under *Not modelled*, when they compile.
