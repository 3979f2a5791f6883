# A verification project for Nuqe

Nuqe is an MTP responder for a game console: a homebrew program that lets a
computer, connected by USB, browse and change the files of the SD card and of
the user partition.  This directory holds TLA+ models of it, the TLC
configurations that check them on small instances, and theorems about the
models that TLAPS checks for every value of the constants.  Source paths below
are relative to the repository's root.

Contents: 1 inventory; 2 the modules and how they correspond to the code;
3 runs, bounds and fairness; 4 where code and comments disagree; 5 proofs;
6 what is assumed of the environment; 7 what is not modelled; 8 plan.

## 1. Inventory

The program has three threads. `main` registers the storages, initialises USB and
serves one request after another; the *exit thread* waits for the + button; the
*state thread* follows the system's reports about the cable.  All state of the
object database belongs to `main`; the threads share `g_state`, `should_exit`,
`g_state_thread_should_exit`, the system's event and the endpoints.

| Component | State | Operations | Interacts with |
|---|---|---|---|
| `Storage`, `StorageManager`, `Object` (`src/mtp_storage.*`, `src/mtp_object.*`) | `objects`, `known_paths`, `Object::s_handle` | `cache_directory`, list, property list, send info/data, delete, move, copy, rename | called by Server; calls Filesystem |
| `Filesystem`, `Directory`, `File` (`src/fs.hpp`) | none of its own: the console's file systems | open, list, create, delete, rename, `copy_file`, read, write | called by Storage and by the streams |
| `Server` (`src/mtp_server.*`) | `last_sent_storage`, `last_sent_object` | `process`, one handler per operation code | packets on one side, StorageManager on the other |
| Data streaming (`src/mtp_packet.cpp`, `src/usb.hpp`) | two half-buffers per endpoint and their index | `stream_to_file`, `stream_from_file`, double-buffer begin/wait/swap | File and the endpoints |
| Packets and codecs (`src/mtp_packet.hpp`, `src/mtp_types.hpp`) | a byte buffer | push, pop, headers, strings, arrays, dates | Server |
| USB device and state thread (`src/usb.*`) | `g_state`, endpoints, `g_state_thread` | `initialize`, `finalize`, `cancel`, `begin_xfer`, `wait_xfer`, `state_change_func` | main, exit thread, the system's usb:ds |
| Main and exit thread (`src/main.cpp`) | `should_exit` | main loop, `exit_thread_func` | Server, USB |
| Properties, codes, errors (`src/mtp_properties.*`, `src/mtp_codes.hpp`, `src/error.hpp`, `src/utils.hpp`) | none | constant tables, macros | everybody |

What is hard in each, and what would make it right:

* **Object database.** Five operations update `objects` and `known_paths`, each
  differently; moves, renames and deletions update only one of the two; failures
  half-way are not undone; two storages draw handles from one counter;
  `find_handle` takes the first storage that knows a handle; parent pointers are
  raw.  Right means: a path that is found again leads to a live object, a handle
  never comes to mean a second object, parents can be followed, and what the
  server keeps between SendObjectInfo and SendObject stays valid.
* **Streams.** The endpoint fills (or empties) one half of a buffer while the
  thread writes (or reads) the other; sizes are unsigned and are not those of
  the file; a transfer that fills its buffer is followed by a null packet.  Right
  means: no half is used by both, no block is lost, repeated or misplaced, success
  means completeness, and the thread gets back to its next request.
* **USB life cycle.** Flags, events and a session shared by three threads, and
  waits without a timeout.  Right means: nobody uses the device before it is there or after
  it is gone, pressing + ends the program, a connected host is noticed.
* **Transactions.** Endpoints have no memory and no framing: a handler that does
  not take all of the host's data leaves the rest to be read as the next command.
  Right means: every transaction is answered once, in turn, and an OK means
  that all of its data has been passed on.
* **Datasets.** Nineteen members are listed in the same order in three places, the type of
  a property in four; strings have a count of eight bits; what is sent may come short.
  Right means: a host that reads by the standard's types gets to the end of the data and finds there
  what the object says, whatever it asked, and what is announced is answered.

`PROJECT.json` lists the hazards one by one, at the line where each bites.

## 2. Modules

| Module | Models | State and actions |
|---|---|---|
| `Filesystem` | the file system through `fs.hpp` | constant operators on a map from paths to kinds; paths are sequences of tokens, so concatenating two of them is what `std::string` does, a lost slash included |
| `HandleRegistry` | nothing in the code: the abstract promise | `last`, `kinds`, `names`; `Issue(s)` issues handles for objects of one storage |
| `MtpStorage` | Storage, StorageManager and the Server handlers above them | `fs`, `objects`, `known_paths`, `s_handle`, `last_sent`, `response`; one action per request, whole: Server method, Storage method, file system calls, and the half-done outcomes of failures |
| `StreamToFile` | `DataPacket::stream_to_file` | one step per transfer posted, transfer waited for and block written; the endpoint fills the posted half packet by packet in between |
| `StreamFromFile` | `DataPacket::stream_from_file` | the same the other way: the endpoint empties the posted half byte by byte while the thread reads ahead |
| `UsbLifecycle` | the three threads and the device | a program counter per thread; one step per access to something shared |
| `MtpTransaction` | `Server::process` and the data phases of the handlers | command, data and response of each class of operations, transfer by transfer, with the null packets that end data |
| `MtpCodec` | push and pop of `mtp_packet.hpp`, the types of `mtp_types.hpp`, the string conversions of `utils.hpp` | constant operators on buffers, which are sequences of fields of a width and a value |
| `MtpDataset` | what is pushed and popped: `ObjectInfo`, properties and their descriptions, device and storage information, lists; `DataPacket::send` and `receive` | one object, its directory entry, a packet and the transfers that carry it chunk by chunk |
| `MtpStorageProofs`, `StreamToFileProofs`, `StreamFromFileProofs`, `UsbLifecycleProofs`, `MtpTransactionProofs`, `MtpCodecProofs`, `MtpDatasetProofs` | theorems about the module of that name | |
| `NumberProofs` | nothing in the code: induction and recursion on numbers, for the proofs | |
| `MCStorage`, `MCStreamToFile`, `MCStreamFromFile`, `MCUsbLifecycle`, `MCTransaction`, `MCDataset` | the instances TLC checks | |

Points of correspondence that are not obvious:

* **Requests are atomic in `MtpStorage`.** They are served one at a time by one
  thread and share nothing with the others, so nothing can come in between.  A
  failure half-way through is a disjunct of the action, with the state the
  early return leaves behind.
* **`CacheDirectory`** registers what a listing finds. `Found` is what the
  directories hold, keyed as the code does (the directory's *recorded* path followed by the
  name); `Below` is the recursion of `cache_directory`, written as a recursive function over
  levels. The order in which entries get their handles is the file system's, so
  any. The recursive call passes the address of a local copy, so what it registers has
  the parent `Dangling`; a read through such a pointer may give any string there
  is (`ParentPaths`).
* **`CopyFileSucceeds`** is what `fs.hpp:164` computes, with `||` between two `Result`s.
* **`displaced`** is a history variable: the objects whose path a request has rewritten.
  Path properties are stated of the others, as the code keeps no relation between
  `known_paths` and the paths of moved objects.
* **The streams** count packets (or bytes) instead of holding them; packet *i* of the
  object is the number *i*, so a misplaced one shows. `size` and `offset` are taken modulo
  `SizeMod`, as a `size_t` is. A failed write or read is only logged, as in the
  code, and recorded in the history variable `intact`.
* **`UsbLifecycle`** reduces a request to its transfers, of which it may have
  `MaxTransfers + 1`; a cancelled transfer has carried nothing and ends the
  request, except in `stream_to_file`, which posts one more: `WaitXfer` allows both. When a transfer cannot
  be begun, the request ends if it is its own that could not be received; later `process` goes on to send the response
  (`BeginXfer`).
  A use of the device where there is none sets `fault`, and the program has stopped.
  `signalled` are the completion events of the endpoints and `abandoned` the endpoints with transfers
  that nobody waits for: `wait_xfer` returns early when a report cannot be read (`usb.cpp:260`), without
  clearing the event, so the next wait returns at once, finds its own transfer incomplete, and leaves it behind
  in turn. `WaitXfer` has both outcomes whenever the event is signalled.
* **`MtpTransaction`** has no faults and no wrong lengths, which are the subject
  of the stream modules. `listens` distinguishes hosts that notice an early error response
  while they still send from those that do not. A `full` command has data whose last transfer fills its last
  packet, so that it needs a null packet to end; `zlt` says whether the in endpoint adds one. `DataPacket::receive`
  does not take the host's null packet (`mtp_packet.cpp:10`); `process` does, as a request that is too short.
  An operation the server does not know may be one without data or, as `SetDevicePropValue` is, one whose data the
  host sends (`UnknownData`): it is refused before any of it is read. `TakeResponse` lets a host that is told of an error drop its data, or
  all of it but the null packet that ends it.
* **`MtpCodec`** does not look into fields. A reader who expects another width than was written gets
  `Garbage` from there on, which is how a shift of the data shows. The count of a string is taken modulo
  `ByteSize`, and exactly as many units as it says are pushed; `to_utf8` cuts units to bytes, `to_utf16` widens
  bytes, and the file system gets the characters up to the first terminator.
* **`Read`** reads a dataset member by member, as a recursive function over the types
  of its members; an `ELEMENT` is one of a property list, whose value has the type the element itself announces. The
  host's readings (`HostReads`) and the server's own of an `ObjectInfo` (`PopInfo`) are both of this form.
* **`MtpDataset`** leaves to `MtpStorage` where objects are. Its handlers make the
  whole dataset, then send a header and chunks of at most `Chunk` fields, any of which may fail or come short by one.
  After a chunk has been copied into the endpoint's buffer, `buf` points behind the copy (`usb.cpp:275`), so what
  a second chunk would carry is `Garbage`. A file has two different dates, a folder and a file whose path leads
  nowhere the zeroes of `get_timestamp`. A request that renames or creates may fail in the file system without
  saying so (`kept`), and the program may be started again (`Relist`).

The modules with runs state their properties at their end. Definitions such as
`ReusedHandle` or `SameBuffer`, next to the operator they resemble, are the
operator as a plausible mistake would have it; no action uses them. They are there to be put in its place
(`mutants` in `PROJECT.json`), when the property named there must fail.

## 3. Runs

`tlc -config X.cfg M` with the module given; the two storage runs take one to two and a half minutes each with two workers, the others seconds.

| Run (`.cfg`) | Module | Question | Outcome |
|---|---|---|---|
| `StorageTree` | `MCStorage` | does the database stay consistent under any order of requests, and implement `HandleRegistry`? | holds |
| `StorageTwo` | `MCStorage` | do two storages, listed one and two levels deep, ever share a handle, and what does a parent that the host made up do to the others? | holds: never; nothing |
| `StreamToFile` | `MCStreamToFile` | is an object received completely and in place, with the half written never being filled, whatever the host sends? | holds |
| `StreamFromFile` | `MCStreamFromFile` | does the host get the file, in order, for any part and length; exactly, when the part ends with the file? | holds |
| `UsbLifecycle` | `MCUsbLifecycle` | do three threads and a host that uses the device come to a clean end after +? | holds |
| `Transactions` | `MCTransaction` | is every transaction answered, in turn, with its data and the end of its data? | holds |
| `Datasets` | `MCDataset` | can a host read all it is sent, do all answers about an object agree, does a name come back? | holds |
| `CopyRefused`, `DanglingParent` | `MCStorage` | see section 4 | violated |
| `PartialObject` | `MCStreamFromFile` | see section 4 | violated |
| `SilentHost`, `LostWakeUp` | `MCUsbLifecycle` | see section 4 | violated |

What the properties say:

* `KnownPathsResolve`: what a path is looked up as has an object under that handle.
  `HandlesUnique`: two paths have two handles. `OneStoragePerHandle`: the order
  in which `find_handle` searches does not matter, except for a handle the host made up. `RegisteredPathAgrees`,
  `PathsFollowParents`: until displaced, objects are where they are known to be and below their
  parents. `ParentsLeadToRoot`: following parents terminates at the root.
  `LastSentLives`: SendObject never writes through a stale handle. `RegistrySpec`:
  all of this seen from the host: handles are issued once and keep their meaning.
* `WrittenHalfIsIdle`, `BlocksInPlace`, `HostGetsFile`: double buffering works.
  `SuccessIsComplete`: success means that all that was announced is there, whatever the host sent; if it sent what it
  announced, also that the pipe is empty. `SuccessIsExact`: success means that the host has what it asked for and at most a chunk
  more, for any part of a file of any length; nothing more if the part ends with the file. Both stay true when `size` wraps, as a
  size that has wrapped does not get to zero. `Returns`: the thread gets back to the next request, if the host sends what it
  announced, or asked for a part that ends with the file.
* `DeviceThereWhenUsed`, `EndsClean`, `FinalizedIsFinal`, `PressToExit`: see their comments.
  `BlockedOnItsOwn`: however many waits have failed before, main never blocks behind a transfer it has left behind.
* `RequestsAreCommands`, `AnsweredInTurn`, `OkIsComplete`, `Answered`: no handler leaves data behind, a null packet
  that nobody asked for included. `Answered` leaves out the hosts of `HostWaits`: those that do not listen while they send an
  object, data for an operation that is not known, or an update that ends with a null packet, and the server answers first. Both then wait for ever.
  `AskedAgainEnds`: `DataPacket::send` sets the endpoint's zlt only after the data
  (`mtp_packet.cpp:21`), so the first data that needs an end has none, and so has the first after a file; the query
  after one that went well has its end.
* `SuccessIsDelivered`: OK means that all data has been taken. `DatasetsAlign`: all data can be read to its end by the
  types it announces, for names too long for their count as well. `AnswersAgree`: `GetObjectInfo`, the single properties and the
  property lists say the same of an object. `AnnouncedIsAnswered`: every operation, property and format
  that is announced is answered, and a list of all properties has exactly those announced for the format. `NameComesBack`: a name the
  host gave is the name it gets. The exceptions stated in them are those of the code: data longer than the endpoint's
  buffer, sizes of 2^32 and more in `ObjectInfo`, names whose count has wrapped, formats that are not
  announced, and, after a restart, names that are not of single bytes.

**Bounds.**

* *Storage.* `MaxChanges` 3 (2 with two storages) bounds requests other than listings; listings, property lists and
  SendObject are unbounded. Three changes allow, for instance, delete – send
  again – move, or move – list – delete. `MaxHandle` 4 exceeds the two or three entries there
  are, so handles are given out by listings *and* by requests. `MaxPath` 6 leaves room
  for a name below the nested file. One name the host sends, the one the file has
  already, makes every creation and rename a possible collision. `RootHandle` 100 only has to differ
  from the others. A folder with a file in it, and beside it (in the second storage) a flat file, are the smallest trees in
  which a parent can be moved from under a child, and in which two storages use the
  same path. Depths 0 and 1 are the host `ParentsLeadToRoot` is stated for; two levels are
  checked by `StorageTwo`. Its `StrayHandles` is {3}, a handle that nobody has when the host first names it as a parent and that the counter may
  give out later, in either storage. The theorems of section 5 have no such bounds.
* *Streams.* `Chunk` 3 with sizes 0 to 13 covers none, one, several and more than
  two rounds of both halves, exact multiples of the chunk and both neighbours; the excess is -2 to 2.
  `SizeMod` is larger than any size plus a chunk, so that a size that has wrapped is told from one that has not, and a
  multiple of the chunk, as 2^64 is of 4 MiB: subtracting chunks from a wrapped size reaches zero here exactly if it does there.
* *Life cycle.* Two transfers after the first: one that continues and one that ends the
  request. Everything else is finite as it is.
* *Datasets.* A byte has four values, so a name of three characters makes its count wrap to 0 and one of four to 1, and 5 and 4
  are characters that `to_utf8` cuts to another and to a terminator. `WordSize` 4 puts a size below and above
  2^32. `Chunk` 44 fields is less than the longest list and more than the rest, so that data is sent in one chunk, in two,
  and short of either. One object and a fixed folder are all that lists need for two elements to follow one another.
* *Transactions.* Three transactions of up to three transfers of data after the header:
  what a first leaves behind may be read in a second while the third is sent.

**Fairness.** The threads are scheduled (`WF` of each thread). The endpoint and the host are
weakly fair where a property says "if the host goes on": `Endpoint` in the streams, `Host` in
`MtpTransaction`. In `UsbLifecycle`, `Spec` assumes only the threads,
as neither the code nor the system makes the host do anything; `ServedSpec` adds a host that
reacts to a waiting transfer, and `PressToExit` holds only with it (that is `SilentHost`). Nobody has to press +.
Deadlock is not checked (`CHECK_DEADLOCK FALSE`) as all systems here may stop: the host may have no
more requests within the bounds, a stream ends, the program ends.

## 4. Where the code and what is said of it disagree

Each is a run that TLC must find violated; `PROJECT.json` quotes the lines.

* `CopyRefused`: `fs.hpp:164` joins two results by `||`. A copy whose
  source *can* be opened is answered `Store_Not_Available`, the answer to a copy between
  storages, and leaves an empty file.
* `DanglingParent`: `mtp_storage.cpp:97` hands the address of a local to the recursion, which keeps it as
  the parent of what it registers. Lists two levels deep read it later.
* `PartialObject`: `stream_from_file` sends whole chunks and subtracts them from the size asked for; a part that ends
  before the file does makes the size wrap, and the request never ends.
* `SilentHost`: the exit thread cancels first and sets the flag second. `main` may look at the flag
  and post the next transfer in between; if the host is silent, nothing wakes it up.
* `LostWakeUp`: `usb.cpp:199` clears the event even if it was not signalled when it was looked at. A change
  in between is lost.

Other observations made while modelling, which no comment contradicts and no run is
about, are among the hazards: failed moves that leave an object pointing at another's
file, the read-only user partition (`main.cpp:69`) to which requests write, the `send` of
packets longer than a buffer (`usb.cpp:275`), zlt set after the data it is for (`mtp_packet.cpp:21`), the host and
the server that wait for one another after an early error (`HostWaits`), names that do not survive a restart,
`cancel` after a failed initialisation. The models contain the states in question where they say so.

## 5. Proofs

All are checked by `tlapm` for every value of the constants. Each `*Proofs` module proves that an inductive
invariant (`IInv`, conjoined from named parts) holds initially and is kept by every
action, one lemma per action, and derives the properties. Every invariant that a passing run checks, the
refinement and the action property of the life cycle are theorems.

| Theorem | Says |
|---|---|
| `MtpStorageProofs!TypeCorrect`, `KnownPathsAlwaysResolve`, `HandlesAlwaysUnique`, `LastSentAlwaysLives` | `Spec => []P` for `TypeOK`, `KnownPathsResolve`, `HandlesUnique`, `LastSentLives` |
| `HandlesAlwaysInOneStorage` | `[]OneStoragePerHandle` |
| `ImplementsRegistry` | the refinement `RegistrySpec`, if `StrayHandles = {}` |
| `ParentsAlwaysLeadToRoot`, `PathsAlwaysFollowParents` | `[]ParentsLeadToRoot`, `[]PathsFollowParents`, if `CarefulHost` |
| `RegisteredPathsAgree` | `[]RegisteredPathAgrees`, if `NamingHost` |
| `StreamToFileProofs!TypeCorrect`, `WrittenHalfAlwaysIdle`, `BlocksAlwaysInPlace`, `SuccessAlwaysComplete` | all invariants of `StreamToFile` |
| `StreamFromFileProofs!TypeCorrect`, `HostAlwaysGetsFile`, `SuccessAlwaysExact` | all invariants of `StreamFromFile` |
| `UsbLifecycleProofs!TypeCorrect`, `DeviceAlwaysThere`, `AlwaysEndsClean`, `AlwaysBlockedOnItsOwn`, `AlwaysFinalizedIsFinal` | all invariants of `UsbLifecycle`, and its action property |
| `MtpTransactionProofs!TypeCorrect`, `RequestsAlwaysCommands`, `AlwaysAnsweredInTurn`, `OkAlwaysComplete`, `AskedAgainAlwaysEnds` | all invariants of `MtpTransaction` |
| `MtpCodecProofs!IntegersComeBack`, `StringsComeBack`, `StringsAlign`, `ArraysComeBack` | pop gives back what push has written and goes on behind it; for strings whose count has wrapped, the latter |
| `MtpDatasetProofs!DatasetsComeBack` | reading any number of members of any types one by one gives back each and ends where the dataset does |
| `TypesHold`, `SuccessDelivers`, `DatasetsAreAligned`, `AnswersAllAgree`, `AnnouncedAnswers`, `NamesComeBack` | all invariants of `MtpDataset` |

**Object database.** *Assumption:* `StorageAssumption`: the bounds are naturals below the root's handle,
the file systems hold files and directories. `StrayHandles = {}` is a host that names only
parents it was given; a stray parent makes `operator[]` insert an object under a handle nobody issued,
which the refinement `ImplementsRegistry` would not survive; the other theorems of this part are for any
`StrayHandles`, and `OneStoragePerHandle` says nothing of those.
*Argument:* no property is inductive by itself: that a new handle is new depends on the
counter. `HandleInv` adds that every handle known or in use is at most `s_handle`, the
root's, or a stray one. The five ways the code changes the database all have one shape,
`Grows(s)`: within one storage, what was there stays; what is new has a handle the counter has just
passed; no two paths get the same. One lemma per operation shows it (`CacheDirectoryGrows`,
`SendObjectInfoGrows`, `CopyObjectGrows`, and `RewriteGrows` for moves and renames), and the rest
follows from `Grows` alone: `GrowsKeepsHandleInv` for the invariant, `GrowsIssues` for the
refinement. `FilesInv` and `ServerInv` complete the types.

**Parents.** `CarefulHost` also lists at most one level at a time, as deeper listings make parents that dangle
(section 4). *Argument:* every operation has the shape `Adopts(s)`: the parents of what was there stay, a path that changes is
that of an object that is displaced, and what is new is either displaced or below a parent that was there, under that parent's path.
That the parent is older makes the way to the root finite.

**Registered paths.** `NamingHost` names parents it was given and gives names that are not empty and do not end in a separator;
with an empty name the path of a file would be its folder's. `PathAssumption` says the same of what is in the file systems at the start.
Listings may have any depth. *Argument:* `PathInv` adds to the property that whatever is in a file system has a name, that
every object has a path and, below the root, a name (a copy uses both), and that a parent pointer leads to an object or to none (a rename reads
through it). Every operation has the shape `Records(s)`: a path that is newly known is a name, and its object has it with the slash its kind asks for, or is displaced.
That the part of a path behind its last separator is a name (`BaseNameIsName`) needs the greatest of a set of indices, and that
every level of a deep listing has directories with paths (`ListedDirectories`) is an induction over levels.

**Streams.** *Assumptions:* the chunk is positive, and `SizeMod` larger than any object or file with a chunk, the excess
of a host that sends too much included: nothing has 2^64 bytes. *Argument:* between two
transfers the object is cut into pieces that follow one another: in the file, in the half that waits, in the half under way, and still to come
(the other way: with the host, under way, read ahead, still in the file). `Positions` says for each place in the loop which half holds which piece; that the halves
do not mix, that nothing is misplaced and that nothing is missing at the end follow from it.
`size` is `Remaining(n)`, what is left from a position *n* on: the distance to the end or, past the end, that distance plus `SizeMod`,
as it has wrapped once (`WrapsOnce`). No object is long enough to bring a wrapped size to zero, so where the loop ends *n* is the end: that is
why success means completeness for every host and every part. That the pipe is empty too needs a host or a part that keeps to the length.

**Life cycle.** *Argument:* `finalize` begins only when `should_exit` is set, which the exit thread does last, so its
`cancel` is over; `usbDsExit` follows the join of the state thread, so its last look at the device is over; `g_state` is
`Finalized` only before `initialize` has succeeded and at the end, so `finalize` does not return early. `Waiting` says that a transfer that is complete, and each
endpoint with an abandoned one, is signalled.

**Transactions.** *Assumptions:* `Null` is no packet. *Argument:* between two transactions the host
has at most a null packet left to send (`Idle`); within one, what it has left is determined by the phase of the server (`Asked`, `Queued`, `Receiving`, `Sending`,
`Answering`). So the next request is the host's command, or the null packet.

**Codecs.** *Assumption:* a byte has at least two values. Values, what follows, and the lengths are arbitrary.

**Datasets.** *Assumptions* (`DatasetAssumption`): a name in a directory is a sequence of bytes without the terminator,
as the file system's C strings are, of any length, so its count may wrap; a name from the host fits the eight-bit count it is sent with; a byte has more than three values, so that a date fits;
what an unreadable field reads as is no type. *Argument:* `IsValue` and `IsDataset` say of a block of fields that a reader of these types gets these values,
whatever follows. They hold of what each handler pushes, one lemma per dataset (`InfoReads`, `PropDescReads`, `DeviceInfoReads` and so on) from the theorems
of `MtpCodecProofs`, and put together by `DatasetsComeBack`, which is an induction over members. For strings whose count has
wrapped the value read is another, but what follows is read in step: alignment is proved for all names, agreement for those that fit.
`IInv` then carries this from the handler to the host: `ControlInv` says for each place what is on the wire. While the device sends, the packet is the answer to the
request, and the host has it all at the end if a single chunk takes it (`Sending`, `AnsweredAsk`); while the host does, what it has sent and what it has left
are together its dataset (`Receiving`, `AnsweredTell`). `WireInv` says that the size that is left is the buffer's.
`ObjectInv` and `EntryInv` are about the object's and the entry's types, `FlagsInv` about the histories', and `NameInv` says what the host's last name
has become in both: without it `NamesComeBack` is not inductive, as a renamed entry may be listed anew.
That an answer still stands when the host reads it, because neither object nor calendar change in between, is `AnswerStands`.

**Induction.** The library's induction theorems take a predicate as a parameter, which none of the provers can
instantiate. `NumberProofs` gets by without: that a set of numbers has a least element follows from the well-foundedness of `<`; that
a set with 0 and the successors of its members has all numbers follows from that (`AllNumbers`, `UpTo`), and that there is a
function for every recursion over an interval from that again (`Recursion`). The inductions above are on sets of numbers
defined for the purpose. What has been proved this way of recursive functions is about `Read`, `FlattenSeq` and the levels of `Listed`.

*Only model-checked:* liveness (out of this prover's reach: `Returns` of both streams, `PressToExit`, `ConnectionIsSeen`, `Answered`), and what section 4 finds violated.

## 6. Assumed of the environment

* usb:ds completes a posted transfer when it is cancelled and when the connection it was posted on goes away,
  and signals its event; using an endpoint that was never registered or a closed session stops the program.
* The console's file service accepts absolute paths only, ignores a trailing slash, refuses to create what
  exists and to rename to what exists or below itself. These definitions are marked `external` in the map.
* A host follows the protocol: one transaction at a time, handles it was given (or `StrayHandles`), never the
  root as the object of a change, data of the announced length in `MtpTransaction`, of any length in `StreamToFile`.
  It takes an error response for the end of its data. A host that sends the rest of an object after that has it read as requests:
  `send_object` answers before it has read any when the file cannot be opened (`mtp_storage.cpp:186`).
* Both streams start with an endpoint on which nothing is left. What an unreadable report leaves behind (`usb.cpp:260`) is only in
  `UsbLifecycle`, which says who waits for what, not what is in the buffers.

## 7. Not modelled

* Parameters of responses: object counts, the `new_handle` that a failed move leaves unassigned, what
  `SendObjectInfo` returns.
* Reads through `last_sent_*` before the first SendObjectInfo, which are undefined: `SendObject` is enabled from then on.
* Failures to open a directory or a file that exists, and invalid handles in requests that do nothing but say so.
* Rename with a null parent pointer (the objects `operator[]` inserts): the action is disabled there, as the code has no defined outcome.
* What the path of a displaced folder, which has lost its slash, or of an object a failed move has left without its path ought to
  be: the states are in `MtpStorage`, but the path properties leave displaced objects out.
* The wrap of the handle counter after 2^32 objects, closing of file system handles, contents of copied files.
* Single bytes of integers, lengths of dates, the bits of capabilities, the code numbers of `mtp_codes.hpp`
  that no handler uses.
* Logging and the `Result` macros of `error.hpp` and `utils.hpp`: what they make of a failure is in the actions.

## 8. Plan

Done, in this order: the object database and its registry; its proofs; the two streams; the USB
life cycle with stale completions; transactions with the ends of their data; codecs and datasets; the proofs of the streams,
the life cycle, the transactions, the codecs and the parents; those of the datasets and of the registered paths, which
leave no invariant that is only model-checked.

Next, in order of weight:

1. *Server and database together*: a transaction whose handlers are the actions of `MtpStorage`, with
   cancelled and failed transfers between SendObjectInfo and SendObject, and the parameters of responses.
2. *Aliases*: which objects lead to one file after failed moves and copies, and what a deletion then does to the others.
3. *Refinements*: both streams against an abstract pipe, from the invariants that are proved.
4. *Proofs*: of the refinements of 3, and of the invariants of 1.
