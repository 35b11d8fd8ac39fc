# A TLA+ verification of go-winio

go-winio gives Go programs on Windows overlapped IO on handles, named pipes, Hyper-V sockets, ETW
providers, Win32 backup streams (and their tar form), WIM images, and a number of single-call helpers.
This project keeps TLA+ models of the parts whose correctness depends on order, on data that must
survive a conversion, or on both; TLC checks them on small instances and TLAPS proves the central
invariants for every instance.

Contents: [inventory](#inventory) - [modules](#modules-and-the-code) - [runs](#runs-and-bounds) -
[fairness](#fairness) - [proofs](#proofs) - [findings](#what-the-models-found) -
[limits](#what-is-not-modelled)

## Inventory

| Component | State | Operations | Interacts with |
|---|---|---|---|
| win32File (file.go) | handle, closing, wait group, one ioOperation per IO, two deadline handlers (channel, timer, flag) | Read, Write, Close, SetReadDeadline, SetWriteDeadline | the kernel, the process-wide ioCompletionProcessor, timers |
| pipe listener (pipe.go) | first handle, acceptCh, closeCh, doneCh, the instance being connected | ListenPipe, Accept, Close, listenerRoutine | win32File of each instance, clients |
| pipe dialer (pipe.go) | none of its own | DialPipe and its variants, retry while the pipe is busy | the listener's free instance, a context |
| message byte pipe (pipe.go) | writeClosed, readEOF | Read, Write, CloseWrite | win32File, the message queue of the pipe |
| Hyper-V sockets (hvsock.go) | socket file, redial timer | Dial, Listen, Accept, Read, Write, CloseRead, CloseWrite, Close | win32File, a context |
| ETW provider (pkg/etw) | global map and counter, enabled, level, keyword masks, handle | NewProvider, Close, WriteEvent, the enable callback | ETW, which calls back on its own threads |
| backup streams (backup.go) | bytesLeft of reader and writer | Next, Read, WriteHeader, Write | any reader or writer, seekable or not |
| backuptar | none | WriteTarFileFromBackupStream, WriteBackupStreamFromTarFile | backup streams, EAs, reparse points, archive/tar |
| EAs, reparse points (ea.go, reparse.go) | none | encode, decode | backuptar |
| ETW events and the logrus hook (pkg/etw, pkg/etwlogrus) | two blobs; the hook's provider and who owns it | SmartField and the field functions, NewHookFromOpts, Fire, Close | the provider, logrus |
| WIM images (wim) | the table of resources, the infos of the images; per image a shared reader, curOffset, lock | NewReader, Open, Readdir, File.Open, Stream.Open | compressed resources |
| WIM resources (wim/decompress.go) | chunk table, current chunk, decompressor | newCompressedReader, Read, Close | LZX |
| LZX (wim/lzx) | byte and bit buffers, code lengths, window, last offsets | Read | the chunk's section reader |
| privileges (privilege.go) | the tokens of threads and of the process | RunWithPrivileges, Enable- and DisableProcessPrivileges | Go's scheduler, nested calls |
| wrappers of Windows calls (vhd, pkg/security, sd.go, pkg/process, pkg/fs, internal/fs, internal/stringbuffer, pkg/bindfilter, backup.go) | handles, allocations and pooled buffers for the time of a call | the exported functions of each | the handle table, the buffer pool, objects that change between two calls |

PROJECT.json lists every other part with the reason it has no module.

What makes these parts hard, and where the models spend their states: a Close at any moment of an IO;
a deadline that races the completion, or the set() that moves it; completions that travel through one
goroutine shared by the whole process; a listener closed while a client connects or leaves; a callback
that arrives before a constructor has returned; a shared reader moved by several callers; a token that
must leave a thread before the thread is given away; handles and buffers whose numbers are used again;
answers that change between the call that asks for their length and the one that fetches them; bits,
bytes and blocks that do not end where buffers do.

## Modules and the code

| Module | Models | State and actions |
|---|---|---|
| Deadline | deadlineHandler.set and its timer callback, file.go | one handler per direction: the channel, the timer, timedout; `SetBegin`, `SetDrain`, `SetClose`, `SetReset`, `SetRenew`, `SetArm` are the statements of set(), `TimerFires`, `TimeoutFlag`, `TimeoutClose` those of timeoutIO |
| Win32File (extends Deadline) | the rest of file.go | `pc[o]` walks a goroutine through prepareIO, the system call, asyncIO and its deferred Done; `Complete` is the kernel, `Dequeue` and the rendezvous on `op.ch` the processor; `cpc[c]` is closeHandle |
| FileLifecycle | the abstract promise of a win32File | `active` IOs and the `phase` of the handle; Win32File implements it under `active = Active`, `phase` from closing and handle |
| PipeListener | listener, connectPipe, Accept, Close, tryDialPipe, DialPipeAccessImpLevel | the routine (`lrpc`), the connect goroutine (`conpc`), callers (`acceptpc`, `kpc`) and clients (`dpc`), which may fail behind the open too (`DialOpened`); the server's file appears through its promise (`PInit`, `PNext`, `PSpec`) |
| MessagePipe | win32MessageBytePipe | a queue of messages, each by where it ends in the stream of bytes, the two fields, one writing goroutine and readers (`MInit`, `MNext`, `MSpec`) |
| HvsockDial, HvsockListener, HvsockConn, composed in Hvsock | hvsock.go | the retry loop with the context and the timer, and behind it the options, the last look at the context and the hand-over as steps of their own (`tries` and `late` are history); Accept and Close; Read, Write, shutdown and Close of one connection |
| EtwProvider | pkg/etw provider, constructor, map, callback | the map as a set of indices, the session ETW holds against the fields the provider shows, one step per unlocked read or write |
| EtwEvent, EtwEntry, EtwHook | pkg/etw's event encoding, the event of a log entry; pkg/etwlogrus | the two blobs as bytes, a field function as what it appends to them; `ReadEvent`, written from the TraceLogging format, is the consumer. The hook's options one by one, Fire as a check and a write with sessions changing in between, Close; EtwHook takes the encoding as a constant operator, `Encoded`, to which Etw.cfg gives that of EtwEntry (`HInit`, `HNext`, `HSpec`); `awaited`, whether the session has wanted the event since Fire began, is history |
| BackupStream | BackupStreamReader, BackupStreamWriter | the medium as a sequence of header parts and bytes of data, whose source may end or break, and seek, fail to or be unable to (`BInit`, `BNext`, `BSpec`); `streams`, what was written and where it begins, is history |
| BackupTar, with ExtendedAttributes, ReparsePoint | backuptar (the times of strconv.go too), ea.go, reparse.go | packing and unpacking one file of an archive, stream by stream; a path is a sequence of its pieces, and the names of a link lie in a buffer at offsets. `OldHeader` gives the archive the SDDL header of older versions |
| WimReader | wim.go NewReader, readOffsetTable, the XML data, readNextEntry, readNextStream, File.Open | a file as its header, table and one entry with streams, well formed or not; contents are named by their hash |
| WimImage | wim.go Open, Readdir, readdir, Reader.Close | the image's reader, curOffset and lock, several goroutines (`DInit`, `DNext`, `DSpec`); the reader of the resource is a parameter, to which Archives.cfg gives that of WimResource |
| WimResource | decompress.go | the chunk table and the reader; a chunk yields the positions of its bytes |
| Lzx, LzxFormat | lzx.go; LzxFormat is a reference encoder written from the format, not from the decoder | one action per block header, tree and code (`LInit`, `LNext`, `LSpec`); bit-level decoding as functions of the decoder's record |
| Privilege | privilege.go | goroutines on threads (`thread`, locked or not), the token of each thread and of the process as the set of enabled privileges; fn may call again, return or panic (`RInit`, `RNext`, `RSpec`) |
| WinCalls, with Vhd, VmGroupAccess, Queries, FinalPath, BindFilter and BackupFile, composed in Syscalls | the wrappers of Windows calls | `table` is the handle table, whose numbers are given out again; `me[c]` is a caller inside one function (its handle, allocations, buffer length, last answer); `size` and `kind` are what the system would answer and may change. Queries has the functions of sd.go and pkg/process that ask for a length first |
| Win32FileProofs, PipeProofs, HvsockProofs, ProcessProofs, EtwHookProofs, BackupProofs, WimProofs, SyscallsProofs | | the theorems: of Deadline and Win32File; PipeListener and MessagePipe; Hvsock; EtwProvider and Privilege; EtwHook; BackupStream; WimReader and WimImage; Syscalls |

MC modules give constants their values; MCConnections, MCEtw, MCBackup, MCWim, MCArchives (of the two
before it) and MCSyscalls also put models that share nothing side by side, of which a behaviour runs one while the others stay as they are.
Names of definitions follow the source; where two modules meet in one module, one of them has a
letter before Init, Next and Spec. Definitions named `X_Something` directly before `X` are altered versions of `X` (a dropped check, a missing drain,
a wrong bound) used to see that the properties notice; nothing else refers to them.

Abstractions that matter:

* The kernel, ETW, archive/tar, the pipe's queue, timers and contexts are external and modelled from
  how the code uses them. An IO may complete at any time after it is issued, or never unless it is
  cancelled; a cancel may lose against a completion.
* Each goroutine of `Ops` does IOs one after another without bound, so a finite set of goroutines
  gives any number of IOs.
* A channel of a deadline handler is a model value that is reused once nobody refers to it, which
  stands for the fresh channel that make() returns.
* The statements of Go that touch shared fields without a lock are steps of their own.
* Data are lengths, positions or model values. LZX keeps its bits but scales the byte to 2 bits, the
  window to 8 bytes, and the tables with them; every formula takes these as constants.

## Runs and bounds

| Run | Questions it answers | Instance, and why it is enough |
|---|---|---|
| file_io | No IO outlives the handle, no completion is left without a receiver, bytes are never lost to a timeout, a timeout has a deadline behind it, set() never closes a channel twice and takes effect, and the file implements FileLifecycle | a reader with a deadline, an IO without, two closers, three channels (handler's, the IO's old one, the next) |
| file_live | Close returns, the processor is always freed, a deadline wakes an IO that waits, set() returns | a reader, two closers, sockets and all outcomes; under fairness |
| pipe_listener_lost_close | violation: Close returns | the smallest instance with the race |
| connections | Hyper-V sockets: the redial timer is quiet between waits, sockets do not leak, Read and Write tell the truth of their streams, what Dial returns has its reason (no connection under an ended context, a refusal only after the last try), Dial and the listener's Close return. Message pipes: EOF is last, and it arrives. Pipe listener: nothing is left behind, the name outlives errors, no connection after Close, a dialer gives up, Close returns unless it is lost (below) | two retries (first, middle and last attempt differ), one goroutine of each kind, two-byte buffers (partial writes); messages up to 3 bytes, buffers smaller, equal and larger, both read modes; two acceptors, two closers, a client that dials again and again, all mishaps |
| etw | the provider shows its session, and a wanted event is written; of the hook: a consumer reads from the blobs the event that was logged, an event that is wanted from the beginning of Fire to its end is written, Close closes the provider the hook has made and leaves the application's | two providers, so that indices can be confused, sessions that differ in level and masks; entries with every type SmartField tells apart, slices (empty too), derived types, nested structs, tags, both sizes of int; up to two options before the constructor's own; sessions below, at and above the entries' levels, with keywords and without |
| etw_nil_provider | violation: a callback finds its provider | one provider |
| etw_hook_leak | violation: every provider that a hook has registered is closed with it | the hook of etw |
| archives | the backup reader gives back what was written, skipping or not, and the end is told apart from a cut; a file survives tar, except for the cases listed below; no wrong byte is ever delivered and whole streams are read (LZX); Readdir lists its own directory; what is opened has the hash and the size that are shown | three streams of up to two bytes, with names, sparse blocks, cuts, sources that break, seeks that work, fail or are missing; content up to 4 in every sparse shape, EAs before and after the data, links with nine targets in both layouts of the buffer, reparse points of others, alternate streams, times before 1970, old archives; over 6000 LZX streams: all one-block streams of up to three operations, two- and three-block streams of every mixture of types, in pieces of several sizes, every cut of nine two-block streams, and one larger than the window; six chunks (stored and compressed, the last one short), directories across chunk borders, two goroutines; WIM files with every kind of header fault, one or two images, entries with up to two streams |
| backup_seek | violation: a sparse file is packed from a reader that can seek | the files of archives |
| lzx_end | violation: io.EOF comes behind the bytes of a stream, not before them | the LZX streams of archives |
| wim_skip | violation: Readdir reads the directory's entries | the directories of archives, without the decompressor |
| syscalls | a function uses and closes only its own handle and leaves nothing allocated, its result is whole, the access list keeps its entries, the loops end; privileges end with the call that enabled them, and fn has them all | two callers of one package or of two, two handle numbers and three pooled buffers (so that both are reused), answers that fit and that do not and change once; two goroutines on two threads, two privileges of which one can be enabled, calls nested twice |

All of the runs end within a minute or two; the largest, archives, has 2.1 million states. Symmetry
is used for the channels of a deadline in file_io and for the providers in the runs of MCEtw, none of
which has a liveness property. Deadlock is checked
where the system never stops (files, listener); elsewhere the calls simply end.

## Fairness

* Goroutines that can move are run: weak fairness of each goroutine's steps (Go's scheduler).
* Timers fire: weak fairness of the timer's steps.
* The kernel completes an IO that has been cancelled; one that has not been may stay pending for
  ever. The completion port is a queue, so no completion is passed over for ever (strong fairness of
  `Dequeue`).
* A select with several ready cases chooses at random, so a Close that is offered again and again to
  listenerRoutine is taken (strong fairness of `ServeClose`).
* On a message pipe (connections) a reader keeps reading and its deadlines do not get ahead of the data for ever.
* A thread inside one of the wrapped functions takes its next step, and what it asks for changes only
  finitely often (`MaxChanges`): QueriesEnd would be false of an answer that grows for ever.
* Nobody is assumed to call anything: no Read, Accept, Dial, Close or set() has to happen, no peer has
  to connect or to write.

## Proofs

The theorems hold for every set of goroutines, channels, closers, clients, providers, sessions,
threads, privileges, handles and buffers and every number of retries, streams, options and bytes, under
the named assumptions of the modules, which TLC evaluates for the instances of the runs: a finite set of
IO goroutines, disjoint kinds, `None` outside them, sessions that are records of a level and two masks.

Each property follows from an inductive invariant, and none but the simplest is inductive by itself.

* **Deadline** (Win32FileProofs). `DInductive`: while set() is past the stop of a timer the timer is its
  own; a running or firing timer owns an open channel; the flag is up exactly when the channel has been
  or is about to be closed; two handlers never share a channel. From it NoDoubleClose, SetTakesEffect and
  that an IO woken by its channel sees the flag (WokenSeesFlag).
* **Win32File.** `Inductive` adds to it: wg counts the IOs in progress; `closing` precedes each step
  of Close, and a Close past its wait sees no IO; the kernel knows an operation only while its
  goroutine will still receive; an abort comes from a Close or from the IO's own timeout; an IO in its
  select holds the handler's channel or a closed one. That the handle is closed only when nothing is in
  progress needs the count, and the count needs the pcs. Each action has a lemma; steps of the deadline
  handlers are lifted (a step of the file is a step of Deadline or leaves it alone). From it FileTypes,
  FileClosedMeansQuiet, FileNoStrayCompletion, FileAbortIsTranslated, FileBytesAreReported,
  FileTimeoutIsDue, FileNoOrphanChannel, and the refinement FileImplementsLifecycle.
* **PipeListener** (PipeProofs). `Inductive`: which stages of the routine have an instance and a connect
  goroutine, which errors can reach it there, that doneCh is closed only at the end and a Close has
  returned only after it. From it ListenerTypes, ListenerNothingLeftBehind, ListenerAcceptIsServed and
  the action property ListenerNoConnAfterClose. `NameInv` adds that the routine is on its way out, and
  the first handle closed, only after a Close was called: ListenerNameOutlivesErrors.
* **MessagePipe** (PipeProofs). `PipeInv`: the messages in the queue end one behind the other, the last
  at what has been written; once CloseWrite has sent its empty message everything has been read, because
  it flushed first; and an EOF that is on its way to a reader, or was noted, has the end behind it.
  The empty message is known by ending where the one before it ends. From it PipeEofIsLast, for any
  number of readers and both read modes.
* **Hvsock.** The invariant ties the program counter of Dial to the socket, the wait group and the
  timer (in a wait the timer runs or its tick is in the channel, not both, and a drain finds the tick),
  that of Accept to its socket, and each Write's count to its bytes in the stream. From it
  SocketTimerIsQuiet, SocketNoLeak and SocketStreamsAreTold. `ToldInv` says at each label what may have
  happened to the context so far and how many tries the count stands for: SocketDialTellsWhy.
* **EtwProvider** (ProcessProofs). `Inductive`: the map has, for an index, the provider with that index,
  and no two have had the same; while a provider is in the map, each field the callback has already
  written is the session's (it writes them one by one); and a session that has wanted an event all along
  is what the fields show, with no callback changing them. From it ProviderShowsSession and
  ProviderWantedIsWritten.
* **Privilege** (ProcessProofs). `IInv`: no two goroutines are on one thread (Apart), a thread with no
  goroutine has no token (Free), and each goroutine's locks, handles and token are those of the label
  and the depth of calls it is at (Account); what fn still has a right to is in the token of its thread.
  From it Scoped and Privileged, with calls nested to any depth.
* **EtwHook.** `OpenInv`: closeProvider says whether the hook has registered the provider it has now.
  `FireInv`: a session that has wanted the event since Fire began wants it still, so that both checks
  meet one that does, although each looks at a level and keywords of its own. From them
  HookClosesItsProvider and HookWantedIsFired, for every encoding.
* **BackupStream** (BackupProofs). The reader finds its way by counting, so the invariant says what is
  where: each stream begins where the one before it ends and has its header in one piece (Laid), but for
  a last header that may be cut (Broken), and the reader's position and bytesLeft add up to the end of a
  stream (Reached). From it BackupReadsWhatWasWritten, for any streams, buffers and kinds of source.
* **WimReader** (WimProofs). `TableInv`: a hash leads to a resource that has it; `InfosInv`: an image
  has the XML element of its index; `FileInv`: the streams read so far are those of the entry, in order.
  From it ReaderOpensWhatItShows, for every file whose lists are sequences (`InSequence`).
* **WimImage** (WimProofs). `LockInv`: one goroutine reads at a time, and only in a directory of the
  image; `PlaceInv`: curOffset is the reader's place until bytes are skipped; `ListOf`: the list has the
  entries of the directory up to the reader's place. From it ImageListsItsDirectory, for every image laid
  out as the format says (`LaidOut`) and every resource reader that delivers its bytes in order
  (`ReadsInOrder`). MCWim assumes both of its image and of WimResource, so TLC evaluates them: that the
  chunked reader keeps its promise is checked on that instance.
* **Syscalls** (SyscallsProofs). At each label of each function: what the caller holds (Holds), that
  buffers are in the pool or with one caller (Buffered), that the last answer is whole in the caller's
  own buffer (WholeOf), which errors the attempts so far can have left (AttemptsOf), and that a list read
  for a grant has all the entries to be kept (GrantOf). From it SyscallsHandlesAreOwn,
  SyscallsResultIsWhole and SyscallsGrantKeepsEntries, for every choice of packages.

Only model-checked:

* every liveness property (CloseReleases, DeadlineWakes, WaitsEnd, CloseReturnsOrLost, DialGivesUp,
  DialReturns, ListenerCloses, EofArrives, QueriesEnd): the prover has no fairness;
* RoundTrip, EventIsRead, NeverWrong and WholeIsRead, and the promise of the chunked reader: what a
  recursive definition computes for every archive, event, bit stream or chunk table would need an
  induction over data, which the installed provers do not have. Their modules use RECURSIVE operators,
  which keeps them out of reach of the proof modules.

## What the models found

With a run of their own:

1. **A Close of a pipe listener can be lost** (pipe.go:452, pipe_listener_lost_close). If the client
   leaves as Close is received, connectPipe returns its own error; the routine takes it for a failed
   accept and goes on, and the caller of Close waits for ever unless another Close comes.
2. **An ETW callback can find no provider** (provider.go:180, etw_nil_provider). Close removes the
   provider from the map before it unregisters; a notification in between dereferences nil. The failed
   eventSetInformation of newprovider.go:64 leaves the same state.
3. **A hook can leave a provider registered** (etwlogrus/opts.go:22, etw_hook_leak). A second provider
   option replaces the provider that a first one has registered, and Close closes the last one only; an
   option that fails (hook.go:55) leaves it registered as well.
4. **A file in sparse blocks cannot be packed from a seekable reader** (tar.go:259, backup_seek). The
   first pass goes on behind the data stream and does not know the stream ID of the blocks.
5. **A cut LZX stream can pass for one that is over** (lzx.go:526, lzx_end). If nothing of an
   uncompressed block is left in the source, io.ReadFull's io.EOF is returned as it is, and
   compressedReader goes on to the next chunk with this one missing.
6. **Readdir can list another directory** (wim.go:642, wim_skip). Bytes skipped forward are not added
   to curOffset, so that the next call starts too far on, until the reader is opened anew.

Met while modelling, and written into the properties as exceptions:

* backup.go:129: a source that returns its last bytes together with io.EOF gets ErrUnexpectedEOF
  (`eager` in ReadsWhatWasWritten); a cut between the parts of a header passes for the end.
* tar.go:259 and lzx.go:526: the cases of findings 4 and 5 (`readTwice /\ HasBlocks` in RoundTrip, the
  stage "eof" in NeverWrong).
* tar.go:239: of a link the name it shows is kept, and where it leads is made up from that name with its
  slashes turned. A link whose two names differ by more than the usual prefix leads elsewhere afterwards
  (`plain` in LinkRestored).
* tar.go:330: EAs behind the data of an unseekable reader, and alternate streams of a file without a
  data stream, are lost (RoundTrip); the first is documented at tar.go:191.
* wim.go:641: the skipped bytes of finding 6 (`sound` in ReaddirListsItsDirectory).
* lzx.go:101: ensureAtLeast asks the source for n bytes on top of those it has, and fails at the end
  of some whole streams (`over` in WholeIsRead).
* hook.go:96: IsEnabledForLevel asks for all keywords at once, so for a session without one Fire sends
  nothing; and Fire does not know of an option that lowers the event's level (WantedIsFired).
* pipe.go:289: the dialed handle is not closed when getNamedPipeInfo fails, and the instance stays
  connected to nobody (`DialOpened`); no property of the listener depends on it.
* privilege.go:81: a RunWithPrivileges inside fn takes the token of the outer call away, and the rest
  of the outer fn runs without its privileges (FnHasPrivileges ends there).
* backup.go:221: Close drops the context even when the call that frees it fails, because the file was
  closed before or for another reason ("lost" in HandlesAreOwn).
* grantvmgroupaccess.go:94: an entry that another process adds between the read and the write of the
  list is lost (`kept` in GrantKeepsEntries leaves it out).

Seen on single paths, where no sequence of steps is needed to meet them, and not modelled:

* pipe.go:166: writeClosed is read without a lock, so a Write may follow a concurrent CloseWrite.
* hvsock.go:457: Read of an empty slice takes the address of its first byte.
* lzx.go:269: a pre-tree without codes is nil, and getCode dereferences it (corrupt data only).
* lzx.go:526: the error of a short uncompressed block is not kept in f.err, and a second Read goes on.
* reparse.go:111: the lengths of the names are 16 bit, and a long target wraps them.
* bind_filter.go:187: the size check counts six bytes for an entry of eight.
* wim.go:783: "The first unnamed stream should be treated as the file stream", but only a stream that
  is both first and unnamed is.
* grantvmgroupaccess.go:135 speaks of two entries, and one is added.

## What is not modelled

* Flush, Fd and Disconnect of a file, which use the handle outside the wait group. HvsockConn has the
  same window in shutdown, and lets the call reach a handle number that is no longer the connection's;
  what that does to its new owner is not a promise of this code.
* Reader.Close, or a second goroutine's first Open, beside other calls of a WIM image: neither takes
  the lock that Readdir takes, and nothing says that they may be called so.
* A Write beside a CloseWrite on a message pipe; net.Conn leaves their order open.
* LZX data that no encoder writes, the text of the WIM's XML, security ids outside their table.
* The text and the layout of addresses, SDDL, descriptors and errors. Paths of links are sequences of
  pieces, whose 16 bit lengths never wrap. The limits of EA lengths (`EaTooLarge`) are modelled at their
  real values, which nothing that was decoded exceeds: they are never met on the way through an archive.
* Garbage collection of files, and the loss of a process.
* GUIDs, file information and SDDL conversion (pure, or one call each), the call wrappers and generated
  stubs, the sync.Once that loads ConnectEx, the code generators, samples and the validation command.
