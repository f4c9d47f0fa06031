# Verification of dpplib

dpplib (`src/`) is a C++ library of helpers: paths, strings, logs, settings,
file watching, file synchronising, self-update, network clients and servers, and
widgets. Four parts meet other threads, users of the same files, other processes
and crashes all at once, and have a module and runs of their own: `DPathWatcher`,
`DSyncFile`, `DSyncWatcher` and `DUpdate`. The others have a module each and
share one run, `library`: logs, settings, the tree they are kept in, texts and
grids, URIs, the network client and servers, and the file and directory
operations of `DPath`, and the window of the Qt layer that shows a log.

Paths below are relative to `src/`. `PROJECT.json` maps every definition that
models code to its lines, lists the hazards of the code with the properties that
cover them, and names, for each checked property, a plausible bug of the code
(written next to the definition it changes, under the comment "Fault") that the
property detects.

1. [The system](#1-the-system)
2. [Modules and the code they model](#2-modules-and-the-code-they-model)
3. [Runs](#3-runs)
4. [Fairness](#4-fairness)
5. [Proofs](#5-proofs)
6. [What the runs show to be wrong](#6-what-the-runs-show-to-be-wrong)
7. [What is not modelled](#7-what-is-not-modelled)
8. [Plan](#8-plan)

## 1. The system

| Component | State it keeps | Operations that change it | Meets | Must hold |
|---|---|---|---|---|
| `DPathWatcher` (`lib/DPathWatcher.cpp`) | `WatchList`, the bools `Watching`, `StopWatchingRequested`, `Stopping`, `Paused`, a promise and its future | `AddPath`, `Check`, `Start`, `Pause`, `SetStop`, `SetStopAndWait`, `ClearWatches`, destructor; the detached thread | its own thread and callbacks | one thread at a time; a stop that succeeded means no more scans or callbacks; the object is not freed under the thread |
| `DPathWatch` (nested in it) | the times it remembers, `FirstScan`, the last status | `Check` | users who change the disk during the scan | no change missed, none invented |
| `DSyncFile` (`lib/DSyncFile.cpp`) | `Source`, `Dest`, `Ready`, `LastSyncStatus`, `SafeMode` | constructor, `DoSync`, `InvertSync`, `SetSafeMode` | users of both files; failing file operations | what it says about Dest is true; the source is never harmed; an outage is answered once |
| `DSyncWatcher` (`lib/DSyncWatcher.cpp`) | `SyncList` and the flags of a watcher | `AddSync`, `Check`, `Start`, `Stop`, `StopAndWait`, `Clear`, destructor; the thread | its thread and callbacks; `DSyncFile` | as `DPathWatcher`; the callbacks agree with what `GetSyncErrors` counts |
| `DUpdate` (`lib/DUpdate.cpp`) | `Ready`, `AsUpdater`, the rules; on disk: the program, `Update`, `Backup`, `UpdateRules.json`, `DuryUpdater`, `.justupdate` | `Init`, `CheckPendings`, `DoUpgrade`, `ApplyUpdate` | a copy of itself in another process, the publisher of the repository, crashes | no file is lost or goes back to an older release, no update loop, updates arrive whole |
| `DLog` (`include/dpplib/DLog.h`) | the open file, its size, the limits | constructor, messages, rotation (`CheckStorage`, `RenameFileAsNow`, `DeleteOldestFile`), the setters | the disk, the end of the program | the last messages are kept, in order; the limits hold but for one file |
| `DPreferences`, `DSettings` | a property tree, a settings file and its `.bak` | constructor, `Load`, `Save` | crashes, failing file operations | a crash does not lose the settings |
| `DTree` | a property tree | typed reads and writes, arrays, subtrees, deletions | nothing | what is written is read back and nothing else changes |
| `DRESTClient` (`lib/network`) | the request, the socket, the read buffer, `Connected` | setters, `Connect`, `Disconnect`, `SendPOST`, `SendPUT`, `SendGET`, `Clear` | a server and a network that fail | a response is that of its request, but for the bodies before it |
| `DUdpServer` | sessions with their buffers, the strand | `Run`, `Send`, the handlers | clients, several threads that run handlers | each datagram is told once; the server never stops listening |
| `DTcpServer` | connections with two buffers and two timers, the acceptor | `Run`, `Stop`, `Write`, `Close`, the handlers | clients, timers, an application on another thread | what is written is sent in order, once; connections do not leak |
| `DPath` | none, but it changes directories in many steps | `CopyDir`, `MoveDir`, `DeleteDir`, `DeleteFiles`, `ChangeExt`, `Copy_File`, searches | other users of the files, failing operations | nothing is lost half way; a search finds what it says |
| `DUTF8String` | bytes and a cached length | edits, searches, iterators | nothing | a string of code points, whatever their width |
| `DStringGrid`, `DCsv` | rows and cells | rows, columns, `Set`, save and load | nothing | the grid has the shape it claims; fields survive a file |
| `DUri` | the parts of a URI | `Set`, `Clear` | nothing | the parts belong together; decoding undoes encoding |
| `DString`, `DVector`, `DValue`, `DChrono`, `DShell`, `DWindow`, `DNetwork`, `DError` | none | functions | the shell, the system | as their comments say |
| `DFormLog` (`lib/qt`) | the lines shown, the queue of the window's thread, readings of the file | messages, `LoadFile`, `SetDLog` | the thread that logs, the pool of threads, its own event loop | the list is the log file, no message twice or out of order |
| Rest of the Qt layer (`lib/qt`) | widgets | forwards to Qt on the GUI thread | Qt | nothing beyond Qt's own rules |

How they interact. The two watchers own a thread each and call back into the
program from it. `DSyncWatcher` calls `DSyncFile::DoSync` for each pair, which
calls `DPath::Copy_File`. `DUpdate` calls `DPath::Copy_File`, reads rules through
`DPreferences` and `DTree`, and starts its copy and the program with
`DShell::ExecuteDetached`. `DStringGrid` reads and writes rows with `DCsv`, `DRESTClient` keeps its address in a `DUri`.
Everything else is called by the program only.

What is hard. The watchers share plain bools and a list between threads without
a lock; the thread itself sets `Watching` late and clears it early; a wait may
time out. `DoSync` and `Check` decide from several file operations between which
anybody may change the files. The updater is a protocol of two processes over
a folder, with no lock and no journal, either of which may die between any two
file operations. A directory is copied entry by entry, a settings file is emptied before
it is written, a log file is renamed while its handle is closed: each can be cut off or refused in the
middle. The servers' handlers run in the order of completions, which is not that of the calls.

## 2. Modules and the code they model

| Module | Models | Depends on |
|---|---|---|
| `WatchService` | abstract: what either watcher promises its owner | |
| `DPathWatcher` | life cycle of the watcher and its threads | instance of `WatchService` |
| `PathWatch` | `DPathWatch`: constructor, `Check`, `ScanDir`, the status told | |
| `SyncOutcomes` | the answers `DoSync` may give, by what a pair remembers | |
| `SyncEntry` | abstract: one pair as its owner sees it | `SyncOutcomes` |
| `DSyncFile` | `DoSync` and `Copy_File`, one file operation per step | instance of `SyncEntry` |
| `DSyncWatcher` | life cycle, `Check` and callbacks over a list of pairs | `SyncOutcomes`, instance of `WatchService` |
| `DUpdate` | the update protocol over processes and the disk | |
| `MCSync` | the users of `DSyncFile` for TLC | `DSyncFile` |
| `MCDUpdate` | values of `DUpdate`'s constants for TLC | `DUpdate` |
| `DLog` | log file, storage and rotation | |
| `DPreferences` | settings file, one file operation per step | |
| `DTree` | reads and writes of the tree, as operators | |
| `DPathList` | `ListFiles`, `ListDirs` and the counts, as operators on a tree of files | |
| `DPathDirs` | copies, moves, deletions and renames, entry by entry | `DPathList` |
| `DUTF8String` | the bytes, the cache, edits, searches and iterators | |
| `DString` | the functions on texts, as operators | |
| `DCsv`, `DStringGrid` | rows of fields, and the grid that saves and loads them | `DStringGrid` extends `DCsv` |
| `DUri` | parts, encoding and decoding | |
| `DRESTClient` | the blocking client and its server | |
| `DUdpServer` | sessions, strand, posted handlers | |
| `DTcpServer` | connections, buffers, timers, shared pointers | |
| `DFormLog` | the window of a log: event queue, loaders, nested event loop | |
| `MCLibrary` | these parts side by side, one chosen by the first state | extends `DPreferences`, `DTcpServer`, `DUdpServer`, `DRESTClient`, `DPathDirs`, `DFormLog`, `DLog` (hence `TcpRun`, `DirsInit`, `FormNext`), instances of the others |
| `DPathWatcherProofs`, `PathWatchProofs`, `DSyncFileProofs`, `DSyncWatcherProofs`, `DUpdateProofs` | theorems and proofs | the module of that name |
| `NetworkProofs` | theorems and proofs | `DUdpServer`, `DTcpServer`, `DRESTClient` |
| `FilesProofs` | theorems and proofs | `DPreferences`, `DPathDirs`, `DTree` |
| `LogProofs` | theorems and proofs | `DLog`, `DFormLog` |

The composition is by contract: `DSyncFile` is shown, and proved, to implement
`SyncEntry`, and `DSyncWatcher` takes one of the same `Outcomes` as its step for
one call of `DoSync`. So the watcher is checked against everything the disk can
make of a pair without carrying the disk.

**DPathWatcher.** The client thread is sequential: `cpc` is the place in the
call it is in, `op` what it called `SetStopAndWait` for (itself, `ClearWatches` or
the destructor). Each worker has a place `pc[w]` in the lambda of `Start`
(lines 359-394). One step is one access to shared state. The `k`-th `Start` makes promise `k`;
`kept[w]` is the promise worker `w` satisfied, which need not be its own: the
lambda sets whatever `PromiseEnded` is then. `terminated` stands for a
`std::future_error` that no one catches: a second value for a promise, or a wait
on the future that `get()` emptied. The constants `AwaitsStarted`, `UsesSetStop`,
`MayTimeOut` and `EditsWhileWatching` say how careful the client is. An early
return that writes nothing is a stuttering step and has no action.
`ENDED` is called from the thread before it exits, so a callback of the model
may call `SetStop` while the worker lives. The bools are modelled as sequentially
consistent; the code's plain bools promise less.

**PathWatch.** `at` is the place in `Check`; `root`, `rootTime` and `files` are the
disk; the remembered times are the module's `memory`. Each `exists`,
`last_write_time` and iterator step is a step of its own and `User` may act between
any two. The iterator may or may not meet an entry created after it was opened, as
POSIX allows. A name of `Names` stands for a path that either iterator finds, so
one model covers the plain and the recursive scan. `settled` and `calm` are histories
of what the disk did since an answer. `crashed` is the exception that the first scan throws
outside its `try` (line 54).

**DSyncFile.** `disk` holds two files, each with a content and a time; paths are
`a`, `b` and a `link` to `a`, because the code compares paths as text. `at` is
the place in `DoSync` or `Copy_File`: `exists` of the source, of Dest, the two
times, the status, the safe mode's remove, open, write, permissions. Contents are
numbered in the order users write them, 0 being what an unfinished copy leaves, or a mixture of several.
`fs::copy_file` truncates Dest when it opens it and then reads Source piece by piece: `buffer` is the set of what
the file it opened has held since, and what it writes is one of them or, if there were several (`Torn`), a mixture. A Source that is removed and
written anew is another file (`linked`). Dest is not written by a user while `copy_file` writes it.
`DChrono::to_time_t` (`DChrono.cpp`) converts a file's time by reading two clocks one after the other; that adds less than a tick, which cutting to the second hides.
`Second` is the conversion the code makes: times are cut to whole seconds before
they are compared (`DPath.cpp:239`), and a file that is gone has time 0. The
constructor's `SyncNow` call reads `LastSyncStatus` before anything sets it (line
118): it takes any value. `user`, which `Init` takes from `Users` and no step changes, says how the environment behaves: whether the user waits
for the end of a call and for a later second than Dest's, whether file operations may fail, whether the owner calls `InvertSync`, and his bounds.
A property about the orderly user (`Orderly`: he waits, nothing fails, no `InvertSync`) is then one of the same specification as those about all users, for the run and for the proofs.

**DSyncWatcher.** As `DPathWatcher` without `Pause`; `timed` tells a wait with a
timeout from the default one without. A round of `Check` is one `DoSync` per step, by
thread `next[t]`, thread 0 being the client's own one-shot `Check`. `told` is, for each pair, what its
last callback said: one `CALLBACK_WATCHER_SYNC_ERROR` stands for a missing source, for equal paths and for a failed copy, and only its text tells which;
`Told` has the callbacks of `Check` and `Notified` those of `NotifySyncStatus`, which `AddSync` makes with `SyncNow` only. `disciplined` is a history rather than a
constant: it is true until the client first does not wait for `SYNC_STARTED`,
calls `Stop` or gives a timeout. One run then covers careful and careless clients.

**DUpdate.** A slot is a process; `at` is where it is in `CheckPendings`,
`DoUpgrade` or `ApplyUpdate`, `role` whether it runs as `DuryUpdater`. A file is
the release its content came with, `Absent`, or `Torn`. One file operation is one
step, each may fail, and `Crash` may end a process between any two. Versions are
computed as the code does, the digits of the string read as one number with 0 for what no `int`
holds (line 515). Abstractions:

- one folder is the program's current path and the executable's directory;
- the repository is of type FOLDER; HTTP and FTP are stubs in the code;
- the publisher puts a whole release in the repository in one step, but at any
  moment, between two copies of a download included;
- `exit(0)` after `ExecuteDetached` and the start of the child are one step, in
  which the child takes over the slot;
- `Clean` is one step: nothing of it decides anything, and a crash in it is
  covered by one before or after it for the files the properties name;
- a file removed and created again while a copy reads it counts as one file; where two torn copies of a file
  exist, either may be the one a process is writing;
- unreadable rules have the values of an empty tree (`NoRules`), torn or missing;
- `data` stands for all the files of a release beside the executable, `cfg` for
  the one file the Modify section writes.

**DLog.** A message is its number and one unit long; a second is a step of `Tick`. `current` is the log
file, `old` the renamed ones by the second in their name. `Write` is the whole call: the line, `CheckStorage` and, if it
rotates, `DeleteOldestFile`, `RenameFileAsNow` and `OpenLogFile`, each of which may fail. The disk may refuse the line, of which `Write` takes no notice: `count` numbers the messages that
it took. `DeleteOldestFile` may throw half way, out of `Write`. A message for a null `FILE` ends the program.

**DPreferences.** `file` and `bak` hold a tree, nothing, or something torn; `at` is the place in `Save` or the constructor. `write_json`
opens the file, which empties it, and only then looks whether the tree can be written.

**DTree.** Boost's `iptree` (children in order, names compared without case, several of one name) is modelled from its use; the reads and writes of the code
are operators on it, with the code's way of joining a section and an item, which differs between reading and writing: boost takes the `.` at the end of a path
for nothing where it looks a node up, and where it makes one for a child without a name (a build with assertions ends there). So an item without a name is the section itself if that is there, and is lost below it if not (`Mislaid`). `Way` is the nodes along a path, and an edit
makes those nodes anew from the last one up (`Made`).

**DPath.** `DPathList` has what the searches look at in a name as constants: stem, extension, the parts of a text, a text without case.
`DPathDirs` walks a copy with a stack of directories, so that between any two entries another program may write or remove a file and any file operation may fail.
Its assumptions say what a disk and a call are: the directories of an entry are there (`TreesAssumption`), and a copy is not into a directory within its own source, which never ends (`JobsAssumption`). A destination above the source is allowed (`Above`).

**DUTF8String, DString, DCsv, DUri.** Bytes, characters or small alphabets; what the code computes in a loop is a recursive function or a fold, compared with a definition
that does not follow the loop: a list of code points, the first of all places, a split of the text. `DUri` takes what its two regular expressions match as a constant.

**DStringGrid.** `Grid` is a sequence of rows of cells; `ragged` remembers that a caller has given a row that is not as long as the others. `SaveAndLoad` takes the
grid through the text of a CSV file.

**DRESTClient.** A call is one step over a record that each part of it hands to the next (`Connects`, `Sends`, `Reads`, `Disconnects`), because no one else uses the
client meanwhile; what the server or the network does is in the results those parts may have, and in `Break` between calls. A response on its way is the number of its request; `Buffer` is what `http::read` has read ahead.
`HttpResponse` has its header fields, its status and its body apart, because `clear()` removes the fields only; `http::read` moves it into a parser that appends to the body that is there, and does not give it back when it fails.

**DUdpServer.** `strand` is the queue of wrapped handlers, `posted` a set that any thread may run in any order; memory and its length are the number of the `Send` that was given them.
`Send` is two steps, the store into `SendBuffer` and its reading in `PostResponse`, because no lock and no strand keeps another thread's `Send` for the session from coming between.

**DTcpServer.** A connection has its two buffers (`waiting`, `buffer_seq_`), two timers that are armed or due, and the shared pointers that keep it (`Referred`).
With the last of them it is dead. A due timer of a dead connection (`DTcpServer.cpp:49` has a bare `this`) has undefined behaviour, and no step.

**DFormLog.** `events` is the queue of the window's thread, to which another thread's signal adds one event per connection (`links`); on the window's own
thread a signal is a call. `LoadFile` calls `processEvents`, so that `depth` loads may be under way, each with a reading (`loader`) and a single shot that waits for it.
`QFuture::result` runs a reading that no thread of the pool has taken. `excused` is a history of the messages the code loses (section 6).

## 3. Runs

| Run | Instance | Distinct states | Shows |
|---|---|---|---|
| `dpw_careful` | 3 starts, 2 watches, careful client | 883 | `StopMeansStopped`, `NoFutureError`, `PauseKept`, `StopReturns`, and that the watcher implements `WatchService`, so that no list changes and no object goes under a running thread |
| `dpw_eager` | 2 starts, 2 watches, any client | 136 264 | what is left for any client, waits that time out included: only a timeout prevents a restart; `IsWatching` implies a live thread, and, unless two `Start`s have met on one promise, the last one, whose future can still be waited for |
| `dpw_restart_after_setstop` | 2 starts, 1 watch | violation | see section 6 |
| `sync_users` | ticks of half a second; a busy user at any time with failing operations and `InvertSync`, or an orderly one who writes Source between calls, in a later second than the copy | 355 928 | busy: `DoSync` implements `SyncEntry` (so an outage is told once), the source is never harmed, `SYNC_DONE` is true but for a Source written in place during the copy. Orderly: every answer is true, Dest converges to Source, a file both paths name is not touched |
| `sync_failed_copy` | the orderly user, failing operations | violation | see section 6 |
| `dsw_any` | 2 starts, 1 pair, any order of calls | 276 566 | the promises of a watcher until the client gives up its discipline; the callbacks agree with what `GetSyncErrors` counts, over threads and one-shot checks, and tell no missing source twice; every pair is checked in every round |
| `dsw_lost_stop` | 1 start, 1 pair | violation | see section 6 |
| `pathwatch` | 2 names, 3 changes, 1 stop | 1 091 938 | no change missed or invented; the watch catches up |
| `pathwatch_stopped` | 2 names, 2 changes, 1 stop | violation | see section 6 |
| `upd_alone` | 1 process at a time, 3 releases, 2 troubles | 67 201 | nothing older or torn is installed, `.justupdate` only after a whole update, no loop, one release at a time, updates arrive |
| `upd_shared` | 2 processes, 3 releases, 1 trouble | 1 565 495 | a whole copy of every file survives |
| `library` | one part at a time: `DLog` (6 messages, 3 seconds), `DPreferences` (4 trees, 2 troubles), `DTree` (2 items, 3 names), `DUTF8String` (4 bytes, characters of 1, 2 and 4), `DString` (texts of 3), `DStringGrid` (2 rows, 4 columns), `DUri` (texts of 4), `DRESTClient` (3 requests), `DTcpServer` (1 connection, 3 messages), `DUdpServer` (2 datagrams, 2 sends, 2 threads), `DPathDirs` (55 trees, 42 calls), `DFormLog` (2 messages, 2 loads, 2 connections) | 412 860 | below |

What `library` shows, part by part:

- `SettingsKept` (`DPreferences`): as long as `Save` makes its copy, no single crash or failure loses the settings. With a second one, or without the copy, they may be lost.
- `MessagesKept`, `StorageBounded` (`DLog`): of the messages the disk took, the storage and the log file hold the last ones, each once and in order; after a rotation the storage exceeds its limit by one file at most. Two rotations in one second, and files that cannot be deleted, are excepted.
- `TreeRight` (`DTree`): of every tree that a program makes, what is written under a section is read back, whatever the case of the names, what is deleted is gone with all of its name, and nothing else changes; an item without a name, of a section that is not there, is the one case that is mislaid. The empty section is excepted: it is written and read in two places.
- `Utf8Right` (`DUTF8String`): edits, searches and iterators are those of the list of code points, and the cached length is right. `assign` and `pop_back`, which leave it stale, are excepted.
- `TextLaws`: the functions of `DString` agree with reference definitions, but for `EndsWith` and a pattern one longer than the text (section 6); a grid keeps its shape and a CSV field comes back as it went in; `Decode` undoes the encodings; the parts of a URI belong to one URI.
- `AnswersOwnRequest` (`DRESTClient`): a caller who waits for each answer, or calls `Clear` after one that failed, gets the fields and the status of its own request's answer, and a body that ends with its own: the bodies before it may precede it.
- `DatagramsRight` (`DUdpServer`): each datagram is told once and from its own sender, no error ends the listening; what a `Send` posts is sent at most once, to the right client, with the memory it was given or with that of another `Send` for the session that was under way at once.
- `SentInOrder`, `ClosedInTheEnd` (`DTcpServer`): the double buffer loses and swaps nothing; a connection that nobody needs is closed, unless it was writing when its client left and has no read timeout.
- `CopiesSafe`, `FilesRight` (`DPath`): a copy or a move that fails anywhere leaves every file whole in one place at least, unless its destination is above its source; `FailIfExists` protects what exists; `DeleteFiles` removes what its search found and nothing else; a search finds what its comment says if it has one flag for name and extension and asks for no whole words of several patterns, which the comments ignore and the code does not.
- `ListRight` (`DFormLog`): the list shows no message twice or out of order and ends up as the whole file, though messages come and readings overlap. Excepted: `SetDLog` called twice, a file that cannot be opened, a message between the end of a reading and its result, and a reading run by the window's thread while other messages are queued than the file lacks.

Why the bounds are enough to mean something:

- *Starts.* A flag or a promise of one thread can reach the next and, through a promise
  kept twice, the one after: three starts for the careful client, two for the one who
  may do anything, where two already break what can break.
- *Watches and pairs.* Two watches let a list change between two entries of one
  `Check`; in `DSyncWatcher` a pair's answers depend on that pair alone, so one pair
  with every answer is the interesting case, and the list still grows and is cleared.
- *Ticks.* Two ticks to a second make two writes fall in one second or in two;
  `MaxTime` leaves room for three of the user's writes, each with its copy.
- *Names and changes.* With two names a scan can be cut between entries and a change
  can fall on either side of it; three changes are create, write and remove in one `Check`.
- *Releases.* Three releases let a publisher overtake an update that is under way and
  an update start from the leftovers of another. `<<1, 9>>`, `<<2, 0>>` and `<<2, 1>>` have growing numbers.
- *Processes.* Two share the disk in `upd_shared`. With three `NothingLost` does not hold, even where nothing fails: an updater may install the copy a second process is still
  writing, the third removes the old one from `Backup`, and the first cleans `Update`. The code has no lock.
- *Troubles.* Two: one to break an update and one to break its repair. In
  `upd_shared` a refused Modify section is left out (`upd_alone` has it); a save that fails
  leads to the same place.

- *Library.* Each part gets the smallest instance in which its cases meet: a rotation with two older files, a code point of
  each width but one, two spellings of a name, a request left unanswered before another, a message given while one is being written, a directory
  with a file, a subdirectory and a special file onto a target that has files of the same names.

What the properties leave out, where the code promises nothing:

- *Waits that time out.* `dpw_careful` has none, so `StopMeansStopped` and `ServiceSpec` are about waits that end; `dpw_eager` has them, and shows that
  nothing but a timeout leaves `Stopping` set. In `DSyncWatcher` a client that gives a timeout has given up its discipline.
- *An update that is disturbed.* `OneRelease` and `UpToDate` are about updates in which nothing fails, nobody dies and nothing is published meanwhile; `NothingLost`,
  `NeverOlder` and `MarkMeansDone` are about the others. `MarkMeansDone` says nothing of an update whose rules could not be read: it has no files, and marks itself done.
- *Versions that do not grow* (1.10 and 2.0): such an update is not made, or is made in a loop, and the properties of the updater leave it out.

Deadlock is checked in every run but the two of `DUpdate` and `library`, where a program that
has updated itself, torn or lost its executable, a log whose program died, or a copy that has ended may really have nothing left to do. `upd_shared`
uses the symmetry of the slots and checks an invariant only.

## 4. Fairness

- `DPathWatcher`, `DSyncWatcher`: weak fairness of each worker and of the client while it is
  inside a call. The operating system runs both; nothing obliges the client to make
  a call, and nothing obliges a callback to call `SetStop`.
- `DSyncFile`: weak fairness of `DoSync` and its steps together. The owner calls it in a loop, as
  `DSyncWatcher`'s thread does, and a call has no wait in it.
- `PathWatch`: the same for `Check`, called in a loop by the watcher's thread. The disk changes a
  bounded number of times, which stands for a disk left alone long enough.
- `DUpdate`: weak fairness of each process's steps and of its end, and of a user who starts
  the program when it is not running. A process that waits for nothing is scheduled; that the
  user starts the program now and then is the assumption `UpToDate` needs, since
  only a start looks for updates. Nothing obliges the publisher.
- `DTcpServer`: weak fairness of each connection's handlers, of its timers and of the application's letting go, and of the end of a server that was stopped.
  `io_service.run()` runs what is due; an application that keeps a connection for ever keeps it open. Nothing obliges a client to do anything.

## 5. Proofs

The eight modules of theorems (`…Proofs`) are checked by TLAPS, for every value of the constants that the modules' assumptions allow.

**Every client of DPathWatcher.** `TypeInv` is `TypeOK` with `Fresh`: workers past
`promise` have not been launched. From it `TypeCorrect`; with `StoppingInv`
(`Stopping` means a wait under way or one that timed out), `Restartable`; with
`AnnouncedInv` (`Watching` is true only between a worker's two assignments) and `FutureInv`
(a worker keeps a promise in its last lines only, and a future is used up only after its promise was kept),
`WatchingIsLive`: the thread that `IsWatching` reports can be waited for, unless two `Start`s met on one promise (`OwnPromises`).

**The careful client.** Under `Careful` (it waits for `WATCH_STARTED`, stops only through
`SetStopAndWait`, whose waits do not time out, and edits the list only while `IsWatching` is false)
the inductive invariant `CarefulInv` has these parts. `OthersGone`: only the last
worker may be alive, without which two threads would share the promise. `KeptOwn`:
each worker satisfied its own promise, so that a future that is ready means
that this worker is gone. `WatchingInv`: `Watching` is exactly "between the two assignments".
`ClientPhase`: where the worker can be for each place of the client, the heart of the
argument, since the client decides from `Watching` alone. `RequestInv` and `PauseInv`: a request
pending from an earlier stop is still going to be cleared, and no `Pause` precedes that. From these follow `StopIsFinal`,
`DestroyIsSafe`, `OneWorker`, `PromisesKept` (no promise is satisfied twice and no emptied future is waited on, so that `terminated` stays false), `PauseIsKept`, `IsWatchingIsTrue`, and
`ImplementsService`: each step maps to a step of `WatchService` or a stutter, with
`running` as "some worker lives" and `entries` as the length of the list.

**PathWatch.** Both theorems are about one return of `Check`, so the invariant follows `Check` up to it: `PlaceInv` says what the tests it passed have told it; `ScanInv` that, while nothing changes, the
names already tested are on the disk and those the iterator returned are remembered as they are; `SettledInv` that a watch that is settled (a `Check` found no change, and the disk has not changed since)
knows the disk (`Known`), or is that of a directory that was never there. A change of the disk ends `calm` and `settled`, after which the invariant asks only for types.
`NoMissedChange` holds because returning `NONE` settles the watch; `NoInventedChange` because a settled watch has nothing to report.

**DSyncFile.** `IInv` is `TypeOK` with `PairInv`: past its first two tests `DoSync` has a
ready pair with different paths, and an outage that was told means `~Ready`.
`TypeCorrect` needs the two facts about cutting times to the second, `SecondType` and `SecondOrder`.
`OutageOnce`, `SourceIsSafe` (for two names of different files, with any user and
any failing operation) and `ImplementsEntry` follow step by step.
`DoneIsTrue` (`SYNC_DONE` means that Dest holds, whole, something that Source held during the call, or a mixture if Source was written in place while `copy_file` had it open) is for a user who writes no Dest (`OnlySourceWritten`) and may do anything else at any moment.
It needs to know why a copy that is told as done was one: `SourceSeen` and `CopySeen` follow what Source held into the buffer and, one of it or a mixture, into Dest; `SourceLater` with `InTime` says that a user can only make Source
later than `DoSync` found it, so that after the two tests Source stays later than a Dest that is there. For the orderly user (`OrderlyUser`: Source only, between calls, in a later second than the last write), whom the first state chooses for good (`SameUser`), `FoundInv` says that the tests
have found what is on the disk, and `ApartInv` that outside a copy two files that differ are a second apart, Source the later. The code compares whole seconds, and `ApartInv` is what makes that enough:
`NoNeedIsTrue` (`NoNeedIfOrderly`) and `AliasIsSafe` (`AliasUntouched`) follow, for any set of users among whom the orderly one may be.

**DSyncWatcher.** Types (`TypeInv`) hold for every client, and so does `ToldInv`, that the last callback of each pair fits what the pair
is; `CallbacksTell` follows from it. The rest is for a client that keeps the discipline (it waits for `SYNC_STARTED` and gives no timeout). A client that once gave it up
never gets it back, so a step has to be followed only while it lasts, and `IInv` is `TypeInv /\ ToldInv /\ (disciplined => Kept)`. The parts of `Kept` are those of `CarefulInv` without `Pause`,
with `WaitInv`: no wait has a timeout and `Stopping` is set only in one. `StopIsFinal` and `ProgramGoesOn` follow, and `ImplementsService`, in which a step that
gives up the discipline ends the service of `WatchService`.

**DUpdate.** Types (`TypeInv`) hold for any processes. The rest is about one process at a time, whatever fails and whoever dies at any step, and has two assumptions on the publisher.
`Ordered`: no release counts as newer than itself or a later one (1.10 before 2.0 would). `Bringing`: every release brings the executable. Without either an updater would find its own rules
newer than itself and go on as a downloader, as section 6 says of releases that lack the executable. `DiskInv`: each file is whole in place or in `Backup`, and what waits whole in `Update` is at least as new as both. `MainInv`: a program that downloads works with the rules on the disk and has the files before its item;
`DuryUpdater` is torn or at least as new as the rules. `UpdaterInv`: an updater is no older than its rules, so it never downloads; the files before its item are in place and gone from `Update`, and no later one is torn.
Since a file that is copied or moved is never one of those before the item, each step keeps this. `NoLoop`, `NoneOlder`, `MarkIsTrue` and `FilesSurvive` follow.
`ReleasesStayWhole` (`OneRelease`) adds `Whole`, that every release lists every file once: a file listed twice is gone from `Update` the second time, and `ApplyUpdate` stops there. Its invariant `CalmInv` says
that while nothing goes wrong `Update` is empty whenever nobody downloads or installs, and otherwise holds exactly the files that are not installed yet, all of the release in the repository. 

`NothingIsLost` (`NothingLost`) is about two processes in any interleaving. One at a time, it follows from `FilesSurvive`. Two at a time, while nothing fails, it is proved file by file. To a file a process
`Stand`s behind it (it may still download it), at it (`copyFile`, `unbackup`, `backup`, `install`), or ahead; `FileStep` lists what a step may do to the file's three copies when its process goes from one stand to another, and is all that
the `Seen...` lemmas, one to an action, have to say of them. `PairInv` relates the two stands to the copies. What it needs is that a process which has removed the copy in its place or in `Backup` is never overtaken by one that takes the other copy:
where one is between two moves (`OneSide`), the copy that is left is whole, or the other process is at the one place from which it cannot take it; a torn copy is one that somebody is still writing (`TornInv`), and `Waits` names the three moments when only `Update` holds the file.
Two releases may differ in everything but the files they list: `Complete` (every release lists every file) is needed. TLC shows the loss without it for four releases, one of which leaves out a file (section 6); and for three processes it is false (section 3),
so the theorem has two slots as a hypothesis.

**DPreferences.** `KeptInv` says where the settings are: until the first trouble in the file up to the moment it is opened, and in the copy from then on; after it,
only a `WriteSettings` that succeeds leaves `Save`. `SettingsKept` alone is not inductive, because it says nothing of a `Save` under way. `SettingsAreKept` follows for any trees and any bound on the troubles.

**DUdpServer.** The invariant follows a datagram from its arrival to the application: it is in one handler, of the strand or posted, and in the buffer
of that handler's session, which no longer receives and so keeps its endpoint and its bytes (`PendingInv`); no two handlers have one datagram, and none has one that was told.
For `AlwaysListening` the receives under way and the receive handlers of the strand are as many as the calls of `Run`. An answer under way belongs to such a session too. A call of `Send` that has not posted yet is either the last to have stored in its
session or among those the last one stored over (`SendsInv`), so that what is posted is its own or that call's (`Matched`). `DatagramsAreRight` follows for any clients, errors, threads and answers.

**DTcpServer.** `SentInOrder` says nothing of a connection that has failed or is dead, so `Sound` adds what keeps either from coming back: one that failed is
closed, one that is dead or not accepted yet writes nothing and is held by no one. For the others the numbers sent, in the buffer and waiting are consecutive and are all that were given (`Whole`).
`MessagesInOrder` follows for any number of connections, messages and timeouts.

**DRESTClient.** A call hands a record from part to part, so the invariant is about that record. `Clean` holds between calls: a link that is not up owes nothing, and while the client has been careful nothing is owed and nothing
is read ahead, and a response with header fields answers the last request. `Awaiting` holds between a request and its response: exactly that response is owed, or nothing is because the link is down, and `HttpResponse` has no fields. Each part takes `Clean` to `Clean` or to
`Awaiting` and back, and each call is a chain of parts. `OwnAnswers` follows for any Urls, bodies, settings and failures.

**DLog.** The files are read as lists of lines by their place (`LinesByPlace`): the second in a renamed file's name, and for the log file the second to come. `HoldsLast` says that with a message they hold every later
one up to the last, and that messages grow with place and line. A rotation gives the log file the current second, a place after all the others unless a file has that name already, which is the `gap`
of the property; and it deletes an initial part of the storage, because the sizes are added up from the newest file on, so that a file older than one that exceeds the limit exceeds it too (`OldestExceed`; by age the same). `LastFilesMoved` is the one lemma
behind rotation, refused renaming and the passing of a second: the last files under new names in the same order hold what they held. A message that the disk refuses leaves the files as they are, the last line of which is then the last message taken (`RefusedLines`). For `StorageBounded` the oldest file that is left did not exceed the limit, and what was added up to it is the whole storage that is left (`OthersWithinLimit`).
`MessagesAreKept` and `StorageIsBounded` follow for any sizes, limits, modes and failures, from `StorageAssumption`: sizes and limits are numbers.

**DFormLog.** Events and the list are read as numbers: each event of the queue leaves the window with the messages up to its own number. Until the code has lost a message or connected twice (`excused`, `links`), the events of the queue
count on from what is shown to the last message told (`Counts`), each reading that has ended has read all that was told, a list that is not whole will be replaced by an event or a reading that is still to come, and while a load
is pending the spinner runs. `ListIsRight` follows for any number of messages, loads and connections.

**DPath.** That a file is in the source or in the destination says nothing of whether the copy will get to it before `MoveDir` removes the source. `DirsInv` says that each watched file (of the source, written by nobody else) has arrived
in the destination or is at or below an entry that a frame of the stack has left. To keep that, a frame must find the next directory on the way to the file: so the source keeps its directories (`SourceInv`), because
a copy writes outside of it (`TargetOutside`, where neither directory is in the other) or, onto itself, can only make directories of directories (`TargetOnItself`). And an arrived file must stay: two entries
share no target but for an entry and its directory (`TargetsDiffer`), which is not a file. `RemoveAll` then takes nothing that has arrived. A copy to a directory above its source (`Climbing`) stays one, and of it nothing is claimed. `CopiesAreSafe` follows for any trees, calls, failures and whatever another program writes,
with the assumptions `PathsAssumption`, `TreesAssumption` and `JobsAssumption`. `FilesAreRight` has its own invariant, `FilesInv`: what has changed was found by the search or written by
somebody else, and while nobody else has written, the count is the number of files that are gone. The laws of the searches need no recursion: a recursive search is the set of all entries below, and `ParentIs` finds the directory of each.

**DTree.** The model's functions are recursive, so the facts about them are inductions, along a path or over the children of a node. They are done by sets: the numbers for which a fact holds have 0 and the next of each, so that
they are all (`AllNumbers`, from the least of a set of numbers, `MinimumExists`); and that a recursive function is what its definition says follows from one that is, made a step longer each time (`WayExists`, `MadeExists`, `ErasedExists`).
A tree is a node of a set that has every node below each of its own (`IsTree`), of any depth; that is the invariant, and every edit keeps it (`EditsMakeTrees`). An edit at a path changes, in each node on the way, the first child of one name
(`WithKidFacts`). So a path that leaves the changed one finds at the next node what it found before, and so on to its end (`ReadApart`); one that goes through the changed node finds the new one (`ReadBelow`), and one that ends above it a node with
the same text (`ReadAbove`). An item without a name, of a section that is not there, goes to a child without a name that no path of the reads passes (`MislaidIs`). `erase` leaves no child of the name, and of the others the first is the same (`EraseFacts`). `TreeIsRight` follows for any names, values and sections, with the assumption `TreeAssumption`: sections are paths of names, and values are texts.

`SingleWorker` and `IsWatchingTruthful`, which `OneWorker` and `IsWatchingIsTrue` prove, are
not listed in a run of their own: they are parts of `CarefulInv`. The same holds for `TypeOK` of `DPathWatcher`, `DSyncFile` and `DSyncWatcher`, `NoUseAfterDestroy` and `OutageReportedOnce`, whose theorems are stated for every client and user, and for `NoFutureError` of `DSyncWatcher`, which concerns its disciplined client.

Only model-checked:

- all liveness (`StopReturns`, `EveryPairChecked`, `Converges`, `CatchesUpUnlessStopped`, `UpToDate`, `ClosedInTheEnd`), which is out of the prover's reach;
- `Utf8Right` and `TextLaws`: laws of recursive functions on bytes and texts, compared with reference definitions that are recursive too.

## 6. What the runs show to be wrong

| Run | Code | What happens |
|---|---|---|
| `dpw_restart_after_setstop` | `DPathWatcher.cpp:393` | `Watching` is cleared before the promise is set. A client that follows the doc (line 410: call `IsWatching` to see when the thread is closed) and then starts again makes the old thread satisfy the new promise; the new one throws and the program ends. |
| `sync_failed_copy` | `DSyncFile.cpp:89` | A copy that fails after Dest was truncated leaves a broken Dest newer than Source, and every later call says that no sync is needed. |
| `dsw_lost_stop` | `DSyncWatcher.cpp:216` | `StopAndWait` right after `Start` is erased by the thread's own `NeedToQuit = false` and, having no timeout, never returns. |
| `pathwatch_stopped` | `DPathWatcher.cpp:323` | The stop request outlives the thread: every one-shot `Check` then leaves each directory after its first entry. |

Seen while modelling, present in the models as behaviour, without a run of their own:

- `DPathWatcher.cpp:428`: after a timeout `Stopping` stays set, so the next `SetStopAndWait` succeeds
  without waiting and `ClearWatches` clears under the thread; the doc at 421-423 promises a wait.
- `DPathWatcher.cpp:391`: `IsWatching` is false while the thread still calls back.
- `DPathWatcher.cpp:363`: a `Pause` before the thread's own `Paused = false` is lost.
- `DPathWatcher.cpp:104`: the time of a watched file is cut to the second, so a second write in one second is not a
  change; `PathWatch` counts in the times the code compares.
- `DPathWatcher.cpp:43`: a watch of a path that is not there leaves `IsDirectory` and the time unset.
- `DSyncWatcher.cpp:251`: the destructor right after `Start` frees the object under the thread.
- `DSyncFile.cpp:85-93`: a source rewritten in the second of the copy is never copied, so
  `NoNeedIfOrderly` and `Converges` need a user who waits for a later second.
- `DPath.cpp:378`: the safe copy removes Dest first, so a failing copy leaves none.
- `DUpdate.cpp:45, 311, 343`: with releases that lack the executable, an updater whose
  `ApplyUpdate` fails goes on to `DoUpgrade` and starts the next updater, for ever. `NoUnwantedLoop` is
  therefore stated for releases that bring it.
- `DUpdate.cpp:554`: files a failed download left in `Update` are not overwritten and make every later update fail.
- `DUpdate.cpp:516`: a Replace list names the files of one release; a program that skips a release misses the files
  only that one changed. And a second process that installs such a release empties `Update` (725) while the first still needs a file that waits there and nowhere else. The models' releases list every file.
- `DUpdate.cpp:515`: 1.10 counts as 110 and is above 2.0; a version that no `int` holds is 0.
- `DUpdate.cpp:435`: the result of copying the program to `DuryUpdater` is ignored; a torn copy may be run.
- `DUpdate.cpp:160`: `Init` overwrites `Ready`.
- `DUpdate.cpp:84-95`: the documented example of `UpdateRules.json` has no `Action`, and is refused by `ApplyUpdate`.
- `DLog.h:521-523`: what `fprintf` and `fflush` answer is ignored, so that a full disk drops messages without a word. `DeleteOldestFile` (350, 379, 397) may throw out of `Write`.
- `DLog.h:489`: a rename that fails leaves `LogToFile` set with the file closed; the next message is written to a null `FILE`. A log whose directory cannot be made, with stdout off, logs nowhere (150-177).
- `DLog.h:345-416`: any file whose name contains that of the log counts, and may be deleted, as an old log. Names are local times, so an hour repeats in autumn.
- `DPreferences.cpp:98-105`: the settings file is emptied before it is known that the tree can be written. `Load` (52-67) clears `Ready` for a missing file and nothing sets it again; a file that cannot be parsed leaves it set.
- `DSyncFile.cpp:111`, `DPath.cpp:388`: a Source written in place while `copy_file` reads it leaves a mixture of both contents in Dest and the answer
  `SYNC_DONE`; Dest is then the newer file, so that no later call repairs it.
- `DSyncWatcher.cpp:58-61, 177-180`: one `CALLBACK_WATCHER_SYNC_ERROR` tells a missing source, equal paths and a failed copy. Without `SyncNow`, `AddSync` makes no callback, and a pair that
  was added without its source is counted by `GetSyncErrors` and never told.
- `DTree.cpp:502-652`: an item without a name is the text of its section if that is there; if not, a build with assertions ends, and another one writes it where no read finds it. `WriteArray` without a name (696) makes a child without a name.
- `DTree.cpp:524-536`: with an empty section an item is written below a child with an empty name, and read at the root. `DeleteItem` (713-727) is true only if the section is empty afterwards. `WriteTree` and `WriteArray` onto a name that exists add a second one that no read finds.
- `DUTF8String.cpp:193-221, 347-362`: `assign` and `pop_back` keep the cached length. `length` (440-451) never returns on a text cut within a code point. `replace_kmp` and `replace` differ on overlapping matches. `test/dutf8string_test.cpp:123,140` calls `insert_codepoint` with its arguments swapped.
- `DString.cpp:298-311`: `EndsWith`, "true if #str ends with #pattern", is true for every pattern one character longer than the text; `SearchLaw` leaves that length out. `ToInt` is said (160, 179) to give 0 or the default "if no numbers in string", and does so whenever the text does not begin with one, as for `a1`; `NumberLaw` is about texts without any digit. `CutL` throws where `CutR` keeps everything. `ToInt` ignores a `+`. `RemoveAllStr` with an empty pattern never ends. `IsDouble` refuses a single digit.
- `DCsv.cpp:18-66`: a row goes on after the end of a line and beyond `MaxFieldsCount`; a last empty field is dropped; a field number that is too large returns the last field (102-129).
- `DStringGrid.cpp:72-97`: `SetRow` with a row that is too long adds as many columns as it has items. A blank line of a file becomes an empty row, whose save is undefined.
- `DUri.cpp:40-94`: a URI that does not parse, or has no authority, leaves the old parts; `Clear` leaves `Valid`. Bytes below 16 are encoded with one digit (143-157); `EncodePath` and `EncodeFragment` leave a `%` alone, so that decoding changes the text.
- `DRESTClient.cpp:240, 246, 690`: `Clear` "all buffers, request, response" and `Send` call `HttpResponse.clear()`, which removes the header fields only: the status and the body stay, and the next body is appended to it.
- `DRESTClient.cpp:638-663`: `SendPUT` and `SendGET` never connect, and return false though they have sent when they do not wait. A write or read that fails leaves `Connected`; `Buffer` outlives the connection; a later GET carries an earlier body; `Connect(true)` that cannot resolve leaves the old socket open; `expires_after` has no effect on the blocking calls.
- `DTcpServer.cpp`: `Close` while writing waits for nobody (156-162); the lock of `Write` and of the write handler is the same, so a callback of the latter that writes blocks for ever; `OnClosed` is called for connections that were never accepted.
- `DUdpServer.cpp:71, 120`: of two `Send`s for one session on two threads the second's memory may be sent with the first's length, and the first's never.
- `DUdpServer.cpp`: the session's buffers are never freed; `OnDataSent` shows the buffer of a later `Send` (27-34); an error of a send is reported after it was reported as sent; `Run` in two threads starts two receives.
- `DPath.cpp:711, 714, 1033, 1036, 1321, 1324, 1375, 1378`: the flags for the whole name and the whole extension are said to be ignored ("Ignorato") for a list of more than one string, and are not; `SearchesRight` has the
  comments' meaning where both agree (`AsDocumented`), and shows that each pattern of a longer list counts as it would alone.
- `DPath.cpp:723-1280`: the search for one of several names looks at `ExtWholeWord`, the search for all extensions at `NameWholeWord`; `ListDirs` looks for the name in the pattern when case counts (814), and keeps the dot of the extension in the search for all.
- `DPath.cpp:500, 514`: `CopyDir` without a callback calls it when the parent of Dest is missing or the directory cannot be made, and so throws. `MoveDir` removes special files it has not copied, and files written after the copy. A copy into itself does not end. `MoveDir("a/b", "a")` copies `a/b/b/f` to `a/b/f`, removes `a/b` and answers that it succeeded.
- `DPath.cpp:69-124`: `ChangeExt` to the extension a directory already has moves it onto itself: a directory without regular files is deleted.
- `DPath.cpp:417-466`: `Copy_File_Posix` does not truncate, ignores what `read` and `write` return, and tests the source for `OverwriteExisting`.
- `DFormLog.cpp:117-145`: a message told after a reading has met the end of the file and before its result is posted is missing from the list until the next load; so is one told
  and not yet written at that end, because `DLog::Write` calls back first. `SetDLog` (109) connects once more each time, after which every message is shown twice. A reading that cannot open
  the file leaves the list empty. The constructor (44) dereferences a null log. The destructor takes the callback away without a lock.
- `DWindow.cpp:25, 64`: settings that are not ready are never freed. A window without a saved position is restored with size 0, and the call returns true.

## 7. What is not modelled

- *Memory order.* Interleavings of single accesses; a compiler that keeps a plain bool in a register is left out.
- *Callbacks that block or call `SetStopAndWait` on their own thread.* The wait ends with its timeout; a callback of the models calls `SetStop` or `Stop` only.
- *A one-shot `Check` while the thread runs*, in `DSyncWatcher`: two threads in one `DSyncFile`.
- *Texts*: statuses as strings, logs, formatted times.
- *`DUpdate`*: authentication, directories that cannot be made, the rules of another program (`AppName`), the values of Modify beyond "set" and "refused".
- *`DTcpServer`*: a due timer of a connection that is gone (undefined), and callbacks that write.
- *`DRESTClient`*: the asynchronous calls, which are comments in `DRESTClient.h`.
- *`DPath`*: the age and the permissions of a file, which read one value of the system each; the Windows branches; a copy of a directory into itself.
- *`DString`*: `ColorStringToInt`, a table. *`DUri`*: the regular expressions themselves.
- *`DVector`, `DValue`, `DChrono`, `DSettings`, `DShell`, `DWindow`, `DNetwork`, `DError`*: lists with an index test, formatting of times, or one call of the system each.
- *`DFormLog`*: its destruction, the rotation of the file it shows, and its colours and buttons.
- *The rest of the Qt layer, examples, build files*: nothing they decide outlives a call.

The hazards in `PROJECT.json` that name no property say which of these leaves them open.

## 8. Plan

Order of work; what is done is marked.

1. Watchers: `WatchService`, `DPathWatcher`, `PathWatch` (done), proofs of the life cycle (done).
2. Synchronising: `SyncOutcomes`, `SyncEntry`, `DSyncFile`, proofs (done), `DSyncWatcher` (done).
3. Self-update: `DUpdate` (done).
4. One run for the two users of `DSyncFile` (done: `sync_users`).
5. The rest of the library, a module each and one run for all (done): `DLog`, `DPreferences`, `DTree`, `DPathList`, `DPathDirs`,
   `DUTF8String`, `DString`, `DCsv`, `DStringGrid`, `DUri`, `DRESTClient`, `DUdpServer`, `DTcpServer`, `DFormLog`.
6. Proofs for the safety properties of the runs (done): `DSyncWatcher`, `PathWatch`, `DUpdate`, `DPreferences`,
   the servers, `DRESTClient`, `DSyncFile`, `DFormLog`, `DPathDirs`, `DLog`; `NothingLost` of `DUpdate` for two processes, and, by inductions over sets of numbers,
   `TreeRight` of `DTree` (done). `Utf8Right` and `TextLaws` are left to TLC.
7. A callback of the watchers that waits for its own thread, and a one-shot `Check` beside the running thread.
8. A run for the update loop of releases without the executable, and one for leftovers in `Update`.
