# ps3mgr, verified: TLA+ models, model checking and proofs

`ps3mgr` is one Go process that moves games between a PC and consoles: it
uploads to and downloads from PS3 and PS5 over FTP, makes a PS4 with Remote
Package Installer fetch packages from a temporary HTTP server, and writes PS2
games to a USB drive. This directory holds models of its concurrent core, the
TLC runs that check them on small instances and proofs that TLAPS checks for
every instance.

## 1. Inventory

| Component | State | Operations | What is hard |
|---|---|---|---|
| Transfer queue, `internal/transfers/manager.go` | `items`, `pending`, `paused`, `closed`, `activeID`, `cancel` under one mutex | Enqueue, Cancel, Retry, Pause, Resume, ClearCompleted, Close; the `run` goroutine | handlers between the critical sections of the worker; stale and repeated ids in `pending`; stop on error; `Close` waits for the worker |
| PS4 install queue, `internal/ps4/queue.go` | the same, plus `TaskID` and `ContentURL` per job, and the active context | the same, plus PauseJob, ResumeJob, ReconcileOrphanedTasks | the install lives on the console and outlives the process; requests without the lock; adoption of an existing task; base game before patch |
| Task file, `internal/ps4/taskstore.go` | `.rpi-pending-tasks.json` | Add, Remove, List | a crash between the request and the write; a failed rewrite |
| RPI client, `internal/ps4/rpi.go` | none | Install, FindTask, Progress, IsInstalled, Cancel, Pause, Resume, Detect, FreeSpace | lost answers; non-standard JSON |
| Package server, `internal/ps4/content.go` | path to file map, mounts | Register (returns a clean-up), Start, Close, index and package requests | URLs that outlive their registration |
| FTP, `internal/ftp` | a connection per attempt, `.part` files | UploadGame, DownloadGame, Compare, Probe, Delete | three attempts with resume, refused REST, SIZE modulo 2^32, cancellation |
| PS2 USB queue, `internal/ps2/queue.go` | like the transfer queue, plus the state PAUSED | like the transfer queue | the drive vanishes and pauses the whole queue |
| PS2 fake-PKG queue, `internal/ps2/fpkg_queue.go` | like the transfer queue | like the transfer queue | cancellation while a package is built |
| OPL writer, `internal/ps2/opl.go` | `ul.cfg`, part files, `.partial` files | InstallGame, Verify | crash, cancellation or an unplugged drive between parts and record; an update of `ul.cfg` that fails half-way; records found by a cut title |
| Fake-PKG builder, `internal/ps2/fpkg.go` | a workspace, the output file | Build | every step may fail and leave the workspace or half a package |
| Orbis builders, `internal/orbis` | an image and a package being written | LayoutPFS, Build, OpenPackage | block arithmetic at every boundary; the order of signing, encrypting and hashing; workers that share one error |
| USB watcher, `internal/ps2/usb.go` | mounted drives, a goroutine | Start, Close, Refresh, Select | a drive that goes while it is selected |
| Network scanner, `internal/scanner` | none | Scan | a worker pool with two unbuffered channels and a cancelled context; a detector that waits for a server |
| Event bus, `internal/events` | subscribers | Subscribe, Publish | a slow subscriber; Publish against unsubscribe |
| Console registries, `internal/app`, `internal/ps4/service.go`, `internal/ps5/service.go` | map of consoles | Scan, AddConsole, PruneOffline, Refresh | a probe without the lock, the deletion after it; one address written in two ways |
| Libraries, covers, FPKGi lists, configuration, web routes, command line | caches at most | scans, parsing, rendering | mostly pure functions or I/O |

How they interact. The web routes decode a request and call one handler of a
queue. Each queue owns one goroutine and one mutex and publishes to the event
bus after it has released the mutex. The transfer queue calls FTP and waits for
it. The PS4 queue registers URLs with the package server, calls the console
through the RPI client, and writes the task file. The service creates the PS4
queue and starts its reconciliation in a goroutine (`service.go:231-235`), so
both use the file and the console at the same time.

What makes each correct:

* transfer queue: a waiting job is never forgotten or starved, one job runs at a
  time, a cancelled job does not start, stop on error stops the rest of the
  submission, `queue.completed` is not premature, `Close` returns;
* PS4 queue: the same ordering, and: no task is left on the console without a
  record of it, URLs answer only during the install they belong to, a followed
  task is neither unregistered by another actor nor without its URLs, a
  cancelled install ends although the console does nothing;
* FTP: a file that is reported as transferred is whole, resuming loses nothing and
  counts nothing twice, a call ends however the server behaves;
* PS2: a record of `ul.cfg` names parts that exist, cleaning up removes all that a
  cancelled job wrote, a paused queue resumes with the job that paused it;
* fake packages: a built package opens as the tree it was built from, nothing that a
  signature or digest covers changes after it was taken, and the name of a package
  never stands for half of one;
* scanner, bus, watcher: no goroutine is left blocked, no send on a closed channel;
* registries: a console is forgotten only by a prune that probed it in vain, and its record
  stands under its own address.

`PROJECT.json` lists the hazards at their lines, each with the properties that
cover it, or the reason why none does yet.

## 2. Modules

| Module | Role |
|---|---|
| `WorkQueue` | abstract specification: what a job queue promises its callers |
| `TransferQueue` | the transfer queue, and its refinement mapping to `WorkQueue` |
| `TransferQueueProofs` | TLAPS proofs about `TransferQueue` |
| `RemoteInstaller` | the console with its tasks, as the RPI client sees it (external) |
| `PS4Queue` | the PS4 queue, the task file, the package registrations and recovery, composed with `RemoteInstaller` |
| `FTPTransfer` | one file over FTP: download, upload, their attempts, and the server |
| `PS2Queue` | the USB queue and the fake-PKG queue of PS2, with the drive and the manager that watches it |
| `PS4QueueProofs`, `FTPTransferProofs`, `PS2QueueProofs` | TLAPS proofs about them |
| `OPLFilesystem` | installs on an OPL drive: files, parts, `ul.cfg` and their clean-ups |
| `PFSLayout` | pure: trees, inodes, directory blocks and path tables of an inner image, and the reader that goes back |
| `PackageImage` | `orbis.Build`: the PFSC container and the outer image around it, writing, signing, encrypting and hashing, and `OpenPackage`, over `PFSLayout` |
| `FPKGBuilder` | `ps2.FPKGBuilder.Build`: workspace, tree of the game, `PackageImage`, output file |
| `PS2Conversion` | a PS2 game on its way to a drive (`OPLFilesystem`) or into a package (`FPKGBuilder`) |
| `EventBus` | `events.Bus` |
| `ScanPool` | `scanner.Scanner`: feeder, workers, collector, cancellation |
| `Consoles` | the console maps with scan, prune and visits, composed with `ScanPool` and `EventBus` |
| `ConsolesProofs` | TLAPS proofs about `Consoles`, `ScanPool` and `EventBus` |
| `PFSLayoutProofs` | TLAPS proofs about `PFSLayout`: an inner image is read back as its tree |
| `FPKGBuilderProofs` | TLAPS proofs about the entries of a package, `PackageImage` and `FPKGBuilder` |
| `PS2ConversionProofs` | TLAPS proofs about the drive, and the theorems of `PS2Conversion` |
| `MCTransferQueue`, `MCPS4Queue`, `MCPS2Conversion`, `MCConsoles` | instances for TLC (`FTPTransfer` and `PS2Queue` need none) |

`map` in `PROJECT.json` gives the lines of the source each definition models.
Definitions that begin with the name of another one and are marked *Mutant* are
plausible bugs of that definition. No specification uses them; each shows that
one property of one run notices the bug.

### TransferQueue

One action is one critical section of `Manager.mu`. The constant-free part is
plain: `state` and `queueOf` are `items`, with `ABSENT` for an id without entry;
`pending`, `paused`, `closed`, `activeID` are the fields; `stopped` says whether
the active context is cancelled. `pc` and `item` are the worker's program counter
and its local variable. The worker's sections are `Skip`, `Claim`, `Exit`
(the wait loop, 234-255), `StartTransfer`, `TransferFails`, `TransferSucceeds`,
`Complete` (`process`), `Settle` (264-271) and `Announce` (272-274). Handlers may
run between any two of them. `outcome` and `retried` are history variables for the
properties and constrain nothing. Byte counts, times and event payloads are left
out. `Close` is two things in the code, closing and waiting for `done`: the
waiting is the property `CloseReturns`.

### PS4Queue and RemoteInstaller

`RemoteInstaller` is external: a task is running, paused, finished or broken, or
not registered; one task per content ID; downloads proceed only while the task's
URLs answer (`live`). What each request does to it follows `rpi.go`, in
particular `Cancel`, which is two requests and can fail after none, one or both
of them were obeyed (`AfterFailedCancel`).

`PS4Queue` adds to the state of the transfer queue the followed task (`taskID`),
the error that `process` is about to return (`err`), whether the worker's snapshot
of the job is empty because a user cleared it (`have`), a PauseJob or ResumeJob in
flight (`call`), the task file (`store`) and the progress of
`ReconcileOrphanedTasks` (`recovery`). A claimed job stays `WAITING` until
`Validate`; that window is in the code and is modelled. `process` is the chain

    claimed -> snapped -> validating -> serving -> requesting
      -> (adopting | installing) -> registered -> tracking -> polling
      -> verifying -> untracking -> finishing -> settle -> (announce) -> idle

with `cleanup` (the deferred unregister) before `untracking` on every failure
after registration, and straight to `finishing` on failures before it. `Restart`
ends the process at any point and starts a new one: queue, URLs and calls are
gone, file and console stay, reconciliation starts with the file's contents.

### FTPTransfer

A file is a sequence of blocks. `dst` is where it arrives: the `.part` file of a
download, the remote file of an upload. `dir` chooses between `downloadFile` and
`uploadFile`, which have the same shape and differ in details that matter: a
download gives up after a dial that timed out and an upload does not (`Fail`,
`DialFails`), a download compares the `.part` file with SIZE before it connects the
data stream and an upload the remote file (`AcceptPart`, `DiscardPart`,
`ContinuePart` against `SkipUpload`, `ResumeUpload`), and the two directions put
the truncated size on different sides of `sizeConsistent`. One action is one FTP
command with its reply, one block sent or received, or one decision. An attempt is

    starting -> dialing -> sizing -> opening -> (redialing) -> data -> acked
      -> verifying -> ended

and every failure goes to `backoff` or `ended`. The server (external) may lack
SIZE or REST, truncate SIZE, drop the connection at any point, lose the blocks in
flight, acknowledge a transfer that stopped early, and answer after the deadline
(`LateReply`). `Again` is a further call for the same file, by a Retry of the queue
or by a new process after a crash at any point. `foreign` marks a destination
left behind by another file of the same name.

### PS2Queue

The two PS2 queues are the same program with and without a drive, so one module
models both and `kind` tells which. There is no Pause or Resume: `paused` is set
only by `Finish`, when a job of the USB queue returns `ErrUSBUnavailable`, and
cleared by `Retry` of any job and `Cancel` of a paused one. `drive` is whether the
drive is plugged in, `known` whether the last `Refresh` listed it; `Validate` and
`Explain` refresh before they look, `Verify` does not. `installer.Process` is

    claimed -> preparing -> installing -> (refreshing ->) verifying -> finishing

and `FPKGBuilder.Build` is `claimed -> building -> finishing`. All stages that a
running job reports are one state, `BUSY`: the handlers treat them alike. What is
written to the drive and the builder's workspace are the subject of `PS2Conversion`;
the events, `ps2.queue.completed` with its `queueDoneLocked` among them, are left
out.

### PS2Conversion: OPLFilesystem and FPKGBuilder

`OPLFilesystem` is `InstallGame`. `files` maps the names on the drive to their sizes
in chunks, `temps` the `.partial` files; a step creates a file, writes a chunk, syncs
or renames, as the code does in that order, and every one may fail. `cfg` is the
list of records of `ul.cfg`, `torn` says that it ends within one, and `dirty` that it
has been renamed without a sync, so a drive that is pulled out may lose it (`Flush`
is the system writing it back). `upsertULRecord` writes the new list to
`ul.cfg.partial` (`update`) and `CommitConfig` renames it; either may fail
(`usbExtremeFails`), and then `ul.cfg.partial` stays, as the clean-up does not name it.
The next update overwrites it. A game stands for its serial; `Title` is its title
cut to the 32 bytes of a record, so that two games can share one. `Cancel`,
`Unplug`, `Plug` and `Crash` are possible at any step, and the ISO may be another
one than when the library was scanned (`iso`). `excused` holds the games whose
files an unplugged drive, a dead process or a game of the same title left behind.

`PFSLayout` has no state. Sizes are in units of eight bytes; a name is a number in
the order of the strings it stands for; an image is a function from block numbers to
contents. Its operators follow `pfsbuilder.go`: nodes and inodes in their order, where
each of them begins, directory entries that never cross a block, the flat path table
with its collision lists, and what `writeData` writes one after the other (`Extents`; a
block holds what was written to it last). A block of the table or of the resolver has
the entries of which it has a part (`EntryBlock`). At most `Direct` blocks are reserved
for either (`Reserved`, 12 in the code), all of it is written, and the nodes are written
over the rest. The reader (`pfsReader`) goes the other way
and is written from `pfs.go` and `pfsreader.go` on its own: inodes from their blocks,
the chain of entries of a directory block, and `loadDir` level by level (`Levels`) where
the code recurses. `Lookup` is the console's way, by the hash of a path: it knows an entry
only if every block the entry touches still has it (`Intact`). `ReadsBackAs` compares the
two ways with the tree, the second where `TablesFit`. All of it is recursive functions and
sets, so that it can be proved about.

`PackageImage` is `orbis.Build`. A digest, a signature or an encryption is not
computed. A block and a region of the package have a revision that each write raises
(`rev`, `regions`), a sector counts how often it was encrypted (`enc`), and a signature
or a digest remembers what it covered (`slots`, `seals`). `parallelDo` hands out
indexes to `Workers` goroutines: `next`, `busy` and `failing` are its counter, what
its workers are on, and its first error. `ReadPackage` is `OpenPackage`: a block that
is not encrypted exactly as often as the reader decrypts it, or that holds signatures
beside its data, is read as zeroes.

`FPKGBuilder` unpacks one of `Templates`, adds the ISO, the configuration and the
artwork, lets `PackageImage` pack the tree, and moves the result to the output
directory: a rename, or a copy when the rename is refused. `output` says what has the
name of the package; others may put a file there.

The two share only the ISO, which both just read. A behaviour of `PS2Conversion`
therefore follows one of them (`target`), and one run checks both.

### Consoles, ScanPool and EventBus

`EventBus`: `subs` and `closed` are the open and the closed channels, `chan` the
events that wait in each, `pub` what each `Publish` in progress still has to serve
under the read lock. `Subscribe` and `Unsubscribe` need the write lock, hence
`Readers = {}`.

`ScanPool`: `hosts` is what the feeder still holds, `worker` what each worker is on
(idle, dialling, detecting, waiting to deliver, done), `scan` the step of the caller.
The detectors of PS3 and PS5 list a directory over FTP, and only the server ends that:
`Detect` is apart from the other steps of a worker (`WorkerStep`).
The channels have no buffer, so `Feed` and `Deliver` are a send and a receive in one.
`Enumerate` computes the addresses from an address and a prefix length.

`Consoles` composes both with the map that `app.Service`, `ps4.Service` and
`ps5.Service` keep. A key of the map is a text: an address as `String` writes it
(`plain`) or another way to write it, such as `::ffff:192.168.0.5`, which `validateIP`
turns into the first. The services differ in their visits only, so `visit.kind` tells
which of them asks: `AddConsole` detects before it registers, the others register first
(`EnsureConsole`, under the normalised address) and write back what they learnt under
the text of the request, `ps4.Compare` a copy and `ps5.RemoteGames` whatever record it
finds there by then. `PruneOffline` takes a snapshot, probes without the lock and
deletes. Each publisher is a request in a goroutine of its own.

## 3. Runs

| Run | Checks | Instance |
|---|---|---|
| `transfers_safety` | `TypeOK`, `WaitingIsQueued`, `OneInFlight`, `StoppedQueueStaysStopped`, `AnnouncedQueueIsFinished`, `CancelledNeverStarts` | 3 jobs, 2 submissions, 3 entries in `pending` |
| `transfers_liveness` | `ImplementsWorkQueue`, `WaitingIsServed`, `CloseReturns` | 2 jobs, 2 submissions |
| `transfers_stop_on_error` | `StopOnErrorCancelsRemainder` is violated | 2 jobs, 1 submission |
| `ps4_queue` | `TypeOK`, `OneActiveJob`, `FailureDragsItsQueue`, `OrphansAreTracked`, `UrlsAreRevoked`, `CancelledStartsOnlyIfClaimed`, `CancelEnds`, `CloseReturns` | a base game and its patch, 1 task, no restart |
| `ps4_recovery` | `OrphansAreTracked` | one game, 2 tasks, 1 restart, PauseJob and ResumeJob |
| `ps4_adopted_task` | `FollowedTaskIsKept` is violated | one game, 1 task, 1 restart |
| `ps4_adopted_urls` | `FollowedTaskIsServed` is violated | one game, 1 task, 1 restart |
| `ftp_transfers` | `TypeOK`, `CopyIsWhole`, `WholeIsAccepted`, `ProgressIsExact`, `ArrivedIsKept`, `CallEnds` | files of up to 3 blocks, every server, both directions, 2 calls |
| `ps2_queues` | `TypeOK`, `OneActiveJob`, `PausedIsResumable`, `ResumedGoesFirst`, `CancelledStartsOnlyIfClaimed`, `WaitingIsServed` | 2 jobs in either queue, a drive |
| `ps2_conversion` | `GamesAreWhole`, `FailedInstallLeavesNothing`, `OutputIsWhole`, `ReadsBack`, `SealsAreFinal`, `EntriesFit` | four games on a drive; three emulator packages, two ISO sizes, with and without extras, 2 workers |
| `consoles` | `ScanIsComplete`, `SendsAreSafe`, `RegistryIsSound`, `ScanEnds` | 2 workers, two networks, a scan, a prune, a visit under either way to write an address, one event stream |
| `ftp_wrapped_size` | `DownloadIsVerified` is violated | files of up to 3 blocks, SIZE modulo 2, 1 call |

### What the runs show

The passing runs show that, on these instances, no interleaving of handlers,
worker, console and recovery breaks the listed properties. Two of them have a
condition that the code imposes and a reader may not expect:

* `CancelledStartsOnlyIfClaimed`: a PS4 job that is cancelled after the worker has
  claimed it and before `process` has set `VALIDATING` is marked `CANCELLED` and
  then installed all the same. The transfer queue has no such window: `Claim` sets
  `STARTING` under the same lock (`CancelledNeverStarts`). Both PS2 queues have the
  window too.
* `OrphansAreTracked`: `excused` names the tasks that may be on the console and
  not in the file. These are the ones whose record was never written (a crash
  between the install and `tasks.Add`, a failed write, a lost answer to the
  install request) and the verified ones. Every other task stays in the file until
  the console has confirmed that it is gone.

The FTP properties name their exceptions, each of which is what the code does:

* `CopyIsWhole` says nothing of a file that no SIZE was answered for. An upload
  whose last SIZE goes unanswered is accepted unverified even by a server that
  implements SIZE; a download falls back on the answer it got before.
* A part of another file is continued when it is shorter than this one, since only
  lengths are compared. The result has the right size and the wrong contents.
* `ArrivedIsKept` excepts a late reply: the error of a SIZE that missed its
  deadline is ignored, its reply is then read as the one to REST, and the `.part`
  file is started over as if the server could not resume.

In `PS2Queue`, a job that is cancelled when its drive is already gone ends as
`PAUSED` and not as `CANCELLED` (`Explain`), and pauses the queue. A `Retry` of any
other job resumes a paused queue although its drive may still be gone; the jobs
that follow are then paused one by one, and `PausedIsResumable` says that the
queue never ends up paused without one of them.

Of the OPL writer the runs say what it does not promise, too. `ul.cfg` is matched by
title or image, so the record of a game goes when another one with the same cut title
is installed, and its parts stay (`excused`). A process that dies leaves its
`.partial` files and parts; nothing looks for them later. `GamesAreWhole` needs none of
these exceptions.

An install that fails leaves no part and no unfinished file but one:
`FailedInstallLeavesNothing` excepts `ul.cfg.partial`, which stays when writing or
renaming it fails. A drive that is pulled out while it is renamed may lose the end of
`ul.cfg` or of `ul.cfg.partial` (`Left`).

`ReadsBack` demands that a path be found by its hash only where path table and resolver
fit in the blocks that are reserved for them (`TablesFit`). The run has a tree whose
resolver does not, and without the condition TLC shows a path that is not found: its
entry is in a block that a node was written over. In the code this takes more than
98,304 hashes, or collision lists of more than 768 KiB.

`RegistryIsSound` has two parts. `DetectedStaysKnown` allows `PruneOffline` to delete a
console that has been registered again since it was probed: the deletion goes by
address. `RecordsAreFiled` names the records that do not stand under their own address.
A visit that writes the address in another way leaves a second record under its own
text, and a visit of `ps5.RemoteGames` one without an address: under that text, or under
the address itself if a prune has deleted the console since the visit began.

The violation runs show four disagreements between documentation and code:

* `StopOnErrorCancelsRemainder` (README.md:375): `run` reads `item.State` after
  `process` has released the lock. If a user retries the failed job in between,
  the failure is not seen and the rest of the submission continues.
* `FollowedTaskIsKept` (README.md:286): reconciliation runs beside the new queue.
  It unregisters a task that a job has meanwhile adopted, which fails that job.
* `FollowedTaskIsServed` (comment at queue.go:458-463): an adopted task still has
  the URLs of the process, or of the attempt, that registered it, and those no
  longer answer, so its download cannot go on.
* `DownloadIsVerified` (README.md:371): on a server that answers SIZE modulo 2^32, a
  `.part` file that was interrupted at exactly the answered length is accepted as
  complete, for example 1 GiB of a 5 GiB package.

A fifth thing to know is no run of its own: a scan may hang. The comment at scanner.go:21
says that `DetectionTimeout` applies once the port accepts a connection. The detectors of
PS3 and PS5 read a listing without a deadline and look at the context between two reads
only, so a server that keeps the data connection open keeps the worker, and `Scan` with
it, for good. `ScanEnds` without its condition is violated by just that.

### Bounds

| Bound | Meaning | Why it is enough |
|---|---|---|
| `MaxJobs`, `MaxQueues` | jobs created, calls of Enqueue | every property relates at most two jobs; a third one in another submission shows that queues do not disturb each other |
| `MaxPending` | a Retry is offered only while `pending` is shorter | with as many entries as jobs, stale and repeated ids occur; ids are only compared, so longer queues repeat them |
| `MaxTasks` | tasks that console, file or worker know at the same time; an id nothing refers to is taken for a fresh one, since the console does not reuse ids | one job follows one task; the second one is a lost or left-over one |
| `MaxRestarts` | restarts of the process | a second restart finds nothing the first one cannot leave behind: file and console are all that survives |
| `PausableJobs` | jobs that PauseJob and ResumeJob are called for | only the active job accepts them; they are left out of the run with two jobs to keep it small, and are in the recovery run |
| `MaxJobs`, `MaxPending` of `PS2Queue` | as above | with two jobs both may be paused, and with three entries a stale id stands before, between and behind live ones |
| `MaxSize`, `Wrap` | blocks of a file, the modulus of a truncated SIZE | with three blocks a part may be shorter than, equal to or longer than the truncated size, and a file may wrap once and leave a rest; a longer foreign part has one block more |
| `MaxCalls` | further calls for the same file | the second call meets every destination the first can leave, and `Init` starts with every other one |
| `Size`, `PartSize`, `MaxParts` of `OPLFilesystem` | chunks of a game and of a part, what a record can count | a game in one piece, one with a full and a short last part, one with full parts only, one with more parts than a record counts; two share a title |
| `BlockSize`, `Direct`, `SigsPerBlock`, `IsoSizes` | units of a block, slots of an inode and of an indirect block | `pfs_image.dat` gets from 16 to 40 blocks: 19 fill the direct slots and the first indirect block exactly, 40 need two blocks below the doubly indirect one |
| `PathEntSize` | units of an entry of the resolver | 17 are more than two blocks, so entries share blocks and lie across them; a list of two entries has 5 blocks, two such lists have 9, one more than `Direct` |
| `MCTemplates`, `MCPathHash` | emulator packages and path hashes | a root whose entries do not fit one block, an empty file, a file that fills its block, an ISO and a script whose paths collide with another one's, a path table of two blocks |
| `Workers` | goroutines of `parallelDo` and of the scan | two are enough for every order of two steps; each step touches what one index names |
| `Networks`, `AddressBits`, `MinBits` | networks of a scan, the 32 bits of an address, the 16 of the largest network | two addresses between a first and a last one, and a network that is refused |
| `Visits` | a kind and a text each: the visits that may come, of which one does | every kind to one console the scan may find; the address is written in another way by both `RemoteGames`, which go on with it, and as it is by all but `app.RemoteGames` |
| `Publishers`, `Streams`, `Buffer` | requests that publish, event streams, events in a channel | every pair of requests is there; a channel of one event is full after one |

In the queue modules retries are unbounded in number, so are polls, pauses and
cancellations. The three attempts of an FTP call are the code's (`Attempts`).

Deadlock is checked in every run of the queues: one that was closed still accepts
handler calls, as in the code, so no state is final. The FTP runs switch it off,
because a file that was accepted, or whose last call has ended, is left alone. So
does `consoles`, where each request comes once; that the scan does not hang there is
`ScanEnds`. In `ps2_conversion` another install or build may always begin.

### Fairness

`FairSpec` of the queues assumes weak fairness of the worker and nothing else. Go
schedules the goroutine; reads and writes of a file over FTP and the RPI client have
deadlines, and the clean-up has one of five seconds of its own, so a request ends,
answered or not. The exception is the listing of a directory (`copyContext`,
`ftp/client.go:519`), read from a connection without a deadline: that the server ends it
is an assumption about the server. Nothing is assumed of users: a paused queue may stay
paused. Nothing is assumed of the console: a download may never end and a poll may
always be answered "running". That is why `PollUnanswered` is outside `Worker`, and why
`CancelEnds` and `CloseReturns` have to follow from the context alone.

For `FTPTransfer`, `FairSpec` assumes weak fairness of the transfer's own steps: each
command, read and write of a file has a deadline, so it succeeds or fails. That a
reply or a block comes rather than an error is not assumed.

`ScanFairness` assumes weak fairness of the goroutines of a scan but for `Detect`:
dialling has a timeout, and `Publish` waits for nobody. Detecting has one too, except for
the listing of PS3 and PS5, which is the same exception as above: `DetectionTimeout`
cannot end it. `ScanEnds` says it: *if* no detector waits for its server for good, the
scan ends. Nothing is assumed of the subscribers, which may never read, of the
cancellation, the prune and the visits.
`ps2_conversion` checks no liveness and assumes none.

`WaitingIsServed` is checked with handlers that retry other jobs forever, and in
`PS2Queue` with a drive that is plugged in and out forever. The
liveness of `ps4_queue` uses `MaxRestarts = 0`: a restart would end the wait in
another way.

## 4. Proofs

`TransferQueueProofs` proves, for all values of `MaxJobs`, `MaxQueues` and
`MaxPending` in `Nat` (`BoundsAssumption`), that `Spec` implies the type
invariant, every safety property of the run `transfers_safety`, and
`ImplementsWorkQueue`.

The safety properties are not inductive alone. `OneInFlight` needs to know that
between `Claim` and `Settle` the field `activeID` and the worker's local `item`
are the same job, and that the worker does not hold an id that was never handed
out (`WorkerHoldsItem`): otherwise `Enqueue` could overwrite the job in flight.
`StoppedQueueStaysStopped` and `AnnouncedQueueIsFinished` need that a new
submission gets a queue id that no older job carries (`IdsAreFresh`): otherwise
a new waiting job could join a queue that has already failed or been announced.
`IInv` is their conjunction. The proof has a lemma for the initial states, a
lemma per property and action for the step, and closes each theorem with `PTL`.
The refinement maps every action to a `WorkQueue` step or to a stutter:

| TransferQueue | WorkQueue |
|---|---|
| `Enqueue` | `Submit` |
| `Cancel` of a waiting job, `Settle` of a failed stop-on-error queue | `Withdraw` |
| `Retry` | `Resubmit` |
| `ClearCompleted` | `Forget` |
| `Claim` | `Start` (needs `OneInFlight`: nothing else runs) |
| `TransferFails`, `Complete` | `End` |
| all others | stutter |

### PS4QueueProofs

For all numbers of jobs, queues, tasks and restarts, any packages (`PS4Assumption`) and
any contents (`InstallerAssumption`), `Spec` implies the five invariants of `ps4_queue`
and `CancelledStartsOnlyIfClaimed`. `IInv` has two halves. `QueueInv` is about the jobs:
as in the transfer queue, the worker's local id is the active job and was handed out
(`WorkerHolds`), and new ids and queue ids are in use nowhere (`IdsAreFresh`). A
PauseJob in flight names a job (`CallsAreOfJobs`), which is why writing its late
answer cannot make a second job active; and between `Finish` and `Settle` the error
that is still held explains the failure of the job (`FailuresAreErrors`), although
users may retry, cancel and clear jobs in between. `TaskInv` is about the console:
process follows a task where it says it does (`FollowsATask`), and a task whose entry
the worker or the recovery is about to remove is off the console or was installed
(`RemovalsAreSafe`); without it `OrphansAreTracked` is not inductive. It holds because
no task is registered under an id that somebody still refers to. Steps are grouped by
what they do to either half (a report, a move inside `process`, a step outside of it, a
step that registers no task), with a lemma for each group.

### PS2QueueProofs

For any number of jobs and entries, `Spec` implies `TypeOK`, `OneActiveJob`,
`PausedIsResumable`, `ResumedGoesFirst` and `CancelledStartsOnlyIfClaimed`. `IInv` adds
that a queue is paused only while its worker is between two jobs (`PausedAtRest`), that
only jobs on a drive end for lack of one (`OnlyDrivesVanish`), and, for
`ResumedGoesFirst`, that the resumed jobs are the first entries of `pending`, once each
(`ResumedLead`, with `Leads` and its lemmas about appending, pushing and popping).

### FTPTransferProofs

For files of any size, any modulus of a truncated SIZE and any number of calls, `Spec`
implies every invariant of `ftp_transfers` and `ArrivedIsKept`. `IInv` says that what
has arrived is the beginning of the file (`PartIsPrefix`), that a transfer begins at the
end of it or at 0 (`ResumesAtEnd`), that the blocks in flight are those between writer
and reader (`StreamIsInOrder`), that the answer verification uses is about what is there
(`AnswersAreCurrent`), and what the progress adds up to (`ReportsAreDue`).
`WholeIsAccepted` needs that a number and the number less a multiple of the modulus
leave the same rest (`ModOfDifference`).

### ConsolesProofs

For any sets of workers, networks, publishers, streams and visits: `SendsAreSafe` from
`BusInv` (a `Publish` in progress serves open subscriptions only);
`RegistryIsSound` (`DetectedStaysKnown`, `RecordsAreFiled`) from `RegistryInv` (a visit of
`ps5.RemoteGames` finds its record if it wrote the address as the map does, unless a
prune has deleted since; one of `AddConsole` goes on with the normalised address);
`ScanIsComplete` from `ScanInv`, which says that
no address is at two of the feeder, the workers and the caller (`InOnePlace`), and
that every console that answered is with a worker or collected (`NothingLost`). The
module first shows that each step of the composition is a step or a stutter of its
parts.

### The drive, in PS2ConversionProofs

For any games, sizes, titles and numbers of parts (`OPLAssumption`), `GamesAreWhole` and
`FailedInstallLeavesNothing` follow from `DriveInv`. Neither is inductive: that a listed
game keeps its parts depends on what an install in progress may remove when it fails.
`InstallIsAlone` says that the parts it has counted are its own and of their full length,
that the game it splits is not listed, and, once it has begun to write a part, not one
that an earlier install completed; so the clean-up touches no listed and no completed game.
What is in `ul.cfg.partial` when it is about to be renamed names whole games only
(`UpdateIsWhole`), as `ul.cfg` does. `FilesAreKnown` and
`TempsAreKnown` give each part and each `.partial` file an owner: a record, the install
in progress, or a reason to be excused. The same title may stand for two games, so the
proof of `RecordStep` needs what `upsertULRecord` keeps (`FilteredRecords`).

### The builder, in PFSLayoutProofs, FPKGBuilderProofs and PS2ConversionProofs

For any tree, any sizes of blocks and lists of signatures, and any number of workers,
`ConversionSpec` implies `OutputIsWhole`, `SealsAreFinal`, `EntriesFit` and `ReadsBack`.

`SealsAreFinal` follows from `BuildInv`. Its parts say which signatures, chunk digests
and digests of the package have been taken so far, and that nothing they cover has been
written since (`BlocksAreSigned`, `ChunksAreDigested`, `RegionsAreCovered`); for a loop
of `parallelDo`, so far means the indexes that were handed out and are not at a worker.
That a later signature disturbs no earlier one is a fact about the lists: `DataSlots`
and `FinalSlots` show that no two signatures share a slot, that no block of the file holds
a slot, and that a final signature is taken after all that go into its block, whatever
number of direct and indirect blocks the image needs. `FinishOrder` is the same for the
digests of the package.

`EntriesFit` needs that eight estimates of the table of chunk digests are enough, which
is part of the package it has digests of. An estimate is too small by four bytes for
each chunk in the alignments of 512 KiB that the previous one added. Such an addition
brings at most half as many alignments in the next round (`Convergence`), so from 32 in
the first round none is left in the eighth. Where the entries end is then
the beginning of the body and the sum of their padded sizes, for a padded entry behind a
multiple is padded alone (`EndsOfEntries`, `RoundingOfSums`).

`ReadsBack` is two results. The first is about an inner image alone (`TreeReadsBack`):
if the directories of a tree fit in their blocks, what `pfsReader` finds in the image is
the tree, and if table and resolver fit in theirs, so does a lookup by hash. Its lemmas
follow the way of the data.

1. The order of paths is a linear one (`PathsAreOrdered`), so sorting lists each node
   once (`SortedEnumerates`, `InOrderEnumerates`), and a node has one inode (`Setup`,
   `NumbersOfNodes`).
2. `calculateDataBlockLayout` puts super block, inodes, super root, table, resolver and
   nodes behind each other (`TreeHasLayout`, `Offsets`), so no extent that is written
   later begins in front of the end of what is reserved for an earlier one, and a block of
   the reserved ones holds what belongs there
   (`WrittenLast`, `TreeHasBlocks`).
3. The inodes that are read are those that were laid out (`InodesAreRead`).
4. A block of a directory is parsed to the entries that start in it. An entry is found
   when the chain of sizes runs from the start of the block up to it (`CursorRuns`), and
   what is skipped at the end of a block is what the reader takes for the end of the chain
   (`BlockIsParsed`, `DirectoryIsParsed`, `ChainIsParsed`).
5. The k-th level below inode 0 is `uroot` with the paths of k - 1 names (`NextLevel`,
   `LevelsAreRead`), and no path has more names than there are inodes (`PathsAreShort`),
   so all levels are the tree (`BelowIsTheTree`).
6. A hash that one path has leads to its inode, and one that several have to their list,
   where the path stands in an unbroken run of entries and no other list reaches
   (`ResolverLists`, `PathHasGroup`, `PathIsLookedUp`). For this the reader needs all of the
   table and of the resolver. It has them if they fit in what is reserved (`TablesFit`):
   then each of their blocks is in front of what is written later (`ReservedAmounts`,
   `TreeHasBlocks`), and an entry in front of the end touches one of them
   (`EntriesAreIntact`, `TableIsRead`, `ResolverIsRead`). Nothing is said of a tree whose
   table or resolver is larger.

The second is that who opens a package gets this image (`PackageIsRead`). It needs
`ReadInv` beside `BuildInv`: the image is that of the tree (`ImageIsWritten`), signatures
go into blocks before those of the file (`SlotsAreInBlocks`), and each sector behind the
super block but those of the empty block has been encrypted once, when its index was
handed out and its worker has not got it any more (`SectorsAreEncrypted`). Without the
last part nothing is known of an image whose workers were interrupted at any point, as
`xtsSectors` must not repeat a sector nor miss one (`EncryptedSectors`). From it, a block
can be decrypted (`BlocksAreDecrypted`); from the signatures of `SealsAreFinal`, the
pointers of the inodes and of both levels of indirect blocks lead where `FileSlot` put
them (`PointersOfNodes`), so that `readBlockList` is the list of the blocks of
`pfs_image.dat` (`BlockListIsRead`), of which the PFSC header takes the first.

`TreesAreTrees` connects the two: with the keystone, every tree a build may be given is
one. That its directories fit is what `writeData` checks; when they do not, it fails.

The assumptions about constants are these. `PFSAssumption`: sizes are positive, an entry
is not larger than the largest one, and the entries of a super root and of the root of
the outer image are in one block; in the code an entry has at most 280 bytes and a block
64 KiB. `PackageAssumption`: an alignment is a whole number of chunks, the body begins
at an aligned offset, and the digests of the chunks of two alignments and the padding of
an entry fit one alignment; in the code these are 512 KiB, 64 KiB, offset 0x2000, and 64
bytes of digests. `TreesAssumption` and `EntriesAssumption` are about the trees a build
may be given (`GameTrees`): where they have a directory `sce_sys` (else the build
fails), every file and directory is in a directory, none is both, and the image has at
most as many blocks as an inode, an indirect block and a doubly indirect one have slots
for; its entries have sizes, and without the table the first estimate is below 16 MiB,
which means a package of less than 256 GB. TLC evaluates them for the trees of the
instance.

An induction is stated here about a set of numbers (`Least`, `Induction`), and a
recursive function is shown to exist (`FilteredRecords`, `Loop`), since the theorems of
the library are about operators. Writing these proofs changed the model in some places.
`Joined` had overlapping guards in a `CASE`, which leaves the result open when a worker
failed. `ul.cfg` was filtered with `SelectSeq`; the layout, the directories, the
path table, what is written and what is read of an image were computed with folds over
sequences and a recursion along inodes. They are recursive functions over numbers and
sets now, with the same values.

### Only model-checked

Everything temporal under fairness (`WaitingIsServed`, `CloseReturns`, `CancelEnds`,
`CallEnds`, `ScanEnds`), since the prover handles neither liveness nor `ENABLED`. Every
safety property of a passing run is a theorem.

## 5. What is not modelled

* Event payloads, byte counts, speeds and estimates; JSON, hex and template formatting;
  file discovery and metadata parsing: they change nothing that a property reads.
* Cryptography and key material, compression, and the byte encodings of inodes, headers,
  entries, SFO and pictures: a digest is what it covered, a record its fields. The
  compressed PFSC blocks that packages of others may hold are not read.
* Of the package server only what `Register` and its clean-up do to the set of answering
  URLs is modelled, not the index and the path lookup; of the RPI client, not its
  decoding, `Detect` and `FreeSpace`. A task that another program registers on the
  console is not modelled, nor are two managers that share a folder.
* Of FTP, errors of closing, of `stat` and of the rename after a download was
  verified, which refuse a whole file; the walks over directories, listings, `MKD`,
  `DELE`, login and reply parsing are left out, and a file that changes while it is
  transferred.
* The reading of the task file by the reconciliation is part of `Restart`; in the code
  it is the first thing its goroutine does.
* Of the PS4 service, the choice of games for `Enqueue` and `EnqueuePull` and the order
  of `sortForInstall`; of the USB manager, `Start` and `Close` of the watcher, whose
  goroutine only calls the `Refresh` of `PS2Queue`.
* Libraries, covers, FPKGi lists, web rendering and the command line: scans, parsing and
  wiring without state of their own. They are listed in `PROJECT.json` as
  `not_modelled`.

## 6. Plan

Done so far: the three queues, FTP, the drive, the package builder, the console
registry, and proofs of every safety property that a passing run checks. What would add
most next:

1. `USBWatcher`: `Start`, `Close` and the ticker, composed with the drive of `PS2Queue`: a
   `Start` between the two locks of `Close` replaces the channel the goroutine closes.
2. `sortForInstall` and the choice of games against a reference order over bounded inputs:
   base games before what depends on them.
3. `RemoteTree`: the walk over a directory with `MKD` and the files of `FTPTransfer`, for a
   game that is cancelled or fails in the middle of its files.
4. The package server's index and path lookup beside `Register`.
