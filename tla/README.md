# libfw in TLA+

libfw is a file-transfer framework in Rust: `libfw-core` (protocol types, ranges,
paths, compression frames, capabilities), `libfw-server` (HTTP handlers over a
pluggable storage backend, with a file-system backend), `libfw-client` (one client
compiled to WASM for browsers, one native) and a JavaScript SDK over the WASM
client. This directory is a model of it: what concurrent requests, broken
connections, cancelled handlers, crashes, retries and the expiry sweeper can do to an
upload or a download; how paths, tokens, ranges and frames take a request through the
router; how the browser client's requests share their permits, pause and cancel; and
how its tuning engine moves the parameters they run with.

Paths below are relative to `src/crates/`; `storage.rs` and `handlers.rs` are those
of `libfw-server/src/`, `upload.rs` and `download.rs` those of `libfw-client/src/`
(browser) and `libfw-client/src/native/`, `index.js` is `src/sdk/index.js`.

## Inventory

| Component | State it keeps | Operations | What is hard | What makes it correct | Module |
|---|---|---|---|---|---|
| Session store (`storage.rs` 253-371, 549-772; `handlers.rs` 471-626) | session temp, `.blocks` sidecar, target; per-temp lock; each sink's open file and ranges | probe, data chunk, commit, abort | many requests share three files; every await is an interleaving point; a handler can be dropped at any of them; writes finish in a blocking pool | no update of the sidecar is lost, only complete files are published, nobody waits for ever | `SessionStore` |
| Sweeper (`storage.rs` 458-524, `lib.rs` 404-426) | none | remove temps and sidecars older than the limit | takes no lock | a live or committed upload is not broken | `SessionStore` (`sweep`) |
| Upload clients (both `upload.rs`) | the round, its chunk size, retries, blocks to send | probe, send window, commit, re-probe, give up | lost requests and responses; two levels of retry; a request given up goes on in the server | an upload ends; success means the file is there | `SessionUpload` |
| Plain uploads, reads, removal (`storage.rs` 173-251, 373-457, `handlers.rs` 177-272, 628-853) | unique temp, or the target itself (Resume); per-target lock | create, overwrite, resume, read, remove | check-then-act on the name; appends that fail halfway; a write that outlives its handler | a reader sees one file; a file with a name is whole; resumes do not interleave | `PlainStore` |
| Routes (`handlers.rs`, `lib.rs`, `auth.rs`, `pathmap.rs`, `range.rs`, `compress.rs`) | none beyond one request | list, metadata, download, upload | a path passes a codec twice and is checked in between; ranges, conditions and frames meet in one answer | nothing outside the grant is touched; the answer is the range asked for | `Requests`, `Paths`, `Frames` |
| Download clients (both `download.rs`, `index.js`) | resume state, swap file or partial file | chunk batches, sequential fallback, checkpoint, resume, restart | state saved against data flushed; the file changes on the server; a second run continues the first | the finished file is one version, whole; a resume skips nothing | `Download` |
| Tuning engine (`tune.rs`, `wasm.rs`) | phase, live parameters, windows, two memories of a settle | begin, window, end, reload | long sequences of windows; ranges and rows from elsewhere are not trusted | parameters stay in their limits and in the memory budget; a failure is forgotten; a ramp ends | `Tuning` |
| Semaphore and task control (`state.rs`) | permits, waiters; running, paused, cancelled, done | acquire, release, resize, reset; pause, resume, cancel, complete | resize with permits out; late completion | no permit is lost, nobody is left waiting | `TransferGate` |

How they interact: a client's requests pass the router (`Requests`: protocol version,
token, path, grant) and reach `upload_session`, which opens a sink
(`write_stream_session`) and drives it (`SessionStore`), or `upload` and `download`,
which use `write_stream` and `read_stream` (`PlainStore`). Sinks of one session meet
at the temp's lock (`lock_for`, an owned tokio mutex) and at the three files; plain
Resumes meet at the target's lock, other plain uploads only at the name. The sweeper
shares only the files. Client and server share nothing but requests and responses. In
the browser client all requests of a transfer share the permit pool (`TransferGate`),
whose size is what the tuning engine's parameters give (`Tuning`).

`PROJECT.json` lists the hazards found, each with its line and the properties that
watch it, or the reason none does.

## Modules

| Module | What it is |
|---|---|
| `SessionStore` | the server side of a session upload: one session, any clients |
| `SessionUpload` | EXTENDS `SessionStore` with one client's upload loop and the network |
| `AtomicUpload` | what an upload promises; `SessionUpload` is shown to implement it |
| `PlainStore` | uploads without a session and downloads of one file name |
| `Subsequences` | the elements of a sequence at some of its places (definitions) |
| `Paths` | path validation, the codecs, the grant (definitions) |
| `Frames` | the frames of a compressed body and their decoder (definitions) |
| `Requests` | the router: EXTENDS `Paths` and `Frames`, one request at a time |
| `Download` | both download clients over a server whose file changes |
| `Tuning` | the tuning engine |
| `TransferGate` | the browser client's permit pool, pause and cancel, on one event loop |
| `SessionStoreProofs`, `SessionUploadProofs`, `PlainStoreProofs`, `RequestsProofs`, `ListingProofs` (EXTENDS `RequestsProofs`), `DownloadProofs`, `TuningProofs`, `TransferGateProofs` | theorems, checked by TLAPS |
| `MC_*` | instances for TLC (`TransferGate` needs none) |

### SessionStore

*State.* A name and the file it names are kept apart, because the code opens the temp
before it takes the lock and a removed file can still be written to: `temp` and
`target` hold inodes, `fd[r]` is the inode request `r` has open, `data[i]` the blocks
whose bytes inode `i` has. `sidecar` is the set of blocks `.blocks` lists (an absent
file and an empty list are both read as "nothing received"). `holder` and `waiters` are
the tokio mutex, which is fair: a dropped guard goes to the first waiter. `ranges[r]` is
`FsSink.ranges`, `current[r]` the local copy `write_at` merges into. The file is cut
into `NBlocks` blocks of equal length; a request's body is an interval of them and each
block is one `write_at`. A file is as long as its last block, so a missing middle block
is a hole.

*Actions.* One per await of the code. Opening: `Stat`, `CheckTarget` (Create mode, when
there is no temp yet), `OpenExisting` / `Create` / `OpenFails`, `Lock`, `LoadRanges`
(which also removes the sidecar when this request created the temp). A probe ends in
`AnswerProbe`. A body is `Write`, `ReadRanges`, `PersistRanges` per block, then
`AnswerData`. A commit is `Verify` (length, and coverage if any range is recorded),
`RemoveSidecar`, `Flush`, in Create mode `Recheck` and perhaps `RefuseCreate`, then
`Rename` or `RenameFails`. An abort is `RemoveTemp`, `Forget`.

*Writes.* A tokio `File` hands a write to the blocking pool and reports it done before
the bytes are in the file: `Write` adds to `inflight`, `Land` completes it, in any order
and even if the sink is gone. A seek or a flush waits for the sink's own write. With the
fault `full` a write may fail instead. If its sink still works, the next operation on
the file is told: the next block's `write_at` (`WriteFails`, an abort) or the commit's
flush (`FlushFails`). If it is gone, nobody is (`LandFails`).

*Faults*, switched on by the constant `Faults`:
`disconnect` (the body breaks off: the sink is dropped, files stay), `reject` (bad
data, a limit or a disk error: abort), `full` (a write that was reported done fails
later), `cancel` (the handler is dropped at an await),
`detach` (in addition, the disk operation it awaited completes later, without the
lock, because dropping a future does not stop its blocking task), `crash` (only files
survive), `sweep` (the sweeper removes sidecar, then temp, then finds orphaned
sidecars, with no lock). Age is not modelled: a temp with no write in flight may be old
enough at any time, since nothing bounds how long a request can sit between two steps.

### SessionUpload

One client uploading one file: the initial probe, rounds of sending the missing blocks
concurrently with `MaxRetries` retries each, a commit without asking again, another
round when the commit fails, and after the last round one more probe and perhaps one
more commit. Every round picks a chunk size of `ChunkSizes`, as the tuning engine may
have changed it (`PlanRound`); chunks are aligned to it, so a hole of an earlier size
is covered by chunks that are partly on disk (`AlignedMissing`). The browser client
retries a commit `max_retries` times in place, the native one does not;
`CommitRetries` is that difference, everything else is the same in both.

`RequestLost` and `ResponseLost` are the network: the client sees an error in both
cases. The fault `timeout` is the no-progress watchdog (`http.rs:300`): `Abandon` gives
the request up while its handler goes on with the body it has; the handler is freed
for the next request only when it is through (`Heard`, `Idle`). `UploadAgain` is the
user starting the same upload again, which is how an interrupted upload is resumed and
a finished one replaced. How many requests are under way at once is the number of
`Requests` (`upload_window`); probes and commits are sent alone. `Terminates` starts
every upload in phase `probe`.

### AtomicUpload

Blocks gather; the target appears complete or not at all, and never breaks again. The
refinement maps the temp's bytes, written or in flight, to `parts`, and a target with a
hole to a value (`"torn"`) the abstract specification has no step to. Removing the
target (any step from `"complete"` to `"absent"`) is not a step of it either.

### PlainStore

*State.* Again names and files apart: `target` is the inode the file's name refers to,
`temps` the `.libfw-tmp-*` names that exist (each for the inode of its upload),
`content[i]` the sequence of blocks of an inode, each named for the upload that wrote
it. `holder` and `queue` are the target's mutex, which only a Resume takes. `pc[w]` is
the await an upload is in. Like a session sink's, a write is handed to a thread:
`inflight` is a block that has not landed, `lost` one that never will (a full disk),
which the next operation on the file reports.

*Actions.* `Arrive` (the size limit and the mode), `Exists` and `CreateTemp`
(Create, Overwrite), `Lock`, `Open`, `Measure` (Resume), `Write` / `Break` / `EndBody`
(the loop over the body, with the declared size as a bound and, on a final chunk, as
the size), `Flush`, `Recheck`, `Rename`, `Meta` (commit), `Abort`, and `Drop` at any
await. Downloads: `Plan` (metadata, range, etag), `OpenToRead`, `Read`.
`RemoveTarget` is the program around the server: no route removes a file.

### Paths, Frames, Requests

`Paths` translates `validate_rel_path`, the identity, mount and sealed codecs with
their longest prefix, `decode_compound`, and the check of a grant; a path is a sequence
of segments. `Frames` translates the compressor's one-block delay, the splitting of a
stream of frames and the decoder's buffer, budget and end. Both say by sets of places
what the code does by loops (`Kept` for a filter, `Drained` for the decoder's cursor), so
that they contain no recursion and can be proved about. `Requests` takes a request
through them in the order of the router: `ValidateProtocol`, `Authenticate`,
`Resolve` (decode, clean again, authorise), then `List`, `Upload`, or `PlanDownload`
(If-None-Match, range, If-Range, formats), `OpenFile`, `Produce` and `FinishBody` on
the server and `Read`, `EndOfBody`, `Break` on the client, which cut the wire anywhere.
`Disturb` lets others replace and remove files between any two of them.

### Download

Both clients in one module (`kind`), because they share the server, the resume state and
the properties. An etag is the number of a version. The server plans an answer by the
file's metadata and opens the file by its name after that, so an upload may come in
between: a block is a triple of the version it is of, its place, and the etag it came
under, of which the client knows the last two. `Fetch` plans a chunk (`Planned`) and
opens the file for it in two steps, `Get` / `NGet` and `Open` do so for a whole body,
and the body is as long as plan and file allow (`Sent`). `disk` is the target, `saved`
the resume state, `sink` the browser's open writable with its swap file, which replaces
the target when it is closed. A chunk is a block; a batch is a window of them, whose
chunks are fetched in any order and retried each (`Fetch`). Browser: `Begin`, `AskMeta`,
`NextBatch` / `Collect` / `Emit` / `AllEmitted` (chunked), `Get` / `Stream`
(sequential), `OnWriteChunk`, `Record`, `Publish`, `Close`, `Sync` (the SDK's writable
and checkpoints). Native: `NBegin` ... `NAllEmitted`, `Trim` (`set_len`, which fills a
target that is too short with zeros before the length is found wrong), `Mark`, with
`Land` for a write handed to a thread. `Crash` loses what is not on disk; `Cancel` ends
a browser's transfer; `Change` is the server's next version. The user may start the
download again after it is over, up to `MaxRuns`.

### Tuning

One table of parameters (`params`: concurrency, upload and download window, chunk),
its phase, the dimension being ramped, what the last windows measured, and the two
memories of a settle (`settled` in the client, `cache` in the page's store).
`Begin` is `begin_transfer` with its three sources of a table, `CloseWindow` one window
with every rule of `ramp_action`, `End` `transfer_end`, `Reload` a new page, `Expire`
the age of a row, `StoreChanges` another page of the site. Arithmetic is on small
integers and a rate is the chunk that would suit it; averages are abstracted to
whether the round trip is level or inflated.

### TransferGate

Paths: `state.rs`, `wasm.rs`, `upload.rs`, `download.rs` of `libfw-client/src/`.
`max`, `available`, `waiters` are those of `Semaphore`, `mode` and `cancelled` the
flags of `TaskControl`, `pc[k]` is where request `k` is in the loop of
`upload_one_chunk`, `commit_upload` and `download_chunk_with_retry`, which are alike:
`Pass` or `Stop` or `Yield` (`wait_ready`), `Take` and `Retake` (`Acquire::poll`),
`Answered`, `Fails` or `BackOff`, `SleptEnough`. A failed request leaves its batch
alone; its file's error ends the transfer (`GiveUp`) and drops all that is under way,
at any time after the failure, since the batch may hold other requests or not.

*Event loop.* `ready` is the set of requests that are owed a poll, which is a
microtask; clicks, timers and the network wait until `LoopFree`. The order of polls is
left open, as `FuturesUnordered` leaves it to the order of wakeups. `wait_ready`
yields through a resolved promise, so `Yield` leaves a paused request ready.

`request_budget()` of the parameters the tuning engine picks is any member of
`Budgets`, at the start of a transfer, with each answer and with a file's error.

## Runs

| Run | Question | Result | Distinct states |
|---|---|---|---|
| `session_store` | with handlers cancelled anywhere and disk operations landing after the lock is gone, are sinks serialized, waiters served, verified files full? | holds | 4.8 million |
| `session_ranges` | with every other fault, failing writes, crash and sweep, is the sidecar's bookkeeping right? | holds | 2.8 million |
| `session_upload` | over an unreliable network, with a chunk size that changes, does an upload implement `AtomicUpload` and end? | holds | 0.5 million |
| `sequential_upload` | with requests given up and handlers cancelled, failing writes, crash and sweep and one request served at a time, does an upload end, publish only full-length files and leave nothing behind? | holds | 0.6 million |
| `late_commit` | is a file with a missing block never published, if a client gives up a commit that waits and tries again? | violated | |
| `plain_store` | with two uploads of any mode, a download, drops, full disks and removals, are files whole, resumes contiguous, readers undisturbed, and does every upload get its answer? | holds | 0.5 million |
| `requests` | whatever codec, token, path, range and cutting of the wire, is nothing outside the grant touched and every accepted answer the one asked for? | holds | 1.6 million |
| `download` | through failures, crashes, restarts and changes of the file, also between the planning of an answer and the opening of its file, is a finished download one whole version as far as the client can tell, and does a download end? | holds | 0.5 million |
| `download_emptied` | does a download end if the file was emptied since its partial download? | violated | |
| `tuning` | with absurd advertisements and rows of other pages, do the parameters keep their limits and the budget, and does a ramp end? | holds | 0.3 million |
| `gate` | while tuning resizes the pool under requests that fail, back off and are cancelled, is no permit or wakeup lost, and does a transfer end? | holds | 8 thousand |
| `gate_pause` | while paused, does the event loop get to its next task? | violated | |

The violations are recorded as findings, each against the comment it contradicts:

* `late_commit` (`storage.rs:686`): a commit verifies the file it has open and renames
  by name. One that its client gave up while it waited for the lock goes on; if the
  holder aborted and a later probe made an empty temp of that name, the abandoned
  commit finds its own unlinked file complete, removes the new temp's sidecar and
  renames the empty temp over the target.
* `download_emptied` (`libfw-client/src/download.rs:267`): an emptied file is asked for
  with `Range: bytes=0-`, the server answers 416, and the client sets offset and
  attempts to 0 and goes on at once, for ever.
* `gate_pause` (`state.rs:403`): `yield_to_event_loop` yields to microtasks only. Pause a
  transfer while a request is at the gate, or comes back to it from its back-off, and the
  page hangs: neither resume nor cancel can be delivered.

### More counterexamples

Configurations that are kept beside the listed runs; each violates one property and
shows a disagreement, or a limit of a property above:

| Configuration | Module | Shows |
|---|---|---|
| `CancelHole.cfg` | `MC_SessionUpload` | `handlers.rs:607` checks coverage only when some range is recorded: if the one request whose data reached the temp was dropped between write and record, the commit passes on length alone |
| `StaleSink.cfg` | `MC_SessionUpload` | `storage.rs:342`: a request that waits while the holder's rejected body aborts the session gets the lock with a file that has no name, and its record goes to the next temp's sidecar |
| `LostWrite.cfg` | `MC_SessionUpload` | `handlers.rs:624`: a data request answers 201 and drops its sink without a flush. If its last write fails in the blocking pool after that (a full disk), nobody is told; the range stays recorded, and if a later block lands, the commit finds length and coverage as declared and publishes a file with zeros in it, against `handlers.rs:600-602` |
| `LateRecord.cfg` | `MC_SessionStore` | `storage.rs:641`: the guard is dropped with a cancelled handler, its last rename is not |
| `GatePermits.cfg` | `TransferGate` | `state.rs:131`: after a shrink with permits out, more are granted than the new size |
| `TuneHalved.cfg` | `MC_Tuning` | a held ramp settles with halved parameters and stores them, which `tune.rs:1126-1127` excludes |
| `DownloadMixed.cfg` | `MC_Download` | `index.js:927-929` skips a checkpoint if the target is long enough; its bytes may be of an earlier version, and a resume after a crash finishes a mixed file |
| `DownloadRaced.cfg` | `MC_Download` | `handlers.rs:234`: the file is opened by name after `If-Range` was compared with its metadata. If an upload replaces it in between, the 206 has bytes of the new version under the old etag, and `take` (`storage.rs:169`) makes the length agree. When this is the last chunk, the native client reports a file of two versions as done, against `native/download.rs:4-6` and `docs/protocol.md:41` (`NeverMixed`) |
| `RequestsListing.cfg` | `MC_Requests` | a file outside every mount is listed under its real path, which is not understood when it is sent back, against `handlers.rs:814-815` |

So the properties of `session_upload` are stated under `disconnect` and lost messages
and not under `cancel`, `reject`, `full` or `timeout` with two requests, and those of
`session_ranges` without `detach`; `ListedLeadsBack` says of which paths it is true that
they lead back (mounted, and not hidden by another mount) and that it is true of no
other; `FinishedIsWhole` and `TargetIsOneVersion` set aside what follows a crash that
left an untrue state (`stale`), and they let a block be of a newer version than its etag
says if its file was replaced between plan and opening: each such block by itself, in
the place it was asked for (`Stands`), so that a mixture with any other cause is still
caught. `FinishedIsWhole` also sets aside a body that ended too soon for that reason in
the browser (`EndedShort`); `RunsToTheEnd` lets a transfer stay paused. With `timeout`
and two requests `AckedKept`, `SidecarSound`, `PublishedComplete`, `DoneMeansPublished`
and `PublishedFull` are all violated: an abandoned handler races its own retry. For
`DoneMeansPublished` a late data request writes into the temp that a retried commit has
re-created, the commit clears the ranges, passes the length check and publishes a hole
as success.

### Further disagreements seen while modelling

Not stated as runs, for the reader of the code:

* Download: a finished download is skipped without asking whether the file changed
  (`Begin`), although `libfw-client/src/download.rs:109-111` says the etag is
  revalidated; the browser takes a compressed body that ends too soon, but cleanly, for the
  whole file; the native client fills a target that is too short with zeros before it
  reports the error; a body that breaks off in the sequential path fails the download
  although line 241 speaks of retries; an empty answer leaves an old target as it was;
  the native client writes its state with `std::fs::write`, which is not atomic, and may
  save it before the data is in the file (which `StateIsTrue` allows for);
  `_resolveFileHandle` ignores `_singleFileName`.
* Tuning: a transfer that took over a settled table settles again and refreshes the
  age of its row (against `tune.rs:820-823`); the settle in memory is not keyed by
  origin (against `wasm.rs:329-330`); `halve_dim` goes below the advertised minimum;
  `post_degrade_settle` is never set, as `TuneTypeCorrect` proves.
* Plain store: `list_dir` fails as a whole if an entry vanishes while it runs
  (`storage.rs:401`); a dropped handler or a failed flush leaves its temporary file; the
  answer of a commit may describe another request's file; a Resume may append to a file
  that an Overwrite has just replaced; a write may land after an aborted Resume has let go
  of the lock (`loose`), between two blocks of the next.
* Paths: a mount of the root is not used for the root itself, so the client's walk of a
  listing need not end.
* Frames: `frame_boundary` takes the size of a run-length block for its length on the
  wire (`compress.rs:541-546`) and reads the content size at a fixed offset.
* One `TuningEngine` is shared by concurrent downloads of the native client
  (`native/mod.rs:262`).

### Bounds

* Session runs: two requests (one in `sequential_upload`), since the interactions are
  through one lock and three files and need two parties; the proofs below cover any
  number. Three inodes: the target and the temp have one each and a removed temp stays
  open in one request; a `Create` that would need a fourth waits until a pending write
  on a removed inode has landed. `session_upload` uses two inodes: with no rejection
  and no cancellation no request is left with a removed file (`NoStaleSink`, which
  `SessionUpload` states and the run keeps out of its list), so a third is never needed.
* Two blocks have a first, a last and a hole; three with chunk sizes 2 and 3 in
  `session_upload` make a chunk whose body can break off in the middle, so that a later
  round asks for part of a chunk, or for all of it at another size.
* `PoolLimit` 1: one write in flight (and one detached operation) at a time; writes in
  flight for two inodes at once are excluded by it in the runs but not in the theorems.
* `MaxRetries` 1, `CommitRetries` 1 and 0: each kind of retry happens once and its
  limit is reached (`sequential_upload` has none).
* `MC_SessionStore` uses symmetry of requests and inodes (safety only) and a view that
  forgets what an inode held that nothing refers to, which `Create` empties.
* `Modes`: `Create` in the store's runs, which is the longer path (re-check, refusal);
  both clients always send an offset, so the upload runs use `Overwrite` only.
* `plain_store`: two uploads, which is what every race of the module needs, any two of a
  final Create, a short Overwrite, two Resumes behind the first block and a Create over
  the limit; one download; up to two blocks each. The theorems cover any number.
* `requests`: two requests, so that one can use what the other was listed; three codecs
  with one mount inside another, which hides a file, prefixes that are not written in
  their normal form, a pair of roots, and a name that is sealed inside a sealed directory;
  thirteen raw paths with dots, empty segments and compounds; twelve range headers
  around a file of three blocks and a largest integer of 7; a budget of two blocks
  per call, below the file's size; files replaced at most twice (`MaxVersion`).
* `download`: files of none to three blocks around `MinParallel` 2, growing, shrinking
  or keeping their size, in one case twice; a window of two; one retry; three runs, so
  that a resume can be resumed. The version that empties a file is in
  `download_emptied` only, whose finding it is.
* `tuning`: one origin, both directions, a sensible advertisement and one that is
  inverted in one dimension and above every ceiling in the others; ceilings of 1 to 3
  and a budget that the ceilings just fill. Two rates: no link measured and a fast one.
* `gate`: three requests, so that one holds a permit, one waits and one is at the gate,
  or all hold permits when the pool shrinks to one; pools of one to three; one retry.
  Requests of a later batch are not started; requests coming back from a back-off reach
  the gate late instead.

Deadlock is checked in the session, gate and tuning runs, where something is always
enabled. `plain_store`, `requests` and `download` really stop: each upload and reader
runs once, requests and starts are counted, so their configurations say
`CHECK_DEADLOCK FALSE`; that nobody is stuck is what `UploadsEnd` and `DownloadsEnd` say.

### Fairness

`Terminates` assumes weak fairness of the client's steps together, of each handler's
own steps, and of the blocking pool: the client's event loop and the tokio runtime run
whatever is ready, and a tokio mutex is fair (the queue is in the model). Nothing is
assumed of faults, the network, the sweeper or a new upload. A request
body is assumed to end or to break: a client that stalls for ever in the middle of one
keeps the session's lock, which the server does not prevent (a hazard without a
property).

`UploadsEnd` assumes the same of each plain upload and of its disk operations: a body
ends or breaks, a write lands or fails. Nothing is assumed of a drop, a download or a
removal. `DownloadsEnd` assumes that the client goes on (each request is answered or
times out) and that writes land; nothing is assumed of crashes, changes or the user.
`Settles` assumes that a transfer that runs closes its windows, which `tick` does with
every chunk and every failure.

`RunsToTheEnd` assumes that microtasks run, every request is answered or times out
(each has a timeout), every timer fires, and preparing and finishing a transfer end.
Nothing is assumed of the user.

## Proofs

`SessionStoreProofs` proves, for any number of requests, inodes and blocks, any bodies
within the file, any mix of modes and any set of faults:

| Theorem | Property | Assumes |
|---|---|---|
| `TypeCorrect` | `TypeOK` | the constants' assumptions |
| `Serialized` | `SinksSerialized` | |
| `NotStranded` | `NobodyStranded` | |
| `LengthKept` | `VerifiedStaysFull` | |
| `UpdatesKept` | `NoLostUpdate` | no `detach` |
| `RangesAgree` | `RangesInSync` | no `detach` |
| `NoPhantom` | `CreatorSeesNoPhantom` | no `detach` |

The constants' assumptions are those of `SessionStore`: `NBlocks` and `PoolLimit` are
natural numbers, bodies lie within the file, `None` is neither a request nor an inode.

The argument, by inductive invariant:

* `TypeInv` adds to `TypeOK` that the next block is between the body's first and last
  while it is being written (`BodyInRange`), without which a merge could add a block
  past the end, and that a handler past opening has a file (`FileOpen`).
* `SinksSerialized` is inductive over `TypeInv`: a request enters the locked part only
  from `wait` as the holder, and the lock changes hands only when the holder's handler
  ends.
* `QueueInv` adds to `NobodyStranded` who is in the queue: only requests at `wait` that
  do not hold the lock, each once, so the next holder is a handler that still waits. A
  cancelled waiter leaves the queue from any place in it, which is the lemma about
  `RemoveAt`.
* `RangesInv` says, for each place of a handler, how `sidecar`, `ranges` and `current`
  are related. It needs `SinksSerialized`, since the argument is that no other handler
  writes the sidecar, and no detached operation may, which is why `detach` is excluded:
  `LateRecord.cfg` shows the theorem to be false with it.
* `FullInv` is `TypeInv` with `VerifiedStaysFull` itself: only `Create` empties an
  inode, and it takes one that no handler has open, while a verified file is open.
* `HandlersAreShort` is the server's part of `Terminates`, without fairness and under any
  faults: `Left` counts the awaits a handler has before it, three of them for each block
  of its body that is not recorded yet. Each of its steps, and each fault that hits it,
  lowers `Left`; no step of another handler, of the disk or of the sweeper raises it; and
  it is at most three per block of the file and ten more (`BodyInRange`). `NobodyStranded`
  adds that the one await that depends on another handler is behind one under way.

`SessionUploadProofs` proves the properties of the upload runs, for any requests, inodes
and blocks, any chunk sizes and numbers of retries:

| Theorem | Property | Assumes |
|---|---|---|
| `UploadTypeCorrect` | `UploadTypeOK` | any faults |
| `SidecarIsSound` | `SidecarSound` | `Gentle` |
| `PublishedIsComplete` | `PublishedComplete` | `Gentle` |
| `AcksAreKept` | `AckedKept` | `Gentle` |
| `SuccessIsPublished` | `DoneMeansPublished` | `Gentle` |
| `SinksAreFresh` | `NoStaleSink` | `Gentle` |
| `ImplementsAtomicUpload` | `UploadIsAtomic` | `Gentle` |
| `PublishedIsFull` | `PublishedFull` | `Sequential` |
| `NothingIsLeft` | `NoLeftovers` | `Sequential` |

`Gentle` allows the faults `disconnect` and `lost`, as the run `session_upload` does; every
other fault breaks one of these properties, as the counterexamples show. `Sequential`
allows every fault but `detach`, for one request, as `sequential_upload` does. Both
speak of the constants only, and the runs are instances of them.

* `StoreStep` first says that a step of the composed system is for the store one of its
  own steps, the arrival of a request or the loss of one, so that the invariants of
  `SessionStoreProofs` carry over (`StoreTyped`, and the rest of `GentleInv`).
* `Paired`, `Alone` and `Placed` tie the client to the handlers: a handler works for the
  request its client waits for, a probe or a commit is sent alone, and a data request
  finds the temp that the probe before it has left. They are what `timeout` and `cancel`
  destroy.
* `RecordInv` has both inclusions between the sidecar and the bytes of the temp. The first
  is `SidecarSound`; the second, that a stored block is listed or about to be, is needed
  because a commit skips its coverage check when no range is listed: then nothing may be
  stored either, and the length check decides.
* `BeliefInv` bounds what the client believes (`received`, `acked`, an answer on its way)
  by the sidecar.
* The refinement is by cases over `GentleStep`: a write gathers a block, `Rename`
  publishes the complete file, every other step stutters.
* `SequentialInv` needs less, since only one handler ever runs: it has the temp open
  unless the sweeper took it (`LoneHandler`), and a successful commit has left nothing
  (`LoneClient`).

`PlainStoreProofs` proves the four safety properties of `plain_store`, for any uploads
and downloads, any requests (`RequestsAssumption`: only a Resume has an offset) and any
limit: `PublishedFilesWhole` (`PublishedWhole`), `OvertakenCreatesFail`
(`OvertakenCreateFails`), `DownloadsUndisturbed` (`ReadersUndisturbed`), `ResumesPlaced`
(`ResumesInPlace`), and `PlainTypeCorrect`. The lemma `Moves` first says what a step of
an upload does to that upload, as one of six kinds, and that it leaves the others
alone; every invariant is then preserved by cases over the kinds.

* `TypeInv` adds to `PlainTypeOK` that a sink which works and a reader which reads have
  a file.
* `WalkInv` relates where a handler is to what its sink has done: nothing before the
  body, nothing in flight after the flush, the declared size after a final body, and
  which awaits and which file each mode may have.
* `WholeInv`: an inode that has the name, or that another sink has open, is `Whole`: its
  upload is past its rename or done, with nothing in flight. It is needed because a
  Resume appends to another request's inode, which is harmless only once that request
  writes no more. `FileOK` then says the inode holds exactly its own blocks first.
* `OvertakenInv` says where an overtaken Create still may be.
* `ReadInv` rests on `Growth`: no step but a landing block changes a file, and that
  only appends.
* `LockInv` and `PlaceInv`: who resumes holds the lock from the check of the length on,
  so the file is as long as its offset and what has landed. `~loose` is needed for the
  one case in which a write outlives its handler's lock.

Two more theorems are the part of `UploadsEnd` that needs no fairness, for any number of
uploads and any sizes:

* `LockPassesOn`: a Resume that waits is queued behind one that has the lock and is under
  way. `QueueInv` says it inductively: a waiter is in the queue, once, nobody queues for a
  free lock, and the holder is at one of the awaits that `write_stream` and the sink
  guard. The lemma that carries it is `ReleaseServes`: whoever lets go, as the holder or
  from the middle of the queue, leaves the next one with the lock.
* `UploadsAreShort`: `Left` counts the awaits an upload has before it and the blocks its
  declared size has room for. Each step of its handler lowers `Left` (`LeftFalls`), no
  step of another upload, of the disk or of a reader raises it, and past its arrival it
  is at most `MaxUpload + 8` (`SizeInv`: what is declared larger is refused first). The
  step that needs an argument is the block: `write_batch` refuses one past the declared
  size, so there is room for each that is handed over (`WritesFit`).

`RequestsProofs` proves `NothingUngranted` (`OnlyGranted`) and `AnswersAreRanges`
(`AnswerIsTheRange`) for any codecs of the three kinds (any mounts, any sealed names), any
tokens, files, `Range` headers, largest integer, budget and number of requests. The
assumptions are types: raw paths, mounts and prefixes are sequences of strings, numbers
of a range header fit the integer, and no file is longer than it. The inductive
invariant `RequestInv`:

* `GrantInv`: whoever got to a handler was granted the real path; with `RealPathTyped`
  (decoding yields paths, however mounts overlap) and `PrefixOfPrefix` (what is listed
  lies below what was granted) this is `OnlyGranted`.
* `PlanInv`: the plan takes exactly the blocks the header names (`PlanNames`, by cases of
  the header, with the largest integer as the end of an open range); `UnopenedInv`:
  until the file is opened, its version is the planned one or newer.
* `ReaderInv` and `OutInv`: the reader is inside the plan, and what came out is numbered
  from the plan's start.
* `PlainInv` and `FramesInv`: what is in the decompressor and on the wire are the units
  of the blocks from the last that came out to the last that was produced, but for the
  one still open in the compressor; an empty body is the frame of no block. This is what
  makes any cutting harmless: `ReadFrames` shows that a read takes some of the frames
  off it and leaves a stream of the rest. It rests on `DrainProperties`, which says what
  `drain_frames` yields on whole frames and a beginning, and on the lemmas about `Kept`,
  which count places by well-founded induction on their least element.

`ListingProofs` proves what a listing promises, from the same assumptions (files have
names as `validate_rel_path` lets them pass):

* `ListingsLeadBack` (`ListedLeadsBack`): a listed path means its entry when it is sent
  back exactly if the entry is `Mapped` and not `Hidden`. `Hidden` says it of the mounts
  alone: the path it is listed as lies under a longer (or later and as long) shadow
  prefix than that of its own mount, or is the root. Of a sealed and an untranslated
  entry nothing is hidden. `ListInv` keeps it for what was listed while files change.
  The interesting half is that a hidden entry never leads back by luck. If the mount that
  took the name gave the same real path, its real prefix would be as much longer than
  that of the first mount as its shadow prefix is, and `encode` would have chosen it
  (`BestFits`, `ResolvedMount`, and the lengths in `Swapped`).
* `SeparateMountsHideNothing` is a rule a deployment can follow: if no real prefix
  begins another, no shadow prefix is the root and no file is hidden at the start
  (`Separate`, `NothingHidden`, as for the mounts of the example in `pathmap.rs` and an
  empty store), then no upload ever makes a hidden file, and every mounted entry of every
  listing leads back. What can be asked for can be listed (`ResolvedIsShown`), and what
  hides a directory hides all that is below it (`HiddenBelow`). Shadow prefixes may be
  nested, as in the run. Nested real prefixes would not do: with `a` for `m`, `b` for
  `m/x` and `b/y` for `z`, what is uploaded to `a/x/y` is listed as `b/y`, which means `z`.

`DownloadProofs` proves the safety properties of `download`, `FilesAreWhole`
(`FinishedIsWhole`), `TargetsAreOneVersion` (`TargetIsOneVersion`) and `StatesAreTrue`
(`StateIsTrue`), for any history of the remote file, any window, retries, runs and
crashes, over a server that plans by one version and may open the next. As the properties
do, the theorems let a block be newer than its etag in its own place, since the client
cannot tell; what they prove is that it keeps what came under one etag apart from all
else. `DownloadInv` says nothing once `stale` holds, as the properties do: a crash that
left an untrue state is the disagreement `DownloadMixed.cfg` shows. Until then:

* `TruthInv`: the etag of a block on disk, in the swap file or under way is that of its
  version or an older one, and an answer is opened at the version it was planned by or a
  newer one. It turns what the client knows, the etags, into what the properties say of
  the versions: a state of the version the server has can have no block of a newer one.
* `OrderInv`: versions only get newer, and each state is of a version that was.
* `NativeInv`: all blocks before the cursor are on disk or the one being written, of the
  etag of this pass. `NativeState`: so it is with what the saved state counts; a state
  that is ahead of the target by a write in flight becomes true when the write lands.
* `BrowserInv`: target and swap file are each of one etag, and a pass is either
  `Fresh` (nothing written, the first chunk opens the file where the cursor is) or
  `Running` (the swap file reaches as far as the cursor). `LoadedInv` keeps what the run
  was begun with for its retries. `BrowserState`: a saved state of the present version is
  backed by the target, or by the swap file that is going to replace it.

`TuningProofs` proves the safety properties of `tuning` for any ranges and ceilings
(naturals from 1, with concurrency times window within the budget, which
`BytesAssumption` states of the code's constants), any rates, origins and foreign rows:
`TuneTypeCorrect`, `LimitsHold` (`WithinLimits`), `BudgetHolds` (`BudgetKept`),
`RaisedByRampsOnly` (`OnlyRampRaises`), `FailuresForgotten` (`FailureForgotten`).
`TuneInv` adds to the type that a held ramp has counted its window (`HoldCounted`: without
it a hold could outlive its second window and reach the branch that sets
`post_degrade_settle`) and that a running transfer has capabilities. The lemmas bound
what each clamp yields (`ClampBetween`, `BoundedWithin`) and what each operation on a
table keeps (`BudgetedFits`, `RetunedFits`, `RaisedFits`, `HalvedFits`); the quotient in
`MaxChunkFits` is the only division. `ForgottenInv` says of every failed key that memory
has no settle in its direction and the store no row.

`RampsAreShort` is the part of `Settles` that needs no fairness. `Left` bounds the windows
without an error until a transfer settles: twice the distance of each parameter from
what the capabilities and the ceilings allow (`Gap`), since a rise is confirmed or taken
back by the window after it, and what the present dimension still needs to be given up.
It is at most twice the sum of the two ceilings, a window without an error lowers it
until it is 0 (`CleanWindowShortens`, by cases of `ramp_action`), it is 0 exactly when
the transfer has settled, and in between nothing moves it (`OthersWait`). So a ramp
cannot alternate between its two dimensions or between raising and holding for ever,
whatever rates are measured.

`TransferGateProofs` proves, for any finite set of requests, any positive sizes of the
pool and any number of retries, the four invariants of the run `gate`:
`GateTypeCorrect` (`TypeOK`), `PermitsNeverLost` (`PermitsKept`), `NeverLeftWaiting`
(`NoLostWakeup`), `PoolIsLeftFull` (`IdleIsFull`). The inductive invariant adds
`QueueInv`: who is queued and not owed a poll is in the queue of an empty pool, and who
is in the queue is queued. With `PermitsKept` an empty pool means that somebody holds
a permit, whose release wakes the queue; that is also why dropping a transfer leaves
no stale waker behind although `Acquire` does not remove its own. The arithmetic of
`set_max` and `release` is in two lemmas, `ResizedKeeps` and `ReleasedKeeps`.

Only model-checked:

* Liveness: `Terminates`, `UploadsEnd`, `DownloadsEnd`, `Settles`, `RunsToTheEnd`. The
  prover has no rules for it beyond propositional ones, nor for `ENABLED`. What three of
  them rest on is proved: a distance that every step lowers (`UploadsAreShort`,
  `RampsAreShort`, and `HandlersAreShort` for the handlers behind `Terminates`), and that
  nobody waits for a lock that is not in use (`LockPassesOn`, `NotStranded`).
* The properties of `session_upload` under other faults than those of `Gentle`: they
  are false there (see the counterexamples above).

## Not modelled, and why

* In the session path: loss of data that was written but not synced when the machine
  (not the process) dies, and the order in which a file system persists names; the
  sidecar's own `.tmp` file, since its rename is atomic and its leftovers are swept;
  the pruning of the lock registry, which only removes entries nobody holds or waits
  for; the declared size, digest and path of a request, the same for all requests of a
  session; a sidecar that is not JSON.
* In `SessionUpload`: pause and cancel (they are in `TransferGate`), progress reporting,
  several files at once.
* In `PlainStore`: directories, `list_dir` and `ensure_dir`; symbolic links and the
  resolution of a path on disk; the compression of a body (it is in `Frames`).
* In `Requests`: `raw_prefix_match`, compression levels and what a codec does to the
  bytes of a frame; the signature and dates of a token, which a library checks; a sealed
  name is ideal: one per path and unforgeable. Two requests at a time: the races of
  handlers on one file are `PlainStore`'s subject. A `read_stream` that finds no file
  answers 500 instead of 404, which no property is about.
* In `Download`: an etag is the number of the version, so two versions never share one;
  a native write of an earlier run is assumed to land before the next run writes; the
  client's budget of 16 MiB per call, below which a configured chunk must stay, is
  `Frames`' `budget`; several files at once.
* In `Tuning`: compression levels, the statistics a page is shown, the arithmetic of
  the averages; concurrent transfers on one engine.
* In `TransferGate`: the progress counters, a second transfer started while one runs,
  the batches of a file after the first, and which file a request belongs to.
* The SDK's file picking, events, in-memory fallback and zip writer; configuration
  parsing and the glue to JavaScript; error types; examples and end-to-end tests: no
  protocol state, or users of the system and not part of it.

## Plan

Done: the session store, its clients and their atomic abstraction; plain uploads and
downloads; the routes with paths, grants, ranges and frames; both download clients;
the tuning engine; the permit pool. Proved: every safety property the passing runs check,
the refinement of `AtomicUpload`, and the bounds behind `UploadsEnd`, `Settles`
and the server's half of `Terminates`. Left, in this order:

1. The session store with a sweeper that spares what is younger than its limit.
2. `TransferGate`: a second transfer started while one runs, later batches.
