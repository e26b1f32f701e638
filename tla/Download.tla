------------------------------ MODULE Download ------------------------------
(***************************************************************************)
(* Downloading one file, again and again, with a client that dies, a       *)
(* network that fails and a server whose file changes: the browser client  *)
(* (download_file with the SDK that writes its chunks to disk) and the     *)
(* native client (NativeClient.download_file).  Both keep a resume state   *)
(* of an etag and an offset; the browser fills a swap file that replaces   *)
(* the target when it is closed, the native client writes in place.        *)
(*                                                                         *)
(* An etag is the number of a version, 0 if there is none.  The server     *)
(* decides an answer by the metadata and opens the file after that, so     *)
(* that a block is a triple <<v, i, e>>: block i of version v, which came  *)
(* under the etag e.  A client never sees v.  A chunk is a block: chunks   *)
(* and windows are what the tuning engine makes of them, so how many       *)
(* chunks a batch has, and which of them crosses RESUME_SAVE_EVERY, is     *)
(* left open.                                                              *)
(***************************************************************************)
EXTENDS Integers, Sequences

CONSTANTS
  Histories,    \* the sizes, in blocks, of successive versions of the remote file
  MinParallel,  \* MIN_PARALLEL_DOWNLOAD_BYTES
  MaxWindow,    \* the largest download_window
  MaxRetries,
  MaxRuns       \* bound: how often the user starts the download

ASSUME HistoriesAssumption == Histories \subseteq Seq(Nat) \ {<<>>}
ASSUME LimitsAssumption ==
  MinParallel \in Nat /\ MaxWindow \in Nat /\ MaxRetries \in Nat /\ MaxRuns \in Nat

VARIABLES
  kind, sizes,  \* the client, and the history of the remote file
  version,      \* the version the server has
  disk,         \* the blocks of the target
  saved,        \* the resume state
  phase,        \* what the client does next
  listed,       \* browser: the size in the listing
  etag, offset, attempts, \* browser: the variables of download_file
  forced,       \* native: the second pass, force_restart
  meta,         \* the version whose etag and size the last answer told
  cursor,       \* blocks written: contiguous, file_offset, cursor
  batch,        \* the chunks of a batch and what became of them
  pend, after,  \* browser: the state to save and what comes then
  sink,         \* browser: the open writable
  opened,       \* browser: the file is in _fileHandles
  writing,      \* native: the write handed to a thread
  runs, result, skipped,
  body,         \* the version the server opened for the body that is streamed
  stale         \* history: a crash left a state of this version that the disk does not hold

setting == <<kind, sizes>>
kept    == <<disk, saved>>
engine  == <<listed, etag, offset, attempts, forced>>
place   == <<meta, cursor, batch>>
saving  == <<pend, after>>
local   == <<sink, opened>>
history == <<runs, body, stale>>
outcome == <<result, skipped>>
vars == <<setting, version, kept, phase, engine, place, saving, local, writing, history, outcome>>

MinOf(a, b) == IF a <= b THEN a ELSE b
MaxOf(a, b) == IF a >= b THEN a ELSE b
Size(v) == sizes[v]
Put(s, i, block) == IF i \in DOMAIN s THEN [s EXCEPT ![i] = block] ELSE Append(s, block)

State(e, n) == [etag |-> e, offset |-> n]
NoState == State(0, 0)
NoSink  == [open |-> FALSE, swap |-> <<>>, pos |-> 0, last |-> 0]
NoWrite == [at |-> 0, block |-> <<>>]

(* A block the client has as block i of version v.                         *)
Came(b, v, i) == b[2] = i /\ b[3] = v

(* A chunk: what became of it, its failed attempts, and the version of the *)
(* file that was opened for it.                                            *)
Chunk(at, n, v) == [at |-> at, tries |-> n, of |-> v]

Init ==
  /\ kind \in {"browser", "native"} /\ sizes \in Histories /\ version = 1
  /\ disk = <<>> /\ saved = NoState
  /\ phase = "over" /\ listed = 0 /\ etag = 0 /\ offset = 0 /\ attempts = 0 /\ forced = FALSE
  /\ meta = 0 /\ cursor = 0 /\ batch = <<>>
  /\ pend = NoState /\ after = "none"
  /\ sink = NoSink /\ opened = FALSE /\ writing = NoWrite
  /\ runs = 0 /\ result = "none" /\ skipped = FALSE /\ body = 0 /\ stale = FALSE

(* The remote file is replaced; a file that was opened stays what it was.  *)
Change ==
  /\ version < Len(sizes) /\ version' = version + 1
  /\ UNCHANGED <<setting, kept, phase, engine, place, saving, local, writing, history, outcome>>

(***************************************************************************)
(* Both clients.                                                           *)
(***************************************************************************)
Chunked(size, from) == size >= MinParallel /\ size - from >= MinParallel

(* The next w chunks of the file.                                          *)
BatchOf(w) == (cursor + 1)..MinOf(cursor + w, Size(meta))

(* The window is what the tuning engine has made of it by now.             *)
NextBatch ==
  /\ phase = "batch" /\ cursor < Size(meta) /\ phase' = "fetch"
  /\ \E w \in 1..MaxWindow : batch' = [i \in BatchOf(w) |-> Chunk("asked", 0, 0)]
  /\ UNCHANGED <<setting, version, kept, engine, meta, cursor, saving, local, writing, history, outcome>>

(* plan_download, of the metadata: If-Range makes a changed file a 200.    *)
Planned == IF version = meta THEN "planned" ELSE "changed"

(* read_stream opens the file by its name, whatever version that is by     *)
(* now, and takes no more of it than was planned.                          *)
Sent(v) == MinOf(Size(v), Size(meta))

(* The answer is planned, then the file opened.  A changed file is not     *)
(* asked for again, nor is a body that ends too soon; whatever else fails  *)
(* is, max_retries times.                                                  *)
Fetch(i) ==
  /\ phase = "fetch" /\ i \in DOMAIN batch
  /\ \/ /\ batch[i].at = "asked"
        /\ batch' = [batch EXCEPT ![i] = Chunk(Planned, @.tries, 0)]
     \/ /\ batch[i].at = "planned"
        /\ batch' = [batch EXCEPT ![i] = IF i <= Sent(version) THEN Chunk("got", 0, version)
                                         ELSE Chunk("lost", 0, 0)]
     \/ /\ batch[i].at \in {"asked", "planned"}
        /\ batch' = [batch EXCEPT ![i] = IF @.tries < MaxRetries THEN Chunk("asked", @.tries + 1, 0)
                                         ELSE Chunk("lost", 0, 0)]
  /\ UNCHANGED <<setting, version, kept, phase, engine, meta, cursor, saving, local, writing, history, outcome>>

(* The state is of the version the server has, and what a resume would     *)
(* keep did not come under its etag.                                       *)
Unbacked ==
  LET n == MinOf(saved.offset, Len(disk))
  IN  /\ saved.etag = version /\ \E i \in 1..n : ~Came(disk[i], version, i)
      /\ kind = "native" => n = saved.offset

(* The page or the process dies: the swap file and a write not landed are  *)
(* gone, the target and the state stay.                                    *)
Crash ==
  /\ phase # "over" /\ phase' = "over" /\ result' = "crashed" /\ skipped' = FALSE
  /\ stale' = (stale \/ Unbacked)
  /\ sink' = NoSink /\ opened' = FALSE /\ writing' = NoWrite
  /\ batch' = <<>> /\ pend' = NoState /\ after' = "none"
  /\ UNCHANGED <<setting, version, kept, engine, meta, cursor, runs, body>>

(***************************************************************************)
(* The browser: download_file.                                             *)
(***************************************************************************)
Route(size, from) == IF Chunked(size, from) THEN "head" ELSE "get"

(* Broken on purpose: a retry costs nothing.                               *)
RetryForEver == attempts' = attempts /\ phase' = Route(listed, offset)

Retry ==
  IF attempts < MaxRetries
  THEN attempts' = attempts + 1 /\ phase' = Route(listed, offset)
  ELSE attempts' = attempts /\ phase' = "failed"

Restart == offset' = 0 /\ attempts' = 0 /\ phase' = Route(listed, 0)

(* The offset of the state counts as far as there is a file behind it.     *)
LoadedOffset == IF saved.etag = 0 THEN 0 ELSE MinOf(saved.offset, Len(disk))

(* finish_download saves a state and completes the file.                   *)
Finish(e, n) == phase' = "record" /\ pend' = State(e, n) /\ after' = "complete"

(* Listing and classify_download: an offset at the listed end is a file    *)
(* that is there, whatever its etag.                                       *)
Begin ==
  /\ kind = "browser" /\ phase = "over" /\ runs < MaxRuns /\ runs' = runs + 1
  /\ listed' = Size(version) /\ attempts' = 0 /\ result' = "none"
  /\ LET from == LoadedOffset
         done == from = Size(version)
         keep == from <= Size(version) /\ from > 0
     IN  /\ offset' = IF keep THEN from ELSE 0
         /\ etag' = IF keep THEN saved.etag ELSE 0
         /\ skipped' = done
         /\ IF done THEN Finish(etag', from)
            ELSE phase' = Route(Size(version), offset') /\ UNCHANGED saving
  /\ cursor' = 0 /\ meta' = 0 /\ body' = 0
  /\ UNCHANGED <<setting, version, kept, forced, batch, local, writing, stale>>

(* Broken on purpose: the etag of the state is not compared.               *)
AskMetaUnvalidated ==
  /\ kind = "browser" /\ phase = "head"
  /\ \/ /\ Size(version) > 0 /\ phase' = "batch" /\ meta' = version
        /\ cursor' = MinOf(offset, Size(version)) /\ UNCHANGED attempts
     \/ Retry /\ UNCHANGED <<meta, cursor>>
  /\ UNCHANGED <<setting, version, kept, listed, etag, offset, forced, batch, saving, local, writing, history, outcome>>

(* download_file_parallel asks for etag and size; an empty file is an      *)
(* error, a changed one starts at its first byte.                          *)
AskMeta ==
  /\ kind = "browser" /\ phase = "head"
  /\ \/ /\ Size(version) > 0 /\ phase' = "batch" /\ meta' = version
        /\ cursor' = IF etag \notin {0, version} THEN 0 ELSE MinOf(offset, Size(version))
        /\ UNCHANGED attempts
     \/ Retry /\ UNCHANGED <<meta, cursor>>
  /\ UNCHANGED <<setting, version, kept, listed, etag, offset, forced, batch, saving, local, writing, history, outcome>>

(* All answers of the batch are there.  One of its errors counts.          *)
Collect ==
  /\ kind = "browser" /\ phase = "fetch"
  /\ \A i \in DOMAIN batch : batch[i].at \notin {"asked", "planned"}
  /\ \/ /\ \A i \in DOMAIN batch : batch[i].at = "got"
        /\ phase' = "emit" /\ UNCHANGED <<offset, attempts, batch>>
     \/ /\ \E i \in DOMAIN batch : batch[i].at = "changed"
        /\ Restart /\ batch' = <<>>
     \/ /\ \E i \in DOMAIN batch : batch[i].at = "lost"
        /\ Retry /\ batch' = <<>> /\ UNCHANGED offset
  /\ UNCHANGED <<setting, version, kept, listed, etag, forced, meta, cursor, saving, local, writing, history, outcome>>

(***************************************************************************)
(* The SDK: _onWriteChunk.  A chunk at or before the last one is a         *)
(* restart, and the swap file is dropped.  A new one starts with what is   *)
(* on disk if the chunk is not the first of the file.                      *)
(***************************************************************************)
(* Broken on purpose: the same chunk again is the next one.                *)
ReopensLate == ~sink.open \/ cursor < sink.last
Reopens == ~sink.open \/ cursor <= sink.last
OnDisk == Reopens => cursor <= Len(disk)
Swap == IF ~Reopens THEN sink.swap ELSE IF cursor = 0 THEN <<>> ELSE disk
Pos == IF Reopens THEN cursor ELSE sink.pos

OnWriteChunk(v) ==
  /\ sink' = [open |-> TRUE, swap |-> Put(Swap, Pos + 1, <<v, cursor + 1, meta>>),
              pos |-> Pos + 1, last |-> cursor]
  /\ opened' = TRUE /\ cursor' = cursor + 1

(* After a chunk, a state may be saved; then comes what came anyway.       *)
MaySave(e, to) ==
  \/ phase' = to /\ UNCHANGED saving
  \/ phase' = "record" /\ pend' = State(e, cursor + 1) /\ after' = to

(* The chunks of a batch are written in order.                             *)
Emit ==
  /\ kind = "browser" /\ phase = "emit"
  /\ IF OnDisk
     THEN /\ OnWriteChunk(batch[cursor + 1].of) /\ UNCHANGED attempts
          /\ MaySave(meta, IF cursor + 2 \in DOMAIN batch THEN "emit" ELSE "batch")
          /\ batch' = IF cursor + 2 \in DOMAIN batch THEN batch ELSE <<>>
     ELSE /\ sink' = NoSink /\ opened' = TRUE /\ Retry /\ batch' = <<>>
          /\ UNCHANGED <<cursor, saving>>
  /\ UNCHANGED <<setting, version, kept, listed, etag, offset, forced, meta, writing, history, outcome>>

AllEmitted ==
  /\ kind = "browser" /\ phase = "batch" /\ cursor = Size(meta)
  /\ Finish(meta, cursor)
  /\ UNCHANGED <<setting, version, kept, engine, place, local, writing, history, outcome>>

(* If-Range is sent behind the first byte.                                 *)
Honoured(v) == offset = 0 \/ etag \in {0, v}

(* The sequential path asks for everything from the offset on.             *)
Get ==
  /\ kind = "browser" /\ phase = "get"
  /\ \/ /\ Honoured(version) => offset < Size(version)             \* 206, or 200
        /\ phase' = "open" /\ meta' = version
        /\ cursor' = IF Honoured(version) THEN offset ELSE 0
        /\ UNCHANGED <<offset, attempts>>
     \/ /\ Honoured(version) /\ offset >= Size(version)            \* 416
        /\ Restart /\ UNCHANGED <<cursor, meta>>
     \/ Retry /\ UNCHANGED <<offset, cursor, meta>>               \* no answer
  /\ UNCHANGED <<setting, version, kept, listed, etag, forced, batch, saving, local, writing, history, outcome>>

(* The file is opened for the answer, of either client.  A 200 and the     *)
(* first 206 tell the browser its etag.                                    *)
Open ==
  /\ phase = "open" /\ phase' = "stream" /\ body' = version
  /\ etag' = IF kind = "browser" /\ (etag = 0 \/ ~Honoured(meta)) THEN meta ELSE etag
  /\ UNCHANGED <<setting, version, kept, listed, offset, attempts, forced, place, saving, local, writing>>
  /\ UNCHANGED <<runs, stale, outcome>>

(* stream_download: a body that breaks off ends the file, and one that     *)
(* ends is complete, as a compressed one of a shorter file does too.       *)
Stream ==
  /\ kind = "browser" /\ phase = "stream"
  /\ \/ /\ cursor < Sent(body)
        /\ IF OnDisk
           THEN OnWriteChunk(body) /\ MaySave(etag, "stream")
           ELSE sink' = NoSink /\ opened' = TRUE /\ phase' = "failed" /\ UNCHANGED <<cursor, saving>>
     \/ /\ cursor < Size(meta) /\ phase' = "failed"
        /\ UNCHANGED <<cursor, saving, local>>
     \/ /\ cursor >= Sent(body) /\ Finish(etag, MaxOf(listed, cursor))
        /\ UNCHANGED <<cursor, local>>
  /\ UNCHANGED <<setting, version, kept, engine, meta, batch, writing, history, outcome>>

(* saveState, then _checkpointDownload: the swap file replaces the target  *)
(* and a copy of it is the new one, unless the target is long enough.      *)
Record ==
  /\ phase = "record" /\ saved' = pend /\ phase' = "publish"
  /\ UNCHANGED <<setting, version, disk, engine, place, saving, local, writing, history, outcome>>

Publish ==
  /\ phase = "publish" /\ phase' = after
  /\ IF sink.open /\ saved.offset > 0 /\ Len(disk) < saved.offset
     THEN disk' = sink.swap /\ sink' = [sink EXCEPT !.pos = Len(sink.swap)]
     ELSE UNCHANGED <<disk, sink>>
  /\ pend' = NoState /\ after' = "none"
  /\ UNCHANGED <<setting, version, saved, engine, place, opened, writing, history, outcome>>

(* _onFileCompleted, or _flushWritables after a failure.                   *)
Close ==
  /\ phase \in {"complete", "failed"}
  /\ result' = (IF phase = "complete" THEN "done" ELSE "failed")
  /\ phase' = "sync" /\ sink' = NoSink
  /\ disk' = IF sink.open THEN sink.swap ELSE disk
  /\ UNCHANGED <<setting, version, saved, engine, place, saving, opened, writing, history, skipped>>

(* _syncResumeOffsets: the offset becomes the length, the etag stays.      *)
Sync ==
  /\ phase = "sync" /\ phase' = "over" /\ opened' = FALSE
  /\ saved' = IF opened /\ saved # NoState THEN State(saved.etag, Len(disk)) ELSE saved
  /\ UNCHANGED <<setting, version, disk, engine, place, saving, sink, writing, history, outcome>>

(***************************************************************************)
(* The native client.  A write of an earlier run has landed before the     *)
(* first answer of the next one.                                           *)
(***************************************************************************)
NBegin ==
  /\ kind = "native" /\ phase = "over" /\ writing = NoWrite
  /\ runs < MaxRuns /\ runs' = runs + 1
  /\ phase' = "head" /\ forced' = FALSE /\ result' = "none" /\ skipped' = FALSE
  /\ cursor' = 0 /\ meta' = 0 /\ body' = 0
  /\ UNCHANGED <<setting, version, kept, listed, etag, offset, attempts, batch, saving, local, writing, stale>>

(* A pass is over: a changed file is tried once more, from its first byte. *)
NFails(changed) ==
  IF changed /\ ~forced
  THEN forced' = TRUE /\ phase' = "head" /\ UNCHANGED result
  ELSE phase' = "over" /\ result' = "failed" /\ UNCHANGED forced

(* Broken on purpose: any state will do.                                   *)
ResumableAnyhow ==
  ~forced /\ saved.offset <= Size(version) /\ saved.offset <= Len(disk)

(* The state is of this version and the target is as long as it says.      *)
Resumable ==
  /\ ~forced /\ saved.etag = version
  /\ saved.offset <= Size(version) /\ saved.offset <= Len(disk)

NAskMeta ==
  /\ kind = "native" /\ phase = "head"
  /\ \/ LET start == IF Resumable THEN saved.offset ELSE 0
            done  == start = Size(version)
        IN  /\ meta' = version /\ cursor' = start
            /\ skipped' = done
            /\ result' = IF done THEN "done" ELSE result
            /\ phase' = IF done THEN "over"
                        ELSE IF Chunked(Size(version), start) THEN "batch" ELSE "get"
            /\ UNCHANGED forced
     \/ NFails(FALSE) /\ UNCHANGED <<meta, cursor, skipped>>
  /\ UNCHANGED <<setting, version, kept, listed, etag, offset, attempts, batch, saving, local, writing, history>>

(* The next block of the file goes out, behind the one before it.          *)
NWrite(v) ==
  /\ writing = NoWrite /\ writing' = [at |-> cursor + 1, block |-> <<v, cursor + 1, meta>>]
  /\ cursor' = cursor + 1

(* A chunk is written as soon as all before it are; its state may be saved *)
(* and that of the last one of a batch is.                                 *)
NEmit ==
  /\ kind = "native" /\ phase = "fetch"
  /\ cursor + 1 \in DOMAIN batch /\ batch[cursor + 1].at = "got"
  /\ NWrite(batch[cursor + 1].of)
  /\ LET last == cursor + 2 \notin DOMAIN batch
     IN  /\ phase' = IF last THEN "batch" ELSE "fetch"
         /\ batch' = IF last THEN <<>> ELSE batch
         /\ saved' \in {State(meta, cursor + 1)} \cup (IF last THEN {} ELSE {saved})
  /\ UNCHANGED <<setting, version, disk, engine, meta, saving, local, history, outcome>>

(* The first error of a batch drops the rest of it.                        *)
NError ==
  /\ kind = "native" /\ phase = "fetch"
  /\ \E i \in DOMAIN batch :
       batch[i].at \in {"changed", "lost"} /\ NFails(batch[i].at = "changed")
  /\ batch' = <<>>
  /\ UNCHANGED <<setting, version, kept, listed, etag, offset, attempts, meta, cursor, saving, local, writing, history, skipped>>

NGet ==
  /\ kind = "native" /\ phase = "get"
  /\ \/ version = meta /\ phase' = "open" /\ UNCHANGED <<forced, result>>
     \/ version # meta /\ NFails(TRUE)
     \/ NFails(FALSE)
  /\ UNCHANGED <<setting, version, kept, listed, etag, offset, attempts, place, saving, local, writing, history, skipped>>

(* A compressed body of a shorter file ends like any other.                *)
NStream ==
  /\ kind = "native" /\ phase = "stream"
  /\ \/ /\ cursor < Sent(body) /\ NWrite(body) /\ saved' \in {saved, State(meta, cursor + 1)}
        /\ UNCHANGED <<phase, result>>
     \/ /\ cursor < Size(meta) /\ phase' = "over" /\ result' = "failed"
        /\ UNCHANGED <<cursor, saved, writing>>
     \/ /\ cursor >= Sent(body) /\ phase' = "trim"
        /\ UNCHANGED <<cursor, saved, writing, result>>
  /\ UNCHANGED <<setting, version, disk, engine, meta, batch, saving, local, history, skipped>>

NAllEmitted ==
  /\ kind = "native" /\ phase = "batch" /\ cursor = Size(meta) /\ phase' = "trim"
  /\ UNCHANGED <<setting, version, kept, engine, place, saving, local, writing, history, outcome>>

(* The write lands, whatever has become of the download.                   *)
Land ==
  /\ writing # NoWrite /\ writing' = NoWrite
  /\ disk' = Put(disk, writing.at, writing.block)
  /\ UNCHANGED <<setting, version, saved, phase, engine, place, saving, local, history, outcome>>

(* set_len waits for the last write, cuts what an older version left, and  *)
(* fills up with zeros what is too short.  Then it is an error if it was.  *)
Trim ==
  /\ phase = "trim" /\ writing = NoWrite
  /\ disk' = [i \in 1..Size(meta) |-> IF i <= Len(disk) THEN disk[i] ELSE <<0, i, 0>>]
  /\ IF cursor = Size(meta) THEN phase' = "mark" /\ UNCHANGED result
     ELSE phase' = "over" /\ result' = "failed"
  /\ UNCHANGED <<setting, version, saved, engine, place, saving, local, writing, history, skipped>>

Mark ==
  /\ phase = "mark" /\ phase' = "over" /\ result' = "done"
  /\ saved' = State(meta, Size(meta))
  /\ UNCHANGED <<setting, version, disk, engine, place, saving, local, writing, history, skipped>>

(* The user cancels: the next check of the task's state is an error.       *)
Cancel ==
  /\ kind = "browser" /\ phase \in {"head", "get", "batch", "fetch", "stream"}
  /\ phase' = "failed" /\ batch' = <<>>
  /\ UNCHANGED <<setting, version, kept, engine, meta, cursor, saving, local, writing, history, outcome>>

-----------------------------------------------------------------------------
Work ==
  \/ NextBatch \/ \E i \in DOMAIN batch : Fetch(i)
  \/ AskMeta \/ Collect \/ Emit \/ AllEmitted \/ Get \/ Open \/ Stream
  \/ Record \/ Publish \/ Close \/ Sync
  \/ NAskMeta \/ NEmit \/ NError \/ NGet \/ NStream \/ NAllEmitted \/ Trim \/ Mark

Next == Change \/ Begin \/ NBegin \/ Work \/ Land \/ Cancel \/ Crash

(* Requests are answered or time out, promises and threads go on.          *)
Fairness == WF_vars(Work) /\ WF_vars(Land)
Spec == Init /\ [][Next]_vars /\ Fairness

-----------------------------------------------------------------------------
Fetched == phase = "over" /\ result = "done" /\ ~skipped /\ Size(meta) > 0

(* Block i of version v, or what a newer version has in its place: its     *)
(* answer was planned for v and the file replaced before it was opened.    *)
Stands(b, v, i) == b[2] = i /\ (b[1] = v \/ (b[1] > v /\ b[3] = v))

(* The browser was sent the end of a shorter file in this way, and took it *)
(* for the end of the one it asked for.                                    *)
EndedShort == kind = "browser" /\ body > 0 /\ Size(body) < Size(meta)

(* A download that fetched something leaves the whole of one version: no   *)
(* block twice, none left out, none of another version and nothing of a    *)
(* longer one behind it, however often it was resumed, retried and         *)
(* restarted (download_file, _onWriteChunk, download_once).  The client    *)
(* is not to blame for a block whose file was replaced between the check   *)
(* of the etag and the opening (handlers.rs:184-234), nor the property for *)
(* a crash that left a state that is not true.                             *)
FinishedIsWhole ==
  Fetched /\ ~stale /\ ~EndedShort =>
    Len(disk) = Size(meta) /\ \A i \in DOMAIN disk : Stands(disk[i], meta, i)

(* The browser's target is at any time the beginning of one version, not   *)
(* only when a download is done: what a swap file replaces it with is      *)
(* contiguous and never of two versions (_checkpointDownload,              *)
(* _flushWritables), but for the blocks whose file was replaced under      *)
(* their etag, each in the place of the one it was asked for.              *)
TargetIsOneVersion ==
  kind = "browser" /\ ~stale =>
    \E v \in DOMAIN sizes :
      Len(disk) <= Size(v) /\ \A i \in DOMAIN disk : Stands(disk[i], v, i)

(* What the native client's state says of the version the server has is    *)
(* on disk, but for the write in flight, or the target is too short for it *)
(* to count (save_resume, download_once).  A body of another version than  *)
(* its etag is no exception: its etag is older than the server's version.  *)
StateIsTrue ==
  kind = "native" /\ ~stale /\ saved.etag = version /\ saved.offset <= Len(disk) =>
    \A i \in 1..saved.offset : (disk[i][1] = version /\ disk[i][2] = i) \/ writing.at = i

(* A download ends, with the file or without it: every restart is owed to  *)
(* a change of the remote file and every retry is counted.                 *)
DownloadsEnd == phase # "over" ~> phase = "over"

(* "an earlier checkpoint already covers it" (sdk/index.js:927): if the    *)
(* target is as long as the state saved, it holds what the state says, and *)
(* so a resume completes the file it began.                                *)
ResumedIsOneVersion ==
  kind = "browser" /\ Fetched /\ ~EndedShort =>
    \A i \in DOMAIN disk : Stands(disk[i], meta, i)

(* "per-chunk Range + If-Range, in-order writes, restart when the remote   *)
(* file changed" (native/download.rs:5-6): a native download that reports  *)
(* success is of one version, byte for byte.                               *)
NeverMixed ==
  kind = "native" /\ Fetched /\ ~stale =>
    \E v \in DOMAIN sizes : \A i \in DOMAIN disk : disk[i][1] = v
=============================================================================
