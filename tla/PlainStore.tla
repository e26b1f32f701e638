----------------------------- MODULE PlainStore -----------------------------
(***************************************************************************)
(* Plain uploads and downloads of one file: upload without a session, with *)
(* FsStorage.write_stream and FsSink, and download with plan_download and  *)
(* read_stream.  Every await of a handler is an action of its own, so the  *)
(* handlers of one file interleave at each of them.                        *)
(*                                                                         *)
(* A file is an inode; a name refers to one.  Every Create and Overwrite   *)
(* makes an inode under a temporary name of its own and is identified with *)
(* it.  What an inode holds is the sequence of its blocks, each named for  *)
(* the request that wrote it.                                              *)
(*                                                                         *)
(* A handler whose connection closes is dropped at the await it is in, and *)
(* the disk operation it waits for takes place all the same; for opening,  *)
(* removing and renaming that is the operation followed by the drop.  Only *)
(* a write needs more: FsSink.write returns once the block is handed to a  *)
(* thread, and the block may land when the handler is long gone.           *)
(***************************************************************************)
EXTENDS Integers, Sequences, SequencesExt

CONSTANTS
  Writers,      \* upload requests
  Readers,      \* download requests
  Requests,     \* what an upload may ask for: mode, offset, size, final
  MaxUpload,    \* ServerState.max_upload_size, in blocks
  Old,          \* the file that may be there before
  None

Inodes == Writers \cup {Old}
RequestShape ==
  [mode : {"create", "overwrite", "resume"}, offset : Nat, size : Nat, final : BOOLEAN]

(* Only a Resume has an offset: none is a Create, 0 an Overwrite.          *)
ASSUME RequestsAssumption ==
  /\ Requests \subseteq RequestShape
  /\ \A q \in Requests : q.mode # "resume" => q.offset = 0
ASSUME NamesAssumption == Old \notin Writers /\ None \notin Inodes
ASSUME UploadAssumption == MaxUpload \in Nat

VARIABLES
  target,       \* the inode the file's name refers to
  temps,        \* the temporary names that exist
  content,      \* the blocks of each inode
  holder,       \* who holds the file's lock (Resume only)
  queue,        \* who waits for it, first come first served
  pc, req,      \* of each upload: the await it is in and what it asks for
  fd,           \* the inode its sink writes
  sent,         \* its blocks handed to the disk
  inflight,     \* one of them has not landed
  lost,         \* one of them will not: the disk is full
  result,       \* its answer
  overtaken,    \* history: Creates whose body ended when there was a file
  loose,        \* history: a lock was let go with a write in flight
  rpc, ask,     \* of each download: its await and what was promised
  rfd, got      \* the inode it reads and what was sent

files   == <<target, temps, content>>
lock    == <<holder, queue>>
sinks   == <<req, fd, sent>>
disk    == <<inflight, lost>>
history == <<overtaken, loose>>
readers == <<rpc, ask, rfd, got>>
vars    == <<files, lock, pc, sinks, disk, result, history, readers>>

Is(w, mode) == req[w].mode = mode
Length(i) == Len(content[i])
Total(w) == req[w].offset + sent[w]

Init ==
  /\ target \in {None, Old} /\ temps = {}
  /\ content = [i \in Inodes |-> IF i = Old THEN <<Old>> ELSE <<>>]
  /\ holder = None /\ queue = <<>>
  /\ pc = [w \in Writers |-> "idle"]
  /\ req \in [Writers -> Requests]
  /\ fd = [w \in Writers |-> None] /\ sent = [w \in Writers |-> 0]
  /\ inflight = [w \in Writers |-> FALSE] /\ lost = [w \in Writers |-> FALSE]
  /\ result = [w \in Writers |-> "none"]
  /\ overtaken = {} /\ loose = FALSE
  /\ rpc = [r \in Readers |-> "idle"]
  /\ ask = [r \in Readers |-> [file |-> None, from |-> 0, blocks |-> <<>>]]
  /\ rfd = [r \in Readers |-> None] /\ got = [r \in Readers |-> <<>>]

(***************************************************************************)
(* The lock of the file.                                                   *)
(***************************************************************************)
(* Broken on purpose: who waits is not woken.                              *)
ReleaseToNobody(w) ==
  /\ holder' = IF holder = w THEN None ELSE holder
  /\ queue' = SelectSeq(queue, LAMBDA v : v # w)

(* The guard is dropped, or who was to get it is: the next one has it.     *)
Release(w) ==
  \/ holder = w /\ queue = <<>> /\ holder' = None /\ UNCHANGED queue
  \/ holder = w /\ queue # <<>> /\ holder' = Head(queue) /\ queue' = Tail(queue)
  \/ /\ holder # w /\ UNCHANGED holder
     /\ \E k \in DOMAIN queue : queue[k] = w /\ queue' = RemoveAt(queue, k)
  \/ holder # w /\ (\A k \in DOMAIN queue : queue[k] # w) /\ UNCHANGED lock

(* A handler is over, with its answer; a block of it may be in flight.     *)
Ends(w, answer) ==
  /\ pc' = [pc EXCEPT ![w] = "done"] /\ result' = [result EXCEPT ![w] = answer]
  /\ Release(w)
  /\ loose' = (loose \/ (holder = w /\ inflight[w]))

Goes(w, to) ==
  /\ pc' = [pc EXCEPT ![w] = to] /\ UNCHANGED <<lock, result, loose>>

(***************************************************************************)
(* An upload.                                                              *)
(***************************************************************************)
Arrive(w) ==
  /\ pc[w] = "idle"
  /\ IF req[w].size > MaxUpload
     THEN Ends(w, "refused")
     ELSE Goes(w, CASE Is(w, "create") -> "exists" [] Is(w, "overwrite") -> "temp"
                    [] Is(w, "resume") -> "lock")
  /\ UNCHANGED <<files, sinks, disk, overtaken, readers>>

(* write_stream of a Create looks for the file first.                      *)
Exists(w) ==
  /\ pc[w] = "exists"
  /\ IF target # None THEN Ends(w, "refused") ELSE Goes(w, "temp")
  /\ UNCHANGED <<files, sinks, disk, overtaken, readers>>

CreateTemp(w) ==
  /\ pc[w] = "temp" /\ Goes(w, "body")
  /\ temps' = temps \cup {w} /\ fd' = [fd EXCEPT ![w] = w]
  /\ UNCHANGED <<target, content, req, sent, disk, overtaken, readers>>

(* write_stream of a Resume takes the lock of the file, opens it to append *)
(* and compares its length.                                                *)
Lock(w) ==
  /\ pc[w] = "lock"
  /\ IF holder = None
     THEN holder' = w /\ UNCHANGED queue
     ELSE queue' = Append(queue, w) /\ UNCHANGED holder
  /\ pc' = [pc EXCEPT ![w] = "open"]
  /\ UNCHANGED <<files, sinks, disk, result, history, readers>>

(* Broken on purpose: nobody waits for the lock.                           *)
OpenUnlocked(w) ==
  /\ pc[w] = "open"
  /\ IF target = None
     THEN Ends(w, "failed") /\ UNCHANGED fd
     ELSE Goes(w, "measure") /\ fd' = [fd EXCEPT ![w] = target]
  /\ UNCHANGED <<files, req, sent, disk, overtaken, readers>>

Open(w) ==
  /\ pc[w] = "open" /\ holder = w
  /\ IF target = None
     THEN Ends(w, "failed") /\ UNCHANGED fd
     ELSE Goes(w, "measure") /\ fd' = [fd EXCEPT ![w] = target]
  /\ UNCHANGED <<files, req, sent, disk, overtaken, readers>>

Measure(w) ==
  /\ pc[w] = "measure"
  /\ IF Length(fd[w]) # req[w].offset THEN Ends(w, "failed") ELSE Goes(w, "body")
  /\ UNCHANGED <<files, sinks, disk, overtaken, readers>>

(* write_batch: the declared size bounds the body, whatever the body says. *)
(* The block before it must have landed, or have failed.                   *)
Write(w) ==
  /\ pc[w] = "body" /\ ~inflight[w]
  /\ IF lost[w] \/ Total(w) + 1 > req[w].size
     THEN Goes(w, "abort") /\ UNCHANGED <<sent, inflight>>
     ELSE /\ Goes(w, "body")
          /\ sent' = [sent EXCEPT ![w] = @ + 1]
          /\ inflight' = [inflight EXCEPT ![w] = TRUE]
  /\ UNCHANGED <<files, req, fd, lost, overtaken, readers>>

(* The block lands at the end of the inode, or the disk is full.           *)
Land(w) ==
  /\ inflight[w] /\ inflight' = [inflight EXCEPT ![w] = FALSE]
  /\ \/ /\ content' = [content EXCEPT ![fd[w]] = Append(@, w)]
        /\ UNCHANGED lost
     \/ lost' = [lost EXCEPT ![w] = TRUE] /\ UNCHANGED content
  /\ UNCHANGED <<target, temps, lock, pc, sinks, result, history, readers>>

(* The connection breaks or a frame is invalid: write_result is an error.  *)
Break(w) ==
  /\ pc[w] = "body" /\ Goes(w, "abort")
  /\ UNCHANGED <<files, sinks, disk, overtaken, readers>>

(* The declared size is a bound, and the size itself on the final chunk.   *)
EndBody(w) ==
  /\ pc[w] = "body"
  /\ Goes(w, IF req[w].final /\ Total(w) # req[w].size THEN "abort" ELSE "flush")
  /\ overtaken' = IF Is(w, "create") /\ target # None THEN overtaken \cup {w} ELSE overtaken
  /\ UNCHANGED <<files, sinks, disk, readers>>

(* Broken on purpose: what a Resume appended is cut off again.             *)
AbortTruncating(w) ==
  /\ pc[w] = "abort" /\ Ends(w, "failed")
  /\ temps' = temps \ {w}
  /\ content' = IF Is(w, "resume")
                THEN [content EXCEPT ![fd[w]] = SubSeq(@, 1, req[w].offset)]
                ELSE content
  /\ UNCHANGED <<target, sinks, disk, overtaken, readers>>

(* Abort removes a temporary file; what a Resume appended stays.           *)
Abort(w) ==
  /\ pc[w] = "abort" /\ Ends(w, "failed")
  /\ temps' = temps \ {w}
  /\ UNCHANGED <<target, content, sinks, disk, overtaken, readers>>

(* Broken on purpose: commit does not wait for the last block.             *)
FlushNothing(w) ==
  /\ pc[w] = "flush"
  /\ Goes(w, CASE Is(w, "create") -> "recheck" [] Is(w, "overwrite") -> "rename"
               [] Is(w, "resume") -> "meta")
  /\ UNCHANGED <<files, sinks, disk, overtaken, readers>>

(* Commit: the last block lands, and everything is synced.  An error here  *)
(* leaves the temporary file.                                              *)
Flush(w) ==
  /\ pc[w] = "flush" /\ ~inflight[w]
  /\ IF lost[w]
     THEN Ends(w, "failed")
     ELSE Goes(w, CASE Is(w, "create") -> "recheck" [] Is(w, "overwrite") -> "rename"
                    [] Is(w, "resume") -> "meta")
  /\ UNCHANGED <<files, sinks, disk, overtaken, readers>>

(* Broken on purpose: the first look for the file is enough.               *)
RecheckNothing(w) ==
  /\ pc[w] = "recheck" /\ Goes(w, "rename")
  /\ UNCHANGED <<files, sinks, disk, overtaken, readers>>

Recheck(w) ==
  /\ pc[w] = "recheck"
  /\ IF target # None
     THEN Ends(w, "refused") /\ temps' = temps \ {w}
     ELSE Goes(w, "rename") /\ UNCHANGED temps
  /\ UNCHANGED <<target, content, sinks, disk, overtaken, readers>>

Rename(w) ==
  /\ pc[w] = "rename" /\ Goes(w, "meta")
  /\ target' = w /\ temps' = temps \ {w}
  /\ UNCHANGED <<content, sinks, disk, overtaken, readers>>

(* The answer describes whatever has the name by now.                      *)
Meta(w) ==
  /\ pc[w] = "meta"
  /\ Ends(w, IF target = None THEN "failed" ELSE "created")
  /\ UNCHANGED <<files, sinks, disk, overtaken, readers>>

(* The connection closes: the handler is dropped where it is.              *)
Drop(w) ==
  /\ pc[w] \notin {"idle", "done"} /\ Ends(w, "dropped")
  /\ UNCHANGED <<files, sinks, disk, overtaken, readers>>

(* The program around the server removes the file; no route does.          *)
RemoveTarget ==
  /\ target # None /\ target' = None /\ overtaken' = {}
  /\ UNCHANGED <<temps, content, lock, pc, sinks, disk, result, loose, readers>>

(***************************************************************************)
(* A download.  plan_download reads the metadata, which decides the range, *)
(* the etag and the length; read_stream then opens the file.               *)
(***************************************************************************)
Plan(r) ==
  /\ rpc[r] = "idle"
  /\ \/ /\ target = None /\ rpc' = [rpc EXCEPT ![r] = "missing"] /\ UNCHANGED ask
     \/ /\ target # None /\ rpc' = [rpc EXCEPT ![r] = "open"]
        /\ \E from, to \in 0..Length(target) :
             /\ from < to \/ (from = 0 /\ to = Length(target))
             /\ ask' = [ask EXCEPT ![r] =
                  [file |-> target, from |-> from, blocks |-> SubSeq(content[target], from + 1, to)]]
  /\ UNCHANGED <<files, lock, pc, sinks, disk, result, history, rfd, got>>

(* Whatever has the name by now is read, under the promised etag.          *)
OpenToRead(r) ==
  /\ rpc[r] = "open"
  /\ IF target = None
     THEN rpc' = [rpc EXCEPT ![r] = "failed"] /\ UNCHANGED rfd
     ELSE rpc' = [rpc EXCEPT ![r] = "read"] /\ rfd' = [rfd EXCEPT ![r] = target]
  /\ UNCHANGED <<files, lock, pc, sinks, disk, result, history, ask, got>>

(* The reader of the inode goes on after the name is gone.                 *)
Read(r) ==
  /\ rpc[r] = "read"
  /\ LET next == ask[r].from + Len(got[r]) + 1
     IN  IF Len(got[r]) < Len(ask[r].blocks) /\ next <= Length(rfd[r])
         THEN got' = [got EXCEPT ![r] = Append(@, content[rfd[r]][next])] /\ UNCHANGED rpc
         ELSE rpc' = [rpc EXCEPT ![r] = "done"] /\ UNCHANGED got
  /\ UNCHANGED <<files, lock, pc, sinks, disk, result, history, ask, rfd>>

Handle(w) ==
  \/ Arrive(w) \/ Exists(w) \/ CreateTemp(w)
  \/ Lock(w) \/ Open(w) \/ Measure(w)
  \/ Write(w) \/ Break(w) \/ EndBody(w) \/ Abort(w)
  \/ Flush(w) \/ Recheck(w) \/ Rename(w) \/ Meta(w)

Serve(r) == Plan(r) \/ OpenToRead(r) \/ Read(r)

Next ==
  \/ \E w \in Writers : Handle(w) \/ Land(w) \/ Drop(w)
  \/ \E r \in Readers : Serve(r)
  \/ RemoveTarget

(* Handlers run, disks answer, and a body ends or breaks sooner or later.  *)
Fairness == \A w \in Writers : WF_vars(Handle(w)) /\ WF_vars(Land(w))
Spec == Init /\ [][Next]_vars /\ Fairness

-----------------------------------------------------------------------------
Steps == {"idle", "exists", "temp", "lock", "open", "measure", "body", "abort",
          "flush", "recheck", "rename", "meta", "done"}

(* Names refer to inodes, sinks and readers to one they made or found.     *)
PlainTypeOK ==
  /\ target \in Inodes \cup {None} /\ temps \subseteq Writers
  /\ content \in [Inodes -> Seq(Inodes)]
  /\ holder \in Writers \cup {None} /\ queue \in Seq(Writers)
  /\ pc \in [Writers -> Steps] /\ req \in [Writers -> Requests]
  /\ fd \in [Writers -> Inodes \cup {None}] /\ sent \in [Writers -> Nat]
  /\ inflight \in [Writers -> BOOLEAN] /\ lost \in [Writers -> BOOLEAN]
  /\ result \in [Writers -> {"none", "refused", "failed", "created", "dropped"}]
  /\ overtaken \subseteq Writers /\ loose \in BOOLEAN
  /\ rpc \in [Readers -> {"idle", "missing", "open", "failed", "read", "done"}]
  /\ ask \in [Readers -> [file : Inodes \cup {None}, from : Nat, blocks : Seq(Inodes)]]
  /\ rfd \in [Readers -> Inodes \cup {None}] /\ got \in [Readers -> Seq(Inodes)]

(* A file that a Create or an Overwrite has put in place has the whole     *)
(* body of that request from its first block on, its full declared size if *)
(* the request was final, and behind it only what Resumes appended: no     *)
(* block of it is still in flight (FsSink.commit, write_batch).            *)
PublishedWhole ==
  \A w \in Writers : target = w =>
    /\ Length(w) >= sent[w]
    /\ \A k \in 1..Length(w) : content[w][k] = w <=> k <= sent[w]
    /\ req[w].final => sent[w] = req[w].size

(* The blocks of an acknowledged Resume follow each other from its offset  *)
(* on in the inode it opened, whoever else resumes: only a block that was  *)
(* in flight when its handler let go of the lock can get between them      *)
(* (write_stream: check of the length under the lock).                     *)
ResumesInPlace ==
  ~loose =>
    \A w \in Writers : Is(w, "resume") /\ result[w] = "created" =>
      /\ Length(fd[w]) >= Total(w)
      /\ \A k \in 1..sent[w] : content[fd[w]][req[w].offset + k] = w

(* A download is a stretch of one file, and one that opens the file its    *)
(* metadata came from gets all that was promised, whatever uploads,        *)
(* renames, aborts and removals happen meanwhile (plan_download,           *)
(* read_stream).                                                           *)
ReadersUndisturbed ==
  \A r \in Readers : rpc[r] \in {"read", "done"} =>
    /\ got[r] = SubSeq(content[rfd[r]], ask[r].from + 1, ask[r].from + Len(got[r]))
    /\ rpc[r] = "done" /\ rfd[r] = ask[r].file => got[r] = ask[r].blocks

(* A Create whose body has ended when there was a file does not replace    *)
(* it, nor claims to have: two Creates of one name cannot both succeed     *)
(* unless the second looks before the first renames (FsSink.commit).       *)
OvertakenCreateFails ==
  \A w \in overtaken : target # w /\ result[w] # "created"

(* Every upload gets an answer: the lock of the file passes on, whether    *)
(* its holder commits, aborts, fails or is dropped (target_guard).         *)
UploadsEnd == \A w \in Writers : pc[w] # "idle" ~> pc[w] = "done"
=============================================================================
