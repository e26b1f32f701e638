---------------------------- MODULE SessionStore ----------------------------
(***************************************************************************)
(* The server side of one concurrent "session" upload: the handler         *)
(* upload_session and the FsSink it drives, over the three files they      *)
(* share: the session temp, its ".blocks" sidecar and the target.          *)
(*                                                                         *)
(* A file name and the file it names are kept apart: temp and target name  *)
(* inodes, and a request goes on using the inode it opened after the name  *)
(* has been removed, renamed or given to another inode.  The upload is cut *)
(* into NBlocks blocks of equal length; a block is the slice one write_at  *)
(* call stores, and a request body is an interval of blocks.               *)
(*                                                                         *)
(* One action is one await of the code: between two of them any other      *)
(* request, the stale-session sweeper or a crash may run.  A write through *)
(* a tokio File is handed to the blocking pool and reported as done before *)
(* the bytes are in the file, so it is inflight until Land.  If it fails,  *)
(* the sink's next operation on the file is told.                          *)
(***************************************************************************)
EXTENDS Integers, FiniteSets, Sequences, SequencesExt

CONSTANTS
  Requests,     \* HTTP requests the server can be handling at once
  Inodes,       \* files; one is reused once nothing refers to it
  NBlocks,      \* length of the declared file, in blocks
  Bodies,       \* the intervals <<first, last>> a request may carry
  Modes,        \* "Overwrite" (offset header sent) and/or "Create" (not sent)
  Faults,       \* "disconnect", "reject", "full", "cancel", "detach", "crash", "sweep"
  PoolLimit,    \* writes, and detached operations, that may be pending (a bound)
  None          \* no inode, no request

Blocks == 1..NBlocks

ASSUME BlocksAssumption == NBlocks \in Nat
ASSUME BodiesAssumption ==
  /\ Bodies \subseteq (Nat \X Nat)
  /\ \A b \in Bodies : 1 <= b[1] /\ b[2] <= NBlocks
ASSUME ModesAssumption == Modes \subseteq {"Create", "Overwrite"}
ASSUME PoolAssumption == PoolLimit \in Nat
ASSUME NoneAssumption == None \notin Requests /\ None \notin Inodes

VARIABLES
  temp,         \* inode the session temp names, or None
  target,       \* inode the target path names, or None
  sidecar,      \* blocks the .blocks file lists ({}: also when it is absent)
  data,         \* data[i]: blocks whose bytes inode i holds; the rest are zeros
  inflight,     \* <<i, b>>: block b handed to the blocking pool for inode i
  holder,       \* request holding the temp's lock, or None
  waiters,      \* requests queued for it, first come first served
  pc,           \* where each request's handler is
  op,           \* what each request asks for
  exists,       \* what try_exists told each request about the temp
  fd,           \* inode each request's sink has open, or None
  next,         \* next block of the body to write
  ranges,       \* each sink's FsSink.ranges
  current,      \* write_at's local copy of the sidecar, merged, not yet persisted
  sweeper,      \* where cleanup_stale_sessions is with this session's temp
  detached      \* disk operations that outlive the handler that asked for them

disk     == <<temp, target, sidecar, data, inflight>>
lock     == <<holder, waiters>>
handlers == <<pc, op, exists, fd, next, ranges, current>>
background == <<sweeper, detached>>
vars     == <<disk, lock, handlers, background>>

Kinds   == {"probe", "data", "final"}
NoOp    == [kind |-> "data", mode |-> "Overwrite", body |-> <<1, 0>>]
Ops     == [kind : Kinds, mode : {"Create", "Overwrite"}, body : Nat \X Nat]
Unlocked == {"idle", "stat", "check", "open", "lock", "wait"}
Locked  == {"answer", "write", "read", "persist", "unlist", "flush",
            "recheck", "rename", "discard", "unlink", "forget"}

(* A file is as long as the last block written to it: a missing middle     *)
(* block is a hole, not a shorter file.                                    *)
FullLength(i) == NBlocks = 0 \/ NBlocks \in data[i]

(* No name, sink or write refers to inode i: the file system may reuse it. *)
Unreferenced(i) ==
  /\ i # temp /\ i # target
  /\ \A r \in Requests : fd[r] # i
  /\ \A w \in inflight : w[1] # i

Init ==
  /\ temp = None /\ target = None
  /\ sidecar = {} /\ inflight = {}
  /\ data = [i \in Inodes |-> {}]
  /\ holder = None /\ waiters = <<>>
  /\ pc = [r \in Requests |-> "idle"]
  /\ op = [r \in Requests |-> NoOp]
  /\ exists = [r \in Requests |-> FALSE]
  /\ fd = [r \in Requests |-> None]
  /\ next = [r \in Requests |-> 1]
  /\ ranges = [r \in Requests |-> {}]
  /\ current = [r \in Requests |-> {}]
  /\ sweeper = "idle" /\ detached = {}

Goto(r, label) == pc' = [pc EXCEPT ![r] = label]

(* The handler of r ends, and with it its sink.                            *)
Finish(r) ==
  /\ Goto(r, "idle")
  /\ op' = [op EXCEPT ![r] = NoOp]
  /\ exists' = [exists EXCEPT ![r] = FALSE]
  /\ fd' = [fd EXCEPT ![r] = None]
  /\ next' = [next EXCEPT ![r] = 1]
  /\ ranges' = [ranges EXCEPT ![r] = {}]
  /\ current' = [current EXCEPT ![r] = {}]

(* Broken on purpose: the guard is dropped without waking a waiter.        *)
ReleaseWithoutHandoff(r) ==
  /\ holder' = IF holder = r THEN None ELSE holder
  /\ waiters' = SelectSeq(waiters, LAMBDA w : w # r)

(* Dropping the guard hands the lock to the first waiter; a request that   *)
(* was only queued leaves the queue.                                       *)
Release(r) ==
  \/ /\ holder = r /\ waiters = <<>>
     /\ holder' = None /\ UNCHANGED waiters
  \/ /\ holder = r /\ waiters # <<>>
     /\ holder' = Head(waiters) /\ waiters' = Tail(waiters)
  \/ /\ holder # r
     /\ \E k \in DOMAIN waiters : waiters[k] = r /\ waiters' = RemoveAt(waiters, k)
     /\ UNCHANGED holder
  \/ /\ holder # r /\ \A k \in DOMAIN waiters : waiters[k] # r
     /\ UNCHANGED lock

(***************************************************************************)
(* Opening the session temp: write_stream_session.                         *)
(***************************************************************************)
Arrive(r, kind, mode, body) ==
  /\ pc[r] = "idle"
  /\ Goto(r, "stat")
  /\ op' = [op EXCEPT ![r] = [kind |-> kind, mode |-> mode, body |-> body]]
  /\ next' = [next EXCEPT ![r] = body[1]]
  /\ UNCHANGED <<disk, lock, exists, fd, ranges, current, background>>

Stat(r) ==
  /\ pc[r] = "stat"
  /\ exists' = [exists EXCEPT ![r] = temp # None]
  /\ Goto(r, IF temp = None /\ op[r].mode = "Create" THEN "check" ELSE "open")
  /\ UNCHANGED <<disk, lock, op, fd, next, ranges, current, background>>

OpenExisting(r) ==
  /\ pc[r] = "open" /\ exists[r] /\ temp # None
  /\ fd' = [fd EXCEPT ![r] = temp]
  /\ Goto(r, "lock")
  /\ UNCHANGED <<disk, lock, op, exists, next, ranges, current, background>>

(* Create mode asks for the target first.                                  *)
CheckTarget(r) ==
  /\ pc[r] = "check" /\ target = None
  /\ Goto(r, "open")
  /\ UNCHANGED <<disk, lock, op, exists, fd, next, ranges, current, background>>

Create(r) ==
  /\ pc[r] = "open" /\ ~exists[r] /\ temp = None
  /\ \E i \in Inodes :
       /\ Unreferenced(i)
       /\ temp' = i
       /\ data' = [data EXCEPT ![i] = {}]
       /\ fd' = [fd EXCEPT ![r] = i]
  /\ Goto(r, "lock")
  /\ UNCHANGED <<target, sidecar, inflight, lock, op, exists, next, ranges, current, background>>

(* The target is already there in Create mode, the temp vanished after     *)
(* try_exists, or another request created it first (create_new).           *)
OpenFails(r) ==
  /\ \/ pc[r] = "check" /\ target # None
     \/ pc[r] = "open" /\ exists[r] = (temp = None)
  /\ Finish(r)
  /\ UNCHANGED <<disk, lock, background>>

(* Broken on purpose: the guard is taken without waiting for the holder.   *)
LockWithoutWaiting(r) ==
  /\ pc[r] = "lock"
  /\ Goto(r, "wait") /\ holder' = r
  /\ UNCHANGED <<disk, waiters, op, exists, fd, next, ranges, current, background>>

(* The lock is asked for only now, after the temp has been opened.         *)
Lock(r) ==
  /\ pc[r] = "lock"
  /\ Goto(r, "wait")
  /\ IF holder = None
       THEN holder' = r /\ UNCHANGED waiters
       ELSE waiters' = Append(waiters, r) /\ UNCHANGED holder
  /\ UNCHANGED <<disk, op, exists, fd, next, ranges, current, background>>

(* Broken on purpose: a creator keeps the sidecar of an earlier attempt.    *)
LoadedStale(r) == sidecar

(* A creator drops a stale sidecar; anyone else loads it.                  *)
Loaded(r) == IF exists[r] THEN sidecar ELSE {}

(* The probe answers with what was loaded and drops its sink without abort. *)
LoadRanges(r) ==
  /\ pc[r] = "wait" /\ holder = r
  /\ sidecar' = Loaded(r)
  /\ ranges' = [ranges EXCEPT ![r] = Loaded(r)]
  /\ Goto(r, IF op[r].kind = "probe" THEN "answer" ELSE "write")
  /\ UNCHANGED <<temp, target, data, inflight, lock, op, exists, fd, next, current, background>>

AnswerProbe(r) ==
  /\ pc[r] = "answer"
  /\ Finish(r)
  /\ Release(r)
  /\ UNCHANGED <<disk, background>>

(***************************************************************************)
(* The body: FsSink::write_at for every slice, its sidecar update in two   *)
(* steps (read and merge, then persist).  A seek waits for this sink's own *)
(* write in flight, and only for that one.                                 *)
(***************************************************************************)
FirstBlock(r) == op[r].body[1]

(* Broken on purpose: one slice too many.                                  *)
OnePastLast(r) == op[r].body[2] + 1

LastBlock(r) == op[r].body[2]

Write(r) ==
  /\ pc[r] = "write" /\ next[r] <= LastBlock(r)
  /\ next[r] > FirstBlock(r) => <<fd[r], next[r] - 1>> \notin inflight
  /\ Cardinality(inflight) < PoolLimit
  /\ inflight' = inflight \cup {<<fd[r], next[r]>>}
  /\ Goto(r, "read")
  /\ UNCHANGED <<temp, target, sidecar, data, lock, op, exists, fd, next, ranges, current, background>>

(* Broken on purpose: the new block replaces the list.                     *)
NotMerged(r) == {next[r]}

Merged(r) == sidecar \cup {next[r]}

ReadRanges(r) ==
  /\ pc[r] = "read"
  /\ current' = [current EXCEPT ![r] = Merged(r)]
  /\ Goto(r, "persist")
  /\ UNCHANGED <<disk, lock, op, exists, fd, next, ranges, background>>

(* Broken on purpose: the sink's own copy is not refreshed.                *)
PersistOnly(r) ==
  /\ pc[r] = "persist"
  /\ sidecar' = current[r]
  /\ current' = [current EXCEPT ![r] = {}]
  /\ next' = [next EXCEPT ![r] = @ + 1]
  /\ Goto(r, "write")
  /\ UNCHANGED <<temp, target, data, inflight, lock, op, exists, fd, ranges, background>>

PersistRanges(r) ==
  /\ pc[r] = "persist"
  /\ sidecar' = current[r]
  /\ ranges' = [ranges EXCEPT ![r] = current[r]]
  /\ current' = [current EXCEPT ![r] = {}]
  /\ next' = [next EXCEPT ![r] = @ + 1]
  /\ Goto(r, "write")
  /\ UNCHANGED <<temp, target, data, inflight, lock, op, exists, fd, background>>

(* A data chunk is answered 201 and keeps the temp; a commit goes on.      *)
AnswerData(r) ==
  /\ pc[r] = "write" /\ next[r] > LastBlock(r) /\ op[r].kind = "data"
  /\ Finish(r)
  /\ Release(r)
  /\ UNCHANGED <<disk, background>>

(***************************************************************************)
(* The commit request.                                                     *)
(***************************************************************************)
(* Broken on purpose: only one of the two checks.                          *)
LengthOnly(r)   == FullLength(fd[r])
CoverageOnly(r) == ranges[r] \in {{}, Blocks}

(* The temp has the declared length, and the recorded ranges cover it; no  *)
(* range at all counts as coverage.                                        *)
Accepted(r) == FullLength(fd[r]) /\ ranges[r] \in {{}, Blocks}

Verify(r) ==
  /\ pc[r] = "write" /\ next[r] > LastBlock(r) /\ op[r].kind = "final"
  /\ Goto(r, IF Accepted(r) THEN "unlist" ELSE "discard")
  /\ UNCHANGED <<disk, lock, op, exists, fd, next, ranges, current, background>>

(* Broken on purpose: the commit leaves its sidecar behind.                *)
KeepSidecar(r) ==
  /\ pc[r] = "unlist"
  /\ Goto(r, "flush")
  /\ UNCHANGED <<disk, lock, op, exists, fd, next, ranges, current, background>>

RemoveSidecar(r) ==
  /\ pc[r] = "unlist"
  /\ sidecar' = {}
  /\ Goto(r, "flush")
  /\ UNCHANGED <<temp, target, data, inflight, lock, op, exists, fd, next, ranges, current, background>>

(* flush and sync_all wait for this sink's own last write.                 *)
Flush(r) ==
  /\ pc[r] = "flush"
  /\ FirstBlock(r) <= LastBlock(r) => <<fd[r], LastBlock(r)>> \notin inflight
  /\ Goto(r, IF op[r].mode = "Create" THEN "recheck" ELSE "rename")
  /\ UNCHANGED <<disk, lock, op, exists, fd, next, ranges, current, background>>

Recheck(r) ==
  /\ pc[r] = "recheck"
  /\ Goto(r, IF target # None THEN "unlink" ELSE "rename")
  /\ UNCHANGED <<disk, lock, op, exists, fd, next, ranges, current, background>>

RefuseCreate(r) ==
  /\ pc[r] = "unlink"
  /\ temp' = None
  /\ Finish(r)
  /\ Release(r)
  /\ UNCHANGED <<target, sidecar, data, inflight, background>>

Rename(r) ==
  /\ pc[r] = "rename" /\ temp # None
  /\ target' = temp /\ temp' = None
  /\ Finish(r)
  /\ Release(r)
  /\ UNCHANGED <<sidecar, data, inflight, background>>

RenameFails(r) ==
  /\ pc[r] = "rename" /\ temp = None
  /\ Finish(r)
  /\ Release(r)
  /\ UNCHANGED <<disk, background>>

(***************************************************************************)
(* FsSink::abort: the temp first, then the sidecar.                        *)
(***************************************************************************)
(* Broken on purpose: the abort removes the target instead of the temp.    *)
RemoveTarget(r) ==
  /\ pc[r] = "discard"
  /\ target' = None
  /\ Goto(r, "forget")
  /\ UNCHANGED <<temp, sidecar, data, inflight, lock, op, exists, fd, next, ranges, current, background>>

RemoveTemp(r) ==
  /\ pc[r] = "discard"
  /\ temp' = None
  /\ Goto(r, "forget")
  /\ UNCHANGED <<target, sidecar, data, inflight, lock, op, exists, fd, next, ranges, current, background>>

(* Broken on purpose: the abort forgets the sidecar.                       *)
ForgetNothing(r) ==
  /\ pc[r] = "forget"
  /\ Finish(r)
  /\ Release(r)
  /\ UNCHANGED <<disk, background>>

Forget(r) ==
  /\ pc[r] = "forget"
  /\ sidecar' = {}
  /\ Finish(r)
  /\ Release(r)
  /\ UNCHANGED <<temp, target, data, inflight, background>>

(***************************************************************************)
(* What the environment may do to a request, and to the server.            *)
(***************************************************************************)
(* The blocking pool runs a write; it does so even if its sink is gone.    *)
Land(i, b) ==
  /\ <<i, b>> \in inflight
  /\ inflight' = inflight \ {<<i, b>>}
  /\ data' = [data EXCEPT ![i] = @ \cup {b}]
  /\ UNCHANGED <<temp, target, sidecar, lock, handlers, background>>

(* The block whose write the sink has not heard of yet: its next seek or   *)
(* flush waits for it and is told if it failed.                            *)
Unheard(r, i, b) ==
  /\ fd[r] = i /\ b >= FirstBlock(r)
  /\ \/ pc[r] \in {"read", "persist"} /\ b = next[r]
     \/ pc[r] \in {"write", "unlist", "flush"} /\ b + 1 = next[r]

(* A write fails, and there is no sink any more that would hear of it.     *)
LandFails(i, b) ==
  /\ "full" \in Faults
  /\ <<i, b>> \in inflight /\ \A r \in Requests : ~Unheard(r, i, b)
  /\ inflight' = inflight \ {<<i, b>>}
  /\ UNCHANGED <<temp, target, sidecar, data, lock, handlers, background>>

(* It fails, and write_at of the next block hears of it: abort.            *)
WriteFails(r) ==
  /\ "full" \in Faults
  /\ pc[r] = "write" /\ next[r] <= LastBlock(r)
  /\ next[r] > FirstBlock(r) /\ <<fd[r], next[r] - 1>> \in inflight
  /\ inflight' = inflight \ {<<fd[r], next[r] - 1>>}
  /\ Goto(r, "discard")
  /\ UNCHANGED <<temp, target, sidecar, data, lock, op, exists, fd, next, ranges, current, background>>

(* Or the flush of the commit does: temp and target stay as they are.      *)
FlushFails(r) ==
  /\ "full" \in Faults
  /\ pc[r] = "flush"
  /\ FirstBlock(r) <= LastBlock(r) /\ <<fd[r], LastBlock(r)>> \in inflight
  /\ inflight' = inflight \ {<<fd[r], LastBlock(r)>>}
  /\ Finish(r)
  /\ Release(r)
  /\ UNCHANGED <<temp, target, sidecar, data, background>>

(* Broken on purpose: a broken connection discards the session.            *)
DisconnectAborts(r) ==
  /\ "disconnect" \in Faults
  /\ pc[r] = "write"
  /\ Goto(r, "discard")
  /\ UNCHANGED <<disk, lock, op, exists, fd, next, ranges, current, background>>

(* The request body ends in a transport error: the sink is dropped without *)
(* abort, temp and sidecar stay.                                           *)
Disconnect(r) ==
  /\ "disconnect" \in Faults
  /\ pc[r] = "write"
  /\ Finish(r)
  /\ Release(r)
  /\ UNCHANGED <<disk, background>>

(* Invalid compressed data, a size limit or a disk error: abort.           *)
Reject(r) ==
  /\ "reject" \in Faults
  /\ pc[r] \in {"write", "read", "persist"}
  /\ Goto(r, "discard")
  /\ UNCHANGED <<disk, lock, op, exists, fd, next, ranges, current, background>>

(* The disk operation a handler under the lock is waiting for: what the    *)
(* sidecar becomes ({}: removed), or the temp's fate.                      *)
DiskOp(r) ==
  CASE pc[r] = "wait"                 -> [do |-> "record", blocks |-> Loaded(r)]
    [] pc[r] = "persist"              -> [do |-> "record", blocks |-> current[r]]
    [] pc[r] \in {"unlist", "forget"} -> [do |-> "record", blocks |-> {}]
    [] pc[r] \in {"discard", "unlink"} -> [do |-> "unlink", blocks |-> {}]
    [] pc[r] = "rename"               -> [do |-> "rename", blocks |-> {}]

Submitted(r) ==
  \/ pc[r] \in {"persist", "unlist", "forget", "discard", "unlink", "rename"}
  \/ pc[r] = "wait" /\ holder = r /\ ~exists[r]

(* The connection is lost and the handler is dropped at an await.  The     *)
(* operation it awaits is either not begun or stays in the blocking pool:  *)
(* dropping the handler drops the guard, but does not stop the operation.  *)
Cancel(r) ==
  /\ "cancel" \in Faults
  /\ pc[r] # "idle"
  /\ Finish(r)
  /\ Release(r)
  /\ \/ UNCHANGED detached
     \/ /\ "detach" \in Faults /\ Submitted(r)
        /\ Cardinality(detached) < PoolLimit
        /\ detached' = detached \cup {DiskOp(r)}
  /\ UNCHANGED <<disk, sweeper>>

LandDetached ==
  \E o \in detached :
    /\ detached' = detached \ {o}
    /\ sidecar' = IF o.do = "record" THEN o.blocks ELSE sidecar
    /\ target' = IF o.do = "rename" /\ temp # None THEN temp ELSE target
    /\ temp' = IF o.do = "record" THEN temp ELSE None
    /\ UNCHANGED <<data, inflight, lock, handlers, sweeper>>

(* The server process dies and restarts: only the files survive.           *)
Crash ==
  /\ "crash" \in Faults
  /\ \E r \in Requests : pc[r] # "idle"
  /\ inflight' = {} /\ holder' = None /\ waiters' = <<>>
  /\ sweeper' = "idle" /\ detached' = {}
  /\ pc' = [r \in Requests |-> "idle"]
  /\ op' = [r \in Requests |-> NoOp]
  /\ exists' = [r \in Requests |-> FALSE]
  /\ fd' = [r \in Requests |-> None]
  /\ next' = [r \in Requests |-> 1]
  /\ ranges' = [r \in Requests |-> {}]
  /\ current' = [r \in Requests |-> {}]
  /\ UNCHANGED <<temp, target, sidecar, data>>

(***************************************************************************)
(* cleanup_stale_sessions takes no lock: it reads a temp's age, then       *)
(* removes the sidecar's name, then the temp's.  Nothing bounds how long a *)
(* request may sit between two of its steps, so a temp with no write in    *)
(* flight may be old enough at any time.                                   *)
(***************************************************************************)
SweepPick ==
  /\ "sweep" \in Faults
  /\ sweeper = "idle" /\ temp # None
  /\ \A w \in inflight : w[1] # temp
  /\ sweeper' = "sidecar"
  /\ UNCHANGED <<disk, lock, handlers, detached>>

SweepSidecar ==
  /\ sweeper = "sidecar"
  /\ sidecar' = {} /\ sweeper' = "temp"
  /\ UNCHANGED <<temp, target, data, inflight, lock, handlers, detached>>

SweepTemp ==
  /\ sweeper = "temp"
  /\ temp' = None /\ sweeper' = "idle"
  /\ UNCHANGED <<target, sidecar, data, inflight, lock, handlers, detached>>

(* A sidecar is a directory entry of its own, swept by its own age.        *)
SweepOrphan ==
  /\ "sweep" \in Faults
  /\ sweeper = "idle" /\ sidecar # {}
  /\ sidecar' = {}
  /\ UNCHANGED <<temp, target, data, inflight, lock, handlers, background>>

Open(r)   == CheckTarget(r) \/ OpenExisting(r) \/ Create(r) \/ OpenFails(r)
Body(r)   == Write(r) \/ ReadRanges(r) \/ PersistRanges(r) \/ AnswerData(r)
Commit(r) ==
  \/ Verify(r) \/ RemoveSidecar(r) \/ Flush(r) \/ Recheck(r)
  \/ RefuseCreate(r) \/ Rename(r) \/ RenameFails(r)
Abort(r)  == RemoveTemp(r) \/ Forget(r)
Handle(r) ==
  Stat(r) \/ Open(r) \/ Lock(r) \/ LoadRanges(r) \/ AnswerProbe(r)
    \/ Body(r) \/ Commit(r) \/ Abort(r)
Fault(r)  == Disconnect(r) \/ Reject(r) \/ Cancel(r) \/ WriteFails(r) \/ FlushFails(r)
Sweep     == SweepPick \/ SweepSidecar \/ SweepTemp \/ SweepOrphan
Landing   == \E i \in Inodes, b \in Blocks : Land(i, b) \/ LandFails(i, b)
BlockingPool == Landing \/ LandDetached
Arrival(r) == \E k \in Kinds, m \in Modes, b \in Bodies : Arrive(r, k, m, b)

Next ==
  \/ \E r \in Requests : Arrival(r) \/ Handle(r) \/ Fault(r)
  \/ BlockingPool \/ Crash \/ Sweep

Spec == Init /\ [][Next]_vars

(***************************************************************************)
(* Properties, for any clients and all the faults at once.                 *)
(***************************************************************************)

DiskOK ==
  /\ temp \in Inodes \cup {None} /\ target \in Inodes \cup {None}
  /\ sidecar \in SUBSET Blocks
  /\ data \in [Inodes -> SUBSET Blocks]
  /\ inflight \in SUBSET (Inodes \X Blocks)

LockOK == holder \in Requests \cup {None} /\ waiters \in Seq(Requests)

HandlersOK ==
  /\ pc \in [Requests -> Unlocked \cup Locked]
  /\ op \in [Requests -> Ops]
  /\ exists \in [Requests -> BOOLEAN]
  /\ fd \in [Requests -> Inodes \cup {None}]
  /\ next \in [Requests -> Nat]
  /\ ranges \in [Requests -> SUBSET Blocks]
  /\ current \in [Requests -> SUBSET Blocks]

BackgroundOK ==
  /\ sweeper \in {"idle", "sidecar", "temp"}
  /\ detached \in SUBSET [do : {"record", "unlink", "rename"}, blocks : SUBSET Blocks]

(* Every variable has its type; in particular no handler records or writes *)
(* a block beyond the declared length.                                     *)
TypeOK == DiskOK /\ LockOK /\ HandlersOK /\ BackgroundOK

(* A handler between taking the lock and dropping its sink.                *)
Sink(r) == pc[r] \in Locked

(* At most one sink of the session is alive, and it is the lock's holder:  *)
(* what FsSink.target_guard is held for.                                   *)
SinksSerialized == \A r \in Requests : Sink(r) => holder = r

(* lock_owned() strands nobody, whatever is cancelled or fails: who waits  *)
(* holds the lock or is queued for it, and a queued request always has a   *)
(* running handler before it that will drop its guard.                     *)
NobodyStranded ==
  /\ \A r \in Requests : pc[r] = "wait" => holder = r \/ Contains(waiters, r)
  /\ holder = None => waiters = <<>>
  /\ holder # None => pc[holder] \in Locked \cup {"wait"}

(* write_at's read-merge-write never drops a block another chunk recorded: *)
(* what is about to be persisted includes all that is on disk.             *)
NoLostUpdate == \A r \in Requests : pc[r] = "persist" => sidecar \subseteq current[r]

(* FsSink.ranges is "kept in sync with blocks_path": while a sink lives    *)
(* nobody but the sweeper, who empties it, changes the sidecar under it,   *)
(* so the coverage check reads what is recorded on disk.                   *)
RangesInSync ==
  \A r \in Requests :
    pc[r] \in {"answer", "write", "read", "persist", "unlist"} => sidecar \in {ranges[r], {}}

(* The request that created the temp never believes in a block it has not  *)
(* written itself: a stale sidecar makes no phantom range for it.          *)
CreatorSeesNoPhantom ==
  \A r \in Requests : Sink(r) /\ ~exists[r] => ranges[r] \subseteq FirstBlock(r)..(next[r] - 1)

(* Once the length check has passed, the inode the sink verified stays at  *)
(* full length until the commit ends, whoever else writes or sweeps.       *)
VerifiedStaysFull ==
  \A r \in Requests :
    pc[r] \in {"unlist", "flush", "recheck", "rename"} => FullLength(fd[r])
=============================================================================
