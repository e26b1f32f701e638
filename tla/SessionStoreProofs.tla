------------------------- MODULE SessionStoreProofs -------------------------
(***************************************************************************)
(* Theorems about SessionStore, for any number of requests, inodes and     *)
(* blocks, and any faults.                                                 *)
(***************************************************************************)
EXTENDS SessionStore, TLAPS, SequenceTheorems

(* What TypeOK needs to be inductive: a body lies within the file, the     *)
(* next block is not before its first, and while a block is being written  *)
(* it is not after its last.                                               *)
BodyInRange ==
  \A r \in Requests :
    /\ FirstBlock(r) >= 1 /\ LastBlock(r) <= NBlocks
    /\ next[r] >= FirstBlock(r)
    /\ pc[r] \in {"read", "persist"} => next[r] <= LastBlock(r)

(* From opening the temp to the end, a handler has a file.                 *)
Opened == Locked \cup {"lock", "wait"}
FileOpen == \A r \in Requests : pc[r] \in Opened => fd[r] \in Inodes

TypeInv == TypeOK /\ BodyInRange /\ FileOpen

-----------------------------------------------------------------------------
(* The three shapes most actions are made of.                              *)

LEMMA OpFields ==
  ASSUME NEW o \in Ops
  PROVE  o.kind \in Kinds /\ o.mode \in {"Create", "Overwrite"}
         /\ o.body[1] \in Nat /\ o.body[2] \in Nat
BY DEF Ops

LEMMA FinishTyped ==
  ASSUME TypeInv, NEW r \in Requests, Finish(r)
  PROVE  HandlersOK' /\ BodyInRange' /\ FileOpen'
<1>1. NoOp \in Ops /\ NoOp.body[1] = 1 /\ NoOp.body[2] = 0
  BY DEF NoOp, Ops, Kinds
<1>2. HandlersOK'
  BY <1>1 DEF TypeInv, TypeOK, HandlersOK, Finish, Goto, Unlocked
<1>3. ASSUME NEW q \in Requests
      PROVE  /\ FirstBlock(q)' >= 1 /\ LastBlock(q)' <= NBlocks
             /\ next'[q] >= FirstBlock(q)'
             /\ pc'[q] \in {"read", "persist"} => next'[q] <= LastBlock(q)'
  <2>1. CASE q = r
    BY <2>1, <1>1, BlocksAssumption
       DEF TypeInv, TypeOK, HandlersOK, Finish, Goto, FirstBlock, LastBlock
  <2>2. CASE q # r
    BY <2>2 DEF TypeInv, TypeOK, HandlersOK, BodyInRange, Finish, Goto, FirstBlock, LastBlock
  <2> QED BY <2>1, <2>2
<1>4. FileOpen'
  BY DEF TypeInv, TypeOK, HandlersOK, FileOpen, Opened, Locked, Finish, Goto
<1> QED BY <1>2, <1>3, <1>4 DEF BodyInRange

LEMMA ReleaseTyped ==
  ASSUME LockOK, NEW r \in Requests, Release(r)
  PROVE  LockOK'
<1>1. CASE holder = r /\ waiters = <<>> /\ holder' = None /\ UNCHANGED waiters
  BY <1>1 DEF LockOK
<1>2. CASE holder = r /\ waiters # <<>> /\ holder' = Head(waiters) /\ waiters' = Tail(waiters)
  BY <1>2 DEF LockOK
<1>3. CASE /\ \E k \in DOMAIN waiters : waiters[k] = r /\ waiters' = RemoveAt(waiters, k)
           /\ UNCHANGED holder
  <2>1. PICK k \in DOMAIN waiters : waiters' = RemoveAt(waiters, k)
    BY <1>3
  <2>2. k \in 1..Len(waiters)
    BY <2>1 DEF LockOK
  <2>3. SubSeq(waiters, 1, k - 1) \in Seq(Requests) /\ SubSeq(waiters, k + 1, Len(waiters)) \in Seq(Requests)
    BY <2>2 DEF LockOK
  <2>4. waiters' \in Seq(Requests)
    BY <2>1, <2>3 DEF RemoveAt
  <2> QED BY <2>4, <1>3 DEF LockOK
<1>4. CASE UNCHANGED lock
  BY <1>4 DEF LockOK, lock
<1> QED BY <1>1, <1>2, <1>3, <1>4 DEF Release

(* A handler that moves on to an await where no block is under way, and    *)
(* leaves its request, its place in the body and its file alone.           *)
LEMMA GotoTyped ==
  ASSUME TypeInv, NEW r \in Requests, NEW l \in (Unlocked \cup Locked) \ {"read", "persist"},
         Goto(r, l), UNCHANGED <<op, next>>
  PROVE  /\ BodyInRange' /\ pc' \in [Requests -> Unlocked \cup Locked]
         /\ fd' = fd /\ pc[r] \in Opened => FileOpen'
BY DEF TypeInv, TypeOK, HandlersOK, BodyInRange, FileOpen, Opened, Goto, FirstBlock, LastBlock, Unlocked, Locked

-----------------------------------------------------------------------------
(* Type correctness.                                                       *)

LEMMA InitTyped == Init => TypeInv
<1> SUFFICES ASSUME Init PROVE TypeInv
  OBVIOUS
<1>1. NoOp \in Ops /\ NoOp.body[1] = 1 /\ NoOp.body[2] = 0
  BY DEF NoOp, Ops, Kinds
<1>2. TypeOK
  BY <1>1 DEF Init, TypeOK, DiskOK, LockOK, HandlersOK, BackgroundOK, Unlocked
<1>3. BodyInRange
  BY <1>1, BlocksAssumption DEF Init, BodyInRange, FirstBlock, LastBlock
<1>4. FileOpen
  BY DEF Init, FileOpen, Opened, Locked
<1> QED BY <1>2, <1>3, <1>4 DEF TypeInv

LEMMA OpenTyped ==
  ASSUME TypeInv, NEW r \in Requests, Stat(r) \/ Open(r) \/ Lock(r) \/ LoadRanges(r) \/ AnswerProbe(r)
  PROVE  TypeInv'
<1> USE DEF TypeInv, TypeOK, disk, lock, handlers, background
<1>1. CASE Stat(r) \/ CheckTarget(r)
  <2>1. BodyInRange' /\ pc' \in [Requests -> Unlocked \cup Locked]
    BY <1>1, GotoTyped DEF Stat, CheckTarget, Unlocked, Locked
  <2>2. FileOpen'
    BY <1>1 DEF Stat, CheckTarget, Goto, HandlersOK, FileOpen, Opened, Locked
  <2> QED BY <1>1, <2>1, <2>2 DEF Stat, CheckTarget, DiskOK, LockOK, HandlersOK, BackgroundOK
<1>2. CASE OpenExisting(r)
  <2>1. BodyInRange' /\ pc' \in [Requests -> Unlocked \cup Locked]
    BY <1>2, GotoTyped DEF OpenExisting, Unlocked, Locked
  <2>2. FileOpen'
    BY <1>2 DEF OpenExisting, Goto, DiskOK, HandlersOK, FileOpen, Opened
  <2> QED BY <1>2, <2>1, <2>2 DEF OpenExisting, DiskOK, LockOK, HandlersOK, BackgroundOK
<1>3. CASE Create(r)
  <2>1. BodyInRange' /\ pc' \in [Requests -> Unlocked \cup Locked]
    BY <1>3, GotoTyped DEF Create, Unlocked, Locked
  <2>2. PICK i \in Inodes : /\ temp' = i
                            /\ data' = [data EXCEPT ![i] = {}]
                            /\ fd' = [fd EXCEPT ![r] = i]
    BY <1>3 DEF Create
  <2>3. FileOpen'
    BY <1>3, <2>2 DEF Create, Goto, HandlersOK, FileOpen, Opened
  <2> QED BY <1>3, <2>1, <2>2, <2>3 DEF Create, DiskOK, LockOK, HandlersOK, BackgroundOK
<1>4. CASE OpenFails(r)
  BY <1>4, FinishTyped DEF OpenFails, DiskOK, LockOK, BackgroundOK
<1>5. CASE Lock(r)
  <2>1. BodyInRange' /\ FileOpen' /\ pc' \in [Requests -> Unlocked \cup Locked]
    BY <1>5, GotoTyped DEF Lock, Opened, Unlocked, Locked
  <2>2. LockOK'
    BY <1>5 DEF Lock, LockOK
  <2> QED BY <1>5, <2>1, <2>2 DEF Lock, DiskOK, HandlersOK, BackgroundOK
<1>6. CASE LoadRanges(r)
  <2>1. BodyInRange' /\ FileOpen' /\ pc' \in [Requests -> Unlocked \cup Locked]
    BY <1>6, GotoTyped DEF LoadRanges, Opened, Unlocked, Locked
  <2>2. Loaded(r) \in SUBSET Blocks
    BY DEF Loaded, DiskOK
  <2> QED BY <1>6, <2>1, <2>2 DEF LoadRanges, DiskOK, LockOK, HandlersOK, BackgroundOK
<1>7. CASE AnswerProbe(r)
  BY <1>7, FinishTyped, ReleaseTyped DEF AnswerProbe, DiskOK, BackgroundOK
<1> QED BY <1>1, <1>2, <1>3, <1>4, <1>5, <1>6, <1>7 DEF Open

LEMMA BodyTyped ==
  ASSUME TypeInv, NEW r \in Requests, Body(r)
  PROVE  TypeInv'
<1> USE DEF TypeInv, TypeOK, disk, lock, handlers, background
<1>1. /\ FirstBlock(r) \in Nat /\ LastBlock(r) \in Nat /\ next[r] \in Nat
      /\ FirstBlock(r) >= 1 /\ LastBlock(r) <= NBlocks /\ next[r] >= FirstBlock(r)
  BY OpFields DEF HandlersOK, BodyInRange, FirstBlock, LastBlock
<1>2. pc[r] \in {"write", "read", "persist"} /\ next[r] <= LastBlock(r) => next[r] \in Blocks
  BY <1>1, BlocksAssumption DEF Blocks
<1>3. CASE Write(r)
  <2>1. next[r] \in Blocks
    BY <1>2, <1>3 DEF Write
  <2>2. HandlersOK' /\ BodyInRange'
    BY <1>3 DEF Write, Goto, HandlersOK, BodyInRange, FirstBlock, LastBlock, Unlocked, Locked
  <2>3. fd[r] \in Inodes /\ FileOpen'
    BY <1>3 DEF Write, Goto, HandlersOK, FileOpen, Opened, Locked
  <2> QED BY <1>3, <2>1, <2>2, <2>3 DEF Write, DiskOK, LockOK, BackgroundOK
<1>4. CASE ReadRanges(r)
  <2>1. next[r] \in Blocks
    BY <1>2, <1>4 DEF ReadRanges, BodyInRange
  <2>2. Merged(r) \in SUBSET Blocks
    BY <2>1 DEF Merged, DiskOK
  <2>3. HandlersOK'
    BY <1>4, <2>2 DEF ReadRanges, Goto, HandlersOK, Unlocked, Locked
  <2>4. BodyInRange' /\ FileOpen'
    BY <1>4 DEF ReadRanges, Goto, HandlersOK, BodyInRange, FileOpen, Opened, Locked, FirstBlock, LastBlock
  <2> QED BY <1>4, <2>3, <2>4 DEF ReadRanges, DiskOK, LockOK, BackgroundOK
<1>5. CASE PersistRanges(r)
  <2>1. HandlersOK'
    BY <1>5 DEF PersistRanges, Goto, HandlersOK, Unlocked, Locked
  <2>2. BodyInRange' /\ FileOpen'
    BY <1>5, <1>1 DEF PersistRanges, Goto, HandlersOK, BodyInRange, FileOpen, Opened, Locked, FirstBlock, LastBlock
  <2>3. DiskOK'
    BY <1>5 DEF PersistRanges, DiskOK, HandlersOK
  <2> QED BY <1>5, <2>1, <2>2, <2>3 DEF PersistRanges, LockOK, BackgroundOK
<1>6. CASE AnswerData(r)
  BY <1>6, FinishTyped, ReleaseTyped DEF AnswerData, DiskOK, BackgroundOK
<1> QED BY <1>3, <1>4, <1>5, <1>6 DEF Body

LEMMA CommitTyped ==
  ASSUME TypeInv, NEW r \in Requests, Commit(r) \/ Abort(r)
  PROVE  TypeInv'
<1> USE DEF TypeInv, TypeOK, disk, lock, handlers, background
<1>1. CASE Verify(r) \/ RemoveSidecar(r) \/ Flush(r) \/ Recheck(r) \/ RemoveTemp(r)
  <2>1. BodyInRange' /\ FileOpen' /\ pc' \in [Requests -> Unlocked \cup Locked]
    BY <1>1, GotoTyped DEF Verify, RemoveSidecar, Flush, Recheck, RemoveTemp, Opened, Unlocked, Locked
  <2>2. DiskOK'
    BY <1>1 DEF Verify, RemoveSidecar, Flush, Recheck, RemoveTemp, DiskOK
  <2>3. LockOK' /\ HandlersOK' /\ BackgroundOK'
    BY <1>1, <2>1 DEF Verify, RemoveSidecar, Flush, Recheck, RemoveTemp, LockOK, HandlersOK, BackgroundOK
  <2> QED BY <2>1, <2>2, <2>3
<1>2. CASE RefuseCreate(r)
  BY <1>2, FinishTyped, ReleaseTyped DEF RefuseCreate, DiskOK, BackgroundOK
<1>3. CASE Rename(r)
  BY <1>3, FinishTyped, ReleaseTyped DEF Rename, DiskOK, BackgroundOK
<1>4. CASE RenameFails(r)
  BY <1>4, FinishTyped, ReleaseTyped DEF RenameFails, DiskOK, BackgroundOK
<1>5. CASE Forget(r)
  BY <1>5, FinishTyped, ReleaseTyped DEF Forget, DiskOK, BackgroundOK
<1> QED BY <1>1, <1>2, <1>3, <1>4, <1>5 DEF Commit, Abort

LEMMA DiskOpTyped ==
  ASSUME TypeInv, NEW r \in Requests, Submitted(r)
  PROVE  DiskOp(r) \in [do : {"record", "unlink", "rename"}, blocks : SUBSET Blocks]
<1>1. Loaded(r) \in SUBSET Blocks /\ current[r] \in SUBSET Blocks
  BY DEF TypeInv, TypeOK, DiskOK, HandlersOK, Loaded
<1> QED BY <1>1 DEF Submitted, DiskOp

LEMMA FaultTyped ==
  ASSUME TypeInv, NEW r \in Requests, Fault(r)
  PROVE  TypeInv'
<1> USE DEF TypeInv, TypeOK, disk, lock, handlers, background
<1>1. CASE Disconnect(r)
  BY <1>1, FinishTyped, ReleaseTyped DEF Disconnect, DiskOK, BackgroundOK
<1>2. CASE Reject(r)
  <2>1. BodyInRange' /\ FileOpen' /\ pc' \in [Requests -> Unlocked \cup Locked]
    BY <1>2, GotoTyped DEF Reject, Opened, Unlocked, Locked
  <2> QED BY <1>2, <2>1 DEF Reject, DiskOK, LockOK, HandlersOK, BackgroundOK
<1>3. CASE Cancel(r)
  <2>1. BackgroundOK'
    BY <1>3, DiskOpTyped DEF Cancel, BackgroundOK
  <2> QED BY <1>3, <2>1, FinishTyped, ReleaseTyped DEF Cancel, DiskOK
<1>4. CASE WriteFails(r)
  <2>1. BodyInRange' /\ FileOpen' /\ pc' \in [Requests -> Unlocked \cup Locked]
    BY <1>4, GotoTyped DEF WriteFails, Opened, Unlocked, Locked
  <2> QED BY <1>4, <2>1 DEF WriteFails, DiskOK, LockOK, HandlersOK, BackgroundOK
<1>5. CASE FlushFails(r)
  BY <1>5, FinishTyped, ReleaseTyped DEF FlushFails, DiskOK, BackgroundOK
<1> QED BY <1>1, <1>2, <1>3, <1>4, <1>5 DEF Fault

LEMMA ArrivalTyped ==
  ASSUME TypeInv, NEW r \in Requests, Arrival(r)
  PROVE  TypeInv'
<1> USE DEF TypeInv, TypeOK, disk, lock, handlers, background
<1>1. PICK k \in Kinds, m \in Modes, b \in Bodies : Arrive(r, k, m, b)
  BY DEF Arrival
<1>2. /\ b \in Nat \X Nat /\ b[1] \in Nat /\ b[2] \in Nat
      /\ 1 <= b[1] /\ b[2] <= NBlocks /\ m \in {"Create", "Overwrite"}
  BY BodiesAssumption, ModesAssumption
<1>3. [kind |-> k, mode |-> m, body |-> b] \in Ops
  BY <1>2 DEF Ops
<1>4. HandlersOK'
  BY <1>1, <1>2, <1>3 DEF Arrive, Goto, HandlersOK, Unlocked
<1>5. BodyInRange' /\ FileOpen'
  BY <1>1, <1>2 DEF Arrive, Goto, HandlersOK, BodyInRange, FileOpen, Opened, Locked, FirstBlock, LastBlock
<1> QED BY <1>1, <1>4, <1>5 DEF Arrive, DiskOK, LockOK, BackgroundOK

LEMMA ServerTyped ==
  ASSUME TypeInv, BlockingPool \/ Crash \/ Sweep
  PROVE  TypeInv'
<1> USE DEF TypeInv, TypeOK, disk, lock, handlers, background
<1>1. CASE Landing
  <2>1. PICK i \in Inodes, b \in Blocks : Land(i, b) \/ LandFails(i, b)
    BY <1>1 DEF Landing
  <2> QED BY <2>1 DEF Land, LandFails, DiskOK, LockOK, HandlersOK, BackgroundOK, BodyInRange, FileOpen,
                      FirstBlock, LastBlock
<1>2. CASE LandDetached
  <2>1. PICK o \in detached :
          /\ detached' = detached \ {o}
          /\ sidecar' = IF o.do = "record" THEN o.blocks ELSE sidecar
          /\ target' = IF o.do = "rename" /\ temp # None THEN temp ELSE target
          /\ temp' = IF o.do = "record" THEN temp ELSE None
          /\ UNCHANGED <<data, inflight, lock, handlers, sweeper>>
    BY <1>2 DEF LandDetached
  <2>2. o.blocks \in SUBSET Blocks
    BY DEF BackgroundOK
  <2> QED BY <2>1, <2>2 DEF DiskOK, LockOK, HandlersOK, BackgroundOK, BodyInRange, FileOpen, FirstBlock, LastBlock
<1>3. CASE Crash
  <2>1. NoOp \in Ops /\ NoOp.body[1] = 1 /\ NoOp.body[2] = 0
    BY DEF NoOp, Ops, Kinds
  <2>2. DiskOK' /\ LockOK' /\ BackgroundOK'
    BY <1>3 DEF Crash, DiskOK, LockOK, BackgroundOK
  <2>3. HandlersOK'
    BY <1>3, <2>1 DEF Crash, HandlersOK, Unlocked
  <2>4. BodyInRange' /\ FileOpen'
    BY <1>3, <2>1, BlocksAssumption DEF Crash, BodyInRange, FileOpen, Opened, Locked, FirstBlock, LastBlock
  <2> QED BY <2>2, <2>3, <2>4
<1>4. CASE Sweep
  BY <1>4 DEF Sweep, SweepPick, SweepSidecar, SweepTemp, SweepOrphan,
              DiskOK, LockOK, HandlersOK, BackgroundOK, BodyInRange, FileOpen, FirstBlock, LastBlock
<1> QED BY <1>1, <1>2, <1>3, <1>4 DEF BlockingPool

LEMMA StutterTyped == ASSUME TypeInv, UNCHANGED vars PROVE TypeInv'
BY DEF TypeInv, TypeOK, DiskOK, LockOK, HandlersOK, BackgroundOK, BodyInRange, FileOpen,
       FirstBlock, LastBlock, vars, disk, lock, handlers, background

LEMMA NextTyped == ASSUME TypeInv, [Next]_vars PROVE TypeInv'
<1>1. ASSUME NEW r \in Requests, Arrival(r) \/ Handle(r) \/ Fault(r)
      PROVE  TypeInv'
  BY <1>1, ArrivalTyped, OpenTyped, BodyTyped, CommitTyped, FaultTyped DEF Handle
<1> QED BY <1>1, ServerTyped, StutterTyped DEF Next

(* Whatever requests arrive and whatever fails, every variable keeps its   *)
(* type: write_at never stores or records a block outside the declared     *)
(* length, and no sink writes without a file.                              *)
THEOREM TypeCorrect == Spec => []TypeOK
<1>1. Spec => []TypeInv
  BY InitTyped, NextTyped, PTL DEF Spec
<1>2. TypeInv => TypeOK
  BY DEF TypeInv
<1> QED BY <1>1, <1>2, PTL

-----------------------------------------------------------------------------
(* The lock of the session temp.                                           *)

(* A step that leaves the lock alone and makes no new sink.                *)
LEMMA LockKept ==
  ASSUME SinksSerialized, UNCHANGED lock, \A q \in Requests : Sink(q)' => Sink(q)
  PROVE  SinksSerialized'
BY DEF SinksSerialized, lock

(* A handler's end: it is no sink any more, and it lets go of no lock but  *)
(* its own.                                                                *)
LEMMA LockReleased ==
  ASSUME TypeInv, SinksSerialized, NEW r \in Requests, Finish(r), Release(r)
  PROVE  SinksSerialized'
<1>1. \A q \in Requests : Sink(q)' => Sink(q) /\ q # r
  BY DEF TypeInv, TypeOK, HandlersOK, Finish, Goto, Sink, Locked
<1>2. holder # r => holder' = holder
  BY DEF Release, lock
<1> QED BY <1>1, <1>2 DEF SinksSerialized

LEMMA HandleSerialized ==
  ASSUME TypeInv, SinksSerialized, NEW r \in Requests, Arrival(r) \/ Handle(r) \/ Fault(r)
  PROVE  SinksSerialized'
<1> USE DEF TypeInv, TypeOK, HandlersOK, disk, lock, handlers, background
<1>1. CASE AnswerProbe(r) \/ AnswerData(r) \/ RefuseCreate(r) \/ Rename(r) \/ RenameFails(r)
             \/ Forget(r) \/ Disconnect(r) \/ Cancel(r) \/ FlushFails(r)
  BY <1>1, LockReleased
     DEF AnswerProbe, AnswerData, RefuseCreate, Rename, RenameFails, Forget, Disconnect, Cancel, FlushFails
<1>2. CASE Lock(r)
  <2>1. \A q \in Requests : Sink(q)' => Sink(q)
    BY <1>2 DEF Lock, Goto, Sink, Locked
  <2> QED BY <1>2, <2>1, NoneAssumption DEF Lock, SinksSerialized
<1>3. CASE LoadRanges(r)
  BY <1>3 DEF LoadRanges, Goto, Sink, SinksSerialized
<1>4. CASE Arrival(r) \/ Stat(r) \/ CheckTarget(r) \/ OpenExisting(r) \/ Create(r) \/ OpenFails(r)
  <2>1. \A q \in Requests : Sink(q)' => Sink(q)
    BY <1>4 DEF Arrival, Arrive, Stat, CheckTarget, OpenExisting, Create, OpenFails, Finish, Goto, Sink, Locked
  <2> QED BY <1>4, <2>1, LockKept DEF Arrival, Arrive, Stat, CheckTarget, OpenExisting, Create, OpenFails
<1>5. CASE Write(r) \/ ReadRanges(r) \/ PersistRanges(r) \/ Verify(r) \/ RemoveSidecar(r)
             \/ Flush(r) \/ Recheck(r) \/ RemoveTemp(r) \/ Reject(r) \/ WriteFails(r)
  <2>1. \A q \in Requests : Sink(q)' => Sink(q)
    BY <1>5 DEF Write, ReadRanges, PersistRanges, Verify, RemoveSidecar, Flush, Recheck,
                RemoveTemp, Reject, WriteFails, Goto, Sink, Locked
  <2> QED BY <1>5, <2>1, LockKept DEF Write, ReadRanges, PersistRanges, Verify, RemoveSidecar, Flush,
                Recheck, RemoveTemp, Reject, WriteFails
<1> QED BY <1>1, <1>2, <1>3, <1>4, <1>5 DEF Handle, Open, Body, Commit, Abort, Fault

LEMMA NextSerialized ==
  ASSUME TypeInv, SinksSerialized, [Next]_vars
  PROVE  SinksSerialized'
<1>1. CASE BlockingPool \/ Sweep \/ UNCHANGED vars
  BY <1>1, LockKept DEF BlockingPool, Landing, Land, LandFails, LandDetached, Sweep, SweepPick, SweepSidecar,
     SweepTemp, SweepOrphan, Sink, vars, lock, handlers
<1>2. CASE Crash
  BY <1>2 DEF Crash, SinksSerialized, Sink, Locked
<1> QED BY <1>1, <1>2, HandleSerialized DEF Next

(* The guard a sink holds for its whole lifetime makes it the only sink of *)
(* the session, however requests are cancelled, rejected or cut off.       *)
THEOREM Serialized == Spec => []SinksSerialized
<1>1. Init => SinksSerialized
  BY DEF Init, SinksSerialized, Sink, Locked
<1>2. Spec => []TypeInv
  BY InitTyped, NextTyped, PTL DEF Spec
<1> QED BY <1>1, <1>2, NextSerialized, PTL DEF Spec

-----------------------------------------------------------------------------
(* The lock's queue.  NobodyStranded alone is not inductive: the next      *)
(* holder must be a handler that still waits, and waits only once.         *)

Queued(r) == \E k \in DOMAIN waiters : waiters[k] = r

QueueInv ==
  /\ \A r \in Requests : pc[r] = "wait" => holder = r \/ Queued(r)
  /\ holder = None => waiters = <<>>
  /\ holder # None => pc[holder] \in Locked \cup {"wait"}
  /\ \A k \in DOMAIN waiters : pc[waiters[k]] = "wait" /\ waiters[k] # holder
  /\ \A j, k \in DOMAIN waiters : waiters[j] = waiters[k] => j = k

LEMMA RemoveAtElements ==
  ASSUME NEW S, NEW s \in Seq(S), NEW k \in 1..Len(s)
  PROVE  /\ RemoveAt(s, k) \in Seq(S)
         /\ Len(RemoveAt(s, k)) = Len(s) - 1
         /\ \A j \in 1..(Len(s) - 1) : RemoveAt(s, k)[j] = IF j < k THEN s[j] ELSE s[j + 1]
<1> DEFINE front == SubSeq(s, 1, k - 1)
           back  == SubSeq(s, k + 1, Len(s))
<1>1. /\ front \in Seq(S) /\ Len(front) = k - 1
      /\ \A j \in 1..(k - 1) : front[j] = s[j]
  OBVIOUS
<1>2. /\ back \in Seq(S) /\ Len(back) = Len(s) - k
      /\ \A j \in 1..(Len(s) - k) : back[j] = s[k + j]
  OBVIOUS
<1>3. RemoveAt(s, k) = front \o back
  BY DEF RemoveAt
<1> HIDE DEF front, back
<1>4. /\ front \o back \in Seq(S)
      /\ Len(front \o back) = Len(front) + Len(back)
      /\ \A j \in 1..(Len(front) + Len(back)) :
           (front \o back)[j] = IF j <= Len(front) THEN front[j] ELSE back[j - Len(front)]
  BY <1>1, <1>2, ConcatProperties
<1>5. Len(s) \in Nat /\ Len(front) + Len(back) = Len(s) - 1
  BY <1>1, <1>2
<1>6. ASSUME NEW j \in 1..(Len(s) - 1)
      PROVE  (front \o back)[j] = IF j < k THEN s[j] ELSE s[j + 1]
  <2>1. CASE j < k
    BY <1>1, <1>4, <1>5, <2>1
  <2>2. CASE ~(j < k)
    <3>1. j - (k - 1) \in 1..(Len(s) - k) /\ k + (j - (k - 1)) = j + 1 /\ ~(j <= k - 1)
      BY <1>5, <2>2
    <3>2. (front \o back)[j] = back[j - (k - 1)]
      BY <1>1, <1>4, <1>5, <3>1
    <3>3. back[j - (k - 1)] = s[j + 1]
      BY <1>2, <3>1
    <3> QED BY <2>2, <3>2, <3>3
  <2> QED BY <2>1, <2>2
<1> QED BY <1>3, <1>4, <1>5, <1>6

(* A step that leaves the lock alone, and takes no handler out of the      *)
(* queue or, once it holds the lock, away from it.                         *)
LEMMA QueueKept ==
  ASSUME TypeInv, QueueInv, UNCHANGED lock,
         \A q \in Requests : /\ pc'[q] = "wait" <=> pc[q] = "wait"
                             /\ pc[q] \in Locked => pc'[q] \in Locked
  PROVE  QueueInv'
<1>1. \A k \in DOMAIN waiters : waiters[k] \in Requests
  BY DEF TypeInv, TypeOK, LockOK
<1>2. holder # None => holder \in Requests
  BY DEF TypeInv, TypeOK, LockOK
<1> QED BY <1>1, <1>2 DEF QueueInv, Queued, lock

LEMMA QueueReleased ==
  ASSUME TypeInv, QueueInv, NEW r \in Requests, Finish(r), Release(r)
  PROVE  QueueInv'
<1>1. \A q \in Requests : pc'[q] = IF q = r THEN "idle" ELSE pc[q]
  BY DEF TypeInv, TypeOK, HandlersOK, Finish, Goto
<1>2. "idle" \notin Locked \cup {"wait"}
  BY DEF Locked
<1>3. /\ waiters \in Seq(Requests) /\ Len(waiters) \in Nat /\ DOMAIN waiters = 1..Len(waiters)
      /\ \A k \in 1..Len(waiters) : waiters[k] \in Requests
      /\ holder # None => holder \in Requests
  BY DEF TypeInv, TypeOK, LockOK
<1>4. CASE holder = r /\ waiters = <<>> /\ holder' = None /\ UNCHANGED waiters
  BY <1>1, <1>2, <1>4 DEF QueueInv, Queued
<1>5. CASE holder = r /\ waiters # <<>> /\ holder' = Head(waiters) /\ waiters' = Tail(waiters)
  <2>1. /\ Len(waiters) >= 1 /\ holder' = waiters[1]
        /\ DOMAIN waiters' = 1..(Len(waiters) - 1)
        /\ \A k \in 1..(Len(waiters) - 1) : waiters'[k] = waiters[k + 1]
    BY <1>3, <1>5, HeadTailProperties
  <2>2. \A k \in 1..Len(waiters) : pc[waiters[k]] = "wait" /\ waiters[k] # r
    BY <1>3, <1>5 DEF QueueInv
  <2>3. holder' \in Requests /\ holder' # None /\ pc'[holder'] = "wait"
    BY <1>1, <1>3, <2>1, <2>2, NoneAssumption
  <2>4. \A q \in Requests : pc'[q] = "wait" => holder' = q \/ Queued(q)'
    <3>1. SUFFICES ASSUME NEW q \in Requests, pc'[q] = "wait", holder' # q
                   PROVE  \E k \in DOMAIN waiters' : waiters'[k] = q
      BY DEF Queued
    <3>2. q # r /\ pc[q] = "wait"
      BY <1>1, <3>1
    <3>3. PICK k \in 1..Len(waiters) : waiters[k] = q
      BY <1>3, <1>5, <3>2 DEF QueueInv, Queued
    <3>4. k - 1 \in 1..(Len(waiters) - 1) /\ (k - 1) + 1 = k
      BY <1>3, <2>1, <3>1, <3>3
    <3>5. waiters'[k - 1] = waiters[(k - 1) + 1]
      BY <2>1, <3>4
    <3> QED BY <2>1, <3>3, <3>4, <3>5
  <2>5. \A k \in DOMAIN waiters' : pc'[waiters'[k]] = "wait" /\ waiters'[k] # holder'
    <3>1. SUFFICES ASSUME NEW k \in 1..(Len(waiters) - 1)
                   PROVE  pc'[waiters[k + 1]] = "wait" /\ waiters[k + 1] # waiters[1]
      BY <2>1
    <3>2. k + 1 \in 1..Len(waiters) /\ 1 \in 1..Len(waiters) /\ k + 1 # 1
      BY <1>3, <2>1, <3>1
    <3>3. waiters[k + 1] # waiters[1]
      BY <1>3, <3>2 DEF QueueInv
    <3> QED BY <1>1, <1>3, <2>2, <3>2, <3>3
  <2>6. \A j, k \in DOMAIN waiters' : waiters'[j] = waiters'[k] => j = k
    <3>1. SUFFICES ASSUME NEW j \in 1..(Len(waiters) - 1), NEW k \in 1..(Len(waiters) - 1),
                          waiters[j + 1] = waiters[k + 1]
                   PROVE  j = k
      BY <2>1
    <3>2. j + 1 \in 1..Len(waiters) /\ k + 1 \in 1..Len(waiters)
      BY <1>3, <3>1
    <3>3. j + 1 = k + 1
      BY <1>3, <3>1, <3>2 DEF QueueInv
    <3> QED BY <1>3, <3>3
  <2> QED BY <2>3, <2>4, <2>5, <2>6 DEF QueueInv
<1>6. CASE /\ holder # r
           /\ \E k \in DOMAIN waiters : waiters[k] = r /\ waiters' = RemoveAt(waiters, k)
           /\ UNCHANGED holder
  <2>1. PICK k \in 1..Len(waiters) : waiters[k] = r /\ waiters' = RemoveAt(waiters, k)
    BY <1>3, <1>6
  <2>2. /\ DOMAIN waiters' = 1..(Len(waiters) - 1)
        /\ \A j \in 1..(Len(waiters) - 1) :
             waiters'[j] = IF j < k THEN waiters[j] ELSE waiters[j + 1]
    <3> DEFINE cut == RemoveAt(waiters, k)
    <3>1. /\ cut \in Seq(Requests) /\ Len(cut) = Len(waiters) - 1
          /\ \A j \in 1..(Len(waiters) - 1) : cut[j] = IF j < k THEN waiters[j] ELSE waiters[j + 1]
      BY <1>3, RemoveAtElements
    <3>2. waiters' = cut
      BY <2>1
    <3> HIDE DEF cut
    <3>3. DOMAIN cut = 1..(Len(waiters) - 1)
      BY <3>1
    <3> QED BY <3>1, <3>2, <3>3
  <2> DEFINE old(j) == IF j < k THEN j ELSE j + 1
  <2>3. \A j \in 1..(Len(waiters) - 1) :
          old(j) \in 1..Len(waiters) /\ old(j) # k /\ waiters'[j] = waiters[old(j)]
    BY <1>3, <2>1, <2>2
  <2>4. \A m \in 1..Len(waiters) : m # k => waiters[m] # r /\ pc[waiters[m]] = "wait" /\ waiters[m] # holder
    BY <1>3, <2>1 DEF QueueInv
  <2>5. \A j \in DOMAIN waiters' : pc'[waiters'[j]] = "wait" /\ waiters'[j] # holder'
    <3> SUFFICES ASSUME NEW j \in 1..(Len(waiters) - 1)
                 PROVE  pc'[waiters'[j]] = "wait" /\ waiters'[j] # holder'
      BY <2>2
    <3> DEFINE m == old(j)
    <3>1. m \in 1..Len(waiters) /\ m # k /\ waiters'[j] = waiters[m]
      BY <2>3
    <3> HIDE DEF m, old
    <3>2. waiters[m] # r /\ pc[waiters[m]] = "wait" /\ waiters[m] # holder
      BY <2>4, <3>1
    <3> QED BY <1>1, <1>3, <1>6, <3>1, <3>2
  <2>6. \A i, j \in DOMAIN waiters' : waiters'[i] = waiters'[j] => i = j
    <3>1. SUFFICES ASSUME NEW i \in 1..(Len(waiters) - 1), NEW j \in 1..(Len(waiters) - 1),
                          waiters[old(i)] = waiters[old(j)]
                   PROVE  i = j
      BY <2>2, <2>3
    <3>2. old(i) = old(j)
      BY <1>3, <2>3, <3>1 DEF QueueInv
    <3> QED BY <2>1, <3>2
  <2>7. \A q \in Requests : pc'[q] = "wait" => holder' = q \/ Queued(q)'
    <3>1. SUFFICES ASSUME NEW q \in Requests, pc'[q] = "wait", holder # q
                   PROVE  \E j \in DOMAIN waiters' : waiters'[j] = q
      BY <1>6 DEF Queued
    <3>2. q # r /\ pc[q] = "wait"
      BY <1>1, <3>1
    <3>3. PICK m \in 1..Len(waiters) : waiters[m] = q
      BY <1>3, <3>1, <3>2 DEF QueueInv, Queued
    <3>4. m # k
      BY <2>1, <3>2, <3>3
    <3>5. PICK j \in 1..(Len(waiters) - 1) : old(j) = m
      <4>1. CASE m < k
        <5>1. m \in 1..(Len(waiters) - 1) /\ old(m) = m
          BY <1>3, <2>1, <3>3, <4>1
        <5> QED BY <5>1
      <4>2. CASE ~(m < k)
        <5>1. m - 1 \in 1..(Len(waiters) - 1) /\ old(m - 1) = m
          BY <1>3, <2>1, <3>3, <3>4, <4>2
        <5> QED BY <5>1
      <4> QED BY <4>1, <4>2
    <3> QED BY <2>2, <2>3, <3>3, <3>5
  <2>8. holder # None /\ pc'[holder] \in Locked \cup {"wait"}
    <3>1. waiters # <<>>
      BY <1>3, <2>1
    <3> QED BY <1>1, <1>3, <1>6, <3>1 DEF QueueInv
  <2> QED BY <1>6, <2>5, <2>6, <2>7, <2>8 DEF QueueInv
<1>7. CASE holder # r /\ (\A k \in DOMAIN waiters : waiters[k] # r) /\ UNCHANGED lock
  BY <1>1, <1>3, <1>7 DEF QueueInv, Queued, lock
<1> QED BY <1>4, <1>5, <1>6, <1>7 DEF Release

LEMMA HandleQueued ==
  ASSUME TypeInv, QueueInv, NEW r \in Requests, Arrival(r) \/ Handle(r) \/ Fault(r)
  PROVE  QueueInv'
<1> USE DEF disk, lock, handlers, background
<1>0. /\ pc \in [Requests -> Unlocked \cup Locked]
      /\ waiters \in Seq(Requests) /\ holder \in Requests \cup {None}
  BY DEF TypeInv, TypeOK, LockOK, HandlersOK
<1>1. CASE AnswerProbe(r) \/ AnswerData(r) \/ RefuseCreate(r) \/ Rename(r) \/ RenameFails(r)
             \/ Forget(r) \/ Disconnect(r) \/ Cancel(r) \/ FlushFails(r)
  BY <1>1, QueueReleased
     DEF AnswerProbe, AnswerData, RefuseCreate, Rename, RenameFails, Forget, Disconnect, Cancel, FlushFails
<1>2. CASE Lock(r)
  <2>1. \A q \in Requests : pc'[q] = IF q = r THEN "wait" ELSE pc[q]
    BY <1>0, <1>2 DEF Lock, Goto
  <2>2. pc[r] \notin Locked \cup {"wait"}
    BY <1>2 DEF Lock, Locked
  <2>3. holder # r /\ ~Queued(r)
    BY <1>0, <2>2, NoneAssumption DEF QueueInv, Queued
  <2>4. CASE holder = None
    BY <1>0, <1>2, <2>1, <2>4, NoneAssumption DEF Lock, QueueInv, Queued
  <2>5. CASE holder # None
    <3>1. waiters' = Append(waiters, r) /\ holder' = holder /\ holder \in Requests
      BY <1>0, <1>2, <2>5 DEF Lock
    <3>2. /\ Len(waiters) \in Nat /\ DOMAIN waiters = 1..Len(waiters)
          /\ DOMAIN waiters' = 1..(Len(waiters) + 1)
          /\ \A k \in 1..Len(waiters) : waiters'[k] = waiters[k] /\ waiters[k] \in Requests
          /\ waiters'[Len(waiters) + 1] = r
      BY <1>0, <3>1
    <3>3. \A k \in 1..(Len(waiters) + 1) : k \in 1..Len(waiters) \/ k = Len(waiters) + 1
      BY <3>2
    <3>4. \A q \in Requests : pc'[q] = "wait" => holder' = q \/ Queued(q)'
      <4>1. ASSUME NEW q \in Requests, q # r, pc[q] = "wait", holder # q
            PROVE  \E k \in 1..(Len(waiters) + 1) : waiters'[k] = q
        BY <3>2, <4>1 DEF QueueInv, Queued
      <4>2. Len(waiters) + 1 \in 1..(Len(waiters) + 1)
        BY <3>2
      <4> QED BY <2>1, <3>1, <3>2, <4>1, <4>2 DEF Queued
    <3>5. \A k \in DOMAIN waiters' : pc'[waiters'[k]] = "wait" /\ waiters'[k] # holder'
      BY <2>1, <2>3, <3>1, <3>2, <3>3 DEF QueueInv
    <3>6. \A j, k \in DOMAIN waiters' : waiters'[j] = waiters'[k] => j = k
      BY <2>3, <3>2, <3>3 DEF QueueInv, Queued
    <3> QED BY <2>1, <2>3, <2>5, <3>1, <3>4, <3>5, <3>6 DEF QueueInv
  <2> QED BY <2>4, <2>5
<1>3. CASE LoadRanges(r)
  <2>1. \A q \in Requests : q # r => pc'[q] = pc[q]
    BY <1>0, <1>3 DEF LoadRanges, Goto
  <2>2. pc'[r] \in Locked /\ pc'[r] # "wait" /\ holder = r
    BY <1>0, <1>3 DEF LoadRanges, Goto, Locked
  <2>3. UNCHANGED lock
    BY <1>3 DEF LoadRanges
  <2>4. \A k \in DOMAIN waiters : waiters[k] # r /\ waiters[k] \in Requests
    BY <1>0, <2>2 DEF QueueInv
  <2> QED BY <2>1, <2>2, <2>3, <2>4 DEF QueueInv, Queued
<1>4. CASE Arrival(r) \/ Stat(r) \/ CheckTarget(r) \/ OpenExisting(r) \/ Create(r) \/ OpenFails(r)
  <2>1. /\ pc[r] \in Unlocked \ {"wait"} /\ pc'[r] \in Unlocked \ {"wait"}
        /\ \A q \in Requests : q # r => pc'[q] = pc[q]
    BY <1>0, <1>4 DEF Arrival, Arrive, Stat, CheckTarget, OpenExisting, Create, OpenFails, Finish, Goto, Unlocked
  <2>2. \A q \in Requests : /\ pc'[q] = "wait" <=> pc[q] = "wait"
                            /\ pc[q] \in Locked => pc'[q] \in Locked
    BY <2>1 DEF Unlocked, Locked
  <2> QED BY <1>4, <2>2, QueueKept DEF Arrival, Arrive, Stat, CheckTarget, OpenExisting, Create, OpenFails
<1>5. CASE Write(r) \/ ReadRanges(r) \/ PersistRanges(r) \/ Verify(r) \/ RemoveSidecar(r)
             \/ Flush(r) \/ Recheck(r) \/ RemoveTemp(r) \/ Reject(r) \/ WriteFails(r)
  <2>1. /\ pc[r] \in Locked /\ pc'[r] \in Locked
        /\ \A q \in Requests : q # r => pc'[q] = pc[q]
    BY <1>0, <1>5 DEF Write, ReadRanges, PersistRanges, Verify, RemoveSidecar, Flush, Recheck,
                RemoveTemp, Reject, WriteFails, Goto, Locked
  <2>2. \A q \in Requests : /\ pc'[q] = "wait" <=> pc[q] = "wait"
                            /\ pc[q] \in Locked => pc'[q] \in Locked
    BY <2>1 DEF Locked
  <2> QED BY <1>5, <2>2, QueueKept DEF Write, ReadRanges, PersistRanges, Verify, RemoveSidecar, Flush,
                Recheck, RemoveTemp, Reject, WriteFails
<1> QED BY <1>1, <1>2, <1>3, <1>4, <1>5 DEF Handle, Open, Body, Commit, Abort, Fault

LEMMA NextQueued ==
  ASSUME TypeInv, QueueInv, [Next]_vars
  PROVE  QueueInv'
<1>1. CASE BlockingPool \/ Sweep \/ UNCHANGED vars
  BY <1>1, QueueKept DEF BlockingPool, Landing, Land, LandFails, LandDetached, Sweep, SweepPick, SweepSidecar,
     SweepTemp, SweepOrphan, vars, lock, handlers
<1>2. CASE Crash
  BY <1>2 DEF Crash, QueueInv
<1> QED BY <1>1, <1>2, HandleQueued DEF Next

(* No guard is ever lost: a queued request has a live holder before it,    *)
(* and a free lock has no queue, whichever requests are cancelled.         *)
THEOREM NotStranded == Spec => []NobodyStranded
<1>1. Init => QueueInv
  BY DEF Init, QueueInv
<1>2. Spec => []TypeInv
  BY InitTyped, NextTyped, PTL DEF Spec
<1>3. TypeInv /\ QueueInv => NobodyStranded
  BY DEF TypeInv, TypeOK, LockOK, QueueInv, Queued, NobodyStranded, Contains
<1> QED BY <1>1, <1>2, <1>3, NextQueued, PTL DEF Spec

-----------------------------------------------------------------------------
(* The received ranges.  A disk operation that outlives its handler runs   *)
(* outside the lock, so these hold only where none does: "detach" is not   *)
(* among the faults.                                                       *)

RangesAt(r) ==
  /\ pc[r] = "persist" => sidecar \subseteq current[r]
  /\ pc[r] \in {"answer", "write", "read", "persist", "unlist"} => sidecar \in {ranges[r], {}}
  /\ Sink(r) /\ ~exists[r] => ranges[r] \subseteq FirstBlock(r)..(next[r] - 1)
  /\ pc[r] = "persist" /\ ~exists[r] => current[r] \subseteq ranges[r] \cup {next[r]}

RangesInv == detached = {} /\ \A r \in Requests : RangesAt(r)

(* What a step of r, which alone may write the sidecar while it is a sink, *)
(* means for another request.                                              *)
LEMMA OtherRanges ==
  ASSUME SinksSerialized, NEW r \in Requests, NEW q \in Requests \ {r}, RangesAt(q),
         sidecar' = sidecar \/ sidecar' = {} \/ holder = r,
         pc'[q] = pc[q], op'[q] = op[q], exists'[q] = exists[q], next'[q] = next[q],
         ranges'[q] = ranges[q], current'[q] = current[q]
  PROVE  RangesAt(q)'
<1>1. CASE ~Sink(q)
  BY <1>1 DEF RangesAt, Sink, Locked
<1>2. CASE sidecar' = sidecar \/ sidecar' = {}
  BY <1>2 DEF RangesAt, Sink, FirstBlock
<1>3. CASE Sink(q) /\ holder = r
  BY <1>3 DEF SinksSerialized
<1> QED BY <1>1, <1>2, <1>3

LEMMA HandleRanges ==
  ASSUME "detach" \notin Faults, TypeInv, SinksSerialized, RangesInv,
         NEW r \in Requests, Arrival(r) \/ Handle(r) \/ Fault(r)
  PROVE  RangesInv'
<1> USE DEF disk, lock, handlers, background
<1>0. /\ pc \in [Requests -> Unlocked \cup Locked] /\ op \in [Requests -> Ops]
      /\ exists \in [Requests -> BOOLEAN] /\ fd \in [Requests -> Inodes \cup {None}]
      /\ next \in [Requests -> Nat]
      /\ ranges \in [Requests -> SUBSET Blocks] /\ current \in [Requests -> SUBSET Blocks]
  BY DEF TypeInv, TypeOK, HandlersOK
<1>1. detached' = {}
  BY DEF RangesInv, Arrival, Arrive, Handle, Stat, Open, CheckTarget, OpenExisting, Create, OpenFails,
     Lock, LoadRanges, AnswerProbe, Body, Write, ReadRanges, PersistRanges, AnswerData, Commit, Verify, RemoveSidecar,
     Flush, Recheck, RefuseCreate, Rename, RenameFails, Abort, RemoveTemp, Forget,
     Fault, Disconnect, Reject, Cancel, WriteFails, FlushFails
<1>2. sidecar' = sidecar \/ sidecar' = {} \/ holder = r
  <2>1. PersistRanges(r) => holder = r
    BY DEF PersistRanges, SinksSerialized, Sink, Locked
  <2> QED BY <2>1 DEF Arrival, Arrive, Handle, Stat, Open, CheckTarget, OpenExisting, Create, OpenFails,
     Lock, LoadRanges, AnswerProbe, Body, Write, ReadRanges, PersistRanges, AnswerData, Commit, Verify, RemoveSidecar,
     Flush, Recheck, RefuseCreate, Rename, RenameFails, Abort, RemoveTemp, Forget,
     Fault, Disconnect, Reject, Cancel, WriteFails, FlushFails
<1>3. \A q \in Requests \ {r} :
        /\ pc'[q] = pc[q] /\ op'[q] = op[q] /\ exists'[q] = exists[q] /\ next'[q] = next[q]
        /\ ranges'[q] = ranges[q] /\ current'[q] = current[q]
  BY <1>0 DEF Arrival, Arrive, Handle, Stat, Open, CheckTarget, OpenExisting, Create, OpenFails,
     Lock, LoadRanges, AnswerProbe, Body, Write, ReadRanges, PersistRanges, AnswerData, Commit, Verify, RemoveSidecar,
     Flush, Recheck, RefuseCreate, Rename, RenameFails, Abort, RemoveTemp, Forget,
     Fault, Disconnect, Reject, Cancel, WriteFails, FlushFails, Finish, Goto
<1>4. \A q \in Requests \ {r} : RangesAt(q)'
  BY <1>2, <1>3, OtherRanges DEF RangesInv
<1>5. RangesAt(r)
  BY DEF RangesInv
<1>6. RangesAt(r)'
  <2>1. CASE /\ pc'[r] \notin Locked
    BY <2>1 DEF RangesAt, Sink, Locked
  <2>2. CASE LoadRanges(r)
    <3>1. /\ sidecar' = Loaded(r) /\ ranges'[r] = Loaded(r) /\ exists'[r] = exists[r]
          /\ pc'[r] \in {"answer", "write"}
      BY <1>0, <2>2 DEF LoadRanges, Goto
    <3> QED BY <3>1 DEF RangesAt, Loaded
  <2>3. CASE Write(r)
    BY <1>0, <1>5, <2>3 DEF Write, Goto, RangesAt, Sink, Locked, FirstBlock
  <2>4. CASE ReadRanges(r)
    <3>1. /\ pc[r] = "read" /\ pc'[r] = "persist" /\ current'[r] = sidecar \cup {next[r]}
          /\ sidecar' = sidecar /\ ranges'[r] = ranges[r] /\ next'[r] = next[r] /\ op' = op
          /\ exists'[r] = exists[r]
      BY <1>0, <2>4 DEF ReadRanges, Merged, Goto
    <3>2. sidecar \subseteq ranges[r]
      BY <1>5, <3>1 DEF RangesAt
    <3> QED BY <1>5, <3>1, <3>2 DEF RangesAt, Sink, Locked, FirstBlock
  <2>5. CASE PersistRanges(r)
    <3>1. /\ pc[r] = "persist" /\ pc'[r] = "write" /\ sidecar' = current[r] /\ ranges'[r] = current[r]
          /\ next'[r] = next[r] + 1 /\ op' = op /\ exists'[r] = exists[r]
      BY <1>0, <2>5 DEF PersistRanges, Goto
    <3>2. /\ FirstBlock(r) \in Nat /\ next[r] \in Nat /\ next[r] >= FirstBlock(r)
          /\ FirstBlock(r)' = FirstBlock(r)
      BY <1>0, <3>1, OpFields DEF TypeInv, BodyInRange, FirstBlock
    <3>3. ~exists[r] => current[r] \subseteq FirstBlock(r)..next[r]
      <4>1. ~exists[r] => /\ ranges[r] \subseteq FirstBlock(r)..(next[r] - 1)
                          /\ current[r] \subseteq ranges[r] \cup {next[r]}
        BY <1>5, <3>1 DEF RangesAt, Sink, Locked
      <4>2. FirstBlock(r)..(next[r] - 1) \subseteq FirstBlock(r)..next[r] /\ next[r] \in FirstBlock(r)..next[r]
        BY <3>2
      <4> QED BY <4>1, <4>2
    <3>4. next'[r] - 1 = next[r]
      BY <3>1, <3>2
    <3> QED BY <3>1, <3>2, <3>3, <3>4 DEF RangesAt, Sink
  <2>6. CASE \/ Verify(r) \/ RemoveSidecar(r) \/ Flush(r) \/ Recheck(r) \/ RemoveTemp(r)
             \/ Reject(r) \/ WriteFails(r)
    <3>1. /\ pc[r] \in Locked
          /\ pc'[r] \in {"unlist", "discard", "flush", "recheck", "rename", "unlink", "forget"}
          /\ pc'[r] = "unlist" => pc[r] = "write" /\ sidecar' = sidecar
          /\ ranges' = ranges /\ next' = next /\ op' = op /\ exists' = exists
      BY <1>0, <2>6 DEF Verify, RemoveSidecar, Flush, Recheck, RemoveTemp, Reject, WriteFails, Goto, Locked
    <3> QED BY <1>5, <3>1 DEF RangesAt, Sink, FirstBlock
  <2>7. Stat(r) \/ Open(r) \/ Lock(r) \/ Arrival(r) \/ AnswerProbe(r) \/ AnswerData(r) \/ RefuseCreate(r)
          \/ Rename(r) \/ RenameFails(r) \/ Forget(r) \/ Disconnect(r) \/ Cancel(r) \/ FlushFails(r)
        => pc'[r] \notin Locked
    BY <1>0 DEF Stat, Open, CheckTarget, OpenExisting, Create, OpenFails, Lock, Arrival, Arrive, AnswerProbe,
       AnswerData, RefuseCreate, Rename, RenameFails, Forget, Disconnect, Cancel, FlushFails, Finish, Goto, Locked
  <2> QED BY <2>1, <2>2, <2>3, <2>4, <2>5, <2>6, <2>7 DEF Handle, Body, Commit, Abort, Fault
<1> QED BY <1>1, <1>4, <1>6 DEF RangesInv

LEMMA NextRanges ==
  ASSUME "detach" \notin Faults, TypeInv, SinksSerialized, RangesInv, [Next]_vars
  PROVE  RangesInv'
<1>1. CASE Landing \/ Sweep \/ UNCHANGED vars
  <2>1. /\ UNCHANGED <<handlers, detached>>
        /\ sidecar' = sidecar \/ sidecar' = {}
    BY <1>1 DEF Landing, Land, LandFails, Sweep, SweepPick, SweepSidecar, SweepTemp, SweepOrphan,
       vars, disk, background
  <2> QED BY <2>1 DEF RangesInv, RangesAt, Sink, FirstBlock, handlers
<1>2. CASE LandDetached
  BY <1>2 DEF LandDetached, RangesInv
<1>3. CASE Crash
  BY <1>3 DEF Crash, RangesInv, RangesAt, Sink, Locked
<1> QED BY <1>1, <1>2, <1>3, HandleRanges DEF Next, BlockingPool

THEOREM RangesInvariant ==
  ASSUME "detach" \notin Faults
  PROVE  Spec => [](SinksSerialized /\ RangesInv)
<1>1. Init => RangesInv
  BY DEF Init, RangesInv, RangesAt, Sink, Locked
<1>2. Spec => []TypeInv
  BY InitTyped, NextTyped, PTL DEF Spec
<1>3. Spec => []SinksSerialized
  BY Serialized
<1>4. TypeInv /\ SinksSerialized /\ RangesInv /\ [Next]_vars => RangesInv'
  BY NextRanges
<1> QED BY <1>1, <1>2, <1>3, <1>4, PTL DEF Spec

(* The sidecar's read-merge-write loses no block another chunk recorded,   *)
(* as long as no write of a cancelled handler lands after it.              *)
THEOREM UpdatesKept ==
  ASSUME "detach" \notin Faults
  PROVE  Spec => []NoLostUpdate
<1>1. RangesInv => NoLostUpdate
  BY DEF RangesInv, RangesAt, NoLostUpdate
<1> QED BY <1>1, RangesInvariant, PTL

(* FsSink.ranges, which the coverage check of a commit reads, agrees with  *)
(* the sidecar or the sidecar has been swept.                              *)
THEOREM RangesAgree ==
  ASSUME "detach" \notin Faults
  PROVE  Spec => []RangesInSync
<1>1. RangesInv => RangesInSync
  BY DEF RangesInv, RangesAt, RangesInSync
<1> QED BY <1>1, RangesInvariant, PTL

(* A temp's creator reports and relies on blocks it wrote itself only: no  *)
(* range of an earlier attempt's sidecar gets through to it.               *)
THEOREM NoPhantom ==
  ASSUME "detach" \notin Faults
  PROVE  Spec => []CreatorSeesNoPhantom
<1>1. RangesInv => CreatorSeesNoPhantom
  BY DEF RangesInv, RangesAt, CreatorSeesNoPhantom
<1> QED BY <1>1, RangesInvariant, PTL

-----------------------------------------------------------------------------
(* The length check of a commit.                                           *)

FullInv == TypeInv /\ VerifiedStaysFull

LEMMA NextFull ==
  ASSUME FullInv, [Next]_vars
  PROVE  FullInv'
<1> USE DEF disk, lock, handlers, background
<1> DEFINE Verified == {"unlist", "flush", "recheck", "rename"}
<1>0. /\ pc \in [Requests -> Unlocked \cup Locked] /\ fd \in [Requests -> Inodes \cup {None}]
      /\ data \in [Inodes -> SUBSET Blocks]
  BY DEF FullInv, TypeInv, TypeOK, DiskOK, HandlersOK
<1>1. TypeInv'
  BY NextTyped DEF FullInv
<1>2. SUFFICES ASSUME NEW q \in Requests, pc'[q] \in Verified
               PROVE  FullLength(fd[q])' 
  BY <1>1 DEF FullInv, VerifiedStaysFull
<1>3. pc[q] \in Verified => fd[q] \in Inodes /\ FullLength(fd[q])
  BY DEF FullInv, VerifiedStaysFull, TypeInv, FileOpen, Opened, Locked
<1>4. ASSUME NEW i \in Inodes, data[i] \subseteq data'[i], FullLength(i)
      PROVE  FullLength(i)'
  BY <1>4 DEF FullLength
<1>5. CASE Landing
  <2>1. PICK i \in Inodes, b \in Blocks : Land(i, b) \/ LandFails(i, b)
    BY <1>5 DEF Landing
  <2>2. \A j \in Inodes : data[j] \subseteq data'[j]
    BY <1>0, <2>1 DEF Land, LandFails
  <2> QED BY <1>2, <1>3, <1>4, <2>1, <2>2 DEF Land, LandFails
<1>6. CASE LandDetached \/ Sweep \/ UNCHANGED vars
  BY <1>2, <1>3, <1>4, <1>6 DEF LandDetached, Sweep, SweepPick, SweepSidecar, SweepTemp, SweepOrphan, vars
<1>7. CASE Crash
  BY <1>2, <1>7 DEF Crash
<1>8. ASSUME NEW r \in Requests, Arrival(r) \/ Handle(r) \/ Fault(r)
      PROVE  FullLength(fd[q])'
  <2>1. CASE Create(r)
    <3>1. PICK i \in Inodes : Unreferenced(i) /\ data' = [data EXCEPT ![i] = {}]
                              /\ fd' = [fd EXCEPT ![r] = i]
      BY <2>1 DEF Create
    <3>2. q # r /\ pc[q] = pc'[q]
      BY <1>0, <1>2, <2>1 DEF Create, Goto
    <3>3. fd'[q] = fd[q] /\ fd[q] # i
      BY <1>0, <3>1, <3>2 DEF Unreferenced
    <3> QED BY <1>0, <1>2, <1>3, <1>4, <3>1, <3>2, <3>3
  <2>2. CASE Verify(r) /\ q = r
    <3>1. Accepted(r) /\ UNCHANGED <<data, fd>>
      BY <1>0, <1>2, <2>2 DEF Verify, Goto
    <3> QED BY <2>2, <3>1 DEF Accepted, FullLength
  <2>3. CASE ~Create(r) /\ ~(Verify(r) /\ q = r)
    <3>1. data' = data
      BY <1>8, <2>3 DEF Arrival, Arrive, Handle, Stat, Open, CheckTarget, OpenExisting, OpenFails, Lock, LoadRanges,
         AnswerProbe, Body, Write, ReadRanges, PersistRanges, AnswerData, Commit, Verify, RemoveSidecar,
         Flush, Recheck, RefuseCreate, Rename, RenameFails, Abort, RemoveTemp, Forget,
         Fault, Disconnect, Reject, Cancel, WriteFails, FlushFails
    <3>2. pc[q] \in Verified /\ fd'[q] = fd[q]
      BY <1>0, <1>2, <1>8, <2>3 DEF Arrival, Arrive, Handle, Stat, Open, CheckTarget, OpenExisting, OpenFails, Lock,
         LoadRanges, AnswerProbe, Body, Write, ReadRanges, PersistRanges, AnswerData, Commit, Verify,
         RemoveSidecar, Flush, Recheck, RefuseCreate, Rename, RenameFails, Abort, RemoveTemp, Forget,
         Fault, Disconnect, Reject, Cancel, WriteFails, FlushFails, Finish, Goto
    <3> QED BY <1>3, <3>1, <3>2 DEF FullLength
  <2> QED BY <2>1, <2>2, <2>3
<1> QED BY <1>5, <1>6, <1>7, <1>8 DEF Next, BlockingPool

(* The file a commit is about to publish keeps the length it was checked   *)
(* for until the commit is over, whatever the others do to temp and target. *)
THEOREM LengthKept == Spec => []VerifiedStaysFull
<1>1. Init => FullInv
  BY InitTyped DEF Init, FullInv, VerifiedStaysFull
<1>2. FullInv => VerifiedStaysFull
  BY DEF FullInv
<1> QED BY <1>1, <1>2, NextFull, PTL DEF Spec
-----------------------------------------------------------------------------
(* How much a handler has before it: the awaits it comes to at most, three *)
(* of them for each block of its body that is left.                        *)
ToWrite(r) == IF next[r] > LastBlock(r) THEN 0 ELSE LastBlock(r) + 1 - next[r]
Ahead(place, n) ==
  CASE place = "idle" -> 0
    [] place \in {"answer", "forget", "unlink", "rename"} -> 1
    [] place \in {"discard", "recheck"} -> 2
    [] place = "flush" -> 3
    [] place = "unlist" -> 4
    [] place = "persist" -> 3 + 3 * n
    [] place = "read" -> 4 + 3 * n
    [] place = "write" -> 5 + 3 * n
    [] place = "wait" -> 6 + 3 * n
    [] place = "lock" -> 7 + 3 * n
    [] place = "open" -> 8 + 3 * n
    [] place = "check" -> 9 + 3 * n
    [] place = "stat" -> 10 + 3 * n
Left(r) == Ahead(pc[r], ToWrite(r))

(* What lies ahead of each place, for the provers.                         *)
AheadFacts(n) ==
  /\ Ahead("idle", n) = 0 /\ Ahead("answer", n) = 1 /\ Ahead("forget", n) = 1
  /\ Ahead("unlink", n) = 1 /\ Ahead("rename", n) = 1 /\ Ahead("discard", n) = 2
  /\ Ahead("recheck", n) = 2 /\ Ahead("flush", n) = 3 /\ Ahead("unlist", n) = 4
  /\ Ahead("persist", n) = 3 + 3 * n /\ Ahead("read", n) = 4 + 3 * n
  /\ Ahead("write", n) = 5 + 3 * n /\ Ahead("wait", n) = 6 + 3 * n
  /\ Ahead("lock", n) = 7 + 3 * n /\ Ahead("open", n) = 8 + 3 * n
  /\ Ahead("check", n) = 9 + 3 * n /\ Ahead("stat", n) = 10 + 3 * n

LEMMA AheadIs ==
  ASSUME NEW n \in Nat
  PROVE  AheadFacts(n)
BY DEF Ahead, AheadFacts

LEMMA BodyIs ==
  ASSUME TypeInv, NEW r \in Requests
  PROVE  /\ next[r] \in Nat /\ LastBlock(r) \in Nat /\ ToWrite(r) \in 0..NBlocks
         /\ pc[r] \in {"read", "persist"} => next[r] <= LastBlock(r)
<1>1. /\ next[r] \in Nat /\ FirstBlock(r) \in Nat /\ LastBlock(r) \in Nat /\ NBlocks \in Nat
  BY OpFields, BlocksAssumption DEF TypeInv, TypeOK, HandlersOK, FirstBlock, LastBlock
<1>2. /\ FirstBlock(r) >= 1 /\ LastBlock(r) <= NBlocks /\ next[r] >= FirstBlock(r)
      /\ pc[r] \in {"read", "persist"} => next[r] <= LastBlock(r)
  BY DEF TypeInv, BodyInRange
<1> QED BY <1>1, <1>2 DEF ToWrite

LEMMA LeftIs ==
  ASSUME TypeInv, NEW r \in Requests
  PROVE  Left(r) \in 0..10 + 3 * NBlocks /\ (Left(r) = 0 <=> pc[r] = "idle")
<1> DEFINE n == ToWrite(r)
<1>1. n \in 0..NBlocks /\ NBlocks \in Nat /\ pc[r] \in Unlocked \cup Locked
  BY BodyIs, BlocksAssumption DEF TypeInv, TypeOK, HandlersOK
<1>2. Left(r) = Ahead(pc[r], n)
  BY DEF Left
<1> HIDE DEF n
<1>3. Ahead(pc[r], n) \in 0..10 + 3 * n /\ (Ahead(pc[r], n) = 0 <=> pc[r] = "idle")
  <2>1. n \in Nat
    BY <1>1
  <2>2. AheadFacts(n)
    BY <2>1, AheadIs
  <2>3. CASE pc[r] \in Unlocked
    BY <2>1, <2>2, <2>3 DEF Unlocked, AheadFacts
  <2>4. CASE pc[r] \in Locked
    BY <2>1, <2>2, <2>4 DEF Locked, AheadFacts
  <2> QED BY <1>1, <2>3, <2>4
<1> QED BY <1>1, <1>2, <1>3

LEMMA LeftAlways == TypeInv' => \A r \in Requests : Left(r)' \in Nat
<1>1. TypeInv => \A r \in Requests : Left(r) \in Nat
  BY LeftIs, BlocksAssumption
<1>2. TypeInv' => (\A r \in Requests : Left(r) \in Nat)'
  BY <1>1, PTL
<1> QED BY <1>2

(* Where a handler goes from one await to the next.                        *)
Follows(from, to) ==
  \/ from = "stat" /\ to \in {"check", "open"}
  \/ from = "check" /\ to = "open"
  \/ from = "open" /\ to = "lock"
  \/ from = "lock" /\ to = "wait"
  \/ from = "wait" /\ to \in {"answer", "write"}
  \/ from = "write" /\ to \in {"read", "unlist", "discard"}
  \/ from = "read" /\ to \in {"persist", "discard"}
  \/ from = "persist" /\ to = "discard"
  \/ from = "unlist" /\ to = "flush"
  \/ from = "flush" /\ to \in {"recheck", "rename"}
  \/ from = "recheck" /\ to \in {"unlink", "rename"}
  \/ from = "discard" /\ to = "forget"

Passes(r) == \E l \in Locked \cup Unlocked :
  Follows(pc[r], l) /\ Goto(r, l) /\ UNCHANGED <<op, next>>
Recorded(r) ==
  /\ pc[r] = "persist" /\ Goto(r, "write") /\ UNCHANGED op
  /\ next' = [next EXCEPT ![r] = @ + 1]

(* A step of a handler ends it, takes it to another await, or records a    *)
(* block of its body.                                                      *)
LEMMA HandlerMoves ==
  ASSUME TypeInv, NEW r \in Requests, Handle(r) \/ Fault(r)
  PROVE  (Finish(r) /\ pc[r] # "idle") \/ Passes(r) \/ Recorded(r)
<1>1. CASE Stat(r) \/ Open(r) \/ Lock(r) \/ LoadRanges(r) \/ AnswerProbe(r)
  BY <1>1 DEF Stat, Open, CheckTarget, OpenExisting, Create, OpenFails, Lock, LoadRanges, AnswerProbe,
              Passes, Follows, Locked, Unlocked
<1>2. CASE Body(r)
  BY <1>2 DEF Body, Write, ReadRanges, PersistRanges, AnswerData, Passes, Follows, Recorded, Locked
<1>3. CASE Commit(r) \/ Abort(r)
  BY <1>3 DEF Commit, Verify, RemoveSidecar, Flush, Recheck, RefuseCreate, Rename, RenameFails,
              Abort, RemoveTemp, Forget, Passes, Follows, Locked
<1>4. CASE Fault(r)
  BY <1>4 DEF Fault, Disconnect, Reject, Cancel, WriteFails, FlushFails, Passes, Follows, Locked
<1> QED BY <1>1, <1>2, <1>3, <1>4 DEF Handle

LEMMA LeftFalls ==
  ASSUME TypeInv, NEW r \in Requests, Handle(r) \/ Fault(r)
  PROVE  Left(r)' < Left(r) /\ \A q \in Requests \ {r} : Left(q)' = Left(q)
<1> DEFINE n == ToWrite(r)
<1>1. n \in Nat /\ Left(r) \in Nat /\ Left(r) = Ahead(pc[r], n)
  BY BodyIs, LeftIs, BlocksAssumption DEF Left
<1>2. CASE Finish(r) /\ pc[r] # "idle"
  <2>1. pc'[r] = "idle" /\ \A q \in Requests \ {r} : pc'[q] = pc[q] /\ op'[q] = op[q] /\ next'[q] = next[q]
    BY <1>2 DEF Finish, Goto, TypeInv, TypeOK, HandlersOK
  <2>2. Left(r)' = 0 /\ \A q \in Requests \ {r} : Left(q)' = Left(q)
    BY <2>1, ZenonT(60) DEF Left, Ahead, ToWrite, LastBlock
  <2>3. Left(r) # 0
    BY <1>2, LeftIs
  <2> QED BY <1>1, <2>2, <2>3
<1>3. CASE Passes(r)
  <2>1. PICK l \in Locked \cup Unlocked :
          Follows(pc[r], l) /\ Goto(r, l) /\ UNCHANGED <<op, next>>
    BY <1>3 DEF Passes
  <2>2. pc'[r] = l /\ \A q \in Requests \ {r} : pc'[q] = pc[q]
    BY <2>1 DEF Goto, TypeInv, TypeOK, HandlersOK
  <2>3. Left(r)' = Ahead(l, n) /\ \A q \in Requests \ {r} : Left(q)' = Left(q)
    BY <2>1, <2>2 DEF Left, ToWrite, LastBlock
  <2> HIDE DEF n
  <2>4. AheadFacts(n)
    BY <1>1, AheadIs
  <2>5. Ahead(l, n) < Ahead(pc[r], n)
    BY <1>1, <2>1, <2>4 DEF Follows, AheadFacts
  <2> QED BY <1>1, <2>3, <2>5
<1>4. CASE Recorded(r)
  <2>1. /\ pc[r] = "persist" /\ pc'[r] = "write" /\ op' = op /\ next'[r] = next[r] + 1
        /\ \A q \in Requests \ {r} : pc'[q] = pc[q] /\ next'[q] = next[q]
    BY <1>4 DEF Recorded, Goto, TypeInv, TypeOK, HandlersOK
  <2>2. ToWrite(r)' = n - 1 /\ n - 1 \in Nat
    BY <2>1, BodyIs DEF ToWrite, LastBlock
  <2>3. Left(r)' = Ahead("write", n - 1) /\ \A q \in Requests \ {r} : Left(q)' = Left(q)
    BY <2>1, <2>2 DEF Left, ToWrite, LastBlock
  <2> HIDE DEF n
  <2>4. Ahead("write", n - 1) = 5 + 3 * (n - 1) /\ Ahead("persist", n) = 3 + 3 * n
    BY <1>1, <2>2, AheadIs DEF AheadFacts
  <2> QED BY <1>1, <2>1, <2>2, <2>3, <2>4
<1> QED BY <1>2, <1>3, <1>4, HandlerMoves

LEMMA LeftStep ==
  ASSUME TypeInv, [Next]_vars, NEW r \in Requests
  PROVE  /\ Handle(r) \/ Fault(r) => Left(r)' < Left(r)
         /\ ~Arrival(r) => Left(r)' <= Left(r)
<1>0. Left(r) \in Nat /\ Left(r)' \in Nat
  <2>1. TypeInv'
    BY NextTyped
  <2> QED BY <2>1, LeftIs, LeftAlways, BlocksAssumption
<1>1. ASSUME NEW q \in Requests, Handle(q) \/ Fault(q)
      PROVE  Left(r)' <= Left(r) /\ (q = r => Left(r)' < Left(r))
  BY <1>0, <1>1, LeftFalls
<1>2. ASSUME NEW q \in Requests, Arrival(q), q # r PROVE Left(r)' = Left(r)
  <2>1. pc'[r] = pc[r] /\ op'[r] = op[r] /\ next'[r] = next[r]
    BY <1>2 DEF Arrival, Arrive, Goto, TypeInv, TypeOK, HandlersOK
  <2> QED BY <2>1 DEF Left, ToWrite, LastBlock
<1>3. CASE Crash
  <2>1. pc'[r] = "idle"
    BY <1>3 DEF Crash
  <2>2. Left(r)' = 0
    BY <2>1 DEF Left, Ahead
  <2> QED BY <1>0, <1>1, <2>2
<1>4. CASE BlockingPool \/ Sweep \/ UNCHANGED vars
  <2>1. UNCHANGED <<pc, op, next>>
    BY <1>4 DEF BlockingPool, Landing, Land, LandFails, LandDetached, Sweep, SweepPick, SweepSidecar,
                SweepTemp, SweepOrphan, handlers, vars
  <2> QED BY <1>0, <1>1, <2>1 DEF Left, ToWrite, LastBlock
<1> QED BY <1>0, <1>1, <1>2, <1>3, <1>4 DEF Next

(* No handler of a session goes round in circles: each step of its own,    *)
(* and each fault that hits it, brings it nearer to its end, no step of    *)
(* another handler, of the disk or of the sweeper sets it back, and from   *)
(* its arrival on it comes to at most three awaits per block of the file   *)
(* and ten more.  NotStranded adds  that the one await in which it waits   *)
(* for another handler is behind one that is under way (write_stream_-     *)
(* session, write_at, commit, abort).                                      *)
THEOREM HandlersAreShort ==
  Spec => /\ [](\A r \in Requests : /\ Left(r) \in 0..10 + 3 * NBlocks
                                    /\ Left(r) = 0 <=> pc[r] = "idle")
          /\ [][\A r \in Requests : /\ Handle(r) \/ Fault(r) => Left(r)' < Left(r)
                                    /\ ~Arrival(r) => Left(r)' <= Left(r)]_vars
<1>1. TypeInv => \A r \in Requests : /\ Left(r) \in 0..10 + 3 * NBlocks
                                     /\ Left(r) = 0 <=> pc[r] = "idle"
  BY LeftIs
<1>2. TypeInv /\ [Next]_vars =>
        [\A r \in Requests : /\ Handle(r) \/ Fault(r) => Left(r)' < Left(r)
                             /\ ~Arrival(r) => Left(r)' <= Left(r)]_vars
  BY LeftStep
<1>3. TypeInv /\ [Next]_vars => TypeInv'
  BY NextTyped
<1> QED BY <1>1, <1>2, <1>3, InitTyped, PTL DEF Spec
=============================================================================
