------------------------- MODULE SessionUploadProofs ------------------------
(***************************************************************************)
(* Theorems about SessionUpload: a client, the network and the session     *)
(* store together, for any number of requests, inodes and blocks, any      *)
(* chunk sizes and any number of retries.                                  *)
(***************************************************************************)
EXTENDS SessionUpload, SessionStoreProofs

-----------------------------------------------------------------------------
(* Type correctness, whatever the faults.  The rounds stay within their    *)
(* limit because only a round that may still be repeated is counted, and a *)
(* retried block is one of the client's intervals.                         *)

RetriesInRange ==
  /\ phase \in {"probe", "send", "direct", "commit"} => rounds <= MaxRetries
  /\ \A r \in Requests : job[r].kind = "data" => job[r].body \in Intervals

UploadTypeInv == UploadTypeOK /\ TypeInv /\ RetriesInRange

LEMMA IntervalFacts ==
  ASSUME NEW b \in Intervals
  PROVE  /\ b \in Nat \X Nat /\ b[1] \in Nat /\ b[2] \in Nat
         /\ 1 <= b[1] /\ b[1] <= b[2] /\ b[2] <= NBlocks
BY BlocksAssumption DEF Intervals, Blocks

LEMMA EmptyFacts ==
  /\ Empty \in Nat \X Nat /\ Empty[1] = 1 /\ Empty[2] = 0 /\ Empty \notin Intervals
  /\ NoJob.kind = "none" /\ NoJob.body = Empty
  /\ NoJob \in [kind : Kinds \cup {"none"}, body : Nat \X Nat]
<1>1. Empty \in Nat \X Nat /\ Empty[1] = 1 /\ Empty[2] = 0
  BY DEF Empty
<1>2. Empty \notin Intervals
  BY <1>1 DEF Intervals
<1>3. NoJob.kind = "none" /\ NoJob.body = Empty
  BY DEF NoJob
<1>4. NoJob \in [kind : Kinds \cup {"none"}, body : Nat \X Nat]
  BY <1>1 DEF NoJob
<1> QED BY <1>1, <1>2, <1>3, <1>4

(* A request of the client is one the store's handler can serve.           *)
LEMMA SentTyped ==
  ASSUME TypeInv, NEW r \in Requests, NEW k \in Kinds, NEW b \in Intervals \cup {Empty},
         Arrive(r, k, "Overwrite", b)
  PROVE  TypeInv'
<1> USE DEF TypeInv, TypeOK, disk, lock, handlers, background
<1>1. /\ b \in Nat \X Nat /\ b[1] \in Nat /\ b[2] \in Nat
      /\ 1 <= b[1] /\ b[2] <= NBlocks
  BY IntervalFacts, EmptyFacts, BlocksAssumption
<1>2. [kind |-> k, mode |-> "Overwrite", body |-> b] \in Ops
  BY <1>1 DEF Ops
<1>3. HandlersOK'
  BY <1>1, <1>2 DEF Arrive, Goto, HandlersOK, Unlocked
<1>4. BodyInRange' /\ FileOpen'
  BY <1>1 DEF Arrive, Goto, HandlersOK, BodyInRange, FileOpen, Opened, Locked, FirstBlock, LastBlock
<1> QED BY <1>3, <1>4 DEF Arrive, DiskOK, LockOK, BackgroundOK

(* What a step of the whole system is for the store: one of its own steps, *)
(* a request of the client, or a request that never arrived.               *)
Arrived == \E r \in Requests, k \in Kinds, b \in Intervals \cup {Empty} : Arrive(r, k, "Overwrite", b)
LostBefore == \E r \in Requests : pc[r] = "stat" /\ Finish(r) /\ UNCHANGED <<disk, lock, background>>

LEMMA ServerStep ==
  ASSUME NEW r \in Requests, Answered(r) \/ Failed(r) \/ Working(r)
  PROVE  Handle(r) \/ Fault(r)
BY DEF Answered, Failed, Working, Handle, Open, Body, Commit, Abort, Fault

LEMMA StoreStep ==
  ASSUME UploadTypeInv, [UploadNext]_allVars
  PROVE  [Next]_vars \/ Arrived \/ LostBefore
<1>1. CASE ClientStep \/ UploadAgain
  <2>1. ASSUME NEW r \in Requests, SendProbe(r) \/ SendBlock(r) \/ SendCommit(r)
        PROVE  Arrived
    BY <2>1 DEF SendProbe, SendBlock, SendCommit, Send, Arrived, Kinds, UploadTypeInv, UploadTypeOK
  <2>2. ASSUME NEW r \in Requests,
               PlanRound(r) \/ LastProbed(r) \/ ProbeFailed(r) \/ BlockDone(r) \/ BlockFailed(r)
                 \/ Committed(r) \/ RetryCommit(r) \/ CommitFailed(r)
        PROVE  UNCHANGED vars
    BY <2>2 DEF PlanRound, LastProbed, ProbeFailed, BlockDone, BlockFailed, Committed, RetryCommit,
       CommitFailed, Receive
  <2>3. RoundSent \/ UploadAgain => UNCHANGED vars
    BY DEF RoundSent, UploadAgain
  <2> QED BY <1>1, <2>1, <2>2, <2>3 DEF ClientStep
<1>2. ASSUME NEW r \in Requests, Answered(r) \/ Failed(r) \/ Working(r)
      PROVE  Next
  BY <1>2, ServerStep DEF Next
<1>3. ASSUME NEW r \in Requests, RequestLost(r)
      PROVE  LostBefore
  BY <1>3 DEF RequestLost, LostBefore
<1>4. ASSUME NEW r \in Requests, ResponseLost(r) \/ Abandon(r)
      PROVE  UNCHANGED vars
  BY <1>4 DEF ResponseLost, Abandon
<1>5. BlockingPool \/ Crashed \/ Sweep => Next
  BY DEF Crashed, Next
<1>6. UNCHANGED allVars => UNCHANGED vars
  BY DEF allVars
<1> QED BY <1>1, <1>2, <1>3, <1>4, <1>5, <1>6 DEF UploadNext

LEMMA StoreTyped ==
  ASSUME UploadTypeInv, [UploadNext]_allVars
  PROVE  TypeInv'
<1>1. CASE [Next]_vars
  BY <1>1, NextTyped DEF UploadTypeInv
<1>2. CASE Arrived
  BY <1>2, SentTyped DEF UploadTypeInv, Arrived
<1>3. CASE LostBefore
  <2>1. PICK r \in Requests : Finish(r) /\ UNCHANGED <<disk, lock, background>>
    BY <1>3 DEF LostBefore
  <2>2. HandlersOK' /\ BodyInRange' /\ FileOpen'
    BY <2>1, FinishTyped DEF UploadTypeInv
  <2> QED BY <2>1, <2>2 DEF UploadTypeInv, TypeInv, TypeOK, DiskOK, LockOK, BackgroundOK,
             disk, lock, background
<1> QED BY <1>1, <1>2, <1>3, StoreStep

(* The client's variables.                                                 *)
ClientOK ==
  /\ phase \in Ended \cup Committing \cup {"probe", "lastprobe", "send"}
  /\ rounds \in 0..(MaxRetries + 1) /\ tries \in 0..CommitRetries
  /\ received \in SUBSET Blocks /\ acked \in SUBSET Blocks
  /\ todo \in SUBSET Intervals /\ attempts \in [Intervals -> 0..MaxRetries]
  /\ job \in [Requests -> [kind : Kinds \cup {"none"}, body : Nat \X Nat]]
  /\ outcome \in [Requests -> {"pending", "ok", "failed"}]
  /\ RetriesInRange

LEMMA UploadTypeParts == UploadTypeInv <=> TypeInv /\ ClientOK
BY DEF UploadTypeInv, UploadTypeOK, TypeInv, ClientOK

LEMMA SendClient ==
  ASSUME ClientOK, NEW r \in Requests, SendProbe(r) \/ SendBlock(r) \/ SendCommit(r)
  PROVE  ClientOK'
<1>1. PICK k \in Kinds, b \in Intervals \cup {Empty} :
        /\ job' = [job EXCEPT ![r] = [kind |-> k, body |-> b]]
        /\ outcome' = [outcome EXCEPT ![r] = "pending"]
        /\ k = "data" => b \in Intervals
  BY DEF SendProbe, SendBlock, SendCommit, Send, Kinds, ClientOK
<1>2. b \in Nat \X Nat
  BY IntervalFacts, EmptyFacts
<1>3. /\ UNCHANGED <<phase, rounds, tries, received, acked, attempts>>
      /\ todo' \subseteq todo
  BY DEF SendProbe, SendBlock, SendCommit
<1>4. job' \in [Requests -> [kind : Kinds \cup {"none"}, body : Nat \X Nat]]
  BY <1>1, <1>2 DEF ClientOK
<1>5. RetriesInRange'
  BY <1>1, <1>3 DEF ClientOK, RetriesInRange
<1> QED BY <1>1, <1>3, <1>4, <1>5 DEF ClientOK

LEMMA ReceiveClient ==
  ASSUME ClientOK, NEW r \in Requests, NEW k, NEW h, Receive(r, k, h)
  PROVE  /\ job' \in [Requests -> [kind : Kinds \cup {"none"}, body : Nat \X Nat]]
         /\ outcome' \in [Requests -> {"pending", "ok", "failed"}]
         /\ \A q \in Requests : job'[q].kind = "data" => job'[q].body \in Intervals
<1>1. /\ job' = [job EXCEPT ![r] = NoJob] /\ outcome' = [outcome EXCEPT ![r] = "pending"]
  BY DEF Receive
<1> QED BY <1>1, EmptyFacts DEF ClientOK, RetriesInRange

LEMMA AlignedTyped == ASSUME NEW have, NEW size PROVE AlignedMissing(have, size) \subseteq Intervals
BY DEF AlignedMissing

LEMMA ClientTyped ==
  ASSUME ClientOK, ClientStep \/ UploadAgain
  PROVE  ClientOK'
<1>0. MaxRetries \in Nat /\ CommitRetries \in Nat
  BY ClientAssumption
<1>1. ASSUME NEW r \in Requests, SendProbe(r) \/ SendBlock(r) \/ SendCommit(r)
      PROVE  ClientOK'
  BY <1>1, SendClient
<1>2. ASSUME NEW r \in Requests, PlanRound(r)
      PROVE  ClientOK'
  <2>1. Receive(r, "probe", "ok") /\ todo' \subseteq Intervals
    BY <1>2, AlignedTyped DEF PlanRound
  <2> QED BY <1>0, <1>2, <2>1, ReceiveClient DEF PlanRound, ClientOK, RetriesInRange, Committing
<1>3. ASSUME NEW r \in Requests, LastProbed(r)
      PROVE  ClientOK'
  <2>1. Receive(r, "probe", "ok")
    BY <1>3 DEF LastProbed
  <2> QED BY <1>0, <1>3, <2>1, ReceiveClient DEF LastProbed, ClientOK, RetriesInRange, Committing, Ended
<1>4. ASSUME NEW r \in Requests, ProbeFailed(r)
      PROVE  ClientOK'
  <2>1. Receive(r, "probe", "failed")
    BY <1>4 DEF ProbeFailed
  <2> QED BY <1>4, <2>1, ReceiveClient DEF ProbeFailed, ClientOK, RetriesInRange, Ended
<1>5. ASSUME NEW r \in Requests, BlockDone(r)
      PROVE  ClientOK'
  <2>1. Receive(r, "data", "ok") /\ job[r].kind = "data"
    BY <1>5 DEF BlockDone, Receive
  <2>2. job[r].body[1]..job[r].body[2] \subseteq Blocks
    BY <2>1, IntervalFacts, BlocksAssumption DEF ClientOK, RetriesInRange, Blocks
  <2> QED BY <1>5, <2>1, <2>2, ReceiveClient DEF BlockDone, ClientOK, RetriesInRange
<1>6. ASSUME NEW r \in Requests, BlockFailed(r)
      PROVE  ClientOK'
  <2>1. Receive(r, "data", "failed") /\ job[r].kind = "data" /\ job[r].body \in Intervals
    BY <1>6 DEF BlockFailed, Receive, ClientOK, RetriesInRange
  <2>2. attempts' \in [Intervals -> 0..MaxRetries] /\ todo' \in SUBSET Intervals
    BY <1>0, <1>6, <2>1 DEF BlockFailed, ClientOK
  <2> QED BY <1>6, <2>1, <2>2, ReceiveClient DEF BlockFailed, ClientOK, RetriesInRange
<1>7. ASSUME NEW r \in Requests, Committed(r)
      PROVE  ClientOK'
  <2>1. Receive(r, "final", "ok")
    BY <1>7 DEF Committed
  <2> QED BY <1>0, <1>7, <2>1, ReceiveClient DEF Committed, ClientOK, RetriesInRange, Ended
<1>8. ASSUME NEW r \in Requests, RetryCommit(r)
      PROVE  ClientOK'
  <2>1. Receive(r, "final", "failed") /\ tries' \in 0..CommitRetries
    BY <1>0, <1>8 DEF RetryCommit, ClientOK
  <2> QED BY <1>8, <2>1, ReceiveClient DEF RetryCommit, ClientOK, RetriesInRange
<1>9. ASSUME NEW r \in Requests, CommitFailed(r)
      PROVE  ClientOK'
  <2>1. Receive(r, "final", "failed")
    BY <1>9 DEF CommitFailed
  <2>2. /\ phase' \in {"error", "probe", "lastprobe"}
        /\ rounds' \in 0..(MaxRetries + 1)
        /\ phase' = "probe" => rounds' <= MaxRetries
    BY <1>0, <1>9 DEF CommitFailed, ClientOK, RetriesInRange
  <2> QED BY <1>0, <1>9, <2>1, <2>2, ReceiveClient DEF CommitFailed, ClientOK, RetriesInRange, Ended
<1>10. CASE RoundSent \/ UploadAgain
  BY <1>0, <1>10 DEF RoundSent, UploadAgain, ClientOK, RetriesInRange, NoRetries, Committing
<1> QED BY <1>1, <1>2, <1>3, <1>4, <1>5, <1>6, <1>7, <1>8, <1>9, <1>10 DEF ClientStep

LEMMA HeardTyped ==
  ASSUME TypeInv, ClientOK, [UploadNext]_allVars, ~ClientStep, ~UploadAgain
  PROVE  ClientOK'
<1>1. ASSUME NEW r \in Requests, NEW how \in {"ok", "failed"}, Reply(r, how), received' \in SUBSET Blocks
      PROVE  ClientOK'
  BY <1>1 DEF Reply, ClientOK, RetriesInRange
<1>2. ASSUME NEW r \in Requests, Answered(r) \/ Failed(r) \/ RequestLost(r) \/ Abandon(r)
      PROVE  ClientOK'
  <2>1. received' \in SUBSET Blocks
    BY <1>2 DEF Answered, Failed, RequestLost, Abandon, ClientOK, TypeInv, TypeOK, HandlersOK
  <2> QED BY <1>1, <1>2, <2>1 DEF Answered, Failed, RequestLost, Abandon
<1>3. ASSUME NEW r \in Requests, ResponseLost(r)
      PROVE  ClientOK'
  BY <1>3 DEF ResponseLost, ClientOK, RetriesInRange
<1>4. CASE Crashed
  BY <1>4 DEF Crashed, ClientOK, RetriesInRange
<1>5. ASSUME UNCHANGED client
      PROVE  ClientOK'
  BY <1>5 DEF client, ClientOK, RetriesInRange
<1> QED BY <1>2, <1>3, <1>4, <1>5 DEF UploadNext, Working, allVars

LEMMA UploadInitTyped == UploadInit => UploadTypeInv
<1> SUFFICES ASSUME UploadInit PROVE UploadTypeInv
  OBVIOUS
<1>1. TypeInv
  BY InitTyped DEF UploadInit
<1>2. ClientOK
  BY EmptyFacts, ClientAssumption DEF UploadInit, ClientInit, ClientOK, RetriesInRange, NoRetries
<1> QED BY <1>1, <1>2, UploadTypeParts

LEMMA UploadNextTyped == ASSUME UploadTypeInv, [UploadNext]_allVars PROVE UploadTypeInv'
<1>1. TypeInv' /\ ClientOK'
  BY StoreTyped, ClientTyped, HeardTyped, UploadTypeParts
<1> QED BY <1>1 DEF UploadTypeInv, UploadTypeOK, TypeInv, ClientOK

(* Whatever is lost, given up, cancelled or crashes: retries and rounds    *)
(* stay within their limits, and what the client believes to be on the     *)
(* server are blocks of the file.                                          *)
THEOREM UploadTypeCorrect == UploadSpec => []UploadTypeOK
<1>1. UploadTypeInv => UploadTypeOK
  BY DEF UploadTypeInv
<1> QED BY <1>1, UploadInitTyped, UploadNextTyped, PTL DEF UploadSpec

-----------------------------------------------------------------------------
(* The faults under which the properties of an upload with many requests   *)
(* are stated: bodies break off, requests and responses get lost.          *)
Gentle == Faults \subseteq {"disconnect", "lost"}

(* A handler works for the request the client waits for, and a client that *)
(* has an answer waits for no handler.                                     *)
PairedAt(r) ==
  /\ pc[r] # "idle" => /\ job[r] = [kind |-> op[r].kind, body |-> op[r].body]
                       /\ outcome[r] = "pending" /\ op[r].mode = "Overwrite"
  /\ pc[r] = "idle" => fd[r] = None
  /\ job[r].kind = "none" => job[r] = NoJob /\ outcome[r] = "pending"
  /\ job[r].kind \in {"probe", "final"} => job[r].body = Empty

Paired == \A r \in Requests : PairedAt(r)

(* Each kind of request belongs to its phases; probes and commits are sent *)
(* alone.                                                                  *)
Alone ==
  \A r \in Requests :
    /\ job[r].kind = "data" => phase = "send"
    /\ job[r].kind = "probe" => phase \in {"probe", "lastprobe"}
    /\ job[r].kind = "final" => phase \in Committing
    /\ job[r].kind \in {"probe", "final"} => \A q \in Requests \ {r} : job[q] = NoJob

Publishing == {"unlist", "flush", "rename"}
Removing == {"discard", "forget"}
Storing == {"read", "persist"}

(* Where the handler of each kind of request may be; a data request finds  *)
(* the temp the probe before it has left.                                  *)
PlacedAt(r) ==
  /\ pc[r] \notin {"check", "recheck", "unlink"}
  /\ pc[r] = "answer" => op[r].kind = "probe"
  /\ pc[r] = "write" => op[r].kind # "probe"
  /\ pc[r] \in Storing => op[r].kind = "data"
  /\ pc[r] \in Publishing \cup Removing => op[r].kind = "final"
  /\ op[r].kind = "data" /\ pc[r] \notin {"idle", "stat"} => exists[r]

Placed == \A r \in Requests : PlacedAt(r)

(* The sidecar and the copies of it, against the bytes of the temp.  Both  *)
(* inclusions are needed: a block recorded without its bytes would be      *)
(* published as a hole, a block stored without its record is what makes    *)
(* the coverage check pass on an empty list.                               *)
Recording(b) == \E r \in Requests : pc[r] \in Storing /\ next[r] = b

RecordAt(r) ==
  /\ fd[r] # None => fd[r] = temp \/ pc[r] = "forget"
  /\ pc[r] = "forget" => temp = None
  /\ pc[r] \in {"lock", "wait"} /\ ~exists[r] => sidecar = {}
  /\ pc[r] \in {"answer", "write", "read", "persist"} => ranges[r] = sidecar
  /\ pc[r] \in Storing => next[r] \in Stored(temp)
  /\ pc[r] = "persist" => current[r] = sidecar \cup {next[r]}
  /\ pc[r] \in Publishing => Stored(temp) = Blocks
  /\ pc[r] \in {"flush", "rename"} => sidecar = {}

RecordInv ==
  /\ temp # None => sidecar \subseteq Stored(temp)
  /\ temp = None => sidecar = {} \/ \E r \in Requests : pc[r] = "forget"
  /\ temp # None =>
       \/ \A b \in Stored(temp) : b \in sidecar \/ Recording(b)
       \/ \E r \in Requests : pc[r] \in {"flush", "rename"}
  /\ target # None => Stored(target) = Blocks

DiskInv == RecordInv /\ \A r \in Requests : RecordAt(r)

(* What the client believes, against what the server has recorded.         *)
BeliefAt(r) ==
  /\ job[r].kind = "probe" /\ outcome[r] = "ok" => temp # None /\ received \subseteq sidecar
  /\ job[r].kind = "data" /\ outcome[r] = "ok" => job[r].body[1]..job[r].body[2] \subseteq sidecar
  /\ job[r].kind = "final" /\ outcome[r] = "ok" => target # None
  /\ pc[r] \in {"write", "read", "persist"} => FirstBlock(r)..(next[r] - 1) \subseteq sidecar
  /\ pc[r] \in {"stat", "open", "lock", "wait"} => next[r] = FirstBlock(r)

BeliefInv ==
  /\ phase = "send" => temp # None /\ received \cup acked \subseteq sidecar
  /\ phase # "send" => acked = {}
  /\ phase = "done" => target # None
  /\ \A r \in Requests : BeliefAt(r)

(* Nothing of the faults that are not gentle is under way.                 *)
Undisturbed == sweeper = "idle" /\ detached = {}

UploadInv == Undisturbed /\ Paired /\ Alone /\ Placed /\ DiskInv /\ BeliefInv

-----------------------------------------------------------------------------
(* The steps of a gentle system.                                           *)

Advance(r) ==
  Stat(r) \/ OpenExisting(r) \/ Create(r) \/ Lock(r) \/ LoadRanges(r)
    \/ Write(r) \/ ReadRanges(r) \/ PersistRanges(r)
    \/ Verify(r) \/ RemoveSidecar(r) \/ Flush(r) \/ RemoveTemp(r)

Unreached(r) == pc[r] = "stat" /\ Finish(r) /\ UNCHANGED <<disk, lock, background>>

Stop(r) ==
  /\ OpenFails(r) \/ RenameFails(r) \/ Forget(r) \/ Disconnect(r) \/ Unreached(r)
  /\ Reply(r, "failed") /\ UNCHANGED received

Landed == \E i \in Inodes, b \in Blocks : Land(i, b)

LEMMA GentleStep ==
  ASSUME Gentle, UploadInv, UploadNext
  PROVE  \/ ClientStep \/ UploadAgain
         \/ \E r \in Requests : (Advance(r) /\ UNCHANGED client) \/ Answered(r) \/ Stop(r) \/ ResponseLost(r)
         \/ Landed /\ UNCHANGED client
<1>1. {"reject", "full", "cancel", "crash", "sweep", "timeout"} \cap Faults = {}
  BY DEF Gentle
<1>2. ASSUME NEW r \in Requests
      PROVE  /\ ~CheckTarget(r) /\ ~Recheck(r) /\ ~RefuseCreate(r) /\ ~Reject(r) /\ ~Cancel(r)
             /\ ~WriteFails(r) /\ ~FlushFails(r) /\ ~Abandon(r)
  BY <1>1 DEF UploadInv, Placed, PlacedAt, CheckTarget, Recheck, RefuseCreate, Reject, Cancel,
     WriteFails, FlushFails, Abandon
<1>3. ASSUME NEW r \in Requests, Working(r)
      PROVE  Advance(r) /\ UNCHANGED client
  BY <1>2, <1>3 DEF Working, Advance
<1>4. ASSUME NEW r \in Requests, Failed(r) \/ RequestLost(r)
      PROVE  Stop(r)
  BY <1>2, <1>4 DEF Failed, RequestLost, Stop, Unreached
<1>6. Landing => Landed
  BY <1>1 DEF Landing, LandFails, Landed
<1>5. ~Crashed /\ ~Sweep /\ ~LandDetached
  BY <1>1 DEF UploadInv, Undisturbed, Crashed, Crash, Sweep, SweepPick, SweepSidecar, SweepTemp,
     SweepOrphan, LandDetached
<1> QED BY <1>2, <1>3, <1>4, <1>5, <1>6 DEF UploadNext, BlockingPool

(* What a step of r leaves alone.                                          *)
Untouched(q) ==
  /\ pc'[q] = pc[q] /\ op'[q] = op[q] /\ exists'[q] = exists[q] /\ fd'[q] = fd[q]
  /\ next'[q] = next[q] /\ ranges'[q] = ranges[q] /\ current'[q] = current[q]

HandlerTypes ==
  /\ pc \in [Requests -> Unlocked \cup Locked] /\ op \in [Requests -> Ops]
  /\ exists \in [Requests -> BOOLEAN] /\ fd \in [Requests -> Inodes \cup {None}]
  /\ next \in [Requests -> Nat]
  /\ ranges \in [Requests -> SUBSET Blocks] /\ current \in [Requests -> SUBSET Blocks]

LEMMA AdvanceFrame ==
  ASSUME UploadTypeInv, NEW r \in Requests, Advance(r)
  PROVE  /\ \A q \in Requests \ {r} : Untouched(q)
         /\ pc[r] # "idle" /\ pc'[r] # "idle" /\ op' = op
         /\ UNCHANGED background
<1>1. HandlerTypes
  BY DEF UploadTypeInv, TypeInv, TypeOK, HandlersOK, HandlerTypes
<1> QED BY <1>1 DEF HandlerTypes, Untouched, Advance, Stat, OpenExisting, Create, Lock, LoadRanges, Write,
       ReadRanges, PersistRanges, Verify, RemoveSidecar, Flush, RemoveTemp, Goto, handlers

(* The end of a handler.                                                   *)
Ends(r) ==
  /\ \A q \in Requests \ {r} : Untouched(q)
  /\ pc'[r] = "idle" /\ fd'[r] = None /\ op'[r] = NoOp /\ pc[r] # "idle"

LEMMA FinishFrame ==
  ASSUME UploadTypeInv, NEW r \in Requests, Finish(r), pc[r] # "idle"
  PROVE  Ends(r)
BY DEF UploadTypeInv, TypeInv, TypeOK, HandlersOK, Untouched, Finish, Goto, Ends

LEMMA EndFrame ==
  ASSUME UploadTypeInv, NEW r \in Requests, Answered(r) \/ Stop(r)
  PROVE  Ends(r) /\ UNCHANGED background
BY FinishFrame DEF Answered, Stop, AnswerProbe, AnswerData, Rename, OpenFails, RenameFails, Forget,
   Disconnect, Unreached, background

LEMMA SendFrame ==
  ASSUME UploadTypeInv, NEW r \in Requests, SendProbe(r) \/ SendBlock(r) \/ SendCommit(r)
  PROVE  \E k \in Kinds, b \in Intervals \cup {Empty} :
           /\ job[r] = NoJob /\ pc[r] = "idle" /\ pc'[r] = "stat"
           /\ op'[r] = [kind |-> k, mode |-> "Overwrite", body |-> b]
           /\ next'[r] = b[1] /\ UNCHANGED <<disk, lock, background, exists, fd, ranges, current>>
           /\ \A q \in Requests \ {r} : Untouched(q) /\ job'[q] = job[q] /\ outcome'[q] = outcome[q]
           /\ job'[r] = [kind |-> k, body |-> b] /\ outcome'[r] = "pending"
           /\ k \in {"probe", "final"} => b = Empty
<1>1. PICK k \in Kinds, b \in Intervals \cup {Empty} :
        Send(r, k, b) /\ (k \in {"probe", "final"} => b = Empty)
  BY DEF SendProbe, SendBlock, SendCommit, Kinds, UploadTypeInv, UploadTypeOK
<1>2. HandlerTypes
  BY DEF UploadTypeInv, TypeInv, TypeOK, HandlersOK, HandlerTypes
<1>3. job \in [Requests -> [kind : Kinds \cup {"none"}, body : Nat \X Nat]]
      /\ outcome \in [Requests -> {"pending", "ok", "failed"}]
  BY DEF UploadTypeInv, UploadTypeOK
<1>4. /\ job[r] = NoJob /\ pc[r] = "idle" /\ pc'[r] = "stat"
      /\ op'[r] = [kind |-> k, mode |-> "Overwrite", body |-> b]
      /\ next'[r] = b[1] /\ UNCHANGED <<disk, lock, background, exists, fd, ranges, current>>
  BY <1>1, <1>2 DEF Send, Arrive, Goto, HandlerTypes
<1>5. \A q \in Requests \ {r} : Untouched(q)
  BY <1>1, <1>2 DEF Send, Arrive, Goto, HandlerTypes, Untouched
<1>6. /\ \A q \in Requests \ {r} : job'[q] = job[q] /\ outcome'[q] = outcome[q]
      /\ job'[r] = [kind |-> k, body |-> b] /\ outcome'[r] = "pending"
  BY <1>1, <1>3 DEF Send
<1> QED BY <1>1, <1>4, <1>5, <1>6

(* An answer is received: the request is free again, the store rests.      *)
Taken(r) ==
  /\ outcome[r] # "pending" /\ job[r].kind # "none" /\ UNCHANGED vars
  /\ \A q \in Requests \ {r} : job'[q] = job[q] /\ outcome'[q] = outcome[q]
  /\ job'[r] = NoJob /\ outcome'[r] = "pending"

LEMMA ReceiveFrame ==
  ASSUME UploadTypeInv, NEW r \in Requests, NEW k \in Kinds, NEW how \in {"ok", "failed"}, Receive(r, k, how)
  PROVE  Taken(r) /\ job[r].kind = k /\ outcome[r] = how
BY DEF UploadTypeInv, UploadTypeOK, Receive, Taken, Kinds

(* A reply changes what is known of r only, and only if it is awaited.     *)
LEMMA ReplyFrame ==
  ASSUME UploadTypeInv, Paired, NEW r \in Requests, pc[r] # "idle", NEW how \in {"ok", "failed"}, Reply(r, how)
  PROVE  /\ Heard(r) /\ outcome'[r] = how
         /\ \A q \in Requests \ {r} : outcome'[q] = outcome[q]
         /\ job[r].kind = op[r].kind /\ job[r].kind # "none" /\ job[r].body = op[r].body
         /\ UNCHANGED <<phase, rounds, tries, acked, todo, attempts, job>>
<1>1. /\ job[r] = [kind |-> op[r].kind, body |-> op[r].body] /\ outcome[r] = "pending"
  BY DEF Paired, PairedAt
<1>2. op[r] \in Ops /\ op[r].kind \in Kinds
  BY OpFields DEF UploadTypeInv, TypeInv, TypeOK, HandlersOK
<1>3. job[r].kind = op[r].kind /\ job[r].kind # "none" /\ job[r].body = op[r].body
  BY <1>1, <1>2 DEF Kinds
<1>4. Heard(r)
  BY <1>1, <1>3, EmptyFacts DEF Heard
<1> QED BY <1>1, <1>3, <1>4 DEF Reply, UploadTypeInv, UploadTypeOK

(* The client's steps that take an answer, by the kind of the request.     *)
LEMMA TakenSteps ==
  ASSUME UploadTypeInv, NEW r \in Requests,
         PlanRound(r) \/ LastProbed(r) \/ ProbeFailed(r) \/ BlockDone(r) \/ BlockFailed(r)
           \/ Committed(r) \/ RetryCommit(r) \/ CommitFailed(r)
  PROVE  /\ Taken(r)
         /\ BlockDone(r) \/ BlockFailed(r) => job[r].kind = "data" /\ phase' = phase
         /\ ~BlockDone(r) /\ ~BlockFailed(r) => job[r].kind \in {"probe", "final"}
<1>1. "probe" \in Kinds /\ "data" \in Kinds /\ "final" \in Kinds
  BY DEF Kinds
<1>2. CASE PlanRound(r) \/ LastProbed(r)
  BY <1>1, <1>2, ReceiveFrame DEF PlanRound, LastProbed, BlockDone, BlockFailed
<1>3. CASE ProbeFailed(r)
  BY <1>1, <1>3, ReceiveFrame DEF ProbeFailed, BlockDone, BlockFailed
<1>4. CASE BlockDone(r)
  BY <1>1, <1>4, ReceiveFrame DEF BlockDone
<1>5. CASE BlockFailed(r)
  BY <1>1, <1>5, ReceiveFrame DEF BlockFailed
<1>6. CASE Committed(r)
  BY <1>1, <1>6, ReceiveFrame DEF Committed, BlockDone, BlockFailed
<1>7. CASE RetryCommit(r)
  BY <1>1, <1>7, ReceiveFrame DEF RetryCommit, BlockDone, BlockFailed
<1>8. CASE CommitFailed(r)
  BY <1>1, <1>8, ReceiveFrame DEF CommitFailed, BlockDone, BlockFailed
<1> QED BY <1>2, <1>3, <1>4, <1>5, <1>6, <1>7, <1>8

LEMMA ClientSteps ==
  ASSUME UploadTypeInv, ClientStep \/ UploadAgain
  PROVE  \/ \E r \in Requests : SendProbe(r) \/ SendBlock(r) \/ SendCommit(r)
         \/ \E r \in Requests :
              PlanRound(r) \/ LastProbed(r) \/ ProbeFailed(r) \/ BlockDone(r) \/ BlockFailed(r)
                \/ Committed(r) \/ RetryCommit(r) \/ CommitFailed(r)
         \/ (RoundSent \/ UploadAgain) /\ UNCHANGED <<vars, job, outcome>>
BY DEF ClientStep, RoundSent, UploadAgain

-----------------------------------------------------------------------------
(* Every part of the invariant is kept: first who waits for whom.          *)

LEMMA PairedKept ==
  ASSUME UploadTypeInv, Gentle, UploadInv, UploadNext
  PROVE  Paired'
<1> USE DEF UploadInv
<1>0. job \in [Requests -> [kind : Kinds \cup {"none"}, body : Nat \X Nat]]
  BY DEF UploadTypeInv, UploadTypeOK
<1>1. ASSUME NEW r \in Requests, SendProbe(r) \/ SendBlock(r) \/ SendCommit(r)
      PROVE  Paired'
  <2>1. PICK k \in Kinds, b \in Intervals \cup {Empty} :
           /\ pc'[r] = "stat" /\ op'[r] = [kind |-> k, mode |-> "Overwrite", body |-> b]
           /\ \A q \in Requests \ {r} : Untouched(q) /\ job'[q] = job[q] /\ outcome'[q] = outcome[q]
           /\ job'[r] = [kind |-> k, body |-> b] /\ outcome'[r] = "pending"
           /\ k \in {"probe", "final"} => b = Empty
    BY <1>1, SendFrame, SMTT(60)
  <2>2. PairedAt(r)'
    BY <2>1 DEF PairedAt, Kinds
  <2>3. ASSUME NEW q \in Requests \ {r} PROVE PairedAt(q)'
    BY <2>1, <2>3 DEF Paired, PairedAt, Untouched
  <2> QED BY <2>2, <2>3 DEF Paired
<1>2. ASSUME NEW r \in Requests, Taken(r)
      PROVE  Paired'
  <2>1. pc[r] = "idle"
    BY <1>2 DEF Taken, Paired, PairedAt
  <2>2. PairedAt(r)'
    BY <1>2, <2>1, EmptyFacts DEF Taken, Paired, PairedAt, vars, handlers
  <2>3. ASSUME NEW q \in Requests \ {r} PROVE PairedAt(q)'
    BY <1>2, <2>3 DEF Taken, Paired, PairedAt, vars, handlers
  <2> QED BY <2>2, <2>3 DEF Paired
<1>3. CASE UNCHANGED <<vars, job, outcome>>
  BY <1>3 DEF Paired, PairedAt, vars, handlers
<1>4. ASSUME NEW r \in Requests, Advance(r), UNCHANGED client
      PROVE  Paired'
  <2>1. PairedAt(r)'
    BY <1>4, AdvanceFrame DEF Paired, PairedAt, client
  <2>2. ASSUME NEW q \in Requests \ {r} PROVE PairedAt(q)'
    BY <1>4, <2>2, AdvanceFrame DEF Paired, PairedAt, Untouched, client
  <2> QED BY <2>1, <2>2 DEF Paired
<1>5. ASSUME NEW r \in Requests, Answered(r) \/ Stop(r)
      PROVE  Paired'
  <2>1. Ends(r)
    BY <1>5, EndFrame
  <2>2. PICK how \in {"ok", "failed"} : Reply(r, how)
    BY <1>5 DEF Answered, Stop
  <2>3. /\ \A q \in Requests \ {r} : outcome'[q] = outcome[q]
        /\ job[r].kind # "none" /\ job' = job
    BY <2>1, <2>2, ReplyFrame DEF Ends
  <2>4. PairedAt(r)'
    BY <2>1, <2>3 DEF Ends, Paired, PairedAt
  <2>5. ASSUME NEW q \in Requests \ {r} PROVE PairedAt(q)'
    BY <2>1, <2>3, <2>5 DEF Ends, Paired, PairedAt, Untouched
  <2> QED BY <2>4, <2>5 DEF Paired
<1>6. ASSUME NEW r \in Requests, ResponseLost(r)
      PROVE  Paired'
  <2>1. pc[r] = "idle" /\ job[r].kind # "none"
    BY <1>6 DEF ResponseLost, Paired, PairedAt
  <2>2. \A q \in Requests \ {r} : outcome'[q] = outcome[q]
    BY <1>6 DEF ResponseLost, UploadTypeInv, UploadTypeOK
  <2> QED BY <1>6, <2>1, <2>2 DEF ResponseLost, Paired, PairedAt, vars, handlers
<1>7. CASE Landed /\ UNCHANGED client
  BY <1>7 DEF Landed, Land, client, handlers, Paired, PairedAt
<1> QED BY <1>1, <1>2, <1>3, <1>4, <1>5, <1>6, <1>7, GentleStep, ClientSteps, TakenSteps

(* Of a request just sent: its job, and that the others are not touched.   *)
LEMMA SendJob ==
  ASSUME UploadTypeInv, NEW r \in Requests, SendProbe(r) \/ SendBlock(r) \/ SendCommit(r)
  PROVE  \E k \in Kinds, b \in Intervals \cup {Empty} :
           /\ \A q \in Requests \ {r} : Untouched(q) /\ job'[q] = job[q] /\ outcome'[q] = outcome[q]
           /\ job'[r] = [kind |-> k, body |-> b] /\ outcome'[r] = "pending"
<1>1. PICK k \in Kinds, b \in Intervals \cup {Empty} :
           /\ job[r] = NoJob /\ pc[r] = "idle" /\ pc'[r] = "stat"
           /\ op'[r] = [kind |-> k, mode |-> "Overwrite", body |-> b]
           /\ next'[r] = b[1] /\ UNCHANGED <<disk, lock, background, exists, fd, ranges, current>>
           /\ \A q \in Requests \ {r} : Untouched(q) /\ job'[q] = job[q] /\ outcome'[q] = outcome[q]
           /\ job'[r] = [kind |-> k, body |-> b] /\ outcome'[r] = "pending"
           /\ k \in {"probe", "final"} => b = Empty
  BY SendFrame, Zenon
<1> QED BY <1>1

LEMMA AloneKept ==
  ASSUME UploadTypeInv, Gentle, UploadInv, UploadNext
  PROVE  Alone'
<1> USE DEF UploadInv
<1>0. \A q \in Requests : job[q].kind \in {"probe", "data", "final", "none"}
  BY DEF UploadTypeInv, UploadTypeOK, Kinds
<1>n. NoJob.kind = "none"
  BY EmptyFacts
<1>f. \A q \in Requests : job[q].kind = "none" => job[q] = NoJob
  BY DEF Paired, PairedAt
<1>1. ASSUME NEW r \in Requests, SendProbe(r) \/ SendBlock(r) \/ SendCommit(r)
      PROVE  Alone'
  <2>1. PICK k \in Kinds, b \in Intervals \cup {Empty} :
           /\ \A q \in Requests \ {r} : Untouched(q) /\ job'[q] = job[q] /\ outcome'[q] = outcome[q]
           /\ job'[r] = [kind |-> k, body |-> b] /\ outcome'[r] = "pending"
    BY <1>1, SendJob
  <2>2. job'[r].kind = k
    BY <2>1
  <2>3. CASE SendBlock(r)
    <3>1. k = "data" /\ phase = "send" /\ phase' = "send"
      <4>1. PICK c \in todo : job' = [job EXCEPT ![r] = [kind |-> "data", body |-> c]]
        BY <2>3 DEF SendBlock, Send
      <4>2. job'[r].kind = "data"
        BY <4>1 DEF UploadTypeInv, UploadTypeOK
      <4> QED BY <2>2, <2>3, <4>2 DEF SendBlock
    <3>2. \A q \in Requests : job[q].kind \notin {"probe", "final"}
      BY <3>1 DEF Alone, Committing
    <3> QED BY <2>1, <2>2, <3>1, <3>2 DEF Alone
  <2>4. CASE SendProbe(r) \/ SendCommit(r)
    <3>1. /\ \/ k = "probe" /\ phase \in {"probe", "lastprobe"}
             \/ k = "final" /\ phase \in Committing
          /\ Quiet /\ phase' = phase
      <4>1. CASE SendProbe(r)
        <5>1. job' = [job EXCEPT ![r] = [kind |-> "probe", body |-> Empty]]
          BY <4>1 DEF SendProbe, Send
        <5>2. job'[r].kind = "probe"
          BY <5>1 DEF UploadTypeInv, UploadTypeOK
        <5>3. phase \in {"probe", "lastprobe"} /\ Quiet /\ phase' = phase
          BY <4>1 DEF SendProbe
        <5>4. k = "probe"
          BY <2>2, <5>2
        <5> QED BY <5>3, <5>4
      <4>2. CASE SendCommit(r)
        <5>1. job' = [job EXCEPT ![r] = [kind |-> "final", body |-> Empty]]
          BY <4>2 DEF SendCommit, Send
        <5>2. job'[r].kind = "final"
          BY <5>1 DEF UploadTypeInv, UploadTypeOK
        <5>3. phase \in Committing /\ Quiet /\ phase' = phase
          BY <4>2 DEF SendCommit
        <5>4. k = "final"
          BY <2>2, <5>2
        <5> QED BY <5>3, <5>4
      <4> QED BY <2>4, <4>1, <4>2
    <3>2. \A q \in Requests \ {r} : job'[q] = NoJob
      BY <2>1, <3>1 DEF Quiet
    <3> QED BY <1>n, <2>2, <3>1, <3>2 DEF Alone
  <2> QED BY <1>1, <2>3, <2>4
<1>2. ASSUME NEW r \in Requests, Taken(r), job[r].kind \in {"probe", "final"}
      PROVE  Alone'
  <2>1. \A q \in Requests : job'[q] = NoJob
    BY <1>2 DEF Taken, Alone
  <2> QED BY <1>n, <2>1 DEF Alone
<1>3. ASSUME NEW r \in Requests, Taken(r), phase' = phase
      PROVE  Alone'
  <2>1. \A q \in Requests : job'[q] = job[q] \/ job'[q] = NoJob
    BY <1>3 DEF Taken
  <2> QED BY <1>n, <1>3, <2>1 DEF Alone
<1>4. CASE (RoundSent \/ UploadAgain) /\ UNCHANGED <<vars, job, outcome>>
  <2>1. CASE RoundSent
    BY <1>n, <1>4, <2>1 DEF RoundSent, Quiet, Alone
  <2>2. CASE UploadAgain
    <3>1. \A q \in Requests : job[q].kind = "none"
      BY <1>0, <2>2 DEF UploadAgain, Alone, Ended, Committing
    <3> QED BY <1>4, <3>1 DEF Alone
  <2> QED BY <1>4, <2>1, <2>2
<1>5. CASE UNCHANGED <<phase, job>>
  BY <1>5 DEF Alone
<1>6. ASSUME NEW r \in Requests, (Advance(r) /\ UNCHANGED client) \/ Answered(r) \/ Stop(r) \/ ResponseLost(r)
      PROVE  UNCHANGED <<phase, job>>
  BY <1>6 DEF client, Answered, Stop, Reply, ResponseLost
<1>7. Landed /\ UNCHANGED client => UNCHANGED <<phase, job>>
  BY DEF client
<1> QED BY <1>1, <1>2, <1>3, <1>4, <1>5, <1>6, <1>7, GentleStep, ClientSteps, TakenSteps

(* A handler at work is its client's only one or one of a round of sends.  *)
LEMMA OnlyOne ==
  ASSUME UploadTypeInv, UploadInv, NEW r \in Requests, pc[r] # "idle"
  PROVE  /\ op[r].kind # "data" => \A q \in Requests \ {r} : pc[q] = "idle" /\ fd[q] = None /\ job[q] = NoJob
         /\ op[r].kind = "data" => phase = "send" /\ \A q \in Requests : pc[q] # "idle" => op[q].kind = "data"
         /\ op[r].kind \in {"probe", "final"} => FirstBlock(r) = 1 /\ LastBlock(r) = 0
         /\ op[r].kind \in {"probe", "data", "final"}
         /\ op[r].mode = "Overwrite"
<1>1. \A q \in Requests : pc[q] # "idle" => job[q] = [kind |-> op[q].kind, body |-> op[q].body]
  BY DEF UploadInv, Paired, PairedAt
<1>2. \A q \in Requests : op[q].kind \in Kinds
  BY OpFields DEF UploadTypeInv, TypeInv, TypeOK, HandlersOK
<1>3. \A q \in Requests : pc[q] # "idle" => job[q].kind = op[q].kind /\ job[q].body = op[q].body /\ job[q] # NoJob
  <2> SUFFICES ASSUME NEW q \in Requests, pc[q] # "idle"
               PROVE  job[q].kind = op[q].kind /\ job[q].body = op[q].body /\ job[q] # NoJob
    OBVIOUS
  <2>0. job[q] = [kind |-> op[q].kind, body |-> op[q].body]
    BY <1>1
  <2>1. job[q].kind = op[q].kind /\ job[q].body = op[q].body
    BY <2>0
  <2>2. op[q].kind # NoJob.kind
    BY <1>2, EmptyFacts DEF Kinds
  <2> QED BY <2>1, <2>2
<1>4. ASSUME op[r].kind # "data"
      PROVE  \A q \in Requests \ {r} : pc[q] = "idle" /\ fd[q] = None /\ job[q] = NoJob
  <2>1. job[r].kind \in {"probe", "final"}
    BY <1>2, <1>3, <1>4 DEF Kinds
  <2>2. \A q \in Requests \ {r} : job[q] = NoJob
    BY <2>1 DEF UploadInv, Alone
  <2> QED BY <1>3, <2>2 DEF UploadInv, Paired, PairedAt
<1>5. ASSUME op[r].kind = "data"
      PROVE  phase = "send" /\ \A q \in Requests : pc[q] # "idle" => op[q].kind = "data"
  <2>1. phase = "send"
    BY <1>3, <1>5 DEF UploadInv, Alone
  <2> QED BY <1>2, <1>3, <2>1 DEF UploadInv, Alone, Kinds, Committing
<1>6. op[r].kind \in {"probe", "final"} => FirstBlock(r) = 1 /\ LastBlock(r) = 0
  <2>1. op[r].kind \in {"probe", "final"} => op[r].body = Empty
    BY <1>3 DEF UploadInv, Paired, PairedAt
  <2> QED BY <2>1, EmptyFacts DEF FirstBlock, LastBlock
<1>7. op[r].mode = "Overwrite"
  BY DEF UploadInv, Paired, PairedAt
<1> QED BY <1>2, <1>4, <1>5, <1>6, <1>7 DEF Kinds

LEMMA UndisturbedKept ==
  ASSUME UploadTypeInv, Gentle, UploadInv, UploadNext
  PROVE  Undisturbed'
<1>1. ASSUME NEW r \in Requests, SendProbe(r) \/ SendBlock(r) \/ SendCommit(r)
      PROVE  UNCHANGED background
  BY <1>1, SendFrame
<1>2. ASSUME NEW r \in Requests, (Advance(r) /\ UNCHANGED client) \/ Answered(r) \/ Stop(r) \/ ResponseLost(r)
      PROVE  UNCHANGED background
  BY <1>2, AdvanceFrame, EndFrame DEF ResponseLost, vars
<1>3. UNCHANGED vars \/ Landed => UNCHANGED background
  BY DEF vars, Landed, Land
<1>4. UNCHANGED background
  BY <1>1, <1>2, <1>3, GentleStep, ClientSteps, TakenSteps DEF Taken
<1> QED BY <1>4 DEF UploadInv, Undisturbed, background

LEMMA PlacedKept ==
  ASSUME UploadTypeInv, Gentle, UploadInv, UploadNext
  PROVE  Placed'
<1> USE DEF UploadInv
<1>0. HandlerTypes
  BY DEF UploadTypeInv, TypeInv, TypeOK, HandlersOK, HandlerTypes
<1>1. ASSUME NEW r \in Requests, SendProbe(r) \/ SendBlock(r) \/ SendCommit(r)
      PROVE  Placed'
  <2>1. pc'[r] = "stat" /\ \A q \in Requests \ {r} : Untouched(q)
    BY <1>1, SendFrame
  <2>2. PlacedAt(r)'
    BY <2>1 DEF PlacedAt, Storing, Publishing, Removing
  <2> QED BY <2>1, <2>2 DEF Placed, PlacedAt, Untouched
<1>2. CASE UNCHANGED handlers
  BY <1>2 DEF Placed, PlacedAt, handlers
<1>3. ASSUME NEW r \in Requests, Advance(r)
      PROVE  Placed'
  <2>1. /\ \A q \in Requests \ {r} : Untouched(q)
        /\ pc[r] # "idle" /\ op' = op
    BY <1>3, AdvanceFrame
  <2>2. PlacedAt(r)
    BY DEF Placed
  <2>3. op[r].kind \in {"probe", "data", "final"} /\ op[r].mode = "Overwrite"
    BY <2>1, OnlyOne
  <2>4. PlacedAt(r)'
    <3>1. CASE Stat(r)
      <4>1. pc'[r] = "open" /\ exists'[r] = (temp # None)
        BY <1>0, <2>3, <3>1 DEF Stat, Goto, HandlerTypes
      <4>2. op[r].kind = "data" => temp # None
        BY <2>1, OnlyOne DEF BeliefInv
      <4> QED BY <2>1, <4>1, <4>2 DEF PlacedAt, Storing, Publishing, Removing
    <3>2. CASE OpenExisting(r) \/ Create(r) \/ Lock(r)
      BY <1>0, <2>1, <2>2, <3>2
         DEF OpenExisting, Create, Lock, Goto, HandlerTypes, PlacedAt, Storing, Publishing, Removing
    <3>3. CASE LoadRanges(r)
      BY <1>0, <2>1, <2>2, <3>3 DEF LoadRanges, Goto, HandlerTypes, PlacedAt, Storing, Publishing, Removing
    <3>4. CASE Write(r)
      <4>1. next[r] <= LastBlock(r) /\ next[r] >= FirstBlock(r) /\ next[r] \in Nat
        BY <1>0, <3>4 DEF Write, UploadTypeInv, TypeInv, BodyInRange, HandlerTypes
      <4>2. op[r].kind = "data"
        BY <2>1, <2>3, <4>1, OnlyOne
      <4> QED BY <1>0, <2>1, <2>2, <3>4, <4>2 DEF Write, Goto, HandlerTypes, PlacedAt, Storing, Publishing, Removing
    <3>5. CASE ReadRanges(r) \/ PersistRanges(r)
      BY <1>0, <2>1, <2>2, <3>5
         DEF ReadRanges, PersistRanges, Goto, HandlerTypes, PlacedAt, Storing, Publishing, Removing
    <3>6. CASE Verify(r) \/ RemoveSidecar(r) \/ Flush(r) \/ RemoveTemp(r)
      BY <1>0, <2>1, <2>2, <2>3, <3>6
         DEF Verify, RemoveSidecar, Flush, RemoveTemp, Goto, HandlerTypes, PlacedAt, Storing, Publishing, Removing
    <3> QED BY <1>3, <3>1, <3>2, <3>3, <3>4, <3>5, <3>6 DEF Advance
  <2> QED BY <2>1, <2>4 DEF Placed, PlacedAt, Untouched
<1>4. ASSUME NEW r \in Requests, Answered(r) \/ Stop(r)
      PROVE  Placed'
  <2>1. Ends(r)
    BY <1>4, EndFrame
  <2>2. PlacedAt(r)'
    BY <2>1 DEF Ends, PlacedAt, Storing, Publishing, Removing
  <2> QED BY <2>1, <2>2 DEF Ends, Placed, PlacedAt, Untouched
<1>5. ASSUME NEW r \in Requests, Taken(r) \/ ResponseLost(r)
      PROVE  UNCHANGED handlers
  BY <1>5 DEF Taken, ResponseLost, vars
<1>6. UNCHANGED <<vars, job, outcome>> \/ Landed => UNCHANGED handlers
  BY DEF vars, Landed, Land
<1> QED BY <1>1, <1>2, <1>3, <1>4, <1>5, <1>6, GentleStep, ClientSteps, TakenSteps


-----------------------------------------------------------------------------
(* One sink at a time, with the client and the network around the store.   *)
LEMMA UploadSerialized ==
  ASSUME UploadTypeInv, SinksSerialized, [UploadNext]_allVars
  PROVE  SinksSerialized'
<1>0. pc \in [Requests -> Unlocked \cup Locked]
  BY DEF UploadTypeInv, TypeInv, TypeOK, HandlersOK
<1>1. CASE [Next]_vars
  BY <1>1, NextSerialized DEF UploadTypeInv
<1>2. CASE Arrived
  BY <1>0, <1>2, LockKept DEF Arrived, Arrive, Goto, Sink, Locked, lock
<1>3. CASE LostBefore
  BY <1>0, <1>3, LockKept DEF LostBefore, Finish, Goto, Sink, Locked, lock
<1> QED BY <1>1, <1>2, <1>3, StoreStep

-----------------------------------------------------------------------------
(* The sidecar against the bytes.                                          *)

LEMMA DiskTypes ==
  ASSUME UploadTypeInv
  PROVE  /\ HandlerTypes
         /\ temp \in Inodes \cup {None} /\ target \in Inodes \cup {None}
         /\ sidecar \subseteq Blocks /\ data \in [Inodes -> SUBSET Blocks]
         /\ \A i \in Inodes : Stored(i) \subseteq Blocks
BY DEF UploadTypeInv, TypeInv, TypeOK, DiskOK, HandlersOK, HandlerTypes, Stored

(* A sink that is not removing the temp has the session's temp open.       *)
LEMMA SinkFile ==
  ASSUME UploadTypeInv, UploadInv, NEW r \in Requests, pc[r] \in Locked, pc[r] # "forget"
  PROVE  fd[r] = temp /\ temp \in Inodes /\ temp # None
<1>1. fd[r] \in Inodes /\ fd[r] # None
  BY NoneAssumption DEF UploadTypeInv, TypeInv, FileOpen, Opened
<1> QED BY <1>1 DEF UploadInv, DiskInv, RecordAt

(* A step that changes no file, and no handler but r's.                    *)
LEMMA DiskSteady ==
  ASSUME UploadInv, NEW r \in Requests, UNCHANGED disk,
         \A q \in Requests \ {r} : Untouched(q), RecordAt(r)',
         pc[r] \in Storing => pc'[r] \in Storing /\ next'[r] = next[r],
         pc[r] = "forget" => pc'[r] = "forget",
         pc[r] \in {"flush", "rename"} => pc'[r] \in {"flush", "rename"}
  PROVE  DiskInv'
<1>1. \A i : Stored(i)' = Stored(i)
  BY DEF Stored, disk
<1>2. UNCHANGED <<temp, target, sidecar>>
  BY DEF disk
<1>3. \A b : Recording(b) => Recording(b)'
  BY DEF Recording, Untouched
<1>4. RecordInv'
  <2>1. RecordInv
    BY DEF UploadInv, DiskInv
  <2>2. temp' # None => sidecar' \subseteq Stored(temp)'
    BY <1>1, <1>2, <2>1 DEF RecordInv
  <2>3. temp' = None => sidecar' = {} \/ \E q \in Requests : pc'[q] = "forget"
    BY <1>2, <2>1 DEF RecordInv, Untouched
  <2>4. temp' # None =>
          \/ \A b \in Stored(temp)' : b \in sidecar' \/ Recording(b)'
          \/ \E q \in Requests : pc'[q] \in {"flush", "rename"}
    BY <1>1, <1>2, <1>3, <2>1 DEF RecordInv, Untouched
  <2>5. target' # None => Stored(target)' = Blocks
    BY <1>1, <1>2, <2>1 DEF RecordInv
  <2>6. Stored(temp)' = Stored(temp') /\ Stored(target)' = Stored(target')
    BY <1>1, <1>2
  <2> QED BY <2>2, <2>3, <2>4, <2>5 DEF RecordInv
<1>5. ASSUME NEW q \in Requests \ {r}
      PROVE  RecordAt(q)'
  BY <1>1, <1>2, <1>5 DEF UploadInv, DiskInv, RecordAt, Untouched
<1> QED BY <1>4, <1>5 DEF DiskInv

(* The steps of a handler that change no file.                             *)
LEMMA QuietAdvance ==
  ASSUME UploadTypeInv, UploadInv, NEW r \in Requests,
         Stat(r) \/ OpenExisting(r) \/ Lock(r) \/ LoadRanges(r) \/ ReadRanges(r) \/ Verify(r) \/ Flush(r)
  PROVE  DiskInv'
<1>0. HandlerTypes
  BY DiskTypes
<1>1. (\A q \in Requests \ {r} : Untouched(q)) /\ pc[r] # "idle" /\ op' = op
  BY AdvanceFrame DEF Advance
<1>2. RecordAt(r) /\ PlacedAt(r)
  BY DEF UploadInv, DiskInv, Placed
<1>3. CASE Stat(r)
  <2>0. op[r].mode = "Overwrite"
    BY <1>1, OnlyOne
  <2>1. UNCHANGED disk /\ pc[r] = "stat" /\ pc'[r] = "open" /\ fd' = fd
    BY <1>0, <1>3, <2>0 DEF Stat, Goto, HandlerTypes
  <2>2. RecordAt(r)'
    BY <1>2, <2>1 DEF RecordAt, disk, Storing, Publishing
  <2> QED BY <1>1, <2>1, <2>2, DiskSteady DEF Storing
<1>4. CASE OpenExisting(r)
  <2>1. UNCHANGED disk /\ pc[r] = "open" /\ pc'[r] = "lock" /\ fd'[r] = temp /\ exists'[r]
    BY <1>0, <1>4 DEF OpenExisting, Goto, HandlerTypes
  <2>2. RecordAt(r)'
    BY <2>1 DEF RecordAt, disk, Storing, Publishing
  <2> QED BY <1>1, <2>1, <2>2, DiskSteady DEF Storing
<1>5. CASE Lock(r)
  <2>1. UNCHANGED disk /\ pc[r] = "lock" /\ pc'[r] = "wait" /\ UNCHANGED <<fd, exists>>
    BY <1>0, <1>5 DEF Lock, Goto, HandlerTypes
  <2>2. RecordAt(r)'
    BY <1>2, <2>1 DEF RecordAt, disk, Storing, Publishing
  <2> QED BY <1>1, <2>1, <2>2, DiskSteady DEF Storing
<1>6. CASE LoadRanges(r)
  <2>1. Loaded(r) = sidecar
    BY <1>2, <1>6 DEF LoadRanges, Loaded, RecordAt
  <2>2. UNCHANGED disk /\ pc[r] = "wait" /\ pc'[r] \in {"answer", "write"} /\ fd' = fd
        /\ ranges'[r] = sidecar
    BY <1>0, <1>6, <2>1 DEF LoadRanges, Goto, HandlerTypes, disk
  <2>3. RecordAt(r)'
    BY <1>2, <2>2 DEF RecordAt, disk, Storing, Publishing
  <2> QED BY <1>1, <2>2, <2>3, DiskSteady DEF Storing
<1>7. CASE ReadRanges(r)
  <2>1. /\ UNCHANGED disk /\ pc[r] = "read" /\ pc'[r] = "persist"
        /\ UNCHANGED <<fd, next, ranges>> /\ current'[r] = sidecar \cup {next[r]}
    BY <1>0, <1>7 DEF ReadRanges, Merged, Goto, HandlerTypes
  <2>2. Stored(temp)' = Stored(temp)
    BY <2>1 DEF disk, Stored
  <2>3. RecordAt(r)'
    BY <1>2, <2>1, <2>2 DEF RecordAt, disk, Storing, Publishing
  <2> QED BY <1>1, <2>1, <2>3, DiskSteady DEF Storing
<1>8. CASE Verify(r)
  <2>1. /\ UNCHANGED disk /\ pc[r] = "write" /\ UNCHANGED <<fd, ranges>> /\ op[r].kind = "final"
        /\ pc'[r] = IF Accepted(r) THEN "unlist" ELSE "discard"
    BY <1>0, <1>8 DEF Verify, Goto, HandlerTypes
  <2>2. fd[r] = temp /\ temp \in Inodes /\ temp # None
    BY <2>1, SinkFile DEF Locked
  <2>3. ASSUME Accepted(r)
        PROVE  Stored(temp) = Blocks
    <3>1. ranges[r] = sidecar /\ sidecar \subseteq Stored(temp) /\ Stored(temp) \subseteq Blocks
      BY <1>2, <2>1, <2>2, DiskTypes DEF RecordAt, UploadInv, DiskInv, RecordInv
    <3>2. CASE sidecar = Blocks
      BY <3>1, <3>2
    <3>3. CASE sidecar = {}
      <4>1. \A q \in Requests \ {r} : pc[q] = "idle"
        BY <1>1, <2>1, OnlyOne
      <4>2. \A b : ~Recording(b)
        BY <2>1, <4>1 DEF Recording, Storing
      <4>3. Stored(temp) = {}
        BY <2>1, <2>2, <3>3, <4>1, <4>2 DEF UploadInv, DiskInv, RecordInv
      <4>4. NBlocks = 0
        BY <2>2, <2>3, <4>3 DEF Accepted, FullLength, Stored
      <4> QED BY <4>3, <4>4 DEF Blocks
    <3> QED BY <2>3, <3>1, <3>2, <3>3 DEF Accepted
  <2>4. Stored(temp)' = Stored(temp)
    BY <2>1 DEF disk, Stored
  <2>5. RecordAt(r)'
    BY <2>1, <2>2, <2>3, <2>4 DEF RecordAt, disk, Storing, Publishing
  <2> QED BY <1>1, <2>1, <2>5, DiskSteady DEF Storing
<1>9. CASE Flush(r)
  <2>1. /\ UNCHANGED disk /\ pc[r] = "flush" /\ pc'[r] = "rename" /\ UNCHANGED fd
    BY <1>0, <1>1, <1>9, OnlyOne DEF Flush, Goto, HandlerTypes
  <2>2. Stored(temp)' = Stored(temp)
    BY <2>1 DEF disk, Stored
  <2>3. RecordAt(r)'
    BY <1>2, <2>1, <2>2 DEF RecordAt, disk, Storing, Publishing
  <2> QED BY <1>1, <2>1, <2>3, DiskSteady DEF Storing
<1> QED BY <1>3, <1>4, <1>5, <1>6, <1>7, <1>8, <1>9

(* The creator of the temp is alone: a data request comes after a probe    *)
(* that left a temp, and no data request removes it.                       *)
LEMMA CreateDisk ==
  ASSUME UploadTypeInv, UploadInv, NEW r \in Requests, Create(r)
  PROVE  DiskInv'
<1>0. HandlerTypes /\ target \in Inodes \cup {None} /\ data \in [Inodes -> SUBSET Blocks]
  BY DiskTypes
<1>1. (\A q \in Requests \ {r} : Untouched(q)) /\ pc[r] # "idle" /\ op' = op
  BY AdvanceFrame DEF Advance
<1>2. op[r].kind # "data"
  BY DEF UploadInv, Placed, PlacedAt, Create
<1>3. \A q \in Requests \ {r} : pc[q] = "idle" /\ fd[q] = None
  BY <1>1, <1>2, OnlyOne
<1>4. sidecar = {}
  BY <1>3 DEF UploadInv, DiskInv, RecordInv, Create
<1>5. PICK i \in Inodes :
        /\ Unreferenced(i) /\ temp' = i /\ data' = [data EXCEPT ![i] = {}] /\ fd'[r] = i
        /\ pc'[r] = "lock" /\ UNCHANGED <<target, sidecar, inflight>>
  BY <1>0 DEF Create, Goto, HandlerTypes
<1>6. Stored(temp)' = {}
  BY <1>0, <1>5 DEF Stored, Unreferenced
<1>7. target # None => Stored(target)' = Stored(target)
  BY <1>0, <1>5 DEF Stored, Unreferenced
<1>8. temp' # None
  BY <1>5, NoneAssumption
<1>9. RecordInv'
  BY <1>4, <1>5, <1>6, <1>7, <1>8 DEF UploadInv, DiskInv, RecordInv
<1>10. RecordAt(r)'
  BY <1>4, <1>5 DEF RecordAt, Storing, Publishing
<1>11. ASSUME NEW q \in Requests \ {r} PROVE RecordAt(q)'
  BY <1>1, <1>3, <1>11 DEF RecordAt, Untouched, Storing, Publishing
<1> QED BY <1>9, <1>10, <1>11 DEF DiskInv

LEMMA WriteDisk ==
  ASSUME UploadTypeInv, UploadInv, NEW r \in Requests, Write(r)
  PROVE  DiskInv' /\ op[r].kind = "data"
<1>0. HandlerTypes
  BY DiskTypes
<1>1. (\A q \in Requests \ {r} : Untouched(q)) /\ pc[r] # "idle" /\ op' = op
  BY AdvanceFrame DEF Advance
<1>2. next[r] <= LastBlock(r) /\ next[r] >= FirstBlock(r) /\ FirstBlock(r) >= 1
      /\ LastBlock(r) <= NBlocks /\ next[r] \in Nat
      /\ FirstBlock(r) \in Nat /\ LastBlock(r) \in Nat
  BY <1>0, OpFields DEF Write, UploadTypeInv, TypeInv, BodyInRange, HandlerTypes, FirstBlock, LastBlock
<1>3. op[r].kind = "data" /\ next[r] \in Blocks
  <2>1. /\ op[r].kind \in {"probe", "final"} => FirstBlock(r) = 1 /\ LastBlock(r) = 0
        /\ op[r].kind \in {"probe", "data", "final"}
    BY <1>1, OnlyOne
  <2>2. next[r] \in Blocks
    BY <1>2, BlocksAssumption DEF Blocks
  <2> QED BY <1>2, <2>1, <2>2
<1>4. fd[r] = temp /\ temp \in Inodes /\ temp # None
  BY SinkFile DEF Write, Locked
<1>5. /\ pc[r] = "write" /\ pc'[r] = "read" /\ inflight' = inflight \cup {<<temp, next[r]>>}
      /\ UNCHANGED <<temp, target, sidecar, data, exists, fd, next, ranges, current>>
  BY <1>0, <1>4 DEF Write, Goto, HandlerTypes
<1>6. Stored(temp)' = Stored(temp) \cup {next[r]}
  BY <1>3, <1>5 DEF Stored
<1>7. target # None => \/ Stored(target)' = Stored(target)
                       \/ target = temp /\ Stored(target)' = Stored(target) \cup {next[r]}
  BY <1>3, <1>5 DEF Stored
<1>8. RecordInv'
  <2>1. RecordInv /\ Stored(temp) \subseteq Blocks
    BY <1>4, DiskTypes DEF UploadInv, DiskInv
  <2>2. \A b : Recording(b) => Recording(b)'
    BY <1>1, <1>5 DEF Recording, Storing, Untouched
  <2>3. Recording(next[r])'
    BY <1>5 DEF Recording, Storing
  <2>4. \/ \A b \in Stored(temp)' : b \in sidecar' \/ Recording(b)'
        \/ \E q \in Requests : pc'[q] \in {"flush", "rename"}
    BY <1>1, <1>4, <1>5, <1>6, <2>1, <2>2, <2>3 DEF RecordInv, Untouched
  <2>5. target # None => Stored(target)' = Blocks
    BY <1>3, <1>6, <1>7, <2>1 DEF RecordInv
  <2>6. temp' # None => sidecar' \subseteq Stored(temp)'
    BY <1>4, <1>5, <1>6, <2>1 DEF RecordInv
  <2> QED BY <1>4, <1>5, <2>4, <2>5, <2>6 DEF RecordInv
<1>9. RecordAt(r)'
  <2>1. RecordAt(r)
    BY DEF UploadInv, DiskInv
  <2> QED BY <1>4, <1>5, <1>6, <2>1 DEF RecordAt, Storing, Publishing
<1>10. ASSUME NEW q \in Requests \ {r} PROVE RecordAt(q)'
  <2>1. RecordAt(q) /\ Stored(temp) \subseteq Blocks
    BY <1>4, DiskTypes DEF UploadInv, DiskInv
  <2> QED BY <1>1, <1>3, <1>5, <1>6, <2>1 DEF RecordAt, Untouched
<1> QED BY <1>3, <1>8, <1>9, <1>10 DEF DiskInv

LEMMA PersistDisk ==
  ASSUME UploadTypeInv, SinksSerialized, UploadInv, NEW r \in Requests, PersistRanges(r)
  PROVE  DiskInv' /\ op[r].kind = "data" /\ sidecar' = sidecar \cup {next[r]}
<1>0. HandlerTypes
  BY DiskTypes
<1>1. (\A q \in Requests \ {r} : Untouched(q)) /\ pc[r] # "idle" /\ op' = op
  BY AdvanceFrame DEF Advance
<1>2. /\ pc[r] = "persist" /\ pc'[r] = "write" /\ sidecar' = current[r] /\ ranges'[r] = current[r]
      /\ UNCHANGED <<temp, target, data, inflight, exists, fd>>
  BY <1>0 DEF PersistRanges, Goto, HandlerTypes
<1>3. fd[r] = temp /\ temp \in Inodes /\ temp # None
  BY <1>2, SinkFile DEF Locked
<1>4. sidecar' = sidecar \cup {next[r]} /\ next[r] \in Stored(temp)
  BY <1>2 DEF UploadInv, DiskInv, RecordAt, Storing
<1>5. op[r].kind = "data"
  BY <1>2 DEF UploadInv, Placed, PlacedAt, Storing
<1>6. \A q \in Requests \ {r} : pc[q] \notin Locked
  BY <1>2 DEF SinksSerialized, Sink, Locked
<1>7. \A i : Stored(i)' = Stored(i)
  BY <1>2 DEF Stored
<1>8. RecordInv'
  <2>1. RecordInv
    BY DEF UploadInv, DiskInv
  <2>2. \A b \in Stored(temp) : b \in sidecar \/ Recording(b)
    BY <1>2, <1>3, <1>6, <2>1 DEF RecordInv, Locked
  <2>3. \A b : Recording(b) => b = next[r]
    BY <1>6 DEF Recording, Storing, Locked
  <2>4. \A b \in Stored(temp) : b \in sidecar'
    BY <1>4, <2>2, <2>3
  <2>5. sidecar' \subseteq Stored(temp)
    BY <1>3, <1>4, <2>1 DEF RecordInv
  <2>6. target # None => Stored(target) = Blocks
    BY <2>1 DEF RecordInv
  <2> QED BY <1>2, <1>3, <1>7, <2>4, <2>5, <2>6 DEF RecordInv
<1>9. RecordAt(r)'
  BY <1>2, <1>3 DEF RecordAt, Storing, Publishing
<1>10. ASSUME NEW q \in Requests \ {r} PROVE RecordAt(q)'
  <2>1. RecordAt(q) /\ pc[q] \in Unlocked
    BY <1>0, <1>6 DEF UploadInv, DiskInv, HandlerTypes
  <2>2. pc[q] \in {"lock", "wait"} => exists[q]
    BY <1>1, <1>5, OnlyOne DEF UploadInv, Placed, PlacedAt
  <2> QED BY <1>1, <1>2, <2>1, <2>2 DEF RecordAt, Untouched, Unlocked, Storing, Publishing
<1> QED BY <1>4, <1>5, <1>8, <1>9, <1>10 DEF DiskInv

(* Commit and abort are alone with the files.                              *)
LEMMA CommitDisk ==
  ASSUME UploadTypeInv, UploadInv, NEW r \in Requests, RemoveSidecar(r) \/ RemoveTemp(r)
  PROVE  DiskInv' /\ op[r].kind = "final"
<1>0. HandlerTypes /\ target \in Inodes \cup {None}
  BY DiskTypes
<1>1. (\A q \in Requests \ {r} : Untouched(q)) /\ pc[r] # "idle" /\ op' = op
  BY AdvanceFrame DEF Advance
<1>2. op[r].kind = "final"
  BY DEF UploadInv, Placed, PlacedAt, Publishing, Removing, RemoveSidecar, RemoveTemp
<1>3. \A q \in Requests \ {r} : pc[q] = "idle" /\ fd[q] = None
  BY <1>1, <1>2, OnlyOne
<1>4. ASSUME NEW q \in Requests \ {r} PROVE RecordAt(q)'
  BY <1>1, <1>3, <1>4 DEF RecordAt, Untouched, Storing, Publishing
<1>5. RecordInv /\ RecordAt(r)
  BY DEF UploadInv, DiskInv
<1>6. CASE RemoveSidecar(r)
  <2>1. /\ pc[r] = "unlist" /\ pc'[r] = "flush" /\ sidecar' = {}
        /\ UNCHANGED <<temp, target, data, inflight, fd>>
    BY <1>0, <1>6 DEF RemoveSidecar, Goto, HandlerTypes
  <2>2. fd[r] = temp /\ temp # None
    BY <2>1, SinkFile DEF Locked
  <2>3. \A i : Stored(i)' = Stored(i)
    BY <2>1 DEF Stored
  <2>4. RecordInv' /\ RecordAt(r)'
    BY <1>5, <2>1, <2>2, <2>3 DEF RecordInv, RecordAt, Storing, Publishing
  <2> QED BY <1>2, <1>4, <2>4 DEF DiskInv
<1>7. CASE RemoveTemp(r)
  <2>1. /\ pc[r] = "discard" /\ pc'[r] = "forget" /\ temp' = None
        /\ UNCHANGED <<target, sidecar, data, inflight, fd>>
    BY <1>0, <1>7 DEF RemoveTemp, Goto, HandlerTypes
  <2>2. \A i : Stored(i)' = Stored(i)
    BY <2>1 DEF Stored
  <2>3. RecordInv' /\ RecordAt(r)'
    BY <1>5, <2>1, <2>2 DEF RecordInv, RecordAt, Storing, Publishing
  <2> QED BY <1>2, <1>4, <2>3 DEF DiskInv
<1> QED BY <1>6, <1>7

(* What is in flight counts as stored: landing changes nothing.            *)
LEMMA LandStored ==
  ASSUME UploadTypeInv, Landed
  PROVE  /\ UNCHANGED <<temp, target, sidecar, handlers>>
         /\ temp # None => Stored(temp)' = Stored(temp)
         /\ target # None => Stored(target)' = Stored(target)
<1>0. temp \in Inodes \cup {None} /\ target \in Inodes \cup {None} /\ data \in [Inodes -> SUBSET Blocks]
  BY DiskTypes
<1>1. PICK i \in Inodes, b \in Blocks : Land(i, b)
  BY DEF Landed
<1>2. ASSUME NEW j \in Inodes
      PROVE  data'[j] \cup {c \in Blocks : <<j, c>> \in inflight'} = Stored(j)
  BY <1>0, <1>1 DEF Land, Stored
<1>3. UNCHANGED <<temp, target, sidecar, handlers>>
  BY <1>1 DEF Land
<1> QED BY <1>0, <1>2, <1>3 DEF Stored

LEMMA LandDisk ==
  ASSUME UploadTypeInv, UploadInv, Landed
  PROVE  DiskInv'
<1>0. temp \in Inodes \cup {None} /\ target \in Inodes \cup {None}
  BY DiskTypes
<1>1. UNCHANGED <<temp, target, sidecar, handlers>>
  BY LandStored
<1>2. temp # None => Stored(temp)' = Stored(temp)
  BY LandStored
<1>3. target # None => Stored(target)' = Stored(target)
  BY LandStored
<1>4. \A b \in Blocks : Recording(b) => Recording(b)'
  BY <1>1 DEF Recording, handlers
<1>5. RecordInv'
  <2>1. RecordInv /\ (temp # None => Stored(temp) \subseteq Blocks)
    BY <1>0, DiskTypes DEF UploadInv, DiskInv
  <2>2. temp # None =>
          \/ \A c \in Stored(temp) : c \in sidecar \/ Recording(c)'
          \/ \E r \in Requests : pc[r] \in {"flush", "rename"}
    BY <1>4, <2>1 DEF RecordInv
  <2>3. temp # None => sidecar \subseteq Stored(temp)
    BY <2>1 DEF RecordInv
  <2>4. temp = None => sidecar = {} \/ \E r \in Requests : pc[r] = "forget"
    BY <2>1 DEF RecordInv
  <2>5. target # None => Stored(target) = Blocks
    BY <2>1 DEF RecordInv
  <2> QED BY <1>1, <1>2, <1>3, <2>2, <2>3, <2>4, <2>5 DEF RecordInv, handlers
<1>6. ASSUME NEW r \in Requests PROVE RecordAt(r)'
  <2>1. RecordAt(r)
    BY DEF UploadInv, DiskInv
  <2>2. pc[r] \in Storing \cup Publishing => temp # None
    BY SinkFile DEF Locked, Storing, Publishing
  <2> QED BY <1>1, <1>2, <2>1, <2>2 DEF RecordAt, handlers, Storing, Publishing
<1> QED BY <1>5, <1>6 DEF DiskInv

(* The end of a handler: only a rename and the second half of an abort     *)
(* touch the files, and both are a commit's.                               *)
LEMMA EndDisk ==
  ASSUME UploadTypeInv, UploadInv, NEW r \in Requests, Answered(r) \/ Stop(r)
  PROVE  DiskInv'
<1>0. HandlerTypes
  BY DiskTypes
<1>1. Ends(r)
  BY EndFrame
<1>2. RecordInv /\ RecordAt(r) /\ PlacedAt(r)
  BY DEF UploadInv, DiskInv, Placed
<1>3. RecordAt(r)'
  BY <1>1 DEF Ends, RecordAt, Storing, Publishing
<1>4. CASE AnswerProbe(r) \/ AnswerData(r) \/ OpenFails(r) \/ Disconnect(r) \/ Unreached(r)
  <2>1. UNCHANGED disk /\ pc[r] \in {"answer", "write", "open", "stat"}
    BY <1>2, <1>4 DEF AnswerProbe, AnswerData, OpenFails, Disconnect, Unreached, PlacedAt
  <2> QED BY <1>1, <1>3, <2>1, DiskSteady DEF Ends, Storing
<1>5. ~RenameFails(r)
  BY SinkFile DEF RenameFails, Locked
<1>6. ASSUME Rename(r) \/ Forget(r)
      PROVE  \A q \in Requests \ {r} : pc[q] = "idle" /\ RecordAt(q)'
  <2>1. op[r].kind = "final"
    BY <1>2, <1>6 DEF PlacedAt, Rename, Forget, Publishing, Removing
  <2>2. \A q \in Requests \ {r} : pc[q] = "idle" /\ fd[q] = None
    BY <1>1, <2>1, OnlyOne DEF Ends
  <2> QED BY <1>1, <2>2 DEF Ends, RecordAt, Untouched, Storing, Publishing
<1>7. CASE Rename(r)
  <2>1. /\ pc[r] = "rename" /\ temp # None /\ target' = temp /\ temp' = None
        /\ UNCHANGED <<sidecar, data, inflight>>
    BY <1>7 DEF Rename
  <2>2. sidecar = {} /\ Stored(temp) = Blocks
    BY <1>2, <2>1 DEF RecordAt, Publishing
  <2>3. Stored(target)' = Stored(temp)
    BY <2>1 DEF Stored
  <2>4. RecordInv'
    BY <2>1, <2>2, <2>3 DEF RecordInv
  <2> QED BY <1>3, <1>6, <1>7, <2>4 DEF DiskInv
<1>8. CASE Forget(r)
  <2>1. pc[r] = "forget" /\ sidecar' = {} /\ UNCHANGED <<temp, target, data, inflight>>
    BY <1>8 DEF Forget
  <2>2. temp = None
    BY <1>2, <2>1 DEF RecordAt
  <2>3. Stored(target)' = Stored(target)
    BY <2>1 DEF Stored
  <2>4. RecordInv'
    BY <1>2, <2>1, <2>2, <2>3 DEF RecordInv
  <2> QED BY <1>3, <1>6, <1>8, <2>4 DEF DiskInv
<1> QED BY <1>4, <1>5, <1>7, <1>8 DEF Answered, Stop

LEMMA DiskKept ==
  ASSUME UploadTypeInv, Gentle, SinksSerialized, UploadInv, UploadNext
  PROVE  DiskInv'
<1>1. ASSUME NEW r \in Requests, SendProbe(r) \/ SendBlock(r) \/ SendCommit(r)
      PROVE  DiskInv'
  <2>1. /\ pc[r] = "idle" /\ pc'[r] = "stat" /\ UNCHANGED <<disk, fd>>
        /\ \A q \in Requests \ {r} : Untouched(q)
    BY <1>1, SendFrame
  <2>2. RecordAt(r)'
    BY <2>1 DEF UploadInv, Paired, PairedAt, RecordAt, Storing, Publishing
  <2> QED BY <2>1, <2>2, DiskSteady DEF Storing
<1>2. CASE UNCHANGED vars
  <2>1. \A i : Stored(i)' = Stored(i)
    BY <1>2 DEF vars, disk, Stored
  <2>2. \A b : Recording(b)' = Recording(b)
    BY <1>2 DEF vars, handlers, Recording
  <2>3. UNCHANGED <<temp, target, sidecar, pc, fd, exists, ranges, next, current>>
    BY <1>2 DEF vars, disk, handlers
  <2> QED BY <2>1, <2>2, <2>3 DEF UploadInv, DiskInv, RecordInv, RecordAt
<1>3. ASSUME NEW r \in Requests, Advance(r)
      PROVE  DiskInv'
  BY <1>3, QuietAdvance, CreateDisk, WriteDisk, PersistDisk, CommitDisk DEF Advance
<1>4. ASSUME NEW r \in Requests, ResponseLost(r)
      PROVE  UNCHANGED vars
  BY <1>4 DEF ResponseLost
<1> QED BY <1>1, <1>2, <1>3, <1>4, LandDisk, EndDisk, GentleStep, ClientSteps, TakenSteps DEF Taken

-----------------------------------------------------------------------------
(* What the client believes.  Nothing but a commit takes anything away, and *)
(* nobody but its client waits for anything then.                          *)
FilesGrow ==
  /\ temp # None => temp' # None
  /\ sidecar \subseteq sidecar'
  /\ target # None => target' # None

LEMMA BeliefGrows ==
  ASSUME UploadInv, FilesGrow, UNCHANGED <<phase, received, acked, job>>,
         NEW r \in Requests, \A q \in Requests \ {r} : Untouched(q) /\ outcome'[q] = outcome[q],
         BeliefAt(r)'
  PROVE  BeliefInv'
<1>1. BeliefInv
  BY DEF UploadInv
<1>2. /\ phase' = "send" => temp' # None /\ received' \cup acked' \subseteq sidecar'
      /\ phase' # "send" => acked' = {}
      /\ phase' = "done" => target' # None
  BY <1>1 DEF BeliefInv, FilesGrow
<1>3. ASSUME NEW q \in Requests \ {r}
      PROVE  BeliefAt(q)'
  BY <1>1, <1>3 DEF BeliefInv, BeliefAt, Untouched, FilesGrow, FirstBlock
<1> QED BY <1>2, <1>3 DEF BeliefInv

LEMMA CommitAlone ==
  ASSUME UploadTypeInv, UploadInv, NEW r \in Requests, pc[r] # "idle", op[r].kind = "final"
  PROVE  phase \in Committing /\ job[r].kind = "final"
         /\ \A q \in Requests \ {r} : pc[q] = "idle" /\ job[q].kind = "none"
<1>0. job[r] = [kind |-> op[r].kind, body |-> op[r].body]
  BY DEF UploadInv, Paired, PairedAt
<1>1. job[r].kind = "final"
  BY <1>0
<1>2. \A q \in Requests \ {r} : pc[q] = "idle" /\ job[q] = NoJob
  BY OnlyOne
<1> QED BY <1>1, <1>2, EmptyFacts DEF UploadInv, Alone

(* A commit's own step: the client waits for nothing else.                 *)
LEMMA BeliefCommit ==
  ASSUME UploadTypeInv, UploadInv, NEW r \in Requests, pc[r] # "idle", op[r].kind = "final",
         UNCHANGED <<phase, received, acked, job>>,
         \A q \in Requests \ {r} : Untouched(q),
         outcome'[r] = "ok" => target' # None,
         pc'[r] \notin {"write", "read", "persist", "stat", "open", "lock", "wait"}
  PROVE  BeliefInv'
<1>1. phase \in Committing /\ job[r].kind = "final"
      /\ \A q \in Requests \ {r} : pc[q] = "idle" /\ job[q].kind = "none"
  BY CommitAlone
<1>2. BeliefAt(r)'
  BY <1>1 DEF BeliefAt
<1>3. ASSUME NEW q \in Requests \ {r} PROVE BeliefAt(q)'
  BY <1>1, <1>3 DEF BeliefAt, Untouched
<1> QED BY <1>1, <1>2, <1>3 DEF UploadInv, BeliefInv, Committing

LEMMA BeliefAdvance ==
  ASSUME UploadTypeInv, SinksSerialized, UploadInv, NEW r \in Requests, Advance(r), UNCHANGED client
  PROVE  BeliefInv'
<1>0. HandlerTypes
  BY DiskTypes
<1>1. (\A q \in Requests \ {r} : Untouched(q)) /\ pc[r] # "idle" /\ op' = op
  BY AdvanceFrame
<1>2. UNCHANGED <<phase, received, acked, job, outcome>>
  BY DEF client
<1>3. BeliefAt(r) /\ PlacedAt(r) /\ RecordAt(r)
  BY DEF UploadInv, BeliefInv, Placed, DiskInv
<1>4. CASE RemoveSidecar(r) \/ RemoveTemp(r)
  <2>1. op[r].kind = "final"
    BY <1>4, CommitDisk
  <2>2. pc'[r] \in {"flush", "forget"}
    BY <1>0, <1>4 DEF RemoveSidecar, RemoveTemp, Goto, HandlerTypes
  <2>3. outcome'[r] # "ok"
    BY <1>1, <1>2 DEF UploadInv, Paired, PairedAt
  <2> QED BY <1>1, <1>2, <2>1, <2>2, <2>3, BeliefCommit
<1>5. ASSUME FilesGrow, BeliefAt(r)' PROVE BeliefInv'
  BY <1>1, <1>2, <1>5, BeliefGrows
<1>6. CASE Stat(r) \/ OpenExisting(r) \/ Lock(r)
  <2>1. /\ UNCHANGED disk /\ next' = next /\ pc[r] \in {"stat", "open", "lock"}
        /\ pc'[r] \in {"open", "lock", "wait"}
    <3>1. op[r].mode = "Overwrite"
      BY <1>1, OnlyOne
    <3> QED BY <1>0, <1>6, <3>1 DEF Stat, OpenExisting, Lock, Goto, HandlerTypes
  <2>2. BeliefAt(r)'
    BY <1>1, <1>2, <1>3, <2>1 DEF BeliefAt, FirstBlock, disk
  <2> QED BY <1>5, <2>1, <2>2 DEF FilesGrow, disk
<1>7. CASE Create(r)
  <2>1. /\ UNCHANGED <<target, sidecar, next>> /\ pc[r] = "open" /\ pc'[r] = "lock" /\ temp' # None
    BY <1>0, <1>7, NoneAssumption DEF Create, Goto, HandlerTypes
  <2>2. BeliefAt(r)'
    BY <1>1, <1>2, <1>3, <2>1 DEF BeliefAt, FirstBlock
  <2> QED BY <1>5, <2>1, <2>2 DEF FilesGrow
<1>8. CASE LoadRanges(r)
  <2>1. Loaded(r) = sidecar
    BY <1>3, <1>8 DEF LoadRanges, Loaded, RecordAt
  <2>2. /\ UNCHANGED <<temp, target, sidecar, next>> /\ pc[r] = "wait" /\ pc'[r] \in {"answer", "write"}
    BY <1>0, <1>8, <2>1 DEF LoadRanges, Goto, HandlerTypes
  <2>3. next[r] = FirstBlock(r) /\ next[r] \in Nat
    BY <1>0, <1>3, <2>2 DEF BeliefAt, HandlerTypes
  <2>4. FirstBlock(r)..(next[r] - 1) = {}
    BY <2>3
  <2>5. BeliefAt(r)'
    BY <1>1, <1>2, <1>3, <2>2, <2>4 DEF BeliefAt, FirstBlock
  <2> QED BY <1>5, <2>2, <2>5 DEF FilesGrow
<1>9. CASE Write(r) \/ ReadRanges(r)
  <2>1. /\ UNCHANGED <<temp, target, sidecar, next>> /\ pc[r] \in {"write", "read"}
        /\ pc'[r] \in {"read", "persist"}
    BY <1>0, <1>9 DEF Write, ReadRanges, Goto, HandlerTypes, disk
  <2>2. BeliefAt(r)'
    BY <1>1, <1>2, <1>3, <2>1 DEF BeliefAt, FirstBlock
  <2> QED BY <1>5, <2>1, <2>2 DEF FilesGrow
<1>10. CASE PersistRanges(r)
  <2>1. /\ UNCHANGED <<temp, target>> /\ pc[r] = "persist" /\ pc'[r] = "write"
        /\ next'[r] = next[r] + 1 /\ next[r] \in Nat /\ FirstBlock(r) \in Nat
    BY <1>0, <1>10, OpFields DEF PersistRanges, Goto, HandlerTypes, FirstBlock
  <2>2. sidecar' = sidecar \cup {next[r]}
    BY <1>10, PersistDisk
  <2>3. FirstBlock(r)..(next'[r] - 1) \subseteq (FirstBlock(r)..(next[r] - 1)) \cup {next[r]}
    BY <2>1
  <2>4. FirstBlock(r)..(next'[r] - 1) \subseteq sidecar'
    BY <1>3, <2>1, <2>2, <2>3 DEF BeliefAt
  <2>5. BeliefAt(r)'
    BY <1>1, <1>2, <1>3, <2>1, <2>2, <2>4 DEF BeliefAt, FirstBlock
  <2> QED BY <1>5, <2>1, <2>2, <2>5 DEF FilesGrow
<1>11. CASE Verify(r) \/ Flush(r)
  <2>1. UNCHANGED disk /\ pc'[r] \notin {"write", "read", "persist", "stat", "open", "lock", "wait"}
    BY <1>0, <1>11 DEF Verify, Flush, Goto, HandlerTypes
  <2>2. BeliefAt(r)'
    BY <1>1, <1>2, <1>3, <2>1 DEF BeliefAt, disk
  <2> QED BY <1>5, <2>1, <2>2 DEF FilesGrow, disk
<1> QED BY <1>4, <1>6, <1>7, <1>8, <1>9, <1>10, <1>11 DEF Advance

LEMMA BeliefEnd ==
  ASSUME UploadTypeInv, UploadInv, NEW r \in Requests, Answered(r) \/ Stop(r)
  PROVE  BeliefInv'
<1>0. HandlerTypes
  BY DiskTypes
<1>1. Ends(r)
  BY EndFrame
<1>2. PICK how \in {"ok", "failed"} : Reply(r, how)
  BY DEF Answered, Stop
<1>3. /\ Heard(r) /\ outcome'[r] = how
      /\ \A q \in Requests \ {r} : outcome'[q] = outcome[q]
      /\ job[r].kind = op[r].kind /\ job[r].body = op[r].body
      /\ UNCHANGED <<phase, acked, job>>
  BY <1>1, <1>2, ReplyFrame DEF Ends, UploadInv
<1>f. Stop(r) => outcome'[r] = "failed" /\ UNCHANGED received
  <2>1. CASE Stop(r)
    BY <1>1, <2>1, ReplyFrame DEF Stop, Ends, UploadInv
  <2> QED BY <2>1
<1>4. BeliefAt(r) /\ PlacedAt(r) /\ RecordAt(r)
  BY DEF UploadInv, BeliefInv, Placed, DiskInv
<1>5. CASE AnswerProbe(r)
  <2>1. pc[r] = "answer" /\ UNCHANGED disk
    BY <1>5 DEF AnswerProbe
  <2>2. op[r].kind = "probe" /\ ranges[r] = sidecar /\ temp # None
    BY <1>4, <2>1, SinkFile DEF PlacedAt, RecordAt, Locked
  <2>3. received' = sidecar
    BY <1>3, <1>5, <2>1, <2>2 DEF Answered, Stop, AnswerData, Rename, OpenFails, RenameFails, Forget,
       Disconnect, Unreached
  <2>4. phase \in {"probe", "lastprobe"} /\ \A q \in Requests \ {r} : job[q] = NoJob
    BY <1>3, <2>2 DEF UploadInv, Alone
  <2>5. BeliefAt(r)'
    BY <1>1, <1>3, <2>1, <2>2, <2>3 DEF Ends, BeliefAt, disk
  <2>6. ASSUME NEW q \in Requests \ {r} PROVE BeliefAt(q)'
    BY <1>1, <1>3, <2>1, <2>4, <2>6, EmptyFacts
       DEF Ends, Untouched, UploadInv, BeliefInv, BeliefAt, disk, FirstBlock
  <2> QED BY <1>3, <2>1, <2>4, <2>5, <2>6 DEF UploadInv, BeliefInv, disk
<1>6. CASE AnswerData(r)
  <2>1. /\ pc[r] = "write" /\ next[r] > LastBlock(r) /\ op[r].kind = "data"
        /\ UNCHANGED disk /\ UNCHANGED received
    BY <1>6 DEF AnswerData, Answered, Stop, AnswerProbe
  <2>2. FirstBlock(r)..LastBlock(r) \subseteq FirstBlock(r)..(next[r] - 1)
    BY <1>0, <2>1, OpFields DEF HandlerTypes, FirstBlock, LastBlock
  <2>3. job[r].body[1]..job[r].body[2] \subseteq sidecar
    BY <1>3, <1>4, <2>1, <2>2 DEF BeliefAt, FirstBlock, LastBlock
  <2>4. BeliefAt(r)'
    BY <1>1, <1>3, <2>1, <2>3 DEF Ends, BeliefAt, disk
  <2> QED BY <1>1, <1>3, <2>1, <2>4, BeliefGrows DEF Ends, FilesGrow, disk
<1>7. CASE Rename(r) \/ (Forget(r) /\ Stop(r))
  <2>1. /\ pc[r] \in {"rename", "forget"} /\ UNCHANGED received
        /\ Rename(r) => target' # None
        /\ ~Rename(r) => outcome'[r] # "ok"
    <3>1. CASE Rename(r)
      BY <1>7, <3>1 DEF Rename, Answered, Stop, AnswerProbe
    <3>2. CASE ~Rename(r)
      BY <1>f, <1>7, <3>2 DEF Forget
    <3> QED BY <3>1, <3>2
  <2>2. op[r].kind = "final"
    BY <1>4, <2>1 DEF PlacedAt, Publishing, Removing
  <2> QED BY <1>1, <1>3, <2>1, <2>2, BeliefCommit DEF Ends
<1>8. CASE Stop(r) /\ ~Forget(r)
  <2>1. UNCHANGED disk /\ UNCHANGED received /\ outcome'[r] = "failed"
    BY <1>f, <1>8 DEF Stop, OpenFails, RenameFails, Disconnect, Unreached
  <2>2. BeliefAt(r)'
    BY <1>1, <1>3, <2>1 DEF Ends, BeliefAt
  <2> QED BY <1>1, <1>3, <2>1, <2>2, BeliefGrows DEF Ends, FilesGrow, disk
<1> QED BY <1>5, <1>6, <1>7, <1>8 DEF Answered

(* The client takes an answer: what it now believes is what the request    *)
(* was about.                                                              *)
LEMMA BeliefTaken ==
  ASSUME UploadTypeInv, UploadInv, NEW r \in Requests,
         PlanRound(r) \/ LastProbed(r) \/ ProbeFailed(r) \/ BlockDone(r) \/ BlockFailed(r)
           \/ Committed(r) \/ RetryCommit(r) \/ CommitFailed(r)
  PROVE  BeliefInv'
<1>0. "probe" \in Kinds /\ "data" \in Kinds /\ "final" \in Kinds
  BY DEF Kinds
<1>1. Taken(r)
  BY TakenSteps
<1>2. BeliefInv /\ BeliefAt(r)
  BY DEF UploadInv, BeliefInv
<1>3. UNCHANGED <<temp, target, sidecar, pc, op, next>>
  BY <1>1 DEF Taken, vars, disk, handlers
<1>4. ASSUME received' \subseteq received, NEW q \in Requests
      PROVE  BeliefAt(q)'
  <2>1. CASE q = r
    BY <1>1, <1>2, <1>3, <2>1, EmptyFacts DEF Taken, BeliefAt, FirstBlock
  <2>2. CASE q # r
    BY <1>1, <1>2, <1>3, <1>4, <2>2 DEF Taken, BeliefInv, BeliefAt, FirstBlock
  <2> QED BY <2>1, <2>2
<1>5. CASE PlanRound(r)
  <2>1. /\ phase = "probe" /\ Receive(r, "probe", "ok") /\ phase' \in {"direct", "send"}
        /\ UNCHANGED <<received, acked>>
    BY <1>5 DEF PlanRound
  <2>2. acked = {} /\ temp # None /\ received \subseteq sidecar
    BY <1>0, <1>2, <2>1, ReceiveFrame DEF BeliefInv, BeliefAt
  <2> QED BY <1>3, <1>4, <2>1, <2>2 DEF BeliefInv
<1>6. CASE LastProbed(r) \/ ProbeFailed(r)
  <2>1. /\ Receive(r, "probe", "ok") \/ Receive(r, "probe", "failed")
        /\ phase' \in {"lastcommit", "error"} /\ received' = {} /\ acked' = acked
    BY <1>6 DEF LastProbed, ProbeFailed
  <2>2. phase # "send"
    BY <1>0, <2>1, ReceiveFrame DEF UploadInv, Alone
  <2> QED BY <1>2, <1>4, <2>1, <2>2 DEF BeliefInv
<1>7. CASE BlockDone(r)
  <2>1. /\ Receive(r, "data", "ok") /\ UNCHANGED <<phase, received>>
        /\ acked' = acked \cup (job[r].body[1]..job[r].body[2])
    BY <1>7 DEF BlockDone
  <2>2. phase = "send" /\ job[r].body[1]..job[r].body[2] \subseteq sidecar
    BY <1>0, <1>2, <2>1, ReceiveFrame DEF UploadInv, Alone, BeliefAt
  <2> QED BY <1>2, <1>3, <1>4, <2>1, <2>2 DEF BeliefInv
<1>8. CASE BlockFailed(r) \/ RetryCommit(r)
  <2>1. UNCHANGED <<phase, received, acked>>
    BY <1>8 DEF BlockFailed, RetryCommit
  <2> QED BY <1>2, <1>3, <1>4, <2>1 DEF BeliefInv
<1>9. CASE Committed(r)
  <2>1. Receive(r, "final", "ok") /\ phase' = "done" /\ received' = {} /\ acked' = acked
    BY <1>9 DEF Committed
  <2>2. phase # "send" /\ target # None
    BY <1>0, <1>2, <2>1, ReceiveFrame DEF UploadInv, Alone, Committing, BeliefAt
  <2> QED BY <1>2, <1>3, <1>4, <2>1, <2>2 DEF BeliefInv
<1>10. CASE CommitFailed(r)
  <2>1. /\ Receive(r, "final", "failed") /\ phase' \in {"error", "probe", "lastprobe"}
        /\ received' = {} /\ acked' = acked
    BY <1>10 DEF CommitFailed
  <2>2. phase # "send"
    BY <1>0, <2>1, ReceiveFrame DEF UploadInv, Alone, Committing
  <2> QED BY <1>2, <1>4, <2>1, <2>2 DEF BeliefInv
<1> QED BY <1>5, <1>6, <1>7, <1>8, <1>9, <1>10

LEMMA BeliefKept ==
  ASSUME UploadTypeInv, Gentle, SinksSerialized, UploadInv, UploadNext
  PROVE  BeliefInv'
<1>1. ASSUME NEW r \in Requests, SendProbe(r) \/ SendBlock(r) \/ SendCommit(r)
      PROVE  BeliefInv'
  <2>1. PICK k \in Kinds, b \in Intervals \cup {Empty} :
           /\ job[r] = NoJob /\ pc[r] = "idle" /\ pc'[r] = "stat"
           /\ op'[r] = [kind |-> k, mode |-> "Overwrite", body |-> b]
           /\ next'[r] = b[1] /\ UNCHANGED <<disk, lock, background, exists, fd, ranges, current>>
           /\ \A q \in Requests \ {r} : Untouched(q) /\ job'[q] = job[q] /\ outcome'[q] = outcome[q]
           /\ job'[r] = [kind |-> k, body |-> b] /\ outcome'[r] = "pending"
           /\ k \in {"probe", "final"} => b = Empty
    BY <1>1, SendFrame
  <2>2. UNCHANGED <<phase, received, acked, temp, target, sidecar>>
    BY <1>1, <2>1 DEF SendProbe, SendBlock, SendCommit, disk
  <2>3. FirstBlock(r)' = b[1]
    BY <2>1 DEF FirstBlock
  <2>4. BeliefAt(r)'
    BY <2>1, <2>3 DEF BeliefAt
  <2>5. ASSUME NEW q \in Requests \ {r} PROVE BeliefAt(q)'
    BY <2>1, <2>2, <2>5 DEF UploadInv, BeliefInv, BeliefAt, Untouched, FirstBlock
  <2> QED BY <2>2, <2>4, <2>5 DEF UploadInv, BeliefInv
<1>2. CASE (RoundSent \/ UploadAgain) /\ UNCHANGED <<vars, job, outcome>>
  <2>1. UNCHANGED <<temp, target, sidecar, pc, op, next>>
    BY <1>2 DEF vars, disk, handlers
  <2>2. received' \subseteq received
    BY <1>2 DEF RoundSent, UploadAgain
  <2>3. \A q \in Requests : BeliefAt(q)'
    BY <1>2, <2>1, <2>2 DEF UploadInv, BeliefInv, BeliefAt, FirstBlock
  <2>4. phase' \in {"commit", "probe"} /\ acked' = {}
    BY <1>2 DEF RoundSent, UploadAgain, Ended, UploadInv, BeliefInv
  <2> QED BY <2>3, <2>4 DEF BeliefInv
<1>3. ASSUME NEW r \in Requests, ResponseLost(r)
      PROVE  BeliefInv'
  <2>1. UNCHANGED <<temp, target, sidecar, pc, op, next, phase, received, acked, job>>
    BY <1>3 DEF ResponseLost, vars, disk, handlers
  <2>2. \A q \in Requests : outcome'[q] = "ok" => outcome[q] = "ok"
    BY <1>3 DEF ResponseLost, UploadTypeInv, UploadTypeOK
  <2> QED BY <2>1, <2>2 DEF UploadInv, BeliefInv, BeliefAt, FirstBlock
<1>4. CASE Landed /\ UNCHANGED client
  <2>1. UNCHANGED <<temp, target, sidecar, pc, op, next, phase, received, acked, job, outcome>>
    BY <1>4 DEF Landed, Land, handlers, client
  <2> QED BY <2>1 DEF UploadInv, BeliefInv, BeliefAt, FirstBlock
<1> QED BY <1>1, <1>2, <1>3, <1>4, BeliefAdvance, BeliefEnd, BeliefTaken, GentleStep, ClientSteps

-----------------------------------------------------------------------------
(* The invariant of a gentle system, and what follows from it.             *)
GentleInv == UploadTypeInv /\ SinksSerialized /\ UploadInv

LEMMA GentleInit == ASSUME UploadInit PROVE GentleInv
<1> USE DEF UploadInit, Init, ClientInit
<1>1. UploadTypeInv
  BY UploadInitTyped
<1>2. SinksSerialized /\ Undisturbed
  BY DEF SinksSerialized, Sink, Locked, Undisturbed
<1>3. Paired /\ Alone /\ Placed
  BY EmptyFacts DEF Paired, PairedAt, Alone, Placed, PlacedAt, NoOp, Storing, Publishing, Removing
<1>4. DiskInv
  BY DEF DiskInv, RecordInv, RecordAt, Storing, Publishing
<1>5. BeliefInv
  BY EmptyFacts DEF BeliefInv, BeliefAt
<1> QED BY <1>1, <1>2, <1>3, <1>4, <1>5 DEF GentleInv, UploadInv

LEMMA GentleNext == ASSUME Gentle, GentleInv, [UploadNext]_allVars PROVE GentleInv'
<1> USE DEF GentleInv
<1>1. UploadTypeInv' /\ SinksSerialized'
  BY UploadNextTyped, UploadSerialized
<1>2. CASE UploadNext
  BY <1>1, <1>2, UndisturbedKept, PairedKept, AloneKept, PlacedKept, DiskKept, BeliefKept DEF UploadInv
<1>3. CASE UNCHANGED allVars
  <2> USE DEF allVars, vars, client, disk, lock, handlers, background
  <2>1. Undisturbed' /\ Paired' /\ Alone' /\ Placed'
    BY <1>3 DEF UploadInv, Undisturbed, Paired, PairedAt, Alone, Placed, PlacedAt
  <2>2. DiskInv' /\ BeliefInv'
    BY <1>3 DEF UploadInv, DiskInv, RecordInv, RecordAt, Recording, Stored, BeliefInv, BeliefAt, FirstBlock
  <2> QED BY <1>1, <2>1, <2>2 DEF UploadInv
<1> QED BY <1>2, <1>3

THEOREM UploadInvariant == ASSUME Gentle PROVE UploadSpec => []GentleInv
<1>1. UploadInit => GentleInv
  BY GentleInit
<1>2. GentleInv /\ [UploadNext]_allVars => GentleInv'
  BY GentleNext
<1> QED BY <1>1, <1>2, PTL DEF UploadSpec

(* "The ranges recorded so far only cover fully written slices": whatever  *)
(* order the requests of a round are served and cut off in, the sidecar    *)
(* lists no block of the session temp that was not handed to the disk.     *)
THEOREM SidecarIsSound == ASSUME Gentle PROVE UploadSpec => []SidecarSound
<1>1. GentleInv => SidecarSound
  BY DEF GentleInv, UploadInv, DiskInv, RecordInv, SidecarSound
<1> QED BY <1>1, UploadInvariant, PTL

(* A missing middle block is never committed as a complete file, although  *)
(* the length check cannot see it and an empty sidecar passes for full     *)
(* coverage: a stored block is recorded before anybody can commit.         *)
THEOREM PublishedIsComplete == ASSUME Gentle PROVE UploadSpec => []PublishedComplete
<1>1. GentleInv => PublishedComplete
  BY DEF GentleInv, UploadInv, DiskInv, RecordInv, PublishedComplete
<1> QED BY <1>1, UploadInvariant, PTL

(* The no-ack happy path may trust its 201s: what the probe reported and   *)
(* what was acknowledged since stays recorded until the commit, which      *)
(* therefore need not ask again.                                           *)
THEOREM AcksAreKept == ASSUME Gentle PROVE UploadSpec => []AckedKept
<1>1. GentleInv => AckedKept
  BY DEF GentleInv, UploadInv, BeliefInv, AckedKept
<1> QED BY <1>1, UploadInvariant, PTL

(* An upload that reports success has published the whole file.            *)
THEOREM SuccessIsPublished == ASSUME Gentle PROVE UploadSpec => []DoneMeansPublished
<1>1. GentleInv => DoneMeansPublished
  BY DEF GentleInv, UploadInv, DiskInv, RecordInv, BeliefInv, DoneMeansPublished
<1> QED BY <1>1, UploadInvariant, PTL

(* A sink writes into the file its session's temp names: the temp is never *)
(* renamed, removed or replaced under an open FsSink.                      *)
THEOREM SinksAreFresh == ASSUME Gentle PROVE UploadSpec => []NoStaleSink
<1>1. GentleInv => NoStaleSink
  BY DEF GentleInv, UploadInv, DiskInv, RecordAt, NoStaleSink
<1> QED BY <1>1, UploadInvariant, PTL

-----------------------------------------------------------------------------
(* The upload implements AtomicUpload: a write gathers a block, a rename   *)
(* publishes, the first half of an abort discards, all else stutters.      *)
Parts == IF temp = None THEN {} ELSE Stored(temp)
Shown == IF target = None THEN "absent"
         ELSE IF Stored(target) = Blocks THEN "complete" ELSE "torn"

LEMMA ShownStays ==
  ASSUME GentleInv, GentleInv', target' = target
  PROVE  Shown' = Shown
<1>1. target # None => Stored(target) = Blocks /\ Stored(target)' = Blocks
  BY DEF GentleInv, UploadInv, DiskInv, RecordInv
<1> QED BY <1>1 DEF Shown

LEMMA FilesRest ==
  ASSUME GentleInv, GentleInv', UNCHANGED <<temp, target, data, inflight>>
  PROVE  UNCHANGED Promise!vars
<1>1. Parts' = Parts
  BY DEF Parts, Stored
<1> QED BY <1>1, ShownStays DEF Promise!vars, Parts, Shown

LEMMA StepIsAtomic ==
  ASSUME Gentle, GentleInv, GentleInv', [UploadNext]_allVars
  PROVE  [Promise!Next]_(Promise!vars)
<1> USE DEF GentleInv
<1>1. ASSUME NEW r \in Requests, SendProbe(r) \/ SendBlock(r) \/ SendCommit(r)
      PROVE  UNCHANGED <<temp, target, data, inflight>>
  BY <1>1, SendFrame DEF disk
<1>2. UNCHANGED vars => UNCHANGED <<temp, target, data, inflight>>
  BY DEF vars, disk
<1>3. ASSUME NEW r \in Requests, Stop(r) \/ AnswerProbe(r) \/ AnswerData(r)
      PROVE  UNCHANGED <<temp, target, data, inflight>>
  BY <1>3 DEF Stop, AnswerProbe, AnswerData, OpenFails, RenameFails, Forget, Disconnect, Unreached, disk
<1>4. ASSUME NEW r \in Requests,
             Stat(r) \/ OpenExisting(r) \/ Lock(r) \/ LoadRanges(r) \/ ReadRanges(r) \/ PersistRanges(r)
               \/ Verify(r) \/ RemoveSidecar(r) \/ Flush(r)
      PROVE  UNCHANGED <<temp, target, data, inflight>>
  BY <1>4 DEF Stat, OpenExisting, Lock, LoadRanges, ReadRanges, PersistRanges, Verify, RemoveSidecar, Flush, disk
<1>5. ASSUME NEW r \in Requests, Create(r)
      PROVE  UNCHANGED Promise!vars
  <2>1. PICK i \in Inodes :
          Unreferenced(i) /\ temp' = i /\ data' = [data EXCEPT ![i] = {}] /\ UNCHANGED <<target, inflight>>
    BY <1>5 DEF Create
  <2>2. Stored(temp)' = {} /\ temp = None
    BY <1>5, <2>1, DiskTypes DEF Create, Stored, Unreferenced
  <2>3. Parts' = Parts /\ Shown' = Shown
    BY <2>1, <2>2, ShownStays DEF Parts
  <2> QED BY <2>3 DEF Promise!vars, Parts, Shown
<1>6. ASSUME NEW r \in Requests, Write(r)
      PROVE  Promise!Next
  <2>1. fd[r] = temp /\ temp # None
    BY <1>6, SinkFile DEF Write, Locked
  <2>2. inflight' = inflight \cup {<<temp, next[r]>>} /\ UNCHANGED <<temp, target, data>>
    BY <1>6, <2>1 DEF Write
  <2>3. next[r] \in Blocks
    <3>1. next[r] \in Nat /\ FirstBlock(r) \in Nat /\ LastBlock(r) \in Nat
      BY OpFields, DiskTypes DEF HandlerTypes, FirstBlock, LastBlock
    <3> QED BY <1>6, <3>1, BlocksAssumption DEF Write, UploadTypeInv, TypeInv, BodyInRange, Blocks
  <2>4. Parts' = Parts \cup {next[r]} /\ Shown' = Shown
    BY <2>1, <2>2, <2>3, ShownStays DEF Parts, Stored
  <2>5. Promise!Gather
    BY <2>3, <2>4 DEF Promise!Gather, Parts, Shown
  <2> QED BY <2>5 DEF Promise!Next
<1>7. ASSUME NEW r \in Requests, RemoveTemp(r)
      PROVE  Promise!Next
  <2>1. Parts' = {} /\ Shown' = Shown
    BY <1>7, ShownStays DEF RemoveTemp, Parts
  <2>2. Promise!Discard
    BY <2>1 DEF Promise!Discard, Parts, Shown
  <2> QED BY <2>2 DEF Promise!Next
<1>8. ASSUME NEW r \in Requests, Rename(r)
      PROVE  Promise!Next
  <2>1. pc[r] = "rename" /\ temp # None /\ target' = temp /\ temp' = None /\ UNCHANGED <<data, inflight>>
    BY <1>8 DEF Rename
  <2>2. Stored(temp) = Blocks
    BY <2>1 DEF UploadInv, DiskInv, RecordAt, Publishing
  <2>3. Stored(target)' = Blocks
    BY <2>1, <2>2 DEF Stored
  <2>4. Parts = Blocks /\ Parts' = {} /\ Shown' = "complete"
    BY <2>1, <2>2, <2>3 DEF Parts, Shown
  <2>5. Promise!Publish
    BY <2>4 DEF Promise!Publish, Parts, Shown
  <2> QED BY <2>5 DEF Promise!Next
<1>9. CASE Landed
  <2>1. UNCHANGED <<temp, target>>
    BY <1>9 DEF Landed, Land
  <2>2. temp # None => Stored(temp)' = Stored(temp)
    BY <1>9, LandStored
  <2>3. Parts' = Parts /\ Shown' = Shown
    BY <2>1, <2>2, ShownStays DEF Parts
  <2> QED BY <2>3 DEF Promise!vars, Parts, Shown
<1>10. CASE UNCHANGED allVars
  BY <1>2, <1>10, FilesRest DEF allVars
<1>11. ASSUME NEW r \in Requests, Advance(r)
       PROVE  [Promise!Next]_(Promise!vars)
  BY <1>4, <1>5, <1>6, <1>7, <1>11, FilesRest DEF Advance
<1>12. ASSUME NEW r \in Requests, Answered(r) \/ Stop(r) \/ ResponseLost(r)
       PROVE  [Promise!Next]_(Promise!vars)
  BY <1>2, <1>3, <1>8, <1>12, FilesRest DEF Answered, ResponseLost
<1>13. CASE ClientStep \/ UploadAgain
  BY <1>1, <1>2, <1>13, FilesRest, ClientSteps, TakenSteps DEF Taken
<1> QED BY <1>9, <1>10, <1>11, <1>12, <1>13, GentleStep

(* "A failed or aborted upload leaves no partial target behind", and a     *)
(* target, once there, is only ever replaced by a complete file: every     *)
(* behaviour of the client, the network and the handlers is one of         *)
(* AtomicUpload's.                                                         *)
THEOREM ImplementsAtomicUpload == ASSUME Gentle PROVE UploadSpec => UploadIsAtomic
<1>1. UploadInit => Promise!Init
  BY DEF UploadInit, Init, Promise!Init
<1>2. GentleInv /\ GentleInv' /\ [UploadNext]_allVars => [Promise!Next]_(Promise!vars)
  BY StepIsAtomic
<1>3. UploadSpec => []GentleInv
  BY UploadInvariant
<1> QED BY <1>1, <1>2, <1>3, PTL DEF UploadSpec, UploadIsAtomic, Promise!Spec

-----------------------------------------------------------------------------
(* One request at a time: nothing is assumed of the faults but that no     *)
(* disk operation outlives its handler.                                    *)
Sequential == (\A q, r \in Requests : q = r) /\ "detach" \notin Faults

(* The server's side: the one handler has the session's temp open, unless  *)
(* the sweeper has taken it away, and has removed the sidecar before it    *)
(* publishes.                                                              *)
AloneAt(r) ==
  /\ fd[r] = None \/ temp = None \/ fd[r] = temp
  /\ pc[r] = "answer" => op[r].kind = "probe"
  /\ pc[r] \in {"flush", "recheck", "rename"} => sidecar = {}

LoneHandler ==
  /\ detached = {}
  /\ \A r \in Requests : AloneAt(r)
  /\ target # None => FullLength(target)

(* The client's side: an answer comes from the handler of the request it   *)
(* waits for, and a successful commit has left nothing behind.             *)
AwaitedAt(r) ==
  /\ pc[r] # "idle" /\ Heard(r) => job[r].kind = op[r].kind
  /\ outcome[r] = "ok" => pc[r] = "idle"
  /\ outcome[r] = "ok" /\ job[r].kind = "final" => temp = None /\ sidecar = {}
  /\ phase = "done" => pc[r] = "idle"

LoneClient ==
  /\ \A r \in Requests : AwaitedAt(r)
  /\ phase = "done" => temp = None /\ sidecar = {}

SequentialInv == UploadTypeInv /\ VerifiedStaysFull /\ LoneHandler /\ LoneClient

LEMMA FullKept ==
  ASSUME UploadTypeInv, VerifiedStaysFull, [UploadNext]_allVars
  PROVE  VerifiedStaysFull'
<1>0. HandlerTypes
  BY DiskTypes
<1>1. CASE [Next]_vars
  BY <1>1, NextFull DEF FullInv, UploadTypeInv
<1>2. CASE Arrived \/ LostBefore
  <2>1. UNCHANGED disk
    BY <1>2 DEF Arrived, Arrive, LostBefore
  <2>2. ASSUME NEW q \in Requests, pc'[q] \in {"unlist", "flush", "recheck", "rename"}
        PROVE  pc[q] = pc'[q] /\ fd'[q] = fd[q]
    <3>1. CASE Arrived
      BY <1>0, <2>2, <3>1 DEF Arrived, Arrive, Goto, HandlerTypes
    <3>2. CASE LostBefore
      BY <1>0, <2>2, <3>2 DEF LostBefore, Finish, Goto, HandlerTypes
    <3> QED BY <1>2, <3>1, <3>2
  <2> QED BY <2>1, <2>2 DEF VerifiedStaysFull, FullLength, disk
<1> QED BY <1>1, <1>2, StoreStep

(* A handler's step, as seen by the files it is alone with.                *)
LEMMA LoneStep ==
  ASSUME Sequential, SequentialInv, NEW r \in Requests, Handle(r) \/ Fault(r)
  PROVE  LoneHandler'
<1> USE DEF SequentialInv
<1>0. HandlerTypes /\ temp \in Inodes \cup {None} /\ target \in Inodes \cup {None}
      /\ data \in [Inodes -> SUBSET Blocks]
  BY DiskTypes
<1>1. AloneAt(r) /\ \A q \in Requests : q = r
  BY SMTT(60) DEF Sequential, LoneHandler
<1>2. detached' = {}
  BY DEF Sequential, LoneHandler, background, Handle, Fault, Stat, Open, CheckTarget, OpenExisting, Create,
     OpenFails, Lock, LoadRanges, AnswerProbe, Body, Write, ReadRanges, PersistRanges, AnswerData, Commit, Verify,
     RemoveSidecar, Flush, Recheck, RefuseCreate, Rename, RenameFails, Abort, RemoveTemp, Forget,
     Disconnect, Reject, Cancel, WriteFails, FlushFails
<1>3. CASE Finish(r)
  <2>1. pc'[r] = "idle" /\ fd'[r] = None
    BY <1>0, <1>3 DEF Finish, Goto, HandlerTypes
  <2>2. AloneAt(r)'
    BY <2>1 DEF AloneAt
  <2>3. CASE Rename(r)
    <3>1. pc[r] = "rename" /\ temp # None /\ target' = temp /\ data' = data
      BY <2>3 DEF Rename
    <3>2. fd[r] = temp
      BY <1>1, <3>1, NoneAssumption DEF AloneAt, UploadTypeInv, TypeInv, FileOpen, Opened, Locked
    <3>3. FullLength(target)'
      BY <3>1, <3>2 DEF VerifiedStaysFull, FullLength
    <3> QED BY <1>1, <1>2, <2>2, <3>3 DEF LoneHandler
  <2>4. CASE ~Rename(r)
    <3>1. ~Create(r)
      BY <1>0, <2>1, SMTT(60) DEF Create, Goto, HandlerTypes
    <3>2. UNCHANGED <<target, data>>
      BY <2>4, <3>1 DEF disk, Handle, Fault, Stat, Open, CheckTarget, OpenExisting, OpenFails,
         Lock, LoadRanges, AnswerProbe, Body, Write, ReadRanges, PersistRanges, AnswerData, Commit, Verify,
         RemoveSidecar, Flush, Recheck, RefuseCreate, RenameFails, Abort, RemoveTemp, Forget,
         Disconnect, Reject, Cancel, WriteFails, FlushFails
    <3> QED BY <1>1, <1>2, <2>2, <3>2 DEF LoneHandler, FullLength
  <2> QED BY <2>3, <2>4
<1>4. ASSUME UNCHANGED <<target, data>>, AloneAt(r)'
      PROVE  LoneHandler'
  BY <1>1, <1>2, <1>4 DEF LoneHandler, FullLength
<1>5. CASE Stat(r) \/ CheckTarget(r) \/ OpenExisting(r) \/ Lock(r)
  <2>1. UNCHANGED disk /\ pc'[r] \in {"check", "open", "lock", "wait"} /\ fd'[r] \in {fd[r], temp}
    BY <1>0, <1>5 DEF Stat, CheckTarget, OpenExisting, Lock, Goto, HandlerTypes
  <2> QED BY <1>1, <1>4, <2>1 DEF AloneAt, disk
<1>6. CASE Create(r)
  <2>1. PICK i \in Inodes :
          /\ Unreferenced(i) /\ temp' = i /\ data' = [data EXCEPT ![i] = {}] /\ fd' = [fd EXCEPT ![r] = i]
          /\ pc'[r] = "lock" /\ target' = target
    BY <1>0, <1>6 DEF Create, Goto, HandlerTypes
  <2>2. AloneAt(r)'
    BY <1>0, <2>1 DEF AloneAt, HandlerTypes
  <2>3. target # None => FullLength(target)'
    BY <1>0, <2>1 DEF LoneHandler, FullLength, Unreferenced
  <2> QED BY <1>1, <1>2, <2>1, <2>2, <2>3 DEF LoneHandler
<1>7. CASE LoadRanges(r) \/ Write(r) \/ ReadRanges(r) \/ PersistRanges(r) \/ Verify(r) \/ RemoveTemp(r)
             \/ RemoveSidecar(r) \/ Flush(r) \/ Recheck(r) \/ Reject(r) \/ WriteFails(r)
  <2>1. UNCHANGED <<target, data, fd, op>> /\ temp' \in {temp, None}
    BY <1>7 DEF LoadRanges, Write, ReadRanges, PersistRanges, Verify, RemoveTemp, RemoveSidecar, Flush,
       Recheck, Reject, WriteFails, disk
  <2>2. pc'[r] = "answer" => op[r].kind = "probe"
    BY <1>0, <1>7 DEF LoadRanges, Write, ReadRanges, PersistRanges, Verify, RemoveTemp, RemoveSidecar, Flush,
       Recheck, Reject, WriteFails, Goto, HandlerTypes
  <2>3. pc'[r] \in {"flush", "recheck", "rename"} => sidecar' = {}
    BY <1>0, <1>1, <1>7 DEF LoadRanges, Write, ReadRanges, PersistRanges, Verify, RemoveTemp, RemoveSidecar,
       Flush, Recheck, Reject, WriteFails, Goto, HandlerTypes, AloneAt, disk
  <2> QED BY <1>1, <1>4, <2>1, <2>2, <2>3 DEF AloneAt
<1>8. ~Finish(r) => \/ Stat(r) \/ CheckTarget(r) \/ OpenExisting(r) \/ Lock(r) \/ Create(r)
                    \/ LoadRanges(r) \/ Write(r) \/ ReadRanges(r) \/ PersistRanges(r) \/ Verify(r)
                    \/ RemoveTemp(r) \/ RemoveSidecar(r) \/ Flush(r) \/ Recheck(r) \/ Reject(r)
                    \/ WriteFails(r)
  BY DEF Handle, Fault, Open, OpenFails, AnswerProbe, Body, AnswerData, Commit, RefuseCreate, Rename,
     RenameFails, Abort, Forget, Disconnect, Cancel, FlushFails
<1> QED BY <1>3, <1>5, <1>6, <1>7, <1>8

LEMMA LoneHandlerKept ==
  ASSUME Sequential, SequentialInv, [UploadNext]_allVars
  PROVE  LoneHandler'
<1> USE DEF SequentialInv
<1>0. HandlerTypes /\ temp \in Inodes \cup {None} /\ target \in Inodes \cup {None}
      /\ data \in [Inodes -> SUBSET Blocks]
  BY DiskTypes
<1>1. CASE Arrived \/ LostBefore
  <2>1. PICK r \in Requests :
          /\ UNCHANGED <<temp, target, sidecar, data, detached>>
          /\ pc'[r] \in {"stat", "idle"} /\ fd'[r] \in {fd[r], None}
    <3>1. CASE Arrived
      BY <1>0, <3>1 DEF Arrived, Arrive, Goto, HandlerTypes, disk, background
    <3>2. CASE LostBefore
      BY <1>0, <3>2 DEF LostBefore, Finish, Goto, HandlerTypes, disk, background
    <3> QED BY <1>1, <3>1, <3>2
  <2>2. AloneAt(r)'
    BY <2>1 DEF LoneHandler, AloneAt
  <2> QED BY <2>1, <2>2 DEF Sequential, LoneHandler, FullLength
<1>2. CASE Next
  <2>1. ASSUME NEW r \in Requests, Handle(r) \/ Fault(r)
        PROVE  LoneHandler'
    BY <2>1, LoneStep
  <2>2. ASSUME NEW r \in Requests, Arrival(r)
        PROVE  LoneHandler'
    <3>1. /\ UNCHANGED <<temp, target, sidecar, data, detached, fd>> /\ pc'[r] = "stat"
      BY <1>0, <2>2 DEF Arrival, Arrive, Goto, HandlerTypes, disk, background
    <3>2. AloneAt(r)'
      BY <3>1 DEF LoneHandler, AloneAt
    <3> QED BY <3>1, <3>2 DEF Sequential, LoneHandler, FullLength
  <2>3. CASE Landing
    <3>1. /\ UNCHANGED <<temp, target, sidecar, handlers, detached>>
          /\ \A j \in Inodes : data[j] \subseteq data'[j]
      BY <1>0, <2>3 DEF Landing, Land, LandFails, background
    <3>2. target # None => FullLength(target)'
      BY <1>0, <3>1 DEF LoneHandler, FullLength
    <3> QED BY <3>1, <3>2 DEF LoneHandler, AloneAt, handlers
  <2>4. CASE Crash
    <3>1. /\ detached' = {} /\ UNCHANGED <<temp, target, sidecar, data>>
          /\ \A q \in Requests : pc'[q] = "idle" /\ fd'[q] = None
      BY <2>4 DEF Crash
    <3> QED BY <3>1 DEF LoneHandler, AloneAt, FullLength
  <2>5. CASE Sweep
    <3>1. /\ UNCHANGED <<target, data, handlers, detached>>
          /\ sidecar' \in {sidecar, {}} /\ temp' \in {temp, None}
      BY <2>5 DEF Sweep, SweepPick, SweepSidecar, SweepTemp, SweepOrphan, disk, background
    <3> QED BY <3>1 DEF LoneHandler, AloneAt, FullLength, handlers
  <2>6. ~LandDetached
    BY DEF LoneHandler, LandDetached
  <2> QED BY <1>2, <2>1, <2>2, <2>3, <2>4, <2>5, <2>6 DEF Next, BlockingPool
<1>3. CASE UNCHANGED vars
  BY <1>3 DEF LoneHandler, AloneAt, FullLength, vars, disk, handlers, background
<1> QED BY <1>1, <1>2, <1>3, StoreStep

LEMMA LoneClientKept ==
  ASSUME Sequential, SequentialInv, [UploadNext]_allVars
  PROVE  LoneClient'
<1> USE DEF SequentialInv
<1>0. HandlerTypes /\ outcome \in [Requests -> {"pending", "ok", "failed"}]
  BY DiskTypes DEF UploadTypeInv, UploadTypeOK
<1>1. ASSUME NEW r \in Requests, SendProbe(r) \/ SendBlock(r) \/ SendCommit(r)
      PROVE  LoneClient'
  <2>1. PICK k \in Kinds, b \in Intervals \cup {Empty} :
           /\ op'[r] = [kind |-> k, mode |-> "Overwrite", body |-> b]
           /\ \A q \in Requests \ {r} : Untouched(q) /\ job'[q] = job[q] /\ outcome'[q] = outcome[q]
           /\ job'[r] = [kind |-> k, body |-> b] /\ outcome'[r] = "pending"
    BY <1>1, SendFrame
  <2>2. phase' # "done"
    BY <1>1 DEF SendProbe, SendBlock, SendCommit, Committing
  <2>3. AwaitedAt(r)'
    BY <2>1, <2>2 DEF AwaitedAt
  <2> QED BY <2>2, <2>3 DEF Sequential, LoneClient
<1>2. ASSUME NEW r \in Requests,
             PlanRound(r) \/ LastProbed(r) \/ ProbeFailed(r) \/ BlockDone(r) \/ BlockFailed(r)
               \/ Committed(r) \/ RetryCommit(r) \/ CommitFailed(r)
      PROVE  LoneClient'
  <2>1. Taken(r) /\ UNCHANGED <<temp, sidecar, pc>>
    BY <1>2, TakenSteps DEF Taken, vars, disk, handlers
  <2>2. phase' = "done" => phase = "done" \/ (job[r].kind = "final" /\ outcome[r] = "ok")
    BY <1>2 DEF PlanRound, LastProbed, ProbeFailed, BlockDone, BlockFailed, Committed, RetryCommit,
       CommitFailed, Receive
  <2>3. phase' = "done" => pc'[r] = "idle" /\ temp' = None /\ sidecar' = {}
    BY <2>1, <2>2 DEF LoneClient, AwaitedAt
  <2>4. AwaitedAt(r)'
    BY <2>1, <2>3 DEF Taken, AwaitedAt, Heard
  <2> QED BY <2>3, <2>4 DEF Sequential, LoneClient
<1>3. CASE (RoundSent \/ UploadAgain) /\ UNCHANGED <<vars, job, outcome>>
  <2>1. UNCHANGED <<temp, sidecar, pc, op, job, outcome>>
    BY <1>3 DEF vars, disk, handlers
  <2>2. phase' # "done"
    BY <1>3 DEF RoundSent, UploadAgain
  <2> QED BY <2>1, <2>2 DEF LoneClient, AwaitedAt, Heard
<1>4. ASSUME NEW r \in Requests, Answered(r) \/ Failed(r) \/ RequestLost(r)
      PROVE  LoneClient'
  <2>1. Finish(r) /\ pc[r] # "idle"
    BY <1>4 DEF Answered, Failed, RequestLost, AnswerProbe, AnswerData, Rename, OpenFails, RefuseCreate,
       RenameFails, Forget, Disconnect, Cancel, FlushFails
  <2>2. PICK how \in {"ok", "failed"} : Reply(r, how)
    BY <1>4 DEF Answered, Failed, RequestLost
  <2>3. pc'[r] = "idle" /\ phase' = phase /\ phase # "done" /\ job' = job
    BY <2>1, <2>2, FinishFrame DEF Ends, Reply, LoneClient, AwaitedAt
  <2>4. outcome'[r] = "ok" /\ job[r].kind = "final" => temp' = None /\ sidecar' = {}
    <3> SUFFICES ASSUME outcome'[r] = "ok", job[r].kind = "final"
                 PROVE  temp' = None /\ sidecar' = {}
      OBVIOUS
    <3>1. outcome[r] # "ok"
      BY <2>1 DEF LoneClient, AwaitedAt
    <3>2. Heard(r) /\ how = "ok"
      BY <1>0, <2>2, <3>1 DEF Reply
    <3>3. op[r].kind = "final"
      BY <2>1, <3>2 DEF LoneClient, AwaitedAt
    <3>4. ~AnswerProbe(r) /\ ~AnswerData(r)
      BY <3>3 DEF AnswerProbe, AnswerData, LoneHandler, AloneAt
    <3>5. ~Reply(r, "failed")
      BY <1>0, <3>2 DEF Reply
    <3>6. Rename(r)
      BY <1>4, <3>4, <3>5 DEF Answered, Failed, RequestLost
    <3> QED BY <3>6 DEF Rename, LoneHandler, AloneAt
  <2>5. AwaitedAt(r)'
    BY <2>3, <2>4 DEF AwaitedAt
  <2> QED BY <2>3, <2>5 DEF Sequential, LoneClient
<1>5. ASSUME NEW r \in Requests, Working(r)
      PROVE  LoneClient'
  <2>1. pc[r] # "idle" /\ op' = op /\ UNCHANGED client
    BY <1>5 DEF Working, Stat, CheckTarget, OpenExisting, Create, Lock, LoadRanges, Write, ReadRanges,
       PersistRanges, Verify, RemoveSidecar, Flush, Recheck, RemoveTemp, Reject, WriteFails
  <2>2. outcome[r] # "ok" /\ phase # "done"
    BY <2>1 DEF LoneClient, AwaitedAt
  <2>3. AwaitedAt(r)'
    BY <2>1, <2>2 DEF client, LoneClient, AwaitedAt, Heard
  <2> QED BY <2>1, <2>2, <2>3 DEF Sequential, LoneClient, client
<1>6. ASSUME NEW r \in Requests, ResponseLost(r) \/ Abandon(r)
      PROVE  LoneClient'
  <2>1. UNCHANGED <<temp, sidecar, pc, phase, job, op>>
    BY <1>6 DEF ResponseLost, Abandon, Reply, vars, disk, handlers
  <2>2. outcome'[r] = "failed"
    BY <1>0, <1>6 DEF ResponseLost, Abandon, Reply
  <2>3. AwaitedAt(r)'
    BY <2>1, <2>2 DEF LoneClient, AwaitedAt, Heard
  <2> QED BY <2>1, <2>3 DEF Sequential, LoneClient
<1>7. CASE (BlockingPool \/ Sweep) /\ UNCHANGED client
  <2>1. /\ UNCHANGED <<pc, op, phase, job, outcome>>
        /\ sidecar' \in {sidecar, {}} /\ temp' \in {temp, None}
    BY <1>7 DEF BlockingPool, Landing, Land, LandFails, LandDetached, LoneHandler, Sweep, SweepPick, SweepSidecar,
       SweepTemp, SweepOrphan, disk, handlers, client
  <2> QED BY <2>1 DEF LoneClient, AwaitedAt, Heard
<1>8. CASE Crashed
  <2>1. /\ UNCHANGED <<temp, sidecar, phase, job>>
        /\ \A r \in Requests : pc'[r] = "idle" /\ (outcome'[r] = "ok" => outcome[r] = "ok")
    BY <1>8 DEF Crashed, Crash
  <2> QED BY <2>1 DEF LoneClient, AwaitedAt
<1>9. CASE UNCHANGED allVars
  BY <1>9 DEF allVars, vars, client, disk, handlers, LoneClient, AwaitedAt, Heard
<1> QED BY <1>1, <1>2, <1>3, <1>4, <1>5, <1>6, <1>7, <1>8, <1>9, ClientSteps DEF UploadNext

THEOREM SequentialInvariant == ASSUME Sequential PROVE UploadSpec => []SequentialInv
<1>1. UploadInit => SequentialInv
  <2> SUFFICES ASSUME UploadInit PROVE SequentialInv
    OBVIOUS
  <2>1. UploadTypeInv
    BY UploadInitTyped
  <2>2. VerifiedStaysFull /\ LoneHandler /\ LoneClient
    BY EmptyFacts DEF UploadInit, Init, ClientInit, VerifiedStaysFull, LoneHandler, AloneAt, LoneClient, AwaitedAt
  <2> QED BY <2>1, <2>2 DEF SequentialInv
<1>2. SequentialInv /\ [UploadNext]_allVars => SequentialInv'
  BY UploadNextTyped, FullKept, LoneHandlerKept, LoneClientKept DEF SequentialInv
<1> QED BY <1>1, <1>2, PTL DEF UploadSpec

(* What a commit publishes passed its length check as that very file, even *)
(* when handlers are cancelled, requests given up, the server crashes or   *)
(* cleanup_stale_sessions takes the temp away between the check and the    *)
(* rename.                                                                 *)
THEOREM PublishedIsFull == ASSUME Sequential PROVE UploadSpec => []PublishedFull
<1>1. SequentialInv => PublishedFull
  BY DEF SequentialInv, LoneHandler, PublishedFull
<1> QED BY <1>1, SequentialInvariant, PTL

(* A finished upload leaves neither temp nor sidecar for the next one,     *)
(* under the same faults: the commit removes the sidecar before it renames *)
(* the temp, and success is reported after both.                           *)
THEOREM NothingIsLeft == ASSUME Sequential PROVE UploadSpec => []NoLeftovers
<1>1. SequentialInv => NoLeftovers
  BY DEF SequentialInv, LoneClient, NoLeftovers
<1> QED BY <1>1, SequentialInvariant, PTL
=============================================================================
