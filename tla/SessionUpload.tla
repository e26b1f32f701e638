---------------------------- MODULE SessionUpload ----------------------------
(***************************************************************************)
(* One client uploading one file through a session, over a SessionStore:   *)
(* upload_session_resumable of the browser client, upload_session of the   *)
(* native one.  Both run the same rounds: probe, send the missing blocks   *)
(* concurrently with retries, commit without asking again; a failed commit *)
(* starts another round.  CommitRetries is what tells them apart.          *)
(***************************************************************************)
EXTENDS SessionStore

CONSTANTS
  ChunkSizes,     \* blocks in one client chunk: the sizes tuning may choose
  MaxRetries,     \* config.max_retries: of one block, and of rounds
  CommitRetries   \* of one commit: max_retries (browser) or 0 (native)

ASSUME ClientAssumption ==
  /\ ChunkSizes \subseteq Nat \ {0} /\ ChunkSizes # {}
  /\ MaxRetries \in Nat /\ CommitRetries \in Nat

VARIABLES
  phase,      \* where the client's loop is
  rounds,     \* rounds whose commit failed
  tries,      \* retries of the commit under way
  received,   \* blocks the last probe reported
  acked,      \* blocks acknowledged (201) in this round
  todo,       \* bodies of this round still to be sent (again)
  attempts,   \* attempts[b]: retries already spent on body b in this round
  job,        \* job[r]: what the client awaits from request r
  outcome     \* outcome[r]: "pending", or how the client saw r end

client == <<phase, rounds, tries, received, acked, todo, attempts, job, outcome>>
allVars == <<vars, client>>

Ended == {"done", "error"}
Committing == {"direct", "commit", "lastcommit"}
Empty == <<1, 0>>
Intervals == {b \in Blocks \X Blocks : b[1] <= b[2]}
NoJob == [kind |-> "none", body |-> Empty]

Chunk(b, size) == (b - 1) \div size

(* aligned_missing: in each chunk, the maximal runs of blocks not received. *)
AlignedMissing(have, size) ==
  LET runs == {b \in Intervals :
                 Chunk(b[1], size) = Chunk(b[2], size) /\ (b[1]..b[2]) \cap have = {}}
  IN  {b \in runs : \A c \in runs : c[1] <= b[1] /\ b[2] <= c[2] => c = b}

NoRetries == [b \in Intervals |-> 0]
Idle == {r \in Requests : pc[r] = "idle" /\ job[r] = NoJob}
Slot == IF Idle = {} THEN None ELSE CHOOSE r \in Idle : TRUE
Quiet == \A r \in Requests : job[r] = NoJob

ClientInit ==
  /\ phase = "probe" /\ rounds = 0 /\ tries = 0
  /\ received = {} /\ acked = {} /\ todo = {} /\ attempts = NoRetries
  /\ job = [r \in Requests |-> NoJob]
  /\ outcome = [r \in Requests |-> "pending"]

(* The client issues a request.  Both clients always send an offset header, *)
(* which selects Overwrite.                                                 *)
Send(r, kind, body) ==
  /\ job[r] = NoJob
  /\ Arrive(r, kind, "Overwrite", body)
  /\ job' = [job EXCEPT ![r] = [kind |-> kind, body |-> body]]
  /\ outcome' = [outcome EXCEPT ![r] = "pending"]

Receive(r, kind, how) ==
  /\ job[r].kind = kind /\ outcome[r] = how
  /\ job' = [job EXCEPT ![r] = NoJob]
  /\ outcome' = [outcome EXCEPT ![r] = "pending"]
  /\ UNCHANGED vars

(***************************************************************************)
(* Probing.                                                                *)
(***************************************************************************)
SendProbe(r) ==
  /\ phase \in {"probe", "lastprobe"} /\ Quiet /\ r = Slot
  /\ Send(r, "probe", Empty)
  /\ UNCHANGED <<phase, rounds, tries, received, acked, todo, attempts>>

(* The chunk size is read once a round: what an earlier round left half    *)
(* sent may be cut anew.                                                   *)
PlanRound(r) ==
  /\ phase = "probe"
  /\ Receive(r, "probe", "ok")
  /\ \E size \in ChunkSizes : todo' = AlignedMissing(received, size)
  /\ tries' = 0
  /\ phase' = IF todo' = {} THEN "direct" ELSE "send"
  /\ UNCHANGED <<rounds, received, acked, attempts>>

LastProbed(r) ==
  /\ phase = "lastprobe"
  /\ Receive(r, "probe", "ok")
  /\ tries' = 0
  /\ phase' = IF Blocks \subseteq received THEN "lastcommit" ELSE "error"
  /\ received' = {}
  /\ UNCHANGED <<rounds, acked, todo, attempts>>

ProbeFailed(r) ==
  /\ Receive(r, "probe", "failed")
  /\ phase' = "error" /\ received' = {}
  /\ UNCHANGED <<rounds, tries, acked, todo, attempts>>

(***************************************************************************)
(* Sending the missing blocks; a failed block is retried, then given up.   *)
(***************************************************************************)
SendBlock(r) ==
  /\ phase = "send"
  /\ \E b \in todo : Send(r, "data", b) /\ todo' = todo \ {b}
  /\ UNCHANGED <<phase, rounds, tries, received, acked, attempts>>

BlockDone(r) ==
  /\ Receive(r, "data", "ok")
  /\ acked' = acked \cup (job[r].body[1]..job[r].body[2])
  /\ UNCHANGED <<phase, rounds, tries, received, todo, attempts>>

BlockFailed(r) ==
  LET b == job[r].body IN
  /\ Receive(r, "data", "failed")
  /\ IF attempts[b] < MaxRetries
       THEN attempts' = [attempts EXCEPT ![b] = @ + 1] /\ todo' = todo \cup {b}
       ELSE UNCHANGED <<attempts, todo>>
  /\ UNCHANGED <<phase, rounds, tries, received, acked>>

RoundSent ==
  /\ phase = "send" /\ todo = {} /\ Quiet
  /\ phase' = "commit"
  /\ received' = {} /\ acked' = {} /\ attempts' = NoRetries
  /\ UNCHANGED <<vars, rounds, tries, todo, job, outcome>>

(***************************************************************************)
(* Committing.                                                             *)
(***************************************************************************)
SendCommit(r) ==
  /\ phase \in Committing /\ Quiet /\ r = Slot
  /\ Send(r, "final", Empty)
  /\ UNCHANGED <<phase, rounds, tries, received, acked, todo, attempts>>

Committed(r) ==
  /\ Receive(r, "final", "ok")
  /\ phase' = "done" /\ rounds' = 0 /\ tries' = 0 /\ received' = {}
  /\ UNCHANGED <<acked, todo, attempts>>

(* Broken on purpose: one retry too many.                                  *)
RetryOnceMore(r) ==
  /\ tries <= CommitRetries
  /\ Receive(r, "final", "failed")
  /\ tries' = tries + 1
  /\ UNCHANGED <<phase, rounds, received, acked, todo, attempts>>

RetryCommit(r) ==
  /\ tries < CommitRetries
  /\ Receive(r, "final", "failed")
  /\ tries' = tries + 1
  /\ UNCHANGED <<phase, rounds, received, acked, todo, attempts>>

(* Broken on purpose: failed rounds are not counted.                       *)
CommitFailedUncounted(r) ==
  /\ tries = CommitRetries
  /\ Receive(r, "final", "failed")
  /\ phase' = "probe"
  /\ tries' = 0 /\ received' = {}
  /\ UNCHANGED <<rounds, acked, todo, attempts>>

(* The commit is given up: a commit with nothing missing fails the upload  *)
(* once the rounds are used up, one after a round of sends still asks for  *)
(* a last probe, and the commit after that one is the last.                *)
CommitFailed(r) ==
  /\ tries = CommitRetries
  /\ Receive(r, "final", "failed")
  /\ \/ /\ phase = "lastcommit" \/ (phase = "direct" /\ rounds >= MaxRetries)
        /\ phase' = "error" /\ rounds' = 0
     \/ /\ phase = "direct" /\ rounds < MaxRetries
        /\ phase' = "probe" /\ rounds' = rounds + 1
     \/ /\ phase = "commit"
        /\ rounds' = rounds + 1
        /\ phase' = IF rounds' > MaxRetries THEN "lastprobe" ELSE "probe"
  /\ tries' = 0 /\ received' = {}
  /\ UNCHANGED <<acked, todo, attempts>>

(* The user starts the same upload again, to resume or to replace it.      *)
UploadAgain ==
  /\ phase \in Ended
  /\ phase' = "probe" /\ rounds' = 0
  /\ UNCHANGED <<vars, tries, received, acked, todo, attempts, job, outcome>>

(***************************************************************************)
(* The server's steps, and what the client hears of them.                  *)
(***************************************************************************)
Heard(r) == job[r] # NoJob /\ outcome[r] = "pending"

Reply(r, how) ==
  /\ outcome' = IF Heard(r) THEN [outcome EXCEPT ![r] = how] ELSE outcome
  /\ UNCHANGED <<phase, rounds, tries, acked, todo, attempts, job>>

Answered(r) ==
  \/ AnswerProbe(r) /\ Reply(r, "ok") /\ received' = IF Heard(r) THEN ranges[r] ELSE received
  \/ (AnswerData(r) \/ Rename(r)) /\ Reply(r, "ok") /\ UNCHANGED received

Failed(r) ==
  /\ \/ OpenFails(r) \/ RefuseCreate(r) \/ RenameFails(r) \/ Forget(r)
     \/ Disconnect(r) \/ Cancel(r) \/ FlushFails(r)
  /\ Reply(r, "failed") /\ UNCHANGED received

Working(r) ==
  /\ \/ Stat(r) \/ CheckTarget(r) \/ OpenExisting(r) \/ Create(r) \/ Lock(r) \/ LoadRanges(r)
     \/ Write(r) \/ ReadRanges(r) \/ PersistRanges(r)
     \/ Verify(r) \/ RemoveSidecar(r) \/ Flush(r) \/ Recheck(r) \/ RemoveTemp(r)
     \/ Reject(r) \/ WriteFails(r)
  /\ UNCHANGED client

(* A request that never reaches the handler, a response that never reaches *)
(* the client: both look like a network error.                             *)
RequestLost(r) ==
  /\ "lost" \in Faults
  /\ pc[r] = "stat"
  /\ Finish(r)
  /\ Reply(r, "failed") /\ UNCHANGED <<disk, lock, background, received>>

ResponseLost(r) ==
  /\ "lost" \in Faults
  /\ outcome[r] = "ok" /\ outcome' = [outcome EXCEPT ![r] = "failed"]
  /\ UNCHANGED <<vars, phase, rounds, tries, received, acked, todo, attempts, job>>

(* No progress for the client's timeout: it gives the request up, while    *)
(* the handler goes on.                                                    *)
Abandon(r) ==
  /\ "timeout" \in Faults
  /\ pc[r] # "idle" /\ Heard(r) /\ Reply(r, "failed")
  /\ UNCHANGED <<vars, received>>

Crashed ==
  /\ Crash
  /\ outcome' = [r \in Requests |-> IF pc[r] # "idle" /\ Heard(r) THEN "failed" ELSE outcome[r]]
  /\ UNCHANGED <<phase, rounds, tries, received, acked, todo, attempts, job>>

ClientStep ==
  \/ RoundSent
  \/ \E r \in Requests :
       \/ SendProbe(r) \/ PlanRound(r) \/ LastProbed(r) \/ ProbeFailed(r)
       \/ SendBlock(r) \/ BlockDone(r) \/ BlockFailed(r)
       \/ SendCommit(r) \/ Committed(r) \/ RetryCommit(r) \/ CommitFailed(r)

UploadInit == Init /\ ClientInit

UploadNext ==
  \/ ClientStep \/ UploadAgain
  \/ \E r \in Requests :
       Answered(r) \/ Failed(r) \/ Working(r) \/ RequestLost(r) \/ ResponseLost(r) \/ Abandon(r)
  \/ BlockingPool /\ UNCHANGED client
  \/ Crashed
  \/ Sweep /\ UNCHANGED client

UploadSpec == UploadInit /\ [][UploadNext]_allVars

(* The client's event loop, the handlers and the blocking pool go on       *)
(* whenever they can; faults and a new upload need not happen.             *)
Fairness ==
  /\ WF_allVars(ClientStep)
  /\ \A r \in Requests : WF_allVars(Answered(r) \/ Failed(r) \/ Working(r))
  /\ WF_allVars(BlockingPool /\ UNCHANGED client)

FairUploadSpec == UploadSpec /\ Fairness

(***************************************************************************)
(* Properties.  They hold when nothing aborts or drops a sink beside other *)
(* sinks of the session: bodies may break off and messages may get lost,   *)
(* but no handler is cancelled between a write and its record, no body is  *)
(* rejected, no write fails, no request is given up while its handler goes *)
(* on, and the server neither crashes nor sweeps the temp.  PublishedFull, *)
(* NoLeftovers and Terminates need none of that where one request is       *)
(* served at a time.                                                       *)
(***************************************************************************)

(* What inode i holds, or will once the blocking pool has caught up.       *)
Stored(i) == data[i] \cup {b \in Blocks : <<i, b>> \in inflight}

UploadTypeOK ==
  /\ TypeOK
  /\ phase \in Ended \cup Committing \cup {"probe", "lastprobe", "send"}
  /\ rounds \in 0..(MaxRetries + 1) /\ tries \in 0..CommitRetries
  /\ received \in SUBSET Blocks /\ acked \in SUBSET Blocks
  /\ todo \in SUBSET Intervals /\ attempts \in [Intervals -> 0..MaxRetries]
  /\ job \in [Requests -> [kind : Kinds \cup {"none"}, body : Nat \X Nat]]
  /\ outcome \in [Requests -> {"pending", "ok", "failed"}]

(* Every live sink writes into the file the session temp names now: no     *)
(* request is left holding a removed, renamed or replaced temp, but the one that   *)
(* is removing it.                                                         *)
NoStaleSink == \A r \in Requests : fd[r] # None => fd[r] = temp \/ pc[r] = "forget"

(* "The ranges recorded so far only cover fully written slices", up to     *)
(* what the blocking pool still has to write.                              *)
SidecarSound == temp # None => sidecar \subseteq Stored(temp)

(* A missing middle block is never committed as a complete file.           *)
PublishedComplete == target # None => Stored(target) = Blocks

(* The no-ack happy path may trust its 201s: while a round sends, all the  *)
(* client believes to be on the server is recorded there.                  *)
AckedKept == phase = "send" => (received \cup acked) \subseteq sidecar

(* An upload that reports success has published the whole file.            *)
DoneMeansPublished == phase = "done" => target # None /\ Stored(target) = Blocks

(* What a commit publishes passed its length check as that very file, even *)
(* when handlers are cancelled, the server crashes or the sweeper runs.    *)
PublishedFull == target # None => FullLength(target)

(* A finished upload leaves neither temp nor sidecar for the next one.     *)
NoLeftovers == phase = "done" => temp = None /\ sidecar = {}

(* Bounded retries: every upload ends, in success or in an error.          *)
Terminates == phase = "probe" ~> phase \in Ended

(* The upload implements AtomicUpload: the temp's blocks are the parts, and *)
(* a target with a hole would be a file AtomicUpload does not know.         *)
Promise == INSTANCE AtomicUpload WITH
  parts <- IF temp = None THEN {} ELSE Stored(temp),
  file  <- IF target = None THEN "absent"
           ELSE IF Stored(target) = Blocks THEN "complete" ELSE "torn"

UploadIsAtomic == Promise!Spec
=============================================================================
