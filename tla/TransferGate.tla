---------------------------- MODULE TransferGate ----------------------------
(***************************************************************************)
(* What every request of the browser client passes before it is sent: the  *)
(* task's pause and cancel flags (TaskControl::wait_ready, check) and the  *)
(* pool of permits (Semaphore), whose size the tuning engine changes while *)
(* requests hold some.  Block uploads, commits and range downloads share   *)
(* one loop: pass the gate, take a permit, send, give the permit back, and *)
(* on failure wait and begin again.  A request that fails for good leaves  *)
(* the rest of its batch alone; the error of its file ends the transfer    *)
(* and drops whatever other files have under way.                          *)
(*                                                                         *)
(* All of it runs on one event loop.  A poll that is owed to a request is  *)
(* a microtask, and clicks, timers and the network are tasks, which run    *)
(* only when no microtask is left.  wait_ready yields by awaiting a        *)
(* resolved promise, so a paused request is owed its next poll at once: it *)
(* stays ready.                                                            *)
(***************************************************************************)
EXTENDS Integers, FiniteSets

CONSTANTS
  Requests,      \* the batches under way at once, of all files
  Budgets,       \* request_budget() of the parameters tuning may choose
  MaxRetries     \* config.max_retries

ASSUME RequestsAssumption == IsFiniteSet(Requests) /\ Requests # {}
ASSUME BudgetsAssumption == Budgets \subseteq Nat \ {0} /\ Budgets # {}
ASSUME RetriesAssumption == MaxRetries \in Nat

VARIABLES
  transfer,      \* where the transfer's outermost future is
  mode,          \* TaskControl.state; downloading and uploading are "running"
  cancelled,     \* TaskControl.cancelled
  max,           \* Semaphore.max
  available,     \* Semaphore.available
  waiters,       \* requests whose waker is in Semaphore.waiters
  ready,         \* requests owed a poll
  pc,            \* where each request is in its loop
  retries        \* attempts already repeated

control == <<mode, cancelled>>
pool    == <<max, available, waiters>>
loop    == <<ready, pc, retries>>
vars    == <<transfer, control, pool, loop>>

MinOf(a, b) == IF a <= b THEN a ELSE b
Sending == {k \in Requests : pc[k] = "sending"}
NoRequests == [k \in Requests |-> "none"]

(* The event loop may take its next task.                                  *)
LoopFree == ready = {} /\ transfer # "called"

Init ==
  /\ transfer = "idle" /\ mode = "idle" /\ cancelled = FALSE
  /\ max \in Budgets /\ available = max /\ waiters = {}
  /\ ready = {} /\ pc = NoRequests
  /\ retries = [k \in Requests |-> 0]

(***************************************************************************)
(* The pool.                                                               *)
(***************************************************************************)
(* Broken on purpose: a permit comes back whatever the size of the pool.    *)
Unclamped(a, n, size) == a + n

(* n permits come back, one after the other, to a available.               *)
Released(a, n, size) == MinOf(a + n, size)

(* Broken on purpose: growing adds no permits.                             *)
NeverGrown(a, b) == MinOf(a, b)

(* set_max(b) with a permits available.                                    *)
Resized(a, b) == IF b > max THEN MinOf(a + (b - max), b) ELSE MinOf(a, b)

(* Broken on purpose: nobody is told that a permit is free.                 *)
WakeNobody == UNCHANGED <<waiters, ready>>

(* Everyone in the queue is polled again, and queues again if need be.     *)
WakeAll == ready' = ready \cup waiters /\ waiters' = {}

(* Acquire::poll                                                           *)
Take(k) ==
  /\ ready' = ready \ {k}
  /\ \/ /\ available > 0
        /\ available' = available - 1
        /\ pc' = [pc EXCEPT ![k] = "sending"]
        /\ UNCHANGED waiters
     \/ /\ available = 0
        /\ waiters' = waiters \cup {k}
        /\ pc' = [pc EXCEPT ![k] = "queued"]
        /\ UNCHANGED available
  /\ UNCHANGED <<transfer, control, max, retries>>

(***************************************************************************)
(* A transfer.                                                             *)
(***************************************************************************)
Call ==
  /\ LoopFree /\ transfer = "idle"
  /\ transfer' = "called"
  /\ UNCHANGED <<control, pool, loop>>

Begin ==
  /\ transfer = "called"
  /\ transfer' = "preparing" /\ mode' = "running" /\ cancelled' = FALSE
  /\ available' = max /\ waiters' = {}
  /\ UNCHANGED <<max, loop>>

Prepared ==
  /\ LoopFree /\ transfer = "preparing"
  /\ transfer' = "running"
  /\ \E b \in Budgets : available' = Resized(available, b) /\ max' = b
  /\ pc' = [k \in Requests |-> "gate"] /\ ready' = Requests
  /\ retries' = [k \in Requests |-> 0]
  /\ UNCHANGED <<control, waiters>>

PrepareFails ==
  /\ LoopFree /\ transfer = "preparing"
  /\ transfer' = "idle" /\ mode' = "failed"
  /\ UNCHANGED <<cancelled, pool, loop>>

Settled == \A k \in Requests : pc[k] \in {"done", "failed"}

Ended ==
  /\ transfer' = "idle"
  /\ pc' = NoRequests
  /\ UNCHANGED <<cancelled, retries>>

(* All requests are settled.  Failed ones need not fail the transfer: the   *)
(* commit decides.                                                         *)
Finish ==
  /\ LoopFree /\ transfer = "running" /\ Settled
  /\ \/ mode' = "completed"
     \/ mode' = "failed" /\ \E k \in Requests : pc[k] = "failed"
  /\ Ended
  /\ UNCHANGED <<pool, ready>>

(* Broken on purpose: the other requests are forgotten, not dropped.        *)
GiveUpLeaking ==
  /\ \E k \in Requests : pc[k] = "failed"
  /\ mode' = "failed" /\ waiters' = {} /\ ready' = {}
  /\ Ended
  /\ UNCHANGED <<max, available>>

(* A file's error ends the transfer, after a tick of the tuning engine that *)
(* may resize the pool: the others are dropped where they are, and give    *)
(* back the permits they hold, each waking the queue.  A request dropped   *)
(* while it waits does not leave the queue.                                *)
GiveUp ==
  /\ \E k \in Requests : pc[k] = "failed"
  /\ \E b \in Budgets \cup {max} :
       /\ max' = b /\ available' = Released(Resized(available, b), Cardinality(Sending), b)
       /\ waiters' = IF b = max /\ Sending = {} THEN waiters ELSE {}
  /\ mode' = "failed" /\ ready' = {}
  /\ Ended

(***************************************************************************)
(* One request's loop.                                                     *)
(***************************************************************************)
Pass(k) ==
  /\ pc[k] = "gate" /\ k \in ready
  /\ ~cancelled /\ mode # "paused"
  /\ Take(k)

Stop(k) ==
  /\ pc[k] = "gate" /\ k \in ready
  /\ cancelled
  /\ pc' = [pc EXCEPT ![k] = "failed"] /\ ready' = ready \ {k}
  /\ UNCHANGED <<transfer, control, pool, retries>>

(* wait_ready yields, and is owed its next poll at once.                    *)
Yield(k) ==
  /\ pc[k] = "gate" /\ k \in ready
  /\ ~cancelled /\ mode = "paused"
  /\ UNCHANGED vars

(* Whoever waits for a permit does not look at the flags again.             *)
Retake(k) ==
  /\ pc[k] = "queued" /\ k \in ready
  /\ Take(k)

(* The answer drops the permit; then a tick of the tuning engine may resize *)
(* the pool.                                                               *)
Answered(k) ==
  /\ LoopFree /\ pc[k] = "sending"
  /\ \E b \in Budgets \cup {max} :
       max' = b /\ available' = Resized(Released(available, 1, max), b)
  /\ WakeAll
  /\ pc' = [pc EXCEPT ![k] = "done"]
  /\ UNCHANGED <<transfer, control, retries>>

(* Out of attempts, or an answer that is not worth another.                *)
Fails(k) ==
  /\ LoopFree /\ pc[k] = "sending"
  /\ max' = max /\ available' = Released(available, 1, max)
  /\ WakeAll
  /\ pc' = [pc EXCEPT ![k] = "failed"]
  /\ UNCHANGED <<transfer, control, retries>>

(* Broken on purpose: repeated attempts are not counted.                   *)
BackOffUncounted(k) ==
  /\ LoopFree /\ pc[k] = "sending" /\ retries[k] < MaxRetries
  /\ available' = Released(available, 1, max)
  /\ WakeAll
  /\ pc' = [pc EXCEPT ![k] = "backoff"]
  /\ UNCHANGED <<transfer, control, max, retries>>

BackOff(k) ==
  /\ LoopFree /\ pc[k] = "sending" /\ retries[k] < MaxRetries
  /\ available' = Released(available, 1, max)
  /\ WakeAll
  /\ pc' = [pc EXCEPT ![k] = "backoff"]
  /\ retries' = [retries EXCEPT ![k] = @ + 1]
  /\ UNCHANGED <<transfer, control, max>>

SleptEnough(k) ==
  /\ LoopFree /\ pc[k] = "backoff"
  /\ pc' = [pc EXCEPT ![k] = "gate"]
  /\ ready' = {k}
  /\ UNCHANGED <<transfer, control, pool, retries>>

(***************************************************************************)
(* The user.                                                               *)
(***************************************************************************)
Pause ==
  /\ LoopFree /\ mode = "running"
  /\ mode' = "paused"
  /\ UNCHANGED <<transfer, cancelled, pool, loop>>

Resume ==
  /\ LoopFree /\ mode = "paused"
  /\ mode' = "running"
  /\ UNCHANGED <<transfer, cancelled, pool, loop>>

(* Also from the task that has just called, whose transfer has not begun.   *)
Cancel ==
  /\ ready = {}
  /\ cancelled' = TRUE
  /\ mode' = IF mode \in {"completed", "failed"} THEN mode ELSE "failed"
  /\ UNCHANGED <<transfer, pool, loop>>

Poll(k) == Pass(k) \/ Stop(k) \/ Yield(k) \/ Retake(k)
Network(k) == Answered(k) \/ Fails(k) \/ BackOff(k) \/ SleptEnough(k)
Preparing == Prepared \/ PrepareFails
User == Call \/ Pause \/ Resume \/ Cancel

Next ==
  \/ User \/ Begin \/ Preparing \/ Finish \/ GiveUp
  \/ \E k \in Requests : Poll(k) \/ Network(k)

(* Microtasks run; every request is answered or times out, every timer     *)
(* fires.  Nothing obliges the user.                                       *)
Fairness ==
  /\ WF_vars(Begin) /\ WF_vars(Preparing) /\ WF_vars(Finish)
  /\ \A k \in Requests : WF_vars(Poll(k)) /\ WF_vars(Network(k))

Spec == Init /\ [][Next]_vars
FairSpec == Spec /\ Fairness

(***************************************************************************)
(* Properties.                                                             *)
(***************************************************************************)
(* Every variable has its type, and no more permits are available than the *)
(* pool has.                                                               *)
TypeOK ==
  /\ transfer \in {"idle", "called", "preparing", "running"}
  /\ mode \in {"idle", "running", "paused", "completed", "failed"}
  /\ cancelled \in BOOLEAN
  /\ max \in Budgets /\ available \in 0..max
  /\ waiters \in SUBSET Requests /\ ready \in SUBSET Requests
  /\ pc \in [Requests -> {"none", "gate", "queued", "sending", "backoff", "done", "failed"}]
  /\ retries \in [Requests -> 0..MaxRetries]

(* No permit is lost: what is available and what is held make up the pool, *)
(* however often it was resized with permits out.                          *)
PermitsKept == available + Cardinality(Sending) >= max

(* No wakeup is lost: a request that waits for a permit and is not about to *)
(* be polled is in the queue of an empty pool, and some request holds a     *)
(* permit that will wake it.                                               *)
NoLostWakeup ==
  \A k \in Requests :
    pc[k] = "queued" /\ k \notin ready => k \in waiters /\ available = 0 /\ Sending # {}

(* While no request is under way all permits are back and nobody waits: the *)
(* reset at the start of a transfer takes nothing from anybody.            *)
IdleIsFull ==
  transfer # "running" => available = max /\ waiters = {} /\ ready = {} /\ pc = NoRequests

(* A transfer ends, whatever fails, unless it is paused; and a paused one   *)
(* that is cancelled ends too.                                             *)
RunsToTheEnd == transfer # "idle" ~> transfer = "idle" \/ mode = "paused"

(* "Grants at most `max` outstanding permits": none is granted beyond it.  *)
GrantedWithinMax ==
  [][\A k \in Requests : k \notin Sending /\ k \in Sending' => Cardinality(Sending)' <= max']_vars

(* "yielding to the JS event loop so pause/resume/cancel can be delivered": *)
(* while paused, the event loop gets to its next task.                     *)
PauseCanEnd == mode = "paused" ~> LoopFree
=============================================================================
