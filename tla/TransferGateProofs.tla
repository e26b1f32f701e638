------------------------- MODULE TransferGateProofs -------------------------
(***************************************************************************)
(* Theorems about TransferGate, for any finite set of requests, any sizes  *)
(* tuning may give the pool, and any number of retries.                    *)
(***************************************************************************)
EXTENDS TransferGate, TLAPS, FiniteSetTheorems

(* Who is in the queue, and why: a request whose waker was taken has been  *)
(* owed a poll since, and a pool with a queue is empty.                    *)
QueueInv ==
  \A k \in Requests :
    /\ pc[k] = "queued" /\ k \notin ready => k \in waiters /\ available = 0
    /\ k \in waiters => pc[k] = "queued" /\ k \notin ready

GateInv == TypeOK /\ PermitsKept /\ QueueInv /\ IdleIsFull

-----------------------------------------------------------------------------
(* How many hold a permit.                                                 *)

LEMMA SendingIsFinite == IsFiniteSet(Sending) /\ Cardinality(Sending) \in Nat
<1>1. Sending \in SUBSET Requests
  BY DEF Sending
<1> QED BY <1>1, RequestsAssumption, FS_Subset, FS_CardinalityType

LEMMA OneMore ==
  ASSUME TypeOK, NEW k \in Requests, pc[k] # "sending",
         pc' = [pc EXCEPT ![k] = "sending"]
  PROVE  Cardinality(Sending)' = Cardinality(Sending) + 1
<1>1. Sending' = Sending \cup {k} /\ k \notin Sending
  BY DEF Sending, TypeOK
<1> QED BY <1>1, SendingIsFinite, FS_AddElement

LEMMA OneLess ==
  ASSUME TypeOK, NEW k \in Requests, pc[k] = "sending",
         NEW v, v # "sending", pc' = [pc EXCEPT ![k] = v]
  PROVE  Cardinality(Sending)' = Cardinality(Sending) - 1 /\ Cardinality(Sending) >= 1
<1>1. Sending' = Sending \ {k} /\ k \in Sending
  BY DEF Sending, TypeOK
<1>2. Cardinality(Sending)' = Cardinality(Sending) - 1
  BY <1>1, SendingIsFinite, FS_RemoveElement
<1>3. Cardinality(Sending) # 0
  BY <1>1, SendingIsFinite, FS_EmptySet
<1> QED BY <1>2, <1>3, SendingIsFinite

LEMMA AsMany ==
  ASSUME TypeOK, NEW k \in Requests, pc[k] # "sending",
         NEW v, v # "sending", pc' = [pc EXCEPT ![k] = v]
  PROVE  Cardinality(Sending)' = Cardinality(Sending)
<1>1. Sending' = Sending
  BY DEF Sending, TypeOK
<1> QED BY <1>1

LEMMA NobodySends ==
  ASSUME pc = NoRequests \/ Settled
  PROVE  Cardinality(Sending) = 0
<1>1. Sending = {}
  BY DEF Sending, NoRequests, Settled
<1> QED BY <1>1, FS_EmptySet

-----------------------------------------------------------------------------
(* The pool's arithmetic.                                                  *)

LEMMA BudgetsArePositive == \A b \in Budgets : b \in Nat /\ b >= 1
BY BudgetsAssumption

(* Resizing keeps what is available within the pool, and with s permits    *)
(* out it loses none.                                                      *)
LEMMA ResizedKeeps ==
  ASSUME max \in Nat, NEW a \in 0..max, NEW b \in Nat, NEW s \in Nat, a + s >= max
  PROVE  Resized(a, b) \in 0..b /\ Resized(a, b) + s >= b
BY DEF Resized, MinOf

(* So does the return of one of them.                                      *)
LEMMA ReleasedKeeps ==
  ASSUME NEW m \in Nat, NEW a \in 0..m, NEW n \in Nat, NEW s \in Nat, a + n + s >= m
  PROVE  Released(a, n, m) \in 0..m /\ Released(a, n, m) + s >= m
BY DEF Released, MinOf

-----------------------------------------------------------------------------
LEMMA GateInit == Init => GateInv
<1> SUFFICES ASSUME Init PROVE GateInv
  OBVIOUS
<1>1. TypeOK
  <2>1. max \in Budgets /\ available \in 0..max
    BY BudgetsArePositive DEF Init
  <2>2. retries \in [Requests -> 0..MaxRetries]
    BY RetriesAssumption DEF Init
  <2> QED BY <2>1, <2>2 DEF Init, TypeOK, NoRequests
<1>2. PermitsKept
  BY <1>1, NobodySends, BudgetsArePositive DEF Init, PermitsKept, TypeOK
<1>3. QueueInv /\ IdleIsFull
  BY DEF Init, QueueInv, IdleIsFull, NoRequests
<1> QED BY <1>1, <1>2, <1>3 DEF GateInv

(* Whatever a request under way does, a transfer runs.                      *)
LEMMA OnlyWhileRunning ==
  ASSUME GateInv, NEW k \in Requests, pc[k] # "none"
  PROVE  transfer = "running"
BY DEF GateInv, IdleIsFull, NoRequests

LEMMA TakeKeeps ==
  ASSUME GateInv, NEW k \in Requests, k \in ready, pc[k] \in {"gate", "queued"}, Take(k)
  PROVE  GateInv'
<1>0. transfer = "running" /\ TypeOK
  BY OnlyWhileRunning DEF GateInv
<1>1. CASE available > 0 /\ available' = available - 1 /\ UNCHANGED waiters
           /\ pc' = [pc EXCEPT ![k] = "sending"]
  <2>1. TypeOK'
    BY <1>1, <1>0, BudgetsArePositive DEF TypeOK, Take, control
  <2>2. PermitsKept'
    <3>1. Cardinality(Sending)' = Cardinality(Sending) + 1
      BY <1>1, <1>0, OneMore
    <3>2. max' = max /\ max \in Nat /\ available \in Nat
      BY <1>0, BudgetsArePositive DEF Take, TypeOK
    <3> QED BY <1>1, <3>1, <3>2, SendingIsFinite DEF GateInv, PermitsKept
  <2>3. QueueInv'
    BY <1>1, <1>0 DEF GateInv, QueueInv, TypeOK, Take
  <2> QED BY <2>1, <2>2, <2>3, <1>0 DEF GateInv, IdleIsFull, Take
<1>2. CASE available = 0 /\ UNCHANGED available /\ waiters' = waiters \cup {k}
           /\ pc' = [pc EXCEPT ![k] = "queued"]
  <2>1. TypeOK'
    BY <1>2, <1>0 DEF TypeOK, Take, control
  <2>2. PermitsKept'
    BY <1>2, <1>0, AsMany DEF GateInv, PermitsKept, Take
  <2>3. QueueInv'
    BY <1>2, <1>0 DEF GateInv, QueueInv, TypeOK, Take
  <2> QED BY <2>1, <2>2, <2>3, <1>0 DEF GateInv, IdleIsFull, Take
<1> QED BY <1>1, <1>2 DEF Take

(* A request that had a permit gives it back, and everyone who waited is   *)
(* owed a poll.                                                            *)
LEMMA SendingEnds ==
  ASSUME GateInv, NEW k \in Requests, pc[k] = "sending", WakeAll,
         NEW v \in {"done", "failed", "backoff"}, pc' = [pc EXCEPT ![k] = v],
         NEW b \in Budgets \cup {max}, max' = b,
         available' = Resized(Released(available, 1, max), b) \/
           (b = max /\ available' = Released(available, 1, max)),
         transfer' = transfer
  PROVE  /\ max' \in Budgets /\ available' \in 0..max'
         /\ PermitsKept' /\ QueueInv' /\ IdleIsFull'
<1> DEFINE s == Cardinality(Sending) - 1
           a == Released(available, 1, max)
<1>1. TypeOK /\ transfer = "running" /\ b \in Budgets /\ b \in Nat /\ max \in Nat
  <2>1. TypeOK /\ transfer = "running"
    BY OnlyWhileRunning DEF GateInv
  <2>2. max \in Budgets /\ b \in Budgets
    BY <2>1 DEF TypeOK
  <2> QED BY <2>1, <2>2, BudgetsArePositive
<1>2. Cardinality(Sending)' = s /\ s \in Nat
  <2>1. v # "sending"
    OBVIOUS
  <2>2. Cardinality(Sending)' = s /\ Cardinality(Sending) >= 1
    BY <1>1, <2>1, OneLess
  <2> QED BY <2>2, SendingIsFinite
<1>3. a \in 0..max /\ a + s >= max
  <2>1. available \in 0..max /\ available + 1 + s >= max
    BY <1>1, <1>2, SendingIsFinite DEF GateInv, PermitsKept, TypeOK
  <2> QED BY <2>1, <1>1, <1>2, ReleasedKeeps
<1>4. available' \in 0..b /\ available' + s >= b
  <2>1. Resized(a, b) \in 0..b /\ Resized(a, b) + s >= b
    BY <1>1, <1>2, <1>3, ResizedKeeps
  <2> QED BY <2>1, <1>3
<1>5. PermitsKept'
  BY <1>2, <1>4 DEF PermitsKept
<1>6. QueueInv'
  BY <1>1 DEF GateInv, QueueInv, WakeAll, TypeOK
<1>7. IdleIsFull'
  BY <1>1 DEF IdleIsFull
<1> QED BY <1>1, <1>4, <1>5, <1>6, <1>7

LEMMA GateNext ==
  ASSUME GateInv, [Next]_vars
  PROVE  GateInv'
<1> USE DEF control, pool, loop
<1>0. TypeOK /\ PermitsKept /\ QueueInv /\ IdleIsFull /\ max \in Nat
  BY BudgetsArePositive DEF GateInv, TypeOK
<1>1. CASE UNCHANGED vars
  BY <1>1 DEF vars, GateInv, TypeOK, PermitsKept, QueueInv, IdleIsFull, Sending
<1>2. CASE User
  BY <1>2, <1>0
     DEF User, Call, Pause, Resume, Cancel, GateInv, TypeOK, PermitsKept, QueueInv,
         IdleIsFull, Sending
<1>3. CASE Begin
  BY <1>3, <1>0 DEF Begin, GateInv, TypeOK, PermitsKept, QueueInv, IdleIsFull, Sending
<1>4. CASE PrepareFails
  BY <1>4, <1>0 DEF PrepareFails, GateInv, TypeOK, PermitsKept, QueueInv, IdleIsFull, Sending
<1>5. CASE Prepared
  <2>1. PICK b \in Budgets : available' = Resized(available, b) /\ max' = b
    BY <1>5 DEF Prepared
  <2>2. available = max /\ waiters = {} /\ pc = NoRequests
    BY <1>5, <1>0 DEF Prepared, IdleIsFull
  <2>3. b \in Nat /\ available' \in 0..b /\ available' + 0 >= b
    BY <2>1, <2>2, <1>0, BudgetsArePositive, ResizedKeeps
  <2>4. Sending' = {}
    BY <1>5 DEF Prepared, Sending
  <2>5. PermitsKept'
    BY <2>1, <2>3, <2>4, FS_EmptySet DEF PermitsKept
  <2>6. TypeOK'
    BY <1>5, <2>1, <2>3, <1>0, RetriesAssumption DEF Prepared, TypeOK
  <2>7. QueueInv' /\ IdleIsFull'
    BY <1>5, <2>2 DEF Prepared, QueueInv, IdleIsFull
  <2> QED BY <2>5, <2>6, <2>7 DEF GateInv
<1>6. CASE Finish
  <2>1. Cardinality(Sending) = 0 /\ available = max
    BY <1>6, <1>0, NobodySends DEF Finish, PermitsKept, TypeOK
  <2>2. waiters = {}
    BY <1>6, <1>0 DEF Finish, Settled, QueueInv, TypeOK
  <2>3. TypeOK'
    BY <1>6, <1>0 DEF Finish, Ended, NoRequests, TypeOK
  <2>4. Sending' = {}
    BY <1>6 DEF Finish, Ended, NoRequests, Sending
  <2>5. PermitsKept'
    BY <1>6, <1>0, <2>1, <2>4, FS_EmptySet DEF Finish, PermitsKept
  <2>6. QueueInv' /\ IdleIsFull'
    BY <1>6, <2>1, <2>2 DEF Finish, LoopFree, Ended, NoRequests, QueueInv, IdleIsFull
  <2> QED BY <2>3, <2>5, <2>6 DEF GateInv
<1>7. CASE GiveUp
  <2>1. PICK b \in Budgets \cup {max} :
          /\ max' = b /\ available' = Released(Resized(available, b), Cardinality(Sending), b)
          /\ waiters' = IF b = max /\ Sending = {} THEN waiters ELSE {}
    BY <1>7 DEF GiveUp
  <2>2. b \in Budgets /\ b \in Nat /\ Cardinality(Sending) \in Nat
    BY <1>0, BudgetsArePositive, SendingIsFinite DEF TypeOK
  <2>3. Resized(available, b) \in 0..b /\ Resized(available, b) + Cardinality(Sending) >= b
    BY <1>0, <2>2, ResizedKeeps DEF TypeOK, PermitsKept
  <2>4. available' = b
    BY <2>1, <2>2, <2>3 DEF Released, MinOf
  <2>5. waiters' = {}
    <3>1. CASE Sending = {}
      <4>1. available > 0
        BY <3>1, <1>0, BudgetsArePositive, FS_EmptySet DEF PermitsKept, TypeOK
      <4> QED BY <2>1, <4>1, <1>0 DEF QueueInv, TypeOK
    <3> QED BY <3>1, <2>1
  <2>6. Sending' = {}
    BY <1>7 DEF GiveUp, Ended, NoRequests, Sending
  <2>7. PermitsKept'
    BY <2>1, <2>2, <2>4, <2>6, FS_EmptySet DEF PermitsKept
  <2>8. TypeOK'
    BY <1>7, <1>0, <2>1, <2>2, <2>4, <2>5 DEF GiveUp, Ended, NoRequests, TypeOK
  <2>9. QueueInv' /\ IdleIsFull'
    BY <1>7, <2>1, <2>4, <2>5 DEF GiveUp, Ended, NoRequests, QueueInv, IdleIsFull
  <2> QED BY <2>7, <2>8, <2>9 DEF GateInv
<1>8. ASSUME NEW k \in Requests, Poll(k) PROVE GateInv'
  <2>1. CASE Pass(k)
    BY <2>1, TakeKeeps DEF Pass
  <2>2. CASE Retake(k)
    BY <2>2, TakeKeeps DEF Retake
  <2>3. CASE Yield(k)
    BY <2>3, <1>1 DEF Yield
  <2>4. CASE Stop(k)
    <3>1. transfer = "running" /\ transfer' = transfer
      BY <2>4, OnlyWhileRunning DEF Stop
    <3>2. PermitsKept'
      BY <2>4, <1>0, AsMany DEF Stop, PermitsKept
    <3>3. TypeOK' /\ QueueInv'
      BY <2>4, <1>0 DEF Stop, TypeOK, QueueInv
    <3> QED BY <3>1, <3>2, <3>3 DEF GateInv, IdleIsFull
  <2> QED BY <1>8, <2>1, <2>2, <2>3, <2>4 DEF Poll
<1>9. ASSUME NEW k \in Requests, Network(k) PROVE GateInv'
  <2>1. CASE Answered(k)
    <3>1. PICK b \in Budgets \cup {max} :
            max' = b /\ available' = Resized(Released(available, 1, max), b)
      BY <2>1 DEF Answered
    <3>2. max' \in Budgets /\ available' \in 0..max' /\ PermitsKept' /\ QueueInv' /\ IdleIsFull'
      BY <2>1, <3>1, SendingEnds DEF Answered
    <3>3. TypeOK'
      BY <2>1, <1>0, <3>2 DEF Answered, WakeAll, TypeOK
    <3> QED BY <3>2, <3>3 DEF GateInv
  <2>2. CASE Fails(k)
    <3>2. max' \in Budgets /\ available' \in 0..max' /\ PermitsKept' /\ QueueInv' /\ IdleIsFull'
      BY <2>2, SendingEnds DEF Fails
    <3>3. TypeOK'
      BY <2>2, <1>0, <3>2 DEF Fails, WakeAll, TypeOK
    <3> QED BY <3>2, <3>3 DEF GateInv
  <2>3. CASE BackOff(k)
    <3>2. max' \in Budgets /\ available' \in 0..max' /\ PermitsKept' /\ QueueInv' /\ IdleIsFull'
      BY <2>3, SendingEnds DEF BackOff
    <3>3. retries' \in [Requests -> 0..MaxRetries]
      BY <2>3, <1>0, RetriesAssumption DEF BackOff, TypeOK
    <3>4. TypeOK'
      BY <2>3, <1>0, <3>2, <3>3 DEF BackOff, WakeAll, TypeOK
    <3> QED BY <3>2, <3>4 DEF GateInv
  <2>4. CASE SleptEnough(k)
    <3>1. transfer = "running" /\ transfer' = transfer
      BY <2>4, OnlyWhileRunning DEF SleptEnough
    <3>2. PermitsKept'
      BY <2>4, <1>0, AsMany DEF SleptEnough, PermitsKept
    <3>3. TypeOK' /\ QueueInv'
      BY <2>4, <1>0 DEF SleptEnough, LoopFree, TypeOK, QueueInv
    <3> QED BY <3>1, <3>2, <3>3 DEF GateInv, IdleIsFull
  <2> QED BY <1>9, <2>1, <2>2, <2>3, <2>4 DEF Network
<1> QED BY <1>1, <1>2, <1>3, <1>4, <1>5, <1>6, <1>7, <1>8, <1>9 DEF Next, Preparing

THEOREM GateInvariant == Spec => []GateInv
<1> QED BY GateInit, GateNext, PTL DEF Spec

-----------------------------------------------------------------------------
(* However the pool is resized (set_max, release), no more permits are      *)
(* available than it has, and every variable keeps its type.               *)
THEOREM GateTypeCorrect == Spec => []TypeOK
<1>1. GateInv => TypeOK
  BY DEF GateInv
<1> QED BY <1>1, GateInvariant, PTL

(* No permit is lost, however often the pool is resized with permits out.   *)
THEOREM PermitsNeverLost == Spec => []PermitsKept
<1>1. GateInv => PermitsKept
  BY DEF GateInv
<1> QED BY <1>1, GateInvariant, PTL

(* A request in the queue of Acquire::poll waits for a permit somebody      *)
(* holds: it is never left behind with a permit free.                      *)
THEOREM NeverLeftWaiting == Spec => []NoLostWakeup
<1>1. GateInv => NoLostWakeup
  <2> SUFFICES ASSUME GateInv, NEW k \in Requests, pc[k] = "queued", k \notin ready
               PROVE  k \in waiters /\ available = 0 /\ Sending # {}
    BY DEF NoLostWakeup
  <2>1. k \in waiters /\ available = 0
    BY DEF GateInv, QueueInv
  <2>2. Cardinality(Sending) >= 1
    BY <2>1, BudgetsArePositive, SendingIsFinite DEF GateInv, PermitsKept, TypeOK
  <2> QED BY <2>1, <2>2, FS_EmptySet
<1> QED BY <1>1, GateInvariant, PTL

(* A transfer that ended, with whatever requests under way, has left the    *)
(* pool full and the queue empty for the next one.                         *)
THEOREM PoolIsLeftFull == Spec => []IdleIsFull
<1>1. GateInv => IdleIsFull
  BY DEF GateInv
<1> QED BY <1>1, GateInvariant, PTL
=============================================================================
