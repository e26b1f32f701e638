-------------------------- MODULE PlainStoreProofs --------------------------
(***************************************************************************)
(* Theorems about PlainStore, for any number of uploads and downloads, of  *)
(* any mode, offset and size.                                              *)
(***************************************************************************)
EXTENDS PlainStore, TLAPS, SequenceTheorems

Answers == {"none", "refused", "failed", "created", "dropped"}

-----------------------------------------------------------------------------
(* Types.                                                                  *)

LEMMA RequestFields ==
  ASSUME NEW q \in Requests
  PROVE  /\ q.mode \in {"create", "overwrite", "resume"} /\ q.final \in BOOLEAN
         /\ q.offset \in Nat /\ q.size \in Nat
         /\ q.mode # "resume" => q.offset = 0
BY RequestsAssumption DEF RequestShape

LEMMA ReleaseTyped ==
  ASSUME PlainTypeOK, NEW w \in Writers, Release(w)
  PROVE  /\ holder' \in Writers \cup {None} /\ queue' \in Seq(Writers)
         /\ holder # w => holder' = holder
<1>1. holder \in Writers \cup {None} /\ queue \in Seq(Writers)
  BY DEF PlainTypeOK
<1>2. CASE holder = w /\ queue = <<>> /\ holder' = None /\ UNCHANGED queue
  BY <1>1, <1>2
<1>3. CASE holder = w /\ queue # <<>> /\ holder' = Head(queue) /\ queue' = Tail(queue)
  BY <1>1, <1>3, HeadTailProperties
<1>4. CASE /\ holder # w /\ UNCHANGED holder
           /\ \E k \in DOMAIN queue : queue[k] = w /\ queue' = RemoveAt(queue, k)
  <2>1. PICK k \in DOMAIN queue : queue' = RemoveAt(queue, k)
    BY <1>4
  <2>2. k \in 1..Len(queue) /\ Len(queue) \in Nat
    BY <1>1, <2>1
  <2>3. SubSeq(queue, 1, k - 1) \in Seq(Writers) /\ SubSeq(queue, k + 1, Len(queue)) \in Seq(Writers)
    BY <1>1, <2>2
  <2>4. queue' \in Seq(Writers)
    BY <2>1, <2>3, ConcatProperties DEF RemoveAt
  <2> QED BY <1>1, <1>4, <2>4
<1>5. CASE holder # w /\ (\A k \in DOMAIN queue : queue[k] # w) /\ UNCHANGED lock
  BY <1>1, <1>5 DEF lock
<1> QED BY <1>2, <1>3, <1>4, <1>5 DEF Release

(* The two ways a handler leaves an await.                                 *)
LEMMA EndsTyped ==
  ASSUME PlainTypeOK, NEW w \in Writers, NEW a \in Answers, Ends(w, a)
  PROVE  /\ pc' = [pc EXCEPT ![w] = "done"] /\ result' = [result EXCEPT ![w] = a]
         /\ pc' \in [Writers -> Steps] /\ result' \in [Writers -> Answers]
         /\ holder' \in Writers \cup {None} /\ queue' \in Seq(Writers)
         /\ holder # w => holder' = holder
         /\ loose' \in BOOLEAN
<1>1. /\ pc' = [pc EXCEPT ![w] = "done"] /\ result' = [result EXCEPT ![w] = a]
      /\ Release(w) /\ loose' = (loose \/ (holder = w /\ inflight[w]))
  BY DEF Ends
<1>2. loose' \in BOOLEAN
  BY <1>1
<1>3. pc' \in [Writers -> Steps] /\ result' \in [Writers -> Answers]
  BY <1>1 DEF PlainTypeOK, Steps, Answers
<1> QED BY <1>1, <1>2, <1>3, ReleaseTyped

LEMMA GoesTyped ==
  ASSUME PlainTypeOK, NEW w \in Writers, NEW s \in Steps, Goes(w, s)
  PROVE  /\ pc' = [pc EXCEPT ![w] = s] /\ pc' \in [Writers -> Steps]
         /\ result' = result /\ holder' = holder /\ queue' = queue /\ loose' = loose
BY DEF Goes, PlainTypeOK, lock

(* Each action of an upload, as a step from some awaits to some others.    *)
Walks(w, from, to, answers) ==
  /\ pc[w] \in from /\ from \subseteq Steps
  /\ \/ \E s \in to : Goes(w, s)
     \/ \E a \in answers : Ends(w, a)

LEMMA WalksTyped ==
  ASSUME PlainTypeOK, NEW w \in Writers, NEW from, NEW to, NEW answers,
         Walks(w, from, to, answers), to \subseteq Steps, answers \subseteq Answers
  PROVE  /\ pc' \in [Writers -> Steps] /\ result' \in [Writers -> Answers]
         /\ holder' \in Writers \cup {None} /\ queue' \in Seq(Writers) /\ loose' \in BOOLEAN
         /\ holder # w => holder' = holder
         /\ \A v \in Writers : v # w => pc'[v] = pc[v] /\ result'[v] = result[v]
         /\ \/ /\ pc'[w] \in to /\ UNCHANGED <<holder, queue, result, loose>>
            \/ /\ pc'[w] = "done" /\ result'[w] \in answers
               /\ loose' = (loose \/ (holder = w /\ inflight[w]))
<1>1. ASSUME NEW s \in to, Goes(w, s)
      PROVE  /\ pc' = [pc EXCEPT ![w] = s] /\ pc' \in [Writers -> Steps]
             /\ result' = result /\ holder' = holder /\ queue' = queue /\ loose' = loose
  BY <1>1, GoesTyped
<1>2. ASSUME NEW a \in answers, Ends(w, a)
      PROVE  /\ pc' = [pc EXCEPT ![w] = "done"] /\ result' = [result EXCEPT ![w] = a]
             /\ pc' \in [Writers -> Steps] /\ result' \in [Writers -> Answers]
             /\ holder' \in Writers \cup {None} /\ queue' \in Seq(Writers)
             /\ holder # w => holder' = holder
             /\ loose' \in BOOLEAN
             /\ loose' = (loose \/ (holder = w /\ inflight[w]))
  BY <1>2, EndsTyped DEF Ends
<1>3. PlainTypeOK
  OBVIOUS
<1> QED BY <1>1, <1>2, <1>3 DEF Walks, PlainTypeOK, Answers

(* What does not belong to the walk of a handler.                          *)
DataTyped ==
  /\ target \in Inodes \cup {None} /\ temps \subseteq Writers
  /\ content \in [Inodes -> Seq(Inodes)]
  /\ req \in [Writers -> Requests]
  /\ fd \in [Writers -> Inodes \cup {None}] /\ sent \in [Writers -> Nat]
  /\ inflight \in [Writers -> BOOLEAN] /\ lost \in [Writers -> BOOLEAN]
  /\ overtaken \subseteq Writers

ReadersTyped ==
  /\ rpc \in [Readers -> {"idle", "missing", "open", "failed", "read", "done"}]
  /\ ask \in [Readers -> [file : Inodes \cup {None}, from : Nat, blocks : Seq(Inodes)]]
  /\ rfd \in [Readers -> Inodes \cup {None}] /\ got \in [Readers -> Seq(Inodes)]

LEMMA Typed ==
  PlainTypeOK <=>
    /\ DataTyped /\ ReadersTyped
    /\ holder \in Writers \cup {None} /\ queue \in Seq(Writers) /\ loose \in BOOLEAN
    /\ pc \in [Writers -> Steps] /\ result \in [Writers -> Answers]
BY DEF PlainTypeOK, DataTyped, ReadersTyped, Answers

(* A sink or a reader that works has been opened.                          *)
Opened ==
  /\ \A w \in Writers :
       inflight[w] \/ pc[w] \in {"measure", "body", "abort", "flush", "recheck", "rename", "meta"}
         => fd[w] # None
  /\ \A r \in Readers : rpc[r] \in {"read", "done"} => rfd[r] # None

TypeInv == PlainTypeOK /\ Opened

LEMMA HandlerTyped ==
  ASSUME TypeInv, NEW w \in Writers, Handle(w) \/ Drop(w)
  PROVE  TypeInv'
<1> DEFINE Walked == \E from, to \in SUBSET Steps, answers \in SUBSET Answers :
                       Walks(w, from, to, answers)
           Working == {"measure", "body", "abort", "flush", "recheck", "rename", "meta"}
<1>0. PlainTypeOK /\ DataTyped /\ ReadersTyped /\ req[w] \in Requests
  BY Typed DEF TypeInv, PlainTypeOK
<1>m. req[w].mode \in {"create", "overwrite", "resume"}
  BY <1>0, RequestFields
<1>o. /\ \A v \in Writers : inflight[v] \/ pc[v] \in Working => fd[v] # None
      /\ \A r \in Readers : rpc[r] \in {"read", "done"} => rfd[r] # None
  BY DEF TypeInv, Opened
<1>w. ASSUME Walked, DataTyped', UNCHANGED readers,
             \A v \in Writers \ {w} : inflight'[v] = inflight[v] /\ fd'[v] = fd[v],
             inflight'[w] \/ pc'[w] \in Working => fd'[w] # None
      PROVE  TypeInv'
  <2>1. PICK from \in SUBSET Steps, to \in SUBSET Steps, answers \in SUBSET Answers :
          Walks(w, from, to, answers)
    BY <1>w
  <2>2. /\ pc' \in [Writers -> Steps] /\ result' \in [Writers -> Answers]
        /\ holder' \in Writers \cup {None} /\ queue' \in Seq(Writers) /\ loose' \in BOOLEAN
        /\ \A v \in Writers : v # w => pc'[v] = pc[v]
    BY <2>1, <1>0, WalksTyped
  <2>3. ReadersTyped'
    BY <1>0, <1>w DEF ReadersTyped, readers
  <2>4. PlainTypeOK'
    BY <2>2, <2>3, <1>w DEF PlainTypeOK, DataTyped, ReadersTyped, Answers
  <2>5. \A v \in Writers : inflight'[v] \/ pc'[v] \in Working => fd'[v] # None
    BY <2>2, <1>w, <1>o
  <2>6. \A r \in Readers : rpc'[r] \in {"read", "done"} => rfd'[r] # None
    BY <1>w, <1>o DEF readers
  <2> QED BY <2>4, <2>5, <2>6 DEF TypeInv, Opened
<1>1. CASE Arrive(w)
  <2>1. Walks(w, {"idle"}, {"exists", "temp", "lock"}, {"refused"})
    BY <1>1, <1>m DEF Arrive, Walks, Steps, Is
  <2>2. Walked
    BY <2>1 DEF Steps, Answers
  <2>3. DataTyped' /\ UNCHANGED readers
    BY <1>1, <1>0 DEF Arrive, DataTyped, files, sinks, disk, readers, Inodes
  <2>p. pc'[w] \in {"exists", "temp", "lock"} \cup {"done"}
    BY <1>1, <1>0, <1>m DEF Arrive, Ends, Goes, PlainTypeOK, Is
  <2>4. \A v \in Writers \ {w} : inflight'[v] = inflight[v] /\ fd'[v] = fd[v]
    BY <1>1, <1>0 DEF Arrive, DataTyped, sinks, disk
  <2>5. inflight'[w] \/ pc'[w] \in Working => fd'[w] # None
    BY <1>1, <1>0, <1>o, <2>p, NamesAssumption
       DEF Arrive, Goes, DataTyped, sinks, disk, Inodes
  <2> QED BY <2>2, <2>3, <2>4, <2>5, <1>w
<1>2. CASE Exists(w)
  <2>1. Walks(w, {"exists"}, {"temp"}, {"refused"})
    BY <1>2 DEF Exists, Walks, Steps
  <2>2. Walked
    BY <2>1 DEF Steps, Answers
  <2>3. DataTyped' /\ UNCHANGED readers
    BY <1>2, <1>0 DEF Exists, DataTyped, files, sinks, disk, readers, Inodes
  <2>p. pc'[w] \in {"temp"} \cup {"done"}
    BY <1>2, <1>0 DEF Exists, Ends, Goes, PlainTypeOK, Is
  <2>4. \A v \in Writers \ {w} : inflight'[v] = inflight[v] /\ fd'[v] = fd[v]
    BY <1>2, <1>0 DEF Exists, DataTyped, sinks, disk
  <2>5. inflight'[w] \/ pc'[w] \in Working => fd'[w] # None
    BY <1>2, <1>0, <1>o, <2>p, NamesAssumption
       DEF Exists, Goes, DataTyped, sinks, disk, Inodes
  <2> QED BY <2>2, <2>3, <2>4, <2>5, <1>w
<1>3. CASE CreateTemp(w)
  <2>1. Walks(w, {"temp"}, {"body"}, {})
    BY <1>3 DEF CreateTemp, Walks, Steps
  <2>2. Walked
    BY <2>1 DEF Steps, Answers
  <2>3. DataTyped' /\ UNCHANGED readers
    BY <1>3, <1>0 DEF CreateTemp, DataTyped, files, sinks, disk, readers, Inodes
  <2>p. pc'[w] \in {"body"} \cup {"done"}
    BY <1>3, <1>0 DEF CreateTemp, Ends, Goes, PlainTypeOK, Is
  <2>4. \A v \in Writers \ {w} : inflight'[v] = inflight[v] /\ fd'[v] = fd[v]
    BY <1>3, <1>0 DEF CreateTemp, DataTyped, sinks, disk
  <2>5. inflight'[w] \/ pc'[w] \in Working => fd'[w] # None
    BY <1>3, <1>0, <1>o, <2>p, NamesAssumption
       DEF CreateTemp, Goes, DataTyped, sinks, disk, Inodes
  <2> QED BY <2>2, <2>3, <2>4, <2>5, <1>w
<1>4. CASE Open(w)
  <2>1. Walks(w, {"open"}, {"measure"}, {"failed"})
    BY <1>4 DEF Open, Walks, Steps
  <2>2. Walked
    BY <2>1 DEF Steps, Answers
  <2>3. DataTyped' /\ UNCHANGED readers
    BY <1>4, <1>0 DEF Open, DataTyped, files, sinks, disk, readers, Inodes
  <2>p. pc'[w] \in {"measure"} \cup {"done"}
    BY <1>4, <1>0 DEF Open, Ends, Goes, PlainTypeOK, Is
  <2>o. pc'[w] \in Working => fd'[w] # None
    <3>1. CASE target = None
      BY <1>4, <1>0, <3>1 DEF Open, Ends, PlainTypeOK
    <3>2. CASE target # None /\ fd' = [fd EXCEPT ![w] = target]
      BY <1>0, <3>2 DEF PlainTypeOK
    <3> QED BY <1>4, <3>1, <3>2 DEF Open
  <2>q. ~inflight'[w] \/ fd'[w] # None
    <3>1. inflight' = inflight
      BY <1>4 DEF Open, disk
    <3>2. fd[w] # None => fd'[w] # None
      BY <1>4, <1>0 DEF Open, DataTyped
    <3> QED BY <3>1, <3>2, <1>o
  <2>4. \A v \in Writers \ {w} : inflight'[v] = inflight[v] /\ fd'[v] = fd[v]
    BY <1>4, <1>0 DEF Open, DataTyped, sinks, disk
  <2>5. inflight'[w] \/ pc'[w] \in Working => fd'[w] # None
    BY <2>o, <2>q
  <2> QED BY <2>2, <2>3, <2>4, <2>5, <1>w
<1>5. CASE Measure(w)
  <2>1. Walks(w, {"measure"}, {"body"}, {"failed"})
    BY <1>5 DEF Measure, Walks, Steps
  <2>2. Walked
    BY <2>1 DEF Steps, Answers
  <2>3. DataTyped' /\ UNCHANGED readers
    BY <1>5, <1>0 DEF Measure, DataTyped, files, sinks, disk, readers, Inodes
  <2>p. pc'[w] \in {"body"} \cup {"done"}
    BY <1>5, <1>0 DEF Measure, Ends, Goes, PlainTypeOK, Is
  <2>4. \A v \in Writers \ {w} : inflight'[v] = inflight[v] /\ fd'[v] = fd[v]
    BY <1>5, <1>0 DEF Measure, DataTyped, sinks, disk
  <2>5. inflight'[w] \/ pc'[w] \in Working => fd'[w] # None
    BY <1>5, <1>0, <1>o, <2>p, NamesAssumption
       DEF Measure, Goes, DataTyped, sinks, disk, Inodes
  <2> QED BY <2>2, <2>3, <2>4, <2>5, <1>w
<1>6. CASE Write(w)
  <2>1. Walks(w, {"body"}, {"body", "abort"}, {})
    BY <1>6 DEF Write, Walks, Steps
  <2>2. Walked
    BY <2>1 DEF Steps, Answers
  <2>a. /\ sent' \in [Writers -> Nat] /\ inflight' \in [Writers -> BOOLEAN]
        /\ UNCHANGED <<files, req, fd, lost, overtaken, readers>>
        /\ \A v \in Writers \ {w} : inflight'[v] = inflight[v]
    <3>1. sent \in [Writers -> Nat] /\ inflight \in [Writers -> BOOLEAN]
      BY <1>0 DEF DataTyped
    <3>2. CASE UNCHANGED <<sent, inflight>>
      BY <1>6, <3>1, <3>2 DEF Write
    <3>3. CASE sent' = [sent EXCEPT ![w] = @ + 1] /\ inflight' = [inflight EXCEPT ![w] = TRUE]
      <4>1. sent' \in [Writers -> Nat]
        BY <3>1, <3>3
      <4>2. inflight' \in [Writers -> BOOLEAN] /\ \A v \in Writers \ {w} : inflight'[v] = inflight[v]
        BY <3>1, <3>3
      <4>3. UNCHANGED <<files, req, fd, lost, overtaken, readers>>
        BY <1>6 DEF Write
      <4> QED BY <4>1, <4>2, <4>3
    <3> QED BY <1>6, <3>2, <3>3 DEF Write
  <2>3. DataTyped' /\ UNCHANGED readers
    BY <2>a, <1>0 DEF DataTyped, files
  <2>p. pc'[w] \in {"body", "abort"} \cup {"done"}
    BY <1>6, <1>0 DEF Write, Ends, Goes, PlainTypeOK, Is
  <2>4. \A v \in Writers \ {w} : inflight'[v] = inflight[v] /\ fd'[v] = fd[v]
    BY <1>6, <1>0 DEF Write, DataTyped, sinks, disk
  <2>5. inflight'[w] \/ pc'[w] \in Working => fd'[w] # None
    BY <1>6, <1>0, <1>o, <2>p, NamesAssumption
       DEF Write, Goes, DataTyped, sinks, disk, Inodes
  <2> QED BY <2>2, <2>3, <2>4, <2>5, <1>w
<1>7. CASE Break(w)
  <2>1. Walks(w, {"body"}, {"abort"}, {})
    BY <1>7 DEF Break, Walks, Steps
  <2>2. Walked
    BY <2>1 DEF Steps, Answers
  <2>3. DataTyped' /\ UNCHANGED readers
    BY <1>7, <1>0 DEF Break, DataTyped, files, sinks, disk, readers, Inodes
  <2>p. pc'[w] \in {"abort"} \cup {"done"}
    BY <1>7, <1>0 DEF Break, Ends, Goes, PlainTypeOK, Is
  <2>4. \A v \in Writers \ {w} : inflight'[v] = inflight[v] /\ fd'[v] = fd[v]
    BY <1>7, <1>0 DEF Break, DataTyped, sinks, disk
  <2>5. inflight'[w] \/ pc'[w] \in Working => fd'[w] # None
    BY <1>7, <1>0, <1>o, <2>p, NamesAssumption
       DEF Break, Goes, DataTyped, sinks, disk, Inodes
  <2> QED BY <2>2, <2>3, <2>4, <2>5, <1>w
<1>8. CASE EndBody(w)
  <2>1. Walks(w, {"body"}, {"abort", "flush"}, {})
    BY <1>8 DEF EndBody, Walks, Steps
  <2>2. Walked
    BY <2>1 DEF Steps, Answers
  <2>3. DataTyped' /\ UNCHANGED readers
    BY <1>8, <1>0 DEF EndBody, DataTyped, files, sinks, disk, readers, Inodes
  <2>p. pc'[w] \in {"abort", "flush"} \cup {"done"}
    BY <1>8, <1>0 DEF EndBody, Ends, Goes, PlainTypeOK, Is
  <2>4. \A v \in Writers \ {w} : inflight'[v] = inflight[v] /\ fd'[v] = fd[v]
    BY <1>8, <1>0 DEF EndBody, DataTyped, sinks, disk
  <2>5. inflight'[w] \/ pc'[w] \in Working => fd'[w] # None
    BY <1>8, <1>0, <1>o, <2>p, NamesAssumption
       DEF EndBody, Goes, DataTyped, sinks, disk, Inodes
  <2> QED BY <2>2, <2>3, <2>4, <2>5, <1>w
<1>9. CASE Abort(w)
  <2>1. Walks(w, {"abort"}, {}, {"failed"})
    BY <1>9 DEF Abort, Walks, Steps
  <2>2. Walked
    BY <2>1 DEF Steps, Answers
  <2>3. DataTyped' /\ UNCHANGED readers
    BY <1>9, <1>0 DEF Abort, DataTyped, files, sinks, disk, readers, Inodes
  <2>p. pc'[w] \in {"done"}
    BY <1>9, <1>0 DEF Abort, Ends, Goes, PlainTypeOK, Is
  <2>4. \A v \in Writers \ {w} : inflight'[v] = inflight[v] /\ fd'[v] = fd[v]
    BY <1>9, <1>0 DEF Abort, DataTyped, sinks, disk
  <2>5. inflight'[w] \/ pc'[w] \in Working => fd'[w] # None
    BY <1>9, <1>0, <1>o, <2>p, NamesAssumption
       DEF Abort, Goes, DataTyped, sinks, disk, Inodes
  <2> QED BY <2>2, <2>3, <2>4, <2>5, <1>w
<1>10. CASE Flush(w)
  <2>1. Walks(w, {"flush"}, {"recheck", "rename", "meta"}, {"failed"})
    BY <1>10, <1>m DEF Flush, Walks, Steps, Is
  <2>2. Walked
    BY <2>1 DEF Steps, Answers
  <2>3. DataTyped' /\ UNCHANGED readers
    BY <1>10, <1>0 DEF Flush, DataTyped, files, sinks, disk, readers, Inodes
  <2>p. pc'[w] \in {"recheck", "rename", "meta"} \cup {"done"}
    BY <1>10, <1>0, <1>m DEF Flush, Ends, Goes, PlainTypeOK, Is
  <2>4. \A v \in Writers \ {w} : inflight'[v] = inflight[v] /\ fd'[v] = fd[v]
    BY <1>10, <1>0 DEF Flush, DataTyped, sinks, disk
  <2>5. inflight'[w] \/ pc'[w] \in Working => fd'[w] # None
    BY <1>10, <1>0, <1>o, <2>p, NamesAssumption
       DEF Flush, Goes, DataTyped, sinks, disk, Inodes
  <2> QED BY <2>2, <2>3, <2>4, <2>5, <1>w
<1>11. CASE Recheck(w)
  <2>1. Walks(w, {"recheck"}, {"rename"}, {"refused"})
    BY <1>11 DEF Recheck, Walks, Steps
  <2>2. Walked
    BY <2>1 DEF Steps, Answers
  <2>3. DataTyped' /\ UNCHANGED readers
    BY <1>11, <1>0 DEF Recheck, DataTyped, files, sinks, disk, readers, Inodes
  <2>p. pc'[w] \in {"rename"} \cup {"done"}
    BY <1>11, <1>0 DEF Recheck, Ends, Goes, PlainTypeOK, Is
  <2>4. \A v \in Writers \ {w} : inflight'[v] = inflight[v] /\ fd'[v] = fd[v]
    BY <1>11, <1>0 DEF Recheck, DataTyped, sinks, disk
  <2>5. inflight'[w] \/ pc'[w] \in Working => fd'[w] # None
    BY <1>11, <1>0, <1>o, <2>p, NamesAssumption
       DEF Recheck, Goes, DataTyped, sinks, disk, Inodes
  <2> QED BY <2>2, <2>3, <2>4, <2>5, <1>w
<1>12. CASE Rename(w)
  <2>1. Walks(w, {"rename"}, {"meta"}, {})
    BY <1>12 DEF Rename, Walks, Steps
  <2>2. Walked
    BY <2>1 DEF Steps, Answers
  <2>3. DataTyped' /\ UNCHANGED readers
    BY <1>12, <1>0 DEF Rename, DataTyped, files, sinks, disk, readers, Inodes
  <2>p. pc'[w] \in {"meta"} \cup {"done"}
    BY <1>12, <1>0 DEF Rename, Ends, Goes, PlainTypeOK, Is
  <2>4. \A v \in Writers \ {w} : inflight'[v] = inflight[v] /\ fd'[v] = fd[v]
    BY <1>12, <1>0 DEF Rename, DataTyped, sinks, disk
  <2>5. inflight'[w] \/ pc'[w] \in Working => fd'[w] # None
    BY <1>12, <1>0, <1>o, <2>p, NamesAssumption
       DEF Rename, Goes, DataTyped, sinks, disk, Inodes
  <2> QED BY <2>2, <2>3, <2>4, <2>5, <1>w
<1>13. CASE Meta(w)
  <2>1. Walks(w, {"meta"}, {}, {"failed", "created"})
    BY <1>13 DEF Meta, Walks, Steps
  <2>2. Walked
    BY <2>1 DEF Steps, Answers
  <2>3. DataTyped' /\ UNCHANGED readers
    BY <1>13, <1>0 DEF Meta, DataTyped, files, sinks, disk, readers, Inodes
  <2>p. pc'[w] \in {"done"}
    BY <1>13, <1>0 DEF Meta, Ends, Goes, PlainTypeOK, Is
  <2>4. \A v \in Writers \ {w} : inflight'[v] = inflight[v] /\ fd'[v] = fd[v]
    BY <1>13, <1>0 DEF Meta, DataTyped, sinks, disk
  <2>5. inflight'[w] \/ pc'[w] \in Working => fd'[w] # None
    BY <1>13, <1>0, <1>o, <2>p, NamesAssumption
       DEF Meta, Goes, DataTyped, sinks, disk, Inodes
  <2> QED BY <2>2, <2>3, <2>4, <2>5, <1>w
<1>14. CASE Drop(w)
  <2>1. Walks(w, Steps \ {"idle", "done"}, {}, {"dropped"})
    BY <1>14, <1>0 DEF Drop, Walks, Steps, PlainTypeOK
  <2>2. Walked
    BY <2>1 DEF Steps, Answers
  <2>3. DataTyped' /\ UNCHANGED readers
    BY <1>14, <1>0 DEF Drop, DataTyped, files, sinks, disk, readers, Inodes
  <2>p. pc'[w] \in {"done"}
    BY <1>14, <1>0 DEF Drop, Ends, Goes, PlainTypeOK, Is
  <2>4. \A v \in Writers \ {w} : inflight'[v] = inflight[v] /\ fd'[v] = fd[v]
    BY <1>14, <1>0 DEF Drop, DataTyped, sinks, disk
  <2>5. inflight'[w] \/ pc'[w] \in Working => fd'[w] # None
    BY <1>14, <1>0, <1>o, <2>p, NamesAssumption
       DEF Drop, Goes, DataTyped, sinks, disk, Inodes
  <2> QED BY <2>2, <2>3, <2>4, <2>5, <1>w
<1>15. CASE Lock(w)
  <2>1. pc' \in [Writers -> Steps] /\ UNCHANGED <<result, loose, fd, inflight, rpc, rfd>>
    BY <1>15, <1>0 DEF Lock, PlainTypeOK, Steps, history, sinks, disk, readers
  <2>2. holder' \in Writers \cup {None}
    BY <1>15, <1>0 DEF Lock, PlainTypeOK
  <2>3. queue' \in Seq(Writers)
    <3>1. queue \in Seq(Writers)
      BY <1>0 DEF PlainTypeOK
    <3>2. queue' = queue \/ queue' = Append(queue, w)
      BY <1>15 DEF Lock
    <3> QED BY <3>1, <3>2
  <2>4. DataTyped' /\ ReadersTyped'
    BY <1>15, <1>0 DEF Lock, DataTyped, ReadersTyped, files, sinks, disk, history, readers
  <2>5. PlainTypeOK'
    BY <1>0, <2>1, <2>2, <2>3, <2>4 DEF PlainTypeOK, DataTyped, ReadersTyped
  <2>6. \A v \in Writers : pc'[v] \in Working => pc[v] \in Working
    BY <1>15, <1>0 DEF Lock, PlainTypeOK
  <2>7. Opened'
    BY <2>1, <2>6, <1>o DEF Opened
  <2> QED BY <2>5, <2>7 DEF TypeInv
<1> HIDE DEF Walked, Working
<1> QED BY <1>1, <1>2, <1>3, <1>4, <1>5, <1>6, <1>7, <1>8, <1>9, <1>10, <1>11, <1>12, <1>13, <1>14, <1>15 DEF Handle

LEMMA LandTyped ==
  ASSUME TypeInv, NEW w \in Writers, Land(w)
  PROVE  TypeInv'
<1>1. PlainTypeOK /\ fd[w] \in Inodes
  BY DEF TypeInv, Opened, PlainTypeOK, Land
<1>2. /\ inflight' \in [Writers -> BOOLEAN] /\ lost' \in [Writers -> BOOLEAN]
      /\ \A v \in Writers : inflight'[v] => inflight[v]
  BY <1>1 DEF Land, PlainTypeOK
<1>3. content' \in [Inodes -> Seq(Inodes)]
  <2>1. content \in [Inodes -> Seq(Inodes)] /\ w \in Inodes
    BY <1>1 DEF PlainTypeOK, Inodes
  <2>2. Append(content[fd[w]], w) \in Seq(Inodes)
    BY <1>1, <2>1
  <2>3. content' = content \/ content' = [content EXCEPT ![fd[w]] = Append(@, w)]
    BY DEF Land
  <2> QED BY <2>1, <2>2, <2>3
<1>4. UNCHANGED <<target, temps, holder, queue, pc, req, fd, sent, result, overtaken, loose,
                  rpc, ask, rfd, got>>
  BY DEF Land, lock, sinks, history, readers
<1>5. PlainTypeOK'
  BY <1>1, <1>2, <1>3, <1>4 DEF PlainTypeOK
<1>6. Opened'
  BY <1>2, <1>4 DEF Opened, TypeInv
<1> QED BY <1>5, <1>6 DEF TypeInv

LEMMA ServeTyped ==
  ASSUME TypeInv, NEW r \in Readers, Serve(r)
  PROVE  TypeInv'
<1>0. PlainTypeOK /\ DataTyped /\ ReadersTyped
  BY Typed DEF TypeInv
<1>1. UNCHANGED <<target, temps, content, holder, queue, pc, req, fd, sent, inflight, lost,
                  result, overtaken, loose>>
  BY DEF Serve, Plan, OpenToRead, Read, files, lock, sinks, disk, history
<1>2. CASE Plan(r)
  <2>1. rpc' \in [Readers -> {"idle", "missing", "open", "failed", "read", "done"}]
        /\ rfd' = rfd /\ got' = got
    BY <1>2, <1>0 DEF Plan, ReadersTyped
  <2>2. ask' \in [Readers -> [file : Inodes \cup {None}, from : Nat, blocks : Seq(Inodes)]]
    <3>1. CASE UNCHANGED ask
      BY <3>1, <1>0 DEF ReadersTyped
    <3>2. CASE target # None /\ ~UNCHANGED ask
      <4>1. PICK from \in 0..Length(target), to \in 0..Length(target) :
              ask' = [ask EXCEPT ![r] =
                        [file |-> target, from |-> from, blocks |-> SubSeq(content[target], from + 1, to)]]
        BY <1>2, <3>2 DEF Plan
      <4>2. content[target] \in Seq(Inodes) /\ target \in Inodes /\ Length(target) \in Nat
        BY <3>2, <1>0 DEF DataTyped, Length
      <4>3. SubSeq(content[target], from + 1, to) \in Seq(Inodes)
        BY <4>2 DEF Length
      <4>4. from \in Nat
        BY <4>2
      <4> QED BY <1>0, <4>1, <4>2, <4>3, <4>4 DEF ReadersTyped
    <3> QED BY <1>2, <3>1, <3>2 DEF Plan
  <2>3. \A x \in Readers : rpc'[x] \in {"read", "done"} => rpc[x] \in {"read", "done"}
    BY <1>2, <1>0 DEF Plan, ReadersTyped
  <2> QED BY <1>0, <1>1, <2>1, <2>2, <2>3 DEF TypeInv, Opened, PlainTypeOK, ReadersTyped
<1>3. CASE OpenToRead(r)
  <2>1. /\ rpc' \in [Readers -> {"idle", "missing", "open", "failed", "read", "done"}]
        /\ rfd' \in [Readers -> Inodes \cup {None}] /\ UNCHANGED <<ask, got>>
    BY <1>3, <1>0, ZenonT(60) DEF OpenToRead, ReadersTyped, DataTyped
  <2>2. \A x \in Readers : rpc'[x] \in {"read", "done"} => rfd'[x] # None
    BY <1>3, <1>0 DEF OpenToRead, ReadersTyped, TypeInv, Opened
  <2> QED BY <1>0, <1>1, <2>1, <2>2 DEF TypeInv, Opened, PlainTypeOK, ReadersTyped
<1>4. CASE Read(r)
  <2>1. /\ rpc' \in [Readers -> {"idle", "missing", "open", "failed", "read", "done"}]
        /\ UNCHANGED <<ask, rfd>>
        /\ \A x \in Readers : rpc'[x] \in {"read", "done"} => rpc[x] \in {"read", "done"}
    BY <1>4, <1>0 DEF Read, ReadersTyped
  <2>2. got' \in [Readers -> Seq(Inodes)]
    <3> DEFINE next == ask[r].from + Len(got[r]) + 1
    <3>1. \/ got' = got
          \/ next <= Length(rfd[r]) /\ got' = [got EXCEPT ![r] = Append(@, content[rfd[r]][next])]
      BY <1>4 DEF Read
    <3>2. rfd[r] \in Inodes
      BY <1>4, <1>0 DEF Read, ReadersTyped, TypeInv, Opened
    <3>3. ask[r].from \in Nat /\ got[r] \in Seq(Inodes) /\ content[rfd[r]] \in Seq(Inodes)
      BY <1>0, <3>2 DEF DataTyped, ReadersTyped
    <3>4. next <= Length(rfd[r]) => content[rfd[r]][next] \in Inodes
      BY <3>3, SMTT(60) DEF Length
    <3>5. got \in [Readers -> Seq(Inodes)]
      BY <1>0 DEF ReadersTyped
    <3>6. CASE got' = got
      BY <3>5, <3>6
    <3>7. CASE next <= Length(rfd[r]) /\ got' = [got EXCEPT ![r] = Append(@, content[rfd[r]][next])]
      <4>1. Append(got[r], content[rfd[r]][next]) \in Seq(Inodes)
        BY <3>3, <3>4, <3>7
      <4> HIDE DEF next
      <4> QED BY <3>5, <3>7, <4>1
    <3> QED BY <3>1, <3>6, <3>7
  <2> QED BY <1>0, <1>1, <2>1, <2>2 DEF TypeInv, Opened, PlainTypeOK, ReadersTyped
<1> QED BY <1>2, <1>3, <1>4 DEF Serve

LEMMA TypeStep == TypeInv /\ [Next]_vars => TypeInv'
<1> SUFFICES ASSUME TypeInv, [Next]_vars PROVE TypeInv'
  OBVIOUS
<1>1. ASSUME NEW w \in Writers, Handle(w) \/ Land(w) \/ Drop(w) PROVE TypeInv'
  BY <1>1, HandlerTyped, LandTyped
<1>2. ASSUME NEW r \in Readers, Serve(r) PROVE TypeInv'
  BY <1>2, ServeTyped
<1>3. CASE RemoveTarget
  BY <1>3 DEF RemoveTarget, TypeInv, PlainTypeOK, Opened, lock, sinks, disk, readers
<1>4. CASE UNCHANGED vars
  BY <1>4 DEF vars, files, lock, sinks, disk, history, readers, TypeInv, PlainTypeOK, Opened
<1> QED BY <1>1, <1>2, <1>3, <1>4 DEF Next

LEMMA TypeInit == Init => TypeInv
<1> SUFFICES ASSUME Init PROVE TypeInv
  OBVIOUS
<1>1. content \in [Inodes -> Seq(Inodes)]
  <2>1. Old \in Inodes /\ <<>> \in Seq(Inodes) /\ <<Old>> \in Seq(Inodes)
    BY DEF Inodes
  <2> QED BY <2>1 DEF Init
<1>2. DataTyped
  BY <1>1 DEF Init, DataTyped, Inodes
<1>3. ReadersTyped
  BY DEF Init, ReadersTyped
<1>4. PlainTypeOK
  <2>1. holder \in Writers \cup {None} /\ queue \in Seq(Writers) /\ loose \in BOOLEAN
    <3>1. <<>> \in Seq(Writers)
      OBVIOUS
    <3>2. holder = None /\ queue = <<>> /\ loose = FALSE
      BY DEF Init
    <3> QED BY <3>1, <3>2
  <2>2. pc \in [Writers -> Steps] /\ result \in [Writers -> Answers]
    BY DEF Init, Steps, Answers
  <2> QED BY <1>2, <1>3, <2>1, <2>2, Typed
<1>5. Opened
  BY DEF Init, Opened
<1> QED BY <1>4, <1>5 DEF TypeInv

(* Names refer to inodes, and what write_stream hands to a sink or         *)
(* read_stream to a reader has been opened before.                         *)
THEOREM PlainTypeCorrect == Spec => []PlainTypeOK
<1>1. TypeInv => PlainTypeOK
  BY DEF TypeInv
<1> QED BY <1>1, TypeInit, TypeStep, PTL DEF Spec

-----------------------------------------------------------------------------
(* What one step of an upload does, said of that upload alone.             *)

Hop(w, from, to) == pc[w] = from /\ pc'[w] = to
Quiet(w) == fd'[w] = fd[w] /\ sent'[w] = sent[w] /\ inflight'[w] = inflight[w]
Settled(w) == ~inflight[w] /\ ~lost[w]

(* The handler is over.                                                    *)
Over(w) ==
  /\ pc[w] # "done" /\ (result'[w] = "created" => pc[w] = "meta")
  /\ pc'[w] = "done" /\ Quiet(w) /\ UNCHANGED <<target, overtaken>>
  /\ (holder # w => holder' = holder)
  /\ loose' = (loose \/ (holder = w /\ inflight[w]))

(* It goes from one await to the next.                                     *)
Forward(w) ==
  /\ Quiet(w) /\ result'[w] = result[w] /\ UNCHANGED <<target, loose>>
  /\ holder' = holder \/ (holder = None /\ pc[w] = "lock")
  /\ overtaken' = overtaken
       \/ (pc[w] = "body" /\ pc'[w] \in {"flush", "abort"} /\ Is(w, "create") /\ target # None
            /\ overtaken' = overtaken \cup {w})
  /\ \/ Is(w, "create") /\ Hop(w, "idle", "exists")
     \/ Is(w, "overwrite") /\ Hop(w, "idle", "temp")
     \/ Is(w, "resume") /\ Hop(w, "idle", "lock")
     \/ Hop(w, "exists", "temp") \/ Hop(w, "lock", "open") \/ Hop(w, "body", "abort")
     \/ Hop(w, "measure", "body") /\ Length(fd[w]) = req[w].offset
     \/ Hop(w, "body", "flush") /\ (req[w].final => Total(w) = req[w].size)
     \/ Is(w, "create") /\ Hop(w, "flush", "recheck") /\ Settled(w)
     \/ Is(w, "overwrite") /\ Hop(w, "flush", "rename") /\ Settled(w)
     \/ Is(w, "resume") /\ Hop(w, "flush", "meta") /\ Settled(w)
     \/ Hop(w, "recheck", "rename") /\ target = None

(* It makes a file, opens one, writes to it, or gives it the name.         *)
Stays(w) == result'[w] = result[w] /\ UNCHANGED <<holder, loose, overtaken>>
Makes(w) ==
  /\ Hop(w, "temp", "body") /\ fd'[w] = w /\ Stays(w) /\ target' = target
  /\ sent'[w] = sent[w] /\ inflight'[w] = inflight[w]
Opens(w) ==
  /\ Hop(w, "open", "measure") /\ fd'[w] = target /\ target # None /\ holder = w
  /\ Stays(w) /\ target' = target /\ sent'[w] = sent[w] /\ inflight'[w] = inflight[w]
Writes(w) ==
  /\ Hop(w, "body", "body") /\ Settled(w) /\ Stays(w) /\ target' = target
  /\ fd'[w] = fd[w] /\ sent'[w] = sent[w] + 1 /\ inflight'[w] = TRUE
Renames(w) ==
  /\ Hop(w, "rename", "meta") /\ Stays(w) /\ Quiet(w) /\ target' = w

Move(w) == Over(w) \/ Forward(w) \/ Makes(w) \/ Opens(w) \/ Writes(w) \/ Renames(w)

(* What it leaves alone.                                                   *)
Alone(w) ==
  /\ UNCHANGED <<req, content, lost, rpc, ask, rfd, got>>
  /\ \A v \in Writers \ {w} :
       /\ pc'[v] = pc[v] /\ result'[v] = result[v] /\ fd'[v] = fd[v]
       /\ sent'[v] = sent[v] /\ inflight'[v] = inflight[v]

LEMMA EndsOver ==
  ASSUME PlainTypeOK, NEW w \in Writers, NEW a \in Answers, Ends(w, a), pc[w] # "done",
         a = "created" => pc[w] = "meta",
         UNCHANGED <<target, content, sinks, disk, overtaken, readers>>
  PROVE  Over(w) /\ Alone(w)
<1>1. /\ pc' = [pc EXCEPT ![w] = "done"] /\ result' = [result EXCEPT ![w] = a]
      /\ holder # w => holder' = holder
  BY EndsTyped
<1>2. pc'[w] = "done" /\ result'[w] = a
  BY <1>1 DEF PlainTypeOK
<1>3. \A v \in Writers \ {w} : pc'[v] = pc[v] /\ result'[v] = result[v]
  BY <1>1 DEF PlainTypeOK
<1>4. loose' = (loose \/ (holder = w /\ inflight[w]))
  BY DEF Ends
<1>5. Over(w)
  BY <1>1, <1>2, <1>4 DEF Over, Quiet, sinks, disk
<1> QED BY <1>3, <1>5 DEF Alone, sinks, disk, readers

LEMMA GoesAlone ==
  ASSUME PlainTypeOK, NEW w \in Writers, NEW s, Goes(w, s)
  PROVE  /\ pc'[w] = s /\ \A v \in Writers \ {w} : pc'[v] = pc[v]
         /\ UNCHANGED <<holder, queue, result, loose>>
BY DEF Goes, PlainTypeOK, lock

LEMMA Moves ==
  ASSUME PlainTypeOK, NEW w \in Writers, Handle(w) \/ Drop(w)
  PROVE  Alone(w) /\ Move(w)
<1>m. req[w] \in Requests /\ req[w].mode \in {"create", "overwrite", "resume"}
  BY RequestFields DEF PlainTypeOK
<1>1. CASE Arrive(w)
  <2>1. CASE req[w].size > MaxUpload
    <3>1. /\ Ends(w, "refused") /\ pc[w] # "done"
          /\ UNCHANGED <<target, content, sinks, disk, overtaken, readers>>
      BY <1>1, <2>1 DEF Arrive, files, sinks
    <3> QED BY <3>1, <1>1, EndsOver DEF Move, Answers, Arrive
  <2>2. CASE ~(req[w].size > MaxUpload) /\ Is(w, "create")
    <3>1. Goes(w, "exists")
      BY <1>1, <2>2, <1>m DEF Arrive, Is
    <3>2. pc'[w] = "exists" /\ (\A v \in Writers \ {w} : pc'[v] = pc[v]) /\ UNCHANGED <<holder, result, loose>>
      BY <3>1, GoesAlone
    <3>3. Alone(w)
      BY <3>2, <1>1, <2>2 DEF Arrive, Alone, PlainTypeOK, files, sinks, disk, readers
    <3>4. Forward(w)
      BY <3>2, <1>1, <2>2, <1>m DEF Arrive, Forward, Quiet, Is, Hop, PlainTypeOK, files, sinks, disk
    <3> QED BY <3>3, <3>4 DEF Move
  <2>3. CASE ~(req[w].size > MaxUpload) /\ Is(w, "overwrite")
    <3>1. Goes(w, "temp")
      BY <1>1, <2>3, <1>m DEF Arrive, Is
    <3>2. pc'[w] = "temp" /\ (\A v \in Writers \ {w} : pc'[v] = pc[v]) /\ UNCHANGED <<holder, result, loose>>
      BY <3>1, GoesAlone
    <3>3. Alone(w)
      BY <3>2, <1>1, <2>3 DEF Arrive, Alone, PlainTypeOK, files, sinks, disk, readers
    <3>4. Forward(w)
      BY <3>2, <1>1, <2>3, <1>m DEF Arrive, Forward, Quiet, Is, Hop, PlainTypeOK, files, sinks, disk
    <3> QED BY <3>3, <3>4 DEF Move
  <2>4. CASE ~(req[w].size > MaxUpload) /\ Is(w, "resume")
    <3>1. Goes(w, "lock")
      BY <1>1, <2>4, <1>m DEF Arrive, Is
    <3>2. pc'[w] = "lock" /\ (\A v \in Writers \ {w} : pc'[v] = pc[v]) /\ UNCHANGED <<holder, result, loose>>
      BY <3>1, GoesAlone
    <3>3. Alone(w)
      BY <3>2, <1>1, <2>4 DEF Arrive, Alone, PlainTypeOK, files, sinks, disk, readers
    <3>4. Forward(w)
      BY <3>2, <1>1, <2>4, <1>m DEF Arrive, Forward, Quiet, Is, Hop, PlainTypeOK, files, sinks, disk
    <3> QED BY <3>3, <3>4 DEF Move
  <2> QED BY <1>1, <2>1, <2>2, <2>3, <2>4, <1>m DEF Arrive, Is
<1>2. CASE Exists(w)
  <2>1. CASE target # None
    <3>1. /\ Ends(w, "refused") /\ pc[w] # "done"
          /\ UNCHANGED <<target, content, sinks, disk, overtaken, readers>>
      BY <1>2, <2>1 DEF Exists, files, sinks
    <3> QED BY <3>1, <1>2, EndsOver DEF Move, Answers, Exists
  <2>2. CASE target = None
    <3>1. Goes(w, "temp")
      BY <1>2, <2>2, <1>m DEF Exists, Is
    <3>2. pc'[w] = "temp" /\ (\A v \in Writers \ {w} : pc'[v] = pc[v]) /\ UNCHANGED <<holder, result, loose>>
      BY <3>1, GoesAlone
    <3>3. Alone(w)
      BY <3>2, <1>2, <2>2 DEF Exists, Alone, PlainTypeOK, files, sinks, disk, readers
    <3>4. Forward(w)
      BY <3>2, <1>2, <2>2, <1>m DEF Exists, Forward, Quiet, Is, Hop, PlainTypeOK, files, sinks, disk
    <3> QED BY <3>3, <3>4 DEF Move
  <2> QED BY <1>2, <2>1, <2>2 DEF Exists
<1>3. CASE CreateTemp(w)
  <2>1. CASE TRUE
    <3>1. Goes(w, "body")
      BY <1>3, <2>1, <1>m DEF CreateTemp, Is
    <3>2. pc'[w] = "body" /\ (\A v \in Writers \ {w} : pc'[v] = pc[v]) /\ UNCHANGED <<holder, result, loose>>
      BY <3>1, GoesAlone
    <3>3. Alone(w)
      BY <3>2, <1>3, <2>1 DEF CreateTemp, Alone, PlainTypeOK, files, sinks, disk, readers
    <3>4. Makes(w)
      BY <3>2, <1>3, <2>1, <1>m DEF CreateTemp, Makes, Stays, Hop, PlainTypeOK, files, sinks, disk
    <3> QED BY <3>3, <3>4 DEF Move
  <2> QED BY <1>3, <2>1 DEF CreateTemp
<1>4. CASE Open(w)
  <2>1. CASE target = None
    <3>1. /\ Ends(w, "failed") /\ pc[w] # "done"
          /\ UNCHANGED <<target, content, sinks, disk, overtaken, readers>>
      BY <1>4, <2>1 DEF Open, files, sinks
    <3> QED BY <3>1, <1>4, EndsOver DEF Move, Answers, Open
  <2>2. CASE target # None
    <3>1. Goes(w, "measure")
      BY <1>4, <2>2, <1>m DEF Open, Is
    <3>2. pc'[w] = "measure" /\ (\A v \in Writers \ {w} : pc'[v] = pc[v]) /\ UNCHANGED <<holder, result, loose>>
      BY <3>1, GoesAlone
    <3>3. Alone(w)
      BY <3>2, <1>4, <2>2 DEF Open, Alone, PlainTypeOK, files, sinks, disk, readers
    <3>4. Opens(w)
      BY <3>2, <1>4, <2>2, <1>m DEF Open, Opens, Stays, Hop, PlainTypeOK, files, sinks, disk
    <3> QED BY <3>3, <3>4 DEF Move
  <2> QED BY <1>4, <2>1, <2>2 DEF Open
<1>5. CASE Measure(w)
  <2>1. CASE Length(fd[w]) # req[w].offset
    <3>1. /\ Ends(w, "failed") /\ pc[w] # "done"
          /\ UNCHANGED <<target, content, sinks, disk, overtaken, readers>>
      BY <1>5, <2>1 DEF Measure, files, sinks
    <3> QED BY <3>1, <1>5, EndsOver DEF Move, Answers, Measure
  <2>2. CASE Length(fd[w]) = req[w].offset
    <3>1. Goes(w, "body")
      BY <1>5, <2>2, <1>m DEF Measure, Is
    <3>2. pc'[w] = "body" /\ (\A v \in Writers \ {w} : pc'[v] = pc[v]) /\ UNCHANGED <<holder, result, loose>>
      BY <3>1, GoesAlone
    <3>3. Alone(w)
      BY <3>2, <1>5, <2>2 DEF Measure, Alone, PlainTypeOK, files, sinks, disk, readers
    <3>4. Forward(w)
      BY <3>2, <1>5, <2>2, <1>m DEF Measure, Forward, Quiet, Is, Hop, PlainTypeOK, files, sinks, disk
    <3> QED BY <3>3, <3>4 DEF Move
  <2> QED BY <1>5, <2>1, <2>2 DEF Measure
<1>6. CASE Write(w)
  <2>1. CASE lost[w] \/ Total(w) + 1 > req[w].size
    <3>1. Goes(w, "abort")
      BY <1>6, <2>1, <1>m DEF Write, Is
    <3>2. pc'[w] = "abort" /\ (\A v \in Writers \ {w} : pc'[v] = pc[v]) /\ UNCHANGED <<holder, result, loose>>
      BY <3>1, GoesAlone
    <3>3. Alone(w)
      BY <3>2, <1>6, <2>1 DEF Write, Alone, PlainTypeOK, files, sinks, disk, readers
    <3>4. Forward(w)
      BY <3>2, <1>6, <2>1, <1>m DEF Write, Forward, Quiet, Is, Hop, PlainTypeOK, files, sinks, disk
    <3> QED BY <3>3, <3>4 DEF Move
  <2>2. CASE ~(lost[w] \/ Total(w) + 1 > req[w].size)
    <3>1. Goes(w, "body")
      BY <1>6, <2>2, <1>m DEF Write, Is
    <3>2. pc'[w] = "body" /\ (\A v \in Writers \ {w} : pc'[v] = pc[v]) /\ UNCHANGED <<holder, result, loose>>
      BY <3>1, GoesAlone
    <3>3. Alone(w)
      BY <3>2, <1>6, <2>2 DEF Write, Alone, PlainTypeOK, files, sinks, disk, readers
    <3>4. Writes(w)
      BY <3>2, <1>6, <2>2, <1>m DEF Write, Writes, Stays, Settled, Hop, PlainTypeOK, files, sinks, disk
    <3> QED BY <3>3, <3>4 DEF Move
  <2> QED BY <1>6, <2>1, <2>2 DEF Write
<1>7. CASE Break(w)
  <2>1. CASE TRUE
    <3>1. Goes(w, "abort")
      BY <1>7, <2>1, <1>m DEF Break, Is
    <3>2. pc'[w] = "abort" /\ (\A v \in Writers \ {w} : pc'[v] = pc[v]) /\ UNCHANGED <<holder, result, loose>>
      BY <3>1, GoesAlone
    <3>3. Alone(w)
      BY <3>2, <1>7, <2>1 DEF Break, Alone, PlainTypeOK, files, sinks, disk, readers
    <3>4. Forward(w)
      BY <3>2, <1>7, <2>1, <1>m DEF Break, Forward, Quiet, Is, Hop, PlainTypeOK, files, sinks, disk
    <3> QED BY <3>3, <3>4 DEF Move
  <2> QED BY <1>7, <2>1 DEF Break
<1>8. CASE EndBody(w)
  <2>1. CASE req[w].final /\ Total(w) # req[w].size
    <3>1. Goes(w, "abort")
      BY <1>8, <2>1, <1>m DEF EndBody, Is
    <3>2. pc'[w] = "abort" /\ (\A v \in Writers \ {w} : pc'[v] = pc[v]) /\ UNCHANGED <<holder, result, loose>>
      BY <3>1, GoesAlone
    <3>3. Alone(w)
      BY <3>2, <1>8, <2>1 DEF EndBody, Alone, PlainTypeOK, files, sinks, disk, readers
    <3>4. Forward(w)
      BY <3>2, <1>8, <2>1, <1>m DEF EndBody, Forward, Quiet, Is, Hop, PlainTypeOK, files, sinks, disk
    <3> QED BY <3>3, <3>4 DEF Move
  <2>2. CASE ~(req[w].final /\ Total(w) # req[w].size)
    <3>1. Goes(w, "flush")
      BY <1>8, <2>2, <1>m DEF EndBody, Is
    <3>2. pc'[w] = "flush" /\ (\A v \in Writers \ {w} : pc'[v] = pc[v]) /\ UNCHANGED <<holder, result, loose>>
      BY <3>1, GoesAlone
    <3>3. Alone(w)
      BY <3>2, <1>8, <2>2 DEF EndBody, Alone, PlainTypeOK, files, sinks, disk, readers
    <3>4. Forward(w)
      BY <3>2, <1>8, <2>2, <1>m DEF EndBody, Forward, Quiet, Is, Hop, PlainTypeOK, files, sinks, disk
    <3> QED BY <3>3, <3>4 DEF Move
  <2> QED BY <1>8, <2>1, <2>2 DEF EndBody
<1>9. CASE Abort(w)
  <2>1. CASE TRUE
    <3>1. /\ Ends(w, "failed") /\ pc[w] # "done"
          /\ UNCHANGED <<target, content, sinks, disk, overtaken, readers>>
      BY <1>9, <2>1 DEF Abort, files, sinks
    <3> QED BY <3>1, <1>9, EndsOver DEF Move, Answers, Abort
  <2> QED BY <1>9, <2>1 DEF Abort
<1>10. CASE Flush(w)
  <2>1. CASE lost[w]
    <3>1. /\ Ends(w, "failed") /\ pc[w] # "done"
          /\ UNCHANGED <<target, content, sinks, disk, overtaken, readers>>
      BY <1>10, <2>1 DEF Flush, files, sinks
    <3> QED BY <3>1, <1>10, EndsOver DEF Move, Answers, Flush
  <2>2. CASE ~lost[w] /\ Is(w, "create")
    <3>1. Goes(w, "recheck")
      BY <1>10, <2>2, <1>m DEF Flush, Is
    <3>2. pc'[w] = "recheck" /\ (\A v \in Writers \ {w} : pc'[v] = pc[v]) /\ UNCHANGED <<holder, result, loose>>
      BY <3>1, GoesAlone
    <3>3. Alone(w)
      BY <3>2, <1>10, <2>2 DEF Flush, Alone, PlainTypeOK, files, sinks, disk, readers
    <3>4. Forward(w)
      BY <3>2, <1>10, <2>2, <1>m DEF Flush, Forward, Quiet, Is, Settled, Hop, PlainTypeOK, files, sinks, disk
    <3> QED BY <3>3, <3>4 DEF Move
  <2>3. CASE ~lost[w] /\ Is(w, "overwrite")
    <3>1. Goes(w, "rename")
      BY <1>10, <2>3, <1>m DEF Flush, Is
    <3>2. pc'[w] = "rename" /\ (\A v \in Writers \ {w} : pc'[v] = pc[v]) /\ UNCHANGED <<holder, result, loose>>
      BY <3>1, GoesAlone
    <3>3. Alone(w)
      BY <3>2, <1>10, <2>3 DEF Flush, Alone, PlainTypeOK, files, sinks, disk, readers
    <3>4. Forward(w)
      BY <3>2, <1>10, <2>3, <1>m DEF Flush, Forward, Quiet, Is, Settled, Hop, PlainTypeOK, files, sinks, disk
    <3> QED BY <3>3, <3>4 DEF Move
  <2>4. CASE ~lost[w] /\ Is(w, "resume")
    <3>1. Goes(w, "meta")
      BY <1>10, <2>4, <1>m DEF Flush, Is
    <3>2. pc'[w] = "meta" /\ (\A v \in Writers \ {w} : pc'[v] = pc[v]) /\ UNCHANGED <<holder, result, loose>>
      BY <3>1, GoesAlone
    <3>3. Alone(w)
      BY <3>2, <1>10, <2>4 DEF Flush, Alone, PlainTypeOK, files, sinks, disk, readers
    <3>4. Forward(w)
      BY <3>2, <1>10, <2>4, <1>m DEF Flush, Forward, Quiet, Is, Settled, Hop, PlainTypeOK, files, sinks, disk
    <3> QED BY <3>3, <3>4 DEF Move
  <2> QED BY <1>10, <2>1, <2>2, <2>3, <2>4, <1>m DEF Flush, Is
<1>11. CASE Recheck(w)
  <2>1. CASE target # None
    <3>1. /\ Ends(w, "refused") /\ pc[w] # "done"
          /\ UNCHANGED <<target, content, sinks, disk, overtaken, readers>>
      BY <1>11, <2>1 DEF Recheck, files, sinks
    <3> QED BY <3>1, <1>11, EndsOver DEF Move, Answers, Recheck
  <2>2. CASE target = None
    <3>1. Goes(w, "rename")
      BY <1>11, <2>2, <1>m DEF Recheck, Is
    <3>2. pc'[w] = "rename" /\ (\A v \in Writers \ {w} : pc'[v] = pc[v]) /\ UNCHANGED <<holder, result, loose>>
      BY <3>1, GoesAlone
    <3>3. Alone(w)
      BY <3>2, <1>11, <2>2 DEF Recheck, Alone, PlainTypeOK, files, sinks, disk, readers
    <3>4. Forward(w)
      BY <3>2, <1>11, <2>2, <1>m DEF Recheck, Forward, Quiet, Is, Hop, PlainTypeOK, files, sinks, disk
    <3> QED BY <3>3, <3>4 DEF Move
  <2> QED BY <1>11, <2>1, <2>2 DEF Recheck
<1>12. CASE Rename(w)
  <2>1. CASE TRUE
    <3>1. Goes(w, "meta")
      BY <1>12, <2>1, <1>m DEF Rename, Is
    <3>2. pc'[w] = "meta" /\ (\A v \in Writers \ {w} : pc'[v] = pc[v]) /\ UNCHANGED <<holder, result, loose>>
      BY <3>1, GoesAlone
    <3>3. Alone(w)
      BY <3>2, <1>12, <2>1 DEF Rename, Alone, PlainTypeOK, files, sinks, disk, readers
    <3>4. Renames(w)
      BY <3>2, <1>12, <2>1, <1>m DEF Rename, Renames, Stays, Quiet, Hop, PlainTypeOK, files, sinks, disk
    <3> QED BY <3>3, <3>4 DEF Move
  <2> QED BY <1>12, <2>1 DEF Rename
<1>13. CASE Meta(w)
  <2>1. CASE target = None
    <3>1. /\ Ends(w, "failed") /\ pc[w] # "done"
          /\ UNCHANGED <<target, content, sinks, disk, overtaken, readers>>
      BY <1>13, <2>1 DEF Meta, files, sinks
    <3> QED BY <3>1, <1>13, EndsOver DEF Move, Answers, Meta
  <2>2. CASE target # None
    <3>1. /\ Ends(w, "created") /\ pc[w] # "done"
          /\ UNCHANGED <<target, content, sinks, disk, overtaken, readers>>
      BY <1>13, <2>2 DEF Meta, files, sinks
    <3> QED BY <3>1, <1>13, EndsOver DEF Move, Answers, Meta
  <2> QED BY <1>13, <2>1, <2>2 DEF Meta
<1>14. CASE Drop(w)
  <2>1. CASE TRUE
    <3>1. /\ Ends(w, "dropped") /\ pc[w] # "done"
          /\ UNCHANGED <<target, content, sinks, disk, overtaken, readers>>
      BY <1>14, <2>1 DEF Drop, files, sinks
    <3> QED BY <3>1, <1>14, EndsOver DEF Move, Answers, Drop
  <2> QED BY <1>14, <2>1 DEF Drop
<1>15. CASE Lock(w)
  <2>1. Hop(w, "lock", "open") /\ \A v \in Writers \ {w} : pc'[v] = pc[v]
    BY <1>15 DEF Lock, Hop, PlainTypeOK
  <2>2. holder' = holder \/ holder = None
    BY <1>15 DEF Lock
  <2>3. Alone(w)
    BY <1>15, <2>1 DEF Lock, Alone, files, sinks, disk, history, readers
  <2>4. Forward(w)
    BY <1>15, <2>1, <2>2 DEF Lock, Forward, Quiet, Hop, files, sinks, disk, history
  <2> QED BY <2>3, <2>4 DEF Move
<1> QED BY <1>1, <1>2, <1>3, <1>4, <1>5, <1>6, <1>7, <1>8, <1>9, <1>10, <1>11, <1>12, <1>13, <1>14, <1>15 DEF Handle

-----------------------------------------------------------------------------
(* Where a handler is says what its sink has done.                         *)

Early == {"idle", "exists", "temp", "lock", "open", "measure"}
Late  == {"recheck", "rename", "meta"}

WalkOK(w) ==
  /\ pc[w] # "done" => result[w] = "none"
  /\ pc[w] \in Early \cup Late => Settled(w)
  /\ pc[w] \in Early => sent[w] = 0
  /\ pc[w] \in {"flush"} \cup Late /\ req[w].final => Total(w) = req[w].size
  /\ ~Settled(w) => sent[w] # 0
  /\ ~(inflight[w] /\ lost[w])
  /\ Is(w, "resume") => pc[w] \notin {"exists", "temp", "recheck", "rename"}
  /\ ~Is(w, "resume") => pc[w] \notin {"lock", "open", "measure"} /\ fd[w] \in {w, None}
  /\ ~Is(w, "resume") /\ pc[w] \in {"body", "abort", "flush", "recheck", "rename", "meta"}
       => fd[w] = w
  /\ ~Is(w, "resume") /\ sent[w] # 0 => fd[w] = w

WalkInv == \A w \in Writers : WalkOK(w)

LEMMA WalkHandler ==
  ASSUME TypeInv, WalkInv, NEW w \in Writers, Handle(w) \/ Drop(w)
  PROVE  WalkInv'
<1>1. PlainTypeOK /\ Alone(w) /\ Move(w) /\ WalkOK(w)
  BY Moves DEF TypeInv, WalkInv
<1>m. req[w] \in Requests /\ req[w].mode \in {"create", "overwrite", "resume"}
      /\ sent[w] \in Nat
  BY <1>1, RequestFields DEF PlainTypeOK
<1>2. ASSUME NEW v \in Writers \ {w} PROVE WalkOK(v)'
  BY <1>1, <1>2 DEF WalkInv, WalkOK, Alone, Settled, Is, Total
<1>3. UNCHANGED <<req, lost>>
  BY <1>1 DEF Alone
<1>10. WalkOK(w)'
  <2>4. CASE Over(w)
    BY <1>1, <1>3, <2>4 DEF WalkOK, Over, Quiet, Settled, Is, Early, Late
  <2>5. CASE Forward(w)
    BY <1>1, <1>m, <1>3, <2>5 DEF WalkOK, Forward, Quiet, Settled, Is, Early, Late, Hop, Total
  <2>6. CASE Makes(w)
    BY <1>1, <1>3, <2>6 DEF WalkOK, Makes, Stays, Settled, Is, Early, Late, Hop
  <2>7. CASE Opens(w)
    BY <1>1, <1>3, <2>7 DEF WalkOK, Opens, Stays, Settled, Is, Early, Late, Hop
  <2>8. CASE Writes(w)
    <3>1. sent[w] + 1 # 0
      BY <1>m
    <3> QED BY <1>1, <1>3, <2>8, <3>1 DEF WalkOK, Writes, Stays, Settled, Is, Early, Late, Hop
  <2>9. CASE Renames(w)
    BY <1>1, <1>3, <2>9 DEF WalkOK, Renames, Stays, Quiet, Settled, Is, Early, Late, Hop, Total
  <2> QED BY <1>1, <2>4, <2>5, <2>6, <2>7, <2>8, <2>9 DEF Move
<1> QED BY <1>2, <1>10 DEF WalkInv

LEMMA LandPoint ==
  ASSUME PlainTypeOK, NEW w \in Writers, Land(w)
  PROVE  /\ UNCHANGED <<target, temps, holder, queue, pc, req, fd, sent, result, overtaken,
                         loose, rpc, ask, rfd, got>>
         /\ inflight[w] /\ ~inflight'[w]
         /\ \A v \in Writers \ {w} : inflight'[v] = inflight[v] /\ lost'[v] = lost[v]
         /\ \/ content' = [content EXCEPT ![fd[w]] = Append(@, w)] /\ lost'[w] = lost[w]
            \/ content' = content /\ lost'[w]
BY DEF Land, PlainTypeOK, lock, sinks, history, readers

LEMMA WalkLand ==
  ASSUME TypeInv, WalkInv, NEW w \in Writers, Land(w)
  PROVE  WalkInv'
<1>1. PlainTypeOK /\ WalkOK(w)
  BY DEF TypeInv, WalkInv
<1>2. WalkOK(w)'
  BY <1>1, LandPoint DEF WalkOK, Settled, Is, Total
<1>3. ASSUME NEW v \in Writers \ {w} PROVE WalkOK(v)'
  BY <1>1, <1>3, LandPoint DEF WalkInv, WalkOK, Settled, Is, Total
<1> QED BY <1>2, <1>3 DEF WalkInv

(* Downloads and removals touch no upload.                                 *)
Uploads == <<pc, req, fd, sent, inflight, lost, result, content, holder, loose>>

LEMMA OthersUploads ==
  ASSUME UNCHANGED vars \/ RemoveTarget \/ \E r \in Readers : Serve(r)
  PROVE  UNCHANGED Uploads
BY DEF vars, RemoveTarget, Serve, Plan, OpenToRead, Read, Uploads,
       files, lock, sinks, disk, history

LEMMA WalkStep == TypeInv /\ WalkInv /\ [Next]_vars => WalkInv'
<1> SUFFICES ASSUME TypeInv, WalkInv, [Next]_vars PROVE WalkInv'
  OBVIOUS
<1>1. ASSUME NEW w \in Writers, Handle(w) \/ Land(w) \/ Drop(w) PROVE WalkInv'
  BY <1>1, WalkHandler, WalkLand
<1>2. CASE UNCHANGED vars \/ RemoveTarget \/ \E r \in Readers : Serve(r)
  BY <1>2, OthersUploads DEF Uploads, WalkInv, WalkOK, Settled, Is, Total
<1> QED BY <1>1, <1>2 DEF Next

LEMMA WalkInit == Init => WalkInv
BY DEF Init, WalkInv, WalkOK, Settled, Early, Late, Is

-----------------------------------------------------------------------------
(* A file that has the name, or that a second sink writes, is whole.       *)

Landed(w) == IF Settled(w) THEN sent[w] ELSE sent[w] - 1

Whole(w) ==
  /\ ~Is(w, "resume") /\ Settled(w) /\ pc[w] \in {"meta", "done"}
  /\ req[w].final => sent[w] = req[w].size

FileOK(w) ==
  /\ Length(w) >= Landed(w)
  /\ \A k \in 1..Length(w) : content[w][k] = w <=> k <= Landed(w)
  /\ ~Whole(w) => Length(w) = Landed(w)

WholeInv ==
  /\ \A w \in Writers : target = w => Whole(w)
  /\ \A v, w \in Writers : v # w /\ fd[v] = w => Whole(w)
  /\ \A w \in Writers : Is(w, "resume") => fd[w] # w
  /\ \A w \in Writers : ~Is(w, "resume") => FileOK(w)

LEMMA WholeHandler ==
  ASSUME TypeInv, WalkInv, WholeInv, NEW w \in Writers, Handle(w) \/ Drop(w)
  PROVE  WholeInv'
<1>1. PlainTypeOK /\ Alone(w) /\ Move(w) /\ WalkOK(w)
  BY Moves DEF TypeInv, WalkInv
<1>m. /\ req[w] \in Requests /\ req[w].mode \in {"create", "overwrite", "resume"}
      /\ req[w].offset \in Nat /\ req[w].size \in Nat
      /\ req[w].mode # "resume" => req[w].offset = 0
      /\ sent[w] \in Nat /\ Length(w) \in Nat
  BY <1>1, RequestFields DEF PlainTypeOK, Length, Inodes
<1>2. /\ UNCHANGED <<req, lost, content>>
      /\ \A v \in Writers \ {w} : /\ pc'[v] = pc[v] /\ fd'[v] = fd[v] /\ sent'[v] = sent[v]
                                  /\ inflight'[v] = inflight[v]
  BY <1>1 DEF Alone
<1>3. \A v \in Writers \ {w} : Whole(v) => Whole(v)'
  BY <1>2 DEF Whole, Settled, Is
<1>4. Whole(w) => Whole(w)'
  <2>1. CASE Over(w)
    BY <2>1, <1>2 DEF Over, Whole, Quiet, Settled, Is
  <2>2. CASE ~Over(w)
    BY <2>2, <1>1 DEF Move, Forward, Makes, Opens, Writes, Renames, Hop, Whole
  <2> QED BY <2>1, <2>2
<1>5. target' = target \/ (target' = w /\ Whole(w)')
  <2>1. CASE Renames(w)
    <3>1. ~Is(w, "resume") /\ Settled(w)
      BY <1>1, <2>1 DEF WalkOK, Renames, Hop, Late
    <3>2. req[w].final => sent[w] = req[w].size
      BY <1>1, <1>m, <2>1, <3>1 DEF WalkOK, Renames, Hop, Late, Total, Is
    <3>3. pc'[w] = "meta" /\ target' = w /\ UNCHANGED <<req, lost>>
          /\ sent'[w] = sent[w] /\ inflight'[w] = inflight[w]
      BY <2>1, <1>2 DEF Renames, Hop, Quiet
    <3> QED BY <3>1, <3>2, <3>3 DEF Whole, Settled, Is
  <2>2. CASE ~Renames(w)
    BY <2>2, <1>1 DEF Move, Over, Forward, Makes, Opens, Writes
  <2> QED BY <2>1, <2>2
<1>6. fd'[w] = fd[w] \/ fd'[w] = w \/ (fd'[w] = target /\ Is(w, "resume"))
  <2>1. CASE Opens(w)
    BY <2>1, <1>1, <1>m DEF Opens, Hop, WalkOK, Is
  <2>2. CASE ~Opens(w)
    BY <2>2, <1>1 DEF Move, Over, Forward, Makes, Writes, Renames, Quiet
  <2> QED BY <2>1, <2>2
<1>7. \A v \in Writers : target' = v => Whole(v)'
  BY <1>3, <1>4, <1>5 DEF WholeInv
<1>8. \A u, v \in Writers : u # v /\ fd'[u] = v => Whole(v)'
  <2> SUFFICES ASSUME NEW u \in Writers, NEW v \in Writers, u # v, fd'[u] = v
               PROVE  Whole(v)
    BY <1>3, <1>4
  <2> QED BY <1>2, <1>6 DEF WholeInv
<1>9. \A v \in Writers : Is(v, "resume")' => fd'[v] # v
  <2>1. \A v \in Writers \ {w} : Is(v, "resume")' => fd'[v] # v
    BY <1>2 DEF WholeInv, Is
  <2>2. CASE Makes(w)
    BY <2>1, <2>2, <1>1, <1>2 DEF Makes, Hop, WalkOK, Is
  <2>3. CASE Opens(w)
    <3>1. target # w \/ ~Is(w, "resume")
      BY DEF WholeInv, Whole
    <3> QED BY <2>1, <2>3, <3>1, <1>2 DEF Opens, Is
  <2>4. CASE ~Makes(w) /\ ~Opens(w)
    <3>1. fd'[w] = fd[w]
      BY <2>4, <1>1 DEF Move, Over, Forward, Writes, Renames, Quiet
    <3> QED BY <2>1, <3>1, <1>2 DEF WholeInv, Is
  <2> QED BY <2>2, <2>3, <2>4
<1>10. \A v \in Writers \ {w} : ~Is(v, "resume")' => FileOK(v)'
  BY <1>2 DEF WholeInv, FileOK, Is, Length, Landed, Whole, Settled
<1>11. ~Is(w, "resume")' => FileOK(w)'
  <2> SUFFICES ASSUME ~Is(w, "resume") PROVE FileOK(w)'
    BY <1>2 DEF Is
  <2>1. FileOK(w) /\ UNCHANGED content
    BY <1>2 DEF WholeInv
  <2>2. Landed(w)' = Landed(w)
    <3>1. CASE Writes(w)
      BY <3>1, <1>2, <1>m DEF Writes, Landed, Settled
    <3>2. CASE ~Writes(w)
      <4>1. sent'[w] = sent[w] /\ inflight'[w] = inflight[w]
        BY <3>2, <1>1 DEF Move, Over, Forward, Makes, Opens, Renames, Quiet
      <4> QED BY <4>1, <1>2 DEF Landed, Settled
    <3> QED BY <3>1, <3>2
  <2> QED BY <2>1, <2>2, <1>4 DEF FileOK, Length
<1> QED BY <1>7, <1>8, <1>9, <1>10, <1>11 DEF WholeInv

(* A block lands behind what is there.                                     *)
LEMMA LandGrows ==
  ASSUME TypeInv, NEW w \in Writers, Land(w)
  PROVE  \/ content' = content /\ lost'[w]
         \/ /\ fd[w] \in Inodes /\ lost'[w] = lost[w]
            /\ \A i \in Inodes \ {fd[w]} : content'[i] = content[i]
            /\ Length(fd[w])' = Length(fd[w]) + 1
            /\ content'[fd[w]][Length(fd[w]) + 1] = w
            /\ \A k \in 1..Length(fd[w]) : content'[fd[w]][k] = content[fd[w]][k]
<1>1. PlainTypeOK /\ fd[w] \in Inodes
  BY DEF TypeInv, Opened, PlainTypeOK, Land
<1>2. content \in [Inodes -> Seq(Inodes)] /\ content[fd[w]] \in Seq(Inodes)
  BY <1>1 DEF PlainTypeOK
<1>3. CASE content' = [content EXCEPT ![fd[w]] = Append(@, w)] /\ lost'[w] = lost[w]
  <2>1. content'[fd[w]] = Append(content[fd[w]], w)
        /\ \A i \in Inodes \ {fd[w]} : content'[i] = content[i]
    BY <1>1, <1>2, <1>3
  <2>2. fd'[w] = fd[w]
    BY <1>1, LandPoint
  <2>3. /\ Len(content'[fd[w]]) = Len(content[fd[w]]) + 1
        /\ content'[fd[w]][Len(content[fd[w]]) + 1] = w
        /\ \A k \in 1..Len(content[fd[w]]) : content'[fd[w]][k] = content[fd[w]][k]
    BY <1>2, <2>1
  <2> QED BY <1>1, <1>3, <2>1, <2>2, <2>3 DEF Length
<1> QED BY <1>1, <1>3, LandPoint

LEMMA WholeLand ==
  ASSUME TypeInv, WalkInv, WholeInv, NEW w \in Writers, Land(w)
  PROVE  WholeInv'
<1>1. PlainTypeOK /\ WalkOK(w)
  BY DEF TypeInv, WalkInv
<1>2. /\ UNCHANGED <<target, req, pc, fd, sent>> /\ inflight[w] /\ ~inflight'[w]
      /\ \A v \in Writers \ {w} : inflight'[v] = inflight[v] /\ lost'[v] = lost[v]
  BY <1>1, LandPoint
<1>3. \A v \in Writers : Whole(v) => v # w /\ Whole(v)'
  BY <1>2 DEF Whole, Settled, Is
<1>4. \A v \in Writers : target' = v => Whole(v)'
  BY <1>2, <1>3 DEF WholeInv
<1>5. \A u, v \in Writers : u # v /\ fd'[u] = v => Whole(v)'
  BY <1>2, <1>3 DEF WholeInv
<1>6. \A v \in Writers : Is(v, "resume")' => fd'[v] # v
  BY <1>2 DEF WholeInv, Is
<1>7. ASSUME NEW v \in Writers, ~Is(v, "resume")' PROVE FileOK(v)'
  <2>1. ~Is(v, "resume") /\ FileOK(v) /\ v \in Inodes
    BY <1>2, <1>7 DEF WholeInv, Is, Inodes
  <2>2. content \in [Inodes -> Seq(Inodes)] /\ sent[v] \in Nat /\ Length(v) \in Nat
    BY <1>1, <2>1 DEF PlainTypeOK, Length
  <2>3. CASE v # w
    <3>1. Landed(v)' = Landed(v) /\ (Whole(v)' <=> Whole(v))
      BY <1>2, <2>3 DEF Landed, Settled, Whole, Is
    <3>2. CASE content'[v] = content[v]
      BY <2>1, <3>1, <3>2 DEF FileOK, Length
    <3>3. CASE content'[v] # content[v]
      <4>1. fd[w] = v
        BY <2>1, <3>3, LandGrows
      <4>2. Whole(v)
        BY <4>1, <2>3 DEF WholeInv
      <4>3. /\ Length(v)' = Length(v) + 1 /\ content'[v][Length(v) + 1] = w
            /\ \A k \in 1..Length(v) : content'[v][k] = content[v][k]
        BY <4>1, <3>3, <1>2, LandGrows DEF Length
      <4>4. Landed(v) \in Int
        BY <2>2 DEF Landed
      <4>5. \A k \in 1..Length(v)' : content'[v][k] = v <=> k <= Landed(v)
        <5> SUFFICES ASSUME NEW k \in 1..(Length(v) + 1)
                     PROVE  content'[v][k] = v <=> k <= Landed(v)
          BY <4>3
        <5>1. CASE k \in 1..Length(v)
          BY <2>1, <4>3, <5>1 DEF FileOK
        <5>2. CASE k = Length(v) + 1
          <6>1. ~(k <= Landed(v))
            BY <2>1, <2>2, <4>4, <5>2 DEF FileOK
          <6> QED BY <4>3, <5>2, <6>1, <2>3
        <5> QED BY <5>1, <5>2, <2>2
      <4>6. Length(v)' >= Landed(v)
        BY <2>1, <2>2, <4>3, <4>4 DEF FileOK
      <4> QED BY <3>1, <4>2, <4>5, <4>6 DEF FileOK
    <3> QED BY <3>2, <3>3
  <2>4. CASE v = w
    <3>1. sent[w] # 0 /\ ~Settled(w) /\ ~lost[w]
      BY <1>1, <1>2 DEF WalkOK, Settled
    <3>2. fd[w] = w
      BY <1>1, <2>1, <2>4, <3>1 DEF WalkOK
    <3>3. Landed(w) = sent[w] - 1 /\ Length(w) = sent[w] - 1
      BY <2>1, <2>4, <3>1 DEF Landed, FileOK, Whole
    <3>4. CASE content' = content /\ lost'[w]
      <4>1. Landed(w)' = Landed(w)
        BY <1>2, <3>1, <3>4 DEF Landed, Settled
      <4> QED BY <2>1, <2>4, <3>1, <3>3, <3>4, <4>1 DEF FileOK, Length, Whole
    <3>5. CASE ~(content' = content /\ lost'[w])
      <4>1. /\ Length(w)' = Length(w) + 1 /\ content'[w][Length(w) + 1] = w
            /\ \A k \in 1..Length(w) : content'[w][k] = content[w][k]
            /\ lost'[w] = lost[w]
        <5>1. /\ lost'[w] = lost[w] /\ Length(fd[w])' = Length(fd[w]) + 1
              /\ content'[fd[w]][Length(fd[w]) + 1] = w
              /\ \A k \in 1..Length(fd[w]) : content'[fd[w]][k] = content[fd[w]][k]
          BY <3>5, LandGrows, Zenon
        <5> QED BY <5>1, <3>2, <1>2 DEF Length
      <4>2. Landed(w)' = sent[w]
        BY <1>2, <3>1, <4>1 DEF Landed, Settled
      <4>3. Length(w)' = sent[w]
        BY <2>2, <2>4, <3>3, <4>1
      <4>4. \A k \in 1..Length(w)' : content'[w][k] = w
        <5> SUFFICES ASSUME NEW k \in 1..sent[w] PROVE content'[w][k] = w
          BY <4>3
        <5>1. CASE k \in 1..Length(w)
          BY <2>1, <2>2, <2>4, <3>3, <4>1, <5>1 DEF FileOK
        <5>2. CASE k = sent[w]
          BY <2>2, <2>4, <3>3, <4>1, <5>2
        <5> QED BY <5>1, <5>2, <2>2, <2>4, <3>3
      <4>5. \A k \in 1..Length(w)' : k <= Landed(w)'
        BY <2>2, <2>4, <4>2, <4>3
      <4> QED BY <2>2, <2>4, <4>2, <4>3, <4>4, <4>5 DEF FileOK
    <3> QED BY <3>4, <3>5
  <2> QED BY <2>3, <2>4
<1> QED BY <1>4, <1>5, <1>6, <1>7 DEF WholeInv

LEMMA WholeStep == TypeInv /\ WalkInv /\ WholeInv /\ [Next]_vars => WholeInv'
<1> SUFFICES ASSUME TypeInv, WalkInv, WholeInv, [Next]_vars PROVE WholeInv'
  OBVIOUS
<1>1. ASSUME NEW w \in Writers, Handle(w) \/ Land(w) \/ Drop(w) PROVE WholeInv'
  BY <1>1, WholeHandler, WholeLand
<1>2. CASE UNCHANGED vars \/ RemoveTarget \/ \E r \in Readers : Serve(r)
  <2>1. UNCHANGED Uploads
    BY <1>2, OthersUploads
  <2>2. target' = target \/ target' = None
    BY <1>2 DEF vars, RemoveTarget, Serve, Plan, OpenToRead, Read, files
  <2>3. \A w \in Writers : target' = w => target = w
    BY <2>2, NamesAssumption DEF Inodes
  <2>4. \A w \in Writers : (Whole(w)' <=> Whole(w)) /\ (FileOK(w)' <=> FileOK(w))
    BY <2>1 DEF Uploads, Whole, FileOK, Settled, Is, Landed, Length
  <2> QED BY <2>1, <2>3, <2>4 DEF WholeInv, Uploads, Is
<1> QED BY <1>1, <1>2 DEF Next

LEMMA WholeInit == Init => WholeInv
<1> SUFFICES ASSUME Init PROVE WholeInv
  OBVIOUS
<1>1. \A w \in Writers : w # Old /\ w # None /\ target # w /\ fd[w] = None
  BY NamesAssumption DEF Init, Inodes
<1>2. \A w \in Writers : content[w] = <<>> /\ sent[w] = 0 /\ Settled(w)
  BY <1>1 DEF Init, Settled, Inodes
<1>3. \A w \in Writers : FileOK(w)
  BY <1>2 DEF FileOK, Length, Landed
<1> QED BY <1>1, <1>3 DEF WholeInv

(* A file that has its name has the whole body of the request that made it *)
(* (FsSink.commit, write_batch).                                           *)
THEOREM PublishedFilesWhole == Spec => []PublishedWhole
<1>1. TypeInv /\ WalkInv /\ WholeInv => PublishedWhole
  <2> SUFFICES ASSUME TypeInv, WalkInv, WholeInv, NEW w \in Writers, target = w
               PROVE  /\ Length(w) >= sent[w]
                      /\ \A k \in 1..Length(w) : content[w][k] = w <=> k <= sent[w]
                      /\ req[w].final => sent[w] = req[w].size
    BY DEF PublishedWhole
  <2>1. Whole(w) /\ FileOK(w)
    BY DEF WholeInv, Whole
  <2> QED BY <2>1 DEF Whole, FileOK, Landed
<1> QED BY <1>1, TypeInit, TypeStep, WalkInit, WalkStep, WholeInit, WholeStep, PTL DEF Spec

-----------------------------------------------------------------------------
(* A Create that has been overtaken is on its way to a refusal.            *)
OvertakenInv ==
  \A w \in overtaken :
    /\ Is(w, "create") /\ target # None /\ target # w
    /\ pc[w] \in {"flush", "abort", "recheck", "done"} /\ result[w] # "created"

LEMMA OvertakenStep ==
  TypeInv /\ WalkInv /\ WholeInv /\ OvertakenInv /\ [Next]_vars => OvertakenInv'
<1> SUFFICES ASSUME TypeInv, WalkInv, WholeInv, OvertakenInv, [Next]_vars PROVE OvertakenInv'
  OBVIOUS
<1>0. PlainTypeOK /\ overtaken \subseteq Writers
  BY DEF TypeInv, PlainTypeOK
<1>1. ASSUME NEW w \in Writers, Handle(w) \/ Drop(w) PROVE OvertakenInv'
  <2>1. Alone(w) /\ Move(w) /\ WalkOK(w)
    BY <1>0, <1>1, Moves DEF WalkInv
  <2>2. \A v \in Writers \ {w} : pc'[v] = pc[v] /\ result'[v] = result[v]
    BY <2>1 DEF Alone
  <2>3. req' = req
    BY <2>1 DEF Alone
  <2>4. CASE Over(w) \/ Makes(w) \/ Opens(w) \/ Writes(w)
    BY <2>2, <2>3, <2>4, <1>0 DEF OvertakenInv, Over, Makes, Opens, Writes, Stays, Hop, Is
  <2>5. CASE Renames(w)
    <3>1. target' = w /\ overtaken' = overtaken /\ w \notin overtaken /\ w # None
      BY <2>5, NamesAssumption DEF Renames, Stays, Hop, OvertakenInv, Inodes
    <3> QED BY <2>2, <2>3, <3>1, <1>0 DEF OvertakenInv, Is
  <2>6. CASE Forward(w)
    <3>1. target' = target /\ result'[w] = result[w]
      BY <2>6 DEF Forward
    <3>2. ASSUME NEW v \in overtaken PROVE /\ Is(v, "create")' /\ target' # None /\ target' # v
                                         /\ pc'[v] \in {"flush", "abort", "recheck", "done"}
                                         /\ result'[v] # "created"
      <4>1. CASE v # w
        BY <2>2, <2>3, <3>1, <4>1, <1>0 DEF OvertakenInv, Is
      <4>2. CASE v = w
        BY <2>3, <2>6, <3>1, <4>2 DEF OvertakenInv, Is, Forward, Hop
      <4> QED BY <4>1, <4>2
    <3>3. CASE overtaken' = overtaken
      BY <3>2, <3>3 DEF OvertakenInv
    <3>4. CASE /\ pc[w] = "body" /\ pc'[w] \in {"flush", "abort"} /\ Is(w, "create")
               /\ target # None /\ overtaken' = overtaken \cup {w}
      <4>1. target # w
        BY <3>4 DEF WholeInv, Whole
      <4>2. result[w] = "none"
        BY <2>1, <3>4 DEF WalkOK
      <4> QED BY <2>3, <3>1, <3>2, <3>4, <4>1, <4>2 DEF OvertakenInv, Is
    <3> QED BY <2>6, <3>3, <3>4 DEF Forward
  <2> QED BY <2>1, <2>4, <2>5, <2>6 DEF Move
<1>2. ASSUME NEW w \in Writers, Land(w) PROVE OvertakenInv'
  BY <1>0, <1>2, LandPoint DEF OvertakenInv, Is
<1>3. CASE RemoveTarget
  BY <1>3 DEF RemoveTarget, OvertakenInv
<1>4. CASE UNCHANGED vars \/ \E r \in Readers : Serve(r)
  BY <1>4 DEF vars, files, sinks, history, Serve, Plan, OpenToRead, Read, OvertakenInv, Is
<1> QED BY <1>1, <1>2, <1>3, <1>4 DEF Next

(* A Create whose body ended when there was a file neither replaces it nor *)
(* claims to have (FsSink.commit).                                         *)
THEOREM OvertakenCreatesFail == Spec => []OvertakenCreateFails
<1>1. Init => OvertakenInv
  BY DEF Init, OvertakenInv
<1>2. OvertakenInv => OvertakenCreateFails
  BY DEF OvertakenInv, OvertakenCreateFails
<1> QED BY <1>1, <1>2, TypeInit, TypeStep, WalkInit, WalkStep, WholeInit, WholeStep,
           OvertakenStep, PTL DEF Spec

-----------------------------------------------------------------------------
(* Files only grow, so what a reader was promised stays where it was.      *)

Grows ==
  \A i \in Inodes : Length(i)' >= Length(i) /\ \A k \in 1..Length(i) : content'[i][k] = content[i][k]

LEMMA Growth == TypeInv /\ [Next]_vars => Grows
<1> SUFFICES ASSUME TypeInv, [Next]_vars PROVE Grows
  OBVIOUS
<1>0. PlainTypeOK /\ \A i \in Inodes : Length(i) \in Nat
  BY DEF TypeInv, PlainTypeOK, Length
<1>1. CASE content' = content
  BY <1>0, <1>1 DEF Grows, Length
<1>2. ASSUME NEW w \in Writers, Land(w) PROVE Grows
  <2>1. CASE content' = content
    BY <1>1, <2>1
  <2>2. CASE content' # content
    <3>1. /\ fd[w] \in Inodes /\ fd'[w] = fd[w]
          /\ \A i \in Inodes \ {fd[w]} : content'[i] = content[i]
          /\ Length(fd[w])' = Length(fd[w]) + 1
          /\ \A k \in 1..Length(fd[w]) : content'[fd[w]][k] = content[fd[w]][k]
      BY <1>0, <1>2, <2>2, LandGrows, LandPoint
    <3>2. \A i \in Inodes \ {fd[w]} : Length(i)' = Length(i)
      BY <3>1 DEF Length
    <3>3. Len(content'[fd[w]]) = Length(fd[w]) + 1
      BY <3>1 DEF Length
    <3> SUFFICES ASSUME NEW i \in Inodes
                 PROVE  /\ Length(i)' >= Length(i)
                        /\ \A k \in 1..Length(i) : content'[i][k] = content[i][k]
      BY DEF Grows
    <3>4. CASE i = fd[w]
      BY <1>0, <3>1, <3>3, <3>4 DEF Length
    <3>5. CASE i # fd[w]
      BY <1>0, <3>1, <3>2, <3>5
    <3> QED BY <3>4, <3>5
  <2> QED BY <2>1, <2>2
<1>3. ASSUME NEW w \in Writers, Handle(w) \/ Drop(w) PROVE Grows
  BY <1>0, <1>1, <1>3, Moves DEF Alone
<1>4. CASE UNCHANGED vars \/ RemoveTarget \/ \E r \in Readers : Serve(r)
  BY <1>1, <1>4, OthersUploads DEF Uploads
<1> QED BY <1>2, <1>3, <1>4 DEF Next

(* What a download was promised is in the file of its metadata, and what   *)
(* it has sent is in the file it reads.                                    *)
Promised(r) ==
  /\ ask[r].file \in Inodes
  /\ ask[r].from + Len(ask[r].blocks) <= Length(ask[r].file)
  /\ \A k \in 1..Len(ask[r].blocks) : ask[r].blocks[k] = content[ask[r].file][ask[r].from + k]

Sent(r) ==
  /\ rfd[r] \in Inodes
  /\ Len(got[r]) <= Len(ask[r].blocks)
  /\ Len(got[r]) # 0 => ask[r].from + Len(got[r]) <= Length(rfd[r])
  /\ \A k \in 1..Len(got[r]) : got[r][k] = content[rfd[r]][ask[r].from + k]

ReadOK(r) ==
  /\ rpc[r] \in {"idle", "open"} => got[r] = <<>>
  /\ rpc[r] \in {"open", "read", "done"} => Promised(r)
  /\ rpc[r] \in {"read", "done"} => Sent(r)
  /\ rpc[r] = "done" /\ rfd[r] = ask[r].file => Len(got[r]) = Len(ask[r].blocks)

ReadInv == \A r \in Readers : ReadOK(r)

LEMMA Stretch ==
  ASSUME NEW S, NEW s \in Seq(S), NEW a \in Nat, NEW n \in Nat, a + n <= Len(s)
  PROVE  /\ SubSeq(s, a + 1, a + n) \in Seq(S) /\ Len(SubSeq(s, a + 1, a + n)) = n
         /\ \A k \in 1..n : SubSeq(s, a + 1, a + n)[k] = s[a + k]
<1> DEFINE from == a + 1
           to == a + n
<1>1. from \in Int /\ to \in Int /\ to - from + 1 = n /\ (from <= to <=> n # 0)
      /\ \A k \in 1..n : from + k - 1 = a + k
  OBVIOUS
<1>2. \A i \in from..to : s[i] \in S
  OBVIOUS
<1> HIDE DEF from, to
<1>3. /\ SubSeq(s, from, to) \in Seq(S)
      /\ Len(SubSeq(s, from, to)) = IF from <= to THEN to - from + 1 ELSE 0
      /\ \A k \in 1..(to - from + 1) : SubSeq(s, from, to)[k] = s[from + k - 1]
  BY <1>1, <1>2, SubSeqProperties
<1>4. Len(SubSeq(s, from, to)) = n /\ \A k \in 1..n : SubSeq(s, from, to)[k] = s[a + k]
  BY <1>1, <1>3
<1> QED BY <1>3, <1>4 DEF from, to

LEMMA InodeStretch ==
  ASSUME NEW s \in Seq(Inodes), NEW a \in Nat, NEW n \in Nat, a + n <= Len(s)
  PROVE  /\ Len(SubSeq(s, a + 1, a + n)) = n
         /\ \A k \in 1..n : SubSeq(s, a + 1, a + n)[k] = s[a + k]
BY Stretch

LEMMA ReaderTypes ==
  ASSUME PlainTypeOK, NEW r \in Readers
  PROVE  /\ ask[r].from \in Nat /\ ask[r].blocks \in Seq(Inodes) /\ got[r] \in Seq(Inodes)
         /\ Len(ask[r].blocks) \in Nat /\ Len(got[r]) \in Nat
         /\ \A i \in Inodes : Length(i) \in Nat
BY DEF PlainTypeOK, Length

LEMMA ReadGrows ==
  ASSUME PlainTypeOK, PlainTypeOK', Grows, NEW r \in Readers, ReadOK(r),
         rpc'[r] = rpc[r], ask'[r] = ask[r], rfd'[r] = rfd[r], got'[r] = got[r]
  PROVE  ReadOK(r)'
<1>1. /\ ask[r].from \in Nat /\ Len(ask[r].blocks) \in Nat /\ Len(got[r]) \in Nat
      /\ \A i \in Inodes : Length(i) \in Nat /\ Length(i)' \in Nat
  <2>1. content' \in [Inodes -> Seq(Inodes)]
    BY DEF PlainTypeOK
  <2>2. \A i \in Inodes : Length(i)' \in Nat
    BY <2>1 DEF Length
  <2> QED BY <2>2, ReaderTypes
<1>2. Promised(r) => Promised(r)'
  <2> SUFFICES ASSUME Promised(r) PROVE Promised(r)'
    OBVIOUS
  <2> DEFINE i == ask[r].file
  <2>1. Length(i)' >= Length(i) /\ \A k \in 1..Length(i) : content'[i][k] = content[i][k]
    BY DEF Promised, Grows
  <2>2. Len(content'[i]) >= Length(i) /\ Len(content'[i]) \in Nat
    BY <2>1, <1>1 DEF Length, Promised
  <2>3. \A k \in 1..Len(ask[r].blocks) : ask[r].from + k \in 1..Length(i)
    BY <1>1, SMTT(60) DEF Promised
  <2>4. i \in Inodes /\ ask[r].from + Len(ask[r].blocks) <= Length(i)
    BY DEF Promised
  <2>5. Length(i) \in Nat
    BY <1>1, <2>4
  <2> HIDE DEF i
  <2>6. ask[r].from + Len(ask[r].blocks) <= Len(content'[i])
    BY <1>1, <2>2, <2>4, <2>5, SMTT(60)
  <2>7. \A k \in 1..Len(ask[r].blocks) : ask[r].blocks[k] = content'[i][ask[r].from + k]
    BY <2>1, <2>3, SMTT(60) DEF Promised, i
  <2> QED BY <2>4, <2>6, <2>7 DEF Promised, Length, i
<1>3. Sent(r) => Sent(r)'
  <2> SUFFICES ASSUME Sent(r) PROVE Sent(r)'
    OBVIOUS
  <2> DEFINE i == rfd[r]
  <2>1. Length(i)' >= Length(i) /\ \A k \in 1..Length(i) : content'[i][k] = content[i][k]
    BY DEF Sent, Grows
  <2>2. Len(content'[i]) >= Length(i) /\ Len(content'[i]) \in Nat
    BY <2>1, <1>1 DEF Length, Sent
  <2>3. \A k \in 1..Len(got[r]) : ask[r].from + k \in 1..Length(i)
    BY <1>1, SMTT(60) DEF Sent
  <2>4. /\ i \in Inodes /\ Len(got[r]) <= Len(ask[r].blocks)
        /\ Len(got[r]) # 0 => ask[r].from + Len(got[r]) <= Length(i)
    BY DEF Sent
  <2>5. Length(i) \in Nat
    BY <1>1, <2>4
  <2> HIDE DEF i
  <2>6. Len(got[r]) # 0 => ask[r].from + Len(got[r]) <= Len(content'[i])
    BY <1>1, <2>2, <2>4, <2>5
  <2>7. \A k \in 1..Len(got[r]) : got[r][k] = content'[i][ask[r].from + k]
    BY <2>1, <2>3 DEF Sent, i
  <2> QED BY <2>4, <2>6, <2>7 DEF Sent, Length, i
<1> QED BY <1>2, <1>3 DEF ReadOK

LEMMA ReadServe ==
  ASSUME TypeInv, TypeInv', ReadInv, NEW r \in Readers, Serve(r)
  PROVE  ReadInv'
<1>0. PlainTypeOK /\ PlainTypeOK' /\ ReadOK(r) /\ content' = content /\ target' = target
  BY DEF TypeInv, ReadInv, Serve, Plan, OpenToRead, Read, files
<1>1. /\ rpc \in [Readers -> {"idle", "missing", "open", "failed", "read", "done"}]
      /\ ask \in [Readers -> [file : Inodes \cup {None}, from : Nat, blocks : Seq(Inodes)]]
      /\ rfd \in [Readers -> Inodes \cup {None}] /\ got \in [Readers -> Seq(Inodes)]
  BY <1>0 DEF PlainTypeOK
<1>2. ASSUME NEW x \in Readers \ {r} PROVE ReadOK(x)'
  <2>1. rpc'[x] = rpc[x] /\ ask'[x] = ask[x] /\ rfd'[x] = rfd[x] /\ got'[x] = got[x]
    BY <1>1 DEF Serve, Plan, OpenToRead, Read
  <2> QED BY <1>0, <2>1 DEF ReadInv, ReadOK, Promised, Sent, Length
<1>3. ReadOK(r)'
  <2>1. CASE Plan(r)
    <3>1. got' = got /\ rfd' = rfd /\ got[r] = <<>>
      BY <1>0, <2>1 DEF Plan, ReadOK
    <3>2. CASE rpc' = [rpc EXCEPT ![r] = "missing"]
      BY <1>1, <3>1, <3>2 DEF ReadOK
    <3>3. CASE rpc' # [rpc EXCEPT ![r] = "missing"]
      <4>1. target # None /\ rpc' = [rpc EXCEPT ![r] = "open"]
        BY <2>1, <3>3 DEF Plan
      <4>2. PICK from \in 0..Length(target), to \in 0..Length(target) :
              /\ from < to \/ (from = 0 /\ to = Length(target))
              /\ ask' = [ask EXCEPT ![r] =
                   [file |-> target, from |-> from, blocks |-> SubSeq(content[target], from + 1, to)]]
        BY <2>1, <3>3 DEF Plan
      <4>3. /\ ask'[r].file = target /\ ask'[r].from = from
            /\ ask'[r].blocks = SubSeq(content[target], from + 1, to)
        BY <1>1, <4>2
      <4>4. target \in Inodes /\ content[target] \in Seq(Inodes) /\ Length(target) \in Nat
        BY <1>0, <4>1, SMTT(60) DEF PlainTypeOK, Length
      <4>5. from \in Nat /\ to \in Nat /\ from <= to /\ to <= Length(target)
        BY <4>2, <4>4
      <4>6. /\ Len(SubSeq(content[target], from + 1, to)) = to - from
            /\ \A k \in 1..(to - from) :
                 SubSeq(content[target], from + 1, to)[k] = content[target][from + k]
        <5> DEFINE s == content[target]
                   n == to - from
        <5>1. s \in Seq(Inodes) /\ n \in Nat /\ from + n = to /\ from + n <= Len(s)
          BY <4>4, <4>5 DEF Length
        <5> HIDE DEF s, n
        <5>2. /\ Len(SubSeq(s, from + 1, from + n)) = n
              /\ \A k \in 1..n : SubSeq(s, from + 1, from + n)[k] = s[from + k]
          <6>1. from \in Nat
            BY <4>5
          <6> QED BY <5>1, <6>1, InodeStretch
        <5>3. Len(SubSeq(s, from + 1, to)) = n /\ \A k \in 1..n : SubSeq(s, from + 1, to)[k] = s[from + k]
          BY <5>1, <5>2
        <5> QED BY <5>3 DEF s, n
      <4>7. from + (to - from) <= Length(target)
        BY <4>4, <4>5
      <4>8. Promised(r)'
        BY <1>0, <4>3, <4>4, <4>6, <4>7 DEF Promised, Length
      <4>9. rpc'[r] = "open"
        BY <1>1, <4>1
      <4> QED BY <3>1, <4>8, <4>9 DEF ReadOK
    <3> QED BY <3>2, <3>3
  <2>2. CASE OpenToRead(r)
    <3>1. ask' = ask /\ got' = got /\ got[r] = <<>> /\ Promised(r)
      BY <1>0, <2>2 DEF OpenToRead, ReadOK
    <3>2. Promised(r)'
      BY <1>0, <3>1 DEF Promised, Length
    <3>3. CASE target = None
      BY <1>1, <2>2, <3>3 DEF OpenToRead, ReadOK
    <3>4. CASE target # None
      <4>1. rpc'[r] = "read" /\ rfd'[r] = target /\ target \in Inodes
        BY <1>0, <1>1, <2>2, <3>4 DEF OpenToRead, PlainTypeOK
      <4>2. Len(got[r]) = 0
        BY <3>1
      <4>3. 0 <= Len(ask[r].blocks)
        BY <1>0, ReaderTypes
      <4>4. Sent(r)'
        BY <3>1, <4>1, <4>2, <4>3 DEF Sent
      <4> QED BY <3>2, <4>1, <4>4 DEF ReadOK
    <3> QED BY <3>3, <3>4
  <2>3. CASE Read(r)
    <3> DEFINE next == ask[r].from + Len(got[r]) + 1
    <3>1. /\ ask' = ask /\ rfd' = rfd /\ Promised(r) /\ Sent(r)
      BY <1>0, <2>3 DEF Read, ReadOK
    <3>2. Promised(r)'
      BY <1>0, <3>1 DEF Promised, Length
    <3>3. /\ ask[r].from \in Nat /\ got[r] \in Seq(Inodes) /\ Len(ask[r].blocks) \in Nat
          /\ Len(got[r]) \in Nat /\ Length(rfd[r]) \in Nat
      BY <1>0, <3>1, ReaderTypes DEF Sent
    <3>4. CASE Len(got[r]) < Len(ask[r].blocks) /\ next <= Length(rfd[r])
      <4>1. got'[r] = Append(got[r], content[rfd[r]][next]) /\ rpc'[r] = "read"
        BY <1>1, <2>3, <3>4 DEF Read
      <4>2. content[rfd[r]][next] \in Inodes
        <5>1. content[rfd[r]] \in Seq(Inodes) /\ next \in 1..Len(content[rfd[r]])
          <6>1. rfd[r] \in Inodes /\ content \in [Inodes -> Seq(Inodes)]
            BY <1>0, <3>1 DEF PlainTypeOK, Sent
          <6>2. next \in Nat /\ next >= 1
            BY <3>3, SMTT(60)
          <6> HIDE DEF next
          <6> QED BY <3>3, <3>4, <6>1, <6>2 DEF Length
        <5> HIDE DEF next
        <5> QED BY <5>1
      <4> HIDE DEF next
      <4>3. /\ Len(got'[r]) = Len(got[r]) + 1 /\ got'[r][Len(got[r]) + 1] = content[rfd[r]][next]
            /\ \A k \in 1..Len(got[r]) : got'[r][k] = got[r][k]
        BY <3>3, <4>1, <4>2
      <4>4. \A k \in 1..Len(got'[r]) : got'[r][k] = content[rfd[r]][ask[r].from + k]
        <5> SUFFICES ASSUME NEW k \in 1..(Len(got[r]) + 1)
                     PROVE  got'[r][k] = content[rfd[r]][ask[r].from + k]
          BY <4>3
        <5>1. CASE k \in 1..Len(got[r])
          BY <3>1, <4>3, <5>1 DEF Sent
        <5>2. CASE k = Len(got[r]) + 1
          <6>1. next = ask[r].from + k
            BY <3>3, <5>2, SMTT(60) DEF next
          <6> QED BY <4>3, <5>2, <6>1
        <5> QED BY <5>1, <5>2, <3>3
      <4>5. Len(got'[r]) <= Len(ask[r].blocks) /\ ask[r].from + Len(got'[r]) <= Length(rfd[r])
        BY <3>3, <3>4, <4>3, SMTT(60) DEF next
      <4>6. Sent(r)'
        BY <1>0, <3>1, <4>4, <4>5 DEF Sent, Length
      <4> QED BY <3>2, <4>1, <4>6 DEF ReadOK
    <3>5. CASE ~(Len(got[r]) < Len(ask[r].blocks) /\ next <= Length(rfd[r]))
      <4>1. got' = got /\ rpc'[r] = "done"
        BY <1>1, <2>3, <3>5 DEF Read
      <4>2. Sent(r)'
        BY <1>0, <3>1, <4>1 DEF Sent, Length
      <4>3. rfd[r] = ask[r].file => Len(got[r]) = Len(ask[r].blocks)
        BY <3>1, <3>3, <3>5, SMTT(60) DEF Sent, Promised
      <4> QED BY <3>1, <3>2, <4>1, <4>2, <4>3 DEF ReadOK
    <3> QED BY <3>4, <3>5
  <2> QED BY <2>1, <2>2, <2>3 DEF Serve
<1> QED BY <1>2, <1>3 DEF ReadInv

LEMMA ReadStep == TypeInv /\ ReadInv /\ [Next]_vars => ReadInv'
<1> SUFFICES ASSUME TypeInv, ReadInv, [Next]_vars PROVE ReadInv'
  OBVIOUS
<1>0. Grows /\ PlainTypeOK /\ TypeInv' /\ PlainTypeOK'
  BY Growth, TypeStep DEF TypeInv
<1>1. CASE UNCHANGED readers
  BY <1>0, <1>1, ReadGrows DEF ReadInv, readers
<1>2. ASSUME NEW w \in Writers, Handle(w) \/ Drop(w) PROVE UNCHANGED readers
  BY <1>0, <1>2, Moves DEF Alone, readers
<1>3. ASSUME NEW w \in Writers, Land(w) PROVE UNCHANGED readers
  BY <1>3 DEF Land
<1>4. CASE RemoveTarget \/ UNCHANGED vars
  BY <1>1, <1>4 DEF RemoveTarget, vars
<1>5. ASSUME NEW r \in Readers, Serve(r) PROVE ReadInv'
  BY <1>0, <1>5, ReadServe
<1> QED BY <1>1, <1>2, <1>3, <1>4, <1>5 DEF Next

(* A download is a stretch of one file, and all it was promised if it      *)
(* opened the file its metadata came from (plan_download, read_stream).    *)
THEOREM DownloadsUndisturbed == Spec => []ReadersUndisturbed
<1>1. Init => ReadInv
  BY DEF Init, ReadInv, ReadOK
<1>2. TypeInv /\ ReadInv => ReadersUndisturbed
  <2> SUFFICES ASSUME TypeInv, ReadInv, NEW r \in Readers, rpc[r] \in {"read", "done"}
               PROVE  /\ got[r] = SubSeq(content[rfd[r]], ask[r].from + 1, ask[r].from + Len(got[r]))
                      /\ rpc[r] = "done" /\ rfd[r] = ask[r].file => got[r] = ask[r].blocks
    BY DEF ReadersUndisturbed
  <2>1. PlainTypeOK /\ Promised(r) /\ Sent(r)
    BY DEF TypeInv, ReadInv, ReadOK
  <2>2. /\ ask[r].from \in Nat /\ ask[r].blocks \in Seq(Inodes) /\ got[r] \in Seq(Inodes)
        /\ Len(ask[r].blocks) \in Nat /\ Len(got[r]) \in Nat /\ Length(rfd[r]) \in Nat
        /\ content[rfd[r]] \in Seq(Inodes)
    BY <2>1, ReaderTypes DEF Sent, PlainTypeOK
  <2> DEFINE stretch == SubSeq(content[rfd[r]], ask[r].from + 1, ask[r].from + Len(got[r]))
  <2>3. got[r] = stretch
    <3>1. CASE Len(got[r]) = 0
      <4>1. got[r] = <<>>
        BY <2>2, <3>1, EmptySeq
      <4>2. ask[r].from + 1 > ask[r].from + Len(got[r])
        BY <2>2, <3>1
      <4>3. stretch = <<>>
        BY <2>2, <4>2, SMTT(60)
      <4> QED BY <4>1, <4>3
    <3>2. CASE Len(got[r]) # 0
      <4>1. ask[r].from + Len(got[r]) <= Len(content[rfd[r]])
        BY <2>1, <3>2 DEF Sent, Length
      <4>2. /\ stretch \in Seq(Inodes) /\ Len(stretch) = Len(got[r])
            /\ \A k \in 1..Len(got[r]) : stretch[k] = content[rfd[r]][ask[r].from + k]
        <5> DEFINE s == content[rfd[r]]
                   a == ask[r].from
                   n == Len(got[r])
        <5>1. s \in Seq(Inodes) /\ a \in Nat /\ n \in Nat /\ a + n <= Len(s)
          BY <2>2, <4>1
        <5> HIDE DEF s, a, n
        <5>2. /\ SubSeq(s, a + 1, a + n) \in Seq(Inodes) /\ Len(SubSeq(s, a + 1, a + n)) = n
              /\ \A k \in 1..n : SubSeq(s, a + 1, a + n)[k] = s[a + k]
          BY <5>1, Stretch
        <5> QED BY <5>2 DEF s, a, n
      <4> HIDE DEF stretch
      <4>4. \A k \in 1..Len(got[r]) : stretch[k] = got[r][k]
        BY <2>1, <4>2 DEF Sent
      <4> QED BY <2>2, <4>2, <4>4, SeqEqual
    <3> QED BY <3>1, <3>2
  <2>4. ASSUME rpc[r] = "done", rfd[r] = ask[r].file PROVE got[r] = ask[r].blocks
    <3>1. Len(got[r]) = Len(ask[r].blocks)
      BY <2>4 DEF ReadInv, ReadOK
    <3>2. \A k \in 1..Len(got[r]) : got[r][k] = ask[r].blocks[k]
      BY <2>1, <2>4, <3>1 DEF Sent, Promised
    <3> QED BY <2>2, <3>1, <3>2, SeqEqual
  <2> QED BY <2>3, <2>4
<1> QED BY <1>1, <1>2, TypeInit, TypeStep, ReadStep, PTL DEF Spec

-----------------------------------------------------------------------------
(* Who resumes holds the lock of the file from the check of its length on, *)
(* so its blocks follow each other.                                        *)

Resuming(w) == Is(w, "resume") /\ pc[w] \in {"body", "abort", "flush", "meta"}

(* The first n blocks of a Resume are where they belong.                   *)
Placed(w, n) ==
  /\ fd[w] \in Inodes /\ Length(fd[w]) >= req[w].offset + n
  /\ \A k \in 1..n : content[fd[w]][req[w].offset + k] = w

LockInv ==
  \A w \in Writers : Is(w, "resume") =>
    /\ pc[w] \in {"measure", "body", "abort", "flush", "meta"} => holder = w
    /\ ~loose /\ inflight[w] => holder = w

PlaceInv ==
  ~loose =>
    \A w \in Writers :
      /\ Resuming(w) => Placed(w, Landed(w)) /\ Length(fd[w]) = req[w].offset + Landed(w)
      /\ Is(w, "resume") /\ result[w] = "created" => pc[w] = "done" /\ Placed(w, sent[w])

LEMMA LockStep == TypeInv /\ WalkInv /\ LockInv /\ [Next]_vars => LockInv'
<1> SUFFICES ASSUME TypeInv, WalkInv, LockInv, [Next]_vars PROVE LockInv'
  OBVIOUS
<1>0. PlainTypeOK /\ \A v \in Writers : v # None
  BY NamesAssumption DEF TypeInv, Inodes
<1>1. ASSUME NEW w \in Writers, Handle(w) \/ Drop(w) PROVE LockInv'
  <2>1. Alone(w) /\ Move(w) /\ WalkOK(w)
    BY <1>0, <1>1, Moves DEF WalkInv
  <2>2. /\ req' = req
        /\ \A v \in Writers \ {w} : pc'[v] = pc[v] /\ inflight'[v] = inflight[v]
    BY <2>1 DEF Alone
  <2>3. (~loose' => ~loose) /\ (holder' = holder \/ holder = w \/ holder = None)
    <3>1. ~loose' => ~loose
      BY <2>1, Zenon DEF Move, Over, Forward, Makes, Opens, Writes, Renames, Stays
    <3>2. holder' = holder \/ holder = w \/ holder = None
      BY <2>1 DEF Move, Over, Forward, Makes, Opens, Writes, Renames, Stays
    <3> QED BY <3>1, <3>2
  <2>4. \A v \in Writers \ {w} : Is(v, "resume")' =>
          /\ pc'[v] \in {"measure", "body", "abort", "flush", "meta"} => holder' = v
          /\ ~loose' /\ inflight'[v] => holder' = v
    BY <1>0, <2>2, <2>3 DEF LockInv, Is
  <2>5. Is(w, "resume") =>
          /\ pc'[w] \in {"measure", "body", "abort", "flush", "meta"} => holder' = w
          /\ ~loose' /\ inflight'[w] => holder' = w
    <3> SUFFICES ASSUME Is(w, "resume")
                 PROVE  /\ pc'[w] \in {"measure", "body", "abort", "flush", "meta"} => holder' = w
                        /\ ~loose' /\ inflight'[w] => holder' = w
      OBVIOUS
    <3>1. CASE Over(w)
      BY <1>0, <2>3, <3>1 DEF Over, Quiet, LockInv
    <3>2. CASE Forward(w)
      <4>1. holder = None => pc'[w] \in {"exists", "temp", "lock", "open", "recheck", "rename"}
        BY <1>0, <2>1, <3>2 DEF Forward, Hop, LockInv, WalkOK
      <4>2. holder = None => ~(~loose' /\ inflight'[w])
        BY <1>0, <2>3, <3>2 DEF Forward, Quiet, LockInv
      <4>3. holder # None => holder' = holder
        BY <3>2 DEF Forward
      <4>4. inflight'[w] = inflight[w] /\ (~loose' => ~loose)
        BY <2>3, <3>2 DEF Forward, Quiet
      <4>5. pc'[w] \in {"measure", "body", "abort", "flush", "meta"} => holder = w
        BY <1>0, <2>1, <3>2 DEF Forward, Hop, LockInv, WalkOK
      <4> QED BY <1>0, <4>1, <4>2, <4>3, <4>4, <4>5 DEF LockInv
    <3>3. CASE Makes(w)
      BY <2>1, <3>3 DEF Makes, Hop, WalkOK
    <3>4. CASE Opens(w)
      BY <3>4 DEF Opens, Stays
    <3>5. CASE Writes(w)
      BY <3>5 DEF Writes, Stays, Hop, LockInv
    <3>6. CASE Renames(w)
      BY <2>1, <3>6 DEF Renames, Hop, WalkOK
    <3> QED BY <2>1, <3>1, <3>2, <3>3, <3>4, <3>5, <3>6 DEF Move
  <2> QED BY <2>2, <2>4, <2>5 DEF LockInv, Is
<1>2. ASSUME NEW w \in Writers, Land(w) PROVE LockInv'
  <2>1. UNCHANGED <<req, pc, holder, loose>> /\ \A v \in Writers : inflight'[v] => inflight[v]
    BY <1>0, <1>2, LandPoint
  <2> QED BY <2>1 DEF LockInv, Is
<1>3. CASE UNCHANGED vars \/ RemoveTarget \/ \E r \in Readers : Serve(r)
  BY <1>3, OthersUploads DEF Uploads, LockInv, Is
<1> QED BY <1>1, <1>2, <1>3 DEF Next

(* A block that is in place stays so.                                      *)
LEMMA PlacedStays ==
  ASSUME TypeInv, TypeInv', Grows, NEW w \in Writers, NEW n \in Int, Placed(w, n),
         fd'[w] = fd[w], req' = req
  PROVE  Placed(w, n)'
<1>1. /\ content \in [Inodes -> Seq(Inodes)] /\ content' \in [Inodes -> Seq(Inodes)]
      /\ req[w] \in Requests
  BY SMTT(60) DEF TypeInv, PlainTypeOK
<1> DEFINE i == fd[w]
           b == req[w].offset
<1>2. i \in Inodes /\ b \in Nat /\ Len(content[i]) \in Nat /\ Len(content'[i]) \in Nat
  BY <1>1, RequestFields DEF Placed
<1>3. /\ Len(content'[i]) >= Len(content[i]) /\ \A k \in 1..Len(content[i]) : content'[i][k] = content[i][k]
  BY <1>2 DEF Grows, Length
<1>4. Len(content[i]) >= b + n /\ \A k \in 1..n : content[i][b + k] = w
  BY DEF Placed, Length
<1>5. i = fd'[w] /\ b = req'[w].offset
  OBVIOUS
<1> HIDE DEF i, b
<1>6. \A k \in 1..n : b + k \in 1..Len(content[i])
  BY <1>2, <1>4
<1>7. Len(content'[i]) >= b + n /\ \A k \in 1..n : content'[i][b + k] = w
  <2>1. Len(content'[i]) >= b + n
    BY <1>2, <1>3, <1>4
  <2>2. \A k \in 1..n : content'[i][b + k] = w
    BY <1>3, <1>4, <1>6
  <2> QED BY <2>1, <2>2
<1> QED BY <1>2, <1>5, <1>7 DEF Placed, Length

LEMMA PlaceHandler ==
  ASSUME TypeInv, TypeInv', WalkInv, PlaceInv, Grows, NEW w \in Writers, Handle(w) \/ Drop(w)
  PROVE  PlaceInv'
<1>1. PlainTypeOK /\ Alone(w) /\ Move(w) /\ WalkOK(w)
  BY Moves DEF TypeInv, WalkInv
<1>2. /\ UNCHANGED <<req, lost, content>>
      /\ \A v \in Writers \ {w} : /\ pc'[v] = pc[v] /\ result'[v] = result[v] /\ fd'[v] = fd[v]
                                  /\ sent'[v] = sent[v] /\ inflight'[v] = inflight[v]
  BY <1>1 DEF Alone
<1>3. ~loose' => ~loose
  BY <1>1 DEF Move, Over, Forward, Makes, Opens, Writes, Renames, Stays
<1> SUFFICES ASSUME ~loose'
             PROVE  \A v \in Writers :
               /\ Resuming(v)' => Placed(v, Landed(v))' /\ Length(fd[v])' = req'[v].offset + Landed(v)'
               /\ Is(v, "resume")' /\ result'[v] = "created" => pc'[v] = "done" /\ Placed(v, sent[v])'
  BY DEF PlaceInv
<1>4. \A v \in Writers :
        /\ Resuming(v) => Placed(v, Landed(v)) /\ Length(fd[v]) = req[v].offset + Landed(v)
        /\ Is(v, "resume") /\ result[v] = "created" => pc[v] = "done" /\ Placed(v, sent[v])
  BY <1>3 DEF PlaceInv
<1>5. ASSUME NEW v \in Writers \ {w}
      PROVE  /\ Resuming(v)' => Placed(v, Landed(v))' /\ Length(fd[v])' = req'[v].offset + Landed(v)'
             /\ Is(v, "resume")' /\ result'[v] = "created" => pc'[v] = "done" /\ Placed(v, sent[v])'
  BY <1>2, <1>4, <1>5 DEF Resuming, Placed, Landed, Settled, Is, Length
<1>m. /\ sent[w] \in Nat /\ req[w].offset \in Nat /\ \A i \in Inodes : Length(i) \in Nat
  BY <1>1, RequestFields DEF PlainTypeOK, Length
<1>6. ASSUME Resuming(w)'
      PROVE  Placed(w, Landed(w))' /\ Length(fd[w])' = req'[w].offset + Landed(w)'
  <2>1. Is(w, "resume") /\ pc'[w] \in {"body", "abort", "flush", "meta"}
    BY <1>2, <1>6 DEF Resuming, Is
  <2>2. CASE Hop(w, "measure", "body") /\ Forward(w) /\ Length(fd[w]) = req[w].offset
    <3>1. Landed(w)' = 0
      BY <1>1, <1>2, <2>2 DEF Landed, Settled, Forward, Quiet, Hop, WalkOK, Early
    <3>2. fd'[w] = fd[w] /\ fd[w] \in Inodes
      BY <1>1, <2>2 DEF Forward, Quiet, TypeInv, Opened, Hop, PlainTypeOK
    <3>3. Length(fd[w])' = Length(fd[w]) /\ req'[w].offset = req[w].offset
      BY <1>2, <3>2 DEF Length
    <3> QED BY <1>m, <2>2, <3>1, <3>2, <3>3 DEF Placed
  <2>3. CASE ~(Hop(w, "measure", "body") /\ Forward(w) /\ Length(fd[w]) = req[w].offset)
    <3>1. Resuming(w)
      <4>1. pc[w] \in {"body", "abort", "flush", "meta"}
        BY <1>1, <2>1, <2>3 DEF Move, Over, Forward, Makes, Opens, Writes, Renames, Hop, WalkOK
      <4> QED BY <2>1, <4>1 DEF Resuming
    <3>2. fd'[w] = fd[w]
      BY <1>1, <2>1, <3>1 DEF Move, Over, Forward, Makes, Opens, Writes, Renames, Hop, Quiet, Resuming
    <3>3. Landed(w)' = Landed(w)
      <4>1. CASE Writes(w)
        BY <4>1, <1>2, <1>m DEF Writes, Landed, Settled
      <4>2. CASE ~Writes(w)
        <5>1. sent'[w] = sent[w] /\ inflight'[w] = inflight[w]
          BY <4>2, <1>1 DEF Move, Over, Forward, Makes, Opens, Renames, Quiet
        <5> QED BY <5>1, <1>2 DEF Landed, Settled
      <4> QED BY <4>1, <4>2
    <3> QED BY <1>2, <1>4, <3>1, <3>2, <3>3 DEF Placed, Length
  <2> QED BY <2>2, <2>3
<1>7. ASSUME Is(w, "resume")', result'[w] = "created"
      PROVE  pc'[w] = "done" /\ Placed(w, sent[w])'
  <2>1. Is(w, "resume")
    BY <1>2, <1>7 DEF Is
  <2>2. CASE Over(w)
    <3>1. pc[w] = "meta" /\ pc'[w] = "done" /\ sent'[w] = sent[w] /\ fd'[w] = fd[w]
      BY <1>7, <2>2 DEF Over, Quiet
    <3>2. Landed(w) = sent[w]
      BY <1>1, <3>1 DEF WalkOK, Late, Landed
    <3>3. Placed(w, sent[w])
      BY <1>4, <2>1, <3>1, <3>2 DEF Resuming
    <3> QED BY <1>2, <3>1, <3>3 DEF Placed, Length
  <2>3. CASE ~Over(w)
    <3>1. result'[w] = result[w] /\ pc[w] # "done"
      BY <1>1, <2>3 DEF Move, Forward, Makes, Opens, Writes, Renames, Stays, Hop
    <3> QED BY <1>4, <1>7, <2>1, <3>1
  <2> QED BY <2>2, <2>3
<1> QED BY <1>5, <1>6, <1>7

LEMMA PlaceLand ==
  ASSUME TypeInv, TypeInv', WalkInv, WholeInv, LockInv, PlaceInv, Grows,
         NEW w \in Writers, Land(w)
  PROVE  PlaceInv'
<1>1. PlainTypeOK /\ WalkOK(w)
  BY DEF TypeInv, WalkInv
<1>2. /\ UNCHANGED <<req, pc, fd, sent, result, loose, holder>> /\ inflight[w] /\ ~inflight'[w]
      /\ \A v \in Writers \ {w} : inflight'[v] = inflight[v] /\ lost'[v] = lost[v]
  BY <1>1, LandPoint
<1> SUFFICES ASSUME ~loose, NEW v \in Writers
             PROVE  /\ Resuming(v)' => Placed(v, Landed(v))' /\ Length(fd[v])' = req'[v].offset + Landed(v)'
                    /\ Is(v, "resume")' /\ result'[v] = "created" => pc'[v] = "done" /\ Placed(v, sent[v])'
  BY <1>2 DEF PlaceInv
<1>3. /\ Resuming(v) => Placed(v, Landed(v)) /\ Length(fd[v]) = req[v].offset + Landed(v)
      /\ Is(v, "resume") /\ result[v] = "created" => pc[v] = "done" /\ Placed(v, sent[v])
  BY DEF PlaceInv
<1>m. /\ sent[v] \in Nat /\ req[v].offset \in Nat /\ \A i \in Inodes : Length(i) \in Nat
  BY <1>1, RequestFields DEF PlainTypeOK, Length
<1>4. ASSUME Is(v, "resume")', result'[v] = "created"
      PROVE  pc'[v] = "done" /\ Placed(v, sent[v])'
  <2>1. pc[v] = "done" /\ Placed(v, sent[v])
    BY <1>2, <1>3, <1>4 DEF Is
  <2>2. fd'[v] = fd[v] /\ req' = req /\ sent'[v] = sent[v] /\ pc'[v] = pc[v]
    BY <1>2
  <2>3. Placed(v, sent[v]) => /\ fd'[v] \in Inodes /\ Length(fd[v])' >= req'[v].offset + sent[v]
                              /\ \A k \in 1..sent[v] : content'[fd'[v]][req'[v].offset + k] = v
    BY <1>m, <2>2, PlacedStays, SMTT(60) DEF Placed, Length
  <2> QED BY <2>1, <2>2, <2>3 DEF Placed
<1>5. ASSUME Resuming(v)'
      PROVE  Placed(v, Landed(v))' /\ Length(fd[v])' = req'[v].offset + Landed(v)'
  <2>1. Resuming(v) /\ Is(v, "resume")
    BY <1>2, <1>5 DEF Resuming, Is
  <2>2. Placed(v, Landed(v)) /\ Length(fd[v]) = req[v].offset + Landed(v) /\ fd[v] \in Inodes
    BY <1>3, <2>1 DEF Placed
  <2>3. Landed(v) \in Int
    BY <1>m DEF Landed
  <2>4. holder = v
    BY <2>1 DEF LockInv, Resuming
  <2>5. CASE v # w
    <3>1. fd[w] # fd[v]
      <4> SUFFICES ASSUME fd[w] = fd[v] PROVE FALSE
        OBVIOUS
      <4>1. ~Is(w, "resume")
        BY <1>2, <2>4, <2>5 DEF LockInv
      <4>2. fd[w] = w
        BY <1>1, <1>2, <4>1 DEF WalkOK, Settled
      <4>3. Settled(w)
        BY <2>5, <4>2 DEF WholeInv, Whole
      <4> QED BY <1>2, <4>3 DEF Settled
    <3>2. content'[fd[v]] = content[fd[v]]
      BY <2>2, <3>1, LandGrows
    <3>3. Landed(v)' = Landed(v)
      BY <1>2, <2>5 DEF Landed, Settled
    <3> QED BY <1>2, <2>2, <3>2, <3>3 DEF Placed, Length
  <2>6. CASE v = w
    <3>1. ~Settled(v) /\ ~lost[v]
      BY <1>1, <1>2, <2>6 DEF WalkOK, Settled
    <3>2. Landed(v) = sent[v] - 1
      BY <3>1 DEF Landed
    <3>3. CASE content' = content /\ lost'[w]
      <4>1. Landed(v)' = Landed(v)
        BY <1>2, <2>6, <3>2, <3>3 DEF Landed, Settled
      <4> QED BY <1>2, <2>2, <3>3, <4>1 DEF Placed, Length
    <3>4. CASE ~(content' = content /\ lost'[w])
      <4>1. /\ lost'[w] = lost[w] /\ Length(fd[w])' = Length(fd[w]) + 1
            /\ content'[fd[w]][Length(fd[w]) + 1] = w
            /\ \A k \in 1..Length(fd[w]) : content'[fd[w]][k] = content[fd[w]][k]
        BY <3>4, LandGrows, Zenon
      <4>2. ~lost'[v] /\ ~inflight'[v]
        BY <1>2, <2>6, <3>1, <4>1
      <4>3. Landed(v)' = sent[v]
        BY <1>2, <4>2 DEF Landed, Settled
      <4> DEFINE i == fd[v]
                 b == req[v].offset
                 n == sent[v]
      <4>4. /\ i \in Inodes /\ b \in Nat /\ n \in Nat
            /\ Length(i) = b + (n - 1) /\ Length(i)' = Length(i) + 1
            /\ content'[i][Length(i) + 1] = v
            /\ \A k \in 1..Length(i) : content'[i][k] = content[i][k]
            /\ \A k \in 1..(n - 1) : content[i][b + k] = v
            /\ fd'[v] = i /\ req'[v].offset = b /\ sent'[v] = n
        <5>1. Length(i) = b + (n - 1) /\ \A k \in 1..(n - 1) : content[i][b + k] = v
          BY <2>2, <3>2 DEF Placed
        <5>2. Length(i)' = Length(i) + 1
          BY <2>6, <4>1
        <5>3. content'[i][Length(i) + 1] = v /\ \A k \in 1..Length(i) : content'[i][k] = content[i][k]
          BY <2>6, <4>1
        <5>4. fd'[v] = i /\ req'[v].offset = b /\ sent'[v] = n
          BY <1>2
        <5> QED BY <1>m, <2>2, <5>1, <5>2, <5>3, <5>4
      <4>5. Len(content'[i]) = Length(i) + 1
        BY <4>4 DEF Length
      <4> HIDE DEF i, b, n
      <4>6. n >= 1
        <5>1. sent[v] # 0
          BY <1>1, <2>6, <3>1 DEF WalkOK
        <5> QED BY <4>4, <5>1 DEF n
      <4>7. \A k \in 1..n : content'[i][b + k] = v
        <5> SUFFICES ASSUME NEW k \in 1..n PROVE content'[i][b + k] = v
          OBVIOUS
        <5>1. CASE k \in 1..(n - 1)
          <6>1. b + k \in 1..Length(i)
            BY <4>4, <5>1
          <6> QED BY <4>4, <5>1, <6>1
        <5>2. CASE k = n
          <6>1. b + k = Length(i) + 1
            BY <4>4, <5>2
          <6> QED BY <4>4, <6>1
        <5> QED BY <4>4, <4>6, <5>1, <5>2
      <4>8. Len(content'[i]) = b + n
        BY <4>4, <4>5
      <4>9. Len(content'[i]) >= b + n
        BY <4>4, <4>8
      <4>10. fd'[v] = i /\ req'[v].offset = b /\ Landed(v)' = n
        BY <4>3, <4>4 DEF n
      <4> QED BY <4>4, <4>7, <4>8, <4>9, <4>10 DEF Placed, Length
    <3> QED BY <3>3, <3>4
  <2> QED BY <2>5, <2>6
<1> QED BY <1>4, <1>5

LEMMA PlaceStep ==
  TypeInv /\ WalkInv /\ WholeInv /\ LockInv /\ PlaceInv /\ [Next]_vars => PlaceInv'
<1> SUFFICES ASSUME TypeInv, WalkInv, WholeInv, LockInv, PlaceInv, [Next]_vars PROVE PlaceInv'
  OBVIOUS
<1>0. Grows /\ TypeInv'
  BY Growth, TypeStep
<1>1. ASSUME NEW w \in Writers, Handle(w) \/ Land(w) \/ Drop(w) PROVE PlaceInv'
  BY <1>0, <1>1, PlaceHandler, PlaceLand
<1>2. CASE UNCHANGED vars \/ RemoveTarget \/ \E r \in Readers : Serve(r)
  BY <1>2, OthersUploads
     DEF Uploads, PlaceInv, Resuming, Placed, Landed, Settled, Is, Length
<1> QED BY <1>1, <1>2 DEF Next

(* The blocks of an acknowledged Resume follow each other from its offset  *)
(* on, unless a block was in flight when some handler let go of the lock   *)
(* (write_stream: the check of the length under the lock).                 *)
THEOREM ResumesPlaced == Spec => []ResumesInPlace
<1>1. Init => LockInv /\ PlaceInv
  BY DEF Init, LockInv, PlaceInv, Resuming
<1>2. TypeInv /\ PlaceInv => ResumesInPlace
  BY DEF PlaceInv, Placed, ResumesInPlace, Total
<1> QED BY <1>1, <1>2, TypeInit, TypeStep, WalkInit, WalkStep, WholeInit, WholeStep,
           LockStep, PlaceStep, PTL DEF Spec

-----------------------------------------------------------------------------
(* Nobody waits for a lock that is not being used: who waits is queued,    *)
(* once, behind a Resume that is under way.                                *)
Queued(w) == \E k \in DOMAIN queue : queue[k] = w
Holding == {"open", "measure", "body", "abort", "flush", "meta"}

QueueInv ==
  /\ \A w \in Writers : pc[w] = "open" => holder = w \/ Queued(w)
  /\ holder = None => queue = <<>>
  /\ holder # None => pc[holder] \in Holding /\ Is(holder, "resume")
  /\ \A k \in DOMAIN queue : pc[queue[k]] = "open" /\ queue[k] # holder
  /\ \A j, k \in DOMAIN queue : queue[j] = queue[k] => j = k

LEMMA QueueTypes ==
  ASSUME TypeInv
  PROVE  /\ queue \in Seq(Writers) /\ Len(queue) \in Nat /\ DOMAIN queue = 1..Len(queue)
         /\ \A k \in 1..Len(queue) : queue[k] \in Writers
         /\ holder \in Writers \cup {None} /\ None \notin Writers
BY NamesAssumption DEF TypeInv, PlainTypeOK, Inodes

(* What a step of a handler does to the lock.                              *)
LEMMA LockMoves ==
  ASSUME PlainTypeOK, NEW w \in Writers, Handle(w) \/ Drop(w)
  PROVE  \/ Lock(w)
         \/ Release(w) /\ pc'[w] = "done"
         \/ UNCHANGED lock /\ pc'[w] # "done" /\ pc[w] # "lock" /\ (pc[w] = "open" => holder = w)
<1>1. ASSUME NEW a, Ends(w, a)
      PROVE  Release(w) /\ pc'[w] = "done"
  BY <1>1 DEF Ends, PlainTypeOK
<1>2. ASSUME NEW s, Goes(w, s)
      PROVE  UNCHANGED lock /\ pc'[w] = s
  BY <1>2 DEF Goes, PlainTypeOK
<1>m. req[w].mode \in {"create", "overwrite", "resume"}
  BY RequestFields DEF PlainTypeOK
<1>3. CASE Lock(w) \/ Abort(w) \/ Meta(w) \/ Drop(w)
  BY <1>1, <1>3 DEF Abort, Meta, Drop
<1>4. CASE Arrive(w) \/ Flush(w)
  BY <1>1, <1>2, <1>4, <1>m DEF Arrive, Flush, Is
<1>5. CASE Exists(w) \/ Measure(w) \/ Recheck(w) \/ Open(w)
  BY <1>1, <1>2, <1>5 DEF Exists, Measure, Recheck, Open
<1>6. CASE CreateTemp(w) \/ Write(w) \/ Break(w) \/ EndBody(w) \/ Rename(w)
  BY <1>2, <1>6 DEF CreateTemp, Write, Break, EndBody, Rename
<1> QED BY <1>3, <1>4, <1>5, <1>6 DEF Handle

(* The queue without its first, or without one from its middle.            *)
LEMMA Shortened ==
  ASSUME NEW S, NEW s \in Seq(S), NEW k \in 1..Len(s)
  PROVE  /\ RemoveAt(s, k) \in Seq(S) /\ Len(RemoveAt(s, k)) = Len(s) - 1
         /\ \A j \in 1..(Len(s) - 1) : RemoveAt(s, k)[j] = IF j < k THEN s[j] ELSE s[j + 1]
<1> DEFINE front == SubSeq(s, 1, k - 1)
           back  == SubSeq(s, k + 1, Len(s))
<1>1. /\ front \in Seq(S) /\ Len(front) = k - 1 /\ \A j \in 1..(k - 1) : front[j] = s[j]
      /\ back \in Seq(S) /\ Len(back) = Len(s) - k /\ \A j \in 1..(Len(s) - k) : back[j] = s[k + j]
  OBVIOUS
<1>2. RemoveAt(s, k) = front \o back
  BY DEF RemoveAt
<1> HIDE DEF front, back
<1>3. /\ front \o back \in Seq(S) /\ Len(front \o back) = Len(front) + Len(back)
      /\ \A j \in 1..(Len(front) + Len(back)) :
           (front \o back)[j] = IF j <= Len(front) THEN front[j] ELSE back[j - Len(front)]
  BY <1>1, ConcatProperties
<1>4. Len(s) \in Nat /\ Len(front) + Len(back) = Len(s) - 1
  BY <1>1
<1>5. ASSUME NEW j \in 1..(Len(s) - 1)
      PROVE  (front \o back)[j] = IF j < k THEN s[j] ELSE s[j + 1]
  <2>1. CASE j < k
    BY <1>1, <1>3, <1>4, <2>1
  <2>2. CASE ~(j < k)
    <3>1. j - (k - 1) \in 1..(Len(s) - k) /\ k + (j - (k - 1)) = j + 1 /\ ~(j <= k - 1)
      BY <1>4, <2>2
    <3>2. (front \o back)[j] = back[j - (k - 1)]
      BY <1>1, <1>3, <1>4, <3>1
    <3> QED BY <1>1, <2>2, <3>1, <3>2, SMTT(60)
  <2> QED BY <2>1, <2>2
<1> QED BY <1>2, <1>3, <1>4, <1>5

LEMMA ReleaseServes ==
  ASSUME TypeInv, WalkInv, QueueInv, NEW w \in Writers, Release(w), pc'[w] = "done", Alone(w)
  PROVE  QueueInv'
<1>1. \A v \in Writers : pc'[v] = IF v = w THEN "done" ELSE pc[v]
  BY DEF Alone
<1>2. "done" \notin Holding
  BY DEF Holding
<1>3. /\ queue \in Seq(Writers) /\ Len(queue) \in Nat /\ DOMAIN queue = 1..Len(queue)
      /\ \A k \in 1..Len(queue) : queue[k] \in Writers
      /\ holder # None => holder \in Writers
      /\ None \notin Writers
  BY QueueTypes
<1>r. \A v \in Writers : /\ Is(v, "resume")' <=> Is(v, "resume")
                         /\ pc[v] = "open" => Is(v, "resume")
  BY DEF WalkInv, WalkOK, Alone, Is
<1>4. CASE holder = w /\ queue = <<>> /\ holder' = None /\ UNCHANGED queue
  BY <1>1, <1>2, <1>4 DEF QueueInv, Queued
<1>5. CASE holder = w /\ queue # <<>> /\ holder' = Head(queue) /\ queue' = Tail(queue)
  <2>1. /\ Len(queue) >= 1 /\ holder' = queue[1]
        /\ DOMAIN queue' = 1..(Len(queue) - 1)
        /\ \A k \in 1..(Len(queue) - 1) : queue'[k] = queue[k + 1]
    BY <1>3, <1>5, HeadTailProperties
  <2>2. \A k \in 1..Len(queue) : pc[queue[k]] = "open" /\ queue[k] # w
    BY <1>3, <1>5 DEF QueueInv
  <2>3. holder' \in Writers /\ holder' # None /\ pc'[holder'] = "open" /\ Is(holder, "resume")'
    BY <1>1, <1>3, <1>r, <2>1, <2>2
  <2>4. \A v \in Writers : pc'[v] = "open" => holder' = v \/ Queued(v)'
    <3>1. SUFFICES ASSUME NEW v \in Writers, pc'[v] = "open", holder' # v
                   PROVE  \E k \in DOMAIN queue' : queue'[k] = v
      BY DEF Queued
    <3>2. v # w /\ pc[v] = "open"
      BY <1>1, <3>1
    <3>3. PICK k \in 1..Len(queue) : queue[k] = v
      BY <1>3, <1>5, <3>2 DEF QueueInv, Queued
    <3>4. k - 1 \in 1..(Len(queue) - 1) /\ (k - 1) + 1 = k
      BY <1>3, <2>1, <3>1, <3>3
    <3>5. queue'[k - 1] = queue[(k - 1) + 1]
      BY <2>1, <3>4
    <3> QED BY <2>1, <3>3, <3>4, <3>5
  <2>5. \A k \in DOMAIN queue' : pc'[queue'[k]] = "open" /\ queue'[k] # holder'
    <3>1. SUFFICES ASSUME NEW k \in 1..(Len(queue) - 1)
                   PROVE  pc'[queue[k + 1]] = "open" /\ queue[k + 1] # queue[1]
      BY <2>1
    <3>2. k + 1 \in 1..Len(queue) /\ 1 \in 1..Len(queue) /\ k + 1 # 1
      BY <1>3, <2>1, <3>1
    <3>3. queue[k + 1] # queue[1]
      BY <1>3, <3>2 DEF QueueInv
    <3> QED BY <1>1, <1>3, <2>2, <3>2, <3>3
  <2>6. \A j, k \in DOMAIN queue' : queue'[j] = queue'[k] => j = k
    <3>1. SUFFICES ASSUME NEW j \in 1..(Len(queue) - 1), NEW k \in 1..(Len(queue) - 1),
                          queue[j + 1] = queue[k + 1]
                   PROVE  j = k
      BY <2>1
    <3>2. j + 1 \in 1..Len(queue) /\ k + 1 \in 1..Len(queue)
      BY <1>3, <3>1
    <3>3. j + 1 = k + 1
      BY <1>3, <3>1, <3>2 DEF QueueInv
    <3> QED BY <1>3, <3>3
  <2> QED BY <2>3, <2>4, <2>5, <2>6 DEF QueueInv, Holding, Is
<1>6. CASE /\ holder # w
           /\ \E k \in DOMAIN queue : queue[k] = w /\ queue' = RemoveAt(queue, k)
           /\ UNCHANGED holder
  <2>1. PICK k \in 1..Len(queue) : queue[k] = w /\ queue' = RemoveAt(queue, k)
    BY <1>3, <1>6
  <2>2. /\ DOMAIN queue' = 1..(Len(queue) - 1)
        /\ \A j \in 1..(Len(queue) - 1) :
             queue'[j] = IF j < k THEN queue[j] ELSE queue[j + 1]
    <3> DEFINE cut == RemoveAt(queue, k)
    <3>1. /\ cut \in Seq(Writers) /\ Len(cut) = Len(queue) - 1
          /\ \A j \in 1..(Len(queue) - 1) : cut[j] = IF j < k THEN queue[j] ELSE queue[j + 1]
      BY <1>3, Shortened
    <3>2. queue' = cut
      BY <2>1
    <3> HIDE DEF cut
    <3>3. DOMAIN cut = 1..(Len(queue) - 1)
      BY <3>1
    <3> QED BY <3>1, <3>2, <3>3
  <2> DEFINE old(j) == IF j < k THEN j ELSE j + 1
  <2>3. \A j \in 1..(Len(queue) - 1) :
          old(j) \in 1..Len(queue) /\ old(j) # k /\ queue'[j] = queue[old(j)]
    BY <1>3, <2>1, <2>2
  <2>4. \A m \in 1..Len(queue) : m # k => queue[m] # w /\ pc[queue[m]] = "open" /\ queue[m] # holder
    BY <1>3, <2>1 DEF QueueInv
  <2>5. \A j \in DOMAIN queue' : pc'[queue'[j]] = "open" /\ queue'[j] # holder'
    <3> SUFFICES ASSUME NEW j \in 1..(Len(queue) - 1)
                 PROVE  pc'[queue'[j]] = "open" /\ queue'[j] # holder'
      BY <2>2
    <3> DEFINE m == old(j)
    <3>1. m \in 1..Len(queue) /\ m # k /\ queue'[j] = queue[m]
      BY <2>3
    <3> HIDE DEF m, old
    <3>2. queue[m] # w /\ pc[queue[m]] = "open" /\ queue[m] # holder
      BY <2>4, <3>1
    <3> QED BY <1>1, <1>3, <1>6, <3>1, <3>2
  <2>6. \A i, j \in DOMAIN queue' : queue'[i] = queue'[j] => i = j
    <3>1. SUFFICES ASSUME NEW i \in 1..(Len(queue) - 1), NEW j \in 1..(Len(queue) - 1),
                          queue[old(i)] = queue[old(j)]
                   PROVE  i = j
      BY <2>2, <2>3
    <3>2. old(i) = old(j)
      BY <1>3, <2>3, <3>1 DEF QueueInv
    <3> QED BY <2>1, <3>2
  <2>7. \A v \in Writers : pc'[v] = "open" => holder' = v \/ Queued(v)'
    <3>1. SUFFICES ASSUME NEW v \in Writers, pc'[v] = "open", holder # v
                   PROVE  \E j \in DOMAIN queue' : queue'[j] = v
      BY <1>6 DEF Queued
    <3>2. v # w /\ pc[v] = "open"
      BY <1>1, <3>1
    <3>3. PICK m \in 1..Len(queue) : queue[m] = v
      BY <1>3, <3>1, <3>2 DEF QueueInv, Queued
    <3>4. m # k
      BY <2>1, <3>2, <3>3
    <3>5. PICK j \in 1..(Len(queue) - 1) : old(j) = m
      <4>1. CASE m < k
        <5>1. m \in 1..(Len(queue) - 1) /\ old(m) = m
          BY <1>3, <2>1, <3>3, <4>1
        <5> QED BY <5>1
      <4>2. CASE ~(m < k)
        <5>1. m - 1 \in 1..(Len(queue) - 1) /\ old(m - 1) = m
          BY <1>3, <2>1, <3>3, <3>4, <4>2
        <5> QED BY <5>1
      <4> QED BY <4>1, <4>2
    <3> QED BY <2>2, <2>3, <3>3, <3>5
  <2>8. holder # None /\ pc'[holder] \in Holding /\ Is(holder, "resume")'
    <3>1. queue # <<>>
      BY <1>3, <2>1
    <3> QED BY <1>1, <1>3, <1>6, <1>r, <3>1 DEF QueueInv
  <2> QED BY <1>6, <2>5, <2>6, <2>7, <2>8 DEF QueueInv, Is
<1>7. CASE holder # w /\ (\A k \in DOMAIN queue : queue[k] # w) /\ UNCHANGED lock
  BY <1>1, <1>3, <1>r, <1>7 DEF QueueInv, Queued, lock, Is
<1> QED BY <1>4, <1>5, <1>6, <1>7 DEF Release

LEMMA LockServes ==
  ASSUME TypeInv, WalkInv, QueueInv, NEW w \in Writers, Lock(w), Alone(w)
  PROVE  QueueInv'
<1>1. /\ \A v \in Writers : pc'[v] = IF v = w THEN "open" ELSE pc[v]
      /\ pc[w] = "lock"
  BY DEF Lock, Alone, TypeInv, PlainTypeOK
<1>2. /\ queue \in Seq(Writers) /\ Len(queue) \in Nat /\ DOMAIN queue = 1..Len(queue)
      /\ \A k \in 1..Len(queue) : queue[k] \in Writers
      /\ holder \in Writers \cup {None} /\ None \notin Writers
  BY QueueTypes
<1>3. holder # w /\ ~Queued(w) /\ Is(w, "resume")
      /\ \A v \in Writers : Is(v, "resume")' <=> Is(v, "resume")
  <2>1. holder # w /\ ~Queued(w)
    BY <1>1, <1>2 DEF QueueInv, Queued, Holding
  <2>2. Is(w, "resume")
    BY <1>1 DEF WalkInv, WalkOK
  <2> QED BY <2>1, <2>2 DEF Alone, Is
<1>4. CASE holder = None
  <2>1. queue = <<>> /\ queue' = <<>> /\ holder' = w
    BY <1>4 DEF Lock, QueueInv
  <2>2. \A v \in Writers : pc'[v] = "open" => v = w
    <3>1. \A v \in Writers : ~Queued(v) /\ holder # v
      BY <1>2, <1>4, <2>1 DEF Queued
    <3> QED BY <1>1, <3>1 DEF QueueInv
  <2>3. Is(holder, "resume")' /\ pc'[holder'] = "open"
    BY <1>1, <1>3, <2>1 DEF Is
  <2> QED BY <1>2, <2>1, <2>2, <2>3 DEF QueueInv, Holding, Is
<1>5. CASE holder # None
  <2>1. queue' = Append(queue, w) /\ holder' = holder /\ holder \in Writers
    BY <1>2, <1>5 DEF Lock
  <2>2. /\ DOMAIN queue' = 1..(Len(queue) + 1)
        /\ \A k \in 1..Len(queue) : queue'[k] = queue[k]
        /\ queue'[Len(queue) + 1] = w
    BY <1>2, <2>1
  <2>3. \A k \in 1..(Len(queue) + 1) : k \in 1..Len(queue) \/ k = Len(queue) + 1
    BY <1>2
  <2>4. \A v \in Writers : pc'[v] = "open" => holder' = v \/ Queued(v)'
    <3>1. ASSUME NEW v \in Writers, v # w, pc[v] = "open", holder # v
          PROVE  \E k \in 1..(Len(queue) + 1) : queue'[k] = v
      BY <1>2, <2>2, <3>1 DEF QueueInv, Queued
    <3>2. Len(queue) + 1 \in 1..(Len(queue) + 1)
      BY <1>2
    <3> QED BY <1>1, <2>1, <2>2, <3>1, <3>2 DEF Queued
  <2>5. \A k \in DOMAIN queue' : pc'[queue'[k]] = "open" /\ queue'[k] # holder'
    BY <1>1, <1>2, <1>3, <2>1, <2>2, <2>3 DEF QueueInv
  <2>6. \A j, k \in DOMAIN queue' : queue'[j] = queue'[k] => j = k
    BY <1>2, <1>3, <2>2, <2>3 DEF QueueInv, Queued
  <2>7. pc'[holder'] \in Holding /\ Is(holder, "resume")'
    BY <1>1, <1>3, <1>5, <2>1 DEF QueueInv, Is
  <2> QED BY <1>5, <2>1, <2>4, <2>5, <2>6, <2>7 DEF QueueInv
<1> QED BY <1>4, <1>5

LEMMA WorkServes ==
  ASSUME TypeInv, WalkInv, QueueInv, NEW w \in Writers, Alone(w), Move(w),
         UNCHANGED lock, pc'[w] # "done", pc[w] # "lock", pc[w] = "open" => holder = w
  PROVE  QueueInv'
<1>1. /\ \A v \in Writers \ {w} : pc'[v] = pc[v]
      /\ \A v \in Writers : Is(v, "resume")' <=> Is(v, "resume")
      /\ queue' = queue /\ holder' = holder
  BY DEF Alone, Is, lock
<1>2. /\ queue \in Seq(Writers) /\ Len(queue) \in Nat /\ DOMAIN queue = 1..Len(queue)
      /\ \A k \in 1..Len(queue) : queue[k] \in Writers
      /\ holder \in Writers \cup {None} /\ None \notin Writers
  BY QueueTypes
<1>3. pc'[w] # "open"
  BY DEF Move, Over, Forward, Makes, Opens, Writes, Renames, Hop
<1>4. \A k \in DOMAIN queue : queue[k] # w
  BY <1>2 DEF QueueInv
<1>5. holder = w => pc'[w] \in Holding
  <2> SUFFICES ASSUME holder = w
               PROVE  pc'[w] \in Holding
    OBVIOUS
  <2>1. pc[w] \in Holding /\ Is(w, "resume") /\ WalkOK(w)
    BY <1>2 DEF QueueInv, WalkInv
  <2>2. /\ ~Is(w, "create") /\ ~Is(w, "overwrite")
    BY <2>1 DEF Is
  <2> QED BY <2>1, <2>2 DEF Move, Over, Forward, Makes, Opens, Writes, Renames, Hop, Holding
<1>6. \A v \in Writers : pc'[v] = "open" => holder' = v \/ Queued(v)'
  BY <1>1, <1>3 DEF QueueInv, Queued
<1>7. holder' # None => pc'[holder'] \in Holding /\ Is(holder, "resume")'
  BY <1>1, <1>2, <1>5 DEF QueueInv, Is
<1>8. \A k \in DOMAIN queue' : pc'[queue'[k]] = "open" /\ queue'[k] # holder'
  BY <1>1, <1>2, <1>4 DEF QueueInv
<1> QED BY <1>1, <1>6, <1>7, <1>8 DEF QueueInv

LEMMA QueueStep == TypeInv /\ WalkInv /\ QueueInv /\ [Next]_vars => QueueInv'
<1> SUFFICES ASSUME TypeInv, WalkInv, QueueInv, [Next]_vars PROVE QueueInv'
  OBVIOUS
<1>0. PlainTypeOK
  BY DEF TypeInv
<1>1. ASSUME NEW w \in Writers, Handle(w) \/ Drop(w) PROVE QueueInv'
  <2>1. Alone(w) /\ Move(w)
    BY <1>0, <1>1, Moves, SMTT(60)
  <2> QED BY <1>0, <1>1, <2>1, LockMoves, LockServes, ReleaseServes, WorkServes
<1>2. ASSUME NEW w \in Writers, Land(w) PROVE QueueInv'
  <2>1. UNCHANGED <<req, pc, holder, queue>>
    BY <1>0, <1>2, LandPoint
  <2> QED BY <2>1 DEF QueueInv, Queued, Is
<1>3. CASE UNCHANGED vars \/ RemoveTarget \/ \E r \in Readers : Serve(r)
  <2>1. UNCHANGED <<req, pc, holder, queue>>
    BY <1>3, OthersUploads DEF Uploads, vars, RemoveTarget, Serve, Plan, OpenToRead, Read, lock
  <2> QED BY <2>1 DEF QueueInv, Queued, Is
<1> QED BY <1>1, <1>2, <1>3 DEF Next

(* The lock of the file is never lost: a Resume that waits for it is       *)
(* queued behind another that is under way and waits for nobody but its    *)
(* body and its disk, whoever commits, aborts, fails or is dropped, in the *)
(* queue or at its head (write_stream, target_guard).                      *)
THEOREM LockPassesOn ==
  Spec => [](\A w \in Writers : pc[w] = "open" /\ holder # w =>
               Queued(w) /\ holder \in Writers /\ pc[holder] \in Holding)
<1>1. Init => QueueInv
  BY NamesAssumption DEF Init, QueueInv, Inodes
<1>2. TypeInv /\ QueueInv =>
        \A w \in Writers : pc[w] = "open" /\ holder # w =>
          Queued(w) /\ holder \in Writers /\ pc[holder] \in Holding
  BY QueueTypes DEF QueueInv, Queued
<1> QED BY <1>1, <1>2, TypeInit, TypeStep, WalkInit, WalkStep, QueueStep, PTL DEF Spec

-----------------------------------------------------------------------------
(* How much an upload has before it: the awaits of its handler and the     *)
(* blocks its declared size has room for.                                  *)
Room(w) == IF req[w].size <= Total(w) THEN 0 ELSE req[w].size - Total(w)
Ahead(step, room) ==
  CASE step = "done" -> 0
    [] step \in {"abort", "meta"} -> 1
    [] step = "rename" -> 2
    [] step = "recheck" -> 3
    [] step = "flush" -> 4
    [] step = "body" -> 5 + room
    [] step \in {"temp", "measure"} -> 6 + room
    [] step \in {"exists", "open"} -> 7 + room
    [] step = "lock" -> 8 + room
    [] step = "idle" -> 9 + room
Left(w) == Ahead(pc[w], Room(w))

(* Nothing too large gets past its arrival.                                *)
SizeInv == \A w \in Writers : pc[w] \notin {"idle", "done"} => req[w].size <= MaxUpload

LEMMA Arrived ==
  ASSUME PlainTypeOK, NEW w \in Writers, Handle(w) \/ Drop(w), pc[w] = "idle", pc'[w] # "done"
  PROVE  req[w].size <= MaxUpload
<1>1. Arrive(w)
  BY DEF Handle, Drop, Exists, CreateTemp, Lock, Open, Measure, Write, Break, EndBody, Abort,
         Flush, Recheck, Rename, Meta
<1>2. ~Ends(w, "refused")
  BY DEF Ends, PlainTypeOK
<1>3. req[w].size \in Nat /\ MaxUpload \in Nat
  BY RequestFields, UploadAssumption DEF PlainTypeOK
<1> QED BY <1>1, <1>2, <1>3 DEF Arrive

(* A block is handed over only if the declared size has room for it.       *)
LEMMA WritesFit ==
  ASSUME PlainTypeOK, NEW w \in Writers, Handle(w) \/ Drop(w), pc[w] = "body", pc'[w] = "body"
  PROVE  Total(w) + 1 <= req[w].size
<1>1. Total(w) + 1 \in Nat /\ req[w].size \in Nat
  BY RequestFields DEF PlainTypeOK, Total
<1>2. Write(w)
  BY DEF Handle, Drop, Arrive, Exists, CreateTemp, Lock, Open, Measure, Break, EndBody, Abort,
         Flush, Recheck, Rename, Meta, Ends, Goes, PlainTypeOK
<1>3. ~Goes(w, "abort")
  BY DEF Goes, PlainTypeOK
<1> QED BY <1>1, <1>2, <1>3 DEF Write

(* What lies ahead of each await, for the provers.                         *)
LEMMA AheadIs ==
  ASSUME NEW n \in Nat
  PROVE  /\ Ahead("done", n) = 0 /\ Ahead("abort", n) = 1 /\ Ahead("meta", n) = 1
         /\ Ahead("rename", n) = 2 /\ Ahead("recheck", n) = 3 /\ Ahead("flush", n) = 4
         /\ Ahead("body", n) = 5 + n /\ Ahead("temp", n) = 6 + n /\ Ahead("measure", n) = 6 + n
         /\ Ahead("exists", n) = 7 + n /\ Ahead("open", n) = 7 + n
         /\ Ahead("lock", n) = 8 + n /\ Ahead("idle", n) = 9 + n
BY DEF Ahead

LEMMA RoomIs ==
  ASSUME TypeInv, NEW w \in Writers
  PROVE  Room(w) \in Nat /\ (SizeInv /\ pc[w] \notin {"idle", "done"} => Room(w) <= MaxUpload)
<1>1. Total(w) \in Nat /\ req[w].size \in Nat /\ MaxUpload \in Nat
  BY RequestFields, UploadAssumption DEF TypeInv, PlainTypeOK, Total
<1> QED BY <1>1 DEF Room, SizeInv

LEMMA LeftIs ==
  ASSUME TypeInv, NEW w \in Writers
  PROVE  /\ Left(w) \in Nat /\ (Left(w) = 0 <=> pc[w] = "done")
         /\ pc[w] # "idle" /\ SizeInv => Left(w) <= 8 + MaxUpload
<1> DEFINE n == Room(w)
<1>1. n \in Nat /\ MaxUpload \in Nat /\ pc[w] \in Steps
  BY RoomIs, UploadAssumption DEF TypeInv, PlainTypeOK
<1>2. pc[w] \notin {"idle", "done"} /\ SizeInv => n <= MaxUpload
  BY RoomIs
<1>3. Left(w) = Ahead(pc[w], n)
  BY DEF Left
<1> HIDE DEF n
<1> QED BY <1>1, <1>2, <1>3, AheadIs DEF Steps

LEMMA LeftAlways == TypeInv' => \A w \in Writers : Left(w)' \in Nat
<1>1. TypeInv => \A w \in Writers : Left(w) \in Nat
  BY LeftIs
<1>2. TypeInv' => (\A w \in Writers : Left(w) \in Nat)'
  BY <1>1, PTL
<1> QED BY <1>2

LEMMA SizeStep == TypeInv /\ SizeInv /\ [Next]_vars => SizeInv'
<1> SUFFICES ASSUME TypeInv, SizeInv, [Next]_vars PROVE SizeInv'
  OBVIOUS
<1>0. PlainTypeOK
  BY DEF TypeInv
<1>1. ASSUME NEW w \in Writers, Handle(w) \/ Drop(w) PROVE SizeInv'
  <2>1. Alone(w) /\ Move(w)
    BY <1>0, <1>1, Moves
  <2>2. pc[w] # "done"
    BY <2>1 DEF Move, Over, Forward, Makes, Opens, Writes, Renames, Hop
  <2>3. pc'[w] # "done" => req[w].size <= MaxUpload
    BY <1>0, <1>1, <2>2, Arrived DEF SizeInv
  <2> QED BY <2>1, <2>3 DEF SizeInv, Alone
<1>2. ASSUME NEW w \in Writers, Land(w) PROVE SizeInv'
  BY <1>0, <1>2, LandPoint DEF SizeInv
<1>3. CASE UNCHANGED vars \/ RemoveTarget \/ \E r \in Readers : Serve(r)
  BY <1>3, OthersUploads DEF Uploads, SizeInv
<1> QED BY <1>1, <1>2, <1>3 DEF Next

LEMMA LeftFalls ==
  ASSUME TypeInv, WalkInv, NEW w \in Writers, Handle(w) \/ Drop(w)
  PROVE  Left(w)' < Left(w) /\ \A v \in Writers \ {w} : Left(v)' = Left(v)
<1> DEFINE n == Room(w)
<1>1. PlainTypeOK /\ Alone(w) /\ Move(w)
  BY Moves DEF TypeInv
<1>2. /\ Total(w) \in Nat /\ req[w].size \in Nat /\ req'[w] = req[w]
      /\ n \in Nat /\ Left(w) = Ahead(pc[w], n)
  BY <1>1, RequestFields, RoomIs DEF PlainTypeOK, Alone, Total, Left
<1>3. \A v \in Writers \ {w} : Left(v)' = Left(v)
  BY <1>1 DEF Alone, Left, Room, Total
<1>4. CASE Over(w)
  <2>1. Left(w)' = 0
    BY <1>4 DEF Over, Left, Ahead
  <2>2. Left(w) # 0 /\ Left(w) \in Nat
    BY <1>4, LeftIs DEF Over
  <2> QED BY <1>3, <2>1, <2>2
<1>5. CASE Forward(w) \/ Makes(w) \/ Opens(w) \/ Renames(w)
  <2>1. sent'[w] = sent[w]
    BY <1>5 DEF Forward, Makes, Opens, Renames, Quiet
  <2>2. Left(w)' = Ahead(pc'[w], n)
    BY <1>2, <2>1 DEF Left, Room, Total
  <2>3. \/ Hop(w, "idle", "exists") \/ Hop(w, "idle", "temp") \/ Hop(w, "idle", "lock")
        \/ Hop(w, "exists", "temp") \/ Hop(w, "lock", "open") \/ Hop(w, "temp", "body")
        \/ Hop(w, "open", "measure") \/ Hop(w, "measure", "body")
        \/ Hop(w, "body", "abort") \/ Hop(w, "body", "flush")
        \/ Hop(w, "flush", "recheck") \/ Hop(w, "flush", "rename") \/ Hop(w, "flush", "meta")
        \/ Hop(w, "recheck", "rename") \/ Hop(w, "rename", "meta")
    BY <1>5 DEF Forward, Makes, Opens, Renames
  <2> HIDE DEF n
  <2>4. Ahead(pc'[w], n) < Ahead(pc[w], n)
    BY <1>2, <2>3, AheadIs DEF Hop
  <2> QED BY <1>2, <1>3, <2>2, <2>4
<1>6. CASE Writes(w)
  <2>1. sent'[w] = sent[w] + 1 /\ pc[w] = "body" /\ pc'[w] = "body"
    BY <1>6 DEF Writes, Hop
  <2>2. Total(w)' = Total(w) + 1
    BY <1>1, <1>2, <2>1, RequestFields, SMTT(60) DEF Total, PlainTypeOK
  <2>3. Total(w) + 1 <= req[w].size
    BY <1>1, <2>1, WritesFit
  <2>4. Room(w)' = n - 1 /\ n - 1 \in Nat
    BY <1>2, <2>2, <2>3 DEF Room
  <2>5. Left(w)' = Ahead("body", n - 1)
    BY <2>1, <2>4 DEF Left
  <2> HIDE DEF n
  <2>6. Ahead("body", n - 1) = 5 + (n - 1) /\ Ahead("body", n) = 5 + n
    BY <1>2, <2>4, AheadIs
  <2> QED BY <1>2, <1>3, <2>1, <2>5, <2>6
<1> QED BY <1>1, <1>4, <1>5, <1>6 DEF Move

LEMMA LeftStep ==
  ASSUME TypeInv, WalkInv, [Next]_vars
  PROVE  \A w \in Writers :
           /\ Handle(w) \/ Drop(w) => Left(w)' < Left(w)
           /\ Left(w)' <= Left(w)
<1>0. PlainTypeOK /\ \A w \in Writers : Left(w) \in Nat
  BY LeftIs DEF TypeInv
<1>1. ASSUME NEW w \in Writers, Handle(w) \/ Drop(w)
      PROVE  Left(w)' < Left(w) /\ \A v \in Writers \ {w} : Left(v)' = Left(v)
  BY <1>1, LeftFalls
<1>2. ASSUME NEW w \in Writers, Handle(w) \/ Drop(w), NEW v \in Writers PROVE Left(v)' <= Left(v)
  <2>1. Left(v) \in Nat /\ Left(v)' \in Int
    <3>1. TypeInv'
      BY TypeStep
    <3>2. Left(v)' \in Nat
      BY <3>1, LeftAlways
    <3> QED BY <1>0, <3>2
  <2> QED BY <1>1, <1>2, <2>1
<1>3. ASSUME NEW v \in Writers, ~ \E w \in Writers : Handle(w) \/ Drop(w) PROVE Left(v)' = Left(v)
  <2>1. CASE \E w \in Writers : Land(w)
    <3>1. UNCHANGED <<pc, req, sent>>
      BY <1>0, <2>1, LandPoint
    <3> QED BY <3>1 DEF Left, Room, Total
  <2>2. CASE UNCHANGED vars \/ RemoveTarget \/ \E r \in Readers : Serve(r)
    BY <2>2, OthersUploads DEF Uploads, Left, Room, Total
  <2> QED BY <1>3, <2>1, <2>2 DEF Next
<1> QED BY <1>0, <1>1, <1>2, <1>3

(* An upload cannot go round in circles, nor take in more than it was      *)
(* declared to: each step of its own brings it nearer to its end, none of  *)
(* another's sets it back, and past its arrival there are never more than  *)
(* the limit's blocks and eight awaits before it.  With fairness, and with *)
(* LockPassesOn for the one await that waits for another upload, this is   *)
(* UploadsEnd (write_batch, FsSink.commit, max_upload_size).               *)
THEOREM UploadsAreShort ==
  Spec => /\ [](\A w \in Writers : /\ Left(w) = 0 <=> pc[w] = "done"
                                   /\ pc[w] # "idle" => Left(w) \in 0..8 + MaxUpload)
          /\ [][\A w \in Writers : /\ Handle(w) \/ Drop(w) => Left(w)' < Left(w)
                                   /\ Left(w)' <= Left(w)]_vars
<1>1. Init => SizeInv
  BY DEF Init, SizeInv
<1>2. TypeInv /\ SizeInv =>
        \A w \in Writers : /\ Left(w) = 0 <=> pc[w] = "done"
                           /\ pc[w] # "idle" => Left(w) \in 0..8 + MaxUpload
  BY LeftIs, UploadAssumption
<1>3. TypeInv /\ WalkInv /\ [Next]_vars =>
        [\A w \in Writers : /\ Handle(w) \/ Drop(w) => Left(w)' < Left(w)
                            /\ Left(w)' <= Left(w)]_vars
  BY LeftStep
<1> QED BY <1>1, <1>2, <1>3, TypeInit, TypeStep, WalkInit, WalkStep, SizeStep, PTL DEF Spec
=============================================================================
