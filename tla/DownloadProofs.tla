---------------------------- MODULE DownloadProofs ---------------------------
(***************************************************************************)
(* Theorems about Download: both clients, for any history of the remote    *)
(* file, any windows and retries and any number of runs and crashes.       *)
(***************************************************************************)
EXTENDS Download, SequenceTheorems, TLAPS

(***************************************************************************)
(* The inductive invariant.  It is about behaviours without a stale state: *)
(* once a crash has left one, the properties claim nothing any more.       *)
(***************************************************************************)
Blocked == Nat \X Nat \X Nat
Chunks == [at : {"asked", "planned", "changed", "lost", "got"}, tries : Nat, of : Nat]

(* s holds nothing but the first blocks of version v.                      *)
Of(s, v) == Len(s) <= Size(v) /\ \A i \in 1..Len(s) : Came(s[i], v, i)
Begins(s, v) == Len(s) > 0 /\ Came(s[1], v, 1)
OneVersion(s) == \E v \in 1..version : Of(s, v)
All(s, v) == Of(s, v) /\ Len(s) = Size(v)

(* What the client does, or goes on with once a state is saved.            *)
Saving == {"record", "publish"}
Stage == IF phase \in Saving THEN after ELSE phase
Looping == {"head", "get", "open", "batch", "fetch", "emit"}
Passing == {"batch", "fetch", "emit", "open", "stream"}

TypeInv ==
  /\ kind \in {"browser", "native"}
  /\ sizes \in Seq(Nat) /\ version \in 1..Len(sizes)
  /\ disk \in Seq(Blocked)
  /\ saved \in [etag : Nat, offset : Nat] /\ pend \in [etag : Nat, offset : Nat]
  /\ listed \in Nat /\ etag \in Nat /\ offset \in Nat /\ meta \in Nat /\ cursor \in Nat
  /\ body \in Nat /\ \A j \in DOMAIN batch : batch[j] \in Chunks
  /\ forced \in BOOLEAN /\ opened \in BOOLEAN /\ skipped \in BOOLEAN
  /\ sink \in [open : BOOLEAN, swap : Seq(Blocked), pos : Nat, last : Nat]
  /\ writing = NoWrite \/ writing \in [at : Nat \ {0}, block : Blocked]
  /\ phase \in Looping \cup Passing \cup Saving \cup {"over", "complete", "failed", "sync", "trim", "mark"}
  /\ phase \in Saving => after \in {"emit", "batch", "stream", "complete"}

(* Versions only get newer, and every state is of a version that was.      *)
OrderInv ==
  /\ saved.etag <= version /\ pend.etag <= version /\ etag <= version /\ meta <= version
  /\ Stage \in Passing \cup {"trim", "mark"} =>
       meta >= 1 /\ cursor <= Size(meta) /\ saved.etag <= meta
  /\ Stage \in {"fetch", "emit"} => cursor + 1 \in DOMAIN batch /\ DOMAIN batch \subseteq 1..Size(meta)
  /\ kind = "browser" /\ Stage \in Passing => etag <= meta
  /\ phase = "record" /\ Stage \in Passing => pend.etag <= meta

-----------------------------------------------------------------------------
(* Whatever its etag, no block is older than it, nor newer than the file   *)
(* is: a block that came under the present version's etag is of it.        *)
Made(b) == b[3] <= b[1] /\ b[1] <= version

TruthInv ==
  /\ \A i \in 1..Len(disk) : Made(disk[i])
  /\ \A i \in 1..Len(sink.swap) : Made(sink.swap[i])
  /\ writing # NoWrite => Made(writing.block)
  /\ body <= version /\ (Stage = "stream" => meta <= body)
  /\ Stage \in {"fetch", "emit"} => \A i \in DOMAIN batch :
       batch[i].at = "got" \/ Stage = "emit" => meta <= batch[i].of /\ batch[i].of <= version

-----------------------------------------------------------------------------
(* The native client: all before the cursor is on disk or on its way.      *)
Placed(i) == i <= Len(disk) /\ Came(disk[i], meta, i)

NativeInv ==
  /\ phase \in {"over", "head", "batch", "fetch", "get", "open", "stream", "trim", "mark"}
  /\ phase = "head" /\ ~forced => writing = NoWrite
  /\ writing # NoWrite => writing.at <= Len(disk) + 1
  /\ phase \in {"batch", "fetch", "get", "open", "stream", "trim", "mark"} =>
       /\ meta >= 1 /\ cursor <= Size(meta) /\ saved.etag <= meta
       /\ \A i \in 1..cursor : Placed(i) \/ writing.at = i
       /\ writing # NoWrite => cursor = 0 \/ (writing.at = cursor /\ Came(writing.block, meta, cursor))
  /\ phase = "trim" => cursor = Size(meta) \/ meta < version
  /\ phase = "mark" => cursor = Size(meta)
  /\ phase = "mark" => writing = NoWrite /\ All(disk, meta)
  /\ phase = "over" /\ result = "done" /\ ~skipped => writing = NoWrite /\ meta >= 1 /\ All(disk, meta)

(* The saved state, if it is of the version the server has: a state ahead  *)
(* of the target, which cannot count, becomes true again when the write it *)
(* was ahead of lands.                                                     *)
NativeState ==
  saved.etag = version =>
    /\ \A i \in 1..MinOf(saved.offset, Len(disk)) : Came(disk[i], version, i) \/ writing.at = i
    /\ saved.offset > Len(disk) => \A i \in 1..Len(disk) : Came(disk[i], version, i)
    /\ writing # NoWrite => Came(writing.block, version, writing.at)

-----------------------------------------------------------------------------
(* The browser: a pass has not written yet, and its first chunk reopens    *)
(* the file, or the swap file is where the cursor is.                      *)
Fresh ==
  /\ cursor = 0 \/ (cursor <= Len(disk) /\ Begins(disk, meta))
  /\ sink.open => cursor <= sink.last
  /\ cursor < Size(meta) \/ Size(meta) = 0

Running ==
  /\ sink.open /\ cursor = sink.last + 1 /\ cursor = sink.pos
  /\ Begins(sink.swap, meta) /\ cursor <= Len(sink.swap)
  /\ Len(sink.swap) = cursor \/ Len(sink.swap) <= Len(disk)

(* A state of e and n tells the truth of what a resume would find, or of   *)
(* the swap file that is going to replace it.                              *)
Backed(e, n) ==
  e = version /\ Size(version) > 0 =>
    IF sink.open THEN Begins(sink.swap, version)
    ELSE MinOf(n, Len(disk)) = 0 \/ Begins(disk, version)

(* What the run was begun with is still there when a retry comes to it.    *)
LoadedInv ==
  Stage \in Looping =>
    /\ etag = 0 => offset = 0
    /\ offset > 0 /\ etag = version =>
         /\ offset <= Len(disk) /\ Begins(disk, version) /\ offset < Size(version)
         /\ sink.open => sink.last >= offset /\ Begins(sink.swap, version) /\ Len(sink.swap) > offset
         /\ Stage \in Passing => cursor >= offset

BrowserInv ==
  /\ phase \notin {"trim", "mark"} /\ writing = NoWrite
  /\ OneVersion(disk)
  /\ sink.open => OneVersion(sink.swap) /\ Len(sink.swap) > 0
  /\ phase \in {"over", "sync"} => ~sink.open
  /\ phase # "sync" => opened = sink.open
  /\ LoadedInv
  /\ Stage \in Passing => Fresh \/ Running
  /\ phase = "record" /\ Stage \in Passing => Running /\ pend.offset = cursor
  /\ phase = "publish" /\ Stage \in Passing => Running /\ saved.offset = cursor
  /\ Stage = "complete" /\ ~skipped /\ ~EndedShort =>
       meta >= 1 /\ (Size(meta) > 0 => sink.open /\ All(sink.swap, meta))
  /\ phase \in {"sync", "over"} /\ result = "done" /\ ~skipped /\ ~EndedShort =>
       meta >= 1 /\ (Size(meta) > 0 => All(disk, meta))

BrowserState ==
  /\ phase # "sync" => Backed(saved.etag, saved.offset)
  /\ phase = "record" => Backed(pend.etag, pend.offset)
  /\ phase = "sync" => Backed(saved.etag, IF opened THEN Len(disk) ELSE saved.offset)

DownloadInv ==
  ~stale =>
    /\ TypeInv /\ OrderInv /\ TruthInv
    /\ kind = "native" => NativeInv /\ NativeState
    /\ kind = "browser" => BrowserInv /\ BrowserState

-----------------------------------------------------------------------------
(* Sequences of blocks.                                                    *)

LEMMA PutProperties ==
  ASSUME NEW S, NEW s \in Seq(S), NEW i \in 1..(Len(s) + 1), NEW b \in S
  PROVE  /\ Put(s, i, b) \in Seq(S)
         /\ Len(Put(s, i, b)) = IF i <= Len(s) THEN Len(s) ELSE Len(s) + 1
         /\ \A j \in 1..Len(Put(s, i, b)) : Put(s, i, b)[j] = IF j = i THEN b ELSE s[j]
<1>0. Len(s) \in Nat /\ DOMAIN s = 1..Len(s)
  BY LenProperties
<1>1. CASE i \in 1..Len(s)
  <2>1. Put(s, i, b) = [s EXCEPT ![i] = b]
    BY <1>0, <1>1 DEF Put
  <2>2. /\ [s EXCEPT ![i] = b] \in Seq(S)
        /\ Len([s EXCEPT ![i] = b]) = Len(s)
        /\ \A j \in 1..Len(s) : [s EXCEPT ![i] = b][j] = IF j = i THEN b ELSE s[j]
    BY <1>1, ExceptSeq
  <2> QED BY <1>0, <1>1, <2>1, <2>2
<1>2. CASE i \notin 1..Len(s)
  <2>0. i = Len(s) + 1 /\ i \notin DOMAIN s
    BY <1>0, <1>2
  <2>1. Put(s, i, b) = Append(s, b) /\ i = Len(s) + 1
    BY <2>0 DEF Put
  <2>2. /\ Append(s, b) \in Seq(S) /\ Len(Append(s, b)) = Len(s) + 1
        /\ \A j \in 1..(Len(s) + 1) : Append(s, b)[j] = IF j = i THEN b ELSE s[j]
    BY <1>0, <2>1
  <2> QED BY <1>0, <2>1, <2>2
<1> QED BY <1>1, <1>2

(* The same of the blocks a file is made of.                               *)
LEMMA PutBlocked ==
  ASSUME NEW s \in Seq(Blocked), NEW i \in 1..(Len(s) + 1), NEW b \in Blocked
  PROVE  /\ Put(s, i, b) \in Seq(Blocked)
         /\ Len(Put(s, i, b)) = IF i <= Len(s) THEN Len(s) ELSE Len(s) + 1
         /\ \A j \in 1..Len(Put(s, i, b)) : Put(s, i, b)[j] = IF j = i THEN b ELSE s[j]
BY PutProperties

(* A block that came as the next of a version, behind its first ones.      *)
LEMMA PutOf ==
  ASSUME NEW s \in Seq(Blocked), NEW v \in Nat, Size(v) \in Nat, Of(s, v),
         NEW i \in 1..(Len(s) + 1), i <= Size(v), NEW b \in Blocked, Came(b, v, i)
  PROVE  /\ Put(s, i, b) \in Seq(Blocked) /\ Of(Put(s, i, b), v)
         /\ Begins(Put(s, i, b), v)
         /\ Len(Put(s, i, b)) = IF i <= Len(s) THEN Len(s) ELSE i
<1> DEFINE p == Put(s, i, b)
<1>0. Len(s) \in Nat
  BY LenProperties
<1>1. /\ p \in Seq(Blocked)
      /\ Len(p) = IF i <= Len(s) THEN Len(s) ELSE Len(s) + 1
      /\ \A j \in 1..Len(p) : p[j] = IF j = i THEN b ELSE s[j]
  BY ONLY s \in Seq(Blocked), i \in 1..(Len(s) + 1), b \in Blocked, PutBlocked
<1> HIDE DEF p
<1>2. i \in 1..Len(p) /\ Len(p) <= Size(v) /\ (Len(p) = IF i <= Len(s) THEN Len(s) ELSE i)
  BY <1>0, <1>1 DEF Of
<1>3. \A j \in 1..Len(p) : Came(p[j], v, j)
  BY <1>0, <1>1, SMTT(60) DEF Of
<1>4. Len(p) > 0 /\ Came(p[1], v, 1)
  BY <1>0, <1>1, <1>2, <1>3
<1> QED BY <1>1, <1>2, <1>3, <1>4 DEF Of, Begins, p

(* set_len: what there is of n blocks, and zeros behind it.                *)
LEMMA Resized ==
  ASSUME NEW s \in Seq(Blocked), NEW n \in Nat, NEW t,
         t = [i \in 1..n |-> IF i <= Len(s) THEN s[i] ELSE <<0, i, 0>>]
  PROVE  /\ t \in Seq(Blocked) /\ Len(t) = n
         /\ \A i \in 1..n : t[i] = IF i <= Len(s) THEN s[i] ELSE <<0, i, 0>>
<1>1. Len(s) \in Nat /\ \A i \in 1..Len(s) : s[i] \in Blocked
  BY LenProperties, ElementOfSeq
<1>2. \A i \in 1..n : (IF i <= Len(s) THEN s[i] ELSE <<0, i, 0>>) \in Blocked
  BY <1>1 DEF Blocked
<1>3. t \in [1..n -> Blocked]
  BY <1>2
<1> QED BY <1>3, SeqDef, LenProperties

(* A file of one version that begins like version v is of version v.       *)
LEMMA BeginsOf ==
  ASSUME NEW s, NEW v, NEW w, Of(s, w), Begins(s, v), Len(s) \in Nat
  PROVE  w = v
<1>1. Came(s[1], w, 1) /\ Came(s[1], v, 1)
  BY DEF Of, Begins
<1> QED BY <1>1 DEF Came

LEMMA OneVersionBegins ==
  ASSUME NEW s, Len(s) \in Nat, OneVersion(s), NEW v, Begins(s, v)
  PROVE  v \in 1..version /\ Of(s, v)
BY BeginsOf DEF OneVersion

LEMMA SizeTyped ==
  ASSUME TypeInv, NEW v \in 1..version
  PROVE  Size(v) \in Nat /\ v \in Nat
BY LenProperties, ElementOfSeq, SMTT(60) DEF TypeInv, Size

(* What a body has of its pass: if that is not all, the file is newer than *)
(* the etag, and so is the one the server has.                             *)
LEMMA SentFacts ==
  ASSUME TypeInv, OrderInv, TruthInv, Stage = "stream"
  PROVE  /\ meta \in 1..version /\ body \in 1..version /\ Size(meta) \in Nat /\ Size(body) \in Nat
         /\ Sent(body) \in Nat /\ Sent(body) <= Size(meta)
         /\ Sent(body) # Size(meta) => meta < version /\ body > 0 /\ Size(body) < Size(meta)
<1>1. meta \in Nat /\ body \in Nat /\ version \in Nat /\ meta >= 1 /\ meta <= body /\ body <= version
  BY LenProperties DEF TypeInv, OrderInv, TruthInv, Passing
<1>2. meta \in 1..version /\ body \in 1..version
  BY <1>1
<1>3. Size(meta) \in Nat /\ Size(body) \in Nat
  BY <1>2, SizeTyped
<1>4. body = meta => Size(body) = Size(meta)
  OBVIOUS
<1> QED BY <1>1, <1>2, <1>3, <1>4 DEF Sent, MinOf

(* What becomes of a chunk.                                                *)
LEMMA FetchTyped ==
  ASSUME TypeInv, NEW i \in DOMAIN batch, Fetch(i)
  PROVE  DOMAIN batch' = DOMAIN batch /\ \A j \in DOMAIN batch' : batch'[j] \in Chunks
<1>1. version \in Nat /\ MaxRetries \in Nat /\ \A j \in DOMAIN batch : batch[j] \in Chunks
  BY LenProperties, LimitsAssumption DEF TypeInv
<1>2. batch[i].tries \in Nat /\ batch[i] \in Chunks
  BY <1>1 DEF Chunks
<1>3. PICK c \in Chunks : batch' = [batch EXCEPT ![i] = c]
  <2> DEFINE n == batch[i].tries
  <2>1. /\ Chunk(Planned, n, 0) \in Chunks /\ Chunk("got", 0, version) \in Chunks
        /\ Chunk("lost", 0, 0) \in Chunks /\ Chunk("asked", n + 1, 0) \in Chunks
    BY <1>1, <1>2 DEF Chunk, Chunks, Planned
  <2> QED BY <2>1 DEF Fetch
<1> QED BY <1>1, <1>3

-----------------------------------------------------------------------------
(* The native client's steps.                                              *)
NInv == kind = "native" /\ ~stale /\ TypeInv /\ OrderInv /\ NativeInv /\ NativeState

LEMMA NativeStep ==
  ASSUME NInv, Next
  PROVE  \/ Change \/ NBegin \/ NextBatch \/ (\E i \in DOMAIN batch : Fetch(i))
         \/ NAskMeta \/ NEmit \/ NError \/ NGet \/ Open \/ NStream \/ NAllEmitted
         \/ Trim \/ Mark \/ Land \/ Crash
BY DEF NInv, NativeInv, Next, Work, Begin, AskMeta, Collect, Emit, AllEmitted, Get, Stream,
   Record, Publish, Close, Sync, Cancel

LEMMA NativeFacts ==
  ASSUME NInv
  PROVE  /\ Len(disk) \in Nat /\ cursor \in Nat /\ version \in Nat /\ meta \in Nat
         /\ saved.offset \in Nat /\ saved.etag \in Nat
         /\ Stage = phase /\ NoWrite.at = 0
         /\ writing # NoWrite => writing.at \in Nat \ {0} /\ writing.block \in Blocked
         /\ \A v \in 1..version : Size(v) \in Nat
         /\ meta >= 1 => meta \in 1..version
<1>1. Stage = phase
  BY DEF NInv, NativeInv, Stage, Saving
<1>2. saved.offset \in Nat /\ saved.etag \in Nat
  BY DEF NInv, TypeInv
<1>3. \A v \in 1..version : Size(v) \in Nat
  BY SizeTyped DEF NInv
<1>4. Len(disk) \in Nat /\ version \in Nat
  BY LenProperties DEF NInv, TypeInv
<1> QED BY <1>1, <1>2, <1>3, <1>4, SMTT(60) DEF NInv, TypeInv, OrderInv, NoWrite

(* A step that leaves the files and the cursor alone.                      *)
LEMMA NativeRest ==
  ASSUME NInv, UNCHANGED <<setting, version, kept, meta, cursor, writing, pend, etag, stale>>,
         TypeInv',
         phase' \in {"over", "head", "batch", "fetch", "get", "open", "stream", "trim"},
         phase' \in {"batch", "fetch", "get", "open", "stream", "trim"} =>
           phase \in {"batch", "fetch", "get", "open", "stream"},
         phase' = "fetch" => cursor + 1 \in DOMAIN batch' /\ DOMAIN batch' \subseteq 1..Size(meta),
         phase' = "trim" => cursor = Size(meta) \/ meta < version,
         phase' = "head" => forced' \/ writing = NoWrite,
         phase' = "over" => result' # "done"
  PROVE  NInv'
<1> USE DEF setting, kept
<1>1. UNCHANGED <<kind, sizes, version, disk, saved, meta, cursor, writing, pend, etag>>
  OBVIOUS
<1>2. Stage' = phase' /\ Stage = phase
  BY NativeFacts DEF Stage, Saving
<1>3. OrderInv'
  BY <1>1, <1>2 DEF NInv, OrderInv, NativeInv, Passing, Size
<1>4. NativeInv'
  BY <1>1 DEF NInv, NativeInv, Placed, Size
<1>5. NativeState'
  BY <1>1 DEF NInv, NativeState
<1> QED BY <1>1, <1>3, <1>4, <1>5 DEF NInv

LEMMA NativeQuiet ==
  ASSUME NInv,
         NBegin \/ NextBatch \/ (\E i \in DOMAIN batch : Fetch(i)) \/ NError \/ NGet \/ Open \/ NAllEmitted
  PROVE  NInv'
<1> USE DEF setting, kept, engine, place, saving, local, history, outcome
<1>1. CASE NBegin
  <2>1. TypeInv'
    <3>1. UNCHANGED <<kind, sizes, version, disk, saved, pend, listed, batch, etag, offset,
                      opened, sink, writing, after>>
      BY <1>1 DEF NBegin
    <3>2. phase' = "head" /\ forced' = FALSE /\ skipped' = FALSE /\ cursor' = 0 /\ meta' = 0 /\ body' = 0
      BY <1>1 DEF NBegin
    <3> QED BY <3>1, <3>2 DEF NInv, TypeInv, Looping, Saving
  <2>2. phase' = "head" /\ writing = NoWrite /\ forced' = FALSE /\ meta' = 0 /\ cursor' = 0
        /\ UNCHANGED <<kind, sizes, version, disk, saved, writing, pend, etag, stale>>
    BY <1>1 DEF NBegin
  <2>3. Stage' = "head"
    BY <2>2 DEF Stage, Saving
  <2>4. OrderInv'
    BY <2>2, <2>3, NativeFacts DEF NInv, OrderInv, Passing
  <2>5. NativeInv' /\ NativeState'
    BY <2>2 DEF NInv, NativeInv, NativeState
  <2> QED BY <2>1, <2>2, <2>4, <2>5 DEF NInv
<1>2. CASE NextBatch
  <2>1. PICK w \in 1..MaxWindow : batch' = [i \in BatchOf(w) |-> Chunk("asked", 0, 0)]
    BY <1>2 DEF NextBatch
  <2>2. phase = "batch" /\ phase' = "fetch" /\ cursor < Size(meta)
        /\ UNCHANGED <<setting, version, kept, meta, cursor, writing, pend, etag, stale>>
    BY <1>2 DEF NextBatch
  <2>3. cursor \in Nat /\ Size(meta) \in Nat
    BY <2>2, NativeFacts DEF NInv, NativeInv
  <2>4. cursor + 1 \in DOMAIN batch' /\ DOMAIN batch' \subseteq 1..Size(meta)
    BY <2>1, <2>2, <2>3, LimitsAssumption DEF BatchOf, MinOf
  <2>5. TypeInv'
    <3>1. \A j \in DOMAIN batch' : batch'[j] \in Chunks
      BY <2>1 DEF Chunk, Chunks
    <3> QED BY <1>2, <3>1 DEF NInv, NextBatch, TypeInv, Looping, Saving
  <2> QED BY <2>2, <2>4, <2>5, NativeRest
<1>3. ASSUME NEW i \in DOMAIN batch, Fetch(i)
      PROVE  NInv'
  <2>0. DOMAIN batch' = DOMAIN batch /\ \A j \in DOMAIN batch' : batch'[j] \in Chunks
    BY <1>3, FetchTyped DEF NInv
  <2>1. phase = "fetch" /\ phase' = "fetch" /\ DOMAIN batch' = DOMAIN batch
        /\ UNCHANGED <<setting, version, kept, meta, cursor, writing, pend, etag, stale>>
    BY <1>3, <2>0 DEF Fetch
  <2>2. TypeInv'
    BY <1>3, <2>0 DEF NInv, Fetch, TypeInv, Saving
  <2>3. cursor + 1 \in DOMAIN batch /\ DOMAIN batch \subseteq 1..Size(meta)
    BY <2>1, NativeFacts DEF NInv, OrderInv
  <2> QED BY <2>1, <2>2, <2>3, NativeRest
<1>4. CASE NError \/ NGet
  <2>1. /\ UNCHANGED <<setting, version, kept, meta, cursor, writing, pend, etag, stale>>
        /\ phase \in {"fetch", "get"}
    BY <1>4 DEF NError, NGet
  <2>2. \/ phase' = "head" /\ forced' = TRUE
        \/ phase' = "over" /\ result' = "failed" /\ forced' = forced
        \/ phase' = "open" /\ forced' = forced
    BY <1>4 DEF NError, NGet, NFails
  <2>3. TypeInv'
    <3>0. batch' = <<>> \/ batch' = batch
      BY <1>4 DEF NError, NGet
    <3>1. UNCHANGED <<kind, sizes, version, disk, saved, pend, listed, body, etag, offset, meta, cursor,
                      opened, skipped, sink, writing, after>>
      BY <1>4 DEF NError, NGet
    <3>2. forced' \in BOOLEAN
      BY <2>2 DEF NInv, TypeInv
    <3>3. \A j \in DOMAIN batch' : batch'[j] \in Chunks
      BY <3>0 DEF NInv, TypeInv
    <3> QED BY <2>2, <3>1, <3>2, <3>3 DEF NInv, TypeInv, Looping, Passing, Saving
  <2> QED BY <2>1, <2>2, <2>3, NativeRest
<1>6. CASE Open
  <2>1. /\ UNCHANGED <<kind, sizes, version, disk, saved, pend, listed, batch, offset, meta, cursor, forced,
                       opened, skipped, sink, writing, after, stale>>
        /\ phase = "open" /\ phase' = "stream" /\ body' = version /\ etag' = etag
    BY <1>6 DEF Open, NInv
  <2>2. TypeInv'
    BY <2>1, NativeFacts DEF NInv, TypeInv, Passing, Saving
  <2> QED BY <2>1, <2>2, NativeRest
<1>5. CASE NAllEmitted
  <2>1. TypeInv'
    BY <1>5 DEF NInv, NAllEmitted, TypeInv, Saving
  <2> QED BY <1>5, <2>1, NativeRest DEF NAllEmitted
<1> QED BY <1>1, <1>2, <1>3, <1>4, <1>5, <1>6

(* A change of the remote file makes every state one of an older version.  *)
LEMMA NativeChange ==
  ASSUME NInv, Change
  PROVE  NInv'
<1> USE DEF setting, kept, engine, place, saving, local, history, outcome
<1>1. /\ UNCHANGED <<kind, sizes, disk, saved, pend, listed, body, etag, offset, meta, cursor, batch, forced,
                     opened, skipped, sink, writing, after, phase, result, stale>>
      /\ version < Len(sizes) /\ version' = version + 1
  BY DEF Change
<1>2. version \in Nat /\ saved.etag <= version /\ saved.etag \in Nat
  BY NativeFacts DEF NInv, OrderInv
<1>3. TypeInv'
  BY <1>1, LenProperties DEF NInv, TypeInv
<1>4. OrderInv'
  <2>1. /\ saved.etag <= version' /\ pend.etag <= version' /\ etag <= version' /\ meta <= version'
    BY <1>1, <1>2, SMTT(60) DEF NInv, OrderInv, TypeInv
  <2>2. Stage' = Stage
    BY <1>1 DEF Stage
  <2> QED BY <1>1, <2>1, <2>2 DEF NInv, OrderInv, Size
<1>5. NativeInv'
  <2>1. meta < version => meta < version'
    BY <1>1, <1>2, NativeFacts
  <2> QED BY <1>1, <2>1 DEF NInv, NativeInv, Placed, All, Of, Size
<1>6. NativeState'
  BY <1>1, <1>2 DEF NativeState
<1> QED BY <1>1, <1>3, <1>4, <1>5, <1>6 DEF NInv

(* The answer to HEAD: a resume starts where the state says, and all of    *)
(* that is on disk.                                                        *)
LEMMA NativeAsks ==
  ASSUME NInv, NAskMeta
  PROVE  NInv'
<1> USE DEF setting, kept, engine, place, saving, local, history, outcome
<1>1. /\ UNCHANGED <<kind, sizes, version, disk, saved, pend, listed, body, etag, offset, batch,
                     opened, sink, writing, after, stale>>
      /\ phase = "head"
  BY DEF NAskMeta
<1>2. /\ version \in Nat /\ version \in 1..version /\ Size(version) \in Nat
      /\ Len(disk) \in Nat /\ saved.offset \in Nat
  BY NativeFacts, SMTT(60) DEF NInv, TypeInv
<1>3. CASE NFails(FALSE) /\ UNCHANGED <<meta, cursor, skipped>>
  <2>1. phase' = "over" /\ result' = "failed" /\ UNCHANGED forced
    BY <1>3 DEF NFails
  <2>2. TypeInv'
    BY <1>1, <1>3, <2>1 DEF NInv, TypeInv, Saving
  <2> QED BY <1>1, <1>3, <2>1, <2>2, NativeRest
<1>4. ASSUME NEW start, start = (IF Resumable THEN saved.offset ELSE 0),
             meta' = version, cursor' = start, forced' = forced,
             skipped' = (start = Size(version)),
             phase' = (IF start = Size(version) THEN "over"
                       ELSE IF Chunked(Size(version), start) THEN "batch" ELSE "get")
      PROVE  NInv'
  <2>1. start \in Nat /\ start <= Size(version) /\ start <= Len(disk)
    BY <1>2, <1>4 DEF Resumable
  <2>2. \A i \in 1..start : i <= Len(disk) /\ Came(disk[i], version, i)
    <3>1. CASE Resumable
      <4>1. writing = NoWrite /\ saved.etag = version /\ start = saved.offset
        BY <1>1, <1>4, <3>1 DEF Resumable, NInv, NativeInv
      <4>2. \A i \in 1..start : Came(disk[i], version, i) \/ writing.at = i
        BY <1>2, <2>1, <4>1 DEF NInv, NativeState, MinOf
      <4> QED BY <2>1, <4>1, <4>2, NativeFacts, SMTT(60)
    <3>2. CASE ~Resumable
      BY <1>4, <3>2
    <3> QED BY <3>1, <3>2
  <2>3. phase' \in {"over", "batch", "get"} /\ skipped' \in BOOLEAN /\ (phase' = "over" => skipped')
    BY <1>4
  <2>4. saved.etag <= version /\ pend.etag <= version /\ etag <= version
    BY DEF NInv, OrderInv
  <2>5. Stage' = phase'
    BY <2>3 DEF Stage, Saving
  <2>6. TypeInv'
    <3>1. meta' \in Nat /\ cursor' \in Nat /\ forced' \in BOOLEAN
      BY <1>2, <1>4, <2>1 DEF NInv, TypeInv
    <3> QED BY <1>1, <2>3, <3>1 DEF NInv, TypeInv, Saving, Looping
  <2>7. OrderInv'
    BY <1>1, <1>2, <1>4, <2>1, <2>3, <2>4, <2>5 DEF OrderInv, Passing, Size, NInv
  <2>8. NativeInv'
    <3>1. writing # NoWrite /\ phase' # "over" => cursor' = 0
      BY <1>1, <1>4 DEF NInv, NativeInv, Resumable
    <3>2. (writing # NoWrite => writing.at <= Len(disk) + 1)'
      BY <1>1 DEF NInv, NativeInv
    <3> QED BY <1>1, <1>2, <1>4, <2>1, <2>2, <2>3, <2>4, <3>1, <3>2 DEF NativeInv, Placed, Size
  <2>9. NativeState'
    BY <1>1 DEF NInv, NativeState
  <2> QED BY <1>1, <2>6, <2>7, <2>8, <2>9 DEF NInv
<1> QED BY <1>3, <1>4 DEF NAskMeta

(* A block goes out: the state it may leave is of the block in flight.     *)
LEMMA NativeWrites ==
  ASSUME NInv, TypeInv', NEW v \in Nat, NWrite(v), cursor < Size(meta),
         UNCHANGED <<kind, sizes, version, disk, meta, pend, etag, stale>>,
         phase \in {"fetch", "stream"}, phase' \in {"batch", "fetch", "stream"},
         phase' = "fetch" => cursor + 2 \in DOMAIN batch' /\ DOMAIN batch' \subseteq 1..Size(meta),
         saved' \in {saved, State(meta, cursor + 1)}
  PROVE  NInv'
<1>1. /\ Len(disk) \in Nat /\ cursor \in Nat /\ version \in Nat /\ meta \in Nat
      /\ meta >= 1 /\ Size(meta) \in Nat /\ saved.offset \in Nat /\ saved.etag \in Nat
  BY NativeFacts DEF NInv, NativeInv
<1>2. /\ writing = NoWrite /\ writing' # NoWrite
      /\ writing' = [at |-> cursor + 1, block |-> <<v, cursor + 1, meta>>] /\ cursor' = cursor + 1
      /\ writing'.at = cursor + 1 /\ Came(writing'.block, meta, cursor + 1)
  BY <1>1 DEF NWrite, NoWrite, Came
<1>3. \A i \in 1..cursor : i <= Len(disk) /\ Came(disk[i], meta, i)
  BY <1>1, <1>2, NativeFacts, SMTT(60) DEF NInv, NativeInv, Placed
<1>4. cursor <= Len(disk)
  BY <1>1, <1>3
<1>5. Stage' = phase'
  BY DEF Stage, Saving
<1>6. saved'.etag <= meta /\ meta <= version /\ (saved'.etag = version => meta = version)
  BY <1>1 DEF NInv, NativeInv, OrderInv, State
<1>7. OrderInv'
  <2>1. saved'.etag <= version' /\ pend'.etag <= version' /\ etag' <= version' /\ meta' <= version'
    <3>1. saved'.etag \in Nat
      BY DEF TypeInv
    <3> QED BY <1>1, <1>6, <3>1 DEF NInv, OrderInv
  <2>2. meta' >= 1 /\ cursor' <= Size(meta)' /\ saved'.etag <= meta'
    BY <1>1, <1>2, <1>6 DEF Size
  <2>3. phase' = "fetch" => cursor' + 1 \in DOMAIN batch' /\ DOMAIN batch' \subseteq 1..Size(meta)'
    BY <1>1, <1>2 DEF Size
  <2>4. phase' # "emit" /\ phase' # "record" /\ kind' # "browser"
    BY DEF NInv
  <2> QED BY <1>5, <2>1, <2>2, <2>3, <2>4 DEF OrderInv
<1>8. NativeInv'
  <2>1. \A i \in 1..cursor' : Placed(i)' \/ writing'.at = i
    BY <1>1, <1>2, <1>3, SMTT(60) DEF Placed
  <2> QED BY <1>1, <1>2, <1>4, <1>6, <2>1 DEF NInv, NativeInv, Size
<1>9. NativeState'
  <2> SUFFICES ASSUME saved'.etag = version
               PROVE  /\ \A i \in 1..MinOf(saved'.offset, Len(disk)) :
                           Came(disk[i], version, i) \/ writing'.at = i
                      /\ saved'.offset > Len(disk) => \A i \in 1..Len(disk) : Came(disk[i], version, i)
                      /\ Came(writing'.block, version, writing'.at)
    BY DEF NativeState
  <2>1. meta = version
    BY <1>6
  <2>2. CASE saved' = saved
    <3>1. /\ \A i \in 1..MinOf(saved.offset, Len(disk)) : Came(disk[i], version, i) \/ writing.at = i
          /\ saved.offset > Len(disk) => \A i \in 1..Len(disk) : Came(disk[i], version, i)
      BY <2>2 DEF NInv, NativeState
    <3>2. \A i \in 1..MinOf(saved.offset, Len(disk)) : i # writing.at
      BY <1>2 DEF NoWrite
    <3> QED BY <1>2, <2>1, <2>2, <3>1, <3>2
  <2>3. CASE saved' = State(meta, cursor + 1)
    <3>1. saved'.offset = cursor + 1
      BY <2>3 DEF State
    <3>2. \A i \in 1..MinOf(saved'.offset, Len(disk)) : i <= Len(disk) /\ (i <= cursor \/ i = cursor + 1)
      BY <1>1, <3>1 DEF MinOf
    <3>3. \A i \in 1..MinOf(saved'.offset, Len(disk)) : Came(disk[i], version, i) \/ writing'.at = i
      BY <1>1, <1>2, <1>3, <2>1, <3>1 DEF MinOf
    <3>4. saved'.offset > Len(disk) => \A i \in 1..Len(disk) : Came(disk[i], version, i)
      BY <1>1, <1>3, <2>1, <3>1, SMTT(60)
    <3> QED BY <1>2, <2>1, <3>3, <3>4
  <2> QED BY <2>2, <2>3
<1> QED BY <1>7, <1>8, <1>9 DEF NInv

LEMMA NativeEmits ==
  ASSUME NInv, TruthInv, NEmit \/ NStream
  PROVE  NInv'
<1> USE DEF setting, kept, engine, place, saving, local, history, outcome
<1>0. cursor \in Nat /\ meta \in Nat
  BY NativeFacts
<1>1. CASE NEmit
  <2> DEFINE v == batch[cursor + 1].of
  <2>1. /\ phase = "fetch" /\ NWrite(v)
        /\ UNCHANGED <<kind, sizes, version, disk, meta, pend, etag, stale>>
    BY <1>1 DEF NEmit
  <2>2. /\ phase' = IF cursor + 2 \notin DOMAIN batch THEN "batch" ELSE "fetch"
        /\ batch' = IF cursor + 2 \notin DOMAIN batch THEN <<>> ELSE batch
        /\ saved' \in {saved, State(meta, cursor + 1)}
    BY <1>1 DEF NEmit
  <2>3. /\ cursor + 1 \in DOMAIN batch /\ DOMAIN batch \subseteq 1..Size(meta)
        /\ meta >= 1 /\ Size(meta) \in Nat
    BY <2>1, NativeFacts DEF NInv, OrderInv, NativeInv
  <2>4. cursor < Size(meta) /\ v \in Nat
    <3>1. batch[cursor + 1] \in Chunks
      BY <2>3 DEF NInv, TypeInv
    <3> QED BY <1>0, <2>3, <3>1 DEF Chunks
  <2>5. TypeInv'
    <3>1. UNCHANGED <<kind, sizes, version, disk, pend, listed, body, etag, offset, meta, forced,
                      opened, skipped, sink, after>>
      BY <1>1 DEF NEmit
    <3>2. saved' \in [etag : Nat, offset : Nat]
      BY <1>0, <2>2, SMTT(60) DEF NInv, TypeInv, State
    <3>3. writing' \in [at : Nat \ {0}, block : Blocked] /\ cursor' \in Nat
      BY <1>0, <2>1, <2>4 DEF NWrite, Blocked
    <3>4. \A j \in DOMAIN batch' : batch'[j] \in Chunks
      BY <2>2 DEF NInv, TypeInv
    <3> QED BY <2>2, <3>1, <3>2, <3>3, <3>4 DEF NInv, TypeInv, Saving, Looping, Passing
  <2> HIDE DEF v
  <2> QED BY <2>1, <2>2, <2>3, <2>4, <2>5, NativeWrites
<1>2. CASE NStream
  <2>1. /\ UNCHANGED <<kind, sizes, version, disk, pend, listed, body, etag, offset, meta, forced, batch,
                       opened, skipped, sink, after, stale>>
        /\ phase = "stream"
    BY <1>2 DEF NStream
  <2>0. /\ body \in Nat /\ Sent(body) \in Nat /\ Sent(body) <= Size(meta) /\ Size(meta) \in Nat
        /\ cursor <= Size(meta) /\ (Sent(body) # Size(meta) => meta < version)
    BY <2>1, NativeFacts, SentFacts DEF NInv, NativeInv
  <2>2. CASE /\ cursor < Sent(body) /\ NWrite(body) /\ saved' \in {saved, State(meta, cursor + 1)}
             /\ UNCHANGED <<phase, result>>
    <3>1. saved' \in [etag : Nat, offset : Nat]
      BY <1>0, <2>2, SMTT(60) DEF NInv, TypeInv, State
    <3>2. writing' \in [at : Nat \ {0}, block : Blocked] /\ cursor' \in Nat
      BY <1>0, <2>0, <2>2 DEF NWrite, Blocked
    <3>3. TypeInv'
      BY <2>1, <2>2, <3>1, <3>2 DEF NInv, TypeInv, Saving
    <3>4. cursor < Size(meta)
      BY <1>0, <2>0, <2>2
    <3> QED BY <2>0, <2>1, <2>2, <3>3, <3>4, NativeWrites
  <2>3. CASE /\ phase' \in {"over", "trim"} /\ (phase' = "over" => result' = "failed")
             /\ (phase' = "trim" => cursor = Size(meta) \/ meta < version)
             /\ UNCHANGED <<cursor, saved, writing>>
    <3>1. TypeInv'
      BY <2>1, <2>3, SMTT(60) DEF NInv, TypeInv, Saving
    <3> QED BY <2>1, <2>3, <3>1, NativeRest
  <2>4. cursor >= Sent(body) => cursor = Size(meta) \/ meta < version
    BY <1>0, <2>0
  <2> QED BY <1>2, <2>2, <2>3, <2>4 DEF NStream
<1> QED BY <1>1, <1>2

LEMMA NativeLands ==
  ASSUME NInv, Land
  PROVE  NInv'
<1> USE DEF setting, kept, engine, place, saving, local, history, outcome
<1> DEFINE at == writing.at
<1>1. /\ UNCHANGED <<kind, sizes, version, saved, pend, listed, body, etag, offset, meta, cursor, batch, forced,
                     opened, skipped, sink, after, phase, result, stale>>
      /\ writing # NoWrite /\ writing' = NoWrite /\ disk' = Put(disk, at, writing.block)
  BY DEF Land
<1>2. /\ at \in 1..(Len(disk) + 1) /\ writing.block \in Blocked /\ Len(disk) \in Nat /\ cursor \in Nat
      /\ disk \in Seq(Blocked) /\ saved.offset \in Nat
  <2>1. at \in Nat \ {0} /\ writing.block \in Blocked /\ Len(disk) \in Nat /\ cursor \in Nat
        /\ saved.offset \in Nat
    BY <1>1, NativeFacts
  <2>2. at <= Len(disk) + 1
    BY <1>1 DEF NInv, NativeInv
  <2>3. disk \in Seq(Blocked)
    BY DEF NInv, TypeInv
  <2> QED BY <2>1, <2>2, <2>3
<1>3. /\ disk' \in Seq(Blocked)
      /\ Len(disk') = IF at <= Len(disk) THEN Len(disk) ELSE Len(disk) + 1
      /\ \A j \in 1..Len(disk') : disk'[j] = IF j = at THEN writing.block ELSE disk[j]
  <2> HIDE DEF at
  <2> QED BY <1>1, <1>2, PutBlocked, SMTT(60)
<1>4. /\ Len(disk') \in Nat /\ Len(disk') >= Len(disk) /\ at <= Len(disk') /\ Len(disk') <= Len(disk) + 1
      /\ \A j \in 1..Len(disk') : j # at => j <= Len(disk)
  <2> HIDE DEF at
  <2> QED BY <1>2, <1>3
<1>5. TypeInv'
  BY <1>1, <1>3 DEF NInv, TypeInv
<1>6. OrderInv'
  <2>1. Stage' = Stage
    BY <1>1 DEF Stage
  <2> QED BY <1>1, <2>1 DEF NInv, OrderInv, Size
<1>7. NativeInv'
  <2>1. phase # "mark" /\ ~(phase = "over" /\ result = "done" /\ ~skipped)
    BY <1>1 DEF NInv, NativeInv
  <2>2. ASSUME phase \in {"batch", "fetch", "get", "open", "stream", "trim", "mark"}
        PROVE  \A i \in 1..cursor : Placed(i)'
    <3> SUFFICES ASSUME NEW i \in 1..cursor
                 PROVE  i <= Len(disk') /\ Came(disk'[i], meta, i)
      BY <1>1 DEF Placed
    <3>1. CASE i = at
      <4>1. cursor # 0 /\ writing.at = cursor /\ Came(writing.block, meta, cursor)
        BY <1>1, <1>2, <2>2 DEF NInv, NativeInv
      <4>2. i = cursor /\ Came(writing.block, meta, i)
        BY <3>1, <4>1
      <4> QED BY <1>2, <1>3, <1>4, <3>1, <4>2
    <3>2. CASE i # at
      <4>1. i <= Len(disk) /\ Came(disk[i], meta, i)
        BY <2>2, <3>2 DEF NInv, NativeInv, Placed
      <4> QED BY <1>2, <1>3, <1>4, <3>2, <4>1
    <3> QED BY <3>1, <3>2
  <2> QED BY <1>1, <2>1, <2>2 DEF NInv, NativeInv, Size
<1>8. NativeState'
  <2> SUFFICES ASSUME saved.etag = version
               PROVE  /\ \A i \in 1..MinOf(saved.offset, Len(disk')) : Came(disk'[i], version, i)
                      /\ saved.offset > Len(disk') => \A i \in 1..Len(disk') : Came(disk'[i], version, i)
    BY <1>1 DEF NativeState
  <2>1. Came(writing.block, version, at)
    BY <1>1 DEF NInv, NativeState
  <2>2. \A i \in 1..MinOf(saved.offset, Len(disk)) : Came(disk[i], version, i) \/ at = i
    BY DEF NInv, NativeState
  <2>3. saved.offset > Len(disk) => \A i \in 1..Len(disk) : Came(disk[i], version, i)
    BY DEF NInv, NativeState
  <2>4. ASSUME NEW i \in 1..Len(disk'), i <= saved.offset
        PROVE  Came(disk'[i], version, i)
    <3>1. CASE i = at
      BY <1>3, <2>1, <3>1
    <3>2. CASE i # at
      <4>1. i \in 1..MinOf(saved.offset, Len(disk))
        BY <1>2, <1>4, <2>4, <3>2 DEF MinOf
      <4> QED BY <1>3, <2>2, <3>2, <4>1
    <3> QED BY <3>1, <3>2
  <2> HIDE DEF at
  <2>5. \A i \in 1..MinOf(saved.offset, Len(disk')) : i \in 1..Len(disk') /\ i <= saved.offset
    BY <1>2, <1>4 DEF MinOf
  <2>6. saved.offset > Len(disk') => \A i \in 1..Len(disk') : i <= saved.offset
    BY <1>2, <1>4
  <2> QED BY <2>4, <2>5, <2>6
<1> QED BY <1>1, <1>5, <1>6, <1>7, <1>8 DEF NInv

LEMMA NativeEnds ==
  ASSUME NInv, Trim \/ Mark
  PROVE  NInv'
<1> USE DEF setting, kept, engine, place, saving, local, history, outcome
<1>0. /\ UNCHANGED <<kind, sizes, version, pend, listed, body, etag, offset, meta, cursor, batch, forced,
                     opened, skipped, sink, after, writing, stale>>
      /\ phase \in {"trim", "mark"}
  BY DEF Trim, Mark
<1>1. /\ meta >= 1 /\ cursor <= Size(meta) /\ saved.etag <= meta /\ meta <= version
      /\ meta \in Nat /\ version \in Nat /\ saved.etag \in Nat /\ Size(meta) \in Nat /\ Len(disk) \in Nat
  BY <1>0, NativeFacts DEF NInv, NativeInv, OrderInv
<1>2. Stage = phase /\ (phase' \in {"over", "mark"} => Stage' = phase')
  BY NativeFacts DEF Stage, Saving
<1>3. CASE Trim
  <2>1. /\ phase = "trim" /\ writing = NoWrite /\ saved' = saved /\ disk \in Seq(Blocked)
        /\ IF cursor = Size(meta) THEN phase' = "mark" ELSE phase' = "over" /\ result' = "failed"
    BY <1>3 DEF Trim, NInv, TypeInv
  <2>2. /\ disk' \in Seq(Blocked) /\ Len(disk') = Size(meta)
        /\ \A i \in 1..Size(meta) : disk'[i] = IF i <= Len(disk) THEN disk[i] ELSE <<0, i, 0>>
    BY <1>1, <1>3, <2>1, Resized DEF Trim
  <2>3. TypeInv'
    BY <1>0, <2>1, <2>2 DEF NInv, TypeInv, Saving
  <2>4. OrderInv'
    BY <1>0, <1>2, <2>1 DEF NInv, OrderInv, Size, Passing
  <2>5. CASE cursor # Size(meta)
    <3>1. phase' = "over" /\ result' = "failed" /\ meta < version
      BY <1>0, <2>1, <2>5 DEF NInv, NativeInv
    <3>2. NativeInv'
      BY <1>0, <2>1, <3>1 DEF NInv, NativeInv
    <3>3. NativeState'
      BY <1>0, <1>1, <2>1, <3>1 DEF NativeState
    <3> QED BY <1>0, <2>3, <2>4, <3>2, <3>3 DEF NInv
  <2>6. CASE cursor = Size(meta)
    <3>1. \A i \in 1..Size(meta) : i <= Len(disk) /\ Came(disk[i], meta, i)
      BY <1>1, <2>1, <2>6, NativeFacts, SMTT(60) DEF NInv, NativeInv, Placed
    <3>2. \A i \in 1..Size(meta) : Came(disk'[i], meta, i)
      BY <2>2, <3>1
    <3>3. All(disk', meta)
      BY <1>1, <2>2, <3>2 DEF All, Of
    <3>4. NativeInv'
      BY <1>0, <1>1, <2>1, <2>2, <2>6, <3>2, <3>3, SMTT(60) DEF NInv, NativeInv, Placed, All, Of, Size
    <3>5. NativeState'
      <4>1. saved.etag = version => meta = version
        BY <1>1
      <4>2. \A i \in 1..MinOf(saved.offset, Len(disk')) : i \in 1..Size(meta)
        BY <1>1, <2>2, NativeFacts DEF MinOf
      <4> QED BY <1>0, <2>1, <2>2, <3>2, <4>1, <4>2 DEF NativeState
    <3> QED BY <1>0, <2>3, <2>4, <3>4, <3>5 DEF NInv
  <2> QED BY <2>5, <2>6
<1>4. CASE Mark
  <2>1. phase = "mark" /\ phase' = "over" /\ result' = "done" /\ disk' = disk
        /\ saved' = [etag |-> meta, offset |-> Size(meta)] /\ writing = NoWrite /\ All(disk, meta)
    BY <1>4 DEF Mark, State, NInv, NativeInv
  <2>2. TypeInv'
    BY <1>0, <1>1, <2>1 DEF NInv, TypeInv, Saving
  <2>3. OrderInv'
    BY <1>0, <1>1, <1>2, <2>1 DEF NInv, OrderInv, Size, Passing
  <2>4. NativeInv'
    BY <1>0, <1>1, <2>1 DEF NInv, NativeInv, All, Of, Size
  <2>5. NativeState'
    <3>1. Len(disk) = Size(meta) /\ \A i \in 1..Len(disk) : Came(disk[i], meta, i)
      BY <2>1 DEF All, Of
    <3>2. MinOf(saved'.offset, Len(disk)) = Len(disk)
      BY <1>1, <2>1, <3>1 DEF MinOf
    <3> QED BY <1>0, <2>1, <3>1, <3>2 DEF NativeState
  <2> QED BY <1>0, <2>2, <2>3, <2>4, <2>5 DEF NInv
<1> QED BY <1>3, <1>4

(* A crash loses the write in flight.  A state that it was part of is not  *)
(* true any more, and that is what stale says, or does not count.          *)
LEMMA NativeCrashes ==
  ASSUME NInv, Crash, ~stale'
  PROVE  NInv'
<1> USE DEF setting, kept, engine, place, saving, local, history, outcome
<1>1. /\ UNCHANGED <<kind, sizes, version, disk, saved, listed, body, etag, offset, meta, cursor, forced>>
      /\ batch' = <<>> /\ phase' = "over" /\ result' = "crashed" /\ skipped' = FALSE /\ ~Unbacked
      /\ sink' = NoSink /\ opened' = FALSE /\ writing' = NoWrite /\ pend' = NoState /\ kind = "native"
  BY DEF Crash, NInv
<1>2. /\ disk \in Seq(Blocked) /\ Len(disk) \in Nat /\ saved.offset \in Nat /\ version \in Nat
      /\ NoSink \in [open : BOOLEAN, swap : Seq(Blocked), pos : Nat, last : Nat]
      /\ NoState \in [etag : Nat, offset : Nat] /\ NoState.etag = 0
  BY NativeFacts DEF NInv, TypeInv, NoSink, NoState, State
<1>3. Stage' = "over"
  BY <1>1 DEF Stage, Saving
<1>4. TypeInv'
  <2>1. \A j \in DOMAIN batch' : batch'[j] \in Chunks
    BY <1>1
  <2> QED BY <1>1, <1>2, <2>1 DEF NInv, TypeInv, Saving
<1>5. OrderInv'
  BY <1>1, <1>2, <1>3 DEF NInv, OrderInv, Passing
<1>6. NativeInv'
  BY <1>1 DEF NativeInv
<1>7. NativeState'
  <2> DEFINE n == MinOf(saved.offset, Len(disk))
  <2> SUFFICES ASSUME saved.etag = version
               PROVE  /\ \A i \in 1..n : Came(disk[i], version, i)
                      /\ saved.offset > Len(disk) => \A i \in 1..Len(disk) : Came(disk[i], version, i)
    BY <1>1 DEF NativeState
  <2>1. saved.offset > Len(disk) => \A i \in 1..Len(disk) : Came(disk[i], version, i)
    BY DEF NInv, NativeState
  <2>2. n \in 0..Len(disk) /\ (n # saved.offset => n = Len(disk) /\ saved.offset > Len(disk))
    BY <1>2 DEF MinOf
  <2>3. CASE n # saved.offset
    <3> HIDE DEF n
    <3> QED BY <2>1, <2>2, <2>3
  <2>4. CASE n = saved.offset
    <3>1. \A i \in 1..n : Came(disk[i], version, i)
      BY <1>1, <2>4 DEF Unbacked
    <3> HIDE DEF n
    <3> QED BY <2>1, <3>1
  <2> QED BY <2>3, <2>4
<1> QED BY <1>1, <1>4, <1>5, <1>6, <1>7 DEF NInv, Crash

LEMMA NativeNext ==
  ASSUME NInv, TruthInv, [Next]_vars, ~stale'
  PROVE  NInv'
<1>1. CASE UNCHANGED vars
  <2>1. UNCHANGED <<kind, sizes, version, disk, saved, pend, listed, body, etag, offset, meta, cursor, batch,
                    forced, opened, skipped, sink, writing, after, phase, result, stale>>
    BY <1>1 DEF vars, setting, kept, engine, place, saving, local, history, outcome
  <2>2. Stage' = Stage
    BY <2>1 DEF Stage
  <2>3. TypeInv' /\ OrderInv'
    BY <2>1, <2>2 DEF NInv, TypeInv, OrderInv, Size
  <2>4. NativeInv' /\ NativeState'
    BY <2>1 DEF NInv, NativeInv, NativeState, Placed, All, Of, Size
  <2> QED BY <2>1, <2>3, <2>4 DEF NInv
<1>2. CASE Next
  BY <1>2, NativeStep, NativeChange, NativeQuiet, NativeAsks, NativeEmits, NativeLands, NativeEnds,
     NativeCrashes
<1> QED BY <1>1, <1>2

-----------------------------------------------------------------------------
(* The browser's steps.                                                    *)
BInv == kind = "browser" /\ ~stale /\ TypeInv /\ OrderInv /\ BrowserInv /\ BrowserState

LEMMA BrowserStep ==
  ASSUME BInv, Next
  PROVE  \/ Change \/ Begin \/ NextBatch \/ (\E i \in DOMAIN batch : Fetch(i))
         \/ AskMeta \/ Collect \/ Emit \/ AllEmitted \/ Get \/ Open \/ Stream
         \/ Record \/ Publish \/ Close \/ Sync \/ Cancel \/ Crash
BY DEF BInv, BrowserInv, Next, Work, NBegin, NAskMeta, NEmit, NError, NGet, NStream,
   NAllEmitted, Trim, Mark, Land

LEMMA BrowserFacts ==
  ASSUME BInv
  PROVE  /\ Len(disk) \in Nat /\ cursor \in Nat /\ version \in Nat /\ version >= 1 /\ meta \in Nat
         /\ saved.offset \in Nat /\ saved.etag \in Nat /\ etag \in Nat /\ offset \in Nat
         /\ pend.offset \in Nat /\ pend.etag \in Nat
         /\ Len(sink.swap) \in Nat /\ sink.swap \in Seq(Blocked) /\ sink.last \in Nat /\ sink.pos \in Nat
         /\ disk \in Seq(Blocked)
         /\ \A v \in 1..version : Size(v) \in Nat
         /\ Size(version) \in Nat
         /\ meta >= 1 => meta \in 1..version /\ Size(meta) \in Nat
         /\ phase \notin Saving => Stage = phase
         /\ phase \in Saving => Stage = after /\ after \in {"emit", "batch", "stream", "complete"}
<1>1. \A v \in 1..version : Size(v) \in Nat
  BY SizeTyped DEF BInv
<1>2. version \in Nat /\ version >= 1 /\ meta \in Nat /\ meta <= version
  BY LenProperties DEF BInv, TypeInv, OrderInv
<1>3. /\ saved.offset \in Nat /\ saved.etag \in Nat /\ pend.offset \in Nat /\ pend.etag \in Nat
      /\ etag \in Nat /\ offset \in Nat /\ cursor \in Nat
      /\ sink.swap \in Seq(Blocked) /\ sink.last \in Nat /\ sink.pos \in Nat /\ disk \in Seq(Blocked)
  BY DEF BInv, TypeInv
<1>4. Len(disk) \in Nat /\ Len(sink.swap) \in Nat
  BY <1>3, LenProperties
<1>5. /\ phase \notin Saving => Stage = phase
      /\ phase \in Saving => Stage = after /\ after \in {"emit", "batch", "stream", "complete"}
  BY DEF Stage, BInv, TypeInv
<1> QED BY <1>1, <1>2, <1>3, <1>4, <1>5, SMTT(60)

(* A step that leaves the files, the swap file and the cursor alone.       *)
LEMMA BrowserRest ==
  ASSUME BInv, TypeInv',
         UNCHANGED <<kind, sizes, version, disk, saved, sink, opened, writing, pend, meta, cursor,
                     etag, skipped, stale>>,
         phase \in Looping \cup Passing, phase' \in Looping \cup Passing \cup {"failed"},
         phase' \in Passing => phase \in Passing,
         phase' \in Looping => phase \in Looping,
         phase' \in {"fetch", "emit"} => cursor + 1 \in DOMAIN batch' /\ DOMAIN batch' \subseteq 1..Size(meta),
         offset' = offset \/ offset' = 0
  PROVE  BInv'
<1>1. Stage = phase /\ Stage' = phase' /\ phase' \notin Saving
  BY DEF Stage, Saving, Looping, Passing
<1>2. OrderInv'
  BY <1>1 DEF BInv, OrderInv, Passing, Looping, Saving, Size
<1>3. LoadedInv'
  BY <1>1, BrowserFacts, SMTT(60) DEF BInv, BrowserInv, LoadedInv, Begins, Size
<1>4. BrowserInv'
  <2>1. phase # "sync" /\ phase' \notin {"trim", "mark", "sync", "over", "record", "publish", "complete"}
    BY DEF Looping, Passing
  <2>2. (Stage \in Passing => Fresh \/ Running)'
    BY <1>1 DEF BInv, BrowserInv, Fresh, Running, Begins, Size
  <2>3. OneVersion(disk)' /\ (sink'.open => OneVersion(sink.swap)' /\ Len(sink'.swap) > 0)
    BY SMTT(60) DEF BInv, BrowserInv, OneVersion, Of, Size
  <2>4. writing' = NoWrite /\ opened' = sink'.open
    BY <2>1 DEF BInv, BrowserInv
  <2> QED BY <1>1, <1>3, <2>1, <2>2, <2>3, <2>4 DEF BrowserInv
<1>5. BrowserState'
  <2>1. phase # "sync" /\ phase' # "sync" /\ phase' # "record"
    BY DEF Looping, Passing
  <2> QED BY <2>1 DEF BInv, BrowserState, Backed, Begins, Size
<1> QED BY <1>2, <1>4, <1>5 DEF BInv

LEMMA RouteLoops ==
  ASSUME NEW size, NEW from
  PROVE  Route(size, from) \in {"head", "get"}
BY DEF Route

LEMMA BrowserQuiet ==
  ASSUME BInv, NextBatch \/ (\E i \in DOMAIN batch : Fetch(i)) \/ Collect \/ Cancel
  PROVE  BInv'
<1> USE DEF setting, kept, engine, place, saving, local, history, outcome
<1>1. CASE NextBatch
  <2>1. PICK w \in 1..MaxWindow : batch' = [i \in BatchOf(w) |-> Chunk("asked", 0, 0)]
    BY <1>1 DEF NextBatch
  <2>2. /\ phase = "batch" /\ phase' = "fetch" /\ cursor < Size(meta)
        /\ UNCHANGED <<kind, sizes, version, disk, saved, sink, opened, writing, pend, meta, cursor,
                       etag, skipped, stale, offset>>
    BY <1>1 DEF NextBatch
  <2>3. cursor \in Nat /\ Size(meta) \in Nat
    BY <2>2, BrowserFacts DEF BInv, OrderInv, Passing, Saving
  <2>4. cursor + 1 \in DOMAIN batch' /\ DOMAIN batch' \subseteq 1..Size(meta)
    BY <2>1, <2>2, <2>3, LimitsAssumption DEF BatchOf, MinOf
  <2>5. TypeInv'
    <3>1. \A j \in DOMAIN batch' : batch'[j] \in Chunks
      BY <2>1 DEF Chunk, Chunks
    <3> QED BY <1>1, <3>1 DEF BInv, NextBatch, TypeInv, Looping, Saving
  <2> QED BY <2>2, <2>4, <2>5, BrowserRest DEF Looping, Passing
<1>2. ASSUME NEW i \in DOMAIN batch, Fetch(i)
      PROVE  BInv'
  <2>0. DOMAIN batch' = DOMAIN batch /\ \A j \in DOMAIN batch' : batch'[j] \in Chunks
    BY <1>2, FetchTyped DEF BInv
  <2>1. /\ phase = "fetch" /\ phase' = "fetch" /\ DOMAIN batch' = DOMAIN batch
        /\ UNCHANGED <<kind, sizes, version, disk, saved, sink, opened, writing, pend, meta, cursor,
                       etag, skipped, stale, offset>>
    BY <1>2, <2>0 DEF Fetch
  <2>2. TypeInv'
    BY <1>2, <2>0 DEF BInv, Fetch, TypeInv, Saving
  <2>3. cursor + 1 \in DOMAIN batch /\ DOMAIN batch \subseteq 1..Size(meta)
    BY <2>1, BrowserFacts DEF BInv, OrderInv, Saving
  <2> QED BY <2>1, <2>2, <2>3, BrowserRest DEF Looping, Passing
<1>3. CASE Collect
  <2>1. /\ phase = "fetch"
        /\ UNCHANGED <<kind, sizes, version, disk, saved, sink, opened, writing, pend, meta, cursor,
                       etag, skipped, stale, listed, body, forced, after>>
    BY <1>3 DEF Collect
  <2>2. /\ \/ phase' = "emit" /\ batch' = batch
           \/ phase' \in {"head", "get", "failed"} /\ batch' = <<>>
        /\ offset' = offset \/ offset' = 0
    BY <1>3, RouteLoops DEF Collect, Restart, Retry
  <2>3. TypeInv'
    BY <2>1, <2>2, BrowserFacts, SMTT(60) DEF BInv, TypeInv, Looping, Saving
  <2>4. cursor + 1 \in DOMAIN batch /\ DOMAIN batch \subseteq 1..Size(meta)
    BY <2>1, BrowserFacts DEF BInv, OrderInv, Saving
  <2> QED BY <2>1, <2>2, <2>3, <2>4, BrowserRest DEF Looping, Passing
<1>4. CASE Cancel
  <2>1. /\ phase \in Looping \cup Passing /\ phase' = "failed"
        /\ UNCHANGED <<kind, sizes, version, disk, saved, sink, opened, writing, pend, meta, cursor,
                       etag, skipped, stale, offset, listed, body, forced, after>>
        /\ batch' = <<>>
    BY <1>4 DEF Cancel, Looping, Passing
  <2>2. TypeInv'
    BY <2>1 DEF BInv, TypeInv, Saving
  <2> QED BY <2>1, <2>2, BrowserRest DEF Looping, Passing
<1> QED BY <1>1, <1>2, <1>3, <1>4

(* A change of the remote file: what was true of its newest version is     *)
(* nothing anyone can claim of the next one.                               *)
LEMMA BrowserChange ==
  ASSUME BInv, Change
  PROVE  BInv'
<1> USE DEF setting, kept, engine, place, saving, local, history, outcome
<1>1. /\ UNCHANGED <<kind, sizes, disk, saved, pend, listed, body, etag, offset, meta, cursor, batch, forced,
                     opened, skipped, sink, writing, after, phase, result, stale>>
      /\ version < Len(sizes) /\ version' = version + 1
  BY DEF Change
<1>2. /\ version \in Nat /\ saved.etag <= version /\ pend.etag <= version /\ etag <= version
      /\ meta <= version /\ meta \in Nat /\ etag \in Nat /\ saved.etag \in Nat /\ pend.etag \in Nat
  BY BrowserFacts DEF BInv, OrderInv
<1>3. Stage' = Stage
  BY <1>1 DEF Stage
<1>4. TypeInv'
  BY <1>1, LenProperties DEF BInv, TypeInv
<1>5. OrderInv'
  <2>1. /\ saved.etag <= version' /\ pend.etag <= version' /\ etag <= version' /\ meta <= version'
    BY <1>1, <1>2
  <2> QED BY <1>1, <1>3, <2>1 DEF BInv, OrderInv, Size
<1>6. saved.etag # version' /\ pend.etag # version' /\ etag # version'
  BY <1>1, <1>2
<1>7. BrowserInv'
  <2>1. 1..version \subseteq 1..version'
    BY <1>1, <1>2
  <2>2. OneVersion(disk)' /\ (sink'.open => OneVersion(sink.swap)')
    BY <1>1, <2>1, ZenonT(60) DEF BInv, BrowserInv, OneVersion, Of, Size
  <2>3. LoadedInv'
    BY <1>1, <1>3, <1>6 DEF BInv, BrowserInv, LoadedInv
  <2> QED BY <1>1, <1>3, <2>2, <2>3, SMTT(60)
      DEF BInv, BrowserInv, Fresh, Running, Begins, All, Of, Size, EndedShort
<1>8. BrowserState'
  BY <1>1, <1>6 DEF BrowserState, Backed
<1> QED BY <1>1, <1>4, <1>5, <1>7, <1>8 DEF BInv

(* Each run keeps of the state what the target has: the beginning of the   *)
(* version the state names, if that is the one the server has.             *)
LEMMA BrowserBegins ==
  ASSUME BInv, Begin
  PROVE  BInv'
<1> USE DEF setting, kept, engine, place, saving, local, history, outcome
<1> DEFINE from == LoadedOffset
           keep == from <= Size(version) /\ from > 0
<1>1. /\ UNCHANGED <<kind, sizes, version, disk, saved, forced, batch, opened, sink, writing, stale>>
      /\ phase = "over" /\ listed' = Size(version) /\ cursor' = 0 /\ meta' = 0 /\ body' = 0
      /\ result' = "none" /\ offset' = IF keep THEN from ELSE 0
      /\ etag' = IF keep THEN saved.etag ELSE 0
      /\ skipped' = (from = Size(version))
  BY DEF Begin
<1>2. \/ /\ from = Size(version) /\ phase' = "record" /\ pend' = State(etag', from) /\ after' = "complete"
      \/ /\ from # Size(version) /\ phase' \in {"head", "get"} /\ UNCHANGED <<pend, after>>
  BY RouteLoops DEF Begin, Finish
<1>3. /\ from \in Nat /\ Size(version) \in Nat /\ version >= 1 /\ version \in Nat
      /\ saved.etag \in Nat /\ Len(disk) \in Nat /\ saved.offset \in Nat
      /\ from <= Len(disk) /\ (from > 0 => saved.etag # 0 /\ from = MinOf(saved.offset, Len(disk)))
  BY BrowserFacts, SMTT(60) DEF LoadedOffset, MinOf
<1>4. ~sink.open /\ opened = FALSE /\ Backed(saved.etag, saved.offset) /\ Stage = "over"
  BY <1>1 DEF BInv, BrowserInv, BrowserState, Stage, Saving, TypeInv
<1> HIDE DEF from
<1>5. from > 0 /\ from <= Size(version) /\ saved.etag = version => Begins(disk, version)
  BY <1>3, <1>4 DEF Backed
<1>6. etag' \in Nat /\ etag' <= version /\ offset' \in Nat /\ saved.etag <= version
  BY <1>1, <1>3 DEF BInv, OrderInv
<1>7. Stage' = IF from = Size(version) THEN "complete" ELSE phase'
  BY <1>2 DEF Stage, Saving
<1>8. TypeInv'
  <2>1. pend' \in [etag : Nat, offset : Nat]
    BY <1>2, <1>3, <1>6, SMTT(60) DEF BInv, TypeInv, State
  <2>2. phase' \in {"head", "get", "record"} /\ (phase' = "record" => after' = "complete")
    BY <1>2
  <2>3. skipped' \in BOOLEAN /\ listed' \in Nat /\ cursor' \in Nat /\ meta' \in Nat /\ body' \in Nat
    BY <1>1, <1>3
  <2> QED BY <1>1, <1>6, <2>1, <2>2, <2>3 DEF BInv, TypeInv, Looping, Saving
<1>9. OrderInv'
  <2>1. pend'.etag <= version
    BY <1>2, <1>6 DEF BInv, OrderInv, State
  <2>2. Stage' \in {"complete", "head", "get"}
    BY <1>2, <1>7
  <2> QED BY <1>1, <1>3, <1>6, <2>1, <2>2 DEF OrderInv, Passing
<1>10. LoadedInv'
  <2> SUFFICES ASSUME Stage' \in Looping
               PROVE  /\ etag' = 0 => offset' = 0
                      /\ offset' > 0 /\ etag' = version =>
                           offset' <= Len(disk) /\ Begins(disk, version) /\ offset' < Size(version)
    <3>1. Stage' \notin Passing
      BY <1>2, <1>7 DEF Passing
    <3> QED BY <1>1, <1>4, <3>1 DEF LoadedInv, Begins, Size
  <2>1. from # Size(version)
    BY <1>7 DEF Looping
  <2> QED BY <1>1, <1>3, <1>5, <2>1
<1>11. BrowserInv'
  <2>1. phase' \in {"record", "head", "get"} /\ (phase' = "record" => skipped')
        /\ Stage' \in {"complete", "head", "get"} /\ (Stage' = "complete" => skipped')
    BY <1>1, <1>2, <1>7
  <2>2. OneVersion(disk)' /\ writing' = NoWrite
    BY <1>1 DEF BInv, BrowserInv, OneVersion, Of, Size
  <2>3. phase' \notin {"trim", "mark", "over", "sync", "publish"} /\ Stage' \notin Passing
    BY <2>1 DEF Passing
  <2>4. ~sink'.open /\ opened' = sink'.open
    BY <1>1, <1>4 DEF BInv, BrowserInv
  <2>5. ~(Stage' = "complete" /\ ~skipped')
    BY <2>1
  <2> QED BY <1>10, <2>2, <2>3, <2>4, <2>5 DEF BrowserInv
<1>12. BrowserState'
  <2>1. Backed(saved.etag, saved.offset)'
    BY <1>1, <1>4 DEF Backed, Begins, Size
  <2>2. phase' = "record" => Backed(pend.etag, pend.offset)'
    <3> SUFFICES ASSUME phase' = "record", pend'.etag = version, Size(version) > 0
                 PROVE  Begins(disk, version)
      BY <1>1, <1>4 DEF Backed, Begins, Size
    <3>1. from = Size(version) /\ pend'.etag = etag'
      BY <1>2 DEF State
    <3> QED BY <1>1, <1>3, <1>5, <3>1
  <2>3. phase' # "sync"
    BY <1>2
  <2> QED BY <2>1, <2>2, <2>3 DEF BrowserState
<1> QED BY <1>1, <1>8, <1>9, <1>11, <1>12 DEF BInv

(* An answer to HEAD or to GET begins a pass, at the first byte or where   *)
(* the state says, and all before that is on disk.                         *)
LEMMA BrowserPasses ==
  ASSUME BInv,
         UNCHANGED <<kind, sizes, version, disk, saved, pend, sink, opened, writing, skipped, stale, offset,
                     listed, body, batch, etag, forced, after>>,
         phase \in {"head", "get"}, phase' \in {"batch", "open"}, meta' = version,
         cursor' \in {0, offset}, cursor' < Size(version) \/ (cursor' = 0 /\ Size(version) = 0),
         cursor' > 0 => etag = version,
         etag = version => cursor' >= offset
  PROVE  BInv'
<1>1. Stage = phase /\ Stage' = phase'
  BY DEF Stage, Saving
<1>2. /\ cursor' \in Nat /\ offset \in Nat /\ version \in Nat /\ version >= 1 /\ Size(version) \in Nat
      /\ Len(disk) \in Nat /\ sink.last \in Nat /\ Len(sink.swap) \in Nat
  BY BrowserFacts, SMTT(60)
<1>3. LoadedInv
  BY DEF BInv, BrowserInv
<1>4. cursor' > 0 =>
        /\ cursor' <= Len(disk) /\ Begins(disk, version)
        /\ sink.open => sink.last >= cursor'
  BY <1>1, <1>2, <1>3 DEF LoadedInv, Looping
<1>5. TypeInv'
  BY <1>2 DEF BInv, TypeInv, Looping, Passing, Saving
<1>6. OrderInv'
  <2>1. saved.etag <= version /\ pend.etag <= version /\ etag <= version
    BY DEF BInv, OrderInv
  <2> QED BY <1>1, <1>2, <2>1 DEF OrderInv, Size
<1>7. LoadedInv'
  BY <1>1, <1>2, <1>3 DEF LoadedInv, Looping, Passing, Begins, Size
<1>8. Fresh'
  BY <1>2, <1>4, SMTT(60) DEF Fresh, Begins, Size
<1>9. BrowserInv'
  <2>1. OneVersion(disk)' /\ (sink'.open => OneVersion(sink.swap)' /\ Len(sink'.swap) > 0)
    BY SMTT(60) DEF BInv, BrowserInv, OneVersion, Of, Size
  <2>2. writing' = NoWrite /\ opened' = sink'.open
    BY DEF BInv, BrowserInv
  <2> QED BY <1>1, <1>7, <1>8, <2>1, <2>2 DEF BrowserInv
<1>10. BrowserState'
  BY DEF BInv, BrowserState, Backed, Begins, Size
<1> QED BY <1>5, <1>6, <1>9, <1>10 DEF BInv

LEMMA BrowserAsks ==
  ASSUME BInv, AskMeta \/ Get
  PROVE  BInv'
<1> USE DEF setting, kept, engine, place, saving, local, history, outcome
<1>1. /\ UNCHANGED <<kind, sizes, version, disk, saved, pend, sink, opened, writing, skipped, stale,
                     listed, body, etag, forced, after, batch>>
      /\ phase \in {"head", "get"}
  BY DEF AskMeta, Get
<1>2. /\ offset \in Nat /\ version \in Nat /\ version >= 1 /\ Size(version) \in Nat
      /\ etag \in Nat /\ etag <= version
  BY BrowserFacts DEF BInv, OrderInv
<1>3. etag = 0 => offset = 0
  <2>1. Stage = phase
    BY <1>1 DEF Stage, Saving
  <2> QED BY <1>1, <2>1 DEF BInv, BrowserInv, LoadedInv, Looping
<1>4. etag = version /\ offset > 0 => offset < Size(version)
  <2>1. Stage = phase
    BY <1>1 DEF Stage, Saving
  <2> QED BY <1>1, <2>1 DEF BInv, BrowserInv, LoadedInv, Looping
<1>5. ASSUME UNCHANGED <<meta, cursor>>, phase' \in {"head", "get", "failed"},
             offset' = offset \/ offset' = 0
      PROVE  BInv'
  <2>1. TypeInv'
    BY <1>1, <1>2, <1>5, SMTT(60) DEF BInv, TypeInv, Looping, Saving
  <2> QED BY <1>1, <1>5, <2>1, BrowserRest DEF Looping, Passing
<1>6. CASE AskMeta
  <2>1. CASE Retry /\ UNCHANGED <<meta, cursor>>
    <3>1. UNCHANGED offset
      BY <1>6 DEF AskMeta
    <3> QED BY <1>5, <2>1, <3>1, RouteLoops DEF Retry
  <2>2. CASE /\ Size(version) > 0 /\ phase' = "batch" /\ meta' = version
             /\ cursor' = IF etag \notin {0, version} THEN 0 ELSE MinOf(offset, Size(version))
    <3>1. UNCHANGED offset
      BY <1>6 DEF AskMeta
    <3>2. cursor' \in {0, offset} /\ cursor' < Size(version) /\ (cursor' > 0 => etag = version)
          /\ (etag = version => cursor' >= offset)
      BY <1>2, <1>3, <1>4, <2>2 DEF MinOf
    <3> QED BY <1>1, <1>2, <2>2, <3>1, <3>2, BrowserPasses
  <2> QED BY <1>6, <2>1, <2>2 DEF AskMeta
<1>7. CASE Get
  <2>1. CASE /\ Honoured(version) => offset < Size(version)
             /\ phase' = "open" /\ meta' = version
             /\ cursor' = IF Honoured(version) THEN offset ELSE 0
             /\ UNCHANGED <<offset, attempts>>
    <3>1. Honoured(version) <=> offset = 0 \/ etag = version
      BY <1>3 DEF Honoured
    <3>2. /\ cursor' \in {0, offset} /\ (cursor' > 0 => etag = version) /\ (etag = version => cursor' >= offset)
          /\ cursor' < Size(version) \/ (cursor' = 0 /\ Size(version) = 0)
      BY <1>2, <2>1, <3>1
    <3> QED BY <1>1, <2>1, <3>2, BrowserPasses
  <2>2. CASE Restart /\ UNCHANGED <<cursor, meta>>
    BY <1>5, <2>2, RouteLoops DEF Restart
  <2>3. CASE Retry /\ UNCHANGED <<offset, cursor, meta>>
    BY <1>5, <2>3, RouteLoops DEF Retry
  <2> QED BY <1>7, <2>1, <2>2, <2>3 DEF Get
<1> QED BY <1>6, <1>7

(* The file is opened: a pass goes on, under the etag of its answer.       *)
LEMMA BrowserOpens ==
  ASSUME BInv, Open
  PROVE  BInv'
<1> USE DEF setting, kept, place, saving, local, outcome
<1>1. /\ UNCHANGED <<kind, sizes, version, disk, saved, pend, after, listed, offset, meta, cursor, batch,
                     forced, opened, skipped, sink, writing, stale, result>>
      /\ phase = "open" /\ phase' = "stream" /\ body' = version /\ etag' \in {etag, meta}
  BY DEF Open
<1>2. Stage = "open" /\ Stage' = "stream" /\ Stage \in Passing
  BY <1>1 DEF Stage, Saving, Passing
<1>3. meta \in Nat /\ meta <= version /\ version \in Nat /\ etag <= meta /\ etag' \in Nat /\ etag' <= meta
  BY <1>1, <1>2, BrowserFacts, SMTT(60) DEF BInv, OrderInv
<1>4. TypeInv'
  BY <1>1, <1>3 DEF BInv, TypeInv, Passing, Saving
<1>5. OrderInv'
  <2>1. etag' <= version
    BY <1>3
  <2> QED BY <1>1, <1>2, <1>3, <2>1 DEF BInv, OrderInv, Size
<1>6. BrowserInv'
  <2>1. OneVersion(disk)' /\ (sink'.open => OneVersion(sink.swap)' /\ Len(sink'.swap) > 0)
    BY <1>1, SMTT(60) DEF BInv, BrowserInv, OneVersion, Of, Size
  <2>2. writing' = NoWrite /\ opened' = sink'.open
    BY <1>1 DEF BInv, BrowserInv
  <2>3. LoadedInv'
    BY <1>2 DEF LoadedInv, Looping
  <2>4. Fresh' \/ Running'
    BY <1>1, <1>2 DEF BInv, BrowserInv, Fresh, Running, Begins, Size
  <2> QED BY <1>1, <1>2, <2>1, <2>2, <2>3, <2>4 DEF BrowserInv
<1>7. BrowserState'
  BY <1>1 DEF BInv, BrowserState, Backed, Begins, Size
<1> QED BY <1>1, <1>4, <1>5, <1>6, <1>7 DEF BInv

(* In a pass, a chunk that comes next finds the file it belongs to: the    *)
(* swap file where it ended, or what is on disk up to it.                  *)
LEMMA ChunkFindsItsFile ==
  ASSUME BInv, phase \in {"emit", "stream"}, cursor < Size(meta)
  PROVE  /\ meta \in 1..version /\ meta \in Nat /\ Size(meta) \in Nat
         /\ OnDisk /\ Pos = cursor
         /\ Swap \in Seq(Blocked) /\ Of(Swap, meta) /\ cursor <= Len(Swap)
         /\ cursor + 1 <= Len(Swap) => Len(Swap) <= Len(disk)
<1>1. Stage = phase /\ Stage \in Passing
  BY DEF Stage, Saving, Passing
<1>2. Fresh \/ Running
  BY <1>1 DEF BInv, BrowserInv
<1>3. /\ meta >= 1 /\ meta \in 1..version /\ meta \in Nat /\ Size(meta) \in Nat /\ cursor \in Nat
      /\ Len(disk) \in Nat /\ Len(sink.swap) \in Nat /\ sink.last \in Nat
      /\ disk \in Seq(Blocked) /\ sink.swap \in Seq(Blocked)
  BY <1>1, BrowserFacts DEF BInv, OrderInv
<1>4. /\ OnDisk /\ Pos = cursor
      /\ Swap \in Seq(Blocked) /\ Of(Swap, meta) /\ cursor <= Len(Swap)
      /\ cursor + 1 <= Len(Swap) => Len(Swap) <= Len(disk)
  <2>1. CASE Fresh
    <3>1. Reopens /\ (cursor # 0 => cursor <= Len(disk) /\ Begins(disk, meta))
      BY <2>1 DEF Fresh, Reopens
    <3>2. CASE cursor = 0
      <4>1. Swap = <<>> /\ <<>> \in Seq(Blocked) /\ Len(<<>>) = 0
        BY <3>1, <3>2 DEF Swap
      <4>2. Of(<<>>, meta)
        BY <1>3 DEF Of
      <4> QED BY <1>3, <3>1, <3>2, <4>1, <4>2 DEF OnDisk, Pos
    <3>3. CASE cursor # 0
      <4>1. Swap = disk
        BY <3>1, <3>3 DEF Swap
      <4>2. Of(disk, meta)
        BY <1>3, <3>1, <3>3, OneVersionBegins DEF BInv, BrowserInv
      <4> QED BY <1>3, <3>1, <3>3, <4>1, <4>2 DEF OnDisk, Pos
    <3> QED BY <3>2, <3>3
  <2>2. CASE Running
    <3>1. ~Reopens /\ Begins(sink.swap, meta) /\ cursor <= Len(sink.swap) /\ sink.pos = cursor
          /\ (Len(sink.swap) = cursor \/ Len(sink.swap) <= Len(disk)) /\ sink.open
      BY <1>3, <2>2 DEF Running, Reopens
    <3>2. Of(sink.swap, meta)
      BY <1>3, <3>1, OneVersionBegins DEF BInv, BrowserInv
    <3>3. Swap = sink.swap
      BY <3>1 DEF Swap
    <3> QED BY <1>3, <3>1, <3>2, <3>3 DEF OnDisk, Pos
  <2> QED BY <1>2, <2>1, <2>2
<1> QED BY <1>3, <1>4

LEMMA ChunkIsWritten ==
  ASSUME BInv, phase \in {"emit", "stream"}, cursor < Size(meta), NEW v \in Nat, OnWriteChunk(v),
         UNCHANGED <<kind, sizes, version, disk, saved, writing, skipped, stale, meta, etag, offset,
                     listed, body, forced>>,
         batch' \in {batch, <<>>},
         NEW to \in {"emit", "batch", "stream"}, to \in {"emit", "batch"} => phase = "emit",
         to = "emit" => cursor + 2 \in DOMAIN batch /\ batch' = batch,
         NEW e \in {meta, etag}, MaySave(e, to)
  PROVE  BInv'
<1> USE DEF saving, local
<1>1. Stage = phase /\ Stage \in Passing
  BY DEF Stage, Saving, Passing
<1>2. /\ meta \in 1..version /\ meta \in Nat /\ Size(meta) \in Nat
      /\ OnDisk /\ Pos = cursor
      /\ Swap \in Seq(Blocked) /\ Of(Swap, meta) /\ cursor <= Len(Swap)
      /\ cursor + 1 <= Len(Swap) => Len(Swap) <= Len(disk)
  BY ChunkFindsItsFile
<1>3. /\ cursor \in Nat /\ version \in Nat /\ etag \in Nat /\ offset \in Nat /\ saved.etag \in Nat
      /\ etag <= meta /\ saved.etag <= meta /\ meta <= version /\ Len(disk) \in Nat
      /\ pend.etag \in Nat /\ pend.etag <= version /\ etag <= version /\ saved.etag <= version
  BY <1>1, <1>2, BrowserFacts DEF BInv, OrderInv
<1> DEFINE block == <<v, cursor + 1, meta>>
           new == Put(Swap, cursor + 1, block)
<1>4. /\ new \in Seq(Blocked) /\ Of(new, meta) /\ Begins(new, meta)
      /\ Len(new) = IF cursor + 1 <= Len(Swap) THEN Len(Swap) ELSE cursor + 1
  <2>1. Len(Swap) \in Nat /\ cursor + 1 \in 1..(Len(Swap) + 1) /\ cursor + 1 <= Size(meta)
    BY <1>2, <1>3, LenProperties
  <2>2. block \in Blocked /\ Came(block, meta, cursor + 1)
    BY <1>2, <1>3, SMTT(60) DEF Blocked, Came
  <2> HIDE DEF block
  <2> QED BY <1>2, <2>1, <2>2, PutOf
<1>5. Len(Swap) \in Nat /\ Len(new) \in Nat
  BY <1>2, <1>4, LenProperties
<1>6. /\ sink' = [open |-> TRUE, swap |-> new, pos |-> cursor + 1, last |-> cursor]
      /\ opened' = TRUE /\ cursor' = cursor + 1
  BY <1>2 DEF OnWriteChunk
<1> HIDE DEF new
<1>7. /\ sink' \in [open : BOOLEAN, swap : Seq(Blocked), pos : Nat, last : Nat]
      /\ sink'.open /\ sink'.swap = new /\ sink'.pos = cursor + 1 /\ sink'.last = cursor
  BY <1>3, <1>4, <1>6
<1>8. Len(new) >= cursor + 1 /\ (Len(new) = cursor + 1 \/ Len(new) <= Len(disk)) /\ Len(new) > 0
  BY <1>2, <1>3, <1>4, <1>5, SMTT(60)
<1>9. /\ phase' \in {to, "record"} /\ Stage' = to /\ to \in Passing
      /\ phase' = "record" => pend' = State(e, cursor + 1) /\ after' = to
      /\ phase' # "record" => UNCHANGED <<pend, after>>
  BY DEF MaySave, Stage, Saving, Passing
<1>10. /\ pend' \in [etag : Nat, offset : Nat] /\ pend'.etag <= version
       /\ phase' = "record" => pend'.etag <= meta /\ pend'.offset = cursor + 1
  <2>1. CASE phase' = "record"
    BY <1>2, <1>3, <1>9, <2>1, SMTT(60) DEF State
  <2>2. CASE phase' # "record"
    BY <1>3, <1>9, <2>2 DEF BInv, TypeInv
  <2> QED BY <2>1, <2>2
<1>11. TypeInv'
  <2>1. phase' \in {"emit", "batch", "stream", "record"} /\ (phase' = "record" => after' \in {"emit", "batch", "stream"})
    BY <1>9
  <2>2. \A j \in DOMAIN batch' : batch'[j] \in Chunks
    BY SMTT(60) DEF BInv, TypeInv
  <2>3. cursor' \in Nat /\ opened' \in BOOLEAN
    BY <1>3, <1>6
  <2> QED BY <1>7, <1>10, <2>1, <2>2, <2>3, ZenonT(60) DEF BInv, TypeInv, Looping, Passing, Saving
<1>12. OrderInv'
  <2>1. cursor' <= Size(meta)'
    BY <1>2, <1>3, <1>6, SMTT(60) DEF Size
  <2>2. to = "emit" => cursor' + 1 \in DOMAIN batch' /\ DOMAIN batch' \subseteq 1..Size(meta)'
    <3>1. phase = "emit" => DOMAIN batch \subseteq 1..Size(meta)
      BY <1>1 DEF BInv, OrderInv
    <3> QED BY <1>3, <1>6, <3>1 DEF Size
  <2>3. to # "fetch"
    OBVIOUS
  <2> QED BY <1>2, <1>3, <1>9, <1>10, <2>1, <2>2, <2>3 DEF OrderInv
<1>13. Running'
  BY <1>3, <1>4, <1>6, <1>7, <1>8, SMTT(60) DEF Running, Begins
<1>14. LoadedInv'
  <2> SUFFICES ASSUME to \in Looping
               PROVE  /\ etag = 0 => offset = 0
                      /\ offset > 0 /\ etag = version =>
                           /\ offset <= Len(disk) /\ Begins(disk, version) /\ offset < Size(version)
                           /\ cursor >= offset /\ Begins(new, version) /\ Len(new) > offset
                           /\ cursor' >= offset
    BY <1>7, <1>9 DEF LoadedInv, Begins, Size
  <2>1. Stage \in Looping
    BY <1>1 DEF Looping
  <2>2. /\ etag = 0 => offset = 0
        /\ offset > 0 /\ etag = version =>
             offset <= Len(disk) /\ Begins(disk, version) /\ offset < Size(version) /\ cursor >= offset
    BY <1>1, <2>1 DEF BInv, BrowserInv, LoadedInv
  <2>3. etag = version => meta = version
    BY <1>2, <1>3
  <2> QED BY <1>3, <1>4, <1>5, <1>6, <1>8, <2>2, <2>3
<1>15. BrowserInv'
  <2>1. OneVersion(disk)' /\ OneVersion(sink.swap)' /\ Len(sink'.swap) > 0
    BY <1>2, <1>4, <1>7, <1>8, ZenonT(60) DEF BInv, BrowserInv, OneVersion, Of, Size
  <2>2. phase' \notin {"trim", "mark", "over", "sync", "publish"} /\ Stage' # "complete"
    BY <1>9
  <2>3. writing' = NoWrite /\ opened' = sink'.open
    BY <1>6, <1>7 DEF BInv, BrowserInv
  <2>4. phase' = "record" => pend'.offset = cursor'
    BY <1>6, <1>10
  <2> QED BY <1>13, <1>14, <2>1, <2>2, <2>3, <2>4 DEF BrowserInv
<1>16. BrowserState'
  <2>1. ASSUME NEW s, NEW n, s \in Nat, s <= meta, s = version
        PROVE  Begins(new, version)
    BY <1>2, <1>3, <1>4, <2>1
  <2>2. Backed(saved.etag, saved.offset)'
    BY <1>3, <1>7, <2>1 DEF Backed, Begins, Size
  <2>3. phase' = "record" => Backed(pend.etag, pend.offset)'
    <3>1. phase' = "record" => pend'.etag \in Nat /\ pend'.etag <= meta
      BY <1>10
    <3> QED BY <1>7, <2>1, <3>1 DEF Backed, Begins, Size
  <2>4. phase' # "sync"
    BY <1>9
  <2> QED BY <2>2, <2>3, <2>4 DEF BrowserState
<1> QED BY <1>11, <1>12, <1>15, <1>16 DEF BInv

(* The end of a pass: the swap file is the file, whole, or the body was of *)
(* a shorter and newer one.                                                *)
LEMMA BrowserFinishes ==
  ASSUME BInv, phase \in {"batch", "stream"},
         cursor = Size(meta) \/ (EndedShort /\ meta < version),
         NEW e \in {meta, etag}, NEW n \in Nat, Finish(e, n),
         UNCHANGED <<kind, sizes, version, disk, saved, sink, opened, writing, skipped, stale, meta,
                     cursor, etag, offset, listed, body, batch, forced>>
  PROVE  BInv'
<1>1. Stage = phase /\ Stage \in Passing
  BY DEF Stage, Saving, Passing
<1>2. /\ phase' = "record" /\ pend' = [etag |-> e, offset |-> n] /\ after' = "complete"
      /\ Stage' = "complete"
  BY DEF Finish, State, Stage, Saving
<1>3. /\ meta >= 1 /\ meta \in Nat /\ meta <= version /\ version \in Nat /\ etag \in Nat /\ etag <= meta
      /\ saved.etag <= version /\ etag <= version /\ Size(meta) \in Nat /\ Len(sink.swap) \in Nat
  BY <1>1, BrowserFacts DEF BInv, OrderInv
<1>4. cursor = Size(meta) /\ Size(meta) > 0 =>
        sink.open /\ All(sink.swap, meta) /\ Begins(sink.swap, meta)
  <2> SUFFICES ASSUME cursor = Size(meta), Size(meta) > 0
               PROVE  sink.open /\ All(sink.swap, meta) /\ Begins(sink.swap, meta)
    OBVIOUS
  <2>1. Running
    BY <1>1, <1>3 DEF BInv, BrowserInv, Fresh
  <2>2. sink.open /\ Begins(sink.swap, meta) /\ Size(meta) <= Len(sink.swap)
    BY <2>1 DEF Running
  <2>3. Of(sink.swap, meta)
    BY <1>3, <2>2, OneVersionBegins DEF BInv, BrowserInv
  <2> QED BY <1>3, <2>2, <2>3 DEF All, Of
<1>5. TypeInv'
  BY <1>2, <1>3 DEF BInv, TypeInv, Saving
<1>6. OrderInv'
  BY <1>2, <1>3 DEF OrderInv, Passing
<1>7. BrowserInv'
  <2>1. OneVersion(disk)' /\ (sink'.open => OneVersion(sink.swap)' /\ Len(sink'.swap) > 0)
    BY SMTT(60) DEF BInv, BrowserInv, OneVersion, Of, Size
  <2>2. writing' = NoWrite /\ opened' = sink'.open
    BY DEF BInv, BrowserInv
  <2>3. LoadedInv'
    BY <1>2 DEF LoadedInv, Looping
  <2>4. ~EndedShort' => meta' >= 1 /\ (Size(meta)' > 0 => sink'.open /\ All(sink.swap, meta)')
    <3>1. EndedShort' = EndedShort
      BY DEF EndedShort, Size
    <3> QED BY <1>3, <1>4, <3>1 DEF All, Of, Size
  <2> QED BY <1>2, <2>1, <2>2, <2>3, <2>4 DEF BrowserInv, Passing
<1>8. BrowserState'
  <2>1. Backed(saved.etag, saved.offset)'
    BY DEF BInv, BrowserState, Backed, Begins, Size
  <2>2. Backed(pend.etag, pend.offset)'
    <3>1. e = version => meta = version /\ cursor = Size(meta)
      BY <1>3
    <3> QED BY <1>2, <1>4, <3>1 DEF Backed, Begins, Size
  <2> QED BY <1>2, <2>1, <2>2 DEF BrowserState
<1> QED BY <1>5, <1>6, <1>7, <1>8 DEF BInv

LEMMA BrowserWrites ==
  ASSUME BInv, TruthInv, Emit \/ AllEmitted \/ Stream
  PROVE  BInv'
<1> USE DEF setting, kept, engine, place, saving, local, history, outcome
<1>0. /\ UNCHANGED <<kind, sizes, version, disk, saved, writing, skipped, stale, meta, etag, offset,
                     listed, body, forced>>
      /\ phase \in {"emit", "batch", "stream"}
  BY DEF Emit, AllEmitted, Stream
<1>1. Stage = phase /\ Stage \in Passing
  BY <1>0 DEF Stage, Saving, Passing
<1>2. /\ meta \in Nat /\ cursor \in Nat /\ Size(meta) \in Nat /\ listed \in Nat
  BY <1>1, BrowserFacts DEF BInv, OrderInv, TypeInv
<1>3. CASE Emit
  <2> DEFINE to == IF cursor + 2 \in DOMAIN batch THEN "emit" ELSE "batch"
             v  == batch[cursor + 1].of
  <2>1. cursor < Size(meta) /\ phase = "emit" /\ v \in Nat
    <3>1. phase = "emit"
      BY <1>3 DEF Emit
    <3>2. cursor + 1 \in DOMAIN batch /\ DOMAIN batch \subseteq 1..Size(meta)
      BY <1>1, <3>1 DEF BInv, OrderInv
    <3>3. batch[cursor + 1] \in Chunks
      BY <3>2 DEF BInv, TypeInv
    <3> QED BY <1>2, <3>1, <3>2, <3>3 DEF Chunks
  <2>2. OnDisk
    BY <2>1, ChunkFindsItsFile
  <2>3. /\ OnWriteChunk(v) /\ MaySave(meta, to) /\ batch' \in {batch, <<>>}
        /\ to = "emit" => cursor + 2 \in DOMAIN batch /\ batch' = batch
    BY <1>3, <2>2 DEF Emit
  <2>4. to \in {"emit", "batch"}
    OBVIOUS
  <2> HIDE DEF to, v
  <2> QED BY <1>0, <2>1, <2>3, <2>4, ChunkIsWritten
<1>4. CASE AllEmitted
  <2>1. phase = "batch" /\ cursor = Size(meta) /\ Finish(meta, cursor)
        /\ UNCHANGED <<sink, opened, cursor, batch>>
    BY <1>4 DEF AllEmitted
  <2> QED BY <1>0, <1>2, <2>1, BrowserFinishes
<1>5. CASE Stream
  <2>0. phase = "stream" /\ batch' = batch
    BY <1>5 DEF Stream
  <2>5. /\ body \in Nat /\ Sent(body) \in Nat /\ Sent(body) <= Size(meta) /\ cursor <= Size(meta)
        /\ Sent(body) # Size(meta) => EndedShort /\ meta < version
    <3>1. Stage = "stream"
      BY <1>1, <2>0
    <3>2. /\ body \in 1..version /\ Sent(body) \in Nat /\ Sent(body) <= Size(meta)
          /\ Sent(body) # Size(meta) => meta < version /\ body > 0 /\ Size(body) < Size(meta)
      BY <3>1, SentFacts DEF BInv
    <3>3. cursor <= Size(meta)
      BY <1>1, <3>1 DEF BInv, OrderInv
    <3> QED BY <3>2, <3>3 DEF EndedShort, BInv
  <2>6. cursor < Sent(body) => cursor < Size(meta)
    BY <1>2, <2>5
  <2>1. CASE cursor < Sent(body) /\ OnWriteChunk(body) /\ MaySave(etag, "stream")
    BY <1>0, <2>0, <2>1, <2>5, <2>6, ChunkIsWritten
  <2>2. CASE phase' = "failed" /\ UNCHANGED <<cursor, saving, local>>
    <3>1. TypeInv'
      <4>1. UNCHANGED <<sink, opened, pend, cursor, batch>>
        BY <2>0, <2>2
      <4> QED BY <1>0, <2>2, <4>1 DEF BInv, TypeInv, Saving
    <3> QED BY <1>0, <2>0, <2>2, <3>1, BrowserRest DEF Passing, Looping
  <2>3. CASE cursor >= Sent(body) /\ Finish(etag, MaxOf(listed, cursor)) /\ UNCHANGED <<cursor, local>>
    <3>1. MaxOf(listed, cursor) \in Nat
      BY <1>2 DEF MaxOf
    <3>2. cursor = Size(meta) \/ (EndedShort /\ meta < version)
      BY <1>2, <2>3, <2>5
    <3> QED BY <1>0, <2>0, <2>3, <3>1, <3>2, BrowserFinishes
  <2>4. cursor < Sent(body) => OnDisk
    BY <2>0, <2>6, ChunkFindsItsFile
  <2> QED BY <1>5, <2>1, <2>2, <2>3, <2>4 DEF Stream
<1> QED BY <1>3, <1>4, <1>5

LEMMA BrowserRecords ==
  ASSUME BInv, Record
  PROVE  BInv'
<1> USE DEF setting, kept, engine, place, saving, local, history, outcome
<1>1. /\ UNCHANGED <<kind, sizes, version, disk, pend, after, listed, body, etag, offset, meta, cursor, batch,
                     forced, opened, skipped, sink, writing, stale>>
      /\ phase = "record" /\ phase' = "publish" /\ saved' = pend
  BY DEF Record
<1>2. Stage' = Stage
  BY <1>1 DEF Stage, Saving
<1>3. TypeInv'
  BY <1>1 DEF BInv, TypeInv, Saving
<1>4. OrderInv'
  <2>1. Stage \notin {"trim", "mark"}
    BY <1>1, BrowserFacts DEF Saving
  <2> QED BY <1>1, <1>2, <2>1 DEF BInv, OrderInv, Size
<1>5. BrowserInv'
  <2>1. OneVersion(disk)' /\ (sink'.open => OneVersion(sink.swap)' /\ Len(sink'.swap) > 0)
    BY <1>1, SMTT(60) DEF BInv, BrowserInv, OneVersion, Of, Size
  <2>2. LoadedInv'
    BY <1>1, <1>2 DEF BInv, BrowserInv, LoadedInv, Begins, Size
  <2>3. (Stage \in Passing => Running /\ saved.offset = cursor)'
    BY <1>1, <1>2 DEF BInv, BrowserInv, Running, Begins
  <2>4. (Stage = "complete" /\ ~skipped /\ ~EndedShort =>
           meta >= 1 /\ (Size(meta) > 0 => sink.open /\ All(sink.swap, meta)))'
    BY <1>1, <1>2 DEF BInv, BrowserInv, All, Of, Size, EndedShort
  <2>5. writing' = NoWrite /\ opened' = sink'.open
    BY <1>1 DEF BInv, BrowserInv
  <2> QED BY <1>1, <2>1, <2>2, <2>3, <2>4, <2>5 DEF BrowserInv
<1>6. BrowserState'
  BY <1>1 DEF BInv, BrowserState, Backed, Begins, Size
<1> QED BY <1>1, <1>3, <1>4, <1>5, <1>6 DEF BInv

(* The checkpoint: the target is short of the state, so the swap file ends *)
(* where the cursor is and takes its place.                                *)
LEMMA BrowserPublishes ==
  ASSUME BInv, Publish
  PROVE  BInv'
<1> USE DEF setting, kept, engine, place, saving, local, history, outcome
<1>1. /\ UNCHANGED <<kind, sizes, version, saved, listed, body, etag, offset, meta, cursor, batch,
                     forced, opened, skipped, writing, stale, result>>
      /\ phase = "publish" /\ phase' = after /\ pend' = NoState
  BY DEF Publish
<1>2. /\ Stage = after /\ after \in {"emit", "batch", "stream", "complete"} /\ Stage' = Stage
      /\ Len(disk) \in Nat /\ Len(sink.swap) \in Nat /\ cursor \in Nat /\ offset \in Nat
      /\ NoState \in [etag : Nat, offset : Nat] /\ NoState.etag = 0 /\ version \in Nat
      /\ sink.swap \in Seq(Blocked) /\ disk \in Seq(Blocked)
  BY <1>1, BrowserFacts DEF Stage, Saving, NoState, State
<1> DEFINE covers == sink.open /\ saved.offset > 0 /\ Len(disk) < saved.offset
<1>3. /\ sink' \in [open : BOOLEAN, swap : Seq(Blocked), pos : Nat, last : Nat]
      /\ sink'.open = sink.open /\ sink'.swap = sink.swap /\ sink'.last = sink.last
      /\ covers => disk' = sink.swap /\ sink'.pos = Len(sink.swap) /\ sink.open
      /\ ~covers => disk' = disk /\ sink' = sink
  BY <1>2, ZenonT(60) DEF Publish, BInv, TypeInv
<1>4. Stage \in Passing => Running /\ saved.offset = cursor
  BY <1>1 DEF BInv, BrowserInv
<1>5. disk' \in Seq(Blocked) /\ OneVersion(disk)' /\ (sink'.open => OneVersion(sink.swap)' /\ Len(sink'.swap) > 0)
  <2>1. OneVersion(disk) /\ (sink.open => OneVersion(sink.swap) /\ Len(sink.swap) > 0)
    BY DEF BInv, BrowserInv
  <2>2. (disk' = disk \/ (sink.open /\ disk' = sink.swap)) /\ disk' \in Seq(Blocked)
    BY <1>2, <1>3
  <2> HIDE DEF covers
  <2> QED BY <1>1, <1>3, <2>1, <2>2, ZenonT(60) DEF OneVersion, Of, Size
<1>6. TypeInv'
  BY <1>1, <1>2, <1>3, <1>5 DEF BInv, TypeInv, Looping, Passing, Saving
<1>7. OrderInv'
  <2>1. phase' # "record"
    BY <1>1, <1>2
  <2> QED BY <1>1, <1>2, <2>1 DEF BInv, OrderInv, Size
<1>8. Stage \in Passing => Running'
  <2> SUFFICES ASSUME Stage \in Passing
               PROVE  Running'
    OBVIOUS
  <2>1. Running /\ saved.offset = cursor
    BY <1>4
  <2>2. CASE covers
    <3>1. Len(sink.swap) = cursor
      BY <1>2, <2>1, <2>2 DEF Running
    <3> HIDE DEF covers
    <3> QED BY <1>1, <1>2, <1>3, <2>1, <2>2, <3>1 DEF Running, Begins
  <2>3. CASE ~covers
    <3> HIDE DEF covers
    <3> QED BY <1>1, <1>3, <2>1, <2>3 DEF Running, Begins
  <2> QED BY <2>2, <2>3
<1>9. LoadedInv'
  <2> SUFFICES ASSUME Stage \in Looping
               PROVE  /\ etag = 0 => offset = 0
                      /\ offset > 0 /\ etag = version =>
                           /\ offset <= Len(disk') /\ Begins(disk', version) /\ offset < Size(version)
                           /\ sink.open => /\ sink.last >= offset /\ Begins(sink.swap, version)
                                           /\ Len(sink.swap) > offset
                           /\ Stage \in Passing => cursor >= offset
    BY <1>1, <1>2, <1>3, SMTT(60) DEF LoadedInv, Begins, Size
  <2> HIDE DEF covers
  <2> QED BY <1>2, <1>3 DEF BInv, BrowserInv, LoadedInv
<1>10. BrowserInv'
  <2>1. phase' \notin {"trim", "mark", "over", "sync", "publish", "record"}
    BY <1>1, <1>2
  <2>2. writing' = NoWrite /\ opened' = sink'.open
    BY <1>1, <1>3 DEF BInv, BrowserInv
  <2>3. (Stage = "complete" /\ ~skipped /\ ~EndedShort =>
           meta >= 1 /\ (Size(meta) > 0 => sink.open /\ All(sink.swap, meta)))'
    BY <1>1, <1>2, <1>3 DEF BInv, BrowserInv, All, Of, Size, EndedShort
  <2> QED BY <1>2, <1>5, <1>8, <1>9, <2>1, <2>2, <2>3 DEF BrowserInv
<1>11. BrowserState'
  <2>1. Backed(saved.etag, saved.offset)
    BY <1>1 DEF BInv, BrowserState
  <2>2. sink.open \/ ~covers
    OBVIOUS
  <2>3. Backed(saved.etag, saved.offset)'
    <3> HIDE DEF covers
    <3> QED BY <1>1, <1>3, <2>1, <2>2 DEF Backed, Begins, Size
  <2>4. phase' # "record" /\ phase' # "sync"
    BY <1>1, <1>2
  <2> QED BY <2>3, <2>4 DEF BrowserState
<1> QED BY <1>1, <1>6, <1>7, <1>10, <1>11 DEF BInv

(* The last of a run: the swap file replaces the target, and the offset of *)
(* the state becomes its length.                                           *)
LEMMA BrowserCloses ==
  ASSUME BInv, Close
  PROVE  BInv'
<1> USE DEF setting, kept, engine, place, saving, local, history, outcome
<1>1. /\ UNCHANGED <<kind, sizes, version, saved, pend, after, listed, body, etag, offset, meta, cursor, batch,
                     forced, opened, skipped, writing, stale>>
      /\ phase \in {"complete", "failed"} /\ phase' = "sync"
      /\ result' = (IF phase = "complete" THEN "done" ELSE "failed")
      /\ sink' = NoSink /\ disk' = IF sink.open THEN sink.swap ELSE disk
  BY DEF Close
<1>2. /\ Stage = phase /\ Stage' = "sync" /\ opened = sink.open /\ OneVersion(disk)
      /\ sink.open => OneVersion(sink.swap)
      /\ disk \in Seq(Blocked) /\ sink.swap \in Seq(Blocked)
  BY <1>1, BrowserFacts DEF BInv, BrowserInv, Stage, Saving
<1>3. NoSink \in [open : BOOLEAN, swap : Seq(Blocked), pos : Nat, last : Nat] /\ NoSink.open = FALSE
  BY DEF NoSink
<1>4. disk' \in Seq(Blocked) /\ OneVersion(disk)'
  BY <1>1, <1>2 DEF OneVersion, Of, Size
<1>5. TypeInv'
  BY <1>1, <1>3, <1>4 DEF BInv, TypeInv, Saving
<1>6. OrderInv'
  BY <1>1, <1>2 DEF BInv, OrderInv, Passing
<1>7. BrowserInv'
  <2>1. result' = "done" /\ ~skipped /\ ~EndedShort =>
          meta >= 1 /\ (Size(meta) > 0 => disk' = sink.swap /\ All(sink.swap, meta))
    BY <1>1, <1>2 DEF BInv, BrowserInv
  <2>2. (result = "done" /\ ~skipped /\ ~EndedShort =>
           meta >= 1 /\ (Size(meta) > 0 => All(disk, meta)))'
    BY <1>1, <2>1 DEF All, Of, Size, EndedShort
  <2>3. LoadedInv'
    BY <1>2 DEF LoadedInv, Looping
  <2>4. writing' = NoWrite
    BY <1>1 DEF BInv, BrowserInv
  <2> QED BY <1>1, <1>2, <1>3, <1>4, <2>2, <2>3, <2>4 DEF BrowserInv, Passing
<1>8. BrowserState'
  <2>1. Backed(saved.etag, saved.offset)
    BY <1>1 DEF BInv, BrowserState
  <2>2. Backed(saved.etag, IF opened THEN Len(disk) ELSE saved.offset)'
    <3>1. CASE sink.open
      BY <1>1, <1>2, <1>3, <2>1, <3>1 DEF Backed, Begins, Size
    <3>2. CASE ~sink.open
      BY <1>1, <1>2, <1>3, <2>1, <3>2 DEF Backed, Begins, Size
    <3> QED BY <3>1, <3>2
  <2> QED BY <1>1, <2>2 DEF BrowserState
<1> QED BY <1>1, <1>5, <1>6, <1>7, <1>8 DEF BInv

LEMMA BrowserSyncs ==
  ASSUME BInv, Sync
  PROVE  BInv'
<1> USE DEF setting, kept, engine, place, saving, local, history, outcome
<1>1. /\ UNCHANGED <<kind, sizes, version, disk, pend, after, listed, body, etag, offset, meta, cursor, batch,
                     forced, skipped, sink, writing, stale, result>>
      /\ phase = "sync" /\ phase' = "over" /\ opened' = FALSE
      /\ saved' = IF opened /\ saved # NoState THEN State(saved.etag, Len(disk)) ELSE saved
  BY DEF Sync
<1>2. /\ ~sink.open /\ Len(disk) \in Nat /\ saved.etag \in Nat /\ saved.offset \in Nat /\ version >= 1
      /\ version \in Nat /\ sink.open \in BOOLEAN
  BY <1>1, BrowserFacts DEF BInv, BrowserInv, TypeInv
<1>3. Stage' = "over"
  BY <1>1 DEF Stage, Saving
<1>4. saved' \in [etag : Nat, offset : Nat] /\ saved'.etag = saved.etag
  BY <1>1, <1>2 DEF State, BInv, TypeInv
<1>5. TypeInv'
  BY <1>1, <1>4 DEF BInv, TypeInv, Saving
<1>6. OrderInv'
  BY <1>1, <1>3, <1>4 DEF BInv, OrderInv, Passing
<1>7. BrowserInv'
  <2>1. OneVersion(disk)' /\ LoadedInv'
    BY <1>1, <1>3 DEF BInv, BrowserInv, OneVersion, Of, Size, LoadedInv, Looping
  <2>2. (result = "done" /\ ~skipped /\ ~EndedShort =>
           meta >= 1 /\ (Size(meta) > 0 => All(disk, meta)))'
    BY <1>1 DEF BInv, BrowserInv, All, Of, Size, EndedShort
  <2>3. writing' = NoWrite
    BY <1>1 DEF BInv, BrowserInv
  <2> QED BY <1>1, <1>2, <1>3, <2>1, <2>2, <2>3 DEF BrowserInv, Passing
<1>8. BrowserState'
  <2>1. Backed(saved.etag, IF opened THEN Len(disk) ELSE saved.offset)
    BY <1>1 DEF BInv, BrowserState
  <2>2. Backed(saved.etag, saved.offset)'
    <3>1. CASE opened /\ saved # NoState
      <4>1. saved'.offset = Len(disk)
        BY <1>1, <3>1 DEF State
      <4> QED BY <1>1, <1>2, <1>4, <2>1, <3>1, <4>1 DEF Backed, Begins, Size
    <3>2. CASE saved = NoState
      <4>1. saved'.etag = 0
        BY <1>4, <3>2 DEF NoState, State
      <4> QED BY <1>1, <1>2, <4>1 DEF Backed
    <3>3. CASE ~opened
      <4>1. saved' = saved
        BY <1>1, <3>3
      <4> QED BY <1>1, <2>1, <3>3, <4>1 DEF Backed, Begins, Size
    <3> QED BY <3>1, <3>2, <3>3
  <2> QED BY <1>1, <2>2 DEF BrowserState
<1> QED BY <1>1, <1>5, <1>6, <1>7, <1>8 DEF BInv

(* A crash loses the swap file.  A state that only it stood behind is what *)
(* stale says.                                                             *)
LEMMA BrowserCrashes ==
  ASSUME BInv, Crash, ~stale'
  PROVE  BInv'
<1> USE DEF setting, kept, engine, place, saving, local, history, outcome
<1>1. /\ UNCHANGED <<kind, sizes, version, disk, saved, listed, body, etag, offset, meta, cursor, forced>>
      /\ batch' = <<>> /\ phase' = "over" /\ result' = "crashed" /\ skipped' = FALSE /\ ~Unbacked
      /\ sink' = NoSink /\ opened' = FALSE /\ writing' = NoWrite /\ pend' = NoState /\ kind = "browser"
  BY DEF Crash, BInv
<1>2. /\ disk \in Seq(Blocked) /\ Len(disk) \in Nat /\ saved.offset \in Nat /\ version \in Nat
      /\ NoSink \in [open : BOOLEAN, swap : Seq(Blocked), pos : Nat, last : Nat] /\ NoSink.open = FALSE
      /\ NoState \in [etag : Nat, offset : Nat] /\ NoState.etag = 0
  BY BrowserFacts DEF NoSink, NoState, State
<1>3. Stage' = "over"
  BY <1>1 DEF Stage, Saving
<1>4. TypeInv'
  <2>1. \A j \in DOMAIN batch' : batch'[j] \in Chunks
    BY <1>1
  <2> QED BY <1>1, <1>2, <2>1 DEF BInv, TypeInv, Saving
<1>5. OrderInv'
  BY <1>1, <1>2, <1>3 DEF BInv, OrderInv, Passing
<1>6. BrowserInv'
  <2>1. OneVersion(disk)' /\ LoadedInv'
    BY <1>1, <1>3 DEF BInv, BrowserInv, OneVersion, Of, Size, LoadedInv, Looping
  <2> QED BY <1>1, <1>2, <1>3, <2>1 DEF BrowserInv, Passing
<1>7. BrowserState'
  <2> DEFINE n == MinOf(saved.offset, Len(disk))
  <2> SUFFICES ASSUME saved.etag = version, n # 0
               PROVE  Begins(disk, version)
    BY <1>1, <1>2 DEF BrowserState, Backed, Begins, Size
  <2>1. n \in 0..Len(disk) /\ \A i \in 1..n : Came(disk[i], version, i)
    BY <1>1, <1>2, SMTT(60) DEF Unbacked, MinOf
  <2> HIDE DEF n
  <2>2. 1 \in 1..n /\ Len(disk) > 0
    BY <1>2, <2>1
  <2> QED BY <2>1, <2>2 DEF Begins
<1> QED BY <1>1, <1>4, <1>5, <1>6, <1>7 DEF BInv, Crash

LEMMA BrowserNext ==
  ASSUME BInv, TruthInv, [Next]_vars, ~stale'
  PROVE  BInv'
<1>1. CASE UNCHANGED vars
  <2>1. UNCHANGED <<kind, sizes, version, disk, saved, pend, listed, body, etag, offset, meta, cursor, batch,
                    forced, opened, skipped, sink, writing, after, phase, result, stale>>
    BY <1>1 DEF vars, setting, kept, engine, place, saving, local, history, outcome
  <2>2. Stage' = Stage
    BY <2>1 DEF Stage
  <2>3. TypeInv' /\ OrderInv'
    BY <2>1, <2>2 DEF BInv, TypeInv, OrderInv, Size
  <2>4. BrowserInv'
    <3>1. LoadedInv'
      BY <2>1, <2>2 DEF BInv, BrowserInv, LoadedInv, Begins, Size
    <3> QED BY <2>1, <2>2, <3>1, SMTT(60)
        DEF BInv, BrowserInv, OneVersion, Fresh, Running, Begins, All, Of, Size, EndedShort
  <2>5. BrowserState'
    BY <2>1 DEF BInv, BrowserState, Backed, Begins, Size
  <2> QED BY <2>1, <2>3, <2>4, <2>5 DEF BInv
<1>2. CASE Next
  BY <1>2, BrowserStep, BrowserChange, BrowserQuiet, BrowserBegins, BrowserAsks, BrowserOpens, BrowserWrites,
     BrowserRecords, BrowserPublishes, BrowserCloses, BrowserSyncs, BrowserCrashes
<1> QED BY <1>1, <1>2

-----------------------------------------------------------------------------
(* Every block is what the server had when its body was opened.            *)
MadeAll(s) == \A i \in 1..Len(s) : Made(s[i])

LEMMA PutMade ==
  ASSUME NEW s \in Seq(Blocked), MadeAll(s), NEW i, NEW b \in Blocked, Made(b)
  PROVE  MadeAll(Put(s, i, b))
<1>0. Len(s) \in Nat /\ DOMAIN s = 1..Len(s)
  BY LenProperties
<1>1. CASE i \in 1..Len(s)
  <2>1. Put(s, i, b) = [s EXCEPT ![i] = b]
    BY <1>0, <1>1 DEF Put
  <2>2. /\ Len([s EXCEPT ![i] = b]) = Len(s)
        /\ \A j \in 1..Len(s) : [s EXCEPT ![i] = b][j] = IF j = i THEN b ELSE s[j]
    BY <1>1, ExceptSeq
  <2> QED BY <2>1, <2>2 DEF MadeAll
<1>2. CASE i \notin 1..Len(s)
  <2>1. Put(s, i, b) = Append(s, b)
    BY <1>0, <1>2 DEF Put
  <2>2. Len(Append(s, b)) = Len(s) + 1
        /\ \A j \in 1..(Len(s) + 1) : Append(s, b)[j] = IF j = Len(s) + 1 THEN b ELSE s[j]
    BY <1>0
  <2> QED BY <1>0, <2>1, <2>2, SMTT(60) DEF MadeAll
<1> QED BY <1>1, <1>2

LEMMA TruthFacts ==
  ASSUME TypeInv, OrderInv, TruthInv
  PROVE  /\ disk \in Seq(Blocked) /\ sink.swap \in Seq(Blocked)
         /\ MadeAll(disk) /\ MadeAll(sink.swap) /\ MadeAll(<<>>)
         /\ version \in Nat /\ meta \in Nat /\ body \in Nat /\ body <= version /\ meta <= version
         /\ phase \notin Saving => Stage = phase
BY LenProperties DEF TypeInv, OrderInv, TruthInv, MadeAll, Stage

(* A block out of a body under the etag of its pass.                       *)
LEMMA SentMade ==
  ASSUME meta \in Nat, NEW v \in Nat, meta <= v, v <= version, NEW i \in Nat
  PROVE  <<v, i, meta>> \in Blocked /\ Made(<<v, i, meta>>)
BY DEF Made, Blocked

(* A step of one version: what the files become, and what is underway.     *)
LEMMA TruthStep ==
  ASSUME version' = version, MadeAll(disk'), MadeAll(sink'.swap),
         writing' # NoWrite => Made(writing'.block),
         body' <= version,
         Stage' = "stream" => meta' <= body',
         Stage' \in {"fetch", "emit"} => \A i \in DOMAIN batch' :
           batch'[i].at = "got" \/ Stage' = "emit" => meta' <= batch'[i].of /\ batch'[i].of <= version
  PROVE  TruthInv'
BY DEF TruthInv, MadeAll, Made, NoWrite

LEMMA TruthChange ==
  ASSUME TypeInv, OrderInv, TruthInv, Change
  PROVE  TruthInv'
<1> USE DEF setting, kept, engine, place, saving, local, history, outcome
<1>1. UNCHANGED <<disk, sink, writing, body, meta, batch, phase, after>> /\ version' = version + 1
  BY DEF Change
<1>2. version \in Nat /\ Stage' = Stage
  BY <1>1, TruthFacts DEF Stage
<1>3. ASSUME NEW b \in Blocked, Made(b)
      PROVE  b[3] <= b[1] /\ b[1] <= version'
  BY <1>1, <1>2, <1>3 DEF Made, Blocked
<1>4. /\ \A i \in 1..Len(disk) : disk[i] \in Blocked
      /\ \A i \in 1..Len(sink.swap) : sink.swap[i] \in Blocked
      /\ writing # NoWrite => writing.block \in Blocked
      /\ \A i \in DOMAIN batch : batch[i].of \in Nat
      /\ body \in Nat
  BY ElementOfSeq DEF TypeInv, Chunks
<1>5. \A n \in Nat : n <= version => n <= version'
  BY <1>1, <1>2
<1> QED BY <1>1, <1>2, <1>3, <1>4, <1>5 DEF TruthInv, Made

(* The steps that write nothing.                                           *)
LEMMA TruthQuiet ==
  ASSUME TypeInv, OrderInv, TruthInv,
         \/ Begin \/ NBegin \/ NextBatch \/ (\E i \in DOMAIN batch : Fetch(i)) \/ AskMeta \/ Collect
         \/ AllEmitted \/ Get \/ Open \/ Record \/ Sync \/ NAskMeta \/ NError \/ NGet \/ NAllEmitted
         \/ Mark \/ Cancel \/ Crash
  PROVE  TruthInv'
<1> USE DEF setting, kept, engine, place, saving, local, history, outcome
<1>0. /\ version \in Nat /\ meta \in Nat /\ body \in Nat /\ body <= version /\ meta <= version
      /\ MadeAll(disk) /\ MadeAll(sink.swap) /\ MadeAll(<<>>) /\ NoSink.swap = <<>>
      /\ writing # NoWrite => Made(writing.block)
      /\ phase \notin Saving => Stage = phase
  BY TruthFacts DEF TruthInv, NoSink
<1>1. version' = version /\ disk' = disk /\ sink' \in {sink, NoSink} /\ writing' \in {writing, NoWrite}
      /\ body' \in {body, 0, version}
  BY DEF Begin, NBegin, NextBatch, Fetch, AskMeta, Collect, AllEmitted, Get, Open, Record, Sync,
     NAskMeta, NError, NGet, NAllEmitted, Mark, Cancel, Crash
<1>2. /\ MadeAll(disk') /\ MadeAll(sink'.swap) /\ body' <= version
      /\ writing' # NoWrite => Made(writing'.block)
  BY <1>0, <1>1
<1>3. ASSUME Stage' \notin {"stream", "fetch", "emit"}
      PROVE  TruthInv'
  BY <1>1, <1>2, <1>3, TruthStep
<1>4. CASE NextBatch
  <2>1. Stage' = "fetch"
    BY <1>4 DEF NextBatch, Stage, Saving
  <2>2. \A i \in DOMAIN batch' : batch'[i].at = "asked"
    BY <1>4 DEF NextBatch, Chunk
  <2> QED BY <1>1, <1>2, <2>1, <2>2, TruthStep
<1>5. ASSUME NEW i \in DOMAIN batch, Fetch(i)
      PROVE  TruthInv'
  <2>1. phase = "fetch" /\ Stage = "fetch" /\ Stage' = "fetch" /\ meta' = meta
    BY <1>5 DEF Fetch, Stage, Saving
  <2>2. PICK c : batch' = [batch EXCEPT ![i] = c] /\ (c.at = "got" => c.of = version)
    BY <1>5 DEF Fetch, Chunk, Planned
  <2>3. \A j \in DOMAIN batch : batch[j].at = "got" => meta <= batch[j].of /\ batch[j].of <= version
    BY <2>1 DEF TruthInv
  <2>4. \A j \in DOMAIN batch' : batch'[j].at = "got" => meta <= batch'[j].of /\ batch'[j].of <= version
    BY <1>0, <2>2, <2>3
  <2> QED BY <1>1, <1>2, <2>1, <2>4, TruthStep
<1>6. CASE Collect
  <2>1. CASE (\A i \in DOMAIN batch : batch[i].at = "got") /\ phase' = "emit" /\ UNCHANGED batch
    <3>1. Stage = "fetch" /\ Stage' = "emit" /\ meta' = meta
      BY <1>6, <2>1 DEF Collect, Stage, Saving
    <3>2. \A j \in DOMAIN batch : meta <= batch[j].of /\ batch[j].of <= version
      BY <2>1, <3>1 DEF TruthInv
    <3> QED BY <1>1, <1>2, <2>1, <3>1, <3>2, TruthStep
  <2>2. CASE phase' \in {"head", "get", "failed"}
    BY <1>3, <2>2 DEF Stage, Saving
  <2> QED BY <1>6, <2>1, <2>2, RouteLoops DEF Collect, Restart, Retry
<1>7. CASE Open
  <2>1. Stage' = "stream" /\ meta' = meta /\ body' = version
    BY <1>7 DEF Open, Stage, Saving
  <2> QED BY <1>0, <1>1, <1>2, <2>1, TruthStep
<1>8. CASE Record
  <2>1. UNCHANGED <<meta, body, batch>> /\ Stage' = Stage
    BY <1>8 DEF Record, Stage, Saving
  <2> QED BY <1>1, <1>2, <2>1, TruthStep DEF TruthInv
<1>9. CASE Begin \/ AllEmitted
  <2>1. Stage' \in {"complete", "head", "get"}
    BY <1>9, RouteLoops DEF Begin, AllEmitted, Finish, Stage, Saving
  <2> QED BY <1>3, <2>1
<1>10. CASE AskMeta \/ Get
  <2>1. phase' \in {"batch", "open", "head", "get", "failed"}
    BY <1>10, RouteLoops DEF AskMeta, Get, Restart, Retry
  <2> QED BY <1>3, <2>1 DEF Stage, Saving
<1>11. CASE NBegin \/ Sync \/ NAskMeta \/ NError \/ NGet \/ NAllEmitted \/ Mark \/ Cancel \/ Crash
  <2>1. phase' \in {"head", "over", "batch", "get", "open", "trim", "failed"}
    BY <1>11 DEF NBegin, Sync, NAskMeta, NError, NGet, NFails, NAllEmitted, Mark, Cancel, Crash
  <2> QED BY <1>3, <2>1 DEF Stage, Saving
<1> QED BY <1>4, <1>5, <1>6, <1>7, <1>8, <1>9, <1>10, <1>11

(* What the browser writes is of the bodies it was sent.                   *)
LEMMA TruthWrites ==
  ASSUME TypeInv, OrderInv, TruthInv, Emit \/ Stream
  PROVE  TruthInv'
<1> USE DEF setting, kept, engine, place, saving, local, history, outcome
<1>0. /\ version \in Nat /\ meta \in Nat /\ cursor \in Nat /\ body \in Nat /\ body <= version
      /\ disk \in Seq(Blocked) /\ sink.swap \in Seq(Blocked) /\ <<>> \in Seq(Blocked)
      /\ MadeAll(disk) /\ MadeAll(sink.swap) /\ MadeAll(<<>>) /\ NoSink.swap = <<>>
      /\ Stage = phase /\ phase \in {"emit", "stream"}
  <2>1. phase \in {"emit", "stream"}
    BY DEF Emit, Stream
  <2>2. phase \notin Saving /\ cursor \in Nat /\ NoSink.swap = <<>>
    BY <2>1 DEF Saving, TypeInv, NoSink
  <2> QED BY <2>1, <2>2, TruthFacts
<1>1. UNCHANGED <<version, disk, writing, body, meta>>
  BY DEF Emit, Stream
<1>2. /\ MadeAll(disk') /\ body' <= version /\ version' = version
      /\ writing' # NoWrite => Made(writing'.block)
  BY <1>0, <1>1 DEF TruthInv
<1>3. ASSUME NEW v \in Nat, meta <= v, v <= version, OnWriteChunk(v)
      PROVE  MadeAll(sink'.swap)
  <2> DEFINE b == <<v, cursor + 1, meta>>
  <2>1. sink'.swap = Put(Swap, Pos + 1, b)
    BY <1>3 DEF OnWriteChunk
  <2>2. b \in Blocked /\ Made(b)
    BY <1>0, <1>3, SentMade
  <2>3. Swap \in Seq(Blocked) /\ MadeAll(Swap)
    BY <1>0 DEF Swap
  <2> HIDE DEF b
  <2> QED BY <2>1, <2>2, <2>3, PutMade
<1>4. CASE Emit
  <2>0. phase = "emit" /\ cursor + 1 \in DOMAIN batch
    BY <1>0, <1>4 DEF Emit, OrderInv
  <2> DEFINE v  == batch[cursor + 1].of
             to == IF cursor + 2 \in DOMAIN batch THEN "emit" ELSE "batch"
  <2>1. \A j \in DOMAIN batch : meta <= batch[j].of /\ batch[j].of <= version
    BY <1>0, <2>0 DEF TruthInv
  <2>2. v \in Nat /\ meta <= v /\ v <= version
    <3>1. batch[cursor + 1] \in Chunks
      BY <2>0 DEF TypeInv
    <3> QED BY <2>0, <2>1, <3>1 DEF Chunks
  <2>3. CASE OnWriteChunk(v) /\ MaySave(meta, to) /\ (to = "emit" => batch' = batch)
    <3>1. Stage' = to
      BY <2>3 DEF MaySave, Stage, Saving
    <3>2. MadeAll(sink'.swap)
      <4> HIDE DEF v
      <4> QED BY <1>3, <2>2, <2>3
    <3>3. to \in {"emit", "batch"}
      OBVIOUS
    <3> HIDE DEF v, to
    <3> QED BY <1>1, <1>2, <2>1, <2>3, <3>1, <3>2, <3>3, TruthStep
  <2>4. CASE sink' = NoSink /\ Retry
    <3>1. Stage' \in {"head", "get", "failed"}
      BY <2>4, RouteLoops DEF Retry, Stage, Saving
    <3> QED BY <1>0, <1>2, <2>4, <3>1, TruthStep
  <2> QED BY <1>4, <2>3, <2>4 DEF Emit
<1>5. CASE Stream
  <2>0. Stage = "stream" /\ meta <= body
    BY <1>0, <1>5 DEF Stream, TruthInv
  <2>1. CASE OnWriteChunk(body) /\ MaySave(etag, "stream")
    <3>1. Stage' = "stream"
      BY <2>1 DEF MaySave, Stage, Saving
    <3>2. MadeAll(sink'.swap)
      BY <1>0, <1>3, <2>0, <2>1
    <3> QED BY <1>1, <1>2, <2>0, <3>1, <3>2, TruthStep
  <2>2. CASE phase' = "failed" /\ sink' \in {sink, NoSink}
    <3>1. Stage' = "failed"
      BY <2>2 DEF Stage, Saving
    <3> QED BY <1>0, <1>2, <2>2, <3>1, TruthStep
  <2>3. CASE Finish(etag, MaxOf(listed, cursor)) /\ UNCHANGED sink
    <3>1. Stage' = "complete"
      BY <2>3 DEF Finish, Stage, Saving
    <3> QED BY <1>0, <1>2, <2>3, <3>1, TruthStep
  <2> QED BY <1>5, <2>1, <2>2, <2>3 DEF Stream
<1> QED BY <1>4, <1>5

(* The swap file takes the place of the target.                            *)
LEMMA TruthPublishes ==
  ASSUME TypeInv, OrderInv, TruthInv, Publish \/ Close
  PROVE  TruthInv'
<1> USE DEF setting, kept, engine, place, saving, local, history, outcome
<1>0. /\ MadeAll(disk) /\ MadeAll(sink.swap) /\ MadeAll(<<>>) /\ NoSink.swap = <<>>
  BY TruthFacts DEF NoSink
<1>1. /\ UNCHANGED <<version, writing, body, meta, batch>>
      /\ disk' \in {disk, sink.swap}
  BY DEF Publish, Close
<1>2. sink'.swap \in {sink.swap, <<>>}
  BY <1>0 DEF Publish, Close, TypeInv
<1>3. CASE Publish
  <2>1. Stage' = Stage
    <3>1. phase = "publish" /\ phase' = after /\ Stage = after
      BY <1>3 DEF Publish, Stage, Saving
    <3>2. phase' \notin Saving
      BY <3>1 DEF TypeInv, Saving
    <3> QED BY <3>1, <3>2 DEF Stage
  <2> QED BY <1>0, <1>1, <1>2, <2>1, TruthStep DEF TruthInv
<1>4. CASE Close
  <2>1. Stage' = "sync"
    BY <1>4 DEF Close, Stage, Saving
  <2> QED BY <1>0, <1>1, <1>2, <2>1, TruthStep DEF TruthInv
<1> QED BY <1>3, <1>4

(* What the native client writes, and what set_len fills up.               *)
LEMMA TruthLands ==
  ASSUME TypeInv, OrderInv, TruthInv, NEmit \/ NStream \/ Land \/ Trim
  PROVE  TruthInv'
<1> USE DEF setting, kept, engine, place, saving, local, history, outcome
<1>0. /\ version \in Nat /\ meta \in Nat /\ cursor \in Nat /\ body \in Nat /\ body <= version
      /\ disk \in Seq(Blocked) /\ MadeAll(disk) /\ MadeAll(sink.swap)
      /\ phase \notin Saving => Stage = phase
  BY TruthFacts DEF TypeInv
<1>1. UNCHANGED <<version, sink, body, meta>>
  BY DEF NEmit, NStream, Land, Trim
<1>2. ASSUME NEW v \in Nat, meta <= v, v <= version, NWrite(v)
      PROVE  Made(writing'.block)
  <2>1. writing'.block = <<v, cursor + 1, meta>>
    BY <1>2 DEF NWrite
  <2> QED BY <1>0, <1>2, <2>1, SentMade
<1>3. CASE NEmit
  <2> DEFINE v == batch[cursor + 1].of
  <2>1. /\ Stage = "fetch" /\ cursor + 1 \in DOMAIN batch /\ batch[cursor + 1].at = "got" /\ NWrite(v)
        /\ disk' = disk
    BY <1>0, <1>3 DEF NEmit, Saving
  <2>2. \A j \in DOMAIN batch : batch[j].at = "got" => meta <= batch[j].of /\ batch[j].of <= version
    BY <2>1 DEF TruthInv
  <2>3. v \in Nat /\ meta <= v /\ v <= version
    <3>1. batch[cursor + 1] \in Chunks
      BY <2>1 DEF TypeInv
    <3> QED BY <2>1, <2>2, <3>1 DEF Chunks
  <2>4. Made(writing'.block)
    <3> HIDE DEF v
    <3> QED BY <1>2, <2>1, <2>3
  <2>5. Stage' = "batch" \/ (Stage' = "fetch" /\ batch' = batch)
    BY <1>3 DEF NEmit, Stage, Saving
  <2> QED BY <1>0, <1>1, <2>1, <2>2, <2>4, <2>5, TruthStep
<1>4. CASE NStream
  <2>1. Stage = "stream" /\ meta <= body /\ disk' = disk
    BY <1>0, <1>4 DEF NStream, TruthInv, Saving
  <2>2. Stage' \in {"stream", "over", "trim"}
    BY <1>4 DEF NStream, Stage, Saving
  <2>3. writing' # NoWrite => Made(writing'.block)
    <3>1. NWrite(body) \/ writing' = writing
      BY <1>4 DEF NStream
    <3> QED BY <1>0, <1>2, <2>1, <3>1 DEF TruthInv
  <2> QED BY <1>0, <1>1, <2>1, <2>2, <2>3, TruthStep
<1>5. CASE Land
  <2>1. /\ writing # NoWrite /\ writing' = NoWrite /\ disk' = Put(disk, writing.at, writing.block)
        /\ UNCHANGED <<phase, after, batch>>
    BY <1>5 DEF Land
  <2>2. writing.block \in Blocked /\ Made(writing.block) /\ Stage' = Stage
    BY <2>1 DEF TypeInv, TruthInv, Stage
  <2>3. MadeAll(disk')
    BY <1>0, <2>1, <2>2, PutMade
  <2> QED BY <1>0, <1>1, <2>1, <2>2, <2>3, TruthStep DEF TruthInv
<1>6. CASE Trim
  <2>1. phase = "trim" /\ phase' \in {"mark", "over"} /\ UNCHANGED writing
    BY <1>6 DEF Trim
  <2>2. Size(meta) \in Nat
    <3>1. meta >= 1
      BY <1>0, <2>1 DEF OrderInv, Saving
    <3> QED BY <1>0, <3>1, SizeTyped, TruthFacts
  <2>3. Len(disk') = Size(meta)
        /\ \A i \in 1..Size(meta) : disk'[i] = IF i <= Len(disk) THEN disk[i] ELSE <<0, i, 0>>
    BY <1>0, <1>6, <2>2, Resized DEF Trim
  <2>4. MadeAll(disk')
    <3>1. Len(disk) \in Nat /\ \A i \in Nat : Made(<<0, i, 0>>)
      BY <1>0, LenProperties DEF Made
    <3> QED BY <1>0, <2>2, <2>3, <3>1 DEF MadeAll
  <2>5. Stage' \in {"mark", "over"}
    BY <2>1 DEF Stage, Saving
  <2> QED BY <1>0, <1>1, <2>1, <2>4, <2>5, TruthStep DEF TruthInv
<1> QED BY <1>3, <1>4, <1>5, <1>6

LEMMA TruthNext ==
  ASSUME TypeInv, OrderInv, TruthInv, [Next]_vars
  PROVE  TruthInv'
<1>1. CASE UNCHANGED vars
  <2>1. UNCHANGED <<version, disk, sink, writing, body, meta, batch, phase, after>>
    BY <1>1 DEF vars, kept, place, saving, local, history
  <2>2. Stage' = Stage
    BY <2>1 DEF Stage
  <2> QED BY <2>1, <2>2 DEF TruthInv, Made
<1>2. CASE Next
  BY <1>2, TruthChange, TruthQuiet, TruthWrites, TruthPublishes, TruthLands DEF Next, Work
<1> QED BY <1>1, <1>2

-----------------------------------------------------------------------------
LEMMA InitDownload ==
  ASSUME Init
  PROVE  DownloadInv
<1>1. /\ sizes \in Seq(Nat) /\ Len(sizes) \in Nat /\ Len(sizes) >= 1 /\ version = 1
      /\ kind \in {"browser", "native"}
  BY HistoriesAssumption, LenProperties, EmptySeq DEF Init
<1>2. /\ disk = <<>> /\ saved = [etag |-> 0, offset |-> 0] /\ pend = [etag |-> 0, offset |-> 0]
      /\ phase = "over" /\ listed = 0 /\ etag = 0 /\ offset = 0 /\ forced = FALSE
      /\ meta = 0 /\ cursor = 0 /\ opened = FALSE /\ skipped = FALSE /\ result = "none"
      /\ sink = [open |-> FALSE, swap |-> <<>>, pos |-> 0, last |-> 0] /\ writing = NoWrite
      /\ batch = <<>> /\ body = 0
  BY DEF Init, NoState, State, NoSink
<1>3. Stage = "over" /\ Len(<<>>) = 0 /\ <<>> \in Seq(Blocked)
  BY <1>2 DEF Stage, Saving
<1>4. TypeInv
  <2>1. /\ saved \in [etag : Nat, offset : Nat] /\ pend \in [etag : Nat, offset : Nat]
        /\ sink \in [open : BOOLEAN, swap : Seq(Blocked), pos : Nat, last : Nat]
        /\ disk \in Seq(Blocked) /\ version \in 1..Len(sizes)
        /\ \A j \in DOMAIN batch : batch[j] \in Chunks
    BY <1>1, <1>2, <1>3
  <2> QED BY <1>1, <1>2, <2>1 DEF TypeInv, Saving
<1>5. OrderInv
  BY <1>1, <1>2, <1>3 DEF OrderInv, Passing
<1>6. NativeInv /\ NativeState
  BY <1>1, <1>2 DEF NativeInv, NativeState
<1>7. BrowserInv /\ BrowserState
  <2>1. 1 \in 1..version /\ Size(1) \in Nat
    BY <1>1, ElementOfSeq DEF Size
  <2>2. OneVersion(disk)
    BY <1>2, <1>3, <2>1 DEF OneVersion, Of
  <2>3. LoadedInv
    BY <1>3 DEF LoadedInv, Looping
  <2>4. ~sink.open /\ opened = sink.open
    BY <1>2
  <2>5. BrowserInv
    BY <1>2, <1>3, <2>2, <2>3, <2>4 DEF BrowserInv, Passing
  <2>6. saved.etag # version
    BY <1>1, <1>2
  <2>7. BrowserState
    BY <1>2, <2>6 DEF BrowserState, Backed
  <2> QED BY <2>5, <2>7
<1>8. TruthInv
  BY <1>1, <1>2, <1>3 DEF TruthInv
<1> QED BY <1>4, <1>5, <1>6, <1>7, <1>8 DEF DownloadInv

LEMMA NextDownload ==
  ASSUME DownloadInv, [Next]_vars
  PROVE  DownloadInv'
<1>1. stale => stale'
  BY DEF vars, history, Next, Work, Change, Begin, NBegin, NextBatch, Fetch, AskMeta, Collect, Emit,
     AllEmitted, Get, Open, Stream, Record, Publish, Close, Sync, NAskMeta, NEmit, NError, NGet, NStream,
     NAllEmitted, Trim, Mark, Land, Cancel, Crash
<1> SUFFICES ASSUME ~stale'
             PROVE  DownloadInv'
  BY DEF DownloadInv
<1>0. TypeInv /\ OrderInv /\ TruthInv /\ TruthInv'
  BY <1>1, TruthNext DEF DownloadInv
<1>2. CASE kind = "native"
  <2>1. NInv
    BY <1>1, <1>2 DEF DownloadInv, NInv
  <2>2. NInv'
    BY <1>0, <2>1, NativeNext
  <2> QED BY <1>0, <2>2 DEF DownloadInv, NInv
<1>3. CASE kind = "browser"
  <2>1. BInv
    BY <1>1, <1>3 DEF DownloadInv, BInv
  <2>2. BInv'
    BY <1>0, <2>1, BrowserNext
  <2> QED BY <1>0, <2>2 DEF DownloadInv, BInv
<1>4. kind \in {"browser", "native"}
  BY <1>1 DEF DownloadInv, TypeInv
<1> QED BY <1>2, <1>3, <1>4

(* The inductive invariant, of either client, until a crash leaves a state *)
(* that the disk does not hold (download_file, download_once,              *)
(* _onWriteChunk, _checkpointDownload, _syncResumeOffsets).                *)
THEOREM DownloadInvariant == Spec => []DownloadInv
<1>1. Init => DownloadInv
  BY InitDownload
<1>2. DownloadInv /\ [Next]_vars => DownloadInv'
  BY NextDownload
<1> QED BY <1>1, <1>2, PTL DEF Spec

(* What came as block i of v is that, or was put in its place on the way;  *)
(* of the newest version nothing can have been.                            *)
LEMMA CameStands ==
  ASSUME NEW b \in Blocked, NEW v \in Nat, NEW i, Came(b, v, i), Made(b)
  PROVE  Stands(b, v, i) /\ (v = version => b[1] = version)
<1>1. b[1] \in Nat /\ b[2] = i /\ b[3] = v /\ v <= b[1] /\ b[1] <= version
  BY DEF Blocked, Came, Made
<1>2. v = version => b[1] = version
  BY <1>1
<1>3. b[1] = v \/ b[1] > v
  BY <1>1
<1> QED BY <1>1, <1>2, <1>3 DEF Stands

LEMMA OfStands ==
  ASSUME TypeInv, TruthInv, NEW v \in Nat, Of(disk, v)
  PROVE  \A i \in DOMAIN disk : Stands(disk[i], v, i)
<1> SUFFICES ASSUME NEW i \in DOMAIN disk
             PROVE  Stands(disk[i], v, i)
  OBVIOUS
<1>1. i \in 1..Len(disk) /\ disk[i] \in Blocked
  BY LenProperties, ElementOfSeq, SMTT(60) DEF TypeInv
<1> QED BY <1>1, CameStands DEF Of, TruthInv

(* A download that fetched something leaves the whole of one version in    *)
(* the target, for any file, any history of it, any window and any number  *)
(* of retries, restarts, cancels and crashes, of both clients              *)
(* (download_file, _onWriteChunk, download_once): nothing missing, nothing *)
(* twice, nothing behind the end, and nothing of another version but what  *)
(* the server sent in its place, under its etag, from a newer file.        *)
THEOREM FilesAreWhole == Spec => []FinishedIsWhole
<1>1. DownloadInv => FinishedIsWhole
  <2> SUFFICES ASSUME DownloadInv, Fetched, ~stale, ~EndedShort
               PROVE  Len(disk) = Size(meta) /\ \A i \in DOMAIN disk : Stands(disk[i], meta, i)
    BY DEF FinishedIsWhole
  <2>1. kind \in {"browser", "native"} /\ meta \in Nat /\ TypeInv /\ TruthInv
    BY DEF DownloadInv, TypeInv
  <2>2. All(disk, meta)
    <3>1. CASE kind = "browser"
      BY <3>1 DEF DownloadInv, BrowserInv, Fetched
    <3>2. CASE kind = "native"
      BY <3>2 DEF DownloadInv, NativeInv, Fetched
    <3> QED BY <2>1, <3>1, <3>2
  <2> QED BY <2>1, <2>2, OfStands DEF All
<1> QED BY <1>1, DownloadInvariant, PTL

(* The browser's target is at every moment, in the middle of a download as *)
(* after it, the beginning of one version of the file, but for blocks the  *)
(* server sent under its etag from a newer one (_checkpointDownload,       *)
(* _flushWritables).                                                       *)
THEOREM TargetsAreOneVersion == Spec => []TargetIsOneVersion
<1>1. DownloadInv => TargetIsOneVersion
  <2> SUFFICES ASSUME DownloadInv, kind = "browser", ~stale
               PROVE  \E v \in DOMAIN sizes :
                        Len(disk) <= Size(v) /\ \A i \in DOMAIN disk : Stands(disk[i], v, i)
    BY DEF TargetIsOneVersion
  <2>1. PICK v \in 1..version : Of(disk, v)
    BY DEF DownloadInv, BrowserInv, OneVersion
  <2>2. v \in Nat /\ TypeInv /\ TruthInv
    BY DEF DownloadInv
  <2>3. v \in DOMAIN sizes
    BY LenProperties, SMTT(60) DEF DownloadInv, TypeInv
  <2>4. \A i \in DOMAIN disk : Stands(disk[i], v, i)
    BY <2>1, <2>2, OfStands
  <2> QED BY <2>1, <2>3, <2>4 DEF Of
<1> QED BY <1>1, DownloadInvariant, PTL

(* What the native client's resume state says of the version the server    *)
(* has is on disk, and is of that version, but for the one write in flight *)
(* (save_resume, download_once).                                           *)
THEOREM StatesAreTrue == Spec => []StateIsTrue
<1>1. DownloadInv => StateIsTrue
  <2> SUFFICES ASSUME DownloadInv, kind = "native", ~stale, saved.etag = version,
                      saved.offset <= Len(disk), NEW i \in 1..saved.offset
               PROVE  (disk[i][1] = version /\ disk[i][2] = i) \/ writing.at = i
    BY DEF StateIsTrue
  <2>1. MinOf(saved.offset, Len(disk)) = saved.offset
    BY DEF MinOf
  <2>2. Came(disk[i], version, i) \/ writing.at = i
    BY <2>1 DEF DownloadInv, NativeState
  <2>3. saved.offset \in Nat /\ version \in Nat /\ Len(disk) \in Nat
    BY LenProperties DEF DownloadInv, TypeInv
  <2>4. i \in 1..Len(disk) /\ disk[i] \in Blocked
    <3>1. disk \in Seq(Blocked)
      BY DEF DownloadInv, TypeInv
    <3>2. i \in 1..Len(disk)
      BY <2>3
    <3> QED BY <3>1, <3>2, ElementOfSeq
  <2>5. Made(disk[i])
    BY <2>4 DEF DownloadInv, TruthInv
  <2> QED BY <2>2, <2>3, <2>4, <2>5, CameStands DEF Came
<1> QED BY <1>1, DownloadInvariant, PTL
=============================================================================
