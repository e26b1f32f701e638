---------------------------- MODULE RequestsProofs ---------------------------
(***************************************************************************)
(* Theorems about Requests: what a request may reach, and what an answer   *)
(* is, for any codecs, tokens, trees, ranges and sizes, any cut of the     *)
(* body and any number of requests.                                        *)
(***************************************************************************)
EXTENDS Requests, SequenceTheorems, FiniteSetTheorems, TLAPS

-----------------------------------------------------------------------------
(* Natural numbers and sequences.                                          *)
Below == {pair \in Nat \X Nat : pair[1] < pair[2]}

LEMMA Least ==
  ASSUME NEW T \in SUBSET Nat, T # {}
  PROVE  \E x \in T : \A y \in T : x <= y
<1>1. IsWellFoundedOn(Below, Nat)
  BY NatLessThanWellFounded DEF OpToRel, Below
<1>2. PICK x \in T : \A y \in T : <<y, x>> \notin Below
  BY <1>1, WFMin
<1>3. \A y \in T : ~(y < x)
  BY <1>2 DEF Below
<1> QED BY <1>3

LEMMA Greatest ==
  ASSUME NEW T \in SUBSET Nat, T # {}, NEW b \in Nat, \A t \in T : t <= b
  PROVE  \E x \in T : \A y \in T : y <= x
<1> DEFINE U == {n \in Nat : \A t \in T : t <= n}
<1>1. PICK u \in U : \A n \in U : u <= n
  <2>1. b \in U /\ U \in SUBSET Nat
    OBVIOUS
  <2> HIDE DEF U
  <2> QED BY <2>1, Least
<1>2. u \in T
  <2> SUFFICES ASSUME u \notin T
               PROVE  FALSE
    OBVIOUS
  <2>1. PICK t \in T : TRUE
    OBVIOUS
  <2>2. u \in Nat /\ u > 0 /\ \A s \in T : s <= u - 1
    BY <1>1, <2>1
  <2>3. u - 1 \in U
    BY <2>2
  <2> QED BY <1>1, <2>2, <2>3
<1> QED BY <1>1, <1>2

LEMMA Counted ==
  ASSUME NEW N \in Nat, NEW places \in SUBSET (1..N)
  PROVE  /\ IsFiniteSet(places) /\ Cardinality(places) \in Nat
         /\ Cardinality(places) <= N
         /\ \A i \in Nat : /\ IsFiniteSet({j \in places : j <= i})
                           /\ Cardinality({j \in places : j <= i}) \in Nat
                           /\ Cardinality({j \in places : j <= i}) <= Cardinality(places)
<1>1. IsFiniteSet(1..N) /\ Cardinality(1..N) = N
  BY FS_Interval
<1>2. IsFiniteSet(places) /\ Cardinality(places) <= N
  BY <1>1, FS_Subset, ZenonT(60)
<1>3. ASSUME NEW i \in Nat
      PROVE  /\ IsFiniteSet({j \in places : j <= i})
             /\ Cardinality({j \in places : j <= i}) <= Cardinality(places)
  <2>1. {j \in places : j <= i} \in SUBSET places
    OBVIOUS
  <2> QED BY <1>2, <2>1, FS_Subset
<1> QED BY <1>2, <1>3, FS_CardinalityType

(* Every place has a number.                                               *)
LEMMA NthIsThere ==
  ASSUME NEW N \in Nat, NEW places \in SUBSET (1..N), NEW n \in 1..Cardinality(places)
  PROVE  Nth(places, n) \in places
<1> DEFINE upTo(i) == {j \in places : j <= i}
           C(i) == Cardinality(upTo(i))
           T == {i \in Nat : C(i) >= n}
<1>0. \A j \in places : j \in Nat /\ 1 <= j /\ j <= N
  OBVIOUS
<1>1. Cardinality(places) \in Nat /\ n \in Nat /\ n >= 1 /\ n <= Cardinality(places)
      /\ \A i \in Nat : IsFiniteSet(upTo(i)) /\ C(i) \in Nat
  BY Counted
<1>2. N \in T
  <2>1. upTo(N) = places
    BY <1>0
  <2> QED BY <1>1, <2>1
<1>3. PICK i \in Nat : C(i) >= n /\ \A j \in Nat : C(j) >= n => i <= j
  <2>1. T \in SUBSET Nat /\ T # {}
    BY <1>2
  <2>2. PICK i \in T : \A j \in T : i <= j
    <3> HIDE DEF T
    <3> QED BY <2>1, Least
  <2> QED BY <2>2
<1>4. i # 0
  <2>1. upTo(0) = {}
    <3>1. \A j \in places : ~(j <= 0)
      BY <1>0
    <3> QED BY <3>1
  <2>2. C(0) = 0
    BY <2>1, FS_EmptySet
  <2> QED BY <1>1, <1>3, <2>2
<1>5. i - 1 \in Nat /\ C(i - 1) < n /\ C(i - 1) \in Nat /\ C(i) >= n /\ C(i) \in Nat
  <2>1. i - 1 \in Nat /\ ~(i <= i - 1)
    BY <1>3, <1>4
  <2>2. ~(C(i - 1) >= n) /\ C(i) >= n
    BY <1>3, <2>1
  <2>3. C(i - 1) \in Nat /\ C(i) \in Nat
    BY <1>1, <2>1
  <2> HIDE DEF C
  <2> QED BY <1>1, <2>1, <2>2, <2>3
<1>6. upTo(i) = IF i \in places THEN upTo(i - 1) \cup {i} ELSE upTo(i - 1)
  <2>1. \A j \in places : j <= i <=> j <= i - 1 \/ j = i
    BY <1>0, <1>3, <1>5
  <2> QED BY <2>1
<1>7. i \in places
  <2>1. i \notin places => C(i) = C(i - 1)
    BY <1>6
  <2> HIDE DEF C
  <2> QED BY <1>1, <1>5, <2>1
<1>8. C(i) = C(i - 1) + 1
  <2>1. i \notin upTo(i - 1) /\ upTo(i) = upTo(i - 1) \cup {i} /\ IsFiniteSet(upTo(i - 1))
    <3>1. ~(i <= i - 1)
      BY <1>3
    <3> QED BY <1>1, <1>5, <1>6, <1>7, <3>1
  <2> HIDE DEF upTo
  <2> QED BY <2>1, FS_AddElement
<1>9. C(i) = n
  <2> HIDE DEF C
  <2> QED BY <1>1, <1>5, <1>8
<1>10. Cardinality({j \in places : j <= i}) = n
  BY <1>9
<1> QED BY <1>7, <1>10 DEF Nth

LEMMA KeptProperties ==
  ASSUME NEW S, NEW s \in Seq(S), NEW places \in SUBSET (1..Len(s))
  PROVE  /\ Kept(s, places) \in Seq(S) /\ Len(Kept(s, places)) = Cardinality(places)
         /\ Cardinality(places) \in Nat
         /\ \A n \in 1..Cardinality(places) :
              Nth(places, n) \in places /\ Kept(s, places)[n] = s[Nth(places, n)]
<1>1. Len(s) \in Nat /\ \A i \in 1..Len(s) : s[i] \in S
  BY LenProperties, ElementOfSeq
<1>2. Cardinality(places) \in Nat
  BY <1>1, Counted
<1>3. \A n \in 1..Cardinality(places) : Nth(places, n) \in places
  BY <1>1, NthIsThere
<1>4. Kept(s, places) \in [1..Cardinality(places) -> S]
  BY <1>1, <1>3 DEF Kept
<1>5. Kept(s, places) \in Seq(S)
  BY <1>2, <1>4, SeqDef
<1> QED BY <1>2, <1>3, <1>4, <1>5, LenProperties DEF Kept

(* All places keep everything, and none nothing.                           *)
LEMMA KeptAll ==
  ASSUME NEW S, NEW s \in Seq(S)
  PROVE  Kept(s, 1..Len(s)) = s
<1> DEFINE places == 1..Len(s)
<1>1. Len(s) \in Nat /\ DOMAIN s = places /\ s \in [places -> S] /\ Cardinality(places) = Len(s)
  <2>1. Len(s) \in Nat /\ DOMAIN s = places /\ s \in [places -> S]
    BY LenProperties
  <2>2. Cardinality(1..Len(s)) = IF 1 > Len(s) THEN 0 ELSE Len(s) - 1 + 1
    BY <2>1, FS_Interval, SMTT(60)
  <2> QED BY <2>1, <2>2
<1>2. ASSUME NEW n \in places
      PROVE  Nth(places, n) = n
  <2>1. \A i \in places : {j \in places : j <= i} = 1..i
    BY <1>1
  <2>2. \A i \in places : Cardinality(1..i) = i
    BY <1>1, FS_Interval
  <2>3. \A i \in places : Cardinality({j \in places : j <= i}) = n <=> i = n
    BY <2>1, <2>2
  <2> HIDE DEF places
  <2> QED BY <2>3 DEF Nth
<1>3. Kept(s, places) = [n \in places |-> s[Nth(places, n)]]
  BY <1>1 DEF Kept
<1> HIDE DEF places
<1>4. Kept(s, places) = [n \in places |-> s[n]]
  BY <1>2, <1>3
<1>5. s = [n \in places |-> s[n]]
  BY <1>1
<1> QED BY <1>4, <1>5 DEF places

LEMMA KeptNone ==
  ASSUME NEW s
  PROVE  Kept(s, {}) = <<>>
<1>1. Cardinality({}) = 0
  BY FS_EmptySet
<1>2. Kept(s, {}) = [n \in 1..0 |-> s[Nth({}, n)]]
  BY <1>1 DEF Kept
<1> QED BY <1>2

-----------------------------------------------------------------------------
(* Frames.                                                                 *)
BlockSet == Path \X Nat \X Nat
UnitSet == [block : BlockSet \cup {NoBlock}, part : {"begin", "end", "whole"}]

LEMMA NoBlockIsNone == NoBlock \notin BlockSet
<1>1. \A b \in BlockSet : Len(b) = 3
  BY DEF BlockSet
<1>2. Len(NoBlock) = 0
  BY DEF NoBlock
<1> QED BY <1>1, <1>2

LEMMA UnitParts == \A b, p : Unit(b, p).block = b /\ Unit(b, p).part = p
BY DEF Unit

LEMMA BehindProperties ==
  ASSUME NEW units \in Seq(UnitSet), NEW n \in Nat, 2 * n <= Len(units)
  PROVE  /\ Behind(units, n) \in Seq(UnitSet) /\ Len(Behind(units, n)) = Len(units) - 2 * n
         /\ \A i \in 1..(Len(units) - 2 * n) : Behind(units, n)[i] = units[2 * n + i]
<1>1. Len(units) \in Nat /\ \A i \in 1..Len(units) : units[i] \in UnitSet
  BY LenProperties, ElementOfSeq
<1>2. 2 * n + 1 \in 1..(Len(units) + 1) /\ Len(units) \in (2 * n)..Len(units) /\ 2 * n + 1 \in Int
  BY <1>1
<1> DEFINE m == 2 * n + 1
<1>3. \A i \in m..Len(units) : units[i] \in UnitSet
  BY <1>1, <1>2
<1>4. /\ SubSeq(units, m, Len(units)) \in Seq(UnitSet)
      /\ Len(SubSeq(units, m, Len(units))) = IF m <= Len(units) THEN Len(units) - m + 1 ELSE 0
      /\ \A i \in 1..(Len(units) - m + 1) : SubSeq(units, m, Len(units))[i] = units[m + i - 1]
  <2>1. m \in Nat
    BY <1>1
  <2> HIDE DEF m
  <2> QED BY <1>1, <1>3, <2>1, SubSeqProperties
<1>5. Len(units) - m + 1 = Len(units) - 2 * n /\ \A i \in 1..(Len(units) - 2 * n) : m + i - 1 = 2 * n + i
  BY <1>1
<1>6. Len(SubSeq(units, m, Len(units))) = Len(units) - 2 * n
  <2> HIDE DEF m
  <2>1. m \in Nat /\ (m <= Len(units) \/ Len(units) - 2 * n = 0)
    BY <1>1 DEF m
  <2> QED BY <1>4, <1>5, <2>1
<1>7. \A i \in 1..(Len(units) - 2 * n) : SubSeq(units, m, Len(units))[i] = units[2 * n + i]
  <2> HIDE DEF m
  <2> QED BY <1>4, <1>5
<1> QED BY <1>4, <1>6, <1>7 DEF Behind

(* What drain_frames makes of whole frames and a beginning: their blocks,  *)
(* as far as it gets, and it fails if that is not the end.                 *)
LEMMA DrainProperties ==
  ASSUME NEW units \in Seq(UnitSet), NEW blocks \in Seq(BlockSet), NEW budget \in Nat,
         Len(units) \in {2 * Len(blocks), 2 * Len(blocks) + 1},
         \A i \in 1..Len(blocks) : /\ units[2 * i - 1] = Unit(blocks[i], "begin")
                                   /\ units[2 * i] = Unit(blocks[i], "end")
  PROVE  \E m \in 0..Len(blocks) :
           /\ Drain(units, budget).out = [i \in 1..m |-> blocks[i]]
           /\ Drain(units, budget).left = Behind(units, m)
           /\ Drain(units, budget).ok <=> m = Len(blocks)
<1> DEFINE n == Len(blocks)
<1>1. n \in Nat /\ Len(units) \in Nat /\ Len(units) \div 2 = n /\ \A i \in 1..n : blocks[i] \in BlockSet
  <2>1. n \in Nat /\ Len(units) \in Nat /\ \A i \in 1..n : blocks[i] \in BlockSet
    BY LenProperties, ElementOfSeq
  <2> QED BY <2>1
<1>2. \A m \in 0..n : Blocks(units, m) = [i \in 1..m |-> blocks[i]] /\ Len(Blocks(units, m)) = m
                      /\ Blocks(units, m) \in Seq(BlockSet)
  <2> TAKE m \in 0..n
  <2> DEFINE s == [i \in 1..m |-> blocks[i]]
  <2>1. s \in Seq(BlockSet) /\ Len(s) = m
    BY <1>1
  <2>2. s = [i \in 1..m |-> units[2 * i - 1].block]
    <3>1. \A i \in 1..m : i \in 1..n /\ units[2 * i - 1] = Unit(blocks[i], "begin")
      BY <1>1
    <3>2. \A i \in 1..m : units[2 * i - 1].block = blocks[i]
      BY <3>1, UnitParts, SMTT(60)
    <3> QED BY <3>2
  <2>3. {i \in 1..m : units[2 * i - 1].block # NoBlock} = 1..m
    <3>1. \A i \in 1..m : i \in 1..n /\ units[2 * i - 1] = Unit(blocks[i], "begin")
      BY <1>1
    <3>2. \A i \in 1..m : i \in 1..n /\ units[2 * i - 1].block = blocks[i]
      BY <3>1, UnitParts, SMTT(60)
    <3>3. \A i \in 1..m : units[2 * i - 1].block \in BlockSet
      BY <1>1, <3>2
    <3> QED BY <3>3, NoBlockIsNone
  <2>4. Blocks(units, m) = Kept(s, 1..m)
    BY <2>2, <2>3 DEF Blocks
  <2> HIDE DEF s
  <2>5. Kept(s, 1..m) = s
    BY <2>1, KeptAll
  <2> QED BY <2>1, <2>4, <2>5 DEF s
<1>3. \A i \in 0..(n - 1) : Boundary(Behind(units, i)) = "complete"
  <2> TAKE i \in 0..(n - 1)
  <2>1. i \in Nat /\ i + 1 \in 1..n /\ 2 * i <= Len(units) /\ Len(units) - 2 * i >= 2
    BY <1>1
  <2>2. Len(Behind(units, i)) >= 2 /\ Behind(units, i)[1] = units[2 * i + 1]
        /\ Behind(units, i)[2] = units[2 * i + 2]
    <3>1. Len(Behind(units, i)) = Len(units) - 2 * i
          /\ \A j \in 1..(Len(units) - 2 * i) : Behind(units, i)[j] = units[2 * i + j]
      BY <2>1, BehindProperties, SMTT(60)
    <3>2. 1 \in 1..(Len(units) - 2 * i) /\ 2 \in 1..(Len(units) - 2 * i)
      BY <1>1, <2>1
    <3> QED BY <2>1, <3>1, <3>2
  <2>3. units[2 * i + 1] = Unit(blocks[i + 1], "begin") /\ units[2 * i + 2] = Unit(blocks[i + 1], "end")
    <3>1. 2 * (i + 1) - 1 = 2 * i + 1 /\ 2 * (i + 1) = 2 * i + 2
      BY <2>1
    <3> QED BY <2>1, <3>1
  <2>4. Unit(blocks[i + 1], "begin").part = "begin" /\ Unit(blocks[i + 1], "begin").block = blocks[i + 1]
    BY DEF Unit
  <2>5. Len(Behind(units, i)) \in Nat
    BY <2>1, BehindProperties, LenProperties
  <2> QED BY <2>2, <2>3, <2>4, <2>5 DEF Boundary
<1>4. Boundary(Behind(units, n)) = "incomplete"
  <2>1. n \in Nat /\ 2 * n <= Len(units) /\ Len(units) - 2 * n < 2
    BY <1>1
  <2>2. Len(Behind(units, n)) = Len(units) - 2 * n
    <3> HIDE DEF n
    <3> QED BY <2>1, BehindProperties
  <2> QED BY <2>1, <2>2 DEF Boundary
<1> DEFINE D == Drained(units, budget)
<1>5. D \in SUBSET Nat /\ D \in SUBSET (0..n) /\ 0 \in D /\ \A k \in D : k <= n
  <2>1. 0 \in 0..n /\ Len(Blocks(units, 0)) = 0
    BY <1>1, <1>2
  <2> QED BY <1>1, <2>1 DEF Drained
<1> DEFINE m == CHOOSE h \in D : \A k \in D : k <= h
<1>6. m \in 0..n
  <2>1. \E h \in D : \A k \in D : k <= h
    <3> HIDE DEF D
    <3> QED BY <1>1, <1>5, Greatest
  <2>2. m \in D
    BY <2>1
  <2> QED BY <1>5, <2>2
<1>7. /\ Drain(units, budget).out = Blocks(units, m) /\ Drain(units, budget).left = Behind(units, m)
      /\ Drain(units, budget).ok = (Boundary(Behind(units, m)) = "incomplete")
  BY DEF Drain
<1> HIDE DEF m
<1>8. Boundary(Behind(units, m)) = "incomplete" <=> m = n
  <2>1. m \in 0..(n - 1) \/ m = n
    <3>1. n \in Nat
      BY <1>1
    <3> HIDE DEF n
    <3> QED BY <1>6, <3>1
  <2> QED BY <1>3, <1>4, <2>1
<1> QED BY <1>2, <1>6, <1>7, <1>8

(* The frame of an empty body makes nothing, whole or in two halves.       *)
LEMMA DrainEmpty ==
  ASSUME NEW budget \in Nat
  PROVE  /\ Drain(Frame(NoBlock), budget).ok /\ Drain(Frame(NoBlock), budget).out = <<>>
         /\ Drain(Frame(NoBlock), budget).left = <<>>
<1> DEFINE units == Frame(NoBlock)
<1>1. units \in Seq(UnitSet) /\ Len(units) = 2
      /\ units[1] = Unit(NoBlock, "begin") /\ units[2] = Unit(NoBlock, "end")
  BY DEF Frame, Unit, UnitSet
<1>2. \A n \in 0..1 : Blocks(units, n) = <<>>
  <2> TAKE n \in 0..1
  <2>1. \A i \in 1..n : i = 1 /\ 2 * i - 1 = 1
    OBVIOUS
  <2>2. {i \in 1..n : units[2 * i - 1].block # NoBlock} = {}
    BY <1>1, <2>1 DEF Unit
  <2> QED BY <2>2, KeptNone DEF Blocks
<1> HIDE DEF units
<1>3. Behind(units, 1) \in Seq(UnitSet) /\ Len(Behind(units, 1)) = 0
  <2>1. 2 * 1 <= Len(units) /\ Len(units) - 2 * 1 = 0
    BY <1>1
  <2> QED BY <1>1, <2>1, BehindProperties
<1>4. Behind(units, 1) = <<>> /\ Boundary(Behind(units, 1)) = "incomplete"
  BY <1>3, EmptySeq DEF Boundary
<1>5. Boundary(Behind(units, 0)) = "complete"
  <2>1. Len(Behind(units, 0)) = 2 /\ Behind(units, 0)[1] = units[1] /\ Behind(units, 0)[2] = units[2]
    <3>1. 2 * 0 <= Len(units) /\ Len(units) - 2 * 0 = 2 /\ 2 * 0 + 1 = 1 /\ 2 * 0 + 2 = 2
      BY <1>1
    <3>2. \A n \in Nat : 2 * n <= Len(units) =>
            /\ Len(Behind(units, n)) = Len(units) - 2 * n
            /\ \A i \in 1..(Len(units) - 2 * n) : Behind(units, n)[i] = units[2 * n + i]
      BY <1>1, BehindProperties
    <3>3. Len(Behind(units, 0)) = 2 /\ \A i \in 1..2 : Behind(units, 0)[i] = units[2 * 0 + i]
      BY <3>1, <3>2
    <3> QED BY <3>1, <3>3
  <2> QED BY <1>1, <2>1 DEF Boundary, Unit
<1>6. Drained(units, budget) = {0, 1}
  <2>1. Len(units) \div 2 = 1 /\ 0..1 = {0, 1} /\ 0..0 = {0} /\ 0..(0 - 1) = {} /\ Len(<<>>) = 0
    BY <1>1
  <2>2. \A n \in 0..1 : Len(Blocks(units, n)) <= budget
    BY <1>2, <2>1
  <2>3. \A n \in 0..1 : \A i \in 0..(n - 1) : Boundary(Behind(units, i)) = "complete"
    <3>1. \A n \in 0..1 : \A i \in 0..(n - 1) : i = 0
      OBVIOUS
    <3> QED BY <1>5, <3>1
  <2>4. Drained(units, budget) = 0..1
    BY <2>1, <2>2, <2>3 DEF Drained
  <2> QED BY <2>1, <2>4
<1>7. (CHOOSE m \in {0, 1} : \A k \in {0, 1} : k <= m) = 1
  OBVIOUS
<1>8. Drain(units, budget) = [ok |-> Boundary(Behind(units, 1)) = "incomplete",
                              out |-> Blocks(units, 1), left |-> Behind(units, 1)]
  BY <1>6, <1>7 DEF Drain
<1>9. Blocks(units, 1) = <<>>
  BY <1>2
<1>10. Drain(units, budget).ok /\ Drain(units, budget).out = <<>> /\ Drain(units, budget).left = <<>>
  <2>1. Drain(units, budget).ok = (Boundary(Behind(units, 1)) = "incomplete")
        /\ Drain(units, budget).out = Blocks(units, 1) /\ Drain(units, budget).left = Behind(units, 1)
    BY <1>8
  <2> QED BY <1>4, <1>9, <2>1
<1> QED BY <1>10 DEF units

-----------------------------------------------------------------------------
(* Paths.                                                                  *)
LEMMA PathLength ==
  ASSUME NEW path \in Path
  PROVE  /\ Len(path) \in Nat /\ DOMAIN path = 1..Len(path) /\ path \in Seq(STRING)
         /\ \A i \in 1..Len(path) : path[i] \in STRING
BY LenProperties, ElementOfSeq DEF Path

(* What begins a path, and what is behind that.                            *)
LEMMA CutPath ==
  ASSUME NEW path \in Path, NEW n \in 0..Len(path)
  PROVE  /\ SubSeq(path, 1, n) \in Path /\ Len(SubSeq(path, 1, n)) = n
         /\ \A i \in 1..n : SubSeq(path, 1, n)[i] = path[i]
<1>1. n \in Nat /\ \A i \in 1..n : path[i] \in STRING
  BY PathLength
<1>2. /\ SubSeq(path, 1, n) \in Seq(STRING)
      /\ Len(SubSeq(path, 1, n)) = IF 1 <= n THEN n - 1 + 1 ELSE 0
      /\ \A i \in 1..(n - 1 + 1) : SubSeq(path, 1, n)[i] = path[1 + i - 1]
  BY <1>1, PathLength, SubSeqProperties, SMTT(60)
<1> QED BY <1>1, <1>2 DEF Path

LEMMA RestOfPath ==
  ASSUME NEW path \in Path, NEW n \in Nat
  PROVE  SubSeq(path, n + 1, Len(path)) \in Path
<1>1. Len(path) \in Nat /\ n + 1 \in Nat /\ \A i \in (n + 1)..Len(path) : path[i] \in STRING
  BY PathLength
<1> DEFINE m == n + 1
<1>2. SubSeq(path, m, Len(path)) \in Seq(STRING)
  <2> HIDE DEF m
  <2>1. m \in Nat /\ \A i \in m..Len(path) : path[i] \in STRING
    BY <1>1 DEF m
  <2> QED BY <1>1, <2>1, PathLength, SubSeqProperties
<1> QED BY <1>2 DEF Path

LEMMA RestTyped ==
  ASSUME NEW path \in Path, NEW prefix \in Path
  PROVE  Rest(path, prefix) \in Path
BY RestOfPath, PathLength DEF Rest

LEMMA JoinTyped ==
  ASSUME NEW path \in Path, NEW rest \in Path
  PROVE  path \o rest \in Path
BY ConcatProperties DEF Path

LEMMA PrefixIs ==
  ASSUME NEW prefix \in Path, NEW path \in Path
  PROVE  IsPrefix(prefix, path) <=>
           Len(prefix) <= Len(path) /\ \A i \in 1..Len(prefix) : prefix[i] = path[i]
<1>1. Len(prefix) \in Nat /\ Len(path) \in Nat
  BY PathLength
<1> SUFFICES ASSUME Len(prefix) <= Len(path)
             PROVE  SubSeq(prefix, 1, Len(prefix)) = SubSeq(path, 1, Len(prefix)) <=>
                      \A i \in 1..Len(prefix) : prefix[i] = path[i]
  BY DEF IsPrefix
<1> DEFINE n == Len(prefix)
<1>2. n \in 0..Len(prefix) /\ n \in 0..Len(path)
  BY <1>1
<1>3. /\ SubSeq(prefix, 1, n) \in Seq(STRING) /\ Len(SubSeq(prefix, 1, n)) = n
      /\ \A i \in 1..n : SubSeq(prefix, 1, n)[i] = prefix[i]
  <2> HIDE DEF n
  <2> QED BY <1>2, CutPath DEF Path
<1>4. /\ SubSeq(path, 1, n) \in Seq(STRING) /\ Len(SubSeq(path, 1, n)) = n
      /\ \A i \in 1..n : SubSeq(path, 1, n)[i] = path[i]
  <2> HIDE DEF n
  <2> QED BY <1>2, CutPath DEF Path
<1>5. SubSeq(prefix, 1, n) = SubSeq(path, 1, n) <=>
        \A i \in 1..n : SubSeq(prefix, 1, n)[i] = SubSeq(path, 1, n)[i]
  <2> HIDE DEF n
  <2> QED BY <1>3, <1>4, SeqEqual
<1> HIDE DEF n
<1>6. SubSeq(prefix, 1, n) = SubSeq(path, 1, n) <=> \A i \in 1..n : prefix[i] = path[i]
  BY <1>3, <1>4, <1>5
<1> QED BY <1>6 DEF n

LEMMA PrefixOfPrefix ==
  ASSUME NEW a \in Path, NEW b \in Path, NEW c \in Path, IsPrefix(a, b), IsPrefix(b, c)
  PROVE  IsPrefix(a, c)
<1>1. Len(a) \in Nat /\ Len(b) \in Nat /\ Len(c) \in Nat
  BY PathLength
<1>2. Len(a) <= Len(b) /\ (\A i \in 1..Len(a) : a[i] = b[i])
      /\ Len(b) <= Len(c) /\ (\A i \in 1..Len(b) : b[i] = c[i])
  BY PrefixIs
<1>3. Len(a) <= Len(c) /\ \A i \in 1..Len(a) : a[i] = c[i]
  BY <1>1, <1>2
<1> QED BY <1>3, PrefixIs

LEMMA CanonicalTyped ==
  ASSUME NEW path \in Path
  PROVE  Canonical(path) \in Path
<1>1. path \in Seq(STRING) /\ DOMAIN path = 1..Len(path)
  BY PathLength
<1>2. {i \in DOMAIN path : path[i] \notin {"", "."}} \in SUBSET (1..Len(path))
  BY <1>1
<1> QED BY <1>1, <1>2, KeptProperties DEF Canonical, Path

LEMMA LongestIsOne ==
  ASSUME NEW N \in Nat, NEW D \in SUBSET (1..N), D # {}, NEW b \in Nat,
         NEW prefix, DOMAIN prefix = D,
         \A i \in D : Len(prefix[i]) \in Nat /\ Len(prefix[i]) <= b
  PROVE  /\ Longest(prefix) \in D
         /\ \A j \in D : \/ Len(prefix[j]) < Len(prefix[Longest(prefix)])
                         \/ Len(prefix[j]) = Len(prefix[Longest(prefix)]) /\ j <= Longest(prefix)
<1> DEFINE lengths == {Len(prefix[i]) : i \in D}
<1>1. PICK n \in lengths : \A m \in lengths : m <= n
  <2>1. lengths \in SUBSET Nat /\ lengths # {} /\ \A m \in lengths : m <= b
    OBVIOUS
  <2> HIDE DEF lengths
  <2> QED BY <2>1, Greatest
<1>2. \A i \in D : i \in Nat /\ i <= N /\ Len(prefix[i]) \in Nat /\ Len(prefix[i]) <= n
  BY <1>1
<1> DEFINE long == {i \in D : Len(prefix[i]) = n}
<1>3. PICK i \in long : \A j \in long : j <= i
  <2>1. long \in SUBSET Nat /\ long # {} /\ \A j \in long : j <= N
    BY <1>1, <1>2, SMTT(60)
  <2> HIDE DEF long
  <2> QED BY <2>1, Greatest
<1>4. i \in D /\ \A j \in D : Len(prefix[j]) < Len(prefix[i]) \/ (Len(prefix[j]) = Len(prefix[i]) /\ j <= i)
  BY <1>2, <1>3
<1>5. \E h \in DOMAIN prefix : \A j \in DOMAIN prefix :
        Len(prefix[j]) < Len(prefix[h]) \/ (Len(prefix[j]) = Len(prefix[h]) /\ j <= h)
  BY <1>4
<1> QED BY <1>5 DEF Longest

(* What is called by names is a path.                                      *)
LEMMA NamesArePaths ==
  ASSUME NEW path \in Seq(Name)
  PROVE  path \in Path
<1>1. Len(path) \in Nat /\ path \in [1..Len(path) -> Name]
  BY LenProperties
<1>2. path \in [1..Len(path) -> STRING]
  BY <1>1 DEF Name
<1> QED BY <1>1, <1>2, SeqDef DEF Path

(* What mounts a codec has.                                                *)
LEMMA NormalTyped ==
  ASSUME NEW path \in Path
  PROVE  Normal(path) \in Path
<1>1. path \in Seq(STRING) /\ DOMAIN path = 1..Len(path)
  BY PathLength
<1>2. {i \in DOMAIN path : path[i] \notin {"", ".", ".."}} \in SUBSET (1..Len(path))
  BY <1>1
<1> QED BY <1>1, <1>2, KeptProperties DEF Normal, Path

LEMMA MountsTyped ==
  ASSUME NEW mapping, IsCodec(mapping), mapping.kind = "mount"
  PROVE  /\ Mounts(mapping) \in Seq(Path \X Path) /\ Len(Mounts(mapping)) \in Nat
         /\ DOMAIN Mounts(mapping) = 1..Len(Mounts(mapping))
         /\ \A i \in DOMAIN Mounts(mapping) :
              /\ Mounts(mapping)[i] \in Path \X Path
              /\ \E one \in Path, other \in Path : Mounts(mapping)[i] = <<Normal(one), Normal(other)>>
<1> DEFINE entries == mapping.entries
           Tidied == {<<Normal(pair[1]), Normal(pair[2])>> : pair \in Path \X Path}
           pairs == [i \in DOMAIN entries |-> <<Normal(entries[i][1]), Normal(entries[i][2])>>]
           places == {i \in DOMAIN pairs : pairs[i] # <<<<>>, <<>>>>}
<1>1. entries \in Seq(Path \X Path)
  BY DEF IsCodec
<1>2. Len(entries) \in Nat /\ DOMAIN entries = 1..Len(entries)
      /\ \A i \in 1..Len(entries) : entries[i] \in Path \X Path
  <2> HIDE DEF entries
  <2> QED BY <1>1, LenProperties, ElementOfSeq
<1>3. pairs \in [1..Len(entries) -> Tidied]
  BY <1>2
<1>4. pairs \in Seq(Tidied) /\ DOMAIN pairs = 1..Len(pairs)
  <2> HIDE DEF pairs, entries, Tidied
  <2>1. pairs \in Seq(Tidied)
    BY <1>2, <1>3, SeqDef
  <2> QED BY <2>1, LenProperties
<1>5. Kept(pairs, places) \in Seq(Tidied)
  <2>1. places \in SUBSET (1..Len(pairs))
    BY <1>4
  <2> HIDE DEF places, pairs, Tidied
  <2> QED BY <1>4, <2>1, KeptProperties
<1>6. Mounts(mapping) \in Seq(Tidied)
  BY <1>5 DEF Mounts
<1>7. Len(Mounts(mapping)) \in Nat /\ DOMAIN Mounts(mapping) = 1..Len(Mounts(mapping))
      /\ Mounts(mapping) \in [1..Len(Mounts(mapping)) -> Tidied]
  <2> HIDE DEF Tidied
  <2> QED BY <1>6, LenProperties
<1>8. \A pair \in Tidied :
        /\ pair \in Path \X Path
        /\ \E one \in Path, other \in Path : pair = <<Normal(one), Normal(other)>>
  BY NormalTyped
<1>9. Mounts(mapping) \in [1..Len(Mounts(mapping)) -> Path \X Path]
  <2> HIDE DEF Tidied
  <2> QED BY <1>7, <1>8
<1>10. Mounts(mapping) \in Seq(Path \X Path)
  BY <1>7, <1>9, SeqDef
<1>11. \A i \in DOMAIN Mounts(mapping) : Mounts(mapping)[i] \in Tidied
  <2> HIDE DEF Tidied
  <2> QED BY <1>7
<1> HIDE DEF Tidied
<1> QED BY <1>7, <1>8, <1>10, <1>11

(* The best of the mounts a path lies in is one of them, and the longest.  *)
LEMMA BestFits ==
  ASSUME NEW mounts \in Seq(Path \X Path), NEW k \in {1, 2}, NEW path \in Path,
         Fits(mounts, k, path) # {}
  PROVE  /\ Best(mounts, k, path) \in Fits(mounts, k, path)
         /\ \A j \in Fits(mounts, k, path) :
              LET at == Best(mounts, k, path)
              IN  \/ Len(mounts[j][k]) < Len(mounts[at][k])
                  \/ Len(mounts[j][k]) = Len(mounts[at][k]) /\ j <= at
<1> DEFINE fits == Fits(mounts, k, path)
           prefix == [i \in fits |-> mounts[i][k]]
           at == Longest(prefix)
<1>1. /\ Len(mounts) \in Nat /\ DOMAIN mounts = 1..Len(mounts)
      /\ \A i \in DOMAIN mounts : mounts[i][k] \in Path
  BY LenProperties, ElementOfSeq
<1>2. Len(path) \in Nat
  BY PathLength
<1>3. /\ fits \in SUBSET (1..Len(mounts))
      /\ \A i \in fits : mounts[i][k] \in Path /\ IsPrefix(mounts[i][k], path)
  BY <1>1 DEF Fits
<1>4. Best(mounts, k, path) = at
  BY DEF Best
<1> HIDE DEF fits
<1>5. DOMAIN prefix = fits /\ \A i \in fits : prefix[i] = mounts[i][k]
  OBVIOUS
<1>6. \A i \in fits : Len(prefix[i]) \in Nat /\ Len(prefix[i]) <= Len(path)
  BY <1>2, <1>3, <1>5, PathLength, PrefixIs
<1>7. fits # {}
  BY DEF fits
<1> HIDE DEF prefix
<1>8. /\ Longest(prefix) \in fits
      /\ \A j \in fits : \/ Len(prefix[j]) < Len(prefix[Longest(prefix)])
                         \/ Len(prefix[j]) = Len(prefix[Longest(prefix)]) /\ j <= Longest(prefix)
  BY <1>1, <1>2, <1>3, <1>5, <1>6, <1>7, LongestIsOne
<1>9. /\ at \in fits
      /\ \A j \in fits : \/ Len(mounts[j][k]) < Len(mounts[at][k])
                         \/ Len(mounts[j][k]) = Len(mounts[at][k]) /\ j <= at
  BY <1>5, <1>8
<1> HIDE DEF at
<1> QED BY <1>4, <1>9 DEF fits

LEMMA MountedTyped ==
  ASSUME NEW mapping, IsCodec(mapping), mapping.kind = "mount", NEW path \in Path
  PROVE  Unmounted(mapping, path) \subseteq Path /\ MountedAs(mapping, path) \subseteq Path
<1> DEFINE mounts == Mounts(mapping)
<1>1. /\ mounts \in Seq(Path \X Path)
      /\ \A i \in DOMAIN mounts : mounts[i][1] \in Path /\ mounts[i][2] \in Path
  BY MountsTyped
<1>2. ASSUME NEW k \in {1, 2}, Fits(mounts, k, path) # {}
      PROVE  LET best == mounts[Best(mounts, k, path)]
             IN  best[3 - k] \o Rest(path, best[k]) \in Path
  <2> DEFINE best == mounts[Best(mounts, k, path)]
  <2>1. Best(mounts, k, path) \in DOMAIN mounts
    <3> HIDE DEF mounts
    <3> QED BY <1>1, <1>2, BestFits DEF Fits
  <2>2. best[k] \in Path /\ best[3 - k] \in Path
    <3> HIDE DEF mounts
    <3>1. best[1] \in Path /\ best[2] \in Path
      BY <1>1, <2>1
    <3> HIDE DEF best
    <3> QED BY <3>1
  <2> HIDE DEF best, mounts
  <2>3. Rest(path, best[k]) \in Path
    BY <2>2, RestTyped
  <2> QED BY <2>2, <2>3, JoinTyped DEF best
<1>3. Fits(mounts, 1, path) # {} =>
        mounts[Best(mounts, 1, path)][2] \o Rest(path, mounts[Best(mounts, 1, path)][1]) \in Path
  <2> HIDE DEF mounts
  <2>1. 1 \in {1, 2} /\ 3 - 1 = 2
    OBVIOUS
  <2> QED BY <1>2, <2>1
<1>4. Fits(mounts, 2, path) # {} =>
        mounts[Best(mounts, 2, path)][1] \o Rest(path, mounts[Best(mounts, 2, path)][2]) \in Path
  <2> HIDE DEF mounts
  <2>1. 2 \in {1, 2} /\ 3 - 2 = 1
    OBVIOUS
  <2> QED BY <1>2, <2>1
<1> QED BY <1>3, <1>4 DEF Unmounted, MountedAs

LEMMA CodecTyped ==
  ASSUME NEW mapping, IsCodec(mapping), NEW path \in Path
  PROVE  Decoded(mapping, path) \subseteq Path /\ Encoded(mapping, path) \subseteq Path
<1>1. CASE mapping.kind = "identity"
  BY <1>1 DEF Decoded, Encoded
<1>2. CASE mapping.kind = "mount"
  BY <1>2, MountedTyped DEF Decoded, Encoded
<1>3. CASE mapping.kind = "sealed"
  <2>1. DOMAIN mapping.names \subseteq STRING /\ \A name \in DOMAIN mapping.names : mapping.names[name] \in Path
    BY <1>3 DEF IsCodec, Name
  <2>2. \A name \in DOMAIN mapping.names : <<name>> \in Path
    BY <2>1 DEF Path
  <2>3. Unsealed(mapping, path) \subseteq Path
    BY <2>1 DEF Unsealed
  <2>4. SealedAs(mapping, path) \subseteq Path
    BY <2>2 DEF SealedAs
  <2> QED BY <1>3, <2>3, <2>4 DEF Decoded, Encoded
<1> QED BY <1>1, <1>2, <1>3 DEF IsCodec

LEMMA CompoundTyped ==
  ASSUME NEW mapping, IsCodec(mapping), NEW shadow \in Path
  PROVE  Compound(mapping, shadow) \subseteq Path
<1> DEFINE cuts == {n \in 1..(Len(shadow) - 1) : Decoded(mapping, SubSeq(shadow, 1, n)) # {}}
           cut == CHOOSE n \in cuts : \A m \in cuts : m <= n
<1>1. Compound(mapping, shadow) =
        IF cuts = {} THEN {}
        ELSE {place \o SubSeq(shadow, cut + 1, Len(shadow)) :
                place \in Decoded(mapping, SubSeq(shadow, 1, cut))}
  BY DEF Compound
<1>2. Len(shadow) \in Nat /\ \A n \in cuts : n \in Nat /\ n <= Len(shadow)
  BY PathLength
<1>3. cuts # {} => cut \in cuts
  <2>1. cuts # {} => \E n \in cuts : \A m \in cuts : m <= n
    <3>1. cuts \in SUBSET Nat
      BY <1>2
    <3> HIDE DEF cuts
    <3> QED BY <1>2, <3>1, Greatest
  <2> HIDE DEF cuts
  <2> QED BY <2>1
<1> HIDE DEF cuts, cut
<1>4. ASSUME cuts # {}
      PROVE  \A place \in Decoded(mapping, SubSeq(shadow, 1, cut)) :
               place \o SubSeq(shadow, cut + 1, Len(shadow)) \in Path
  <2>1. cut \in Nat /\ cut \in 0..Len(shadow)
    BY <1>2, <1>3, <1>4
  <2>2. SubSeq(shadow, 1, cut) \in Path /\ SubSeq(shadow, cut + 1, Len(shadow)) \in Path
    BY <2>1, CutPath, RestOfPath
  <2>3. Decoded(mapping, SubSeq(shadow, 1, cut)) \subseteq Path
    BY <2>2, CodecTyped
  <2> QED BY <2>2, <2>3, JoinTyped
<1> QED BY <1>1, <1>4

LEMMA RealPathTyped ==
  ASSUME NEW mapping, IsCodec(mapping), NEW asks \in Path
  PROVE  RealPath(mapping, asks) \subseteq Path
<1> DEFINE shadow == Canonical(asks)
           whole == Decoded(mapping, shadow)
           reals == IF shadow = <<>> THEN {<<>>}
                    ELSE IF whole # {} THEN whole ELSE Compound(mapping, shadow)
<1>1. shadow \in Path /\ <<>> \in Path
  BY CanonicalTyped DEF Path
<1>2. reals \subseteq Path
  <2> HIDE DEF shadow
  <2>1. whole \subseteq Path /\ Compound(mapping, shadow) \subseteq Path
    BY <1>1, CodecTyped, CompoundTyped
  <2> QED BY <1>1, <2>1
<1>3. RealPath(mapping, asks) \subseteq {Canonical(place) : place \in reals}
  BY DEF RealPath
<1> HIDE DEF reals
<1> QED BY <1>2, <1>3, CanonicalTyped
-----------------------------------------------------------------------------
(* The invariant.                                                          *)
Ready == {"open", "body", "sent all"}
Streaming == {"body", "sent all"}

TypeInv ==
  /\ codec \in Codecs /\ token \in Tokens
  /\ DOMAIN files \subseteq Path /\ files \in [DOMAIN files -> [version : Nat, size : 0..UMax]]
  /\ phase \in {"idle", "sent", "known", "named"} \cup Kinds \cup Ready
  /\ kind \in Kinds /\ raw \in Path /\ real \in Path
  /\ plan \in [status : {0, 200, 206}, start : Nat, end : Nat, version : Nat, size : Nat]
  /\ reader \in [version : Nat, pos : Nat, end : Nat]
  /\ headers.zrip \in BOOLEAN /\ headers.strict \in BOOLEAN
  /\ frame \in BlockSet \cup {NoBlock} /\ wire \in Seq(UnitSet) /\ pending \in Seq(UnitSet)
  /\ out \in Seq(BlockSet)
  /\ status \in Nat /\ listed \subseteq [real : Path, shadow : Path]

(* What the phase of a request tells.                                      *)
PhaseInv ==
  /\ phase \in Kinds => kind = phase
  /\ phase \in Ready => kind = "get"
  /\ phase # "idle" => status = 0
  /\ phase \notin Streaming \cup {"idle"} =>
       out = <<>> /\ pending = <<>> /\ wire = <<>> /\ frame = NoBlock

(* Everybody who got as far as a handler, or anything from one, was        *)
(* authorised for the real path.                                           *)
GrantInv ==
  /\ phase \in Kinds \cup Ready => Granted(token, real, Need)
  /\ out # <<>> => Granted(token, real, "read")
  /\ \A entry \in listed : Granted(token, entry.real, "read")

(* What was planned, and the file as long as it is not open.               *)
PlanInv ==
  phase \in Ready =>
    /\ plan.status # 0 /\ plan.start <= plan.end /\ plan.end <= plan.size
    /\ Wanted = (plan.start + 1)..plan.end
    /\ headers.strict /\ plan.status = 206 =>
         plan.start = headers.range.first /\ plan.end <= headers.range.last + 1
    /\ headers.strict => headers.range.first \in Nat /\ headers.range.last \in Nat
UnopenedInv ==
  phase = "open" /\ IsFile(real) =>
    /\ plan.version <= files[real].version
    /\ plan.version = files[real].version => plan.size = files[real].size

(* The blocks of the answer are numbered from the first of the range.      *)
Block(i) == <<real, reader.version, plan.start + i>>
Sent == reader.pos - plan.start
ReaderInv ==
  phase \in Streaming =>
    /\ plan.start <= reader.pos /\ (Sent = 0 \/ reader.pos <= reader.end)
    /\ reader.end <= plan.end /\ (reader.version = plan.version => reader.end = plan.end)
    /\ phase = "sent all" => reader.end <= reader.pos
OutInv == \A i \in 1..Len(out) : out[i] = Block(i)

(* What is on its way: the blocks after those that came out, in order.  In *)
(* zrip every one makes a frame, but for the last one, which is still      *)
(* open, and no block at all makes an empty one in the end.                *)
Stream == pending \o wire
Framed(units, first, n) ==
  /\ Len(units) = 2 * n
  /\ \A i \in 1..n : /\ units[2 * i - 1] = Unit(Block(first + i), "begin")
                     /\ units[2 * i] = Unit(Block(first + i), "end")
Closed == IF phase = "sent all" \/ Sent = 0 THEN Sent ELSE Sent - 1
PlainInv ==
  phase \in Streaming /\ Format = "identity" =>
    /\ frame = NoBlock /\ pending = <<>> /\ Len(out) + Len(wire) = Sent
    /\ \A i \in 1..Len(wire) : wire[i] = Unit(Block(Len(out) + i), "whole")
FramesInv ==
  phase \in Streaming /\ Format = "zrip" =>
    /\ phase = "body" => frame = IF Sent = 0 THEN NoBlock ELSE Block(Sent)
    /\ IF phase = "sent all" /\ Sent = 0
       THEN out = <<>> /\ Stream \in {<<>>, Frame(NoBlock)}
       ELSE Len(out) <= Closed /\ Framed(Stream, Len(out), Closed - Len(out))

RequestInv ==
  /\ TypeInv /\ PhaseInv /\ GrantInv /\ PlanInv /\ UnopenedInv /\ ReaderInv /\ OutInv
  /\ PlainInv /\ FramesInv /\ AnswerIsTheRange

-----------------------------------------------------------------------------
(* A file, with its version and its size.                                  *)
LEMMA FileIs ==
  ASSUME TypeInv, NEW path \in DOMAIN files
  PROVE  files[path].version \in Nat /\ files[path].size \in 0..UMax /\ files[path].size \in Nat
<1>1. files[path] \in [version : Nat, size : 0..UMax]
  BY DEF TypeInv
<1> QED BY <1>1, RequestsAssumption

(* plan_download: what the plan takes from the file are the blocks the     *)
(* Range header names.                                                     *)
LEMMA PlanNames ==
  ASSUME NEW range \in Ranges, NEW size \in 0..UMax, Parsed(range).form # "malformed",
         NEW r \in Clamped(Parsed(range), size)
  PROVE  /\ r[1] \in Nat /\ r[2] \in Nat /\ r[1] <= r[2] /\ r[2] <= size
         /\ Named(range, size) = (r[1] + 1)..r[2]
         /\ range.form = "bytes" /\ range.last # OpenEnded =>
              r[1] = range.first /\ r[2] <= range.last + 1
<1>0. size \in Nat /\ UMax \in Nat /\ size <= UMax
  BY RequestsAssumption
<1>1. CASE range.form = "none"
  <2>1. Parsed(range) = range
    BY <1>1 DEF Parsed
  <2>2. Clamped(range, size) = {<<0, size>>}
    BY <1>1 DEF Clamped
  <2>3. Named(range, size) = 1..size
    BY <1>1 DEF Named
  <2> QED BY <1>0, <1>1, <2>1, <2>2, <2>3
<1>2. CASE range.form = "suffix"
  <2>1. Parsed(range) = range /\ range.count \in 0..UMax
    BY <1>2, RangesAssumption DEF Parsed
  <2>2. range.count # 0 /\ size # 0
    BY <1>2, <2>1 DEF Clamped
  <2>3. r = <<IF range.count >= size THEN 0 ELSE size - range.count, size>>
    BY <1>2, <2>1, <2>2 DEF Clamped
  <2>4. Named(range, size) = {i \in 1..size : i > size - range.count}
    BY <1>2 DEF Named
  <2>5. r[1] = (IF range.count >= size THEN 0 ELSE size - range.count) /\ r[2] = size
    BY <2>3
  <2> QED BY <1>0, <1>2, <2>1, <2>2, <2>4, <2>5
<1>3. CASE range.form = "bytes"
  <2> DEFINE end == IF range.last = OpenEnded THEN UMax ELSE range.last + 1
  <2>1. range.first \in 0..UMax /\ range.last \in 0..UMax \cup {OpenEnded}
    BY <1>3, RangesAssumption
  <2>2. ~(range.last = UMax \/ end <= range.first)
        /\ Parsed(range) = [form |-> "bytes", first |-> range.first, end |-> end]
    <3>1. Parsed(range) = IF range.last = UMax \/ end <= range.first THEN [form |-> "malformed"]
                          ELSE [form |-> "bytes", first |-> range.first, end |-> end]
      BY <1>3 DEF Parsed
    <3> QED BY <3>1
  <2>3. end \in Nat /\ range.first < end
    BY <1>0, <2>1, <2>2 DEF OpenEnded
  <2> HIDE DEF end
  <2>4. /\ Parsed(range).form = "bytes" /\ Parsed(range).first = range.first
        /\ Parsed(range).end = end
    BY <2>2
  <2>5. Clamped(Parsed(range), size) =
          IF range.first >= size THEN {} ELSE {<<range.first, Lesser(end, size)>>}
    BY <2>4 DEF Clamped
  <2>6. range.first < size /\ r[1] = range.first /\ r[2] = Lesser(end, size)
    BY <1>0, <2>1, <2>5
  <2>7. Lesser(end, size) = IF end <= size THEN end ELSE size
    BY DEF Lesser
  <2>8. Named(range, size) =
          {i \in 1..size : i > range.first /\ (range.last = OpenEnded \/ i <= range.last + 1)}
    BY <1>3 DEF Named
  <2>9. r[1] \in Nat /\ r[2] \in Nat /\ r[1] <= r[2] /\ r[2] <= size
    BY <1>0, <2>1, <2>3, <2>6, <2>7
  <2>10. CASE range.last = OpenEnded
    <3>1. r[2] = size
      BY <1>0, <2>3, <2>6, <2>7, <2>10 DEF end
    <3> QED BY <1>0, <2>1, <2>6, <2>8, <2>9, <2>10, <3>1
  <2>11. CASE range.last # OpenEnded
    <3>1. end = range.last + 1 /\ range.last \in Nat
      BY <2>1, <2>11 DEF end
    <3>2. \A i \in 1..size : i > range.first /\ i <= range.last + 1 <=> i \in (r[1] + 1)..r[2]
      BY <1>0, <2>1, <2>6, <2>7, <3>1
    <3>3. (r[1] + 1)..r[2] \subseteq 1..size
      BY <1>0, <2>9
    <3>4. Named(range, size) = {i \in 1..size : i > range.first /\ i <= range.last + 1}
      BY <2>8, <2>11
    <3>5. r[2] <= range.last + 1
      BY <1>0, <2>6, <2>7, <3>1
    <3>6. Named(range, size) = (r[1] + 1)..r[2]
      BY <3>2, <3>3, <3>4
    <3> QED BY <2>6, <2>9, <3>5, <3>6
  <2> QED BY <2>10, <2>11
<1> QED
  <2>1. range.form # "malformed"
    BY DEF Parsed
  <2> QED BY <1>1, <1>2, <1>3, <2>1, RangesAssumption

-----------------------------------------------------------------------------
(* The steps before a body.                                                *)
LEMMA StrictPrefixIs ==
  ASSUME NEW prefix \in Path, NEW path \in Path, IsStrictPrefix(prefix, path)
  PROVE  IsPrefix(prefix, path) /\ Len(prefix) < Len(path)
<1>1. /\ Len(prefix) \in Nat /\ DOMAIN prefix = 1..Len(prefix) /\ prefix = [i \in DOMAIN prefix |-> prefix[i]]
      /\ Len(path) \in Nat /\ DOMAIN path = 1..Len(path) /\ path = [i \in DOMAIN path |-> path[i]]
  BY LenProperties DEF Path
<1>2. IsPrefix(prefix, path) /\ prefix # path
  BY DEF IsStrictPrefix
<1>3. Len(prefix) <= Len(path) /\ \A i \in 1..Len(prefix) : prefix[i] = path[i]
  BY <1>2, PrefixIs, SMTT(60)
<1>4. Len(prefix) # Len(path)
  BY <1>1, <1>2, <1>3
<1>5. Len(prefix) \in Nat /\ Len(path) \in Nat
  BY <1>1
<1>6. Len(prefix) < Len(path)
  BY <1>3, <1>4, <1>5
<1> QED BY <1>2, <1>6

(* Outside of a download that is planned, there is little to know.         *)
LEMMA Outside ==
  ASSUME TypeInv', PhaseInv', GrantInv', OutInv', phase' \notin Ready,
         kind' = "get" => status' \notin {200, 206}
  PROVE  RequestInv'
BY ZenonT(60) DEF RequestInv, PlanInv, UnopenedInv, ReaderInv, PlainInv, FramesInv, AnswerIsTheRange,
       Ready, Streaming

(* The same, when a request ends and only the answer is new.               *)
LEMMA Ends ==
  ASSUME RequestInv, phase' = "idle", status' \in Nat,
         kind = "get" => status' \notin {200, 206},
         UNCHANGED <<setting, files, request, real, answer, server, wire, client, listed, asked>>
  PROVE  RequestInv'
<1>1. /\ codec' = codec /\ token' = token /\ files' = files /\ kind' = kind /\ raw' = raw
      /\ real' = real /\ headers' = headers /\ plan' = plan /\ reader' = reader /\ frame' = frame
      /\ wire' = wire /\ pending' = pending /\ out' = out /\ listed' = listed
  BY DEF setting, request, answer, server, client
<1>2. TypeInv'
  BY <1>1, SMTT(60) DEF RequestInv, TypeInv
<1>3. PhaseInv'
  BY DEF PhaseInv, Kinds, Ready
<1>4. GrantInv'
  BY <1>1, ZenonT(60) DEF RequestInv, GrantInv, Kinds, Ready
<1>5. OutInv'
  BY <1>1 DEF RequestInv, OutInv, Block
<1>6. phase' \notin Ready /\ (kind' = "get" => status' \notin {200, 206})
  BY <1>1 DEF Ready
<1> QED BY <1>2, <1>3, <1>4, <1>5, <1>6, Outside

(* And when it goes on to the next check.                                  *)
LEMMA GoesOn ==
  ASSUME RequestInv, phase \in {"sent", "known"}, phase' \in {"known", "named"}, UNCHANGED status,
         UNCHANGED <<setting, files, request, real, answer, server, wire, client, listed, asked>>
  PROVE  RequestInv'
<1>1. /\ codec' = codec /\ token' = token /\ files' = files /\ kind' = kind /\ raw' = raw
      /\ real' = real /\ headers' = headers /\ plan' = plan /\ reader' = reader /\ frame' = frame
      /\ wire' = wire /\ pending' = pending /\ out' = out /\ listed' = listed
  BY DEF setting, request, answer, server, client
<1>2. TypeInv'
  BY <1>1, SMTT(60) DEF RequestInv, TypeInv
<1>3. status = 0 /\ out = <<>> /\ pending = <<>> /\ wire = <<>> /\ frame = NoBlock
  BY DEF RequestInv, PhaseInv, Streaming
<1>4. PhaseInv'
  BY <1>1, <1>3 DEF PhaseInv, Kinds, Ready, Streaming
<1>5. GrantInv'
  BY <1>1 DEF RequestInv, GrantInv, Kinds, Ready
<1>6. OutInv'
  BY <1>1 DEF RequestInv, OutInv, Block
<1>7. phase' \notin Ready /\ status' = 0
  BY <1>3 DEF Ready
<1> QED BY <1>2, <1>4, <1>5, <1>6, <1>7, Outside

LEMMA AskStep ==
  ASSUME RequestInv, Ask
  PROVE  RequestInv'
<1>1. /\ codec' = codec /\ token' = token /\ files' = files /\ listed' = listed
      /\ kind' \in Kinds /\ raw' \in RawPaths \cup {entry.shadow : entry \in listed}
      /\ phase' = "sent" /\ status' = 0 /\ real' = <<>>
      /\ headers' = NoHeaders /\ plan' = NoPlan /\ reader' = NoReader
      /\ frame' = NoBlock /\ wire' = <<>> /\ pending' = <<>> /\ out' = <<>>
  BY DEF Ask, setting
<1>2. TypeInv'
  <2>1. raw' \in Path
    BY <1>1, PathsAssumption, SMTT(60) DEF RequestInv, TypeInv
  <2>2. <<>> \in Path /\ <<>> \in Seq(UnitSet) /\ <<>> \in Seq(BlockSet)
    BY EmptySeq DEF Path
  <2>3. NoPlan \in [status : {0, 200, 206}, start : Nat, end : Nat, version : Nat, size : Nat]
        /\ NoReader \in [version : Nat, pos : Nat, end : Nat]
        /\ NoHeaders.zrip \in BOOLEAN /\ NoHeaders.strict \in BOOLEAN
    BY DEF NoPlan, NoReader, NoHeaders
  <2>4. phase' \in {"idle", "sent", "known", "named"} \cup Kinds \cup Ready
    BY <1>1
  <2> QED BY <1>1, <2>1, <2>2, <2>3, <2>4, ZenonT(60) DEF RequestInv, TypeInv
<1>3. PhaseInv'
  BY <1>1 DEF PhaseInv, Kinds, Ready, Streaming
<1>4. GrantInv'
  BY <1>1 DEF RequestInv, GrantInv, Kinds, Ready
<1>5. OutInv'
  BY <1>1, EmptySeq DEF OutInv
<1>6. phase' \notin Ready /\ status' = 0
  BY <1>1 DEF Ready
<1> QED BY <1>2, <1>3, <1>4, <1>5, <1>6, Outside

LEMMA CheckStep ==
  ASSUME RequestInv, ValidateProtocol \/ Authenticate
  PROVE  RequestInv'
<1>1. UNCHANGED <<setting, files, request, real, answer, server, wire, client, listed, asked>>
  BY DEF ValidateProtocol, Authenticate
<1>2. CASE \E code \in {401, 426} : Answer(code)
  BY <1>1, <1>2, Ends DEF Answer
<1>3. CASE phase' \in {"known", "named"} /\ UNCHANGED status /\ phase \in {"sent", "known"}
  BY <1>1, <1>3, GoesOn
<1> QED BY <1>2, <1>3 DEF ValidateProtocol, Authenticate

(* Resolve hands nothing to a handler that is not a path, and granted.     *)
LEMMA ResolveStep ==
  ASSUME RequestInv, Resolve
  PROVE  RequestInv'
<1>1. UNCHANGED <<setting, files, request, answer, server, wire, client, listed, asked>>
      /\ phase = "named"
  BY DEF Resolve
<1>2. CASE UNCHANGED real /\ \E code \in {400, 401, 403} : Answer(code)
  BY <1>1, <1>2, Ends DEF Answer
<1>3. CASE \E path \in RealPath(codec, raw) :
             Granted(token, path, Need) /\ phase' = kind /\ real' = path /\ UNCHANGED status
  <2>1. PICK path \in RealPath(codec, raw) :
          Granted(token, path, Need) /\ phase' = kind /\ real' = path /\ UNCHANGED status
    BY <1>3
  <2>2. /\ codec' = codec /\ token' = token /\ files' = files /\ kind' = kind /\ raw' = raw
        /\ headers' = headers /\ plan' = plan /\ reader' = reader /\ frame' = frame
        /\ wire' = wire /\ pending' = pending /\ out' = out /\ listed' = listed
    BY <1>1 DEF setting, request, answer, server, client
  <2>3. kind \in Kinds /\ raw \in Path /\ IsCodec(codec)
    BY PathsAssumption DEF RequestInv, TypeInv
  <2>4. path \in Path
    BY <2>3, RealPathTyped
  <2>5. status = 0 /\ out = <<>> /\ pending = <<>> /\ wire = <<>> /\ frame = NoBlock
    BY <1>1 DEF RequestInv, PhaseInv, Streaming
  <2>6. phase' \in Kinds /\ phase' \notin Ready /\ phase' # "idle" /\ phase' \notin Streaming
    BY <2>1, <2>3 DEF Kinds, Ready, Streaming
  <2>7. TypeInv'
    BY <2>1, <2>2, <2>4, <2>6, SMTT(60) DEF RequestInv, TypeInv
  <2>8. PhaseInv'
    BY <2>1, <2>2, <2>5, <2>6 DEF PhaseInv
  <2>9. GrantInv'
    <3>1. Granted(token, real, Need)'
      BY <2>1, <2>2 DEF Granted, Need, Matches
    <3>2. \A entry \in listed' : Granted(token, entry.real, "read")'
      BY <2>2 DEF RequestInv, GrantInv
    <3> QED BY <2>2, <2>5, <3>1, <3>2 DEF GrantInv
  <2>10. OutInv'
    BY <2>2, <2>5, EmptySeq DEF OutInv
  <2>11. status' = 0
    BY <2>1, <2>5
  <2> QED BY <2>6, <2>7, <2>8, <2>9, <2>10, <2>11, Outside
<1> QED BY <1>2, <1>3 DEF Resolve

(* What is listed lies below a path that is granted.                       *)
LEMMA ListStep ==
  ASSUME RequestInv, List
  PROVE  RequestInv'
<1>1. UNCHANGED <<setting, files, request, real, answer, server, wire, client, asked>>
      /\ phase = "list" /\ phase' = "idle" /\ status' \in Nat
  BY DEF List, Answer
<1>2. CASE UNCHANGED listed
  <2>1. kind = "list"
    BY <1>1 DEF RequestInv, PhaseInv, Kinds
  <2> QED BY <1>1, <1>2, <2>1, Ends
<1>3. CASE \E shadow \in [Children(real) -> UNION {Encoded(codec, c) : c \in Children(real)}] :
             /\ \A c \in Children(real) : shadow[c] \in Encoded(codec, c)
             /\ listed' = {[real |-> c, shadow |-> shadow[c]] : c \in Children(real)}
  <2>1. PICK shadow \in [Children(real) -> UNION {Encoded(codec, c) : c \in Children(real)}] :
          /\ \A c \in Children(real) : shadow[c] \in Encoded(codec, c)
          /\ listed' = {[real |-> c, shadow |-> shadow[c]] : c \in Children(real)}
    BY <1>3
  <2>2. /\ codec' = codec /\ token' = token /\ files' = files /\ kind' = kind /\ raw' = raw
        /\ real' = real /\ headers' = headers /\ plan' = plan /\ reader' = reader
        /\ frame' = frame /\ wire' = wire /\ pending' = pending /\ out' = out
    BY <1>1 DEF setting, request, answer, server, client
  <2>3. kind = "list" /\ real \in Path /\ IsCodec(codec) /\ DOMAIN files \subseteq Path
        /\ token.paths \subseteq Path /\ Granted(token, real, "read")
    BY <1>1, PathsAssumption, TokensAssumption, SMTT(60)
    DEF RequestInv, PhaseInv, TypeInv, GrantInv, Kinds, Need
  <2>4. PICK prefix \in token.paths : IsPrefix(prefix, real) /\ "read" \in token.permissions
    BY <2>3 DEF Granted, Matches
  <2>5. ASSUME NEW c \in Children(real)
        PROVE  c \in Path /\ Granted(token, c, "read")
    <3>1. PICK f \in DOMAIN files : IsStrictPrefix(real, f) /\ c = SubSeq(f, 1, Len(real) + 1)
      BY DEF Children
    <3>2. f \in Path /\ Len(f) \in Nat /\ Len(real) \in Nat /\ IsPrefix(real, f)
          /\ Len(real) < Len(f)
      BY <2>3, <3>1, PathLength, StrictPrefixIs
    <3>3. /\ c \in Path /\ Len(c) = Len(real) + 1
          /\ \A i \in 1..(Len(real) + 1) : c[i] = f[i]
      BY <3>1, <3>2, CutPath
    <3>4. IsPrefix(real, c)
      BY <2>3, <3>2, <3>3, PrefixIs
    <3>5. IsPrefix(prefix, c)
      BY <2>3, <2>4, <3>3, <3>4, PrefixOfPrefix
    <3> QED BY <2>4, <3>3, <3>5 DEF Granted, Matches
  <2>6. listed' \subseteq [real : Path, shadow : Path]
    <3>1. \A c \in Children(real) : shadow[c] \in Path
      BY <2>1, <2>3, <2>5, CodecTyped
    <3> QED BY <2>1, <2>5, <3>1
  <2>7. TypeInv'
    BY <1>1, <2>2, <2>6, SMTT(60) DEF RequestInv, TypeInv
  <2>8. PhaseInv'
    BY <1>1 DEF PhaseInv, Kinds, Ready
  <2>9. GrantInv'
    <3>1. \A entry \in listed' : Granted(token, entry.real, "read")
      BY <2>1, <2>5
    <3> QED BY <1>1, <2>2, <3>1 DEF RequestInv, GrantInv, Kinds, Ready
  <2>10. OutInv'
    BY <2>2 DEF RequestInv, OutInv, Block
  <2>11. phase' \notin Ready /\ kind' # "get"
    BY <1>1, <2>2, <2>3 DEF Ready
  <2> QED BY <2>7, <2>8, <2>9, <2>10, <2>11, Outside
<1> QED BY <1>2, <1>3 DEF List

(* A file that is replaced gets a new version.                             *)
LEMMA ReplacedTyped ==
  ASSUME TypeInv, NEW path \in Path, Replaced(path)
  PROVE  /\ DOMAIN files' \subseteq Path
         /\ files' \in [DOMAIN files' -> [version : Nat, size : 0..UMax]]
         /\ path \in DOMAIN files => files'[path].version > files[path].version
<1> DEFINE new(size) == [version |-> IF IsFile(path) THEN files[path].version + 1 ELSE 1, size |-> size]
<1>1. PICK size \in 0..MaxSize :
        files' = [f \in DOMAIN files \cup {path} |-> IF f = path THEN new(size) ELSE files[f]]
  BY DEF Replaced
<1>2. files' = [f \in DOMAIN files \cup {path} |-> IF f = path THEN new(size) ELSE files[f]]
  BY <1>1
<1>3. /\ DOMAIN files \subseteq Path
      /\ \A f \in DOMAIN files : files[f] \in [version : Nat, size : 0..UMax]
  BY SMTT(60) DEF TypeInv
<1>4. size \in 0..UMax
  BY RequestsAssumption
<1>5. new(size) \in [version : Nat, size : 0..UMax]
  BY <1>3, <1>4 DEF IsFile
<1>6. files'[path] = new(size)
  BY <1>2
<1>7. path \in DOMAIN files => new(size).version > files[path].version
  BY <1>3 DEF IsFile
<1> HIDE DEF new
<1> QED BY <1>2, <1>3, <1>5, <1>6, <1>7

LEMMA UploadStep ==
  ASSUME RequestInv, Upload
  PROVE  RequestInv'
<1>1. UNCHANGED <<setting, request, real, answer, server, wire, client, listed, asked>>
      /\ phase = "put" /\ phase' = "idle" /\ status' \in Nat
  BY DEF Upload, Answer
<1>2. /\ codec' = codec /\ token' = token /\ kind' = kind /\ raw' = raw /\ listed' = listed
      /\ real' = real /\ headers' = headers /\ plan' = plan /\ reader' = reader
      /\ frame' = frame /\ wire' = wire /\ pending' = pending /\ out' = out
  BY <1>1 DEF setting, request, answer, server, client
<1>3. kind = "put" /\ real \in Path
  BY <1>1 DEF RequestInv, PhaseInv, TypeInv, Kinds
<1>4. /\ DOMAIN files' \subseteq Path
      /\ files' \in [DOMAIN files' -> [version : Nat, size : 0..UMax]]
  <2>1. CASE UNCHANGED files
    BY <2>1, SMTT(60) DEF RequestInv, TypeInv
  <2>2. CASE Replaced(real)
    BY <1>3, <2>2, ReplacedTyped DEF RequestInv
  <2> QED BY <2>1, <2>2 DEF Upload
<1>5. TypeInv'
  BY <1>1, <1>2, <1>4, SMTT(60) DEF RequestInv, TypeInv
<1>6. PhaseInv'
  BY <1>1 DEF PhaseInv, Kinds, Ready
<1>7. GrantInv'
  BY <1>1, <1>2 DEF RequestInv, GrantInv, Kinds, Ready
<1>8. OutInv'
  BY <1>2 DEF RequestInv, OutInv, Block
<1>9. phase' \notin Ready /\ kind' # "get"
  BY <1>1, <1>2, <1>3 DEF Ready
<1> QED BY <1>5, <1>6, <1>7, <1>8, <1>9, Outside

-----------------------------------------------------------------------------
(* A download is planned, and its file opened, while others replace it.    *)
LEMMA PlanStep ==
  ASSUME RequestInv, PlanDownload
  PROVE  RequestInv'
<1>1. UNCHANGED <<setting, files, request, real, server, wire, client, listed, asked>>
      /\ phase \in {"head", "get"}
  BY DEF PlanDownload
<1>2. /\ codec' = codec /\ token' = token /\ files' = files /\ kind' = kind /\ raw' = raw
      /\ real' = real /\ reader' = reader /\ frame' = frame /\ wire' = wire
      /\ pending' = pending /\ out' = out /\ listed' = listed
  BY <1>1 DEF setting, request, server, client
<1>3. kind = phase /\ status = 0 /\ out = <<>> /\ pending = <<>> /\ wire = <<>> /\ frame = NoBlock
  BY <1>1 DEF RequestInv, PhaseInv, Kinds, Streaming
<1>4. CASE UNCHANGED answer /\ \E code \in {304, 400, 404, 416, 500} : Answer(code)
  BY <1>1, <1>4, Ends DEF Answer
<1>5. CASE IsFile(real) /\ \E h \in Headers : Plan(h)
  <2>1. PICK h \in Headers : Plan(h)
    BY <1>5
  <2> DEFINE file == files[real]
             parsed == Parsed(h.range)
             range == IF Honoured(h, file.version) THEN parsed ELSE [form |-> "none"]
             code == IF range.form = "none" THEN 200 ELSE 206
  <2>2. file.version \in Nat /\ file.size \in 0..UMax /\ file.size \in Nat
    BY <1>5, FileIs DEF IsFile, RequestInv
  <2> DEFINE Planned ==
               /\ parsed.form # "malformed"
               /\ \E r \in Clamped(range, file.size) :
                    /\ plan' = [status |-> code, start |-> r[1], end |-> r[2],
                                version |-> file.version, size |-> file.size]
                    /\ headers' = h
                    /\ IF kind = "head" THEN Answer(code) ELSE phase' = "open" /\ UNCHANGED status
  <2>3. Planned \/ (UNCHANGED answer /\ (Answer(400) \/ Answer(416)))
    <3>1. CASE parsed.form = "malformed"
      BY <2>1, <3>1 DEF Plan
    <3>2. CASE parsed.form # "malformed" /\ Clamped(range, file.size) = {}
      BY <2>1, <3>2 DEF Plan
    <3>3. CASE parsed.form # "malformed" /\ Clamped(range, file.size) # {}
      BY <2>1, <3>3 DEF Plan
    <3> QED BY <3>1, <3>2, <3>3
  <2> SUFFICES ASSUME Planned
               PROVE  RequestInv'
    BY <1>4, <2>3
  <2>15. parsed.form # "malformed"
    OBVIOUS
  <2>4. PICK r \in Clamped(range, file.size) :
          /\ plan' = [status |-> code, start |-> r[1], end |-> r[2],
                      version |-> file.version, size |-> file.size]
          /\ headers' = h
          /\ IF kind = "head" THEN Answer(code) ELSE phase' = "open" /\ UNCHANGED status
    OBVIOUS
  <2>5. /\ h.range \in Ranges /\ h.zrip \in BOOLEAN /\ h.strict \in BOOLEAN
        /\ h.strict => h.range.form = "bytes" /\ h.range.last \notin {OpenEnded, UMax}
    BY DEF Headers
  <2>6. code \in {200, 206}
    OBVIOUS
  <2>7. h.strict => h.range.first \in Nat /\ h.range.last \in Nat
    BY <2>5, RangesAssumption, RequestsAssumption DEF OpenEnded
  <2>8. /\ r[1] \in Nat /\ r[2] \in Nat /\ r[1] <= r[2] /\ r[2] <= file.size
        /\ (IF h.ifRange \in {0, file.version} THEN Named(h.range, file.size) ELSE 1..file.size)
             = (r[1] + 1)..r[2]
        /\ h.strict /\ code = 206 => r[1] = h.range.first /\ r[2] <= h.range.last + 1
    <3>1. CASE Honoured(h, file.version)
      <4>1. range = parsed /\ r \in Clamped(parsed, file.size)
        BY <3>1
      <4>2. /\ r[1] \in Nat /\ r[2] \in Nat /\ r[1] <= r[2] /\ r[2] <= file.size
            /\ Named(h.range, file.size) = (r[1] + 1)..r[2]
            /\ h.range.form = "bytes" /\ h.range.last # OpenEnded =>
                 r[1] = h.range.first /\ r[2] <= h.range.last + 1
        BY <2>2, <2>15, <2>5, <4>1, PlanNames, SMTT(60)
      <4> HIDE DEF file, parsed, range, code
      <4> QED BY <2>5, <3>1, <4>2 DEF Honoured
    <3>2. CASE ~Honoured(h, file.version)
      <4>1. range = [form |-> "none"] /\ code = 200
        BY <3>2
      <4>2. range.form = "none"
        BY <4>1
      <4>3. Clamped(range, file.size) = {<<0, file.size>>}
        BY <4>2 DEF Clamped
      <4>4. r[1] = 0 /\ r[2] = file.size
        BY <4>3
      <4> HIDE DEF file, parsed, range, code
      <4>5. (0 + 1)..file.size = 1..file.size
        OBVIOUS
      <4> QED BY <2>2, <3>2, <4>1, <4>4, <4>5 DEF Honoured
    <3> QED BY <3>1, <3>2
  <2>9. /\ plan'.status = code /\ plan'.start = r[1] /\ plan'.end = r[2]
        /\ plan'.version = file.version /\ plan'.size = file.size
        /\ plan' \in [status : {0, 200, 206}, start : Nat, end : Nat, version : Nat, size : Nat]
    BY <2>2, <2>4, <2>6, <2>8
  <2> HIDE DEF file, parsed, range, code, Planned
  <2>10. \/ phase' = "open" /\ status' = status /\ kind # "head"
         \/ phase' = "idle" /\ status' = code /\ kind = "head"
    BY <2>4 DEF Answer
  <2>11. file = files[real] /\ headers' = h
    BY <2>4 DEF file
  <2>12. TypeInv'
    <3>1. headers'.zrip \in BOOLEAN /\ headers'.strict \in BOOLEAN
      BY <2>5, <2>11
    <3>2. status' \in Nat /\ phase' \in {"idle", "open"}
      BY <1>3, <2>6, <2>10
    <3> QED BY <1>2, <2>9, <3>1, <3>2, ZenonT(60) DEF RequestInv, TypeInv, Ready
  <2>13. CASE phase' = "idle"
    <3>1. PhaseInv'
      BY <2>13 DEF PhaseInv, Kinds, Ready
    <3>2. GrantInv'
      BY <1>2, <2>13 DEF RequestInv, GrantInv, Kinds, Ready
    <3>3. OutInv'
      BY <1>2, <1>3, EmptySeq DEF OutInv
    <3>4. phase' \notin Ready /\ kind' # "get"
      BY <1>2, <2>10, <2>13 DEF Ready
    <3> QED BY <2>12, <3>1, <3>2, <3>3, <3>4, Outside
  <2>14. CASE phase' = "open"
    <3>1. kind = "get" /\ phase = "get" /\ status' = 0
      BY <1>1, <1>3, <2>10, <2>14
    <3>2. PhaseInv'
      BY <1>2, <1>3, <2>14, <3>1 DEF PhaseInv, Kinds, Ready, Streaming
    <3>3. GrantInv'
      <4>1. Granted(token, real, Need)
        BY <3>1 DEF RequestInv, GrantInv, Kinds
      <4>2. Granted(token, real, Need)'
        BY <1>2, <4>1 DEF Granted, Matches, Need
      <4> QED BY <1>2, <1>3, <4>2 DEF RequestInv, GrantInv
    <3>4. OutInv'
      BY <1>2, <1>3, EmptySeq DEF OutInv
    <3>5. PlanInv'
      <4>1. Wanted' = IF h.ifRange \in {0, file.version} THEN Named(h.range, file.size)
                      ELSE 1..file.size
        BY <2>9, <2>11 DEF Wanted, Named
      <4> QED BY <2>6, <2>7, <2>8, <2>9, <2>11, <4>1 DEF PlanInv
    <3>6. UnopenedInv'
      BY <1>2, <2>2, <2>9, <2>11 DEF UnopenedInv
    <3>7. phase' \notin Streaming
      BY <2>14 DEF Streaming
    <3>8. ReaderInv' /\ PlainInv' /\ FramesInv'
      BY <3>7 DEF ReaderInv, PlainInv, FramesInv
    <3>9. AnswerIsTheRange'
      BY <3>1 DEF AnswerIsTheRange
    <3> QED BY <2>12, <3>2, <3>3, <3>4, <3>5, <3>6, <3>8, <3>9 DEF RequestInv
  <2> QED BY <2>10, <2>13, <2>14
<1> QED BY <1>4, <1>5 DEF PlanDownload

LEMMA DisturbStep ==
  ASSUME RequestInv, Disturb
  PROVE  RequestInv'
<1>1. /\ UNCHANGED <<setting, phase, request, real, answer, server, wire, client, status, listed, asked>>
      /\ phase \in {"get", "open"} /\ IsFile(real)
  BY DEF Disturb
<1>2. /\ codec' = codec /\ token' = token /\ kind' = kind /\ raw' = raw /\ listed' = listed
      /\ real' = real /\ headers' = headers /\ plan' = plan /\ reader' = reader /\ phase' = phase
      /\ frame' = frame /\ wire' = wire /\ pending' = pending /\ out' = out /\ status' = status
  BY <1>1 DEF setting, request, answer, server, client
<1>3. /\ DOMAIN files' \subseteq Path
      /\ files' \in [DOMAIN files' -> [version : Nat, size : 0..UMax]]
      /\ real \in DOMAIN files' => files'[real].version > files[real].version
  <2>1. CASE Replaced(real)
    BY <1>1, <2>1, ReplacedTyped, ZenonT(60) DEF RequestInv, TypeInv, IsFile
  <2>2. CASE files' = [f \in DOMAIN files \ {real} |-> files[f]]
    BY <2>2, SMTT(60) DEF RequestInv, TypeInv
  <2> QED BY <2>1, <2>2 DEF Disturb
<1>4. TypeInv'
  BY <1>2, <1>3, SMTT(60) DEF RequestInv, TypeInv
<1>5. PhaseInv'
  BY <1>2 DEF RequestInv, PhaseInv
<1>6. GrantInv'
  BY <1>2 DEF RequestInv, GrantInv, Granted, Matches, Need
<1>7. PlanInv'
  BY <1>2 DEF RequestInv, PlanInv, Wanted, Named
<1>8. UnopenedInv'
  <2>1. CASE phase = "open" /\ real \in DOMAIN files'
    <3>1. plan.version <= files[real].version
      BY <1>1, <2>1 DEF RequestInv, UnopenedInv
    <3>2. plan.version \in Nat /\ files[real].version \in Nat /\ files'[real].version \in Nat
      BY <1>1, <1>3, <2>1, SMTT(60) DEF RequestInv, TypeInv, IsFile
    <3>3. plan.version < files'[real].version
      BY <1>3, <2>1, <3>1, <3>2
    <3> QED BY <1>2, <3>2, <3>3 DEF UnopenedInv
  <2>2. CASE ~(phase = "open" /\ real \in DOMAIN files')
    BY <1>2, <2>2 DEF UnopenedInv, IsFile
  <2> QED BY <2>1, <2>2
<1>9. phase' \notin Streaming /\ status = 0 /\ out = <<>>
  BY <1>1, <1>2 DEF RequestInv, PhaseInv, Streaming
<1>10. ReaderInv' /\ PlainInv' /\ FramesInv'
  BY <1>9 DEF ReaderInv, PlainInv, FramesInv
<1>11. OutInv' /\ AnswerIsTheRange'
  BY <1>2, <1>9, EmptySeq DEF OutInv, AnswerIsTheRange
<1> QED BY <1>4, <1>5, <1>6, <1>7, <1>8, <1>10, <1>11 DEF RequestInv

LEMMA OpenStep ==
  ASSUME RequestInv, OpenFile
  PROVE  RequestInv'
<1>1. UNCHANGED <<setting, files, request, real, answer, frame, wire, client, listed, asked>>
      /\ phase = "open"
  BY DEF OpenFile
<1>2. /\ codec' = codec /\ token' = token /\ kind' = kind /\ raw' = raw /\ listed' = listed
      /\ real' = real /\ headers' = headers /\ plan' = plan /\ files' = files
      /\ frame' = frame /\ wire' = wire /\ pending' = pending /\ out' = out
  BY <1>1 DEF setting, request, answer, client
<1>3. CASE Answer(500) /\ UNCHANGED reader
  BY <1>1, <1>3, Ends DEF Answer, server
<1>4. CASE /\ IsFile(real) /\ phase' = "body" /\ UNCHANGED status
           /\ reader' = [version |-> files[real].version, pos |-> plan.start,
                         end |-> Lesser(plan.end, files[real].size)]
  <2>1. /\ kind = "get" /\ status = 0 /\ out = <<>> /\ pending = <<>> /\ wire = <<>>
        /\ frame = NoBlock
    BY <1>1 DEF RequestInv, PhaseInv, Ready, Streaming
  <2>2. /\ files[real].version \in Nat /\ files[real].size \in Nat
        /\ plan.start \in Nat /\ plan.end \in Nat /\ plan.version \in Nat
    <3>1. files[real].version \in Nat /\ files[real].size \in Nat
      BY <1>4, FileIs DEF IsFile, RequestInv
    <3>2. plan \in [status : {0, 200, 206}, start : Nat, end : Nat, version : Nat, size : Nat]
      BY DEF RequestInv, TypeInv
    <3> QED BY <3>1, <3>2
  <2>3. /\ Lesser(plan.end, files[real].size) \in Nat
        /\ Lesser(plan.end, files[real].size) <= plan.end
        /\ plan.end <= files[real].size => Lesser(plan.end, files[real].size) = plan.end
    BY <2>2 DEF Lesser
  <2>4. /\ reader'.version = files[real].version /\ reader'.pos = plan.start
        /\ reader'.end = Lesser(plan.end, files[real].size)
        /\ reader' \in [version : Nat, pos : Nat, end : Nat]
    BY <1>4, <2>2, <2>3
  <2>5. TypeInv'
    BY <1>2, <1>4, <2>4, ZenonT(60) DEF RequestInv, TypeInv, Ready
  <2>6. PhaseInv'
    BY <1>2, <1>4, <2>1 DEF PhaseInv, Kinds, Ready, Streaming
  <2>7. GrantInv'
    <3>1. Granted(token, real, Need)
      BY <1>1 DEF RequestInv, GrantInv, Ready
    <3> QED BY <1>2, <3>1 DEF RequestInv, GrantInv, Granted, Matches, Need
  <2>8. phase \in Ready /\ PlanInv
    BY <1>1 DEF Ready, RequestInv
  <2>9. PlanInv'
    BY <1>2, <2>8 DEF PlanInv, Wanted, Named
  <2>10. UnopenedInv'
    BY <1>4 DEF UnopenedInv
  <2>11. ReaderInv'
    <3>1. plan.version = files[real].version => plan.size = files[real].size
      BY <1>1, <1>4 DEF RequestInv, UnopenedInv
    <3>2. plan.end <= plan.size /\ plan.size \in Nat
      BY <2>8 DEF PlanInv, RequestInv, TypeInv
    <3>3. reader'.version = plan.version => reader'.end = plan.end
      BY <2>2, <2>3, <2>4, <3>1, <3>2
    <3> QED BY <1>2, <1>4, <2>2, <2>3, <2>4, <3>3 DEF ReaderInv, Sent
  <2>12. OutInv' /\ AnswerIsTheRange'
    BY <1>2, <1>4, <2>1, EmptySeq DEF OutInv, AnswerIsTheRange
  <2>13. Sent' = 0
    BY <1>2, <2>2, <2>4 DEF Sent
  <2>14. PlainInv'
    BY <1>2, <2>1, <2>13, EmptySeq DEF PlainInv
  <2>15. FramesInv'
    <3>1. Closed' = 0 /\ phase' = "body"
      BY <1>4, <2>13 DEF Closed
    <3>2. Stream' = <<>> /\ Len(Stream') = 0 /\ Len(out') = 0
      BY <1>2, <2>1, EmptySeq DEF Stream
    <3>3. Framed(Stream, Len(out), Closed - Len(out))'
      BY <3>1, <3>2 DEF Framed
    <3> QED BY <1>2, <2>1, <2>13, <3>1, <3>2, <3>3 DEF FramesInv
  <2> QED BY <2>5, <2>6, <2>7, <2>9, <2>10, <2>11, <2>12, <2>14, <2>15 DEF RequestInv
<1> QED BY <1>3, <1>4 DEF OpenFile

-----------------------------------------------------------------------------
(* The server's steps of a body.                                           *)
LEMMA BodyGoesOn ==
  ASSUME RequestInv, phase \in Streaming, phase' \in Streaming,
         UNCHANGED <<setting, files, request, real, answer, status, listed>>,
         TypeInv', OutInv', ReaderInv', PlainInv', FramesInv'
  PROVE  RequestInv'
<1>1. /\ codec' = codec /\ token' = token /\ kind' = kind /\ raw' = raw /\ listed' = listed
      /\ real' = real /\ headers' = headers /\ plan' = plan /\ files' = files /\ status' = status
  BY DEF setting, request, answer
<1>2. phase \in Ready /\ phase' \in Ready /\ phase' \notin Kinds /\ phase # "idle" /\ phase' # "idle"
      /\ phase' # "open"
  BY DEF Streaming, Ready, Kinds
<1>3. kind = "get" /\ status = 0
  BY <1>2 DEF RequestInv, PhaseInv
<1>4. PhaseInv'
  BY <1>1, <1>2, <1>3 DEF PhaseInv
<1>5. GrantInv'
  <2>1. Granted(token, real, Need) /\ Need = "read"
    BY <1>2, <1>3 DEF RequestInv, GrantInv, Need
  <2>2. Granted(token, real, Need)' /\ Granted(token, real, "read")'
    BY <1>1, <1>3, <2>1 DEF Granted, Matches, Need
  <2> QED BY <1>1, <2>2 DEF RequestInv, GrantInv
<1>6. PlanInv'
  BY <1>1, <1>2 DEF RequestInv, PlanInv, Wanted, Named
<1>7. UnopenedInv' /\ AnswerIsTheRange'
  BY <1>1, <1>2, <1>3 DEF UnopenedInv, AnswerIsTheRange
<1> QED BY <1>4, <1>5, <1>6, <1>7 DEF RequestInv

(* What is known of a body on its way.                                     *)
LEMMA BodyFacts ==
  ASSUME RequestInv, phase \in Streaming
  PROVE  /\ real \in Path /\ reader.version \in Nat /\ reader.pos \in Nat /\ reader.end \in Nat
         /\ plan.start \in Nat /\ plan.start <= reader.pos
         /\ reader \in [version : Nat, pos : Nat, end : Nat]
         /\ Sent \in Nat /\ plan.start + Sent = reader.pos
         /\ \A i \in Nat : Block(i) \in BlockSet /\ Block(i) # NoBlock
         /\ out \in Seq(BlockSet) /\ Len(out) \in Nat
         /\ wire \in Seq(UnitSet) /\ Len(wire) \in Nat
         /\ pending \in Seq(UnitSet) /\ Len(pending) \in Nat
         /\ Stream \in Seq(UnitSet) /\ Len(Stream) = Len(pending) + Len(wire)
         /\ Format \in {"zrip", "identity"} /\ (Format = "zrip" <=> headers.zrip)
<1>1. /\ real \in Path /\ reader \in [version : Nat, pos : Nat, end : Nat] /\ plan.start \in Nat
      /\ out \in Seq(BlockSet) /\ wire \in Seq(UnitSet) /\ pending \in Seq(UnitSet)
  BY DEF RequestInv, TypeInv
<1>2. reader.version \in Nat /\ reader.pos \in Nat /\ reader.end \in Nat
  BY <1>1
<1>3. plan.start <= reader.pos
  BY DEF RequestInv, ReaderInv
<1>4. Sent \in Nat /\ plan.start + Sent = reader.pos
  BY <1>1, <1>2, <1>3 DEF Sent
<1>5. \A i \in Nat : Block(i) \in BlockSet
  BY <1>1, <1>2, SMTT(60) DEF Block, BlockSet
<1>6. \A i \in Nat : Block(i) # NoBlock
  BY <1>5, NoBlockIsNone
<1>7. Len(out) \in Nat /\ Len(wire) \in Nat /\ Len(pending) \in Nat
  BY <1>1, LenProperties
<1>8. Stream \in Seq(UnitSet) /\ Len(Stream) = Len(pending) + Len(wire)
  BY <1>1, ConcatProperties DEF Stream
<1>9. Format \in {"zrip", "identity"} /\ (Format = "zrip" <=> headers.zrip)
  BY DEF Format
<1> QED BY <1>1, <1>2, <1>3, <1>4, <1>5, <1>6, <1>7, <1>8, <1>9

LEMMA FrameTyped ==
  ASSUME NEW block \in BlockSet \cup {NoBlock}
  PROVE  /\ Frame(block) \in Seq(UnitSet) /\ Len(Frame(block)) = 2
         /\ Frame(block)[1] = Unit(block, "begin") /\ Frame(block)[2] = Unit(block, "end")
         /\ Plain(block) \in Seq(UnitSet) /\ Len(Plain(block)) = 1
         /\ Plain(block)[1] = Unit(block, "whole")
<1>1. \A p \in {"begin", "end", "whole"} : Unit(block, p) \in UnitSet
  BY DEF Unit, UnitSet
<1> QED BY <1>1 DEF Frame, Plain

LEMMA UnitsAssociate ==
  ASSUME NEW a \in Seq(UnitSet), NEW b \in Seq(UnitSet), NEW c \in Seq(UnitSet)
  PROVE  (a \o b) \o c = a \o (b \o c)
BY ConcatAssociative, SMTT(60)

(* One frame more.                                                         *)
LEMMA FramedMore ==
  ASSUME NEW units \in Seq(UnitSet), NEW first \in Nat, NEW n \in Nat, Framed(units, first, n),
         NEW block, block = Block(first + n + 1), block \in BlockSet
  PROVE  Framed(units \o Frame(block), first, n + 1)
<1>1. /\ Frame(block) \in Seq(UnitSet) /\ Len(Frame(block)) = 2
      /\ Frame(block)[1] = Unit(block, "begin") /\ Frame(block)[2] = Unit(block, "end")
  BY FrameTyped
<1>2. Len(units) = 2 * n
  BY DEF Framed
<1> DEFINE more == units \o Frame(block)
<1>3. /\ Len(more) = 2 * n + 2
      /\ \A i \in 1..(2 * n + 2) : more[i] = IF i <= 2 * n THEN units[i] ELSE Frame(block)[i - 2 * n]
  <2>1. /\ Len(more) = Len(units) + Len(Frame(block))
        /\ \A i \in 1..(Len(units) + Len(Frame(block))) :
             more[i] = IF i <= Len(units) THEN units[i] ELSE Frame(block)[i - Len(units)]
    BY <1>1, ConcatProperties
  <2> HIDE DEF more
  <2> QED BY <1>1, <1>2, <2>1, SMTT(60)
<1> HIDE DEF more
<1>4. ASSUME NEW i \in 1..(n + 1)
      PROVE  more[2 * i - 1] = Unit(Block(first + i), "begin") /\ more[2 * i] = Unit(Block(first + i), "end")
  <2>1. CASE i <= n
    <3>1. i \in 1..n /\ 2 * i - 1 \in 1..(2 * n + 2) /\ 2 * i - 1 <= 2 * n
          /\ 2 * i \in 1..(2 * n + 2) /\ 2 * i <= 2 * n
      BY <2>1
    <3>2. more[2 * i - 1] = units[2 * i - 1] /\ more[2 * i] = units[2 * i]
      BY <1>3, <3>1
    <3> QED BY <3>1, <3>2 DEF Framed
  <2>2. CASE i = n + 1
    <3>1. 2 * i - 1 = 2 * n + 1 /\ 2 * i = 2 * n + 2 /\ first + i = first + n + 1
      BY <2>2
    <3>2. more[2 * n + 1] = Frame(block)[2 * n + 1 - 2 * n] /\ more[2 * n + 2] = Frame(block)[2 * n + 2 - 2 * n]
      BY <1>3
    <3>3. 2 * n + 1 - 2 * n = 1 /\ 2 * n + 2 - 2 * n = 2
      OBVIOUS
    <3> QED BY <1>1, <3>1, <3>2, <3>3
  <2> QED BY <2>1, <2>2
<1>5. Len(more) = 2 * (n + 1)
  BY <1>3
<1>6. Framed(more, first, n + 1)
  BY <1>4, <1>5 DEF Framed
<1> QED BY <1>6 DEF more

LEMMA ProduceStep ==
  ASSUME RequestInv, Produce
  PROVE  RequestInv'
<1> DEFINE block == <<real, reader.version, reader.pos + 1>>
<1>1. /\ phase = "body" /\ reader.pos < reader.end /\ phase' = phase
      /\ UNCHANGED <<setting, files, phase, request, real, answer, client, status, listed, asked>>
      /\ wire' = wire \o Compressed(Format, frame, block) /\ frame' = StillOpen(Format, block)
      /\ reader' = [reader EXCEPT !.pos = @ + 1]
  BY DEF Produce
<1>2. /\ codec' = codec /\ token' = token /\ kind' = kind /\ raw' = raw /\ listed' = listed
      /\ real' = real /\ headers' = headers /\ plan' = plan /\ files' = files /\ status' = status
      /\ pending' = pending /\ out' = out
  BY <1>1 DEF setting, request, answer, client
<1>3. phase \in Streaming /\ phase' \in Streaming
  BY <1>1 DEF Streaming
<1>4. /\ real \in Path /\ reader.version \in Nat /\ reader.pos \in Nat /\ reader.end \in Nat
      /\ plan.start \in Nat /\ plan.start <= reader.pos
      /\ reader \in [version : Nat, pos : Nat, end : Nat]
      /\ Sent \in Nat /\ plan.start + Sent = reader.pos
      /\ \A i \in Nat : Block(i) \in BlockSet /\ Block(i) # NoBlock
      /\ out \in Seq(BlockSet) /\ Len(out) \in Nat
      /\ wire \in Seq(UnitSet) /\ Len(wire) \in Nat
      /\ pending \in Seq(UnitSet) /\ Len(pending) \in Nat
      /\ Stream \in Seq(UnitSet)
      /\ Format \in {"zrip", "identity"}
  BY <1>3, BodyFacts
<1>5. /\ reader' \in [version : Nat, pos : Nat, end : Nat]
      /\ reader'.version = reader.version /\ reader'.pos = reader.pos + 1 /\ reader'.end = reader.end
  <2>1. reader' = [reader EXCEPT !.pos = reader.pos + 1] /\ reader.pos + 1 \in Nat
    BY <1>1, <1>4, SMTT(60)
  <2>2. reader \in [version : Nat, pos : Nat, end : Nat]
    BY <1>4
  <2> QED BY <2>1, <2>2
<1>6. block = Block(Sent + 1) /\ block \in BlockSet
  <2>1. plan.start + (Sent + 1) = reader.pos + 1 /\ Sent + 1 \in Nat
    <3>1. plan.start \in Nat /\ Sent \in Nat /\ reader.pos \in Nat /\ plan.start + Sent = reader.pos
      BY <1>4
    <3> QED BY <3>1
  <2>2. block = Block(Sent + 1)
    BY <2>1 DEF Block
  <2> HIDE DEF block
  <2> QED BY <1>4, <2>1, <2>2
<1>7. Sent' = Sent + 1
  <2>1. reader'.pos = reader.pos + 1 /\ plan'.start = plan.start
    BY <1>2, <1>5
  <2>2. reader.pos \in Nat /\ plan.start \in Nat
    BY <1>4
  <2>3. Sent' = reader.pos + 1 - plan.start
    BY <2>1, <2>2 DEF Sent
  <2> QED BY <2>2, <2>3 DEF Sent
<1>8. \A i : Block(i)' = Block(i)
  BY <1>2, <1>5 DEF Block
<1>9. Format' = Format
  BY <1>2 DEF Format
<1> HIDE DEF block
<1>10. frame \in BlockSet \cup {NoBlock}
  BY DEF RequestInv, TypeInv
<1>11. Compressed(Format, frame, block) \in Seq(UnitSet) /\ StillOpen(Format, block) \in BlockSet \cup {NoBlock}
  BY <1>6, <1>10, FrameTyped, EmptySeq DEF Compressed, StillOpen
<1>12. TypeInv'
  <2>1. wire' \in Seq(UnitSet)
    BY <1>1, <1>4, <1>11, ConcatProperties
  <2> QED BY <1>1, <1>2, <1>5, <1>11, <2>1, SMTT(60) DEF RequestInv, TypeInv
<1>13. OutInv'
  BY <1>2, <1>8 DEF RequestInv, OutInv
<1>14. ReaderInv'
  <2>1. /\ reader.end <= plan.end /\ (reader.version = plan.version => reader.end = plan.end)
    BY <1>3 DEF RequestInv, ReaderInv
  <2>2. /\ reader.pos < reader.end /\ phase' = "body" /\ plan' = plan
        /\ reader'.version = reader.version /\ reader'.pos = reader.pos + 1 /\ reader'.end = reader.end
    BY <1>1, <1>2, <1>5
  <2>3. reader.pos \in Nat /\ reader.end \in Nat /\ plan.start \in Nat /\ plan.start <= reader.pos
    BY <1>4
  <2>4. reader.pos + 1 <= reader.end /\ plan.start <= reader.pos + 1
    BY <2>2, <2>3
  <2> QED BY <2>1, <2>2, <2>4 DEF ReaderInv
<1>15. PlainInv'
  <2> SUFFICES ASSUME Format = "identity"
               PROVE  /\ frame' = NoBlock /\ pending' = <<>> /\ Len(out') + Len(wire') = Sent'
                      /\ \A i \in 1..Len(wire') : wire'[i] = Unit(Block(Len(out) + i), "whole")
    BY <1>2, <1>8, <1>9 DEF PlainInv
  <2>1. /\ frame = NoBlock /\ pending = <<>> /\ Len(out) + Len(wire) = Sent
        /\ \A i \in 1..Len(wire) : wire[i] = Unit(Block(Len(out) + i), "whole")
    BY <1>3 DEF RequestInv, PlainInv
  <2>2. wire' = wire \o Plain(block) /\ frame' = NoBlock
    BY <1>1 DEF Compressed, StillOpen
  <2>3. Plain(block) \in Seq(UnitSet) /\ Len(Plain(block)) = 1 /\ Plain(block)[1] = Unit(block, "whole")
    BY <1>6, FrameTyped
  <2>4. /\ Len(wire') = Len(wire) + 1
        /\ \A i \in 1..(Len(wire) + 1) :
             wire'[i] = IF i <= Len(wire) THEN wire[i] ELSE Plain(block)[i - Len(wire)]
    <3> DEFINE more == Plain(block)
    <3>1. more \in Seq(UnitSet) /\ Len(more) = 1 /\ wire' = wire \o more /\ wire \in Seq(UnitSet)
      BY <1>4, <2>2, <2>3
    <3> HIDE DEF more
    <3>2. /\ Len(wire \o more) = Len(wire) + Len(more)
          /\ \A i \in 1..(Len(wire) + Len(more)) :
               (wire \o more)[i] = IF i <= Len(wire) THEN wire[i] ELSE more[i - Len(wire)]
      BY <3>1, ConcatProperties
    <3> QED BY <3>1, <3>2 DEF more
  <2>5. ASSUME NEW i \in 1..(Len(wire) + 1)
        PROVE  wire'[i] = Unit(Block(Len(out) + i), "whole")
    <3>1. CASE i <= Len(wire)
      <4>1. i \in 1..Len(wire)
        <5>1. Len(wire) \in Nat
          BY <1>4
        <5> QED BY <3>1, <5>1
      <4>2. wire'[i] = wire[i]
        BY <2>4, <3>1
      <4> QED BY <2>1, <4>1, <4>2
    <3>2. CASE i = Len(wire) + 1
      <4>1. i - Len(wire) = 1 /\ Len(out) + i = Sent + 1
        <5>1. Len(wire) \in Nat /\ Len(out) \in Nat /\ Len(out) + Len(wire) = Sent
          BY <1>4, <2>1
        <5> QED BY <3>2, <5>1
      <4> QED BY <1>4, <1>6, <2>3, <2>4, <3>2, <4>1, SMTT(60)
    <3> QED BY <1>4, <3>1, <3>2, SMTT(60)
  <2> QED BY <1>2, <1>4, <1>7, <2>1, <2>2, <2>4, <2>5, SMTT(60)
<1>16. FramesInv'
  <2> SUFFICES ASSUME Format = "zrip"
               PROVE  /\ frame' = Block(Sent + 1)
                      /\ Len(out) <= Sent /\ Framed(Stream', Len(out), Sent - Len(out))
    <3>1. Closed' = Sent
      <4>1. phase' = "body" /\ Sent' = Sent + 1 /\ Sent \in Nat
        BY <1>1, <1>4, <1>7
      <4> QED BY <4>1 DEF Closed
    <3>2. Sent' # 0 /\ Sent' = Sent + 1
      BY <1>4, <1>7
    <3>3. \A units, first, n : Framed(units, first, n)' = Framed(units, first, n)
      BY <1>8 DEF Framed
    <3> QED BY <1>1, <1>2, <1>8, <1>9, <3>1, <3>2, <3>3 DEF FramesInv, Framed
  <2>1. /\ frame = IF Sent = 0 THEN NoBlock ELSE Block(Sent)
        /\ Len(out) <= Closed /\ Framed(Stream, Len(out), Closed - Len(out))
    BY <1>1, <1>3 DEF RequestInv, FramesInv
  <2>2. frame' = block
    BY <1>1 DEF StillOpen
  <2>3. CASE Sent = 0
    <3>1. Closed = 0 /\ frame = NoBlock
      BY <2>1, <2>3 DEF Closed
    <3>2. wire' = wire
      BY <1>1, <1>4, <3>1, ConcatEmptySeq DEF Compressed
    <3>3. Stream' = Stream
      BY <1>2, <3>2 DEF Stream
    <3> QED BY <1>6, <2>1, <2>2, <2>3, <3>1, <3>3
  <2>4. CASE Sent # 0
    <3>1. Closed = Sent - 1 /\ frame = Block(Sent) /\ Closed \in Nat
      BY <1>1, <1>4, <2>1, <2>4, SMTT(60) DEF Closed
    <3>2. frame \in BlockSet /\ frame # NoBlock
      BY <1>4, <3>1
    <3>3. wire' = wire \o Frame(frame)
      BY <1>1, <3>2 DEF Compressed
    <3>4. Stream' = Stream \o Frame(frame)
      <4>1. Frame(frame) \in Seq(UnitSet)
        BY <3>2, FrameTyped
      <4>2. (pending \o wire) \o Frame(frame) = pending \o (wire \o Frame(frame))
        BY <1>4, <4>1, UnitsAssociate, ZenonT(60)
      <4> QED BY <1>2, <3>3, <4>2 DEF Stream
    <3>5. Closed - Len(out) \in Nat /\ Len(out) + (Closed - Len(out)) + 1 = Sent
          /\ (Closed - Len(out)) + 1 = Sent - Len(out) /\ Len(out) <= Sent
      BY <1>4, <2>1, <3>1
    <3>6. Framed(Stream \o Frame(frame), Len(out), (Closed - Len(out)) + 1)
      BY <1>4, <2>1, <3>1, <3>2, <3>5, FramedMore, SMTT(60)
    <3> QED BY <1>6, <2>2, <3>4, <3>5, <3>6
  <2> QED BY <2>3, <2>4
<1> QED BY <1>1, <1>3, <1>12, <1>13, <1>14, <1>15, <1>16, BodyGoesOn

LEMMA FinishStep ==
  ASSUME RequestInv, FinishBody
  PROVE  RequestInv'
<1>1. /\ phase = "body" /\ reader.pos >= reader.end /\ phase' = "sent all"
      /\ UNCHANGED <<setting, files, request, real, answer, reader, client, status, listed, asked>>
      /\ wire' = wire \o Finished(Format, frame) /\ frame' = NoBlock
  BY DEF FinishBody
<1>2. /\ codec' = codec /\ token' = token /\ kind' = kind /\ raw' = raw /\ listed' = listed
      /\ real' = real /\ headers' = headers /\ plan' = plan /\ files' = files /\ status' = status
      /\ pending' = pending /\ out' = out /\ reader' = reader
  BY <1>1 DEF setting, request, answer, client
<1>3. phase \in Streaming /\ phase' \in Streaming
  BY <1>1 DEF Streaming
<1>4. /\ reader.pos \in Nat /\ reader.end \in Nat
      /\ Sent \in Nat
      /\ \A i \in Nat : Block(i) \in BlockSet /\ Block(i) # NoBlock
      /\ Len(out) \in Nat /\ out \in Seq(BlockSet)
      /\ wire \in Seq(UnitSet) /\ Len(wire) \in Nat
      /\ pending \in Seq(UnitSet) /\ Len(pending) \in Nat
      /\ Stream \in Seq(UnitSet) /\ Len(Stream) = Len(pending) + Len(wire)
      /\ Format \in {"zrip", "identity"}
  BY <1>3, BodyFacts
<1>5. Sent' = Sent /\ Format' = Format /\ \A i : Block(i)' = Block(i)
  BY <1>2 DEF Sent, Format, Block
<1>6. frame \in BlockSet \cup {NoBlock}
  BY DEF RequestInv, TypeInv
<1>7. Finished(Format, frame) \in Seq(UnitSet)
  BY <1>6, FrameTyped, EmptySeq DEF Finished
<1>8. TypeInv'
  <2>1. wire' \in Seq(UnitSet) /\ frame' \in BlockSet \cup {NoBlock}
    BY <1>1, <1>4, <1>7, ConcatProperties
  <2>2. phase' \in {"idle", "sent", "known", "named"} \cup Kinds \cup Ready
    BY <1>1 DEF Ready
  <2> QED BY <1>2, <2>1, <2>2, SMTT(60) DEF RequestInv, TypeInv
<1>9. OutInv'
  BY <1>2, <1>5 DEF RequestInv, OutInv
<1>10. ReaderInv'
  BY <1>1, <1>2, <1>3, <1>4, <1>5 DEF RequestInv, ReaderInv
<1>11. PlainInv'
  <2> SUFFICES ASSUME Format = "identity"
               PROVE  /\ frame' = NoBlock /\ pending' = <<>> /\ Len(out') + Len(wire') = Sent'
                      /\ \A i \in 1..Len(wire') : wire'[i] = Unit(Block(Len(out) + i), "whole")
    BY <1>2, <1>5 DEF PlainInv
  <2>1. /\ frame = NoBlock /\ pending = <<>> /\ Len(out) + Len(wire) = Sent
        /\ \A i \in 1..Len(wire) : wire[i] = Unit(Block(Len(out) + i), "whole")
    BY <1>3 DEF RequestInv, PlainInv
  <2>2. wire' = wire
    BY <1>1, <1>4, ConcatEmptySeq DEF Finished
  <2> QED BY <1>1, <1>2, <1>5, <2>1, <2>2
<1>12. FramesInv'
  <2>1. Closed' = Sent
    BY <1>1, <1>5 DEF Closed
  <2>2. \A units, first, n : Framed(units, first, n)' = Framed(units, first, n)
    BY <1>5 DEF Framed
  <2> SUFFICES ASSUME Format = "zrip"
               PROVE  IF Sent = 0 THEN out = <<>> /\ Stream' \in {<<>>, Frame(NoBlock)}
                      ELSE Len(out) <= Sent /\ Framed(Stream', Len(out), Sent - Len(out))
    BY <1>1, <1>2, <1>5, <2>1, <2>2 DEF FramesInv, Framed
  <2>3. /\ frame = IF Sent = 0 THEN NoBlock ELSE Block(Sent)
        /\ Len(out) <= Closed /\ Framed(Stream, Len(out), Closed - Len(out))
    BY <1>1, <1>3 DEF RequestInv, FramesInv
  <2>4. wire' = wire \o Frame(frame) /\ Frame(frame) \in Seq(UnitSet)
    BY <1>1, <1>6, FrameTyped DEF Finished
  <2>5. Stream' = Stream \o Frame(frame)
    BY <1>2, <1>4, <2>4, UnitsAssociate, ZenonT(60) DEF Stream
  <2>6. CASE Sent = 0
    <3>1. Closed = 0
      BY <2>6 DEF Closed
    <3>2. Len(out) = 0 /\ Closed - Len(out) = 0
      BY <1>4, <2>3, <3>1
    <3>3. Len(Stream) = 0
      BY <2>3, <3>2 DEF Framed
    <3>4. out = <<>> /\ Stream = <<>>
      BY <1>4, <3>2, <3>3, EmptySeq
    <3>5. Stream' = Frame(NoBlock)
      BY <2>3, <2>4, <2>5, <2>6, <3>4, ConcatEmptySeq
    <3> QED BY <2>6, <3>4, <3>5
  <2>7. CASE Sent # 0
    <3>1. Closed = Sent - 1 /\ frame = Block(Sent) /\ Closed \in Nat
      <4>1. phase = "body" /\ Sent \in Nat
        BY <1>1, <1>4
      <4>2. Closed = Sent - 1 /\ Sent - 1 \in Nat
        BY <2>7, <4>1 DEF Closed
      <4> QED BY <2>3, <2>7, <4>2
    <3>2. frame \in BlockSet
      BY <1>4, <3>1
    <3>3. Closed - Len(out) \in Nat /\ Len(out) + (Closed - Len(out)) + 1 = Sent
          /\ (Closed - Len(out)) + 1 = Sent - Len(out) /\ Len(out) <= Sent
      BY <1>4, <2>3, <3>1
    <3>4. Framed(Stream \o Frame(frame), Len(out), (Closed - Len(out)) + 1)
      BY <1>4, <2>3, <3>1, <3>2, <3>3, FramedMore
    <3> QED BY <2>5, <2>7, <3>3, <3>4
  <2> QED BY <2>6, <2>7
<1> QED BY <1>1, <1>3, <1>8, <1>9, <1>10, <1>11, <1>12, BodyGoesOn

-----------------------------------------------------------------------------
(* The client's steps of a body.                                           *)
LEMMA CutUnits ==
  ASSUME NEW units \in Seq(UnitSet), NEW n \in 1..Len(units)
  PROVE  /\ SubSeq(units, 1, n) \in Seq(UnitSet) /\ Len(SubSeq(units, 1, n)) = n
         /\ \A i \in 1..n : SubSeq(units, 1, n)[i] = units[i]
         /\ SubSeq(units, n + 1, Len(units)) \in Seq(UnitSet)
         /\ Len(SubSeq(units, n + 1, Len(units))) = Len(units) - n
         /\ \A i \in 1..(Len(units) - n) : SubSeq(units, n + 1, Len(units))[i] = units[n + i]
<1>1. Len(units) \in Nat /\ n \in Nat /\ 1 <= n /\ n <= Len(units)
      /\ \A i \in 1..Len(units) : units[i] \in UnitSet
  BY LenProperties, ElementOfSeq
<1>2. /\ SubSeq(units, 1, n) \in Seq(UnitSet)
      /\ Len(SubSeq(units, 1, n)) = IF 1 <= n THEN n - 1 + 1 ELSE 0
      /\ \A i \in 1..(n - 1 + 1) : SubSeq(units, 1, n)[i] = units[1 + i - 1]
  BY <1>1, SubSeqProperties
<1>3. \A i \in (n + 1)..Len(units) : units[i] \in UnitSet
  BY <1>1
<1>4. /\ SubSeq(units, n + 1, Len(units)) \in Seq(UnitSet)
      /\ Len(SubSeq(units, n + 1, Len(units))) =
           IF n + 1 <= Len(units) THEN Len(units) - (n + 1) + 1 ELSE 0
      /\ \A i \in 1..(Len(units) - (n + 1) + 1) :
           SubSeq(units, n + 1, Len(units))[i] = units[(n + 1) + i - 1]
  BY <1>1, <1>3, SubSeqProperties
<1>5. /\ Len(SubSeq(units, 1, n)) = n
      /\ \A i \in 1..n : SubSeq(units, 1, n)[i] = units[i]
  BY <1>1, <1>2
<1>6. /\ Len(SubSeq(units, n + 1, Len(units))) = Len(units) - n
      /\ \A i \in 1..(Len(units) - n) : SubSeq(units, n + 1, Len(units))[i] = units[n + i]
  BY <1>1, <1>4
<1> QED BY <1>2, <1>4, <1>5, <1>6

(* A read that takes n units off the wire and m frames off what it then    *)
(* has, leaves what was under way without its first m frames.              *)
LEMMA ReadParts ==
  ASSUME NEW a \in Seq(UnitSet), NEW b \in Seq(UnitSet), NEW n \in 1..Len(b),
         NEW m \in Nat, 2 * m <= Len(a) + n
  PROVE  LET units == a \o SubSeq(b, 1, n)
             stream == a \o b
             rest == Behind(units, m) \o SubSeq(b, n + 1, Len(b))
         IN  /\ units \in Seq(UnitSet) /\ Len(units) = Len(a) + n
             /\ \A i \in 1..Len(units) : units[i] = stream[i]
             /\ Behind(units, m) \in Seq(UnitSet)
             /\ rest \in Seq(UnitSet) /\ Len(rest) = Len(stream) - 2 * m
             /\ \A i \in 1..Len(rest) : rest[i] = stream[2 * m + i]
<1> DEFINE taken == SubSeq(b, 1, n)
           left == SubSeq(b, n + 1, Len(b))
           units == a \o taken
           stream == a \o b
           kept == Behind(units, m)
           rest == kept \o left
<1>1. Len(a) \in Nat /\ Len(b) \in Nat /\ n \in Nat /\ 1 <= n /\ n <= Len(b)
  BY LenProperties
<1>2. /\ taken \in Seq(UnitSet) /\ Len(taken) = n /\ \A i \in 1..n : taken[i] = b[i]
      /\ left \in Seq(UnitSet) /\ Len(left) = Len(b) - n
      /\ \A i \in 1..(Len(b) - n) : left[i] = b[n + i]
  BY CutUnits
<1> HIDE DEF taken, left
<1>4. /\ units \in Seq(UnitSet) /\ Len(units) = Len(a) + Len(taken)
      /\ \A i \in 1..(Len(a) + Len(taken)) :
           units[i] = IF i <= Len(a) THEN a[i] ELSE taken[i - Len(a)]
  BY <1>2, ConcatProperties
<1>5. /\ stream \in Seq(UnitSet) /\ Len(stream) = Len(a) + Len(b)
      /\ \A i \in 1..(Len(a) + Len(b)) : stream[i] = IF i <= Len(a) THEN a[i] ELSE b[i - Len(a)]
  BY ConcatProperties
<1> HIDE DEF units, stream
<1>6. Len(units) = Len(a) + n
  BY <1>2, <1>4
<1>7. ASSUME NEW i \in 1..Len(units)
      PROVE  units[i] = stream[i]
  <2>1. i \in 1..(Len(a) + Len(taken)) /\ i \in 1..(Len(a) + Len(b))
    BY <1>1, <1>2, <1>6
  <2>2. CASE i <= Len(a)
    BY <1>4, <1>5, <2>1, <2>2, SMTT(60)
  <2>3. CASE ~(i <= Len(a))
    <3>1. i - Len(a) \in 1..n
      BY <1>1, <1>6, <2>3
    <3> QED BY <1>2, <1>4, <1>5, <2>1, <2>3, <3>1
  <2> QED BY <2>2, <2>3
<1>8. /\ kept \in Seq(UnitSet) /\ Len(kept) = Len(units) - 2 * m
      /\ \A i \in 1..(Len(units) - 2 * m) : kept[i] = units[2 * m + i]
  <2>1. 2 * m <= Len(units)
    BY <1>6
  <2> QED BY <1>4, <2>1, BehindProperties
<1> HIDE DEF kept
<1>9. /\ rest \in Seq(UnitSet) /\ Len(rest) = Len(kept) + Len(left)
      /\ \A i \in 1..(Len(kept) + Len(left)) :
           rest[i] = IF i <= Len(kept) THEN kept[i] ELSE left[i - Len(kept)]
  <2>1. kept \in Seq(UnitSet) /\ left \in Seq(UnitSet)
    BY <1>2, <1>8
  <2> QED BY <2>1, ConcatProperties
<1> HIDE DEF rest
<1>10. Len(rest) = Len(stream) - 2 * m
  <2>1. /\ Len(rest) = Len(kept) + Len(left) /\ Len(kept) = Len(units) - 2 * m
        /\ Len(units) = Len(a) + n /\ Len(left) = Len(b) - n /\ Len(stream) = Len(a) + Len(b)
    BY <1>2, <1>5, <1>6, <1>8, <1>9
  <2> QED BY <1>1, <2>1
<1>11. ASSUME NEW i \in 1..Len(rest)
       PROVE  rest[i] = stream[2 * m + i]
  <2>1. i \in Nat /\ 1 <= i /\ i <= Len(a) + Len(b) - 2 * m
        /\ Len(kept) = Len(a) + n - 2 * m /\ Len(kept) \in Nat /\ Len(left) = Len(b) - n
    <3>1. Len(rest) = Len(a) + Len(b) - 2 * m
      BY <1>5, <1>10
    <3>2. Len(kept) = Len(a) + n - 2 * m /\ Len(left) = Len(b) - n
      BY <1>2, <1>6, <1>8
    <3>3. Len(kept) \in Nat
      BY <1>8, LenProperties
    <3> QED BY <1>1, <3>1, <3>2, <3>3
  <2>2. rest[i] = IF i <= Len(kept) THEN kept[i] ELSE left[i - Len(kept)]
    BY <1>9
  <2>3. CASE i <= Len(kept)
    <3>1. i \in 1..(Len(units) - 2 * m) /\ 2 * m + i \in 1..Len(units)
      BY <1>1, <1>6, <2>1, <2>3
    <3>2. kept[i] = units[2 * m + i] /\ units[2 * m + i] = stream[2 * m + i]
      BY <1>7, <1>8, <3>1
    <3> QED BY <2>2, <2>3, <3>2
  <2>4. CASE ~(i <= Len(kept))
    <3>1. i - Len(kept) \in 1..(Len(b) - n) /\ n + (i - Len(kept)) = 2 * m + i - Len(a)
          /\ 2 * m + i \in 1..(Len(a) + Len(b)) /\ ~(2 * m + i <= Len(a))
      BY <1>1, <2>1, <2>4
    <3>2. left[i - Len(kept)] = b[2 * m + i - Len(a)]
      BY <1>2, <3>1
    <3>3. stream[2 * m + i] = b[2 * m + i - Len(a)]
      BY <1>5, <3>1, SMTT(60)
    <3> QED BY <2>2, <2>4, <3>2, <3>3
  <2> QED BY <2>3, <2>4
<1> QED BY <1>4, <1>6, <1>7, <1>8, <1>9, <1>10, <1>11 DEF taken, left, units, stream, kept, rest

(* Without its first frames, a stream is still one of frames.              *)
LEMMA FramedLess ==
  ASSUME NEW units, NEW first \in Nat, NEW n \in Nat, Framed(units, first, n), NEW m \in 0..n,
         NEW rest, Len(rest) = Len(units) - 2 * m,
         \A i \in 1..Len(rest) : rest[i] = units[2 * m + i]
  PROVE  Framed(rest, first + m, n - m)
<1>1. Len(units) = 2 * n /\ Len(rest) = 2 * (n - m)
  BY DEF Framed
<1>2. ASSUME NEW i \in 1..(n - m)
      PROVE  /\ rest[2 * i - 1] = Unit(Block((first + m) + i), "begin")
             /\ rest[2 * i] = Unit(Block((first + m) + i), "end")
  <2>1. 2 * i - 1 \in 1..Len(rest) /\ 2 * i \in 1..Len(rest) /\ m + i \in 1..n
        /\ 2 * m + (2 * i - 1) = 2 * (m + i) - 1 /\ 2 * m + 2 * i = 2 * (m + i)
        /\ first + (m + i) = (first + m) + i
    BY <1>1
  <2>2. rest[2 * i - 1] = units[2 * (m + i) - 1] /\ rest[2 * i] = units[2 * (m + i)]
    BY <2>1
  <2>3. /\ units[2 * (m + i) - 1] = Unit(Block(first + (m + i)), "begin")
        /\ units[2 * (m + i)] = Unit(Block(first + (m + i)), "end")
    BY <2>1 DEF Framed
  <2> QED BY <2>1, <2>2, <2>3
<1> QED BY <1>1, <1>2 DEF Framed

(* What a read makes of a stream of frames, wherever it is cut: some of    *)
(* the blocks, and a stream of the frames that are left.                   *)
LEMMA ReadFrames ==
  ASSUME NEW a \in Seq(UnitSet), NEW b \in Seq(UnitSet), NEW n \in 1..Len(b),
         NEW first \in Nat, NEW k \in Nat, Framed(a \o b, first, k),
         \A i \in Nat : Block(i) \in BlockSet
  PROVE  LET got == Drain(a \o SubSeq(b, 1, n), Budget)
         IN  \E m \in 0..k :
               /\ got.out = [i \in 1..m |-> Block(first + i)] /\ got.left \in Seq(UnitSet)
               /\ Framed(got.left \o SubSeq(b, n + 1, Len(b)), first + m, k - m)
<1> DEFINE units == a \o SubSeq(b, 1, n)
           stream == a \o b
           got == Drain(units, Budget)
<1>1. Len(a) \in Nat /\ Len(b) \in Nat /\ n \in Nat /\ 1 <= n /\ n <= Len(b) /\ Budget \in Nat
  BY LenProperties, RequestsAssumption
<1>2. Len(stream) = Len(a) + Len(b)
  BY ConcatProperties
<1>3. Len(stream) = 2 * k
  BY DEF Framed
<1>4. /\ \A i \in 1..k : /\ stream[2 * i - 1] = Unit(Block(first + i), "begin")
                         /\ stream[2 * i] = Unit(Block(first + i), "end")
  BY DEF Framed
<1>5. /\ units \in Seq(UnitSet) /\ Len(units) = Len(a) + n
      /\ \A i \in 1..Len(units) : units[i] = stream[i]
  <2>1. 0 \in Nat /\ 2 * 0 <= Len(a) + n
    BY <1>1
  <2> QED BY <2>1, ReadParts
<1> HIDE DEF units, stream
<1>6. PICK h \in Nat : Len(units) \in {2 * h, 2 * h + 1} /\ h <= k
  <2> DEFINE l == Len(a) + n
  <2>1. l \in Nat /\ l <= 2 * k
    BY <1>1, <1>2, <1>3
  <2> HIDE DEF l
  <2>2. /\ l \div 2 \in Nat /\ l \div 2 <= k
        /\ l = 2 * (l \div 2) \/ l = 2 * (l \div 2) + 1
    BY <2>1
  <2>3. Len(units) = l
    BY <1>5 DEF l
  <2> QED BY <2>2, <2>3, SMTT(60)
<1> DEFINE blocks == [i \in 1..h |-> Block(first + i)]
<1>7. blocks \in Seq(BlockSet) /\ Len(blocks) = h /\ \A i \in 1..h : blocks[i] = Block(first + i)
  <2>1. \A i \in 1..h : Block(first + i) \in BlockSet
    OBVIOUS
  <2>2. blocks \in [1..h -> BlockSet]
    BY <2>1
  <2>3. blocks \in Seq(BlockSet)
    BY <2>2, SeqDef
  <2> QED BY <2>3, <2>2, LenProperties
<1> HIDE DEF blocks
<1>8. ASSUME NEW i \in 1..Len(blocks)
      PROVE  units[2 * i - 1] = Unit(blocks[i], "begin") /\ units[2 * i] = Unit(blocks[i], "end")
  <2>1. i \in 1..h /\ i \in 1..k /\ 2 * i - 1 \in 1..Len(units) /\ 2 * i \in 1..Len(units)
    BY <1>6, <1>7
  <2> QED BY <1>4, <1>5, <1>7, <2>1
<1>9. Len(units) \in {2 * Len(blocks), 2 * Len(blocks) + 1}
  BY <1>6, <1>7
<1>10. PICK m \in 0..Len(blocks) :
         /\ got.out = [i \in 1..m |-> blocks[i]]
         /\ got.left = Behind(units, m)
  <2>1. units \in Seq(UnitSet) /\ Budget \in Nat
    BY <1>1, <1>5
  <2>2. blocks \in Seq(BlockSet)
    BY <1>7
  <2>3. \E m \in 0..Len(blocks) :
          /\ Drain(units, Budget).out = [i \in 1..m |-> blocks[i]]
          /\ Drain(units, Budget).left = Behind(units, m)
          /\ Drain(units, Budget).ok <=> m = Len(blocks)
    BY <1>8, <1>9, <2>1, <2>2, DrainProperties
  <2> QED BY <2>3
<1>11. m \in 0..k /\ m \in Nat /\ m <= h /\ 2 * m <= Len(a) + n
  BY <1>5, <1>6, <1>7, SMTT(60)
<1>12. got.out = [i \in 1..m |-> Block(first + i)]
  BY <1>7, <1>10, <1>11
<1> DEFINE rest == Behind(units, m) \o SubSeq(b, n + 1, Len(b))
<1>13. /\ Behind(units, m) \in Seq(UnitSet) /\ Len(rest) = Len(stream) - 2 * m
       /\ \A i \in 1..Len(rest) : rest[i] = stream[2 * m + i]
  <2>1. m \in Nat /\ 2 * m <= Len(a) + n
    BY <1>11
  <2> DEFINE all == a \o SubSeq(b, 1, n)
             whole == a \o b
             tail == Behind(all, m) \o SubSeq(b, n + 1, Len(b))
  <2>2. /\ Behind(all, m) \in Seq(UnitSet) /\ Len(tail) = Len(whole) - 2 * m
        /\ \A i \in 1..Len(tail) : tail[i] = whole[2 * m + i]
    BY <2>1, ReadParts, ZenonT(120)
  <2>3. all = units /\ whole = stream
    BY DEF units, stream
  <2> HIDE DEF all, whole
  <2>4. rest = tail
    BY <2>3
  <2> HIDE DEF tail, rest
  <2> QED BY <2>2, <2>3, <2>4
<1> HIDE DEF rest
<1>14. Framed(stream, first, k)
  BY DEF stream
<1>15. Framed(rest, first + m, k - m)
  BY <1>11, <1>13, <1>14, FramedLess
<1>16. got.left \in Seq(UnitSet) /\ Framed(got.left \o SubSeq(b, n + 1, Len(b)), first + m, k - m)
  BY <1>10, <1>13, <1>15 DEF rest
<1> QED BY <1>11, <1>12, <1>16 DEF units

(* And of the frame of an empty body.                                      *)
LEMMA ReadEmpty ==
  ASSUME NEW a \in Seq(UnitSet), NEW b \in Seq(UnitSet), NEW n \in 1..Len(b),
         a \o b = Frame(NoBlock)
  PROVE  LET got == Drain(a \o SubSeq(b, 1, n), Budget)
         IN  /\ got.ok /\ got.out = <<>> /\ got.left \in Seq(UnitSet)
             /\ got.left \o SubSeq(b, n + 1, Len(b)) \in {<<>>, Frame(NoBlock)}
<1> DEFINE units == a \o SubSeq(b, 1, n)
           stream == a \o b
           got == Drain(units, Budget)
           left == SubSeq(b, n + 1, Len(b))
<1>1. Len(a) \in Nat /\ Len(b) \in Nat /\ n \in Nat /\ 1 <= n /\ n <= Len(b) /\ Budget \in Nat
  BY LenProperties, RequestsAssumption
<1>2. /\ Frame(NoBlock) \in Seq(UnitSet) /\ Len(Frame(NoBlock)) = 2
  BY FrameTyped
<1>3. Len(stream) = Len(a) + Len(b) /\ stream \in Seq(UnitSet)
  BY ConcatProperties
<1>4. Len(a) + Len(b) = 2 /\ stream = Frame(NoBlock)
  BY <1>2, <1>3
<1>5. /\ units \in Seq(UnitSet) /\ Len(units) = Len(a) + n
      /\ \A i \in 1..Len(units) : units[i] = stream[i]
      /\ Behind(units, 0) \in Seq(UnitSet)
      /\ Behind(units, 0) \o left \in Seq(UnitSet) /\ Len(Behind(units, 0) \o left) = Len(stream) - 2 * 0
      /\ \A i \in 1..Len(Behind(units, 0) \o left) : (Behind(units, 0) \o left)[i] = stream[2 * 0 + i]
  <2>1. 0 \in Nat /\ 2 * 0 <= Len(a) + n
    BY <1>1
  <2> QED BY <2>1, ReadParts, ZenonT(60)
<1>6. left \in Seq(UnitSet) /\ Len(left) = Len(b) - n
  BY CutUnits
<1> HIDE DEF units, stream, left
<1>7. CASE Len(a) + n = 2
  <2>1. units = Frame(NoBlock)
    <3>1. Len(units) = Len(stream) /\ \A i \in 1..Len(units) : units[i] = stream[i]
      BY <1>3, <1>4, <1>5, <1>7
    <3>2. units = stream
      BY <1>3, <1>5, <3>1, SeqEqual
    <3> QED BY <1>4, <3>2
  <2>2. got.ok /\ got.out = <<>> /\ got.left = <<>>
    BY <1>1, <2>1, DrainEmpty
  <2>3. Len(left) = 0
    BY <1>1, <1>4, <1>6, <1>7
  <2>4. left = <<>> /\ <<>> \in Seq(UnitSet)
    BY <1>6, <2>3, EmptySeq
  <2>5. got.left \o left = <<>>
    BY <2>2, <2>4, ConcatEmptySeq
  <2> QED BY <2>2, <2>4, <2>5 DEF units, left
<1>8. CASE Len(a) + n # 2
  <2>1. Len(units) = 1
    BY <1>1, <1>4, <1>5, <1>8
  <2> DEFINE none == <<>>
  <2>2. none \in Seq(BlockSet) /\ Len(none) = 0
    BY EmptySeq
  <2>3. \A i \in 1..Len(none) : units[2 * i - 1] = Unit(none[i], "begin") /\ units[2 * i] = Unit(none[i], "end")
    BY <2>2
  <2>4. Len(units) \in {2 * Len(none), 2 * Len(none) + 1}
    BY <2>1, <2>2
  <2> HIDE DEF none
  <2>5. PICK m \in 0..Len(none) :
          /\ got.out = [i \in 1..m |-> none[i]]
          /\ got.left = Behind(units, m)
          /\ got.ok <=> m = Len(none)
    <3>1. units \in Seq(UnitSet) /\ none \in Seq(BlockSet) /\ Budget \in Nat
      BY <1>1, <1>5, <2>2
    <3> QED BY <2>3, <2>4, <3>1, DrainProperties, ZenonT(60)
  <2>6. m = 0 /\ got.ok /\ got.left = Behind(units, 0)
    BY <2>2, <2>5
  <2>7. got.out = <<>>
    BY <2>5, <2>6
  <2>8. Behind(units, 0) \o left = stream
    <3> DEFINE rest == Behind(units, 0) \o left
    <3>1. rest \in Seq(UnitSet) /\ Len(rest) = Len(stream) - 2 * 0
          /\ \A i \in 1..Len(rest) : rest[i] = stream[2 * 0 + i]
      BY <1>5
    <3>2. stream \in Seq(UnitSet) /\ Len(stream) \in Nat
      BY <1>3, LenProperties
    <3> HIDE DEF rest
    <3>3. Len(rest) = Len(stream) /\ \A i \in 1..Len(rest) : rest[i] = stream[i]
      BY <3>1, <3>2
    <3>4. rest = stream
      BY <3>1, <3>2, <3>3, SeqEqual
    <3> QED BY <3>4 DEF rest
  <2> QED BY <1>4, <1>5, <2>6, <2>7, <2>8 DEF units, left
<1> QED BY <1>7, <1>8

LEMMA OutLonger ==
  ASSUME NEW s \in Seq(BlockSet), NEW m \in Nat, \A i \in Nat : Block(i) \in BlockSet,
         \A i \in 1..Len(s) : s[i] = Block(i),
         NEW t, t = s \o [i \in 1..m |-> Block(Len(s) + i)]
  PROVE  /\ t \in Seq(BlockSet) /\ Len(t) = Len(s) + m
         /\ \A i \in 1..Len(t) : t[i] = Block(i)
<1> DEFINE new == [i \in 1..m |-> Block(Len(s) + i)]
<1>1. Len(s) \in Nat
  BY LenProperties
<1>2. new \in Seq(BlockSet) /\ Len(new) = m /\ \A i \in 1..m : new[i] = Block(Len(s) + i)
  <2>1. \A i \in 1..m : Block(Len(s) + i) \in BlockSet
    BY <1>1
  <2>2. new \in [1..m -> BlockSet]
    BY <2>1
  <2>3. new \in Seq(BlockSet)
    BY <2>2, SeqDef
  <2> QED BY <2>2, <2>3, LenProperties
<1>3. t = s \o new
  OBVIOUS
<1> HIDE DEF new
<1>4. /\ s \o new \in Seq(BlockSet) /\ Len(s \o new) = Len(s) + Len(new)
      /\ \A i \in 1..(Len(s) + Len(new)) :
           (s \o new)[i] = IF i <= Len(s) THEN s[i] ELSE new[i - Len(s)]
  BY <1>2, ConcatProperties
<1>5. t \in Seq(BlockSet) /\ Len(t) = Len(s) + m
  BY <1>2, <1>3, <1>4
<1>6. ASSUME NEW i \in 1..(Len(s) + m)
      PROVE  t[i] = Block(i)
  <2>1. t[i] = IF i <= Len(s) THEN s[i] ELSE new[i - Len(s)]
    BY <1>2, <1>3, <1>4
  <2>2. CASE i <= Len(s)
    BY <1>1, <2>1, <2>2
  <2>3. CASE ~(i <= Len(s))
    <3>1. i - Len(s) \in 1..m /\ Len(s) + (i - Len(s)) = i
      BY <1>1, <2>3
    <3> QED BY <1>2, <2>1, <2>3, <3>1
  <2> QED BY <2>2, <2>3
<1> QED BY <1>5, <1>6

(* A read, told by what it makes of the body.                              *)
LEMMA ReadMakes ==
  ASSUME RequestInv, phase \in Streaming,
         UNCHANGED <<setting, files, request, real, answer, server, listed, asked>>,
         NEW ok \in BOOLEAN, IF ok THEN UNCHANGED <<phase, status>> ELSE Answer(Failed),
         wire' \in Seq(UnitSet), pending' \in Seq(UnitSet), out' \in Seq(BlockSet),
         \A i \in 1..Len(out') : out'[i] = Block(i),
         ok => PlainInv' /\ FramesInv'
  PROVE  RequestInv'
<1>1. /\ codec' = codec /\ token' = token /\ kind' = kind /\ raw' = raw /\ listed' = listed
      /\ real' = real /\ headers' = headers /\ plan' = plan /\ files' = files
      /\ reader' = reader /\ frame' = frame
  BY DEF setting, request, answer, server
<1>2. OutInv'
  BY <1>1 DEF OutInv, Block
<1>3. kind = "get" /\ phase \in Ready
  BY DEF RequestInv, PhaseInv, Streaming, Ready
<1>4. CASE ok
  <2>1. phase' = phase /\ status' = status
    BY <1>4
  <2>2. TypeInv'
    BY <1>1, <2>1, SMTT(60) DEF RequestInv, TypeInv
  <2>3. ReaderInv'
    BY <1>1, <2>1 DEF RequestInv, ReaderInv, Sent
  <2> QED BY <1>2, <1>4, <2>1, <2>2, <2>3, BodyGoesOn
<1>5. CASE ~ok
  <2>1. phase' = "idle" /\ status' = 599
    BY <1>5 DEF Answer, Failed
  <2>2. TypeInv'
    BY <1>1, <2>1, SMTT(60) DEF RequestInv, TypeInv
  <2>3. PhaseInv'
    BY <2>1 DEF PhaseInv, Kinds, Ready
  <2>4. GrantInv'
    <3>1. Granted(token, real, "read")
      BY <1>3 DEF RequestInv, GrantInv, Need
    <3> QED BY <1>1, <2>1, <3>1 DEF RequestInv, GrantInv, Kinds, Ready
  <2>5. phase' \notin Ready
    BY <2>1 DEF Ready
  <2> QED BY <1>2, <2>1, <2>2, <2>3, <2>4, <2>5, Outside
<1> QED BY <1>4, <1>5

LEMMA ReadStep ==
  ASSUME RequestInv, Read
  PROVE  RequestInv'
<1>1. /\ phase \in Streaming
      /\ UNCHANGED <<setting, files, request, real, answer, server, listed, asked>>
  BY DEF Read, Streaming
<1> DEFINE Got(n) == Decompressed(Format, pending, SubSeq(wire, 1, n), Budget)
<1>2. PICK n \in 1..Len(wire) :
        /\ wire' = SubSeq(wire, n + 1, Len(wire))
        /\ out' = out \o Got(n).out /\ pending' = Got(n).left
        /\ IF Got(n).ok THEN UNCHANGED <<phase, status>> ELSE Answer(Failed)
  BY DEF Read
<1>3. /\ Sent \in Nat
      /\ \A i \in Nat : Block(i) \in BlockSet
      /\ Len(out) \in Nat /\ out \in Seq(BlockSet)
      /\ wire \in Seq(UnitSet) /\ Len(wire) \in Nat
      /\ pending \in Seq(UnitSet)
      /\ Format \in {"zrip", "identity"}
  BY <1>1, BodyFacts
<1>4. \A i \in 1..Len(out) : out[i] = Block(i)
  BY DEF RequestInv, OutInv
<1>5. headers' = headers /\ frame' = frame /\ reader' = reader /\ plan' = plan /\ real' = real
  BY <1>1 DEF answer, server
<1>6. Sent' = Sent /\ Format' = Format /\ \A i : Block(i)' = Block(i)
  BY <1>5 DEF Sent, Format, Block
<1>7. n \in Nat /\ 1 <= n /\ n <= Len(wire) /\ wire' \in Seq(UnitSet) /\ Len(wire') = Len(wire) - n
      /\ \A i \in 1..(Len(wire) - n) : wire'[i] = wire[n + i]
  BY <1>2, <1>3, CutUnits
<1>8. CASE Format = "identity"
  <2> DEFINE taken == SubSeq(wire, 1, n)
             new == [i \in DOMAIN taken |-> taken[i].block]
  <2>1. Got(n).ok = TRUE /\ Got(n).out = new /\ Got(n).left = <<>>
    BY <1>8 DEF Decompressed
  <2>2. /\ frame = NoBlock /\ pending = <<>> /\ Len(out) + Len(wire) = Sent
        /\ \A i \in 1..Len(wire) : wire[i] = Unit(Block(Len(out) + i), "whole")
    BY <1>1, <1>8 DEF RequestInv, PlainInv
  <2>3. DOMAIN taken = 1..n /\ \A i \in 1..n : taken[i] = wire[i]
    BY <1>3, CutUnits, LenProperties
  <2>4. new = [i \in 1..n |-> Block(Len(out) + i)]
    <3>1. \A i \in 1..n : i \in 1..Len(wire)
      BY <1>3, <1>7
    <3>2. \A i \in 1..n : taken[i].block = Block(Len(out) + i)
      BY <2>2, <2>3, <3>1, UnitParts
    <3> QED BY <2>3, <3>2
  <2>5. out' = out \o [i \in 1..n |-> Block(Len(out) + i)]
    BY <1>2, <2>1, <2>4
  <2> HIDE DEF taken, new
  <2>6. out' \in Seq(BlockSet) /\ Len(out') = Len(out) + n /\ \A i \in 1..Len(out') : out'[i] = Block(i)
    BY <1>3, <1>4, <1>7, <2>5, OutLonger
  <2>7. ASSUME NEW i \in 1..Len(wire')
        PROVE  wire'[i] = Unit(Block(Len(out') + i), "whole")
    <3>1. i \in 1..(Len(wire) - n) /\ n + i \in 1..Len(wire) /\ Len(out) + (n + i) = Len(out') + i
      BY <1>3, <1>7, <2>6
    <3> QED BY <1>7, <2>2, <3>1
  <2>8. Len(out') + Len(wire') = Sent
    <3>1. Len(out') = Len(out) + n /\ Len(wire') = Len(wire) - n /\ Len(out) + Len(wire) = Sent
      BY <1>7, <2>2, <2>6
    <3>2. Len(out) \in Nat /\ Len(wire) \in Nat /\ n \in Nat
      BY <1>3, <1>7
    <3> QED BY <3>1, <3>2
  <2>9. frame' = NoBlock /\ pending' = <<>> /\ pending' \in Seq(UnitSet)
    BY <1>2, <1>5, <2>1, <2>2, EmptySeq
  <2>10. PlainInv' /\ FramesInv'
    BY <1>6, <1>8, <2>7, <2>8, <2>9 DEF PlainInv, FramesInv
  <2>11. UNCHANGED <<phase, status>>
    BY <1>2, <2>1
  <2> DEFINE ok == TRUE
  <2>12. ok \in BOOLEAN /\ (IF ok THEN UNCHANGED <<phase, status>> ELSE Answer(Failed))
    BY <2>11
  <2> QED BY <1>1, <1>7, <2>6, <2>9, <2>10, <2>12, ReadMakes
<1>9. CASE Format = "zrip"
  <2> DEFINE got == Drain(pending \o SubSeq(wire, 1, n), Budget)
             ok == got.ok = TRUE
  <2>1. Got(n) = got
    BY <1>9 DEF Decompressed
  <2>2. got.ok \in BOOLEAN
    BY DEF Drain
  <2>3. /\ out' = out \o got.out /\ pending' = got.left
        /\ ok \in BOOLEAN /\ (IF ok THEN UNCHANGED <<phase, status>> ELSE Answer(Failed))
    BY <1>2, <2>1, <2>2
  <2>4. Stream' = got.left \o SubSeq(wire, n + 1, Len(wire))
    BY <1>2, <2>3 DEF Stream
  <2>5. CASE phase = "sent all" /\ Sent = 0
    <3>1. out = <<>> /\ Stream \in {<<>>, Frame(NoBlock)}
      BY <1>1, <1>9, <2>5 DEF RequestInv, FramesInv
    <3>2. Stream # <<>>
      <4>1. Len(Stream) = Len(pending) + Len(wire) /\ Len(pending) \in Nat
        BY <1>3, ConcatProperties, LenProperties DEF Stream
      <4>2. Len(Stream) > 0
        BY <1>3, <1>7, <4>1
      <4> QED BY <4>2, EmptySeq
    <3>3. pending \o wire = Frame(NoBlock)
      BY <3>1, <3>2 DEF Stream
    <3>4. /\ got.ok /\ got.out = <<>> /\ got.left \in Seq(UnitSet)
          /\ Stream' \in {<<>>, Frame(NoBlock)}
      BY <1>3, <2>4, <3>3, ReadEmpty
    <3> HIDE DEF got
    <3>5. out' = <<>> /\ out' \in Seq(BlockSet) /\ Len(out') = 0
      BY <2>3, <3>1, <3>4, ConcatEmptySeq, EmptySeq
    <3>6. phase' = phase
      BY <2>2, <2>3, <3>4
    <3>7. PlainInv' /\ FramesInv'
      BY <1>6, <1>9, <2>5, <3>4, <3>5, <3>6 DEF PlainInv, FramesInv
    <3>8. \A i \in 1..Len(out') : out'[i] = Block(i)
      BY <3>5
    <3>9. pending' \in Seq(UnitSet)
      BY <2>3, <3>4
    <3> HIDE DEF ok
    <3> QED BY <1>1, <1>7, <2>3, <3>5, <3>7, <3>8, <3>9, ReadMakes
  <2>6. CASE ~(phase = "sent all" /\ Sent = 0)
    <3> DEFINE k == Closed - Len(out)
    <3>1. Len(out) <= Closed /\ Framed(Stream, Len(out), k)
          /\ (phase = "body" => frame = IF Sent = 0 THEN NoBlock ELSE Block(Sent))
      BY <1>1, <1>9, <2>6 DEF RequestInv, FramesInv
    <3>2. Closed \in Nat
      <4>1. Sent \in Nat
        BY <1>3
      <4>2. Sent # 0 => Sent - 1 \in Nat
        BY <4>1
      <4> QED BY <4>1, <4>2 DEF Closed
    <3>3. k \in Nat /\ Len(out) + k = Closed
      BY <1>3, <3>1, <3>2
    <3> HIDE DEF k
    <3>4. Framed(pending \o wire, Len(out), k)
      BY <3>1 DEF Stream
    <3>5. PICK m \in 0..k :
            /\ got.out = [i \in 1..m |-> Block(Len(out) + i)] /\ got.left \in Seq(UnitSet)
            /\ Framed(Stream', Len(out) + m, k - m)
      BY <1>3, <2>4, <3>3, <3>4, ReadFrames
    <3> HIDE DEF got
    <3>6. m \in Nat
      OBVIOUS
    <3>7. out' = out \o [i \in 1..m |-> Block(Len(out) + i)] /\ pending' \in Seq(UnitSet)
      BY <2>3, <3>5
    <3>8. out' \in Seq(BlockSet) /\ Len(out') = Len(out) + m /\ \A i \in 1..Len(out') : out'[i] = Block(i)
      BY <1>3, <1>4, <3>6, <3>7, OutLonger
    <3>9. ASSUME phase' = phase
          PROVE  PlainInv' /\ FramesInv'
      <4>1. Closed' = Closed
        BY <1>6, <3>9 DEF Closed
      <4>2. Len(out') <= Closed' /\ Closed' - Len(out') = k - m
        <5>1. Len(out) \in Nat /\ k \in Nat /\ m \in 0..k
              /\ Len(out') = Len(out) + m /\ Closed' = Len(out) + k
          BY <1>3, <3>3, <3>8, <4>1
        <5> QED BY <5>1
      <4>3. \A units, first, j : Framed(units, first, j)' = Framed(units, first, j)
        BY <1>6 DEF Framed
      <4>4. Framed(Stream', Len(out'), Closed' - Len(out'))
        BY <3>5, <3>8, <4>2
      <4>5. Framed(Stream, Len(out), Closed - Len(out))'
        BY <1>6, <4>4 DEF Framed
      <4> QED BY <1>5, <1>6, <1>9, <2>6, <3>1, <3>9, <4>2, <4>5 DEF PlainInv, FramesInv
    <3>10. ok => PlainInv' /\ FramesInv'
      BY <2>3, <3>9
    <3> HIDE DEF ok
    <3> QED BY <1>1, <1>7, <2>3, <3>7, <3>8, <3>10, ReadMakes, SMTT(60)
  <2> QED BY <2>5, <2>6
<1> QED BY <1>3, <1>8, <1>9

-----------------------------------------------------------------------------
(* The end of a body.                                                      *)
LEMMA EndStep ==
  ASSUME RequestInv, EndOfBody
  PROVE  RequestInv'
<1>1. /\ phase = "sent all" /\ wire = <<>>
      /\ Answer(IF Complete THEN plan.status ELSE Failed)
      /\ UNCHANGED <<setting, files, request, real, answer, server, wire, client, listed, asked>>
  BY DEF EndOfBody
<1>2. CASE ~Complete
  <2>1. phase' = "idle" /\ status' = 599
    BY <1>1, <1>2, ZenonT(60) DEF Answer, Failed
  <2>2. UNCHANGED <<setting, files, request, real, answer, server, wire, client, listed, asked>>
    BY <1>1
  <2> QED BY <2>1, <2>2, Ends
<1>3. CASE Complete
  <2>1. /\ codec' = codec /\ token' = token /\ files' = files /\ kind' = kind /\ raw' = raw
        /\ real' = real /\ headers' = headers /\ plan' = plan /\ reader' = reader /\ frame' = frame
        /\ wire' = wire /\ pending' = pending /\ out' = out /\ listed' = listed
    BY <1>1 DEF setting, request, answer, server, client
  <2>2. phase' = "idle" /\ status' = plan.status
    BY <1>1, <1>3 DEF Answer
  <2>3. phase \in Streaming /\ phase \in Ready
    BY <1>1 DEF Streaming, Ready
  <2>4. /\ reader.version \in Nat /\ reader.pos \in Nat /\ reader.end \in Nat
        /\ plan.start \in Nat /\ plan.start <= reader.pos
        /\ Sent \in Nat /\ plan.start + Sent = reader.pos
        /\ out \in Seq(BlockSet) /\ Len(out) \in Nat
        /\ pending \in Seq(UnitSet) /\ Format \in {"zrip", "identity"}
    BY <2>3, BodyFacts
  <2>5. /\ plan.end \in Nat /\ plan.status \in Nat /\ plan.version \in Nat
    BY SMTT(60) DEF RequestInv, TypeInv
  <2>6. TypeInv'
    BY <2>1, <2>2, <2>5, SMTT(60) DEF RequestInv, TypeInv
  <2>7. PhaseInv' /\ PlanInv' /\ UnopenedInv' /\ ReaderInv' /\ PlainInv' /\ FramesInv'
    BY <2>2 DEF PhaseInv, PlanInv, UnopenedInv, ReaderInv, PlainInv, FramesInv, Kinds, Ready, Streaming
  <2>8. GrantInv'
    BY <2>1, <2>2 DEF RequestInv, GrantInv, Kinds, Ready
  <2>9. OutInv'
    BY <2>1 DEF RequestInv, OutInv, Block
  <2>11. /\ plan.start <= plan.end /\ Wanted = (plan.start + 1)..plan.end
         /\ headers.strict /\ plan.status = 206 =>
              plan.start = headers.range.first /\ plan.end <= headers.range.last + 1
         /\ headers.strict => headers.range.first \in Nat /\ headers.range.last \in Nat
    BY <2>3 DEF RequestInv, PlanInv
  <2>12. /\ Sent = 0 \/ reader.pos <= reader.end
         /\ reader.end <= plan.end /\ reader.end <= reader.pos
         /\ reader.version = plan.version => reader.end = plan.end
    BY <1>1, <2>3 DEF RequestInv, ReaderInv
  <2>13. Len(out) = Sent
    <3>1. CASE Format = "identity"
      <4>1. Len(out) + Len(wire) = Sent
        BY <2>3, <3>1 DEF RequestInv, PlainInv
      <4>2. Len(wire) = 0
        BY <1>1, EmptySeq
      <4> QED BY <2>4, <4>1, <4>2
    <3>2. CASE Format = "zrip"
      <4>1. pending = <<>>
        BY <1>3, <3>2 DEF Complete, WellFormed
      <4>2. Stream = <<>> /\ Len(Stream) = 0
        BY <1>1, <2>4, <4>1, ConcatEmptySeq, EmptySeq DEF Stream
      <4>3. IF Sent = 0 THEN out = <<>>
            ELSE Len(out) <= Closed /\ Framed(Stream, Len(out), Closed - Len(out))
        BY <1>1, <2>3, <3>2 DEF RequestInv, FramesInv
      <4>4. CASE Sent = 0
        BY <4>3, <4>4, EmptySeq
      <4>5. CASE Sent # 0
        <5>1. Closed = Sent
          BY <1>1 DEF Closed
        <5>2. Len(out) <= Sent /\ 2 * (Sent - Len(out)) = 0
          BY <4>2, <4>3, <4>5, <5>1 DEF Framed
        <5> QED BY <2>4, <5>2
      <4> QED BY <4>4, <4>5
    <3> QED BY <2>4, <3>1, <3>2
  <2>14. \A i \in 1..Len(out) : out[i] = <<real, reader.version, plan.start + i>>
    BY DEF RequestInv, OutInv, Block
  <2>15. DOMAIN out = 1..Len(out)
    BY <2>4, LenProperties
  <2> DEFINE got == {out[i][3] : i \in DOMAIN out}
  <2>16. got = (plan.start + 1)..(plan.start + Len(out))
    <3>1. \A i \in 1..Len(out) : out[i][3] = plan.start + i
      BY <2>14
    <3>2. got = {plan.start + i : i \in 1..Len(out)}
      BY <2>15, <3>1
    <3>3. ASSUME NEW x \in (plan.start + 1)..(plan.start + Len(out))
          PROVE  x \in {plan.start + i : i \in 1..Len(out)}
      <4>1. x - plan.start \in 1..Len(out) /\ plan.start + (x - plan.start) = x
        BY <2>4, SMTT(60)
      <4> QED BY <4>1
    <3>4. ASSUME NEW i \in 1..Len(out)
          PROVE  plan.start + i \in (plan.start + 1)..(plan.start + Len(out))
      BY <2>4, SMTT(60)
    <3> QED BY <3>2, <3>3, <3>4
  <2>17. \A i \in DOMAIN out : out[i] = <<real, reader.version, out[1][3] + i - 1>>
    <3> SUFFICES ASSUME NEW i \in 1..Len(out)
                 PROVE  out[i] = <<real, reader.version, out[1][3] + i - 1>>
      BY <2>15
    <3>1. 1 \in 1..Len(out)
      BY <2>4
    <3>2. out[1][3] = plan.start + 1
      BY <2>14, <3>1
    <3>3. (plan.start + 1) + i - 1 = plan.start + i
      BY <2>4
    <3> QED BY <2>14, <3>2, <3>3
  <2>18. got = (plan.start + 1)..reader.pos
    <3>1. plan.start + Len(out) = reader.pos
      BY <2>4, <2>13
    <3> QED BY <2>16, <3>1
  <2> HIDE DEF got
  <2>19. reader.pos <= plan.end \/ Sent = 0
    BY <2>4, <2>5, <2>12, SMTT(60)
  <2>20. got \subseteq Wanted
    <3>1. CASE Sent = 0
      BY <2>4, <2>11, <2>18, <3>1
    <3>2. CASE reader.pos <= plan.end
      BY <2>4, <2>5, <2>11, <2>18, <3>2, SMTT(60)
    <3> QED BY <2>19, <3>1, <3>2
  <2>21. ASSUME plan.end <= reader.pos
         PROVE  got = Wanted
    <3>1. CASE Sent = 0
      <4>1. reader.pos = plan.start /\ plan.end = plan.start
        BY <2>4, <2>5, <2>11, <2>21, <3>1
      <4> QED BY <2>11, <2>18, <4>1
    <3>2. CASE reader.pos <= plan.end
      <4>1. reader.pos = plan.end
        BY <2>4, <2>5, <2>21, <3>2, SMTT(60)
      <4> QED BY <2>11, <2>18, <4>1
    <3> QED BY <2>19, <3>1, <3>2
  <2>22. ~(reader.version # plan.version /\ Format = "zrip" /\ ~headers.strict) => got = Wanted
    <3>1. CASE reader.version = plan.version
      <4>1. plan.end <= reader.pos
        BY <2>12, <3>1
      <4> QED BY <2>21, <4>1
    <3>2. CASE Format = "identity"
      <4>1. Len(out) = plan.end - plan.start
        BY <1>3, <3>2 DEF Complete
      <4>2. plan.end <= reader.pos
        BY <2>4, <2>5, <2>13, <4>1
      <4> QED BY <2>21, <4>2
    <3>3. CASE headers.strict
      <4>1. plan.status = 206 /\ Len(out) = headers.range.last - headers.range.first + 1
        BY <1>3, <3>3 DEF Complete
      <4>2. plan.start = headers.range.first /\ plan.end <= headers.range.last + 1
            /\ headers.range.last \in Nat /\ headers.range.first \in Nat
        BY <2>11, <3>3, <4>1
      <4>3. plan.end <= reader.pos
        BY <2>4, <2>5, <2>13, <4>1, <4>2, SMTT(60)
      <4> QED BY <2>21, <4>3
    <3> QED BY <2>4, <3>1, <3>2, <3>3
  <2>23. AnswerIsTheRange'
    <3>1. Format' = Format /\ Wanted' = Wanted
      BY <2>1 DEF Format, Wanted, Named
    <3>2. (\A i \in DOMAIN out : out[i] = <<real, reader.version, out[1][3] + i - 1>>)'
      BY <2>1, <2>17
    <3>3. {out'[i][3] : i \in DOMAIN out'} = got
      BY <2>1 DEF got
    <3>4. IF reader'.version # plan'.version /\ Format' = "zrip" /\ ~headers'.strict
          THEN got \subseteq Wanted' ELSE got = Wanted'
      BY <2>1, <2>20, <2>22, <3>1
    <3> QED BY <3>2, <3>3, <3>4 DEF AnswerIsTheRange
  <2> QED BY <2>6, <2>7, <2>8, <2>9, <2>23 DEF RequestInv
<1> QED BY <1>2, <1>3

LEMMA BreakStep ==
  ASSUME RequestInv, Break
  PROVE  RequestInv'
<1>1. phase' = "idle" /\ status' = 599
      /\ UNCHANGED <<setting, files, request, real, answer, server, wire, client, listed, asked>>
  BY DEF Break, Answer, Failed
<1> QED BY <1>1, Ends

-----------------------------------------------------------------------------
(* The theorems.                                                           *)
LEMMA RequestInit == Init => RequestInv
<1> SUFFICES ASSUME Init
             PROVE  RequestInv
  OBVIOUS
<1>1. /\ codec \in Codecs /\ token \in Tokens /\ files \in Trees
      /\ phase = "idle" /\ kind = "list" /\ raw = <<>> /\ real = <<>>
      /\ headers = NoHeaders /\ plan = NoPlan /\ reader = NoReader
      /\ frame = NoBlock /\ wire = <<>> /\ pending = <<>> /\ out = <<>>
      /\ status = 0 /\ listed = {}
  BY DEF Init
<1>2. TypeInv
  <2>1. <<>> \in Path /\ <<>> \in Seq(UnitSet) /\ <<>> \in Seq(BlockSet)
    BY EmptySeq DEF Path
  <2>2. NoPlan \in [status : {0, 200, 206}, start : Nat, end : Nat, version : Nat, size : Nat]
        /\ NoReader \in [version : Nat, pos : Nat, end : Nat]
        /\ NoHeaders.zrip \in BOOLEAN /\ NoHeaders.strict \in BOOLEAN
    BY DEF NoPlan, NoReader, NoHeaders
  <2>3. DOMAIN files \subseteq Path /\ files \in [DOMAIN files -> [version : Nat, size : 0..UMax]]
    BY <1>1, TreesAssumption, NamesArePaths
  <2>4. phase \in {"idle", "sent", "known", "named"} \cup Kinds \cup Ready /\ kind \in Kinds
    BY <1>1 DEF Kinds
  <2> QED BY <1>1, <2>1, <2>2, <2>3, <2>4 DEF TypeInv
<1>3. PhaseInv /\ PlanInv /\ UnopenedInv /\ ReaderInv /\ PlainInv /\ FramesInv
  BY <1>1 DEF PhaseInv, PlanInv, UnopenedInv, ReaderInv, PlainInv, FramesInv, Kinds, Ready, Streaming
<1>4. GrantInv
  BY <1>1 DEF GrantInv, Kinds, Ready
<1>5. OutInv
  BY <1>1, EmptySeq DEF OutInv
<1>6. AnswerIsTheRange
  BY <1>1 DEF AnswerIsTheRange
<1> QED BY <1>2, <1>3, <1>4, <1>5, <1>6 DEF RequestInv

LEMMA RequestStep == RequestInv /\ [Next]_vars => RequestInv'
<1> SUFFICES ASSUME RequestInv, [Next]_vars
             PROVE  RequestInv'
  OBVIOUS
<1>1. CASE Ask
  BY <1>1, AskStep
<1>2. CASE ValidateProtocol \/ Authenticate
  BY <1>2, CheckStep, SMTT(60)
<1>3. CASE Resolve
  BY <1>3, ResolveStep
<1>4. CASE List
  BY <1>4, ListStep
<1>5. CASE Upload
  BY <1>5, UploadStep
<1>6. CASE PlanDownload
  BY <1>6, PlanStep
<1>7. CASE OpenFile
  BY <1>7, OpenStep
<1>8. CASE Produce
  BY <1>8, ProduceStep
<1>9. CASE FinishBody
  BY <1>9, FinishStep
<1>10. CASE Read
  BY <1>10, ReadStep
<1>11. CASE EndOfBody
  BY <1>11, EndStep
<1>12. CASE Break
  BY <1>12, BreakStep
<1>13. CASE Disturb
  BY <1>13, DisturbStep
<1>14. CASE UNCHANGED vars
  <2>1. /\ codec' = codec /\ token' = token /\ files' = files /\ phase' = phase /\ kind' = kind
        /\ raw' = raw /\ real' = real /\ headers' = headers /\ plan' = plan /\ reader' = reader
        /\ frame' = frame /\ wire' = wire /\ pending' = pending /\ out' = out
        /\ status' = status /\ listed' = listed
    BY <1>14 DEF vars, setting, request, answer, server, client
  <2>2. TypeInv' /\ PhaseInv'
    BY <2>1, SMTT(60) DEF RequestInv, TypeInv, PhaseInv
  <2>3. GrantInv'
    BY <2>1 DEF RequestInv, GrantInv, Granted, Matches, Need
  <2>4. PlanInv' /\ UnopenedInv' /\ ReaderInv' /\ OutInv'
    BY <2>1, ZenonT(60) DEF RequestInv, PlanInv, UnopenedInv, ReaderInv, OutInv, Wanted, Named, Sent,
                                    Block, IsFile
  <2>5. PlainInv' /\ FramesInv'
    BY <2>1 DEF RequestInv, PlainInv, FramesInv, Framed, Stream, Closed, Sent, Block, Format
  <2>6. AnswerIsTheRange'
    <3>1. Format' = Format /\ Wanted' = Wanted
      BY <2>1 DEF Format, Wanted, Named
    <3>2. {out'[i][3] : i \in DOMAIN out'} = {out[i][3] : i \in DOMAIN out}
      BY <2>1
    <3>3. AnswerIsTheRange
      BY DEF RequestInv
    <3> QED BY <2>1, <3>1, <3>2, <3>3 DEF AnswerIsTheRange
  <2> QED BY <2>2, <2>3, <2>4, <2>5, <2>6 DEF RequestInv
<1> QED BY <1>1, <1>2, <1>3, <1>4, <1>5, <1>6, <1>7, <1>8, <1>9, <1>10, <1>11, <1>12, <1>13, <1>14 DEF Next

(* The invariant: what the phases mean, what was granted, which blocks the *)
(* plan takes, where the reader is in the file it opened, and that what is *)
(* on the wire and in the decompressor are the frames of the blocks after  *)
(* those that came out (handlers.rs, compress.rs).                         *)
THEOREM RequestInvariant == Spec => []RequestInv
<1>1. Init => RequestInv
  BY RequestInit
<1>2. RequestInv /\ [Next]_vars => RequestInv'
  BY RequestStep
<1> QED BY <1>1, <1>2, PTL DEF Spec

(* No codec, however it translates and whatever it is asked for, leads out *)
(* of what a token opens: what is read, listed or written is in a subtree  *)
(* of the real tree that the claims name, with the permission              *)
(* (resolve_client_path, list_dir_impl, PathValidator).                    *)
THEOREM NothingUngranted == Spec => []OnlyGranted
<1>1. RequestInv => OnlyGranted
  <2> SUFFICES ASSUME RequestInv
               PROVE  OnlyGranted
    OBVIOUS
  <2>1. token.paths \subseteq Path /\ real \in Path /\ out \in Seq(BlockSet)
        /\ listed \subseteq [real : Path, shadow : Path]
    BY TokensAssumption, SMTT(60) DEF RequestInv, TypeInv
  <2>2. ASSUME NEW path \in Path, NEW action, Granted(token, path, action)
        PROVE  /\ action \in token.permissions
               /\ \E prefix \in token.paths :
                    Len(prefix) <= Len(path) /\ SubSeq(path, 1, Len(prefix)) = prefix
    <3>1. PICK prefix \in token.paths : IsPrefix(prefix, path) /\ action \in token.permissions
      BY <2>2 DEF Granted, Matches
    <3>2. prefix \in Path /\ Len(prefix) \in Nat
      BY <2>1, PathLength
    <3>3. Len(prefix) <= Len(path) /\ \A i \in 1..Len(prefix) : prefix[i] = path[i]
      BY <3>1, <3>2, PrefixIs
    <3>4. Len(path) \in Nat /\ Len(prefix) \in 0..Len(path)
      BY <3>2, <3>3, PathLength
    <3>5. /\ SubSeq(path, 1, Len(prefix)) \in Path /\ Len(SubSeq(path, 1, Len(prefix))) = Len(prefix)
          /\ \A i \in 1..Len(prefix) : SubSeq(path, 1, Len(prefix))[i] = path[i]
      BY <3>4, CutPath
    <3>6. SubSeq(path, 1, Len(prefix)) = prefix
      BY <3>2, <3>3, <3>5, SeqEqual DEF Path
    <3> QED BY <3>1, <3>3, <3>6
  <2>3. ASSUME NEW i \in DOMAIN out
        PROVE  out[i][1] = real /\ Granted(token, real, "read")
    <3>1. DOMAIN out = 1..Len(out) /\ out # <<>>
      BY <2>1, LenProperties
    <3>2. out[i] = Block(i)
      BY <3>1 DEF RequestInv, OutInv
    <3> QED BY <3>1, <3>2 DEF RequestInv, GrantInv, Block
  <2>4. ASSUME NEW entry \in listed
        PROVE  entry.real \in Path /\ Granted(token, entry.real, "read")
    BY <2>1 DEF RequestInv, GrantInv
  <2>5. ASSUME phase = "put"
        PROVE  Granted(token, real, "write")
    BY <2>5 DEF RequestInv, GrantInv, PhaseInv, Need, Kinds
  <2>6. ASSUME NEW access \in Reached
        PROVE  access[2] \in Path /\ Granted(token, access[2], access[1])
    <3>1. CASE access \in {<<"read", out[i][1]>> : i \in DOMAIN out}
      BY <2>1, <2>3, <3>1
    <3>2. CASE access \in {<<"read", entry.real>> : entry \in listed}
      BY <2>4, <3>2
    <3>3. CASE phase = "put" /\ access = <<"write", real>>
      BY <2>1, <2>5, <3>3
    <3> QED BY <3>1, <3>2, <3>3 DEF Reached
  <2> QED BY <2>2, <2>6 DEF OnlyGranted
<1> QED BY <1>1, RequestInvariant, PTL

(* Whatever range, size, budget and cut: the answer a client accepts is    *)
(* the blocks it asked for, in order and of one version, and if the file   *)
(* was replaced before it was opened, at most those (plan_download,        *)
(* read_stream, CompressedStream, drain_frames).                           *)
THEOREM AnswersAreRanges == Spec => []AnswerIsTheRange
<1>1. RequestInv => AnswerIsTheRange
  BY DEF RequestInv
<1> QED BY <1>1, RequestInvariant, PTL

=============================================================================
