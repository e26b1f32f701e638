---------------------------- MODULE TuningProofs ----------------------------
(***************************************************************************)
(* Theorems about Tuning, for any origins, capabilities, rates and tables, *)
(* and for any rows other pages may store.                                 *)
(***************************************************************************)
EXTENDS Tuning, TLAPS

(* What the type invariant needs to be inductive: a transfer that runs has *)
(* capabilities; in a degraded hold every window without an error counts   *)
(* for both counters, and the second one settles.                          *)
HoldCounted ==
  phase = "degraded" => held <= low /\ (low = 1 => ~AtCap)

TuneInv == TuneTypeOK /\ HoldCounted /\ (active => caps # None)

(* WithinLimits and BudgetKept, said of any table.                         *)
Inside(p, c, h) ==
  \A f \in Fields :
    /\ p[f] <= Hard[f]
    /\ c[f].min <= c[f].max =>
         /\ p[f] <= MaxOf(c[f].max, 1)
         /\ f \in Windowed /\ ~h => p[f] >= FloorOf(c[f], Hard[f])

Affordable(p) ==
  \A d \in Directions : p["concurrency"] * p[d] * p["chunk"] <= HardBytes

-----------------------------------------------------------------------------
(* Arithmetic.                                                             *)

LEMMA ProductPositive ==
  ASSUME NEW a \in Nat \ {0}, NEW b \in Nat \ {0}
  PROVE  a * b \in Nat \ {0}
OBVIOUS

LEMMA ProductGrows ==
  ASSUME NEW a \in Nat, NEW b \in Nat, NEW c \in Nat, NEW e \in Nat, a <= b, c <= e
  PROVE  a * c <= b * e
<1>1. a * c <= b * c
  <2>1. PICK k \in Nat : b = a + k
    OBVIOUS
  <2>2. b * c = a * c + k * c
    BY <2>1
  <2>3. k * c >= 0 /\ a * c \in Int
    BY <2>1
  <2> QED BY <2>2, <2>3
<1>2. b * c <= b * e
  <2>1. PICK k \in Nat : e = c + k
    OBVIOUS
  <2>2. b * e = b * c + b * k
    BY <2>1
  <2>3. b * k >= 0 /\ b * c \in Int
    BY <2>1
  <2> QED BY <2>2, <2>3
<1> QED BY <1>1, <1>2

LEMMA ShareFits ==
  ASSUME NEW n \in Nat, NEW k \in Nat \ {0}
  PROVE  n \div k \in Nat /\ k * (n \div k) <= n
OBVIOUS

LEMMA ClampBetween ==
  ASSUME NEW v \in Int, NEW lo \in Int, NEW hi \in Int, lo <= hi
  PROVE  /\ Clamp(v, lo, hi) \in lo..hi
         /\ v >= lo => Clamp(v, lo, hi) <= v
BY DEF Clamp, MinOf, MaxOf

(* bounded() and floor_of() stay between one and the client's ceiling, and *)
(* within the advertised range if that is one.                             *)
LEMMA BoundedWithin ==
  ASSUME NEW v \in Nat, NEW b \in Bounds, NEW h \in Nat \ {0}
  PROVE  /\ FloorOf(b, h) \in 1..h
         /\ Bounded(v, b, h) \in 1..h
         /\ b.min <= b.max => /\ FloorOf(b, h) <= MaxOf(b.max, 1)
                              /\ Bounded(v, b, h) <= MaxOf(b.max, 1)
                              /\ Bounded(v, b, h) >= FloorOf(b, h)
<1>1. b.min \in Int /\ b.max \in Int
  BY DEF Bounds
<1> QED BY <1>1 DEF FloorOf, Bounded, Clamp, MinOf, MaxOf

-----------------------------------------------------------------------------
(* Tables.                                                                 *)

LEMMA TableFields ==
  ASSUME NEW p \in Tables
  PROVE  /\ \A f \in Fields : p[f] \in Nat \ {0}
         /\ DOMAIN p = Fields
         /\ Fields = {"concurrency", "upload", "download", "chunk"}
BY DEF Tables, Fields, Windowed

LEMMA AdvertFields ==
  ASSUME NEW c \in Adverts, NEW f \in Fields
  PROVE  c[f] \in Bounds /\ c[f].min \in Int /\ c[f].max \in Int /\ Hard[f] \in Nat \ {0} /\ c # None
BY AdvertAssumption, TableAssumption, TableFields DEF Bounds

LEMMA ClampedTables ==
  ASSUME NEW c \in Adverts, NEW p \in Tables, NEW h \in BOOLEAN
  PROVE  /\ ClampedInto(p, c) \in Tables /\ Inside(ClampedInto(p, c), c, h)
         /\ FromCapsMins(c) \in Tables /\ Inside(FromCapsMins(c), c, h)
<1>1. ASSUME NEW f \in Fields
      PROVE  /\ Bounded(p[f], c[f], Hard[f]) \in 1..Hard[f]
             /\ FloorOf(c[f], Hard[f]) \in 1..Hard[f]
             /\ c[f].min <= c[f].max =>
                  /\ Bounded(p[f], c[f], Hard[f]) <= MaxOf(c[f].max, 1)
                  /\ Bounded(p[f], c[f], Hard[f]) >= FloorOf(c[f], Hard[f])
                  /\ FloorOf(c[f], Hard[f]) <= MaxOf(c[f].max, 1)
  BY AdvertFields, TableFields, BoundedWithin
<1>2. \A f \in Fields : Hard[f] \in Nat \ {0}
  BY AdvertFields
<1>3. ClampedInto(p, c) \in Tables /\ FromCapsMins(c) \in Tables
  BY <1>1, <1>2 DEF ClampedInto, FromCapsMins, Tables
<1>4. Inside(ClampedInto(p, c), c, h)
  BY <1>1, <1>2 DEF ClampedInto, Inside
<1>5. Inside(FromCapsMins(c), c, h)
  BY <1>1, <1>2 DEF FromCapsMins, Inside
<1> QED BY <1>3, <1>4, <1>5

(* The wider direction decides what a chunk may be.                        *)
LEMMA MaxChunkFits ==
  ASSUME NEW p \in Tables, \A f \in Fields : p[f] <= Hard[f],
         NEW n \in Nat, n <= MaxChunk(p)
  PROVE  \A d \in Directions : p["concurrency"] * p[d] * n <= HardBytes
<1> DEFINE a == p["concurrency"]
           m == MaxOf(p["upload"], p["download"])
           share == HardBytes \div (a * m)
<1>1. a \in Nat \ {0} /\ m \in Nat \ {0} /\ HardBytes \in Nat
  BY TableFields, BytesAssumption DEF MaxOf
<1>2. a * m \in Nat \ {0}
  BY <1>1, ProductPositive
<1>3. share \in Nat /\ (a * m) * share <= HardBytes
  BY <1>1, <1>2, ShareFits
<1>4. a * m <= HardBytes
  <2>1. PICK d \in Directions : m = p[d]
    BY DEF MaxOf, Directions
  <2>2. a <= Hard["concurrency"] /\ m <= Hard[d]
        /\ Hard["concurrency"] \in Nat /\ Hard[d] \in Nat
    BY <2>1, TableAssumption, TableFields DEF Directions
  <2>3. a * m <= Hard["concurrency"] * Hard[d]
    BY <1>1, <2>2, ProductGrows
  <2>4. Hard["concurrency"] * Hard[d] \in Nat
    BY <2>2
  <2> HIDE DEF a, m
  <2> QED BY <1>1, <1>2, <2>3, <2>4, BytesAssumption
<1>5. (a * m) * n <= HardBytes
  <2>1. n <= 1 \/ n <= share
    BY <1>1, <1>3 DEF MaxChunk, MaxOf
  <2> HIDE DEF a, m, share
  <2>2. CASE n <= 1
    <3>1. (a * m) * n <= (a * m) * 1
      BY <2>2, <1>2, ProductGrows
    <3> QED BY <3>1, <1>1, <1>2, <1>4
  <2>3. CASE n <= share
    <3>1. (a * m) * n <= (a * m) * share
      BY <2>3, <1>2, <1>3, ProductGrows
    <3> QED BY <3>1, <1>1, <1>2, <1>3
  <2> QED BY <2>1, <2>2, <2>3
<1>6. ASSUME NEW d \in Directions
      PROVE  a * p[d] * n <= HardBytes
  <2>1. p[d] \in Nat /\ p[d] <= m
    BY TableFields DEF MaxOf, Directions
  <2> DEFINE q == p[d]
  <2> HIDE DEF a, m, q
  <2>2. a * q <= a * m /\ a * q \in Nat
    BY <1>1, <2>1, ProductGrows DEF q
  <2>3. (a * q) * n <= (a * m) * n /\ (a * q) * n \in Nat /\ (a * m) * n \in Nat
    BY <1>2, <2>2, ProductGrows
  <2> QED BY <2>3, <1>5, <1>1 DEF q
<1> QED BY <1>6

LEMMA MaxChunkPositive ==
  ASSUME NEW p \in Tables
  PROVE  MaxChunk(p) \in Nat \ {0}
<1>1. p["concurrency"] * MaxOf(p["upload"], p["download"]) \in Nat \ {0}
  BY TableFields, ProductPositive DEF MaxOf
<1>2. HardBytes \div (p["concurrency"] * MaxOf(p["upload"], p["download"])) \in Nat
  BY <1>1, ShareFits, BytesAssumption
<1> QED BY <1>2 DEF MaxChunk, MaxOf

(* enforce_in_flight_budget changes nothing but the chunk, and only down.  *)
LEMMA BudgetedFits ==
  ASSUME NEW p \in Tables
  PROVE  /\ Budgeted(p) \in Tables
         /\ \A f \in Windowed : Budgeted(p)[f] = p[f]
         /\ Budgeted(p)["chunk"] <= p["chunk"]
         /\ \A c \in Adverts, h \in BOOLEAN : Inside(p, c, h) => Inside(Budgeted(p), c, h)
         /\ (\A f \in Fields : p[f] <= Hard[f]) => Affordable(Budgeted(p))
<1> DEFINE n == Clamp(p["chunk"], 1, MaxChunk(p))
<1>1. n \in Nat \ {0} /\ n <= p["chunk"] /\ n <= MaxChunk(p) /\ p["chunk"] \in Nat
  <2>1. p["chunk"] \in Nat \ {0}
    BY TableFields
  <2>2. MaxChunk(p) \in Nat \ {0}
    BY MaxChunkPositive
  <2> QED BY <2>1, <2>2 DEF Clamp, MinOf, MaxOf
<1>2. Budgeted(p) = [p EXCEPT !["chunk"] = n]
  BY DEF Budgeted
<1> HIDE DEF n
<1>3. /\ Budgeted(p) \in Tables /\ Budgeted(p)["chunk"] = n
      /\ \A f \in Windowed : Budgeted(p)[f] = p[f]
  BY <1>1, <1>2, TableFields DEF Tables, Fields, Windowed
<1>4. ASSUME NEW c \in Adverts, NEW h \in BOOLEAN, Inside(p, c, h)
      PROVE  Inside(Budgeted(p), c, h)
  <2>1. ASSUME NEW f \in Fields
        PROVE  /\ Budgeted(p)[f] <= Hard[f]
               /\ c[f].min <= c[f].max =>
                    /\ Budgeted(p)[f] <= MaxOf(c[f].max, 1)
                    /\ f \in Windowed /\ ~h => Budgeted(p)[f] >= FloorOf(c[f], Hard[f])
    <3>1. CASE f \in Windowed
      BY <3>1, <1>3, <1>4 DEF Inside, Fields
    <3>2. CASE f = "chunk"
      <4>1. p[f] <= Hard[f] /\ (c[f].min <= c[f].max => p[f] <= MaxOf(c[f].max, 1))
        BY <1>4 DEF Inside
      <4>2. c[f].max \in Int /\ Hard[f] \in Nat
        BY AdvertFields
      <4> QED BY <3>2, <4>1, <4>2, <1>1, <1>3 DEF Windowed, MaxOf
    <3> QED BY <3>1, <3>2 DEF Fields
  <2> QED BY <2>1 DEF Inside
<1>5. ASSUME \A f \in Fields : p[f] <= Hard[f]
      PROVE  Affordable(Budgeted(p))
  <2>1. \A d \in Directions : p["concurrency"] * p[d] * n <= HardBytes
    BY <1>1, <1>5, MaxChunkFits
  <2> QED BY <2>1, <1>3 DEF Affordable, Directions, Windowed
<1> QED BY <1>1, <1>3, <1>4, <1>5

(* What a tick's retuning keeps of the live table.                         *)
LEMMA RetunedFits ==
  ASSUME params \in Tables, caps \in Adverts, NEW rate \in Rates
  PROVE  /\ Retuned(params, rate) \in Tables
         /\ \A f \in Windowed : Retuned(params, rate)[f] = params[f]
         /\ \A h \in BOOLEAN :
              Inside(params, caps, h) => Inside(Retuned(params, rate), caps, h)
         /\ (\A f \in Fields : params[f] <= Hard[f]) /\ Affordable(params)
              => Affordable(Retuned(params, rate))
<1> DEFINE n == ChunkForLink(rate, caps["chunk"], MaxChunk(params))
           p == [params EXCEPT !["chunk"] = n]
           b == caps["chunk"]
<1>1. /\ b \in Bounds /\ b.min \in Int /\ b.max \in Int
      /\ Hard["chunk"] \in Nat \ {0} /\ MaxChunk(params) \in Nat \ {0} /\ rate \in Nat
  BY AdvertFields, MaxChunkPositive, RatesAssumption DEF Fields
<1>2. /\ FloorOf(b, Hard["chunk"]) \in 1..Hard["chunk"]
      /\ Bounded(rate, b, Hard["chunk"]) \in 1..Hard["chunk"]
      /\ b.min <= b.max => /\ FloorOf(b, Hard["chunk"]) <= MaxOf(b.max, 1)
                           /\ Bounded(rate, b, Hard["chunk"]) <= MaxOf(b.max, 1)
  BY <1>1, BoundedWithin
<1>3. /\ n \in Nat \ {0} /\ n <= Hard["chunk"]
      /\ b.min <= b.max => n <= MaxOf(b.max, 1)
  <2>1. CASE rate = 0
    <3>1. n = MinOf(FloorOf(b, Hard["chunk"]), MaxChunk(params))
      BY <2>1 DEF ChunkForLink
    <3> HIDE DEF n, b
    <3> QED BY <3>1, <1>1, <1>2 DEF MinOf, MaxOf
  <2>2. CASE rate # 0
    <3>1. n = Clamp(Bounded(rate, b, Hard["chunk"]), 1, MaxChunk(params))
      BY <2>2 DEF ChunkForLink
    <3> HIDE DEF n, b
    <3> QED BY <3>1, <1>1, <1>2 DEF Clamp, MinOf, MaxOf
  <2> QED BY <2>1, <2>2
<1>4. Retuned(params, rate) \in {params, Budgeted(p)}
  BY DEF Retuned
<1> HIDE DEF n
<1>5. /\ p \in Tables /\ p["chunk"] = n
      /\ \A f \in Windowed : p[f] = params[f]
  BY <1>3, TableFields DEF Tables, Fields, Windowed
<1>6. ASSUME NEW h \in BOOLEAN, Inside(params, caps, h)
      PROVE  Inside(p, caps, h)
  BY <1>6, <1>3, <1>5 DEF Inside, Fields, Windowed
<1>7. ASSUME \A f \in Fields : params[f] <= Hard[f]
      PROVE  \A f \in Fields : p[f] <= Hard[f]
  BY <1>7, <1>3, <1>5 DEF Fields
<1> HIDE DEF p
<1> QED BY <1>4, <1>5, <1>6, <1>7, BudgetedFits

(* The maximum of a ramp, and one step of it.                              *)
LEMMA RampedFits ==
  ASSUME TuneInv, caps # None
  PROVE  /\ Ramped \in Windowed /\ Ramped \in Fields
         /\ DimMax \in Nat \ {0} /\ DimMax <= Hard[Ramped]
         /\ DimMax <= MaxOf(caps[Ramped].max, 1)
         /\ params[Ramped] \in Nat \ {0}
<1>1. Ramped \in Windowed /\ Ramped \in Fields
  BY DEF TuneInv, TuneTypeOK, Ramped, Directions, Windowed, Fields
<1>2. caps[Ramped].max \in Int /\ Hard[Ramped] \in Nat \ {0}
  BY <1>1, AdvertFields DEF TuneInv, TuneTypeOK
<1>3. params[Ramped] \in Nat \ {0}
  BY <1>1, TableFields DEF TuneInv, TuneTypeOK
<1> QED BY <1>1, <1>2, <1>3 DEF DimMax, MaxOf, MinOf

LEMMA StepGrows ==
  ASSUME NEW v \in Nat \ {0}, NEW m \in Nat \ {0}, DimMax = m
  PROVE  /\ Step(v) \in Nat \ {0} /\ Step(v) <= m
         /\ v < m => Step(v) >= v
BY DEF Step, MinOf

LEMMA RaisedFits ==
  ASSUME TuneInv, caps # None, ~AtCap, NEW t \in Tables,
         \A f \in Windowed : t[f] = params[f]
  PROVE  /\ Raised(t) \in Tables
         /\ \A h \in BOOLEAN : Inside(t, caps, h) => Inside(Raised(t), caps, h)
<1> DEFINE v == t[Ramped]
           n == MaxOf(Step(v), 1)
<1>1. /\ Ramped \in Windowed /\ Ramped \in Fields /\ DimMax \in Nat \ {0}
      /\ DimMax <= Hard[Ramped] /\ DimMax <= MaxOf(caps[Ramped].max, 1)
      /\ v \in Nat \ {0} /\ v < DimMax
      /\ Hard[Ramped] \in Nat \ {0} /\ caps[Ramped].max \in Int
  <2>1. /\ Ramped \in Windowed /\ Ramped \in Fields /\ DimMax \in Nat \ {0}
        /\ DimMax <= Hard[Ramped] /\ DimMax <= MaxOf(caps[Ramped].max, 1)
        /\ params[Ramped] \in Nat \ {0}
    BY RampedFits
  <2>2. Hard[Ramped] \in Nat \ {0} /\ caps[Ramped].max \in Int
    BY <2>1, AdvertFields DEF TuneInv, TuneTypeOK
  <2> QED BY <2>1, <2>2 DEF AtCap
<1>2. n \in Nat \ {0} /\ n <= DimMax /\ n >= v
  <2> HIDE DEF v
  <2>1. Step(v) \in Nat \ {0} /\ Step(v) <= DimMax /\ Step(v) >= v
    BY <1>1, StepGrows
  <2> QED BY <2>1 DEF MaxOf
<1>3. Raised(t) = [t EXCEPT ![Ramped] = n]
  BY DEF Raised
<1> HIDE DEF n
<1>4. /\ Raised(t) \in Tables /\ Raised(t)[Ramped] = n
      /\ \A f \in Fields \ {Ramped} : Raised(t)[f] = t[f]
  BY <1>1, <1>2, <1>3 DEF Tables
<1>5. ASSUME NEW h \in BOOLEAN, Inside(t, caps, h)
      PROVE  Inside(Raised(t), caps, h)
  <2>1. ASSUME NEW f \in Fields, f # Ramped
        PROVE  Raised(t)[f] = t[f]
    BY <2>1, <1>4
  <2>2. /\ Raised(t)[Ramped] <= Hard[Ramped]
        /\ caps[Ramped].min <= caps[Ramped].max =>
             /\ Raised(t)[Ramped] <= MaxOf(caps[Ramped].max, 1)
             /\ ~h => Raised(t)[Ramped] >= FloorOf(caps[Ramped], Hard[Ramped])
    <3>1. FloorOf(caps[Ramped], Hard[Ramped]) \in Int
      BY <1>1, BoundedWithin, AdvertFields DEF TuneInv, TuneTypeOK
    <3>2. MaxOf(caps[Ramped].max, 1) \in Int
      BY <1>1 DEF MaxOf
    <3>3. caps[Ramped].min <= caps[Ramped].max /\ ~h => v >= FloorOf(caps[Ramped], Hard[Ramped])
      BY <1>1, <1>5 DEF Inside
    <3> HIDE DEF v
    <3> QED BY <3>1, <3>2, <3>3, <1>1, <1>2, <1>4
  <2> QED BY <2>1, <2>2, <1>5 DEF Inside
<1> QED BY <1>4, <1>5

LEMMA HalvedFits ==
  ASSUME TuneInv, caps # None, NEW t \in Tables
  PROVE  /\ Halved(t) \in Tables /\ \A f \in Fields : Halved(t)[f] <= t[f]
         /\ Inside(t, caps, TRUE) => Inside(Halved(t), caps, TRUE)
         /\ Affordable(t) => Affordable(Halved(t))
<1> DEFINE n == MaxOf(t[Ramped] \div 2, 1)
<1>1. Ramped \in Windowed /\ Ramped \in Fields /\ t[Ramped] \in Nat \ {0}
  BY RampedFits, TableFields
<1>2. n \in Nat \ {0} /\ n <= t[Ramped]
  BY <1>1 DEF MaxOf
<1>3. Halved(t) = [t EXCEPT ![Ramped] = n]
  BY DEF Halved
<1> HIDE DEF n
<1>4. /\ Halved(t) \in Tables /\ Halved(t)[Ramped] = n
      /\ \A f \in Fields \ {Ramped} : Halved(t)[f] = t[f]
  BY <1>1, <1>2, <1>3 DEF Tables
<1>5. ASSUME NEW f \in Fields PROVE Halved(t)[f] \in Nat /\ t[f] \in Nat /\ Halved(t)[f] <= t[f]
  BY <1>1, <1>2, <1>4, TableFields
<1>6. ASSUME Inside(t, caps, TRUE) PROVE Inside(Halved(t), caps, TRUE)
  <2>1. ASSUME NEW f \in Fields
        PROVE  /\ Halved(t)[f] <= Hard[f]
               /\ caps[f].min <= caps[f].max => Halved(t)[f] <= MaxOf(caps[f].max, 1)
    <3>1. t[f] <= Hard[f] /\ (caps[f].min <= caps[f].max => t[f] <= MaxOf(caps[f].max, 1))
      BY <1>6 DEF Inside
    <3>2. Hard[f] \in Nat /\ MaxOf(caps[f].max, 1) \in Int
      BY AdvertFields DEF MaxOf, TuneInv, TuneTypeOK
    <3> QED BY <3>1, <3>2, <1>5
  <2> QED BY <2>1 DEF Inside
<1>7. ASSUME Affordable(t) PROVE Affordable(Halved(t))
  <2>1. ASSUME NEW d \in Directions
        PROVE  Halved(t)["concurrency"] * Halved(t)[d] * Halved(t)["chunk"] <= HardBytes
    <3> DEFINE a == Halved(t)["concurrency"] b == Halved(t)[d] c == Halved(t)["chunk"]
               x == t["concurrency"] y == t[d] z == t["chunk"]
    <3>1. /\ a \in Nat /\ b \in Nat /\ c \in Nat /\ x \in Nat /\ y \in Nat /\ z \in Nat
          /\ a <= x /\ b <= y /\ c <= z
      BY <1>5 DEF Directions, Fields, Windowed
    <3>2. x * y * z <= HardBytes
      BY <1>7 DEF Affordable
    <3> HIDE DEF a, b, c, x, y, z
    <3>3. a * b <= x * y /\ a * b \in Nat /\ x * y \in Nat
      BY <3>1, ProductGrows
    <3>4. a * b * c <= x * y * z /\ a * b * c \in Nat /\ x * y * z \in Nat
      BY <3>1, <3>3, ProductGrows
    <3>5. a * b * c <= HardBytes
      BY <3>2, <3>4, BytesAssumption
    <3> QED BY <3>5 DEF a, b, c
  <2> QED BY <2>1 DEF Affordable
<1> QED BY <1>4, <1>5, <1>6, <1>7

-----------------------------------------------------------------------------
(* What a window can do, in its seven ways: each is applied to a table     *)
(* that differs from the live one in its chunk only.                       *)
LEMMA WindowCases ==
  ASSUME TuneInv, CloseWindow
  PROVE  /\ active /\ caps \in Adverts /\ UNCHANGED <<scope, active>>
         /\ prev' \in Nat /\ rtt' \in {"none", "level", "inflated"}
         /\ \E rate \in Rates :
              LET t == Retuned(params, rate) IN
              \/ Degrade(t)
              \/ Advance(t) /\ (phase # "degraded" \/ AtCap)
              \/ Settle(t)
              \/ Raise(t) /\ ~AtCap /\ phase = "ramping"
              \/ Hold(t) /\ ~AtCap /\ low = 0
<1>1. active /\ caps \in Adverts /\ UNCHANGED <<scope, active>>
  BY DEF CloseWindow, TuneInv, TuneTypeOK
<1>2. PICK rate \in Rates, err \in BOOLEAN, sample \in Samples, full \in BOOLEAN :
        /\ Evaluate(Retuned(params, rate), rate, err, full, sample)
        /\ prev' = rate /\ rtt' = sample
  BY DEF CloseWindow
<1>3. prev' \in Nat /\ rtt' \in {"none", "level", "inflated"}
  BY <1>2, RatesAssumption DEF Samples, TuneInv, TuneTypeOK
<1> DEFINE t == Retuned(params, rate)
<1> HIDE DEF t
<1>4. Evaluate(t, rate, err, full, sample)
  BY <1>2 DEF t
<1>5. ~Exhausted => low = 0
  BY DEF Exhausted, TuneInv, TuneTypeOK
<1>6. Gained(rate) => phase = "ramping"
  BY DEF Gained
<1>7. \/ Degrade(t)
      \/ Advance(t) /\ (phase # "degraded" \/ AtCap)
      \/ Settle(t)
      \/ Raise(t) /\ ~AtCap /\ phase = "ramping"
      \/ Hold(t) /\ ~AtCap /\ low = 0
  BY <1>4, <1>5, <1>6 DEF Evaluate
<1> QED BY <1>1, <1>3, <1>7 DEF t

-----------------------------------------------------------------------------
(* The invariant.                                                          *)

LEMMA TuneInitially == Init => TuneInv /\ caps = None
<1> SUFFICES ASSUME Init PROVE TuneInv /\ caps = None
  OBVIOUS
<1>1. [f \in Fields |-> 1] \in Tables
  BY DEF Tables
<1>2. cache \in [Keys -> Rows \cup {None}]
  BY DEF Init
<1>3. /\ enabled \in BOOLEAN /\ active \in BOOLEAN /\ origin \in Origins
      /\ direction \in Directions /\ caps = None
      /\ phase = "uninitialized" /\ params \in Tables /\ dim \in {"window", "concurrency"}
  BY <1>1 DEF Init, Directions
<1>4. /\ rtt \in {"none", "level", "inflated"} /\ prev \in Nat /\ low \in 0..1
      /\ held \in 0..1 /\ settled \in Settlements \cup {None} /\ failed \subseteq Keys
  BY DEF Init
<1>6. post = FALSE /\ halved \in BOOLEAN
  BY DEF Init
<1>5. TuneTypeOK
  BY <1>2, <1>3, <1>4, <1>6 DEF TuneTypeOK
<1> QED BY <1>3, <1>5 DEF Init, TuneInv, HoldCounted

(* Where a transfer starts from: a table inside its limits and its budget. *)
LEMMA BeginKeeps ==
  ASSUME TuneInv, NEW o \in Origins, NEW d \in Directions, NEW c \in Adverts,
         NEW found \in BOOLEAN, Begin(o, d, c, found)
  PROVE  TuneInv' /\ Inside(params', c, FALSE) /\ Affordable(params')
<1>1. /\ c # None /\ c \in Adverts
      /\ Configured \in Tables
      /\ \A f \in Fields : Hard[f] \in Nat
  BY AdvertFields, TableAssumption DEF Fields
<1>2. ASSUME NEW q \in Tables
      PROVE  /\ Budgeted(ClampedInto(q, c)) \in Tables
             /\ Inside(Budgeted(ClampedInto(q, c)), c, FALSE)
             /\ Affordable(Budgeted(ClampedInto(q, c)))
  <2>1. ClampedInto(q, c) \in Tables /\ Inside(ClampedInto(q, c), c, FALSE)
    BY ClampedTables
  <2>2. \A f \in Fields : ClampedInto(q, c)[f] <= Hard[f]
    BY <2>1 DEF Inside
  <2> QED BY <2>1, <2>2, BudgetedFits
<1>3. /\ Budgeted(FromCapsMins(c)) \in Tables
      /\ Inside(Budgeted(FromCapsMins(c)), c, FALSE)
      /\ Affordable(Budgeted(FromCapsMins(c)))
  <2>1. FromCapsMins(c) \in Tables /\ Inside(FromCapsMins(c), c, FALSE)
    BY <1>1, ClampedTables
  <2>2. \A f \in Fields : FromCapsMins(c)[f] <= Hard[f]
    BY <2>1 DEF Inside
  <2> QED BY <2>1, <2>2, BudgetedFits
<1>4. ClampedInto(Configured, c) \in Tables
  BY <1>1, ClampedTables
<1>5. settled # None => settled.table \in Tables
  BY DEF TuneInv, TuneTypeOK, Settlements
<1>6. <<o, d>> \in Keys /\ (cache[<<o, d>>] # None => cache[<<o, d>>].table \in Tables)
  BY DEF TuneInv, TuneTypeOK, Keys, Rows
<1>7. /\ params' \in Tables /\ Inside(params', c, FALSE) /\ Affordable(params')
      /\ phase' \in {"uninitialized", "ramping", "settled"}
      /\ dim' \in {"window", "concurrency"} /\ cache' \in [Keys -> Rows \cup {None}]
  <2>1. CASE ~enabled'
    BY <2>1, <1>2, <1>4 DEF Begin, TuneInv, TuneTypeOK
  <2>2. CASE enabled' /\ InMemory(d, c)
    BY <2>2, <1>2, <1>5 DEF Begin, InMemory, TuneInv, TuneTypeOK
  <2>3. CASE enabled' /\ ~InMemory(d, c) /\ Cached(<<o, d>>, c)
    BY <2>3, <1>2, <1>6 DEF Begin, Cached, TuneInv, TuneTypeOK
  <2>4. CASE enabled' /\ ~InMemory(d, c) /\ ~Cached(<<o, d>>, c)
    BY <2>4, <1>3, <1>6 DEF Begin, TuneInv, TuneTypeOK
  <2> QED BY <2>1, <2>2, <2>3, <2>4
<1>8. TuneTypeOK'
  <2>1. /\ enabled' \in BOOLEAN /\ active' \in BOOLEAN /\ origin' \in Origins
        /\ direction' \in Directions /\ caps' \in Adverts \cup {None}
    BY <1>1 DEF Begin, TuneInv, TuneTypeOK
  <2>2. /\ rtt' \in {"none", "level", "inflated"} /\ prev' \in Nat /\ low' \in 0..1
        /\ held' \in 0..1
    BY DEF Begin
  <2>4. post' = FALSE /\ halved' \in BOOLEAN
    BY DEF Begin
  <2>3. settled' \in Settlements \cup {None} /\ failed' \subseteq Keys
    BY DEF Begin, TuneInv, TuneTypeOK
  <2> QED BY <2>1, <2>2, <2>3, <2>4, <1>7 DEF TuneTypeOK
<1>9. HoldCounted' /\ (active' => caps' # None)
  BY <1>1, <1>7 DEF Begin, HoldCounted
<1> QED BY <1>7, <1>8, <1>9 DEF TuneInv

(* The window's table and its consequences for the type invariant.         *)
LEMMA WindowKeeps ==
  ASSUME TuneInv, CloseWindow
  PROVE  TuneInv'
<1>1. /\ active /\ caps \in Adverts /\ caps # None /\ UNCHANGED <<scope, active>>
      /\ prev' \in Nat /\ rtt' \in {"none", "level", "inflated"}
  BY WindowCases, AdvertAssumption
<1>2. PICK rate \in Rates :
        LET t == Retuned(params, rate) IN
        \/ Degrade(t)
        \/ Advance(t) /\ (phase # "degraded" \/ AtCap)
        \/ Settle(t)
        \/ Raise(t) /\ ~AtCap /\ phase = "ramping"
        \/ Hold(t) /\ ~AtCap /\ low = 0
  BY WindowCases
<1> DEFINE t == Retuned(params, rate)
<1>3. t \in Tables /\ \A f \in Windowed : t[f] = params[f]
  BY <1>1, RetunedFits DEF TuneInv, TuneTypeOK
<1> HIDE DEF t
<1>4. \/ Degrade(t)
      \/ Advance(t) /\ (phase # "degraded" \/ AtCap)
      \/ Settle(t)
      \/ Raise(t) /\ ~AtCap /\ phase = "ramping"
      \/ Hold(t) /\ ~AtCap /\ low = 0
  BY <1>2 DEF t
<1>5. /\ params' \in Tables /\ phase' \in {"uninitialized", "ramping", "settled", "degraded"}
      /\ dim' \in {"window", "concurrency"} /\ low' \in 0..1 /\ held' \in 0..1
      /\ (phase' = "degraded" => held' <= low' /\ (low' = 1 => ~AtCap'))
  <2>1. CASE Degrade(t)
    <3>1. Halved(t) \in Tables
      BY <1>1, <1>3, HalvedFits
    <3> QED BY <2>1, <3>1 DEF Degrade, TuneInv, TuneTypeOK
  <2>2. CASE Advance(t) /\ (phase # "degraded" \/ AtCap)
    BY <2>2, <1>3 DEF Advance, TuneInv, TuneTypeOK, HoldCounted
  <2>3. CASE Settle(t)
    BY <2>3, <1>3 DEF Settle, TuneInv, TuneTypeOK
  <2>4. CASE Raise(t) /\ ~AtCap /\ phase = "ramping"
    <3>1. Raised(t) \in Tables
      BY <2>4, <1>1, <1>3, RaisedFits
    <3>2. Budgeted(Raised(t)) \in Tables
      BY <3>1, BudgetedFits
    <3> QED BY <2>4, <3>2 DEF Raise, TuneInv, TuneTypeOK
  <2>5. CASE Hold(t) /\ ~AtCap /\ low = 0
    <3>1. held <= 1 /\ held \in Nat /\ (phase = "degraded" => held = 0)
      BY <2>5 DEF TuneInv, TuneTypeOK, HoldCounted
    <3>2. /\ low' = 1 /\ held' \in 0..1 /\ phase' = phase
      BY <2>5, <3>1 DEF Hold
    <3>3. ~AtCap'
      <4>1. Ramped' = Ramped /\ DimMax' = DimMax /\ Ramped \in Windowed
        BY <2>5, <1>1, RampedFits DEF Hold, Ramped, DimMax, scope
      <4>2. params'[Ramped] = params[Ramped]
        BY <4>1, <2>5, <1>3 DEF Hold
      <4> QED BY <4>1, <4>2, <2>5 DEF AtCap
    <3> QED BY <2>5, <3>2, <3>3, <1>3 DEF Hold, TuneInv, TuneTypeOK
  <2> QED BY <1>4, <2>1, <2>2, <2>3, <2>4, <2>5
<1>6. post' = FALSE /\ halved' \in BOOLEAN
  <2>1. post = FALSE /\ halved \in BOOLEAN
    BY DEF TuneInv, TuneTypeOK
  <2>2. CASE Hold(t) /\ ~AtCap /\ low = 0
    <3>1. held <= 1 /\ held \in Nat /\ (phase = "degraded" => held = 0)
      BY <2>2 DEF TuneInv, TuneTypeOK, HoldCounted
    <3>2. ~(held' >= 2)
      BY <2>2, <3>1 DEF Hold
    <3>3. post' = (post \/ held' >= 2) /\ halved' = halved
      BY <2>2 DEF Hold, history
    <3> QED BY <2>1, <3>2, <3>3, Zenon
  <2>3. CASE Degrade(t) \/ Advance(t) \/ Settle(t) \/ Raise(t)
    BY <2>1, <2>3 DEF Degrade, Advance, Settle, Raise, history
  <2> QED BY <1>4, <2>2, <2>3
<1>7. settled' \in Settlements \cup {None} /\ cache' \in [Keys -> Rows \cup {None}]
      /\ failed' \subseteq Keys
  <2>1. /\ settled \in Settlements \cup {None} /\ cache \in [Keys -> Rows \cup {None}]
        /\ failed \subseteq Keys /\ direction \in Directions /\ origin \in Origins
    BY DEF TuneInv, TuneTypeOK
  <2>2. CASE Settle(t)
    <3>1. Settlement(t) \in Settlements /\ Row(t) \in Rows
      BY <1>1, <1>3, <2>1 DEF Settlement, Settlements, Row, Rows
    <3> QED BY <2>1, <2>2, <3>1 DEF Settle, kept
  <2>3. CASE ~Settle(t)
    BY <2>1, <2>3, <1>4 DEF Degrade, Advance, Raise, Hold, kept, history
  <2> QED BY <2>2, <2>3
<1>8. TuneTypeOK'
  <2>1. /\ enabled' \in BOOLEAN /\ active' \in BOOLEAN /\ origin' \in Origins
        /\ direction' \in Directions /\ caps' \in Adverts \cup {None}
    BY <1>1 DEF scope, TuneInv, TuneTypeOK
  <2> QED BY <2>1, <1>1, <1>5, <1>6, <1>7 DEF TuneTypeOK
<1> QED BY <1>1, <1>5, <1>8 DEF TuneInv, HoldCounted, scope

LEMMA TuneStep == TuneInv /\ [Next]_vars => TuneInv'
<1> SUFFICES ASSUME TuneInv, [Next]_vars PROVE TuneInv'
  OBVIOUS
<1> USE DEF TuneInv
<1>1. ASSUME NEW o \in Origins, NEW d \in Directions, NEW c \in Adverts,
             NEW found \in BOOLEAN, Begin(o, d, c, found)
      PROVE  TuneInv'
  BY <1>1, BeginKeeps
<1>2. CASE CloseWindow
  BY <1>2, WindowKeeps
<1>3. ASSUME NEW ok \in BOOLEAN, End(ok)
      PROVE  TuneInv'
  <2>1. Key \in Keys
    BY DEF Key, Keys, TuneTypeOK
  <2>2. /\ UNCHANGED <<scope, measured, params, dim, post, halved>> /\ active' = FALSE
        /\ phase' \in {phase, "ramping"} /\ settled' \in {settled, None}
        /\ cache' \in {cache, [cache EXCEPT ![Key] = None]}
        /\ failed' \in {failed, failed \cup {Key}}
    BY <1>3 DEF End, kept
  <2>3. TuneTypeOK'
    <3>1. /\ cache' \in [Keys -> Rows \cup {None}] /\ failed' \subseteq Keys
          /\ settled' \in Settlements \cup {None}
      <4>1. [cache EXCEPT ![Key] = None] \in [Keys -> Rows \cup {None}]
        BY DEF TuneTypeOK
      <4> QED BY <2>1, <2>2, <4>1 DEF TuneTypeOK
    <3>2. /\ enabled' = enabled /\ origin' = origin /\ direction' = direction /\ caps' = caps
          /\ rtt' = rtt /\ prev' = prev /\ low' = low /\ held' = held
      BY <2>2 DEF scope, measured
    <3> QED BY <2>2, <3>1, <3>2, ZenonT(60) DEF TuneTypeOK
  <2>4. HoldCounted'
    BY <2>2 DEF HoldCounted, AtCap, Ramped, DimMax, scope, measured
  <2> QED BY <2>2, <2>3, <2>4
<1>4. CASE Reload
  <2>1. [f \in Fields |-> 1] \in Tables
    BY DEF Tables
  <2>2. rtt' \in {"none", "level", "inflated"} /\ prev' \in Nat /\ low' \in 0..1 /\ held' \in 0..1
    BY <1>4 DEF Reload
  <2>3. /\ enabled' = TRUE /\ active' = FALSE /\ post' = FALSE /\ halved' = FALSE
        /\ origin' = origin /\ cache' = cache /\ failed' = failed
        /\ direction' = "download" /\ caps' = None /\ phase' = "uninitialized"
        /\ params' = [f \in Fields |-> 1] /\ dim' = "window" /\ settled' = None
    BY <1>4 DEF Reload
  <2>4. TuneTypeOK'
    BY <2>1, <2>2, <2>3 DEF TuneTypeOK, Directions
  <2> QED BY <2>3, <2>4 DEF HoldCounted
<1>5. ASSUME NEW k \in Keys, Expire(k)
      PROVE  TuneInv'
  <2>1. cache[k] \in Rows
    BY <1>5 DEF Expire, TuneTypeOK
  <2>2. [cache[k] EXCEPT !.valid = FALSE] \in Rows
    BY <2>1 DEF Rows
  <2>3. cache' = [cache EXCEPT ![k] = [cache[k] EXCEPT !.valid = FALSE]]
    BY <1>5 DEF Expire
  <2>4. UNCHANGED <<scope, active, measured, ramp, settled, history>>
    BY <1>5 DEF Expire
  <2> QED BY <2>2, <2>3, <2>4
          DEF TuneTypeOK, HoldCounted, AtCap, Ramped, DimMax, scope, measured, ramp, history
<1>6. ASSUME NEW saved \in Foreign, StoreChanges(saved[1], saved[2])
      PROVE  TuneInv'
  <2>1. saved[1] \in Keys /\ saved[2] \in Rows
    BY ForeignAssumption
  <2> QED BY <1>6, <2>1 DEF StoreChanges, TuneTypeOK, HoldCounted, AtCap, Ramped, DimMax,
                            scope, measured, ramp
<1>7. CASE UNCHANGED vars
  BY <1>7 DEF vars, scope, measured, ramp, kept, history, TuneTypeOK, HoldCounted, AtCap, Ramped, DimMax
<1> QED BY <1>1, <1>2, <1>3, <1>4, <1>5, <1>6, <1>7 DEF Next

(* The engine's state is what its comments say, in particular that no      *)
(* degraded hold outlives its second window.                               *)
THEOREM TuneTypeCorrect == Spec => []TuneTypeOK
<1>1. TuneInv => TuneTypeOK
  BY DEF TuneInv
<1> QED BY <1>1, TuneInitially, TuneStep, PTL DEF Spec

-----------------------------------------------------------------------------
(* The limits and the budget: only Begin and CloseWindow touch the table.  *)

LEMMA LimitsOfTable == caps # None =>
  (WithinLimits <=> Inside(params, caps, halved)) /\ (BudgetKept <=> Affordable(params))
BY DEF WithinLimits, BudgetKept, Inside, Affordable

LimitInv == WithinLimits /\ BudgetKept

LEMMA WindowKeepsLimits ==
  ASSUME TuneInv, LimitInv, CloseWindow
  PROVE  Inside(params', caps, halved') /\ Affordable(params')
<1>1. active /\ caps \in Adverts /\ caps # None /\ halved \in BOOLEAN
  BY WindowCases, AdvertAssumption DEF TuneInv, TuneTypeOK
<1>2. Inside(params, caps, halved) /\ Affordable(params)
  BY <1>1, LimitsOfTable DEF LimitInv
<1>3. PICK rate \in Rates :
        LET t == Retuned(params, rate) IN
        \/ Degrade(t)
        \/ Advance(t) /\ (phase # "degraded" \/ AtCap)
        \/ Settle(t)
        \/ Raise(t) /\ ~AtCap /\ phase = "ramping"
        \/ Hold(t) /\ ~AtCap /\ low = 0
  BY WindowCases
<1> DEFINE t == Retuned(params, rate)
<1>4. /\ t \in Tables /\ \A f \in Windowed : t[f] = params[f]
      /\ Inside(t, caps, halved) /\ Affordable(t)
  <2>1. \A f \in Fields : params[f] <= Hard[f]
    BY <1>2 DEF Inside
  <2> QED BY <2>1, <1>1, <1>2, RetunedFits DEF TuneInv, TuneTypeOK
<1> HIDE DEF t
<1>5. \/ Degrade(t)
      \/ Advance(t) \/ Settle(t) \/ Hold(t)
      \/ Raise(t) /\ ~AtCap
  BY <1>3 DEF t
<1>6. CASE Degrade(t)
  <2>1. Inside(t, caps, TRUE)
    BY <1>4 DEF Inside
  <2>2. Inside(Halved(t), caps, TRUE) /\ Affordable(Halved(t))
    BY <2>1, <1>1, <1>4, HalvedFits
  <2>3. params' = Halved(t) /\ halved' = TRUE
    BY <1>6 DEF Degrade
  <2> QED BY <2>2, <2>3
<1>7. CASE Advance(t) \/ Settle(t) \/ Hold(t)
  <2>1. params' = t /\ halved' = halved
    BY <1>7 DEF Advance, Settle, Hold, history
  <2> QED BY <2>1, <1>4
<1>8. CASE Raise(t) /\ ~AtCap
  <2>1. Raised(t) \in Tables /\ Inside(Raised(t), caps, halved)
    BY <1>1, <1>4, <1>8, RaisedFits
  <2>2. \A f \in Fields : Raised(t)[f] <= Hard[f]
    BY <2>1 DEF Inside
  <2>3. Inside(Budgeted(Raised(t)), caps, halved) /\ Affordable(Budgeted(Raised(t)))
    BY <1>1, <2>1, <2>2, BudgetedFits
  <2>4. params' = Budgeted(Raised(t)) /\ halved' = halved
    BY <1>8 DEF Raise, history
  <2> QED BY <2>3, <2>4
<1> QED BY <1>5, <1>6, <1>7, <1>8

LEMMA LimitStep == TuneInv /\ LimitInv /\ [Next]_vars => LimitInv'
<1> SUFFICES ASSUME TuneInv, LimitInv, [Next]_vars PROVE LimitInv'
  OBVIOUS
<1>1. ASSUME NEW o \in Origins, NEW d \in Directions, NEW c \in Adverts,
             NEW found \in BOOLEAN, Begin(o, d, c, found)
      PROVE  LimitInv'
  <2>1. Inside(params', c, FALSE) /\ Affordable(params')
    BY <1>1, BeginKeeps
  <2>2. caps' = c /\ halved' = FALSE
    BY <1>1 DEF Begin
  <2> QED BY <2>1, <2>2 DEF LimitInv, WithinLimits, BudgetKept, Inside, Affordable
<1>2. CASE CloseWindow
  <2>1. Inside(params', caps, halved') /\ Affordable(params') /\ caps' = caps
    BY <1>2, WindowKeepsLimits DEF CloseWindow, scope
  <2> QED BY <2>1 DEF LimitInv, WithinLimits, BudgetKept, Inside, Affordable
<1>3. CASE Reload
  BY <1>3 DEF Reload, LimitInv, WithinLimits, BudgetKept
<1>4. CASE UNCHANGED <<params, caps, halved>>
  BY <1>4 DEF LimitInv, WithinLimits, BudgetKept
<1>5. ASSUME NEW ok \in BOOLEAN, End(ok) PROVE UNCHANGED <<params, caps, halved>>
  BY <1>5 DEF End, scope
<1>6. ASSUME NEW k \in Keys, Expire(k) PROVE UNCHANGED <<params, caps, halved>>
  BY <1>6 DEF Expire, scope, ramp, history
<1>7. ASSUME NEW saved \in Foreign, StoreChanges(saved[1], saved[2])
      PROVE  UNCHANGED <<params, caps, halved>>
  BY <1>7 DEF StoreChanges, scope, ramp
<1>8. CASE UNCHANGED vars
  BY <1>8, <1>4 DEF vars, scope, ramp, history
<1> QED BY <1>1, <1>2, <1>3, <1>4, <1>5, <1>6, <1>7, <1>8 DEF Next

LEMMA LimitAlways == Spec => [](TuneInv /\ LimitInv)
<1>1. Init => TuneInv /\ LimitInv
  BY TuneInitially DEF LimitInv, WithinLimits, BudgetKept
<1> QED BY <1>1, TuneStep, LimitStep, PTL DEF Spec

(* No parameter exceeds the client's ceiling or an advertised maximum,     *)
(* whatever servers advertise and other pages store.                       *)
THEOREM LimitsHold == Spec => []WithinLimits
<1>1. TuneInv /\ LimitInv => WithinLimits
  BY DEF LimitInv
<1> QED BY <1>1, LimitAlways, PTL

(* Concurrency, window and chunk together stay in the memory budget.       *)
THEOREM BudgetHolds == Spec => []BudgetKept
<1>1. TuneInv /\ LimitInv => BudgetKept
  BY DEF LimitInv
<1> QED BY <1>1, LimitAlways, PTL

-----------------------------------------------------------------------------
(* Only a ramp raises.                                                     *)

LEMMA NoRaise ==
  ASSUME TuneInv, [Next]_vars, active, active', phase # "ramping"
  PROVE  phase' # "ramping" /\ \A f \in Windowed : params'[f] <= params[f]
<1>1. \A f \in Windowed : params[f] \in Nat
  BY TableFields DEF TuneInv, TuneTypeOK, Windowed
<1>2. CASE CloseWindow
  <2>1. caps \in Adverts /\ caps # None
    BY <1>2, WindowCases, AdvertAssumption
  <2>2. PICK rate \in Rates :
          LET t == Retuned(params, rate) IN
          \/ Degrade(t)
          \/ Advance(t) /\ (phase # "degraded" \/ AtCap)
          \/ Settle(t)
          \/ Raise(t) /\ ~AtCap /\ phase = "ramping"
          \/ Hold(t) /\ ~AtCap /\ low = 0
    BY <1>2, WindowCases
  <2> DEFINE t == Retuned(params, rate)
  <2>3. t \in Tables /\ \A f \in Windowed : t[f] = params[f]
    BY <2>1, RetunedFits DEF TuneInv, TuneTypeOK
  <2> HIDE DEF t
  <2>4. Degrade(t) \/ Advance(t) \/ Settle(t) \/ Hold(t)
    BY <2>2 DEF t
  <2>5. CASE Degrade(t)
    <3>1. \A f \in Fields : Halved(t)[f] <= t[f]
      BY <2>1, <2>3, HalvedFits
    <3> QED BY <2>3, <2>5, <3>1 DEF Degrade, Fields
  <2>6. CASE Advance(t) \/ Settle(t)
    BY <1>1, <2>3, <2>6 DEF Advance, Settle
  <2>7. CASE Hold(t)
    BY <1>1, <2>3, <2>7 DEF Hold
  <2> QED BY <2>4, <2>5, <2>6, <2>7
<1>3. CASE UNCHANGED <<params, phase>>
  BY <1>1, <1>3
<1>4. ASSUME NEW o \in Origins, NEW d \in Directions, NEW c \in Adverts,
             NEW found \in BOOLEAN, Begin(o, d, c, found)
      PROVE  FALSE
  BY <1>4 DEF Begin
<1>5. ASSUME NEW ok \in BOOLEAN, End(ok) PROVE FALSE
  BY <1>5 DEF End
<1>6. CASE Reload
  BY <1>6 DEF Reload
<1>7. ASSUME NEW k \in Keys, Expire(k) PROVE UNCHANGED <<params, phase>>
  BY <1>7 DEF Expire, ramp
<1>8. ASSUME NEW saved \in Foreign, StoreChanges(saved[1], saved[2])
      PROVE  UNCHANGED <<params, phase>>
  BY <1>8 DEF StoreChanges, ramp
<1>9. CASE UNCHANGED vars
  BY <1>3, <1>9 DEF vars, ramp
<1> QED BY <1>2, <1>3, <1>4, <1>5, <1>6, <1>7, <1>8, <1>9 DEF Next

(* A table that was taken over, held or halved is not raised while the     *)
(* transfer runs.                                                          *)
THEOREM RaisedByRampsOnly == Spec => OnlyRampRaises
<1>1. TuneInv /\ [Next]_vars =>
        [active /\ active' /\ phase # "ramping" =>
           phase' # "ramping" /\ \A f \in Windowed : params'[f] <= params[f]]_vars
  BY NoRaise
<1> QED BY <1>1, TuneInitially, TuneStep, PTL DEF Spec, OnlyRampRaises

-----------------------------------------------------------------------------
(* A failure is forgotten: no key whose last transfer failed has a row, or *)
(* a settle of its direction in memory.                                    *)
ForgottenInv ==
  \A k \in failed :
    /\ settled # None => settled.direction # k[2]
    /\ Persistent => cache[k] = None

LEMMA ForgottenStep == TuneInv /\ ForgottenInv /\ [Next]_vars => ForgottenInv'
<1> SUFFICES ASSUME TuneInv, ForgottenInv, [Next]_vars PROVE ForgottenInv'
  OBVIOUS
<1>0. /\ failed \subseteq Keys /\ cache \in [Keys -> Rows \cup {None}]
      /\ direction \in Directions /\ Key \in Keys
  BY DEF TuneInv, TuneTypeOK, Key, Keys
<1>1. ASSUME NEW o \in Origins, NEW d \in Directions, NEW c \in Adverts,
             NEW found \in BOOLEAN, Begin(o, d, c, found)
      PROVE  ForgottenInv'
  <2>1. /\ settled' = settled /\ failed' = failed
        /\ cache' \in {cache, [cache EXCEPT ![<<o, d>>] = None]}
    BY <1>1 DEF Begin
  <2> QED BY <1>0, <2>1 DEF ForgottenInv
<1>2. CASE CloseWindow
  <2>1. PICK rate \in Rates :
          LET t == Retuned(params, rate) IN
          \/ Degrade(t)
          \/ Advance(t) /\ (phase # "degraded" \/ AtCap)
          \/ Settle(t)
          \/ Raise(t) /\ ~AtCap /\ phase = "ramping"
          \/ Hold(t) /\ ~AtCap /\ low = 0
    BY <1>2, WindowCases
  <2> DEFINE t == Retuned(params, rate)
  <2> HIDE DEF t
  <2>2. Degrade(t) \/ Advance(t) \/ Settle(t) \/ Raise(t) \/ Hold(t)
    BY <2>1 DEF t
  <2>3. CASE Settle(t)
    <3>1. ~post
      BY DEF TuneInv, TuneTypeOK
    <3>2. /\ settled' = Settlement(t)
          /\ cache' = IF Persistent THEN [cache EXCEPT ![Key] = Row(t)] ELSE cache
          /\ failed' = {k \in failed : k[2] # direction}
      BY <2>3, <3>1 DEF Settle
    <3>3. Settlement(t).direction = direction /\ Key[2] = direction
      BY DEF Settlement, Key
    <3> QED BY <1>0, <3>2, <3>3 DEF ForgottenInv
  <2>4. CASE Degrade(t) \/ Advance(t) \/ Raise(t) \/ Hold(t)
    BY <2>4 DEF Degrade, Advance, Raise, Hold, kept, history, ForgottenInv
  <2> QED BY <2>2, <2>3, <2>4
<1>3. ASSUME NEW ok \in BOOLEAN, End(ok)
      PROVE  ForgottenInv'
  <2>1. CASE enabled /\ ~ok
    <3>1. /\ settled' = None /\ failed' = failed \cup {Key}
          /\ cache' = IF Persistent THEN [cache EXCEPT ![Key] = None] ELSE cache
      BY <1>3, <2>1 DEF End
    <3> QED BY <1>0, <3>1 DEF ForgottenInv
  <2>2. CASE ~(enabled /\ ~ok)
    BY <1>3, <2>2 DEF End, kept, ForgottenInv
  <2> QED BY <2>1, <2>2
<1>4. CASE Reload
  BY <1>4 DEF Reload, ForgottenInv
<1>5. ASSUME NEW k \in Keys, Expire(k)
      PROVE  ForgottenInv'
  <2>1. /\ cache[k] # None /\ settled' = settled /\ failed' = failed
        /\ \A q \in Keys : q # k => cache'[q] = cache[q]
    BY <1>0, <1>5 DEF Expire, history
  <2> QED BY <1>0, <2>1 DEF ForgottenInv
<1>6. ASSUME NEW saved \in Foreign, StoreChanges(saved[1], saved[2])
      PROVE  ForgottenInv'
  BY <1>0, <1>6 DEF StoreChanges, ForgottenInv
<1>7. CASE UNCHANGED vars
  BY <1>7 DEF vars, kept, history, ForgottenInv
<1> QED BY <1>1, <1>2, <1>3, <1>4, <1>5, <1>6, <1>7 DEF Next

LEMMA StartsAfresh ==
  ASSUME TuneInv, ForgottenInv, [Next]_vars,
         ~active, active', enabled', <<origin', direction'>> \in failed
  PROVE  phase' = "ramping"
<1>1. PICK o \in Origins, d \in Directions, c \in Adverts, found \in BOOLEAN :
        Begin(o, d, c, found)
  <2>1. ~CloseWindow
    BY DEF CloseWindow
  <2>2. ~Reload
    BY DEF Reload
  <2>3. \A ok \in BOOLEAN : ~End(ok)
    BY DEF End
  <2>4. \A k \in Keys : ~Expire(k)
    BY DEF Expire
  <2>5. \A saved \in Foreign : ~StoreChanges(saved[1], saved[2])
    BY DEF StoreChanges
  <2>6. ~UNCHANGED vars
    BY DEF vars
  <2> QED BY <2>1, <2>2, <2>3, <2>4, <2>5, <2>6 DEF Next
<1>2. origin' = o /\ direction' = d
  BY <1>1 DEF Begin
<1>3. ~InMemory(d, c)
  BY <1>2 DEF ForgottenInv, InMemory
<1>4. ~Cached(<<o, d>>, c)
  BY <1>2 DEF ForgottenInv, Cached
<1> QED BY <1>1, <1>3, <1>4 DEF Begin

(* After a failed transfer the next one of that key ramps from the         *)
(* minimums, whatever happened in between, until it settles again.         *)
THEOREM FailuresForgotten == Spec => FailureForgotten
<1>1. Init => ForgottenInv
  BY DEF Init, ForgottenInv
<1>2. TuneInv /\ ForgottenInv /\ [Next]_vars =>
        [~active /\ active' /\ enabled' /\ <<origin', direction'>> \in failed
           => phase' = "ramping"]_vars
  BY StartsAfresh
<1> QED BY <1>1, <1>2, TuneInitially, TuneStep, ForgottenStep, PTL DEF Spec, FailureForgotten

-----------------------------------------------------------------------------
(* How long a transfer tunes itself: at most Left windows without an error *)
(* until it settles.  Two windows of a stage may pass without a gain and   *)
(* every raise takes one off the dimension's gap; what is held is not      *)
(* raised.                                                                 *)
Gap(d) == MaxOf(MaxOf(MinOf(caps[d].max, Hard[d]), 1) - params[d], 0)
Left ==
  IF phase = "settled" THEN 0
  ELSE (IF dim = "window" THEN 4 ELSE 2) - low
       + IF phase = "degraded" THEN 0
         ELSE 2 * Gap("concurrency") + IF dim = "window" THEN 2 * Gap(direction) ELSE 0

(* CloseWindow, with its error or the lack of one.                         *)
WindowClosed(err) ==
  /\ active /\ enabled
  /\ \E rate \in Rates, sample \in Samples, full \in BOOLEAN :
       /\ full => MayBeFull(rate, sample)
       /\ Evaluate(Retuned(params, rate), rate, err, full, sample)
       /\ prev' = rate /\ rtt' = sample
  /\ UNCHANGED <<scope, active>>

LEMMA GapIs ==
  ASSUME TuneInv, caps # None, NEW d \in Windowed
  PROVE  Gap(d) \in 0..(Hard[d] - 1) /\ Hard[d] \in Nat \ {0}
<1>1. /\ caps[d].max \in Int /\ Hard[d] \in Nat \ {0} /\ params[d] \in Nat \ {0}
  BY AdvertFields, TableFields DEF TuneInv, TuneTypeOK, Fields
<1> QED BY <1>1 DEF Gap, MaxOf, MinOf

LEMMA GapTyped == TuneInv' /\ caps' # None => \A d \in Windowed : Gap(d)' \in Nat
<1>1. TuneInv /\ caps # None => \A d \in Windowed : Gap(d) \in Nat
  BY GapIs
<1>2. (TuneInv /\ caps # None)' => (\A d \in Windowed : Gap(d) \in Nat)'
  BY <1>1, PTL
<1> QED BY <1>2

LEMMA LeftBounded ==
  ASSUME TuneInv, caps # None
  PROVE  /\ Left \in 0..2 * (Hard["concurrency"] + Hard[direction])
         /\ Left = 0 <=> phase = "settled"
<1>1. /\ Gap("concurrency") \in 0..(Hard["concurrency"] - 1) /\ Hard["concurrency"] \in Nat \ {0}
      /\ Gap(direction) \in 0..(Hard[direction] - 1) /\ Hard[direction] \in Nat \ {0}
  BY GapIs DEF TuneInv, TuneTypeOK, Windowed, Directions
<1>2. low \in 0..1 /\ dim \in {"window", "concurrency"}
  BY DEF TuneInv, TuneTypeOK
<1> QED BY <1>1, <1>2 DEF Left

(* A raise takes at least one off the gap it is made in.                   *)
LEMMA RaiseNarrows ==
  ASSUME TuneInv, caps # None, ~AtCap, NEW t \in Tables,
         \A f \in Windowed : t[f] = params[f], Raise(t), UNCHANGED scope
  PROVE  /\ Gap(Ramped)' <= Gap(Ramped) - 1
         /\ \A d \in Windowed \ {Ramped} : Gap(d)' = Gap(d)
<1> DEFINE v == t[Ramped]
           n == MaxOf(Step(v), 1)
<1>1. /\ Ramped \in Windowed /\ Ramped \in Fields /\ DimMax \in Nat \ {0}
      /\ v \in Nat \ {0} /\ v < DimMax /\ v = params[Ramped]
  BY RampedFits DEF AtCap
<1>2. n \in Nat /\ n >= v + 1 /\ n <= DimMax
  <2> HIDE DEF v
  <2> QED BY <1>1 DEF Step, MinOf, MaxOf
<1>3. Raised(t) = [t EXCEPT ![Ramped] = n]
  BY DEF Raised
<1> HIDE DEF n
<1>4. Raised(t) \in Tables
  BY RaisedFits
<1>5. /\ params'[Ramped] = n
      /\ \A d \in Windowed \ {Ramped} : params'[d] = params[d]
  <2>1. \A f \in Windowed : params'[f] = Raised(t)[f]
    BY <1>4, BudgetedFits DEF Raise
  <2>2. Raised(t)[Ramped] = n /\ \A d \in Windowed \ {Ramped} : Raised(t)[d] = t[d]
    BY <1>1, <1>3, TableFields DEF Windowed, Fields
  <2> QED BY <1>1, <2>1, <2>2
<1>6. \A d \in Windowed \ {Ramped} : Gap(d)' = Gap(d)
  BY <1>5 DEF Gap, scope
<1>7. Gap(Ramped) = DimMax - v
  <2> HIDE DEF v
  <2> QED BY <1>1 DEF Gap, DimMax, MaxOf
<1>8. Gap(Ramped)' = DimMax - n
  <2>1. DimMax = MaxOf(MinOf(caps[Ramped].max, Hard[Ramped]), 1) /\ Ramped' = Ramped /\ caps' = caps
    BY DEF DimMax, Raise, Ramped, scope
  <2>2. Gap(Ramped)' = MaxOf(DimMax - n, 0)
    BY <1>5, <2>1 DEF Gap
  <2> QED BY <1>1, <1>2, <2>2 DEF MaxOf
<1> HIDE DEF v
<1> QED BY <1>1, <1>2, <1>6, <1>7, <1>8

LEMMA GapsStay ==
  ASSUME NEW d \in Windowed, UNCHANGED scope, params'[d] = params[d]
  PROVE  Gap(d)' = Gap(d)
BY DEF Gap, scope

LEMMA CleanWindowShortens ==
  ASSUME TuneInv, WindowClosed(FALSE)
  PROVE  Left' < Left \/ Left' = 0
<1>1. CloseWindow
  BY DEF WindowClosed, CloseWindow
<1>2. /\ caps \in Adverts /\ caps # None /\ UNCHANGED scope /\ TuneInv' /\ caps' # None
      /\ direction \in Directions /\ direction' = direction
  BY <1>1, WindowCases, WindowKeeps, AdvertAssumption DEF TuneInv, TuneTypeOK, scope
<1>3. PICK rate \in Rates, sample \in Samples, full \in BOOLEAN :
        Evaluate(Retuned(params, rate), rate, FALSE, full, sample)
  BY DEF WindowClosed
<1> DEFINE t == Retuned(params, rate)
           c == Gap("concurrency")
           w == Gap(direction)
<1>4. t \in Tables /\ \A f \in Windowed : t[f] = params[f]
  BY <1>2, RetunedFits DEF TuneInv, TuneTypeOK
<1>5. /\ c \in Nat /\ w \in Nat /\ c' \in Nat /\ w' \in Nat
      /\ "concurrency" \in Windowed /\ direction \in Windowed /\ direction # "concurrency"
  <2>1. "concurrency" \in Windowed /\ direction \in Windowed /\ direction # "concurrency"
    BY <1>2 DEF Windowed, Directions
  <2>2. \A d \in Windowed : Gap(d) \in Nat
    BY <1>2, GapIs
  <2>3. \A d \in Windowed : Gap(d)' \in Nat
    BY <1>2, GapTyped
  <2> QED BY <1>2, <2>1, <2>2, <2>3
<1>6. /\ low \in 0..1 /\ dim \in {"window", "concurrency"}
      /\ low' \in 0..1 /\ dim' \in {"window", "concurrency"}
  BY <1>2 DEF TuneInv, TuneTypeOK
<1>7. \/ Advance(t) /\ dim = "window"
      \/ Settle(t)
      \/ Raise(t) /\ ~AtCap /\ phase = "ramping"
      \/ Hold(t) /\ low = 0
  <2> HIDE DEF t
  <2>1. Evaluate(t, rate, FALSE, full, sample)
    BY <1>3 DEF t
  <2> QED BY <1>6, <2>1 DEF Evaluate, Gained, Exhausted
<1> HIDE DEF t
<1>8. params' = t => c' = c /\ w' = w
  BY <1>2, <1>4, <1>5, GapsStay
<1>9. CASE Settle(t)
  BY <1>9 DEF Settle, Left
<1>10. CASE Advance(t) /\ dim = "window"
  <2>1. phase' = phase /\ dim' = "concurrency" /\ low' = 0 /\ c' = c /\ w' = w
    BY <1>8, <1>10 DEF Advance
  <2> HIDE DEF c, w
  <2> QED BY <1>5, <1>6, <1>10, <2>1 DEF Left, c, w
<1>11. CASE Raise(t) /\ ~AtCap /\ phase = "ramping"
  <2>1. phase' = "ramping" /\ dim' = dim /\ low' = 0
    BY <1>11 DEF Raise
  <2>2. /\ Gap(Ramped)' <= Gap(Ramped) - 1
        /\ \A d \in Windowed \ {Ramped} : Gap(d)' = Gap(d)
    BY <1>2, <1>4, <1>11, RaiseNarrows
  <2>3. CASE dim = "window"
    <3>1. Ramped = direction /\ Ramped' = direction
      BY <1>2, <2>1, <2>3 DEF Ramped
    <3>2. w' <= w - 1 /\ c' = c
      BY <1>2, <1>5, <2>2, <3>1
    <3> QED BY <1>2, <1>5, <1>6, <1>11, <2>1, <2>3, <3>2 DEF Left
  <2>4. CASE dim = "concurrency"
    <3>1. Ramped = "concurrency" /\ Ramped' = "concurrency"
      BY <2>1, <2>4 DEF Ramped
    <3>2. c' <= c - 1
      BY <2>2, <3>1
    <3> QED BY <1>5, <1>6, <1>11, <2>1, <2>4, <3>2 DEF Left
  <2> QED BY <1>6, <2>3, <2>4
<1>12. CASE Hold(t) /\ low = 0
  <2>1. (phase' = phase \/ phase' = "settled") /\ dim' = dim /\ low' = 1 /\ c' = c /\ w' = w
    BY <1>8, <1>12 DEF Hold
  <2> QED BY <1>2, <1>5, <1>6, <1>12, <2>1 DEF Left
<1> QED BY <1>7, <1>9, <1>10, <1>11, <1>12

(* Nothing but a window moves the count while a transfer runs.             *)
LEMMA OthersWait ==
  ASSUME [Next]_vars, active, active', ~CloseWindow
  PROVE  Left' = Left
<1>1. UNCHANGED <<scope, ramp, low>>
  BY DEF Next, Begin, End, Reload, Expire, StoreChanges, vars, measured
<1> QED BY <1>1 DEF Left, Gap, scope, ramp

(* A ramp ends, and how soon: whatever the link does and whatever a server *)
(* advertises, Left bounds the windows without an error until a transfer   *)
(* settles; each brings it down, and once settled a transfer stays so.     *)
(* With fairness, and with errors coming to an end, this is Settles        *)
(* (ramp_action, RampInput::exhausted, tick).                              *)
THEOREM RampsAreShort ==
  Spec => /\ [](active => /\ Left \in 0..2 * (Hard["concurrency"] + Hard[direction])
                          /\ Left = 0 <=> phase = "settled")
          /\ [][/\ WindowClosed(FALSE) => Left' < Left \/ Left' = 0
                /\ active /\ active' /\ ~CloseWindow => Left' = Left]_vars
<1>1. TuneInv => (active => /\ Left \in 0..2 * (Hard["concurrency"] + Hard[direction])
                            /\ Left = 0 <=> phase = "settled")
  BY LeftBounded DEF TuneInv
<1>2. TuneInv /\ [Next]_vars =>
        [/\ WindowClosed(FALSE) => Left' < Left \/ Left' = 0
         /\ active /\ active' /\ ~CloseWindow => Left' = Left]_vars
  BY CleanWindowShortens, OthersWait
<1> QED BY <1>1, <1>2, TuneInitially, TuneStep, PTL DEF Spec
=============================================================================
