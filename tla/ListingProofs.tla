---------------------------- MODULE ListingProofs ----------------------------
(***************************************************************************)
(* Theorems about the names in a listing of Requests: which of them lead   *)
(* back to the entry they were listed for, for any codecs, and mounts that *)
(* keep it so.                                                             *)
(***************************************************************************)
EXTENDS RequestsProofs

-----------------------------------------------------------------------------
(* Paths made of names, and what is clear of empty segments and dots.      *)
Clear(path) == \A i \in DOMAIN path : path[i] \notin {"", "."}

LEMMA NamesOfPath ==
  ASSUME NEW path \in Path
  PROVE  path \in Seq(Name) <=> \A i \in 1..Len(path) : path[i] \in Name
<1>1. Len(path) \in Nat /\ path \in [1..Len(path) -> STRING]
  BY LenProperties DEF Path
<1>2. ASSUME \A i \in 1..Len(path) : path[i] \in Name
      PROVE  path \in Seq(Name)
  <2>1. path \in [1..Len(path) -> Name]
    BY <1>1, <1>2
  <2> QED BY <1>1, <2>1, SeqDef
<1>3. ASSUME path \in Seq(Name)
      PROVE  \A i \in 1..Len(path) : path[i] \in Name
  BY <1>3, ElementOfSeq
<1> QED BY <1>2, <1>3

LEMMA NoName == \A name \in Name : name \in STRING /\ name \notin {"", ".", "..", "NUL"}
BY DEF Name

LEMMA ClearIsCanonical ==
  ASSUME NEW path \in Path, Clear(path)
  PROVE  Canonical(path) = path
<1>1. {i \in DOMAIN path : path[i] \notin {"", "."}} = DOMAIN path
  BY DEF Clear
<1>2. path \in Seq(STRING) /\ DOMAIN path = 1..Len(path)
  BY PathLength
<1> QED BY <1>1, <1>2, KeptAll DEF Canonical

LEMMA NamesAreClear ==
  ASSUME NEW path \in Seq(Name)
  PROVE  path \in Path /\ Clear(path) /\ Relative(path) /\ Canonical(path) = path
<1>1. path \in Path /\ DOMAIN path = 1..Len(path) /\ Len(path) \in Nat
  BY NamesArePaths, PathLength
<1>2. \A i \in 1..Len(path) : path[i] \notin {"", ".", "..", "NUL"}
  BY <1>1, NamesOfPath, NoName
<1>3. Clear(path)
  BY <1>1, <1>2 DEF Clear
<1>4. path = <<>> \/ 1 \in 1..Len(path)
  BY <1>1, EmptySeq DEF Path
<1>5. Relative(path)
  BY <1>1, <1>2, <1>4 DEF Relative
<1> QED BY <1>1, <1>3, <1>5, ClearIsCanonical

(* What validate_rel_path makes of what it lets pass.                      *)
LEMMA CanonicalIsNames ==
  ASSUME NEW path \in Path, Relative(path)
  PROVE  Canonical(path) \in Seq(Name)
<1> DEFINE places == {i \in DOMAIN path : path[i] \notin {"", "."}}
<1>1. path \in Seq(STRING) /\ DOMAIN path = 1..Len(path) /\ \A i \in 1..Len(path) : path[i] \in STRING
  BY PathLength
<1>2. \A i \in places : path[i] \in Name
  BY <1>1 DEF Relative, Name
<1>3. places \in SUBSET (1..Len(path)) /\ Canonical(path) = Kept(path, places)
  BY <1>1 DEF Canonical
<1> HIDE DEF places
<1>4. /\ Len(Canonical(path)) = Cardinality(places)
      /\ \A n \in 1..Cardinality(places) :
           Nth(places, n) \in places /\ Canonical(path)[n] = path[Nth(places, n)]
  BY <1>1, <1>3, KeptProperties
<1> QED BY <1>2, <1>4, CanonicalTyped, NamesOfPath

LEMMA NormalIsClear ==
  ASSUME NEW path \in Path
  PROVE  Clear(Normal(path))
<1> DEFINE places == {i \in DOMAIN path : path[i] \notin {"", ".", ".."}}
<1>1. path \in Seq(STRING) /\ DOMAIN path = 1..Len(path)
  BY PathLength
<1>2. \A i \in places : path[i] \notin {"", "."}
  OBVIOUS
<1>3. places \in SUBSET (1..Len(path)) /\ Normal(path) = Kept(path, places)
  BY <1>1 DEF Normal
<1>4. DOMAIN Normal(path) = 1..Len(Normal(path))
  BY NormalTyped, PathLength
<1> HIDE DEF places
<1>5. /\ Len(Normal(path)) = Cardinality(places)
      /\ \A n \in 1..Cardinality(places) :
           Nth(places, n) \in places /\ Normal(path)[n] = path[Nth(places, n)]
  BY <1>1, <1>3, KeptProperties
<1> QED BY <1>2, <1>4, <1>5 DEF Clear

-----------------------------------------------------------------------------
(* A path and what it begins with.                                         *)
LEMMA JoinIs ==
  ASSUME NEW a \in Path, NEW b \in Path
  PROVE  /\ Len(a \o b) = Len(a) + Len(b)
         /\ \A i \in 1..(Len(a) + Len(b)) :
              (a \o b)[i] = IF i <= Len(a) THEN a[i] ELSE b[i - Len(a)]
BY ConcatProperties DEF Path

LEMMA RestIs ==
  ASSUME NEW path \in Path, NEW prefix \in Path, IsPrefix(prefix, path)
  PROVE  /\ Rest(path, prefix) \in Path /\ Len(Rest(path, prefix)) = Len(path) - Len(prefix)
         /\ \A i \in 1..(Len(path) - Len(prefix)) :
              Rest(path, prefix)[i] = path[Len(prefix) + i]
<1>1. Len(path) \in Nat /\ Len(prefix) \in Nat /\ Len(prefix) <= Len(path)
  BY PathLength, PrefixIs
<1> DEFINE m == Len(prefix) + 1
<1>2. m \in Nat /\ \A i \in m..Len(path) : path[i] \in STRING
  BY <1>1, PathLength
<1> HIDE DEF m
<1>3. /\ Len(SubSeq(path, m, Len(path))) = IF m <= Len(path) THEN Len(path) - m + 1 ELSE 0
      /\ \A i \in 1..(Len(path) - m + 1) : SubSeq(path, m, Len(path))[i] = path[m + i - 1]
  BY <1>1, <1>2, PathLength, SubSeqProperties
<1>4. Rest(path, prefix) = SubSeq(path, m, Len(path))
  BY DEF Rest, m
<1>5. Len(Rest(path, prefix)) = Len(path) - Len(prefix)
  BY <1>1, <1>3, <1>4 DEF m
<1>6. \A i \in 1..(Len(path) - Len(prefix)) : Rest(path, prefix)[i] = path[Len(prefix) + i]
  BY <1>1, <1>3, <1>4 DEF m
<1> QED BY <1>5, <1>6, RestTyped

LEMMA Rejoined ==
  ASSUME NEW path \in Path, NEW prefix \in Path, IsPrefix(prefix, path)
  PROVE  prefix \o Rest(path, prefix) = path
<1> DEFINE rest == Rest(path, prefix)
           n == Len(path)
<1>1. Len(path) \in Nat /\ Len(prefix) \in Nat /\ Len(prefix) <= Len(path)
      /\ \A i \in 1..Len(prefix) : prefix[i] = path[i]
  BY PathLength, PrefixIs
<1>2. rest \in Path /\ Len(rest) = Len(path) - Len(prefix)
      /\ \A i \in 1..(Len(path) - Len(prefix)) : rest[i] = path[Len(prefix) + i]
  BY RestIs
<1> HIDE DEF rest
<1>3. prefix \o rest \in Path /\ Len(prefix \o rest) = n
      /\ \A i \in 1..n : (prefix \o rest)[i] = IF i <= Len(prefix) THEN prefix[i] ELSE rest[i - Len(prefix)]
  BY <1>1, <1>2, JoinIs, JoinTyped
<1>4. \A i \in 1..n : (prefix \o rest)[i] = path[i]
  <2> TAKE i \in 1..n
  <2>1. CASE i <= Len(prefix)
    BY <1>1, <1>3, <2>1
  <2>2. CASE i > Len(prefix)
    <3>1. i - Len(prefix) \in 1..(Len(path) - Len(prefix)) /\ Len(prefix) + (i - Len(prefix)) = i
      BY <1>1, <2>2
    <3> QED BY <1>1, <1>2, <1>3, <2>2, <3>1, SMTT(60)
  <2>3. i <= Len(prefix) \/ i > Len(prefix)
    BY <1>1
  <2> QED BY <2>1, <2>2, <2>3
<1>5. prefix \o rest = path
  BY <1>3, <1>4, SeqEqual DEF Path
<1> QED BY <1>5 DEF rest

LEMMA JoinBegins ==
  ASSUME NEW a \in Path, NEW b \in Path
  PROVE  IsPrefix(a, a \o b) /\ Rest(a \o b, a) = b
<1>1. Len(a) \in Nat /\ Len(b) \in Nat /\ a \o b \in Path
  BY PathLength, JoinTyped
<1>2. /\ Len(a \o b) = Len(a) + Len(b)
      /\ \A i \in 1..(Len(a) + Len(b)) :
           (a \o b)[i] = IF i <= Len(a) THEN a[i] ELSE b[i - Len(a)]
  BY JoinIs
<1>3. IsPrefix(a, a \o b)
  <2>1. Len(a) <= Len(a \o b) /\ \A i \in 1..Len(a) : (a \o b)[i] = a[i]
    BY <1>1, <1>2
  <2> QED BY <1>1, <2>1, PrefixIs
<1> DEFINE rest == Rest(a \o b, a)
<1>4. rest \in Path /\ Len(rest) = Len(b) /\ \A i \in 1..Len(b) : rest[i] = (a \o b)[Len(a) + i]
  <2> DEFINE whole == a \o b
  <2>1. whole \in Path /\ Len(whole) = Len(a) + Len(b) /\ IsPrefix(a, whole)
    BY <1>1, <1>2, <1>3
  <2> HIDE DEF whole
  <2>2. /\ Rest(whole, a) \in Path /\ Len(Rest(whole, a)) = Len(whole) - Len(a)
        /\ \A i \in 1..(Len(whole) - Len(a)) : Rest(whole, a)[i] = whole[Len(a) + i]
    BY <2>1, RestIs
  <2>3. Len(whole) - Len(a) = Len(b)
    BY <1>1, <2>1
  <2> QED BY <2>2, <2>3 DEF whole
<1> HIDE DEF rest
<1>5. \A i \in 1..Len(b) : rest[i] = b[i]
  <2> TAKE i \in 1..Len(b)
  <2>1. Len(a) + i \in 1..(Len(a) + Len(b)) /\ ~(Len(a) + i <= Len(a)) /\ (Len(a) + i) - Len(a) = i
    BY <1>1
  <2> QED BY <1>2, <1>4, <2>1
<1>6. rest = b
  BY <1>4, <1>5, SeqEqual DEF Path
<1> QED BY <1>3, <1>6 DEF rest

LEMMA JoinClear ==
  ASSUME NEW a \in Path, NEW b \in Path, Clear(a), Clear(b)
  PROVE  Clear(a \o b)
<1>1. Len(a) \in Nat /\ Len(b) \in Nat /\ DOMAIN a = 1..Len(a) /\ DOMAIN b = 1..Len(b)
      /\ DOMAIN (a \o b) = 1..(Len(a) + Len(b))
  BY PathLength, JoinTyped, JoinIs
<1>2. \A i \in 1..(Len(a) + Len(b)) : (a \o b)[i] = IF i <= Len(a) THEN a[i] ELSE b[i - Len(a)]
  BY JoinIs
<1>3. (\A i \in 1..Len(a) : a[i] \notin {"", "."}) /\ \A i \in 1..Len(b) : b[i] \notin {"", "."}
  BY <1>1 DEF Clear
<1>4. ASSUME NEW i \in 1..(Len(a) + Len(b))
      PROVE  (a \o b)[i] \notin {"", "."}
  <2>1. i <= Len(a) => i \in 1..Len(a)
    BY <1>1
  <2>2. ~(i <= Len(a)) => i - Len(a) \in 1..Len(b)
    BY <1>1
  <2> QED BY <1>2, <1>3, <2>1, <2>2
<1> QED BY <1>1, <1>4 DEF Clear

LEMMA RestClear ==
  ASSUME NEW path \in Path, NEW prefix \in Path, IsPrefix(prefix, path), Clear(path)
  PROVE  Clear(Rest(path, prefix))
<1>1. Len(path) \in Nat /\ Len(prefix) \in Nat /\ Len(prefix) <= Len(path) /\ DOMAIN path = 1..Len(path)
  BY PathLength, PrefixIs
<1>2. DOMAIN Rest(path, prefix) = 1..(Len(path) - Len(prefix))
      /\ \A i \in 1..(Len(path) - Len(prefix)) : Rest(path, prefix)[i] = path[Len(prefix) + i]
  BY RestIs, PathLength
<1>3. \A i \in 1..(Len(path) - Len(prefix)) : Len(prefix) + i \in 1..Len(path)
  BY <1>1
<1> QED BY <1>1, <1>2, <1>3 DEF Clear

-----------------------------------------------------------------------------
(* Mounts.                                                                 *)
LEMMA MountParts ==
  ASSUME NEW mapping, IsCodec(mapping), mapping.kind = "mount",
         NEW i \in DOMAIN Mounts(mapping), NEW k \in {1, 2}
  PROVE  Mounts(mapping)[i][k] \in Path /\ Clear(Mounts(mapping)[i][k])
<1>1. PICK one \in Path, other \in Path : Mounts(mapping)[i] = <<Normal(one), Normal(other)>>
  BY MountsTyped
<1>2. /\ Normal(one) \in Path /\ Clear(Normal(one))
      /\ Normal(other) \in Path /\ Clear(Normal(other))
  BY NormalTyped, NormalIsClear
<1> QED BY <1>1, <1>2

LEMMA FitIs ==
  ASSUME NEW mapping, IsCodec(mapping), mapping.kind = "mount", NEW path \in Path,
         NEW k \in {1, 2}, NEW i \in Fits(Mounts(mapping), k, path)
  PROVE  /\ i \in DOMAIN Mounts(mapping) /\ i \in Nat
         /\ Mounts(mapping)[i][1] \in Path /\ Clear(Mounts(mapping)[i][1])
         /\ Mounts(mapping)[i][2] \in Path /\ Clear(Mounts(mapping)[i][2])
         /\ IsPrefix(Mounts(mapping)[i][k], path)
<1>1. i \in DOMAIN Mounts(mapping) /\ IsPrefix(Mounts(mapping)[i][k], path)
  BY DEF Fits
<1>2. i \in Nat
  BY <1>1, MountsTyped
<1> QED BY <1>1, <1>2, MountParts

(* One prefix of a path in the place of another.                           *)
LEMMA Swapped ==
  ASSUME NEW path \in Path, Clear(path), NEW old \in Path, IsPrefix(old, path),
         NEW new \in Path, Clear(new)
  PROVE  /\ new \o Rest(path, old) \in Path /\ Clear(new \o Rest(path, old))
         /\ Len(new \o Rest(path, old)) = Len(new) + Len(path) - Len(old)
         /\ IsPrefix(new, new \o Rest(path, old))
         /\ Rest(new \o Rest(path, old), new) = Rest(path, old)
<1> DEFINE rest == Rest(path, old)
<1>1. rest \in Path /\ Clear(rest) /\ Len(rest) = Len(path) - Len(old)
  BY RestIs, RestClear
<1>2. Len(path) \in Nat /\ Len(old) \in Nat /\ Len(new) \in Nat
  BY PathLength
<1> HIDE DEF rest
<1>3. new \o rest \in Path /\ Clear(new \o rest) /\ Len(new \o rest) = Len(new) + Len(rest)
      /\ IsPrefix(new, new \o rest) /\ Rest(new \o rest, new) = rest
  BY <1>1, JoinTyped, JoinClear, JoinIs, JoinBegins
<1>4. Len(new) + Len(rest) = Len(new) + Len(path) - Len(old)
  BY <1>1, <1>2
<1> QED BY <1>3, <1>4 DEF rest

(* What a shadow under a mount is resolved to.                             *)
LEMMA ResolvedMount ==
  ASSUME NEW mapping, IsCodec(mapping), mapping.kind = "mount",
         NEW shadow \in Path, Clear(shadow), Relative(shadow), shadow # <<>>,
         Fits(Mounts(mapping), 1, shadow) # {},
         NEW at, at = Best(Mounts(mapping), 1, shadow),
         NEW back, back = Mounts(mapping)[at][2] \o Rest(shadow, Mounts(mapping)[at][1])
  PROVE  /\ back \in Path /\ Clear(back)
         /\ Len(back) = Len(Mounts(mapping)[at][2]) + Len(shadow) - Len(Mounts(mapping)[at][1])
         /\ IsPrefix(Mounts(mapping)[at][2], back)
         /\ RealPath(mapping, shadow) = IF Relative(back) THEN {back} ELSE {}
<1>1. at \in Fits(Mounts(mapping), 1, shadow)
  BY MountsTyped, BestFits, SMTT(60)
<1>2. /\ back \in Path /\ Clear(back) /\ IsPrefix(Mounts(mapping)[at][2], back)
      /\ Len(back) = Len(Mounts(mapping)[at][2]) + Len(shadow) - Len(Mounts(mapping)[at][1])
  <2> DEFINE new == Mounts(mapping)[at][2]
             old == Mounts(mapping)[at][1]
  <2>1. new \in Path /\ Clear(new) /\ old \in Path /\ IsPrefix(old, shadow)
    BY <1>1, FitIs
  <2> HIDE DEF new, old
  <2>2. /\ new \o Rest(shadow, old) \in Path /\ Clear(new \o Rest(shadow, old))
        /\ Len(new \o Rest(shadow, old)) = Len(new) + Len(shadow) - Len(old)
        /\ IsPrefix(new, new \o Rest(shadow, old))
    BY <2>1, Swapped
  <2>3. back = new \o Rest(shadow, old)
    BY DEF new, old
  <2> QED BY <2>2, <2>3 DEF new, old
<1>3. Decoded(mapping, shadow) = {back}
  BY DEF Decoded, Unmounted
<1>4. Canonical(shadow) = shadow /\ Canonical(back) = back
  BY <1>2, ClearIsCanonical
<1>5. RealPath(mapping, shadow) = {Canonical(r) : r \in {q \in {back} : Relative(q)}}
  BY <1>3, <1>4 DEF RealPath
<1>6. RealPath(mapping, shadow) = IF Relative(back) THEN {back} ELSE {}
  <2>1. CASE Relative(back)
    <3>1. {q \in {back} : Relative(q)} = {back}
      BY <2>1
    <3>2. {Canonical(r) : r \in {back}} = {back}
      BY <1>4
    <3> QED BY <1>5, <2>1, <3>1, <3>2
  <2>2. CASE ~Relative(back)
    <3>1. {q \in {back} : Relative(q)} = {}
      BY <2>2
    <3>2. {Canonical(r) : r \in {}} = {}
      OBVIOUS
    <3> QED BY <1>5, <2>2, <3>1, <3>2
  <2> QED BY <2>1, <2>2
<1> QED BY <1>2, <1>6

(* Two mounts of one path, with shadow prefixes of lengths sa and sb and   *)
(* real prefixes of lengths ra and rb, whose lengths differ by as much:    *)
(* the first is not the better real and the second the better shadow one.  *)
LEMMA BestIsOne ==
  ASSUME NEW sa \in Nat, NEW sb \in Nat, NEW ra \in Nat, NEW rb \in Nat,
         NEW p \in Nat, NEW q \in Nat, NEW at \in Nat, NEW by \in Nat,
         p = rb + q - sb, q = sa + p - ra,
         rb < ra \/ (rb = ra /\ by <= at),
         sa < sb \/ (sa = sb /\ at < by)
  PROVE  FALSE
<1>1. rb + sa = ra + sb
  OBVIOUS
<1> QED BY <1>1

(* What is under a mount leads back unless it is hidden.  If another mount *)
(* took the name it would have to have a real prefix as much longer as its *)
(* shadow, and would be the one the path is listed under.                  *)
LEMMA MountedLeadsBack ==
  ASSUME IsCodec(codec), codec.kind = "mount",
         NEW path \in Seq(Name), path # <<>>, Mapped(path),
         NEW shadow \in MountedAs(codec, path)
  PROVE  RealPath(codec, shadow) = {path} <=> ~Hidden(path)
<1> DEFINE mounts == Mounts(codec)
           at == Best(mounts, 2, path)
<1>1. path \in Path /\ Clear(path) /\ Relative(path) /\ Len(path) \in Nat
  BY NamesAreClear, PathLength
<1>2. at \in Fits(mounts, 2, path)
      /\ \A j \in Fits(mounts, 2, path) :
           \/ Len(mounts[j][2]) < Len(mounts[at][2])
           \/ Len(mounts[j][2]) = Len(mounts[at][2]) /\ j <= at
  BY <1>1, MountsTyped, BestFits DEF Mapped
<1>3. shadow = mounts[at][1] \o Rest(path, mounts[at][2])
  BY <1>2 DEF MountedAs
<1>4. Hidden(path) <=>
        \/ shadow = <<>> \/ ~Relative(shadow)
        \/ \E i \in Fits(mounts, 1, shadow) :
             \/ Len(mounts[at][1]) < Len(mounts[i][1])
             \/ Len(mounts[at][1]) = Len(mounts[i][1]) /\ at < i
  BY <1>3 DEF Hidden
<1>5. /\ at \in DOMAIN mounts /\ at \in Nat
      /\ mounts[at][1] \in Path /\ Clear(mounts[at][1]) /\ Len(mounts[at][1]) \in Nat
      /\ mounts[at][2] \in Path /\ IsPrefix(mounts[at][2], path) /\ Len(mounts[at][2]) \in Nat
  BY <1>1, <1>2, FitIs, PathLength
<1>6. /\ shadow \in Path /\ Clear(shadow) /\ Len(shadow) \in Nat
      /\ Len(shadow) = Len(mounts[at][1]) + Len(path) - Len(mounts[at][2])
      /\ IsPrefix(mounts[at][1], shadow)
      /\ Rest(shadow, mounts[at][1]) = Rest(path, mounts[at][2])
  BY <1>1, <1>3, <1>5, Swapped, PathLength, ZenonT(60)
<1>7. mounts[at][2] \o Rest(path, mounts[at][2]) = path
  BY <1>1, <1>5, Rejoined
<1>8. at \in Fits(mounts, 1, shadow)
  BY <1>5, <1>6 DEF Fits
<1> HIDE DEF at
<1>9. CASE shadow = <<>>
  <2>1. Canonical(<<>>) = <<>>
    BY <1>6, <1>9, ClearIsCanonical
  <2>2. RealPath(codec, shadow) \subseteq {<<>>}
    BY <1>9, <2>1 DEF RealPath
  <2> QED BY <1>4, <1>9, <2>2
<1>10. CASE ~Relative(shadow)
  <2>1. RealPath(codec, shadow) = {}
    BY <1>10 DEF RealPath
  <2> QED BY <1>4, <1>10, <2>1
<1>11. CASE shadow # <<>> /\ Relative(shadow)
  <2> DEFINE by == Best(mounts, 1, shadow)
             back == mounts[by][2] \o Rest(shadow, mounts[by][1])
  <2>1. by \in Fits(mounts, 1, shadow)
        /\ \A j \in Fits(mounts, 1, shadow) :
             \/ Len(mounts[j][1]) < Len(mounts[by][1])
             \/ Len(mounts[j][1]) = Len(mounts[by][1]) /\ j <= by
    <3>1. mounts \in Seq(Path \X Path) /\ shadow \in Path /\ Fits(mounts, 1, shadow) # {}
      BY <1>6, <1>8, MountsTyped
    <3> HIDE DEF mounts
    <3> QED BY ONLY <3>1, BestFits
  <2>2. /\ back \in Path /\ IsPrefix(mounts[by][2], back)
        /\ Len(back) = Len(mounts[by][2]) + Len(shadow) - Len(mounts[by][1])
        /\ RealPath(codec, shadow) = IF Relative(back) THEN {back} ELSE {}
    BY <1>6, <1>8, <1>11, ResolvedMount, ZenonT(60)
  <2>3. /\ by \in DOMAIN mounts /\ by \in Nat
        /\ Len(mounts[by][1]) \in Nat /\ Len(mounts[by][2]) \in Nat
    BY <1>6, <2>1, FitIs, PathLength, SMTT(60)
  <2>4. ASSUME ~Hidden(path)
        PROVE  RealPath(codec, shadow) = {path}
    <3>1. by = at
      BY <1>4, <1>5, <1>8, <2>1, <2>3, <2>4
    <3>2. back = path
      BY <1>6, <1>7, <3>1
    <3> QED BY <1>1, <2>2, <3>2
  <2>5. ASSUME RealPath(codec, shadow) = {path}, Hidden(path)
        PROVE  FALSE
    <3>1. back = path
      BY <2>2, <2>5
    <3> HIDE DEF back, by
    <3>2. by \in Fits(mounts, 2, path)
      BY <2>2, <2>3, <3>1 DEF Fits
    <3>3. \/ Len(mounts[by][2]) < Len(mounts[at][2])
          \/ Len(mounts[by][2]) = Len(mounts[at][2]) /\ by <= at
      BY <1>2, <3>2
    <3>4. PICK i \in Fits(mounts, 1, shadow) :
             \/ Len(mounts[at][1]) < Len(mounts[i][1])
             \/ Len(mounts[at][1]) = Len(mounts[i][1]) /\ at < i
      BY <1>4, <1>11, <2>5
    <3>5. i \in Nat /\ Len(mounts[i][1]) \in Nat
      BY <1>6, FitIs, PathLength
    <3> HIDE DEF mounts
    <3>6. \/ Len(mounts[i][1]) < Len(mounts[by][1])
          \/ Len(mounts[i][1]) = Len(mounts[by][1]) /\ i <= by
      BY <2>1
    <3>7. \/ Len(mounts[at][1]) < Len(mounts[by][1])
          \/ Len(mounts[at][1]) = Len(mounts[by][1]) /\ at < by
      <4> DEFINE a == Len(mounts[at][1])
                 b == Len(mounts[by][1])
                 c == Len(mounts[i][1])
      <4>1. /\ a \in Nat /\ b \in Nat /\ c \in Nat
            /\ a < c \/ (a = c /\ at < i)
            /\ c < b \/ (c = b /\ i <= by)
        BY <1>5, <2>3, <3>4, <3>5, <3>6
      <4>2. at \in Nat /\ i \in Nat /\ by \in Nat
        BY <1>5, <2>3, <3>5
      <4> HIDE DEF a, b, c
      <4>3. a < b \/ (a = b /\ at < by)
        BY <4>1, <4>2
      <4> QED BY <4>3 DEF a, b
    <3>8. Len(path) = Len(mounts[by][2]) + Len(shadow) - Len(mounts[by][1])
      BY <2>2, <3>1
    <3> DEFINE sa == Len(mounts[at][1])
               sb == Len(mounts[by][1])
               ra == Len(mounts[at][2])
               rb == Len(mounts[by][2])
               p == Len(path)
               q == Len(shadow)
    <3>9. /\ sa \in Nat /\ sb \in Nat /\ ra \in Nat /\ rb \in Nat /\ p \in Nat /\ q \in Nat
          /\ at \in Nat /\ by \in Nat
      BY <1>1, <1>5, <1>6, <2>3
    <3>10. p = rb + q - sb /\ q = sa + p - ra
      BY <1>6, <3>8
    <3>11. rb < ra \/ (rb = ra /\ by <= at)
      BY <3>3
    <3>12. sa < sb \/ (sa = sb /\ at < by)
      BY <3>7
    <3> HIDE DEF sa, sb, ra, rb, p, q
    <3> QED BY ONLY <3>9, <3>10, <3>11, <3>12, BestIsOne
  <2> QED BY <2>4, <2>5
<1> QED BY <1>9, <1>10, <1>11

(* No beginning of a shadow is mounted if the shadow is not.               *)
LEMMA NothingMounted ==
  ASSUME NEW mapping, IsCodec(mapping), mapping.kind = "mount",
         NEW path \in Path, Fits(Mounts(mapping), 1, path) = {}
  PROVE  Decoded(mapping, path) = {} /\ Compound(mapping, path) = {}
<1> DEFINE mounts == Mounts(mapping)
<1>1. Len(path) \in Nat
  BY PathLength
<1>2. ASSUME NEW n \in 1..(Len(path) - 1)
      PROVE  Decoded(mapping, SubSeq(path, 1, n)) = {}
  <2> DEFINE start == SubSeq(path, 1, n)
  <2>1. n \in 0..Len(path)
    BY <1>1
  <2>2. start \in Path /\ Len(start) = n /\ \A i \in 1..n : start[i] = path[i]
    BY <2>1, CutPath
  <2>3. IsPrefix(start, path)
    <3> HIDE DEF start
    <3> QED BY <2>1, <2>2, PrefixIs
  <2> HIDE DEF start
  <2>4. Fits(mounts, 1, start) = {}
    <3> SUFFICES ASSUME NEW i \in Fits(mounts, 1, start)
                 PROVE  FALSE
      OBVIOUS
    <3>1. i \in DOMAIN mounts /\ mounts[i][1] \in Path /\ IsPrefix(mounts[i][1], start)
      BY <2>2, FitIs
    <3>2. IsPrefix(mounts[i][1], path)
      BY <2>2, <2>3, <3>1, PrefixOfPrefix
    <3> QED BY <3>1, <3>2 DEF Fits
  <2> QED BY <2>4 DEF Decoded, Unmounted, start
<1> QED BY <1>2 DEF Compound, Decoded, Unmounted

(* A path outside every mount is none of their shadows, or means another.  *)
LEMMA UnmappedIsLost ==
  ASSUME IsCodec(codec), codec.kind = "mount",
         NEW path \in Seq(Name), path # <<>>, ~Mapped(path)
  PROVE  RealPath(codec, path) # {path}
<1> DEFINE mounts == Mounts(codec)
<1>1. path \in Path /\ Clear(path) /\ Relative(path) /\ Canonical(path) = path
  BY NamesAreClear
<1>2. Fits(mounts, 2, path) = {}
  BY SMTT(60) DEF Mapped
<1>3. CASE Fits(mounts, 1, path) # {}
  <2> DEFINE by == Best(mounts, 1, path)
             back == mounts[by][2] \o Rest(path, mounts[by][1])
  <2>1. /\ IsPrefix(mounts[by][2], back)
        /\ RealPath(codec, path) = IF Relative(back) THEN {back} ELSE {}
    BY <1>1, <1>3, ResolvedMount, ZenonT(60)
  <2>2. by \in DOMAIN mounts
    <3>1. mounts \in Seq(Path \X Path) /\ 1 \in {1, 2}
      BY MountsTyped
    <3> HIDE DEF mounts
    <3> QED BY <1>1, <1>3, <3>1, BestFits DEF Fits
  <2>3. back # path
    BY <1>2, <2>1, <2>2 DEF Fits
  <2> QED BY <2>1, <2>3
<1>4. CASE Fits(mounts, 1, path) = {}
  <2>1. Compound(codec, path) = {} /\ Decoded(codec, path) = {}
    BY <1>1, <1>4, NothingMounted
  <2>2. RealPath(codec, path) = {}
    BY <1>1, <2>1 DEF RealPath
  <2> QED BY <2>2
<1> QED BY <1>3, <1>4

(* What a codec makes of a path a client may know it by.                   *)
LEMMA EncodedLeadsBack ==
  ASSUME IsCodec(codec), NEW path \in Seq(Name), path # <<>>,
         NEW shadow \in Encoded(codec, path)
  PROVE  RealPath(codec, shadow) = {path} <=> Mapped(path) /\ ~Hidden(path)
<1>1. path \in Path /\ Relative(path) /\ Canonical(path) = path
  BY NamesAreClear
<1>2. CASE codec.kind = "identity"
  <2>1. shadow = path /\ Decoded(codec, path) = {path}
    BY <1>2 DEF Encoded, Decoded
  <2>2. RealPath(codec, shadow) = {Canonical(r) : r \in {q \in {path} : Relative(q)}}
    BY <1>1, <2>1 DEF RealPath
  <2>3. RealPath(codec, shadow) = {path}
    BY <1>1, <2>2
  <2> QED BY <1>2, <2>3 DEF Mapped, Hidden
<1>3. CASE codec.kind = "sealed"
  <2>1. PICK name \in DOMAIN codec.names : shadow = <<name>> /\ codec.names[name] = path
    BY <1>3 DEF Encoded, SealedAs
  <2>2. shadow \in Seq(Name) /\ Len(shadow) = 1 /\ shadow[1] = name /\ shadow # <<>>
    <3>1. name \in Name
      BY <1>3 DEF IsCodec
    <3> QED BY <2>1, <3>1
  <2>3. Relative(shadow) /\ Canonical(shadow) = shadow
    BY <2>2, NamesAreClear
  <2>4. Decoded(codec, shadow) = {path}
    BY <1>3, <2>1, <2>2 DEF Decoded, Unsealed
  <2>5. RealPath(codec, shadow) = {Canonical(r) : r \in {q \in {path} : Relative(q)}}
    BY <2>2, <2>3, <2>4 DEF RealPath
  <2>6. RealPath(codec, shadow) = {path}
    BY <1>1, <2>5
  <2> QED BY <1>3, <2>6 DEF Mapped, Hidden
<1>4. CASE codec.kind = "mount" /\ Mapped(path)
  BY <1>4, MountedLeadsBack DEF Encoded
<1>5. CASE codec.kind = "mount" /\ ~Mapped(path)
  <2>1. shadow = path
    BY <1>5 DEF Encoded, MountedAs, Mapped
  <2> QED BY <1>5, <2>1, UnmappedIsLost
<1> QED BY <1>2, <1>3, <1>4, <1>5 DEF IsCodec

-----------------------------------------------------------------------------
(* The invariant: what is stored has names, so has what is asked for once  *)
(* it is translated, and what was listed leads where it should.            *)
ListInv ==
  /\ DOMAIN files \subseteq Seq(Name) /\ real \in Seq(Name)
  /\ ListedLeadsBack

LEMMA RealPathIsNames ==
  ASSUME NEW mapping, IsCodec(mapping), NEW asks \in Path
  PROVE  RealPath(mapping, asks) \subseteq Seq(Name)
<1> DEFINE shadow == Canonical(asks)
           whole == Decoded(mapping, shadow)
           reals == IF shadow = <<>> THEN {<<>>}
                    ELSE IF whole # {} THEN whole ELSE Compound(mapping, shadow)
<1>1. shadow \in Path /\ <<>> \in Path
  BY CanonicalTyped DEF Path
<1>2. reals \subseteq Path
  <2> HIDE DEF shadow
  <2>1. whole \subseteq Path /\ Compound(mapping, shadow) \subseteq Path
    BY <1>1, CodecTyped, CompoundTyped
  <2> QED BY <1>1, <2>1
<1>3. RealPath(mapping, asks) \subseteq {Canonical(place) : place \in {r \in reals : Relative(r)}}
  BY DEF RealPath
<1> HIDE DEF reals
<1> QED BY <1>2, <1>3, CanonicalIsNames

LEMMA ChildIs ==
  ASSUME DOMAIN files \subseteq Seq(Name), NEW path \in Path, NEW c \in Children(path)
  PROVE  c \in Seq(Name) /\ c # <<>> /\ \E f \in DOMAIN files : IsPrefix(c, f)
<1>1. PICK f \in DOMAIN files : IsStrictPrefix(path, f) /\ c = SubSeq(f, 1, Len(path) + 1)
  BY DEF Children
<1>2. f \in Path /\ f \in Seq(Name) /\ Len(f) \in Nat /\ Len(path) \in Nat /\ Len(path) < Len(f)
  BY <1>1, NamesArePaths, PathLength, StrictPrefixIs
<1>3. /\ c \in Path /\ Len(c) = Len(path) + 1
      /\ \A i \in 1..(Len(path) + 1) : c[i] = f[i]
  BY <1>1, <1>2, CutPath
<1>4. c \in Seq(Name)
  <2>1. \A i \in 1..(Len(path) + 1) : i \in 1..Len(f)
    BY <1>2
  <2> QED BY <1>2, <1>3, <2>1, NamesOfPath
<1>5. c # <<>>
  BY <1>2, <1>3
<1>6. IsPrefix(c, f)
  BY <1>2, <1>3, PrefixIs
<1> QED BY <1>1, <1>4, <1>5, <1>6

LEMMA ListingStays ==
  ASSUME ListInv, codec' = codec, listed' = listed,
         DOMAIN files' \subseteq Seq(Name), real' \in Seq(Name)
  PROVE  ListInv'
<1>1. \A entry \in listed : LeadsBack(entry)' <=> LeadsBack(entry)
  BY DEF LeadsBack
<1>2. \A path : Mapped(path)' <=> Mapped(path)
  BY DEF Mapped
<1>3. \A path : Hidden(path)' <=> Hidden(path)
  BY DEF Hidden
<1> QED BY <1>1, <1>2, <1>3 DEF ListInv, ListedLeadsBack

(* What List puts down.                                                    *)
LEMMA ListingMade ==
  ASSUME RequestInv, ListInv, List, ~UNCHANGED listed
  PROVE  \A entry \in listed' :
           /\ entry.real \in Children(real)
           /\ LeadsBack(entry) <=> Mapped(entry.real) /\ ~Hidden(entry.real)
<1>1. PICK shadow \in [Children(real) -> UNION {Encoded(codec, c) : c \in Children(real)}] :
        /\ \A c \in Children(real) : shadow[c] \in Encoded(codec, c)
        /\ listed' = {[real |-> c, shadow |-> shadow[c]] : c \in Children(real)}
  BY DEF List
<1>2. IsCodec(codec) /\ real \in Path /\ DOMAIN files \subseteq Seq(Name)
  BY PathsAssumption DEF RequestInv, TypeInv, ListInv
<1>3. ASSUME NEW c \in Children(real)
      PROVE  RealPath(codec, shadow[c]) = {c} <=> Mapped(c) /\ ~Hidden(c)
  BY <1>1, <1>2, ChildIs, EncodedLeadsBack
<1> SUFFICES ASSUME NEW entry \in listed'
             PROVE  /\ entry.real \in Children(real)
                    /\ LeadsBack(entry) <=> Mapped(entry.real) /\ ~Hidden(entry.real)
  OBVIOUS
<1>4. PICK c \in Children(real) : entry = [real |-> c, shadow |-> shadow[c]]
  BY <1>1
<1>5. entry.real = c /\ entry.shadow = shadow[c]
  BY <1>4
<1>6. LeadsBack(entry) <=> RealPath(codec, shadow[c]) = {c}
  BY <1>5 DEF LeadsBack
<1> QED BY <1>3, <1>5, <1>6

LEMMA ListInit == Init => ListInv
<1> SUFFICES ASSUME Init
             PROVE  ListInv
  OBVIOUS
<1>1. files \in Trees /\ real = <<>> /\ listed = {}
  BY DEF Init
<1>2. <<>> \in Seq(Name)
  BY EmptySeq
<1> QED BY <1>1, <1>2, TreesAssumption DEF ListInv, ListedLeadsBack

LEMMA ListInvStep == RequestInv /\ ListInv /\ [Next]_vars => ListInv'
<1> SUFFICES ASSUME RequestInv, ListInv, [Next]_vars
             PROVE  ListInv'
  OBVIOUS
<1>1. IsCodec(codec) /\ raw \in Path /\ real \in Seq(Name) /\ DOMAIN files \subseteq Seq(Name)
  BY PathsAssumption DEF RequestInv, TypeInv, ListInv
<1>2. ASSUME \/ ValidateProtocol \/ Authenticate \/ PlanDownload \/ OpenFile \/ Produce
             \/ FinishBody \/ Read \/ EndOfBody \/ Break \/ UNCHANGED vars
      PROVE  ListInv'
  <2>1. UNCHANGED <<setting, files, real, listed>>
    BY <1>2 DEF ValidateProtocol, Authenticate, PlanDownload, OpenFile, Produce, FinishBody, Read,
                EndOfBody, Break, vars
  <2> QED BY <1>1, <2>1, ListingStays DEF setting
<1>3. CASE Ask
  BY <1>1, <1>3, EmptySeq, ListingStays DEF Ask, setting
<1>4. CASE Resolve
  <2>1. UNCHANGED <<setting, files, listed>> /\ (real' = real \/ real' \in RealPath(codec, raw))
    BY <1>4 DEF Resolve
  <2>2. real' \in Seq(Name)
    BY <1>1, <2>1, RealPathIsNames
  <2> QED BY <1>1, <2>1, <2>2, ListingStays DEF setting
<1>5. CASE List
  <2>1. UNCHANGED <<setting, files, real>>
    BY <1>5 DEF List
  <2>2. CASE UNCHANGED listed
    BY <1>1, <2>1, <2>2, ListingStays DEF setting
  <2>3. CASE ~UNCHANGED listed
    <3>1. \A entry \in listed' : LeadsBack(entry) <=> Mapped(entry.real) /\ ~Hidden(entry.real)
      BY <1>5, <2>3, ListingMade
    <3>2. ListedLeadsBack'
      BY <2>1, <3>1, ZenonT(60) DEF ListedLeadsBack, LeadsBack, Mapped, Hidden, setting
    <3> QED BY <1>1, <2>1, <3>2 DEF ListInv
  <2> QED BY <2>2, <2>3
<1>6. ASSUME Replaced(real)
      PROVE  DOMAIN files' \subseteq Seq(Name)
  BY <1>1, <1>6 DEF Replaced
<1>7. CASE Upload
  <2>1. UNCHANGED <<setting, real, listed>> /\ (UNCHANGED files \/ Replaced(real))
    BY <1>7 DEF Upload, request
  <2> QED BY <1>1, <1>6, <2>1, ListingStays DEF setting
<1>8. CASE Disturb
  <2>1. /\ UNCHANGED <<setting, real, listed>>
        /\ Replaced(real) \/ files' = [f \in DOMAIN files \ {real} |-> files[f]]
    BY <1>8 DEF Disturb
  <2>2. DOMAIN files' \subseteq Seq(Name)
    BY <1>1, <1>6, <2>1
  <2> QED BY <1>1, <2>1, <2>2, ListingStays DEF setting
<1> QED BY <1>2, <1>3, <1>4, <1>5, <1>7, <1>8 DEF Next

(* Which listed paths can be used to ask for what they were listed for:    *)
(* all sealed ones, and all that are mounted and not hidden by another     *)
(* mount; no others, however mounts are nested, repeated or written, and   *)
(* whatever was uploaded meanwhile (list_dir_impl, MountPathCodec,         *)
(* resolve_client_path).                                                   *)
THEOREM ListingsLeadBack == Spec => []ListedLeadsBack
<1>1. Init => ListInv
  BY ListInit
<1>2. RequestInv /\ ListInv /\ [Next]_vars => ListInv'
  BY ListInvStep
<1>3. ListInv => ListedLeadsBack
  BY DEF ListInv
<1> QED BY <1>1, <1>2, <1>3, RequestInvariant, PTL DEF Spec

-----------------------------------------------------------------------------
(* Mounts of separate subtrees, none of them in the place of the root.     *)
Separate ==
  codec.kind = "mount" =>
    \A i, j \in DOMAIN Mounts(codec) :
      /\ Mounts(codec)[i][1] # <<>>
      /\ IsPrefix(Mounts(codec)[i][2], Mounts(codec)[j][2]) => i = j
Shown(path) == Mapped(path) => ~Hidden(path)
NothingHidden == \A f \in DOMAIN files : Shown(f)

LEMMA Comparable ==
  ASSUME NEW a \in Path, NEW b \in Path, NEW c \in Path, IsPrefix(a, c), IsPrefix(b, c)
  PROVE  IsPrefix(a, b) \/ IsPrefix(b, a)
<1>1. Len(a) \in Nat /\ Len(b) \in Nat /\ Len(c) \in Nat
  BY PathLength
<1>2. (\A i \in 1..Len(a) : a[i] = c[i]) /\ \A i \in 1..Len(b) : b[i] = c[i]
  BY PrefixIs
<1>3. CASE Len(a) <= Len(b)
  <2>1. \A i \in 1..Len(a) : i \in 1..Len(b)
    BY <1>1, <1>3
  <2> QED BY <1>2, <1>3, <2>1, PrefixIs
<1>4. CASE Len(b) <= Len(a)
  <2>1. \A i \in 1..Len(b) : i \in 1..Len(a)
    BY <1>1, <1>4
  <2> QED BY <1>2, <1>4, <2>1, PrefixIs
<1> QED BY <1>1, <1>3, <1>4

(* Then a path lies in one mount at most.                                  *)
LEMMA OneMount ==
  ASSUME IsCodec(codec), codec.kind = "mount", Separate, NEW path \in Path,
         NEW i \in Fits(Mounts(codec), 2, path)
  PROVE  Best(Mounts(codec), 2, path) = i
<1> DEFINE mounts == Mounts(codec)
           at == Best(mounts, 2, path)
<1>1. at \in Fits(mounts, 2, path)
  BY MountsTyped, BestFits
<1> HIDE DEF at
<1>2. /\ i \in DOMAIN mounts /\ mounts[i][2] \in Path /\ IsPrefix(mounts[i][2], path)
      /\ at \in DOMAIN mounts /\ mounts[at][2] \in Path /\ IsPrefix(mounts[at][2], path)
  BY <1>1, FitIs
<1>3. IsPrefix(mounts[i][2], mounts[at][2]) \/ IsPrefix(mounts[at][2], mounts[i][2])
  BY <1>2, Comparable
<1> QED BY <1>2, <1>3 DEF Separate, at

(* What is hidden hides all that is below it.                              *)
LEMMA HiddenBelow ==
  ASSUME IsCodec(codec), Separate, NEW dir \in Seq(Name), NEW path \in Seq(Name),
         IsPrefix(dir, path), Mapped(dir), Hidden(dir)
  PROVE  ~Shown(path)
<1> DEFINE mounts == Mounts(codec)
           at == Best(mounts, 2, dir)
           new == mounts[at][1]
           old == mounts[at][2]
           name == new \o Rest(dir, old)
           long == new \o Rest(path, old)
<1>1. /\ codec.kind = "mount" /\ dir \in Path /\ path \in Path
      /\ Clear(dir) /\ Clear(path) /\ Len(dir) \in Nat /\ Len(path) \in Nat
  BY NamesAreClear, PathLength DEF Hidden
<1>2. at \in Fits(mounts, 2, dir)
  BY <1>1, MountsTyped, BestFits DEF Mapped
<1>3. /\ at \in DOMAIN mounts /\ new \in Path /\ Clear(new) /\ new # <<>>
      /\ old \in Path /\ IsPrefix(old, dir) /\ Len(new) \in Nat /\ Len(old) \in Nat
  <2>1. /\ at \in DOMAIN mounts /\ new \in Path /\ Clear(new) /\ old \in Path /\ IsPrefix(old, dir)
    BY <1>1, <1>2, FitIs
  <2>2. new # <<>>
    BY <1>1, <2>1 DEF Separate
  <2> QED BY <2>1, <2>2, PathLength
<1>4. IsPrefix(old, path)
  BY <1>1, <1>3, PrefixOfPrefix
<1>5. at \in Fits(mounts, 2, path)
  BY <1>3, <1>4 DEF Fits
<1>6. Best(mounts, 2, path) = at
  BY <1>1, <1>5, OneMount
<1>7. Mapped(path)
  BY <1>5 DEF Mapped
<1>8. /\ name = <<>> \/ ~Relative(name)
         \/ \E i \in Fits(mounts, 1, name) :
              \/ Len(mounts[at][1]) < Len(mounts[i][1])
              \/ Len(mounts[at][1]) = Len(mounts[i][1]) /\ at < i
  BY DEF Hidden
<1>9. Hidden(path) <=>
        \/ long = <<>> \/ ~Relative(long)
        \/ \E i \in Fits(mounts, 1, long) :
             \/ Len(mounts[at][1]) < Len(mounts[i][1])
             \/ Len(mounts[at][1]) = Len(mounts[i][1]) /\ at < i
  BY <1>1, <1>6 DEF Hidden
<1> HIDE DEF mounts, at, new, old
<1>10. /\ name \in Path /\ Clear(name) /\ Len(name) = Len(new) + Len(dir) - Len(old)
       /\ long \in Path /\ Clear(long) /\ Len(long) = Len(new) + Len(path) - Len(old)
  BY <1>1, <1>3, <1>4, Swapped
<1>11. /\ Len(dir) <= Len(path) /\ Len(old) <= Len(dir) /\ \A i \in 1..Len(dir) : dir[i] = path[i]
  BY <1>1, <1>3, PrefixIs
<1>12. IsPrefix(name, long)
  <2>1. Rest(dir, old) \in Path /\ Len(Rest(dir, old)) = Len(dir) - Len(old)
        /\ \A i \in 1..(Len(dir) - Len(old)) : Rest(dir, old)[i] = dir[Len(old) + i]
    BY <1>1, <1>3, RestIs
  <2>2. Rest(path, old) \in Path /\ Len(Rest(path, old)) = Len(path) - Len(old)
        /\ \A i \in 1..(Len(path) - Len(old)) : Rest(path, old)[i] = path[Len(old) + i]
    BY <1>1, <1>3, <1>4, RestIs
  <2>3. \A i \in 1..(Len(dir) - Len(old)) : Rest(dir, old)[i] = Rest(path, old)[i]
    <3>1. \A i \in 1..(Len(dir) - Len(old)) :
            i \in 1..(Len(path) - Len(old)) /\ Len(old) + i \in 1..Len(dir)
      BY <1>1, <1>3, <1>11
    <3> QED BY <1>11, <2>1, <2>2, <3>1
  <2>4. /\ \A i \in 1..(Len(new) + (Len(dir) - Len(old))) :
              name[i] = IF i <= Len(new) THEN new[i] ELSE Rest(dir, old)[i - Len(new)]
        /\ \A i \in 1..(Len(new) + (Len(path) - Len(old))) :
              long[i] = IF i <= Len(new) THEN new[i] ELSE Rest(path, old)[i - Len(new)]
    BY <1>3, <2>1, <2>2, JoinIs, SMTT(60)
  <2>5. \A i \in 1..Len(name) :
          /\ i \in 1..(Len(new) + (Len(dir) - Len(old)))
          /\ i \in 1..(Len(new) + (Len(path) - Len(old)))
          /\ ~(i <= Len(new)) => i - Len(new) \in 1..(Len(dir) - Len(old))
    BY <1>1, <1>3, <1>10, <1>11
  <2> HIDE DEF name, long
  <2>6. \A i \in 1..Len(name) : name[i] = long[i]
    BY <2>3, <2>4, <2>5, SMTT(60)
  <2>7. Len(name) <= Len(long)
    BY <1>1, <1>3, <1>10, <1>11
  <2> QED BY <1>10, <2>6, <2>7, PrefixIs
<1>13. name # <<>> /\ long # <<>>
  <2>1. Len(new) # 0
    BY <1>3, EmptySeq DEF Path
  <2>2. Len(name) # 0 /\ Len(long) # 0
    BY <1>1, <1>3, <1>10, <1>11, <2>1
  <2> HIDE DEF name, long
  <2> QED BY <2>2
<1> HIDE DEF name, long
<1>14. ~Relative(name) => ~Relative(long)
  <2>1. Len(name) \in Nat /\ DOMAIN name = 1..Len(name) /\ DOMAIN long = 1..Len(long)
        /\ Len(long) \in Nat /\ Len(name) <= Len(long) /\ \A i \in 1..Len(name) : name[i] = long[i]
    BY <1>10, <1>12, PathLength, PrefixIs
  <2>2. 1 \in DOMAIN name
    BY <1>10, <1>13, <2>1, EmptySeq DEF Path
  <2>3. name[1] # ""
    BY <1>10, <2>2 DEF Clear
  <2>4. DOMAIN name \subseteq DOMAIN long
    BY <2>1
  <2> QED BY <2>1, <2>3, <2>4 DEF Relative
<1>15. Fits(mounts, 1, name) \subseteq Fits(mounts, 1, long)
  <2> SUFFICES ASSUME NEW i \in Fits(mounts, 1, name)
               PROVE  i \in Fits(mounts, 1, long)
    OBVIOUS
  <2>1. i \in DOMAIN mounts /\ mounts[i][1] \in Path /\ IsPrefix(mounts[i][1], name)
    BY <1>1, <1>10, FitIs DEF mounts
  <2> QED BY <1>10, <1>12, <2>1, PrefixOfPrefix DEF Fits
<1>16. Hidden(path)
  BY <1>8, <1>9, <1>13, <1>14, <1>15
<1> QED BY <1>7, <1>16 DEF Shown

(* What can be asked for can be listed.                                    *)
LEMMA ResolvedIsShown ==
  ASSUME IsCodec(codec), Separate, NEW asks \in Path,
         NEW path \in RealPath(codec, asks), path # <<>>
  PROVE  Shown(path)
<1> DEFINE mounts == Mounts(codec)
           shadow == Canonical(asks)
           by == Best(mounts, 1, shadow)
           new == mounts[by][2]
           old == mounts[by][1]
           back == new \o Rest(shadow, old)
<1> SUFFICES ASSUME codec.kind = "mount"
             PROVE  ~Hidden(path)
  BY DEF Shown, Hidden
<1>1. Relative(asks)
  BY DEF RealPath
<1>2. shadow \in Path /\ Clear(shadow) /\ Relative(shadow) /\ Canonical(shadow) = shadow
  BY <1>1, CanonicalIsNames, NamesAreClear
<1>3. RealPath(codec, asks) = RealPath(codec, shadow)
  BY <1>1, <1>2 DEF RealPath
<1>4. shadow # <<>>
  <2> SUFFICES ASSUME shadow = <<>>
               PROVE  FALSE
    OBVIOUS
  <2>1. RealPath(codec, shadow) \subseteq {<<>>}
    BY <1>2 DEF RealPath
  <2> QED BY <1>3, <2>1
<1> HIDE DEF shadow
<1>5. Fits(mounts, 1, shadow) # {}
  <2> SUFFICES ASSUME Fits(mounts, 1, shadow) = {}
               PROVE  FALSE
    OBVIOUS
  <2>1. Decoded(codec, shadow) = {} /\ Compound(codec, shadow) = {}
    BY <1>2, NothingMounted
  <2>2. RealPath(codec, shadow) = {}
    BY <1>2, <1>4, <2>1 DEF RealPath
  <2> QED BY <1>3, <2>2
<1>6. by \in Fits(mounts, 1, shadow)
      /\ \A j \in Fits(mounts, 1, shadow) :
           \/ Len(mounts[j][1]) < Len(mounts[by][1])
           \/ Len(mounts[j][1]) = Len(mounts[by][1]) /\ j <= by
  BY <1>2, <1>5, MountsTyped, BestFits, SMTT(60)
<1>7. /\ by \in DOMAIN mounts /\ by \in Nat /\ new \in Path /\ Clear(new)
      /\ old \in Path /\ IsPrefix(old, shadow) /\ Len(old) \in Nat
  BY <1>2, <1>6, FitIs, PathLength
<1>8. RealPath(codec, shadow) = IF Relative(back) THEN {back} ELSE {}
  <2> DEFINE to == back
  <2>1. by = Best(Mounts(codec), 1, shadow)
        /\ to = Mounts(codec)[by][2] \o Rest(shadow, Mounts(codec)[by][1])
    BY SMTT(60)
  <2> HIDE DEF by, to
  <2>2. RealPath(codec, shadow) = IF Relative(to) THEN {to} ELSE {}
    BY <1>2, <1>4, <1>5, <2>1, ResolvedMount
  <2> QED BY <2>2 DEF to
<1>9. path = back
  BY <1>3, <1>8
<1> HIDE DEF by
<1>10. back \in Path /\ IsPrefix(new, back) /\ Rest(back, new) = Rest(shadow, old)
  <2> HIDE DEF new, old
  <2> QED BY <1>2, <1>7, Swapped
<1>11. Best(mounts, 2, path) = by
  <2>1. by \in Fits(mounts, 2, path)
    BY <1>7, <1>9, <1>10, SMTT(60) DEF Fits
  <2> QED BY <1>9, <1>10, <2>1, OneMount
<1>12. mounts[by][1] \o Rest(path, mounts[by][2]) = shadow
  <2>1. old \o Rest(back, new) = shadow
    <3> HIDE DEF new, old
    <3> QED BY <1>2, <1>7, <1>10, Rejoined
  <2> QED BY <1>9, <2>1
<1>13. Hidden(path) <=>
        \/ shadow = <<>> \/ ~Relative(shadow)
        \/ \E i \in Fits(mounts, 1, shadow) :
             \/ Len(mounts[by][1]) < Len(mounts[i][1])
             \/ Len(mounts[by][1]) = Len(mounts[i][1]) /\ by < i
  BY <1>11, <1>12 DEF Hidden
<1>14. ASSUME NEW i \in Fits(mounts, 1, shadow)
       PROVE  ~ \/ Len(mounts[by][1]) < Len(mounts[i][1])
                \/ Len(mounts[by][1]) = Len(mounts[i][1]) /\ by < i
  <2>1. i \in Nat /\ Len(mounts[i][1]) \in Nat
    BY <1>2, FitIs, PathLength
  <2> QED BY <1>6, <1>7, <2>1
<1> QED BY <1>2, <1>4, <1>13, <1>14

-----------------------------------------------------------------------------
(* The invariant of separate mounts.                                       *)
ShownInv ==
  /\ Separate /\ NothingHidden
  /\ real # <<>> => Shown(real)
  /\ \A entry \in listed : Mapped(entry.real) => LeadsBack(entry)

LEMMA ShownStays ==
  ASSUME ShownInv, codec' = codec, listed' = listed,
         \A f \in DOMAIN files' : f \in DOMAIN files \/ Shown(f),
         real' # <<>> => Shown(real')
  PROVE  ShownInv'
<1>1. Separate' /\ \A entry \in listed' : (Mapped(entry.real) => LeadsBack(entry))'
  BY DEF ShownInv, Separate, Mapped, LeadsBack
<1>2. NothingHidden' /\ (real # <<>> => Shown(real))'
  BY DEF ShownInv, NothingHidden, Shown, Mapped, Hidden
<1> QED BY <1>1, <1>2 DEF ShownInv

LEMMA ShownStep == RequestInv /\ ListInv /\ ShownInv /\ [Next]_vars => ShownInv'
<1> SUFFICES ASSUME RequestInv, ListInv, ShownInv, [Next]_vars
             PROVE  ShownInv'
  OBVIOUS
<1>1. /\ IsCodec(codec) /\ raw \in Path /\ real \in Path /\ DOMAIN files \subseteq Seq(Name)
      /\ Separate /\ NothingHidden /\ (real # <<>> => Shown(real))
  BY PathsAssumption DEF RequestInv, TypeInv, ListInv, ShownInv
<1>2. ASSUME \/ ValidateProtocol \/ Authenticate \/ PlanDownload \/ OpenFile \/ Produce
             \/ FinishBody \/ Read \/ EndOfBody \/ Break \/ UNCHANGED vars
      PROVE  ShownInv'
  <2>1. UNCHANGED <<setting, files, real, listed>>
    BY <1>2 DEF ValidateProtocol, Authenticate, PlanDownload, OpenFile, Produce, FinishBody, Read,
                EndOfBody, Break, vars
  <2> QED BY <1>1, <2>1, ShownStays DEF setting
<1>3. CASE Ask
  BY <1>3, ShownStays DEF Ask, setting
<1>4. CASE Resolve
  <2>1. UNCHANGED <<setting, files, listed>> /\ (real' = real \/ real' \in RealPath(codec, raw))
    BY <1>4 DEF Resolve
  <2>2. real' # <<>> => Shown(real')
    BY <1>1, <2>1, ResolvedIsShown
  <2> QED BY <2>1, <2>2, ShownStays DEF setting
<1>5. CASE List
  <2>1. UNCHANGED <<setting, files, real>>
    BY <1>5 DEF List
  <2>2. CASE UNCHANGED listed
    BY <1>1, <2>1, <2>2, ShownStays DEF setting
  <2>3. CASE ~UNCHANGED listed
    <3>1. ASSUME NEW entry \in listed', Mapped(entry.real)
          PROVE  LeadsBack(entry)
      <4>1. entry.real \in Children(real)
            /\ (LeadsBack(entry) <=> Mapped(entry.real) /\ ~Hidden(entry.real))
        BY <1>5, <2>3, ListingMade
      <4>2. PICK f \in DOMAIN files : IsPrefix(entry.real, f)
        BY <1>1, <4>1, ChildIs
      <4>3. Shown(f) /\ entry.real \in Seq(Name) /\ f \in Seq(Name)
        BY <1>1, <4>1, ChildIs DEF NothingHidden
      <4>4. ~Hidden(entry.real)
        BY <1>1, <3>1, <4>2, <4>3, HiddenBelow
      <4> QED BY <3>1, <4>1, <4>4
    <3>2. (\A entry \in listed : Mapped(entry.real) => LeadsBack(entry))'
      BY <2>1, <3>1 DEF LeadsBack, Mapped, setting
    <3>3. (Separate /\ NothingHidden /\ (real # <<>> => Shown(real)))'
      BY <1>1, <2>1 DEF Separate, NothingHidden, Shown, Mapped, Hidden, setting
    <3> QED BY <3>2, <3>3 DEF ShownInv
  <2> QED BY <2>2, <2>3
<1>6. ASSUME Replaced(real), real \in DOMAIN files \/ real # <<>>
      PROVE  \A f \in DOMAIN files' : f \in DOMAIN files \/ Shown(f)
  BY <1>1, <1>6 DEF Replaced
<1>7. CASE Upload
  <2>1. UNCHANGED <<setting, real, listed>> /\ (UNCHANGED files \/ (Replaced(real) /\ real # <<>>))
    BY <1>7 DEF Upload, request, IsDir
  <2>2. \A f \in DOMAIN files' : f \in DOMAIN files \/ Shown(f)
    BY <1>6, <2>1
  <2> QED BY <1>1, <2>1, <2>2, ShownStays DEF setting
<1>8. CASE Disturb
  <2>1. /\ UNCHANGED <<setting, real, listed>> /\ real \in DOMAIN files
        /\ Replaced(real) \/ files' = [f \in DOMAIN files \ {real} |-> files[f]]
    BY <1>8 DEF Disturb, IsFile
  <2>2. \A f \in DOMAIN files' : f \in DOMAIN files \/ Shown(f)
    BY <1>6, <2>1
  <2> QED BY <1>1, <2>1, <2>2, ShownStays DEF setting
<1> QED BY <1>2, <1>3, <1>4, <1>5, <1>7, <1>8 DEF Next

(* A rule for mounts under which nothing is ever hidden: separate real     *)
(* subtrees, none mounted as the root, and nothing stored at first in a    *)
(* place another mount has the name of.  No upload can put anything there, *)
(* and every path from a listing that is mounted leads back (handlers.rs,  *)
(* list_dir_impl; MountPathCodec).                                         *)
THEOREM SeparateMountsHideNothing ==
  Spec /\ Separate /\ NothingHidden =>
    [](NothingHidden /\ \A entry \in listed : Mapped(entry.real) => LeadsBack(entry))
<1>1. Init /\ Separate /\ NothingHidden => ShownInv
  BY DEF Init, ShownInv
<1>2. RequestInv /\ ListInv /\ ShownInv /\ [Next]_vars => ShownInv'
  BY ShownStep
<1>3. Init => ListInv
  BY ListInit
<1>4. RequestInv /\ ListInv /\ [Next]_vars => ListInv'
  BY ListInvStep
<1>5. ShownInv => NothingHidden /\ \A entry \in listed : Mapped(entry.real) => LeadsBack(entry)
  BY DEF ShownInv
<1> QED BY <1>1, <1>2, <1>3, <1>4, <1>5, RequestInvariant, PTL DEF Spec
=============================================================================
