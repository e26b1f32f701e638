-------------------------------- MODULE Paths --------------------------------
(***************************************************************************)
(* The names of files: what a path in a URL may be, how the path codecs    *)
(* translate between the real path and the shadow path a client sees, and  *)
(* which paths a token opens.  Definitions only: Requests uses them.       *)
(*                                                                         *)
(* A path is the sequence of its segments, the root the empty one, and     *)
(* what a client sends is what splitting a string at its slashes gives,    *)
(* empty segments and dots included.  A codec is a record of its kind, the *)
(* entries of a MountPathCodec (pairs of a shadow and a real prefix) and   *)
(* the names an EncryptedPathCodec has sealed: such a shadow is one        *)
(* segment, and a name nobody sealed fails its tag.                        *)
(***************************************************************************)
EXTENDS Integers, Sequences, FiniteSets, SequencesExt, Subsequences

Path == Seq(STRING)

(* What a file can be called, and a sealed path is.                        *)
Name == STRING \ {"", ".", "..", "NUL"}

IsCodec(codec) ==
  CASE codec.kind = "identity" -> TRUE
    [] codec.kind = "mount" -> codec.entries \in Seq(Path \X Path)
    [] codec.kind = "sealed" -> /\ DOMAIN codec.names \subseteq Name
                               /\ \A name \in DOMAIN codec.names : codec.names[name] \in Path
    [] OTHER -> FALSE

Rest(path, prefix) == SubSeq(path, Len(prefix) + 1, Len(path))

(* validate_rel_path: no NUL, no leading slash, no way out.                *)
Relative(raw) ==
  /\ \A i \in DOMAIN raw : raw[i] \notin {"..", "NUL"}
  /\ raw = <<>> \/ raw[1] # "" \/ Len(raw) = 1
Canonical(raw) == Kept(raw, {i \in DOMAIN raw : raw[i] \notin {"", "."}})

(* MountPathCodec::new: the prefixes without what is no name, and no pair  *)
(* of two roots.                                                           *)
Normal(prefix) == Kept(prefix, {i \in DOMAIN prefix : prefix[i] \notin {"", ".", ".."}})
Mounts(codec) ==
  LET pairs == [i \in DOMAIN codec.entries |->
                  <<Normal(codec.entries[i][1]), Normal(codec.entries[i][2])>>]
  IN  Kept(pairs, {i \in DOMAIN pairs : pairs[i] # <<<<>>, <<>>>>})

(* max_by_key: the longest prefix, the last of several.  Prefixes of one   *)
(* path are as long as they have segments.                                 *)
Longest(prefix) ==
  CHOOSE i \in DOMAIN prefix : \A j \in DOMAIN prefix :
    Len(prefix[j]) < Len(prefix[i]) \/ (Len(prefix[j]) = Len(prefix[i]) /\ j <= i)

(* The mounts a path lies in, by their shadows (1) or real prefixes (2),   *)
(* and the one that counts.                                                *)
Fits(mounts, side, path) == {i \in DOMAIN mounts : IsPrefix(mounts[i][side], path)}
Best(mounts, side, path) ==
  Longest([i \in Fits(mounts, side, path) |-> mounts[i][side]])

(* Broken on purpose: the first mount that fits.                           *)
UnmountedFirst(codec, shadow) ==
  LET mounts == Mounts(codec)
      fits == Fits(mounts, 1, shadow)
      first == CHOOSE i \in fits : \A j \in fits : i <= j
  IN  IF fits = {} THEN {} ELSE {mounts[first][2] \o Rest(shadow, mounts[first][1])}

(* The real path of a whole shadow, if it has one: what is mounted there,  *)
(* or what was sealed.                                                     *)
Unmounted(codec, shadow) ==
  LET mounts == Mounts(codec)
      best == mounts[Best(mounts, 1, shadow)]
  IN  IF Fits(mounts, 1, shadow) = {} THEN {} ELSE {best[2] \o Rest(shadow, best[1])}
Unsealed(codec, shadow) ==
  IF Len(shadow) = 1 /\ shadow[1] \in DOMAIN codec.names THEN {codec.names[shadow[1]]} ELSE {}
Decoded(codec, shadow) ==
  CASE codec.kind = "identity" -> {shadow}
    [] codec.kind = "mount" -> Unmounted(codec, shadow)
    [] codec.kind = "sealed" -> Unsealed(codec, shadow)

(* The shadows of a real path: itself if nothing is mounted from there,    *)
(* and any of its names if paths are sealed.                               *)
MountedAs(codec, real) ==
  LET mounts == Mounts(codec)
      best == mounts[Best(mounts, 2, real)]
  IN  IF Fits(mounts, 2, real) = {} THEN {real} ELSE {best[1] \o Rest(real, best[2])}
SealedAs(codec, real) == {<<name>> : name \in {n \in DOMAIN codec.names : codec.names[n] = real}}
Encoded(codec, real) ==
  CASE codec.kind = "identity" -> {real}
    [] codec.kind = "mount" -> MountedAs(codec, real)
    [] codec.kind = "sealed" -> SealedAs(codec, real)

(* decode_compound: the longest beginning that decodes, and the rest as it *)
(* is.                                                                     *)
Compound(codec, shadow) ==
  LET cuts == {n \in 1..(Len(shadow) - 1) : Decoded(codec, SubSeq(shadow, 1, n)) # {}}
      cut == CHOOSE n \in cuts : \A m \in cuts : m <= n
  IN  IF cuts = {} THEN {}
      ELSE {real \o SubSeq(shadow, cut + 1, Len(shadow)) :
              real \in Decoded(codec, SubSeq(shadow, 1, cut))}

(* resolve_client_path before the authorisation.  The root is not a        *)
(* shadow: it is itself.                                                   *)
RealPath(codec, raw) ==
  LET shadow == Canonical(raw)
      whole == Decoded(codec, shadow)
      reals == IF shadow = <<>> THEN {<<>>}
               ELSE IF whole # {} THEN whole ELSE Compound(codec, shadow)
  IN  IF Relative(raw) THEN {Canonical(real) : real \in {r \in reals : Relative(r)}} ELSE {}

(* path_matches_any: on the boundary of a segment, and the root prefix     *)
(* opens everything.                                                       *)
Matches(path, prefixes) == \E prefix \in prefixes : IsPrefix(prefix, path)

(* PathValidator.validate after the expiry.                                *)
Granted(claims, path, action) ==
  action \in claims.permissions /\ Matches(path, claims.paths)
=============================================================================
