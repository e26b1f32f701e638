------------------------------ MODULE Requests ------------------------------
(***************************************************************************)
(* One client's requests on their way through the router: the handshake,   *)
(* the token, the path a codec translates, the listing, the metadata and   *)
(* the conditions of a download, and the body that is read, framed, cut    *)
(* anywhere by the network and put together again.  Meanwhile others       *)
(* replace and remove the file.                                            *)
(*                                                                         *)
(* A block is <<real path, version, index>>, an etag the number of a       *)
(* version.  How an upload gets to the disk is PlainStore's and            *)
(* SessionStore's subject: here it replaces the file in one step.          *)
(***************************************************************************)
EXTENDS Paths, Frames

CONSTANTS
  Codecs, Tokens, \* what the server and the client may be configured with
  Trees,        \* the files at first: real path -> [version, size]
  RawPaths,     \* paths a client may come up with
  Ranges,       \* Range headers, see Parsed
  UMax,         \* the largest u64
  Budget,       \* max_output_per_call
  MaxSize,      \* bound: the size of a replaced file, in blocks
  MaxVersion,   \* bound: how often a file is replaced
  MaxRequests   \* bound

ASSUME RequestsAssumption ==
  {UMax, Budget, MaxSize, MaxVersion, MaxRequests} \subseteq Nat \ {0} /\ MaxSize <= UMax
ASSUME PathsAssumption == RawPaths \subseteq Path /\ \A c \in Codecs : IsCodec(c)
ASSUME TokensAssumption == \A claims \in Tokens : claims.paths \subseteq Path
ASSUME TreesAssumption ==
  \A tree \in Trees : /\ DOMAIN tree \subseteq Seq(Name)
                     /\ tree \in [DOMAIN tree -> [version : Nat, size : 0..UMax]]

VARIABLES
  codec, token, \* the configuration; a token is the claims it carries
  files,        \* what is stored
  phase,        \* where the request is
  kind, raw,    \* what was asked for
  real,         \* what that is on the server
  headers,      \* the range and what else a download came with
  plan,         \* the answer's status and range, of which version and size
  reader,       \* the open file
  frame,        \* the compressor's open frame
  wire,         \* units sent and not yet read
  pending, out, \* the decompressor's bytes, and what came out
  status,       \* the answer, 0 if there is none yet
  listed,       \* the entries of the last listing
  asked         \* how many requests were made

setting == <<codec, token>>
request == <<kind, raw>>
answer  == <<headers, plan>>
server  == <<reader, frame>>
client  == <<pending, out>>
vars == <<setting, files, phase, request, real, answer, server, wire, client, status, listed, asked>>

Kinds == {"list", "head", "get", "put"}
NoHeaders == [range |-> [form |-> "none"], ifRange |-> 0, zrip |-> FALSE, strict |-> FALSE]
NoPlan == [status |-> 0, start |-> 0, end |-> 0, version |-> 0, size |-> 0]
NoReader == [version |-> 0, pos |-> 0, end |-> 0]
Lesser(a, b) == IF a <= b THEN a ELSE b

Init ==
  /\ codec \in Codecs /\ token \in Tokens /\ files \in Trees
  /\ phase = "idle" /\ kind = "list" /\ raw = <<>> /\ real = <<>>
  /\ headers = NoHeaders /\ plan = NoPlan /\ reader = NoReader
  /\ frame = NoBlock /\ wire = <<>> /\ pending = <<>> /\ out = <<>>
  /\ status = 0 /\ listed = {} /\ asked = 0

(* The end of a request: an answer without a body, or what the client made *)
(* of the body.                                                            *)
Failed == 599
Answer(code) == status' = code /\ phase' = "idle"

(***************************************************************************)
(* What is on the disk.                                                    *)
(***************************************************************************)
IsFile(path) == path \in DOMAIN files
IsDir(path) == path = <<>> \/ \E f \in DOMAIN files : IsStrictPrefix(path, f)
BelowFile(path) == \E f \in DOMAIN files : IsStrictPrefix(f, path)
Children(path) ==
  {SubSeq(f, 1, Len(path) + 1) : f \in {g \in DOMAIN files : IsStrictPrefix(path, g)}}

(* The file requested is replaced or removed by somebody else.             *)
Replaced(path) ==
  /\ IsFile(path) => files[path].version < MaxVersion
  /\ \E size \in 0..MaxSize :
       LET new == [version |-> IF IsFile(path) THEN files[path].version + 1 ELSE 1, size |-> size]
       IN  files' = [f \in DOMAIN files \cup {path} |-> IF f = path THEN new ELSE files[f]]

Disturb ==
  /\ phase \in {"get", "open"} /\ IsFile(real)
  /\ Replaced(real) \/ files' = [f \in DOMAIN files \ {real} |-> files[f]]
  /\ UNCHANGED <<setting, phase, request, real, answer, server, wire, client, status, listed, asked>>

(***************************************************************************)
(* The way to the handler.                                                 *)
(***************************************************************************)
(* A client asks for what it has in mind, or for what a listing told it.   *)
Ask ==
  /\ phase = "idle" /\ asked < MaxRequests /\ asked' = asked + 1
  /\ kind' \in Kinds
  /\ raw' \in RawPaths \cup {entry.shadow : entry \in listed}
  /\ phase' = "sent" /\ status' = 0 /\ real' = <<>>
  /\ headers' = NoHeaders /\ plan' = NoPlan /\ reader' = NoReader
  /\ frame' = NoBlock /\ wire' = <<>> /\ pending' = <<>> /\ out' = <<>>
  /\ UNCHANGED <<setting, files, listed>>

(* 426 for another protocol; without the header, or with ours, go on.      *)
ValidateProtocol ==
  /\ phase = "sent"
  /\ \/ Answer(426)
     \/ phase' = "known" /\ UNCHANGED status
  /\ UNCHANGED <<setting, files, request, real, answer, server, wire, client, listed, asked>>

(* No token, no Bearer token, or one that does not verify.                 *)
Authenticate ==
  /\ phase = "known"
  /\ \/ Answer(401)
     \/ phase' = "named" /\ UNCHANGED status
  /\ UNCHANGED <<setting, files, request, real, answer, server, wire, client, listed, asked>>

Need == IF kind = "put" THEN "write" ELSE "read"

(* Broken on purpose: the path asked for is authorised, not what it is.    *)
ResolveShadow ==
  /\ phase = "named"
  /\ LET paths == RealPath(codec, raw)
     IN  \/ paths = {} /\ Answer(400) /\ UNCHANGED real
         \/ \E path \in paths :
              \/ Answer(401) /\ UNCHANGED real
              \/ ~Granted(token, Canonical(raw), Need) /\ Answer(403) /\ UNCHANGED real
              \/ Granted(token, Canonical(raw), Need) /\ phase' = kind /\ real' = path /\ UNCHANGED status
  /\ UNCHANGED <<setting, files, request, answer, server, wire, client, listed, asked>>

(* resolve_client_path: translated, then authorised.  The token may have   *)
(* expired by now.                                                         *)
Resolve ==
  /\ phase = "named"
  /\ LET paths == RealPath(codec, raw)
     IN  \/ paths = {} /\ Answer(400) /\ UNCHANGED real
         \/ \E path \in paths :
              \/ Answer(401) /\ UNCHANGED real
              \/ ~Granted(token, path, Need) /\ Answer(403) /\ UNCHANGED real
              \/ Granted(token, path, Need) /\ phase' = kind /\ real' = path /\ UNCHANGED status
  /\ UNCHANGED <<setting, files, request, answer, server, wire, client, listed, asked>>

(* list_dir_impl: every entry under its shadow.  An entry that vanishes    *)
(* while it is listed fails the listing.                                   *)
List ==
  /\ phase = "list"
  /\ IF IsDir(real)
     THEN \/ /\ Answer(200)
             /\ \E shadow \in [Children(real) -> UNION {Encoded(codec, c) : c \in Children(real)}] :
                  /\ \A c \in Children(real) : shadow[c] \in Encoded(codec, c)
                  /\ listed' = {[real |-> c, shadow |-> shadow[c]] : c \in Children(real)}
          \/ Answer(500) /\ UNCHANGED listed
     ELSE /\ Answer(IF IsFile(real) \/ BelowFile(real) THEN 500 ELSE 404)
          /\ UNCHANGED listed
  /\ UNCHANGED <<setting, files, request, real, answer, server, wire, client, asked>>

(* upload: the file is there under its name, or the request failed.        *)
Upload ==
  /\ phase = "put"
  /\ \/ \E code \in {400, 409, 412, 413, 500} : Answer(code) /\ UNCHANGED files
     \/ ~IsDir(real) /\ ~BelowFile(real) /\ Replaced(real) /\ Answer(201)
  /\ UNCHANGED <<setting, request, real, answer, server, wire, client, listed, asked>>

(***************************************************************************)
(* plan_download.  A Range header is one of                                *)
(*   none       absent, another unit, several ranges                       *)
(*   malformed  no dash, no digits, a number above UMax                    *)
(*   bytes      first-last, or first- for all that follows                 *)
(*   suffix     -count                                                     *)
(***************************************************************************)
OpenEnded == -1

ASSUME RangesAssumption ==
  \A range \in Ranges :
    \/ range.form \in {"none", "malformed"}
    \/ range.form = "bytes" /\ range.first \in 0..UMax /\ range.last \in 0..UMax \cup {OpenEnded}
    \/ range.form = "suffix" /\ range.count \in 0..UMax

(* parse_range_header: the last byte is included, the end is not.          *)
Parsed(range) ==
  LET end == IF range.last = OpenEnded THEN UMax ELSE range.last + 1
  IN  IF range.form # "bytes" THEN range
      ELSE IF range.last = UMax \/ end <= range.first THEN [form |-> "malformed"]
      ELSE [form |-> "bytes", first |-> range.first, end |-> end]

(* RangeSpec.clamp, and the same for a suffix: nothing if it is not there. *)
Clamped(parsed, size) ==
  CASE parsed.form = "none" -> {<<0, size>>}
    [] parsed.form = "bytes" ->
         IF parsed.first >= size THEN {} ELSE {<<parsed.first, Lesser(parsed.end, size)>>}
    [] parsed.form = "suffix" ->
         IF parsed.count = 0 \/ size = 0 THEN {}
         ELSE {<<IF parsed.count >= size THEN 0 ELSE size - parsed.count, size>>}

(* If-Range with another etag, or with a date, asks for the whole file.    *)
Honoured(h, version) == h.ifRange \in {0, version}

AnyTag == 0
NotModified(tags, version) == tags \cap {AnyTag, version} # {}

(* The metadata and all that follows from it.                              *)
Plan(h) ==
  LET file == files[real]
      parsed == Parsed(h.range)
      range == IF Honoured(h, file.version) THEN parsed ELSE [form |-> "none"]
      code == IF range.form = "none" THEN 200 ELSE 206
  IN  IF parsed.form = "malformed" THEN Answer(400) /\ UNCHANGED answer
      ELSE IF Clamped(range, file.size) = {} THEN Answer(416) /\ UNCHANGED answer
      ELSE \E r \in Clamped(range, file.size) :
             /\ plan' = [status |-> code, start |-> r[1], end |-> r[2],
                         version |-> file.version, size |-> file.size]
             /\ headers' = h
             /\ IF kind = "head" THEN Answer(code) ELSE phase' = "open" /\ UNCHANGED status

(* A client that is strict fetches a chunk.                                *)
Headers ==
  {h \in [range : Ranges, ifRange : 0..(MaxVersion + 1), zrip : BOOLEAN, strict : BOOLEAN] :
     h.strict => h.range.form = "bytes" /\ h.range.last \notin {OpenEnded, UMax}}

PlanDownload ==
  /\ phase \in {"head", "get"}
  /\ IF IsFile(real)
     THEN \/ \E tags \in SUBSET {AnyTag, 1} :
               NotModified(tags, files[real].version) /\ Answer(304) /\ UNCHANGED answer
          \/ \E h \in Headers : Plan(h)
     ELSE Answer(IF IsDir(real) THEN 400 ELSE IF BelowFile(real) THEN 500 ELSE 404)
          /\ UNCHANGED answer
  /\ UNCHANGED <<setting, files, request, real, server, wire, client, listed, asked>>

(* read_stream opens what has the name by now, and reads no more than the  *)
(* range is long.  A file that is gone is an error of the server.          *)
OpenFile ==
  /\ phase = "open"
  /\ IF IsFile(real)
     THEN /\ phase' = "body" /\ UNCHANGED status
          /\ reader' = [version |-> files[real].version, pos |-> plan.start,
                        end |-> Lesser(plan.end, files[real].size)]
     ELSE Answer(500) /\ UNCHANGED reader
  /\ UNCHANGED <<setting, files, request, real, answer, frame, wire, client, listed, asked>>

(***************************************************************************)
(* The body.                                                               *)
(***************************************************************************)
Format == IF headers.zrip THEN "zrip" ELSE "identity"

Produce ==
  /\ phase = "body" /\ reader.pos < reader.end
  /\ LET block == <<real, reader.version, reader.pos + 1>>
     IN  /\ wire' = wire \o Compressed(Format, frame, block)
         /\ frame' = StillOpen(Format, block)
  /\ reader' = [reader EXCEPT !.pos = @ + 1]
  /\ UNCHANGED <<setting, files, phase, request, real, answer, client, status, listed, asked>>

FinishBody ==
  /\ phase = "body" /\ reader.pos >= reader.end
  /\ phase' = "sent all" /\ wire' = wire \o Finished(Format, frame) /\ frame' = NoBlock
  /\ UNCHANGED <<setting, files, request, real, answer, reader, client, status, listed, asked>>

(* The client reads what has arrived of the body, cut anywhere.            *)
Read ==
  /\ phase \in {"body", "sent all"}
  /\ \E n \in 1..Len(wire) :
       LET got == Decompressed(Format, pending, SubSeq(wire, 1, n), Budget)
       IN  /\ wire' = SubSeq(wire, n + 1, Len(wire))
           /\ out' = out \o got.out /\ pending' = got.left
           /\ IF got.ok THEN UNCHANGED <<phase, status>> ELSE Answer(Failed)
  /\ UNCHANGED <<setting, files, request, real, answer, server, listed, asked>>

(* The transport counts the bytes of a body with a Content-Length, the     *)
(* decompressor wants whole frames and a client that fetches chunks wants  *)
(* the one it asked for, of the version it knows.                          *)
Complete ==
  /\ Format = "identity" => Len(out) = plan.end - plan.start
  /\ Format = "zrip" => WellFormed(pending)
  /\ headers.strict =>
       plan.status = 206 /\ Len(out) = headers.range.last - headers.range.first + 1

EndOfBody ==
  /\ phase = "sent all" /\ wire = <<>>
  /\ Answer(IF Complete THEN plan.status ELSE Failed)
  /\ UNCHANGED <<setting, files, request, real, answer, server, wire, client, listed, asked>>

(* The file cannot be read, the connection breaks or a read takes too      *)
(* long.                                                                   *)
Break ==
  /\ phase \in {"body", "sent all"} /\ Answer(Failed)
  /\ UNCHANGED <<setting, files, request, real, answer, server, wire, client, listed, asked>>

-----------------------------------------------------------------------------
Next ==
  \/ Ask \/ ValidateProtocol \/ Authenticate \/ Resolve \/ List \/ Upload
  \/ PlanDownload \/ OpenFile \/ Produce \/ FinishBody \/ Read \/ EndOfBody \/ Break
  \/ Disturb

Spec == Init /\ [][Next]_vars

-----------------------------------------------------------------------------
(* What a client gets to see and to write: the blocks it received, the     *)
(* entries it was listed, and the file its upload is about to replace.     *)
Reached ==
  {<<"read", out[i][1]>> : i \in DOMAIN out}
    \cup {<<"read", entry.real>> : entry \in listed}
    \cup (IF phase = "put" THEN {<<"write", real>>} ELSE {})

(* Whatever name it was asked for by - mounted, sealed, composed of a      *)
(* sealed directory and a literal rest, full of dots and empty segments -  *)
(* nothing is read, listed or written that is not in a granted subtree of  *)
(* the real tree, with the permission (resolve_client_path,                *)
(* PathValidator).                                                         *)
OnlyGranted ==
  \A access \in Reached :
    /\ access[1] \in token.permissions
    /\ \E prefix \in token.paths :
         Len(prefix) <= Len(access[2]) /\ SubSeq(access[2], 1, Len(prefix)) = prefix

(* The blocks a client asked for, of the file whose metadata it got.       *)
Named(range, size) ==
  CASE range.form = "bytes" ->
         {i \in 1..size : i > range.first /\ (range.last = OpenEnded \/ i <= range.last + 1)}
    [] range.form = "suffix" -> {i \in 1..size : i > size - range.count}
    [] range.form = "none" -> 1..size
Wanted ==
  IF headers.ifRange \in {0, plan.version} THEN Named(headers.range, plan.size) ELSE 1..plan.size

(* An answer a client accepts is what it asked for: the blocks the Range   *)
(* header names, each once and in order, of one version, wherever the      *)
(* network cut the frames.  If the file was replaced between the look at   *)
(* its metadata and its opening, the answer may be short, but only if      *)
(* nobody counts: in zrip, and not a chunk of known length                 *)
(* (plan_download, CompressedStream, ZripDecompressor).                    *)
AnswerIsTheRange ==
  kind = "get" /\ status \in {200, 206} =>
    LET got == {out[i][3] : i \in DOMAIN out}
    IN  /\ \A i \in DOMAIN out : out[i] = <<real, reader.version, out[1][3] + i - 1>>
        /\ IF reader.version # plan.version /\ Format = "zrip" /\ ~headers.strict
           THEN got \subseteq Wanted ELSE got = Wanted

(* What a path from a listing is resolved to: the entry it stands for,     *)
(* sealed or mounted, one mount inside another, with two exceptions and no *)
(* other.  A path outside every mounted subtree is listed as it is and     *)
(* understood as a shadow.  And of a mounted one another mount may have    *)
(* the name, one with a longer shadow or a later one with the same; or the *)
(* name is the root's, which is never mounted, or none that can be asked   *)
(* for (MountPathCodec, list_dir_impl, resolve_client_path).               *)
Mapped(path) == codec.kind = "mount" => Fits(Mounts(codec), 2, path) # {}
Hidden(path) ==
  LET mounts == Mounts(codec)
      at == Best(mounts, 2, path)
      shadow == mounts[at][1] \o Rest(path, mounts[at][2])
      Before(i, j) == \/ Len(mounts[i][1]) < Len(mounts[j][1])
                      \/ Len(mounts[i][1]) = Len(mounts[j][1]) /\ i < j
  IN  /\ codec.kind = "mount"
      /\ \/ shadow = <<>> \/ ~Relative(shadow)
         \/ \E i \in Fits(mounts, 1, shadow) : Before(at, i)
LeadsBack(entry) == RealPath(codec, entry.shadow) = {entry.real}
ListedLeadsBack ==
  \A entry \in listed : LeadsBack(entry) <=> Mapped(entry.real) /\ ~Hidden(entry.real)

(* "every entry path must be a shadow path the client can use directly in  *)
(* a follow-up download/upload URL" (handlers.rs:814), wherever it lies.   *)
EveryListedLeadsBack == \A entry \in listed : LeadsBack(entry)
=============================================================================
