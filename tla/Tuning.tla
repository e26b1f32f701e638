------------------------------- MODULE Tuning -------------------------------
(***************************************************************************)
(* The tuning engine of the browser client: a table of transfer parameters *)
(* that every transfer starts from, ramps while it runs and leaves behind. *)
(* A table comes from memory (the client's last settle), from the store    *)
(* that outlives the page (per origin and direction, with an age) or from  *)
(* the minimums the server advertises.  The windows of one second in which *)
(* a transfer is measured raise it, hold it, halve it or settle it.        *)
(*                                                                         *)
(* What the server advertises and what the store holds is not trusted: the *)
(* advertised ranges may be inverted or absurd, a row may be unreadable or *)
(* written by somebody else.                                               *)
(*                                                                         *)
(* One unit of data is the alignment of a chunk, and a rate is the chunk   *)
(* that would suit it (TARGET_CHUNK_SPAN_MS of the link).                  *)
(***************************************************************************)
EXTENDS Integers

CONSTANTS
  Origins,       \* base URLs of the servers the client talks to
  Advertised,    \* the capabilities servers may advertise
  NoAdvert,      \* Capabilities::default(), used if the server has none
  Configured,    \* the client's static parameters
  Foreign,       \* keys and rows that other pages of this site may save
  Rates,         \* what a window may measure
  Hard,          \* HARD_MAX_*: the client's ceiling on each dimension
  HardBytes,     \* HARD_MAX_IN_FLIGHT_BYTES
  Persistent,    \* a store is installed and cache_ttl_ms # 0
  None           \* no table, no row, no capabilities

Directions == {"upload", "download"}
Windowed   == {"concurrency", "upload", "download"}
Fields     == Windowed \cup {"chunk"}
Bounds     == [min: Int, max: Int]
Adverts    == Advertised \cup {NoAdvert}
Tables     == [Fields -> Nat \ {0}]
Keys       == Origins \X Directions
Rows       == [valid: BOOLEAN, caps: Adverts, table: Tables]

ASSUME AdvertAssumption == Adverts \subseteq [Fields -> Bounds] /\ None \notin Adverts
ASSUME TableAssumption  == {Configured, Hard} \subseteq Tables
ASSUME ForeignAssumption == Foreign \subseteq Keys \X Rows
ASSUME RatesAssumption  == Rates \subseteq Nat
ASSUME StoreAssumption  == Persistent \in BOOLEAN
ASSUME BytesAssumption  ==
  HardBytes \in Nat /\ \A d \in Directions : Hard["concurrency"] * Hard[d] <= HardBytes

VARIABLES
  enabled,       \* TuningEngine.enabled
  active,        \* a transfer is running
  origin, direction, caps,
  phase,         \* TunePhase
  params,        \* the live table
  dim,           \* the dimension being ramped: "window" or "concurrency"
  rtt,           \* rtt_ewma against rtt_baseline: "none", "level" or "inflated"
  prev,          \* prev_mbps
  low,           \* low_gain_windows
  held,          \* degraded_windows
  post,          \* post_degrade_settle
  settled,       \* the settle kept in memory, with its capabilities and direction
  cache,         \* the persistent store
  halved,        \* history: an error has halved the table since the transfer began
  failed         \* history: keys whose last transfer failed

scope    == <<enabled, origin, direction, caps>>
measured == <<rtt, prev, low, held>>
ramp     == <<phase, params, dim, post>>
kept     == <<settled, cache>>
history  == <<halved, failed>>
vars     == <<scope, active, measured, ramp, kept, history>>

(***************************************************************************)
(* Clamping.                                                               *)
(***************************************************************************)
MinOf(a, b) == IF a <= b THEN a ELSE b
MaxOf(a, b) == IF a >= b THEN a ELSE b
Clamp(v, lo, hi) == MaxOf(lo, MinOf(v, hi))

FloorOf(bound, hard) == Clamp(bound.min, 1, hard)

(* Broken on purpose: no ceiling of the client's own.                      *)
BoundedByServer(v, bound, hard) ==
  IF bound.min > bound.max THEN Clamp(v, 1, hard)
  ELSE Clamp(v, MaxOf(1, bound.min), MaxOf(1, bound.max))

(* An inverted range carries no information: only the ceiling applies.     *)
Bounded(v, bound, hard) ==
  IF bound.min > bound.max
  THEN Clamp(v, 1, hard)
  ELSE LET lo == Clamp(bound.min, 1, hard)
           hi == MaxOf(lo, MinOf(bound.max, hard))
       IN  Clamp(v, lo, hi)

FromCapsMins(c) == [d \in Fields |-> FloorOf(c[d], Hard[d])]
ClampedInto(p, c) == [d \in Fields |-> Bounded(p[d], c[d], Hard[d])]

(* The largest chunk that keeps concurrency, window and chunk together     *)
(* within HARD_MAX_IN_FLIGHT_BYTES, for the wider direction.               *)
MaxChunk(p) == MaxOf(1, HardBytes \div (p["concurrency"] * MaxOf(p["upload"], p["download"])))
Budgeted(p) == [p EXCEPT !["chunk"] = Clamp(@, 1, MaxChunk(p))]

ChunkForLink(rate, bound, most) ==
  IF rate = 0 THEN MinOf(FloorOf(bound, Hard["chunk"]), most)
              ELSE Clamp(Bounded(rate, bound, Hard["chunk"]), 1, most)

(* The chunk follows the link once it is off by half or more.              *)
Retuned(p, rate) ==
  LET target == ChunkForLink(rate, caps["chunk"], MaxChunk(p))
  IN  IF target > (3 * p["chunk"]) \div 2 \/ target < MaxOf(p["chunk"] \div 2, 1)
      THEN Budgeted([p EXCEPT !["chunk"] = target])
      ELSE p

(***************************************************************************)
(* The dimension being ramped.                                             *)
(***************************************************************************)
Ramped == IF dim = "window" THEN direction ELSE "concurrency"
DimMax == MaxOf(MinOf(caps[Ramped].max, Hard[Ramped]), 1)
(* Broken on purpose: the maximum itself does not count.                   *)
AboveCap == params[Ramped] > DimMax
AtCap == params[Ramped] >= DimMax

(* Doubled while that fits, then one more at a time.                       *)
Step(v) == IF 2 * v <= DimMax THEN 2 * v ELSE MinOf(v + 1, DimMax)
Raised(p) == [p EXCEPT ![Ramped] = MaxOf(Step(@), 1)]
Halved(p) == [p EXCEPT ![Ramped] = MaxOf(@ \div 2, 1)]

(***************************************************************************)
(* What outlives a transfer.                                               *)
(***************************************************************************)
Key == <<origin, direction>>
Row(p) == [valid |-> TRUE, caps |-> caps, table |-> p]
Settlement(p) == [caps |-> caps, direction |-> direction, table |-> p]

(* begin_transfer looks into memory first, then into the store; a row that *)
(* cannot be used is removed.                                              *)
Usable(row, c) == row.valid /\ row.caps = c
InMemory(d, c) == settled # None /\ settled.caps = c /\ settled.direction = d
Cached(k, c) == Persistent /\ cache[k] # None /\ Usable(cache[k], c)

Init ==
  /\ enabled = TRUE /\ active = FALSE
  /\ origin \in Origins /\ direction = "download" /\ caps = None
  /\ phase = "uninitialized" /\ params = [f \in Fields |-> 1]
  /\ dim = "window"
  /\ rtt = "none" /\ prev = 0 /\ low = 0 /\ held = 0
  /\ post = FALSE
  /\ settled = None /\ cache = [k \in Keys |-> None]
  /\ halved = FALSE /\ failed = {}

(* prepare_transfer: fetch the capabilities, unless tuning is off, and     *)
(* begin.  A server without any (404) turns tuning off for good; a client  *)
(* configured not to tune behaves like one that has met such a server.     *)
Begin(o, d, c, found) ==
  /\ ~active
  /\ ~found => c = NoAdvert
  /\ enabled' = (enabled /\ found)
  /\ active' = TRUE /\ origin' = o /\ direction' = d /\ caps' = c
  /\ rtt' = "none" /\ prev' = 0 /\ low' = 0 /\ held' = 0 /\ post' = FALSE
  /\ halved' = FALSE
  /\ LET k == <<o, d>>
         From(p, ph) == params' = Budgeted(ClampedInto(p, c)) /\ phase' = ph
     IN  \/ /\ ~enabled'
            /\ From(ClampedInto(Configured, c), "uninitialized")
            /\ UNCHANGED <<dim, cache>>
         \/ /\ enabled' /\ InMemory(d, c)
            /\ From(settled.table, "settled")
            /\ dim' = "window" /\ UNCHANGED cache
         \/ /\ enabled' /\ ~InMemory(d, c) /\ Cached(k, c)
            /\ From(cache[k].table, "settled")
            /\ dim' = "window" /\ UNCHANGED cache
         \/ /\ enabled' /\ ~InMemory(d, c) /\ ~Cached(k, c)
            /\ params' = Budgeted(FromCapsMins(c))
            /\ phase' = "ramping" /\ dim' = "window"
            /\ cache' = IF Persistent THEN [cache EXCEPT ![k] = None] ELSE cache
  /\ UNCHANGED <<settled, failed>>

(***************************************************************************)
(* A window: the ticks of one second.  Each may report an error or the     *)
(* latency of a request; nothing looks at either before the tick that      *)
(* closes the window, so they are one step.  The first sample is the       *)
(* ramp's baseline; uploads have no samples.                               *)
(***************************************************************************)
Samples == IF direction = "upload" THEN {rtt} ELSE {"level", "inflated"} \cup {rtt}

(* The rules of ramp_action, in its order; t is the table whose chunk has  *)
(* just been retuned.                                                      *)
(* Broken on purpose: a gain raises in every phase.                        *)
GainedAnyhow(rate) == prev = 0 \/ 100 * rate >= 105 * prev
Gained(rate) == phase = "ramping" /\ (prev = 0 \/ 100 * rate >= 105 * prev)
MayBeFull(rate, sample) ==
  phase = "ramping" /\ dim = "concurrency" /\ sample # "none" /\ rate > 0
Saturated(full, sample) == full \/ (phase = "ramping" /\ sample = "inflated")
(* Broken on purpose: one window too many.                                 *)
ExhaustedLate == low + 1 >= 3
Exhausted == low + 1 >= 2

Degrade(t) ==
  /\ params' = Halved(t) /\ phase' = "degraded" /\ held' = 0 /\ low' = 0
  /\ halved' = TRUE
  /\ UNCHANGED <<dim, post, kept, failed>>

Advance(t) ==
  /\ params' = t /\ dim' = "concurrency" /\ low' = 0
  /\ UNCHANGED <<phase, post, held, kept, history>>

Settle(t) ==
  /\ params' = t /\ phase' = "settled" /\ low' = 0
  /\ IF post THEN UNCHANGED <<kept, failed>>
     ELSE /\ settled' = Settlement(t)
          /\ cache' = IF Persistent THEN [cache EXCEPT ![Key] = Row(t)] ELSE cache
          /\ failed' = {k \in failed : k[2] # direction}
  /\ UNCHANGED <<dim, post, held, halved>>

(* Broken on purpose: the chunk is not brought back into the budget.       *)
RaiseUnbudgeted(t) ==
  /\ params' = Raised(t) /\ low' = 0
  /\ phase' = IF phase = "degraded" THEN "ramping" ELSE phase
  /\ UNCHANGED <<dim, post, held, kept, history>>

Raise(t) ==
  /\ params' = Budgeted(Raised(t)) /\ low' = 0
  /\ phase' = IF phase = "degraded" THEN "ramping" ELSE phase
  /\ UNCHANGED <<dim, post, held, kept, history>>

(* Two stable windows end a degraded hold without keeping its table.       *)
Hold(t) ==
  /\ params' = t /\ low' = low + 1
  /\ held' = IF phase = "degraded" THEN held + 1 ELSE held
  /\ phase' = IF held' >= 2 THEN "settled" ELSE phase
  /\ post' = (post \/ held' >= 2)
  /\ UNCHANGED <<dim, kept, history>>

Evaluate(t, rate, err, full, sample) ==
  \/ err /\ Degrade(t)
  \/ ~err /\ AtCap /\ dim = "window" /\ Advance(t)
  \/ ~err /\ AtCap /\ dim = "concurrency" /\ Settle(t)
  \/ ~err /\ ~AtCap /\ Saturated(full, sample) /\ Settle(t)
  \/ /\ ~err /\ ~AtCap /\ ~Saturated(full, sample)
     /\ \/ Gained(rate) /\ Raise(t)
        \/ ~Gained(rate) /\ ~Exhausted /\ Hold(t)
        \/ /\ ~Gained(rate) /\ Exhausted
           /\ \/ (phase = "degraded" \/ dim = "concurrency") /\ Settle(t)
              \/ phase # "degraded" /\ dim = "window" /\ Advance(t)

CloseWindow ==
  /\ active /\ enabled
  /\ \E rate \in Rates, err \in BOOLEAN, sample \in Samples, full \in BOOLEAN :
       /\ full => MayBeFull(rate, sample)
       /\ Evaluate(Retuned(params, rate), rate, err, full, sample)
       /\ prev' = rate /\ rtt' = sample
  /\ UNCHANGED <<scope, active>>

(* Broken on purpose: the store keeps the row.                             *)
EndKeepingRow(ok) ==
  /\ active /\ active' = FALSE
  /\ IF enabled /\ ~ok
     THEN /\ settled' = None /\ phase' = "ramping" /\ UNCHANGED cache
          /\ failed' = failed \cup {Key}
     ELSE UNCHANGED <<kept, phase, failed>>
  /\ UNCHANGED <<scope, measured, params, dim, post, halved>>

(* A failure forgets both settles, unless tuning is off.                   *)
End(ok) ==
  /\ active /\ active' = FALSE
  /\ IF enabled /\ ~ok
     THEN /\ settled' = None /\ phase' = "ramping"
          /\ cache' = IF Persistent THEN [cache EXCEPT ![Key] = None] ELSE cache
          /\ failed' = failed \cup {Key}
     ELSE UNCHANGED <<kept, phase, failed>>
  /\ UNCHANGED <<scope, measured, params, dim, post, halved>>

(***************************************************************************)
(* The rest of the world.                                                  *)
(***************************************************************************)
(* A row gets older than its TTL, is damaged or of another version, or the *)
(* clock is set back.                                                      *)
Expire(k) ==
  /\ cache[k] # None /\ cache' = [cache EXCEPT ![k].valid = FALSE]
  /\ UNCHANGED <<scope, active, measured, ramp, settled, history>>

(* A page reload: a new engine.                                            *)
Reload ==
  /\ enabled' = TRUE /\ active' = FALSE
  /\ direction' = "download" /\ caps' = None
  /\ phase' = "uninitialized" /\ params' = [f \in Fields |-> 1] /\ dim' = "window"
  /\ rtt' = "none" /\ prev' = 0 /\ low' = 0 /\ held' = 0 /\ post' = FALSE
  /\ settled' = None /\ halved' = FALSE
  /\ UNCHANGED <<origin, cache, failed>>

(* Another page of this origin writes a row.                               *)
StoreChanges(k, row) ==
  /\ cache' = [cache EXCEPT ![k] = row]
  /\ failed' = failed \ {k}
  /\ UNCHANGED <<scope, active, measured, ramp, settled, halved>>

Next ==
  \/ \E o \in Origins, d \in Directions, c \in Adverts, found \in BOOLEAN : Begin(o, d, c, found)
  \/ CloseWindow
  \/ \E ok \in BOOLEAN : End(ok)
  \/ Reload
  \/ \E k \in Keys : Expire(k)
  \/ \E saved \in Foreign : StoreChanges(saved[1], saved[2])

(* A transfer that runs reports with each chunk and each failure, so its   *)
(* windows close.                                                          *)
Spec == Init /\ [][Next]_vars /\ WF_vars(CloseWindow)

-----------------------------------------------------------------------------
(* The tables, phases and counters are what their comments say; a held     *)
(* settle or row names capabilities some server advertised.                *)
Settlements == [caps: Adverts, direction: Directions, table: Tables]
TuneTypeOK ==
  /\ enabled \in BOOLEAN /\ active \in BOOLEAN
  /\ origin \in Origins /\ direction \in Directions /\ caps \in Adverts \cup {None}
  /\ phase \in {"uninitialized", "ramping", "settled", "degraded"}
  /\ params \in Tables /\ dim \in {"window", "concurrency"}
  /\ rtt \in {"none", "level", "inflated"} /\ prev \in Nat /\ low \in 0..1
  /\ held \in 0..1 /\ post = FALSE
  /\ settled \in Settlements \cup {None} /\ cache \in [Keys -> Rows \cup {None}]
  /\ halved \in BOOLEAN /\ failed \subseteq Keys

(* Whatever a server advertises and whatever the store holds, no raise,    *)
(* reuse or retuning takes a dimension above the client's ceiling, nor     *)
(* above a maximum that means anything (HARD_MAX_*, bounded, raise_dim);   *)
(* below the advertised minimum only an error can take it.                 *)
WithinLimits ==
  caps # None =>
    \A f \in Fields :
      /\ params[f] <= Hard[f]
      /\ caps[f].min <= caps[f].max =>
           /\ params[f] <= MaxOf(caps[f].max, 1)
           /\ f \in Windowed /\ ~halved => params[f] >= FloorOf(caps[f], Hard[f])

(* What all requests together may hold in memory stays in its budget, in   *)
(* whichever direction, after every raise of a window under a chunk that   *)
(* was sized for a smaller one (enforce_in_flight_budget).                 *)
BudgetKept ==
  caps # None =>
    \A d \in Directions : params["concurrency"] * params[d] * params["chunk"] <= HardBytes

(* A table taken over from an earlier transfer, or halved by an error, is  *)
(* never raised while the transfer runs, and nothing but a new transfer or *)
(* a failed one starts a ramp (RampInput::ramping).                        *)
OnlyRampRaises ==
  [][active /\ active' /\ phase # "ramping" =>
       /\ phase' # "ramping"
       /\ \A f \in Windowed : params'[f] <= params[f]]_vars

(* After a failed transfer the next one of that key ramps from the         *)
(* minimums, until the client settles again in that direction: neither     *)
(* memory nor the store brings the parameters that failed back.            *)
FailureForgotten ==
  [][~active /\ active' /\ enabled' /\ <<origin', direction'>> \in failed
       => phase' = "ramping"]_vars

(* A ramp ends: however the link's rate varies, a transfer that keeps      *)
(* running settles, unless windows with errors keep coming; and what has   *)
(* settled leaves that phase only by an error (OnlyRampRaises).            *)
Settles ==
  []<>(active /\ enabled => phase = "settled" \/ (phase = "degraded" /\ low = 0))

(* tune.rs:1126-1127: "A post-degrade settle is excluded: its halved       *)
(* parameters are not a good reuse baseline"; a transfer whose table was   *)
(* halved leaves no settle behind.                                         *)
HalvedNotKept == [][halved /\ active => settled' \in {settled, None}]_vars
=============================================================================
