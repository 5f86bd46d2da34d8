--------------------------- MODULE CircuitBreaker ---------------------------
(***************************************************************************)
(* The latency circuit breaker of src/src/breaker.rs, updated by the       *)
(* request handlers of src/src/main.rs.                                    *)
(*                                                                         *)
(* Every handler that proxied a request calls CircuitBreaker::update with  *)
(* the latency it measured.  update reads the clock, tries (and never      *)
(* waits for) the mutex that guards the state, advances the state machine  *)
(* Closed -> OpenCooldown -> Open -> Closed, copies "open or closed" into  *)
(* the atomic `tripped` and releases the mutex.  The steps of different    *)
(* handlers interleave: in particular the instant a handler works with may *)
(* be older than what another handler has already written.                 *)
(*                                                                         *)
(* Time, delays and latencies are whole numbers of an arbitrary unit.  The *)
(* moving average is abstracted to what every finite config.smoothing that *)
(* is not negative has in common, the random jitter and the fading of the  *)
(* previous delay to the whole numbers they can be rounded to.             *)
(***************************************************************************)
EXTENDS Integers

CONSTANTS
  Handlers,      (* request handlers that feed the breaker              *)
  TripAbove,     (* config.trip_above                                   *)
  ResetBelow,    (* config.reset_below                                  *)
  MinOpens,      (* the values config.min_open_duration may be set to   *)
  HalfLives,     (* the values config.backoff_half_life may be set to   *)
  MaxOpen,       (* the hard cap on a delay: seven days                 *)
  Samples,       (* latencies a request can be measured to have         *)
  MaxTime,       (* bound of the model: the clock stops there           *)
  MaxLag,        (* how far behind the clock a handler in update may be *)
  NaN,           (* a float that is not a number                        *)
  Nobody,        (* the mutex is free                                   *)
  None           (* Option::None                                        *)

(* The one check config::load makes is ResetBelow < TripAbove; nothing     *)
(* relates min_open_duration to zero or to the cap, or backoff_half_life   *)
(* to zero.                                                                *)
ASSUME ConstantsAssumption ==
  /\ TripAbove \in Nat
  /\ ResetBelow \in Nat
  /\ ResetBelow < TripAbove
  /\ MinOpens \subseteq Nat
  /\ HalfLives \subseteq Nat
  /\ MaxOpen \in Nat
  /\ Samples \subseteq Nat
  /\ MaxTime \in Nat
  /\ MaxLag \in Nat
  /\ NaN \notin Int
  /\ Nobody \notin Handlers
  /\ None \notin [start : Nat, end : Nat]

VARIABLES
  min_open,      (* config.min_open_duration, fixed at start            *)
  half_life,     (* config.backoff_half_life, fixed at start            *)
  clock,         (* the monotonic clock, Instant::now()                 *)
  position,      (* State.position: which variant it is                 *)
  tripped_at,    (* the variant's tripped_at, 0 while Closed            *)
  cooldown,      (* delay drawn by the latest trip, 0 before the first  *)
  prev_open,     (* the Closed variant's prev_open                      *)
  latency,       (* State.latency, the moving average                   *)
  tripped,       (* the atomic copy of "position is not Closed"         *)
  raised,        (* history: when the flag was raised, 0 when it is not *)
  holder,        (* who holds the mutex                                 *)
  poisoned,      (* a panic happened while the mutex was held           *)
  pc,            (* where each handler is                               *)
  sample,        (* the latency each handler is reporting               *)
  now,           (* the instant each handler works with                 *)
  calm           (* history of the load: only low latencies from now on *)

config == <<min_open, half_life>>
flagVars == <<tripped, raised>>
breakerVars == <<position, tripped_at, cooldown, prev_open, latency, poisoned>>
handlerVars == <<pc, sample, now>>
vars == <<config, clock, breakerVars, flagVars, holder, handlerVars, calm>>

Positions == {"Closed", "OpenCooldown", "Open"}
Steps == {"idle", "timed", "locked", "store", "unlock"}

-----------------------------------------------------------------------------
(* Arithmetic of one update. *)

(* decay * (sample - latency), with a decay in (0, 1], moves the average   *)
(* towards the sample and never past it.                                   *)
Smoothed(avg, s) == IF s >= avg THEN avg .. s ELSE s .. avg

(* What 0.5 ^ (since / half_life) leaves of x: exact after a whole number  *)
(* of half-lives, between two neighbouring halvings otherwise, and nothing *)
(* after any time at all if the half-life is zero.                         *)
Faded(x, since) ==
  IF half_life = 0 THEN {0}
  ELSE LET n == since \div half_life
           m == IF since % half_life = 0 THEN n ELSE n + 1
       IN  {r \in 0 .. x : r * 2^n <= x /\ x < (r + 1) * 2^m}

(* Instant::duration_since never goes below zero. *)
Since(later, earlier) == IF later >= earlier THEN later - earlier ELSE 0

(* Mutant: the previous open period is ignored. *)
BaseWithoutHistory(t) == {min_open}

(* Delay before jitter when the breaker trips at instant t.  With a        *)
(* half-life of zero and no time since the reset, which is also what a     *)
(* stale instant amounts to, the exponent is 0 / 0.                        *)
BaseDelays(t) ==
  IF prev_open = None THEN {min_open}
  ELSE LET prev == Since(prev_open.end, prev_open.start)
           quiet == Since(t, prev_open.end)
       IN  IF half_life = 0 /\ quiet = 0 THEN {NaN}
           ELSE IF prev >= min_open
           THEN {min_open + r : r \in Faded(prev - min_open, quiet)}
           ELSE {min_open - r : r \in Faded(min_open - prev, quiet)}

(* Mutant: a jitter of up to three times. *)
JitterTooWide(base) == IF base = NaN THEN {NaN} ELSE base .. (3 * base)

(* A uniform factor in [1, 2), rounded to the unit of the model. *)
Jittered(base) == IF base = NaN THEN {NaN} ELSE base .. (2 * base)

(* Mutant: the delay is only capped. *)
ClampAboveOnly(delay) == IF delay # NaN /\ delay > MaxOpen THEN MaxOpen ELSE delay

(* f64::clamp lets a delay that is not a number through. *)
Clamp(delay) ==
  IF delay = NaN THEN NaN
  ELSE IF delay < min_open THEN min_open
  ELSE IF delay > MaxOpen THEN MaxOpen
  ELSE delay

(* f64::clamp panics when its bounds are the wrong way round. *)
ClampPanics == min_open > MaxOpen

(* Mutant: the delay is kept as a multiple of the previous open period,    *)
(* which a stale instant can make zero.                                    *)
CooldownOfPrevious(delay) ==
  IF prev_open # None /\ Since(prev_open.end, prev_open.start) = 0 THEN NaN ELSE delay

(* What cooldown_factor * min_open_duration gives back of the delay: with  *)
(* a minimum of zero the factor is 0 / 0 or infinite, and its product with *)
(* zero is not a number.                                                   *)
Cooldown(delay) == IF min_open = 0 THEN NaN ELSE delay

(* Duration::from_secs_f64 panics on what is not a number. *)
CooldownPanics == cooldown = NaN

-----------------------------------------------------------------------------
Init ==
  /\ min_open \in MinOpens
  /\ half_life \in HalfLives
  /\ clock = 0
  /\ position = "Closed"
  /\ tripped_at = 0
  /\ cooldown = 0
  /\ prev_open = None
  /\ latency = 0
  /\ tripped = FALSE
  /\ raised = 0
  /\ holder = Nobody
  /\ poisoned = FALSE
  /\ pc = [h \in Handlers |-> "idle"]
  /\ sample = [h \in Handlers |-> 0]
  /\ now = [h \in Handlers |-> 0]
  /\ calm = FALSE

(* Mutant: update works with the start of the request. *)
MeasureStart(h, s) ==
  /\ pc[h] = "idle"
  /\ calm => s < ResetBelow
  /\ pc' = [pc EXCEPT ![h] = "timed"]
  /\ sample' = [sample EXCEPT ![h] = s]
  /\ now' = [now EXCEPT ![h] = clock - s]
  /\ UNCHANGED <<config, clock, breakerVars, flagVars, holder, calm>>

(* A proxied response took s: the handler calls update, which reads the    *)
(* clock before it tries the mutex.                                        *)
Measure(h, s) ==
  /\ pc[h] = "idle"
  /\ calm => s < ResetBelow
  /\ pc' = [pc EXCEPT ![h] = "timed"]
  /\ sample' = [sample EXCEPT ![h] = s]
  /\ now' = [now EXCEPT ![h] = clock]
  /\ UNCHANGED <<config, clock, breakerVars, flagVars, holder, calm>>

(* The handler is through with update; what it held locally is gone. *)
Finish(h) ==
  /\ pc' = [pc EXCEPT ![h] = "idle"]
  /\ sample' = [sample EXCEPT ![h] = 0]
  /\ now' = [now EXCEPT ![h] = 0]

(* The mutex is taken. *)
Enter(h) ==
  /\ pc[h] = "timed"
  /\ holder' = h
  /\ pc' = [pc EXCEPT ![h] = "locked"]
  /\ UNCHANGED <<config, clock, breakerVars, flagVars, sample, now, calm>>

(* Mutant: the mutex is entered without looking who holds it. *)
LockAnyway(h) == Enter(h) /\ ~poisoned

(* try_lock succeeds. *)
Lock(h) == Enter(h) /\ holder = Nobody /\ ~poisoned

(* Mutant: the handler tries again until it gets the mutex. *)
SpinOnMutex(h) ==
  /\ pc[h] = "timed"
  /\ holder # Nobody \/ poisoned
  /\ UNCHANGED vars

(* try_lock fails, because the mutex is taken or poisoned: the sample is   *)
(* dropped.                                                                *)
DropSample(h) ==
  /\ pc[h] = "timed"
  /\ holder # Nobody \/ poisoned
  /\ Finish(h)
  /\ UNCHANGED <<config, clock, breakerVars, flagVars, holder, calm>>

(* Inside the mutex: the average is updated first, then the state machine  *)
(* advances on the new average.                                            *)
Advance(h) ==
  /\ pc[h] = "locked"
  /\ latency' \in Smoothed(latency, sample[h])
  /\ pc' = [pc EXCEPT ![h] = "store"]
  /\ UNCHANGED <<config, clock, flagVars, holder, poisoned, sample, now, calm>>

Stay == UNCHANGED <<position, tripped_at, cooldown, prev_open>>

StayClosed(h) ==
  /\ Advance(h)
  /\ position = "Closed"
  /\ latency' <= TripAbove
  /\ Stay

(* Closed -> OpenCooldown, for a delay that backs off exponentially. *)
Trip(h) ==
  /\ Advance(h)
  /\ position = "Closed"
  /\ latency' > TripAbove
  /\ ~ClampPanics
  /\ position' = "OpenCooldown"
  /\ tripped_at' = now[h]
  /\ \E base \in BaseDelays(now[h]) :
       \E delay \in Jittered(base) : cooldown' = Cooldown(Clamp(delay))
  /\ prev_open' = None

(* Mutant: the drawn delay is replaced by the configured minimum. *)
MinimumOver(t) == tripped_at + min_open <= t

(* cooldown_ends_at <= now *)
CooldownOver(t) == tripped_at + cooldown <= t

KeepCooling(h) ==
  /\ Advance(h)
  /\ position = "OpenCooldown"
  /\ ~CooldownPanics
  /\ ~CooldownOver(now[h])
  /\ Stay

(* The breaker closes and remembers from when to when it was open. *)
Close(h) ==
  /\ position' = "Closed"
  /\ prev_open' = [start |-> tripped_at, end |-> now[h]]
  /\ tripped_at' = 0
  /\ UNCHANGED cooldown

(* OpenCooldown -> Closed, when latency has already dropped. *)
CooldownToClosed(h) ==
  /\ Advance(h)
  /\ position = "OpenCooldown"
  /\ ~CooldownPanics
  /\ CooldownOver(now[h])
  /\ latency' < ResetBelow
  /\ Close(h)

(* OpenCooldown -> Open, when latency is still high. *)
CooldownToOpen(h) ==
  /\ Advance(h)
  /\ position = "OpenCooldown"
  /\ ~CooldownPanics
  /\ CooldownOver(now[h])
  /\ latency' >= ResetBelow
  /\ position' = "Open"
  /\ UNCHANGED <<tripped_at, cooldown, prev_open>>

StayOpen(h) ==
  /\ Advance(h)
  /\ position = "Open"
  /\ latency' >= ResetBelow
  /\ Stay

OpenToClosed(h) ==
  /\ Advance(h)
  /\ position = "Open"
  /\ latency' < ResetBelow
  /\ Close(h)

(* A panic unwinds out of update: the average is already written, the      *)
(* guard poisons the mutex and frees it, the flag is not stored, and the   *)
(* task serving the connection ends.                                       *)
Panic(h) ==
  /\ pc[h] = "locked"
  /\ latency' \in Smoothed(latency, sample[h])
  /\ \/ position = "Closed" /\ latency' > TripAbove /\ ClampPanics
     \/ position = "OpenCooldown" /\ CooldownPanics
  /\ poisoned' = TRUE
  /\ holder' = Nobody
  /\ Finish(h)
  /\ UNCHANGED <<config, clock, flagVars, calm>>
  /\ Stay

(* The flag is stored while the mutex is still held. *)
Store(h, flag) ==
  /\ pc[h] = "store"
  /\ tripped' = flag
  /\ raised' = IF flag = tripped THEN raised ELSE IF flag THEN clock ELSE 0
  /\ pc' = [pc EXCEPT ![h] = "unlock"]
  /\ UNCHANGED <<config, clock, breakerVars, holder, sample, now, calm>>

(* Mutant: only Open counts as tripped. *)
StoreOpenOnly(h) == Store(h, position = "Open")

(* Mutant: the flag is never cleared. *)
StoreSticky(h) == Store(h, tripped \/ position # "Closed")

StoreFlag(h) == Store(h, position # "Closed")

Unlock(h) ==
  /\ pc[h] = "unlock"
  /\ holder' = Nobody
  /\ Finish(h)
  /\ UNCHANGED <<config, clock, breakerVars, flagVars, calm>>

-----------------------------------------------------------------------------
(* The environment. *)

(* Time passes, but no handler falls further behind than MaxLag between    *)
(* reading the clock and leaving update.                                   *)
Tick ==
  /\ clock < MaxTime
  /\ \A h \in Handlers : pc[h] # "idle" => clock < now[h] + MaxLag
  /\ clock' = clock + 1
  /\ UNCHANGED <<config, breakerVars, flagVars, holder, handlerVars, calm>>

(* From some moment on the upstream answers quickly. *)
LoadSubsides ==
  /\ ~calm
  /\ calm' = TRUE
  /\ UNCHANGED <<config, clock, breakerVars, flagVars, holder, handlerVars>>

Critical(h) ==
  \/ StayClosed(h)
  \/ Trip(h)
  \/ KeepCooling(h)
  \/ CooldownToClosed(h)
  \/ CooldownToOpen(h)
  \/ StayOpen(h)
  \/ OpenToClosed(h)
  \/ Panic(h)

(* The steps a handler takes once it has called update. *)
Update(h) ==
  \/ Lock(h)
  \/ DropSample(h)
  \/ Critical(h)
  \/ StoreFlag(h)
  \/ Unlock(h)

Next ==
  \/ \E h \in Handlers : \E s \in Samples : Measure(h, s)
  \/ \E h \in Handlers : Update(h)
  \/ Tick
  \/ LoadSubsides

Spec == Init /\ [][Next]_vars

(* Threads and the clock keep running, requests keep being proxied, and    *)
(* an average that is fed samples below it keeps falling: it converges on  *)
(* them geometrically, so a threshold above them is crossed.               *)
Fairness ==
  /\ WF_vars(Tick)
  /\ \A h \in Handlers :
       /\ WF_vars(Update(h))
       /\ WF_vars(\E s \in Samples : Measure(h, s))
       /\ SF_vars(Critical(h) /\ latency' < latency)

FairSpec == Spec /\ Fairness

-----------------------------------------------------------------------------
(* Properties. *)

PrevOpens == [start : 0 .. clock, end : 0 .. clock]

TypeOK ==
  /\ min_open \in MinOpens
  /\ half_life \in HalfLives
  /\ clock \in 0 .. MaxTime
  /\ position \in Positions
  /\ tripped_at \in 0 .. clock
  /\ cooldown \in Nat \cup {NaN}
  /\ prev_open \in PrevOpens \cup {None}
  /\ latency \in Nat
  /\ tripped \in BOOLEAN
  /\ raised \in 0 .. clock
  /\ holder \in Handlers \cup {Nobody}
  /\ poisoned \in BOOLEAN
  /\ pc \in [Handlers -> Steps]
  /\ sample \in [Handlers -> Nat]
  /\ now \in [Handlers -> 0 .. clock]
  /\ calm \in BOOLEAN

(* A configuration update can run under without panicking. *)
ValidConfig ==
  /\ 0 < min_open /\ min_open <= MaxOpen
  /\ 0 < half_life

(* The lock-free flag that route_request reads is the state of the breaker *)
(* at every instant at which no handler is between changing the position   *)
(* and storing the flag, even after a panic left the mutex poisoned.       *)
FlagMatchesPosition ==
  (\A h \in Handlers : pc[h] # "store") => (tripped <=> position # "Closed")

(* No interleaving and no stale instant makes update panic, as long as the *)
(* configured delay is above zero and at most the cap and the half-life    *)
(* above zero: in particular not a reset by an instant older than the trip,*)
(* nor a trip by one older than the reset, which make a period of length   *)
(* zero of one that was not.                                               *)
NeverPoisoned == ValidConfig => ~poisoned

(* The delay of a trip is between the configured minimum and the cap.  An  *)
(* instant older than the trip it closes gives prev_open an end before its *)
(* start; the base delay then falls below the minimum.                     *)
CooldownWithinBounds ==
  (ValidConfig /\ position = "OpenCooldown") =>
    cooldown \in min_open .. MaxOpen

(* However the handlers interleave, challenges stay on, from the moment    *)
(* the flag is raised to the moment it is lowered, for the delay that was  *)
(* drawn.  Only the lag of the handler that tripped the breaker is taken   *)
(* off, because the delay counts from the instant that handler read; the   *)
(* lag of the handler that resets it is not.                               *)
NoEarlyReset ==
  [][(tripped /\ ~tripped') => clock + MaxLag >= raised + cooldown]_vars

(* What a panic leaves behind, whoever was in update meanwhile.  With a    *)
(* minimum above the cap update panicked instead of tripping; under every  *)
(* other configuration that makes it panic, the breaker that route_request *)
(* asks was tripped and stays so.  Nothing changes any of it again:        *)
(* neither load nor calm, nor time.                                        *)
StuckAsConfigured == poisoned => (tripped <=> min_open <= MaxOpen)

StuckForGood == [][poisoned => UNCHANGED <<breakerVars, tripped>>]_vars

(* The inductive invariant behind the properties above.  The mutex: who is *)
(* in the critical section holds it, and after a panic nobody does.  The   *)
(* flag: Closed without a previous open period means that nothing was ever *)
(* tripped.  The times: a cooldown that is over is over in real time.  The *)
(* lag: the flag is raised at most MaxLag after the instant of the trip.   *)
(* The panics: only an invalid configuration leads to one.                 *)
MutexInv ==
  /\ \A h \in Handlers : holder = h <=> pc[h] \in {"locked", "store", "unlock"}
  /\ poisoned => holder = Nobody

FlagInv ==
  /\ FlagMatchesPosition
  /\ (position = "Closed" /\ prev_open = None) => ~tripped

TimeInv ==
  /\ position = "Open" => tripped_at + cooldown <= clock
  /\ (position = "Closed" /\ prev_open # None) =>
       prev_open.start + cooldown <= clock

LagInv ==
  /\ \A h \in Handlers : pc[h] # "idle" => clock <= now[h] + MaxLag
  /\ (tripped /\ position # "Closed") => raised <= tripped_at + MaxLag
  /\ (tripped /\ position = "Closed") => raised <= prev_open.start + MaxLag
  /\ (~tripped /\ position # "Closed") =>
       \A h \in Handlers : pc[h] = "store" => now[h] = tripped_at

PanicInv ==
  /\ cooldown = NaN => (position = "OpenCooldown" /\ ~ValidConfig)
  /\ position # "Closed" => ~ClampPanics

IInv ==
  /\ TypeOK
  /\ MutexInv
  /\ FlagInv
  /\ TimeInv
  /\ LagInv
  /\ PanicInv
  /\ NeverPoisoned
  /\ StuckAsConfigured
  /\ CooldownWithinBounds

Retrips == position = "Closed" /\ position' # "Closed" /\ prev_open # None

(* With one handler at a time: a trip at the very instant of the reset     *)
(* waits at least as long as the trip before it did, up to the cap.        *)
BackoffGrows ==
  [][(Retrips /\ ValidConfig /\ tripped_at' = prev_open.end) =>
       cooldown' >= cooldown]_vars

(* No trip waits for more than twice the previous open period or twice the *)
(* minimum.                                                                *)
BackoffBounded ==
  [][(Retrips /\ ValidConfig) =>
       LET open == prev_open.end - prev_open.start
       IN  cooldown' <= 2 * (IF open > min_open THEN open ELSE min_open)]_vars

(* Once the upstream answers quickly for good, a tripped breaker resets.   *)
(* The model's clock must have room for the longest delay.                 *)
Resets == (calm /\ tripped /\ clock + MaxOpen <= MaxTime) ~> ~tripped

ResetsWhenCalm ==
  (ValidConfig /\ calm /\ tripped /\ clock + MaxOpen <= MaxTime) ~> ~tripped

(* What keeps it reset: once a breaker is closed with an average below the *)
(* lower threshold, and nobody is about to report more than that, it does  *)
(* not trip again, however many handlers report in whatever order.         *)
Quiet ==
  /\ calm
  /\ position = "Closed"
  /\ latency < ResetBelow
  /\ \A h \in Handlers : sample[h] < ResetBelow

QuietForGood == [][Quiet => Quiet']_vars
=============================================================================
