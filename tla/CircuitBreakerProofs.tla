------------------------ MODULE CircuitBreakerProofs ------------------------
(***************************************************************************)
(* What CircuitBreaker guarantees for any number of handlers, any latency  *)
(* samples, any clock bound and any configuration.                         *)
(***************************************************************************)
EXTENDS CircuitBreaker, TLAPS

(* Clamping gives a natural number, or lets what is not a number through,  *)
(* and gives one within its bounds whenever the bounds are the right way   *)
(* round, whatever the delay before it.                                    *)
LEMMA ClampInBounds ==
  ASSUME min_open \in Nat, NEW delay \in Int \cup {NaN}
  PROVE  /\ Clamp(delay) \in Nat \cup {NaN}
         /\ (ValidConfig /\ delay # NaN) => Clamp(delay) \in min_open .. MaxOpen
BY ConstantsAssumption DEF ConstantsAssumption, Clamp, ValidConfig

(* An average of two natural numbers is a natural number. *)
LEMMA SmoothedType ==
  ASSUME NEW avg \in Nat, NEW s \in Nat
  PROVE  Smoothed(avg, s) \subseteq Nat
BY DEF Smoothed

(* Initially nothing was tripped and nobody is in update. *)
LEMMA InitIInv == Init => IInv
<1> SUFFICES ASSUME Init PROVE IInv
  OBVIOUS
<1> USE ConstantsAssumption DEF ConstantsAssumption, Init
<1>a. /\ pc \in [Handlers -> Steps]
      /\ sample \in [Handlers -> Nat]
      /\ now \in [Handlers -> 0 .. clock]
  BY DEF Steps
<1>b. /\ min_open \in MinOpens
      /\ clock \in 0 .. MaxTime
      /\ tripped_at \in 0 .. clock
      /\ cooldown \in Nat \cup {NaN}
      /\ latency \in Nat
      /\ half_life \in HalfLives
      /\ raised \in 0 .. clock
      /\ cooldown # NaN
  OBVIOUS
<1>c. /\ tripped \in BOOLEAN
      /\ holder \in Handlers \cup {Nobody}
      /\ poisoned \in BOOLEAN
      /\ calm \in BOOLEAN
      /\ position \in Positions
      /\ prev_open \in PrevOpens \cup {None}
  BY DEF Positions
<1>1. TypeOK
  BY <1>a, <1>b, <1>c DEF TypeOK
<1>2. MutexInv
  BY DEF MutexInv
<1>3. /\ FlagInv /\ TimeInv /\ LagInv /\ PanicInv
      /\ NeverPoisoned /\ StuckAsConfigured /\ CooldownWithinBounds
  BY <1>b DEF FlagInv, FlagMatchesPosition, TimeInv, LagInv, PanicInv, NeverPoisoned,
              StuckAsConfigured, CooldownWithinBounds
<1> QED
  BY <1>1, <1>2, <1>3 DEF IInv

(* Steps that leave the state behind the mutex alone. *)
LEMMA OutsideStep ==
  ASSUME IInv,
         \/ \E h \in Handlers : (\E s \in Samples : Measure(h, s)) \/ Lock(h)
                                 \/ DropSample(h) \/ Unlock(h)
         \/ Tick
         \/ LoadSubsides
         \/ UNCHANGED vars
  PROVE  IInv'
<1> USE ConstantsAssumption DEF ConstantsAssumption
<1>1. TypeOK'
  <2> USE DEF IInv, TypeOK
  <2>1. ASSUME NEW h \in Handlers, NEW s \in Samples, Measure(h, s)
        PROVE  TypeOK'
    BY <2>1 DEF Measure, config, flagVars, breakerVars, PrevOpens, Steps
  <2>2. ASSUME NEW h \in Handlers, Lock(h)
        PROVE  TypeOK'
    BY <2>2 DEF Lock, Enter, config, flagVars, breakerVars, PrevOpens, Steps
  <2>3. ASSUME NEW h \in Handlers, DropSample(h) \/ Unlock(h)
        PROVE  TypeOK'
    BY <2>3 DEF DropSample, Unlock, Finish, config, flagVars, breakerVars, PrevOpens, Steps
  <2>4. CASE Tick
    BY <2>4 DEF Tick, config, flagVars, breakerVars, handlerVars, PrevOpens
  <2>5. CASE LoadSubsides
    BY <2>5 DEF LoadSubsides, config, flagVars, breakerVars, handlerVars, PrevOpens
  <2>6. CASE UNCHANGED vars
    BY <2>6 DEF vars, config, flagVars, breakerVars, handlerVars, PrevOpens
  <2> QED
    BY <2>1, <2>2, <2>3, <2>4, <2>5, <2>6
<1>2. MutexInv'
  BY DEF IInv, TypeOK, MutexInv, Steps, Measure, Lock, Enter, DropSample,
         Unlock, Finish, Tick, LoadSubsides, vars, config, flagVars, breakerVars, handlerVars
<1>3. FlagInv'
  BY DEF IInv, TypeOK, FlagInv, FlagMatchesPosition, Steps, Measure, Lock, Enter,
         DropSample, Unlock, Finish, Tick, LoadSubsides, vars, config, flagVars, breakerVars, handlerVars
<1>4. TimeInv' /\ PanicInv' /\ NeverPoisoned' /\ StuckAsConfigured' /\ CooldownWithinBounds'
  BY DEF IInv, TypeOK, TimeInv, PanicInv, NeverPoisoned, StuckAsConfigured, CooldownWithinBounds,
         ValidConfig, ClampPanics, PrevOpens, Measure, Lock, Enter,
         DropSample, Unlock, Finish, Tick, LoadSubsides, vars, config, flagVars, breakerVars, handlerVars
<1>5. LagInv'
  <2> USE DEF IInv, TypeOK, LagInv, config, flagVars, breakerVars
  <2>1. ASSUME NEW h \in Handlers, NEW s \in Samples, Measure(h, s)
        PROVE  LagInv'
    BY <2>1 DEF Measure, Steps
  <2>2. ASSUME NEW h \in Handlers, Lock(h)
        PROVE  LagInv'
    BY <2>2 DEF Lock, Enter, Steps
  <2>3. ASSUME NEW h \in Handlers, DropSample(h) \/ Unlock(h)
        PROVE  LagInv'
    BY <2>3 DEF DropSample, Unlock, Finish, Steps
  <2>4. CASE Tick
    BY <2>4 DEF Tick, handlerVars
  <2>5. CASE LoadSubsides \/ UNCHANGED vars
    BY <2>5 DEF LoadSubsides, vars, handlerVars
  <2> QED
    BY <2>1, <2>2, <2>3, <2>4, <2>5
<1> QED
  BY <1>1, <1>2, <1>3, <1>4, <1>5 DEF IInv

(* What every step taken on the advanced state leaves in order, whichever  *)
(* branch it takes.                                                        *)
LEMMA AdvanceStep ==
  ASSUME IInv, NEW h \in Handlers, Advance(h)
  PROVE  /\ latency' \in Nat
         /\ pc' \in [Handlers -> Steps]
         /\ MutexInv'
         /\ \E g \in Handlers : pc'[g] = "store"
         /\ NeverPoisoned' /\ StuckAsConfigured'
         /\ now[h] \in 0 .. clock
         /\ \A g \in Handlers : pc'[g] # "idle" => clock' <= now'[g] + MaxLag
         /\ \A g \in Handlers : pc'[g] = "store" => g = h
         /\ tripped <=> position # "Closed"
         /\ UNCHANGED <<config, clock, flagVars, now>>
<1> USE DEF IInv, TypeOK, Advance
<1>1. latency' \in Nat
  <2>1. Smoothed(latency, sample[h]) \subseteq Nat
    BY SmoothedType
  <2> QED
    BY <2>1
<1>2. pc' \in [Handlers -> Steps] /\ now[h] \in 0 .. clock
  BY DEF Steps
<1>3. MutexInv' /\ \E g \in Handlers : pc'[g] = "store"
  BY DEF MutexInv, Steps
<1>4. NeverPoisoned' /\ StuckAsConfigured'
  BY DEF NeverPoisoned, StuckAsConfigured, ValidConfig, config, flagVars
<1>5. \A g \in Handlers : pc'[g] # "idle" => clock' <= now'[g] + MaxLag
  BY DEF LagInv, Steps
<1>6. (\A g \in Handlers : pc'[g] = "store" => g = h) /\ (tripped <=> position # "Closed")
  BY DEF MutexInv, FlagInv, FlagMatchesPosition, Steps
<1> QED
  BY <1>1, <1>2, <1>3, <1>4, <1>5, <1>6

(* What becomes of a number on the way from the base delay: with a         *)
(* half-life above zero every base delay is one.                           *)
LEMMA BaseDelayIsNumber ==
  ASSUME IInv, NEW t \in Nat, NEW base \in BaseDelays(t)
  PROVE  /\ base \in Int \cup {NaN}
         /\ half_life # 0 => base \in Int
<1>1. min_open \in Nat
  BY ConstantsAssumption DEF ConstantsAssumption, IInv, TypeOK
<1>2. CASE prev_open = None
  BY <1>1, <1>2 DEF BaseDelays
<1>3. CASE prev_open # None
  <2> DEFINE prev == Since(prev_open.end, prev_open.start)
             quiet == Since(t, prev_open.end)
             x == IF prev >= min_open THEN prev - min_open ELSE min_open - prev
  <2>1. prev \in Nat /\ x \in Nat
    BY <1>1, <1>3 DEF Since, IInv, TypeOK, PrevOpens
  <2>2. Faded(x, quiet) \subseteq Nat
    <3> HIDE DEF x, quiet
    <3> QED
      BY <2>1 DEF Faded
  <2>3. \/ half_life = 0 /\ base = NaN
        \/ \E r \in Faded(x, quiet) : base = min_open + r \/ base = min_open - r
    BY <1>3 DEF BaseDelays
  <2> QED
    BY <1>1, <2>2, <2>3
<1> QED
  BY <1>2, <1>3

(* Drawing a delay: the clamp makes any delay an admissible one.           *)
LEMMA DrawnDelay ==
  ASSUME IInv, NEW h \in Handlers, Trip(h)
  PROVE  /\ cooldown' \in Nat \cup {NaN}
         /\ ValidConfig => cooldown' \in min_open .. MaxOpen
<1>0. min_open \in Nat /\ now[h] \in Nat /\ MaxOpen \in Nat /\ NaN \notin Int
  BY ConstantsAssumption DEF ConstantsAssumption, IInv, TypeOK
<1>1. PICK base \in BaseDelays(now[h]) :
        \E delay \in Jittered(base) : cooldown' = Cooldown(Clamp(delay))
  BY DEF Trip
<1>2. base \in Int \cup {NaN} /\ (half_life # 0 => base \in Int)
  BY <1>0, <1>1, BaseDelayIsNumber
<1>3. PICK delay \in Jittered(base) : cooldown' = Cooldown(Clamp(delay))
  BY <1>1
<1>4. delay \in Int \cup {NaN} /\ (half_life # 0 => delay # NaN)
  BY <1>0, <1>2, <1>3 DEF Jittered
<1>5. /\ Clamp(delay) \in Nat \cup {NaN}
      /\ (ValidConfig /\ delay # NaN) => Clamp(delay) \in min_open .. MaxOpen
  BY <1>0, <1>4, ClampInBounds
<1> QED
  BY <1>0, <1>3, <1>4, <1>5 DEF Cooldown, ValidConfig

(* Every branch of the state machine keeps the invariant. *)
LEMMA CriticalStep ==
  ASSUME IInv, NEW h \in Handlers, Critical(h)
  PROVE  IInv'
<1> USE ConstantsAssumption DEF ConstantsAssumption, config, flagVars
<1>1. CASE Panic(h)
  <2>1. latency' \in Nat
    <3>1. Smoothed(latency, sample[h]) \subseteq Nat
      BY SmoothedType DEF IInv, TypeOK
    <3> QED
      BY <1>1, <3>1 DEF Panic
  <2>2. TypeOK'
    BY <1>1, <2>1 DEF IInv, TypeOK, Panic, Finish, Stay, Steps, PrevOpens
  <2>3. MutexInv'
    BY <1>1 DEF IInv, TypeOK, MutexInv, Panic, Finish, Steps
  <2>4. FlagInv' /\ TimeInv' /\ PanicInv' /\ CooldownWithinBounds'
    BY <1>1 DEF IInv, TypeOK, FlagInv, FlagMatchesPosition, TimeInv, PanicInv,
                ClampPanics, CooldownWithinBounds, ValidConfig, Panic, Finish, Stay, Steps
  <2>5. ~ValidConfig
    BY <1>1 DEF Panic, ClampPanics, CooldownPanics, ValidConfig, PanicInv, IInv, TypeOK
  <2>6. NeverPoisoned'
    BY <1>1, <2>5 DEF NeverPoisoned, ValidConfig, Panic
  <2>7. StuckAsConfigured'
    <3>1. tripped <=> position # "Closed"
      BY <1>1 DEF Panic, IInv, TypeOK, MutexInv, FlagInv, FlagMatchesPosition
    <3>2. position # "Closed" <=> min_open <= MaxOpen
      BY <1>1 DEF Panic, ClampPanics, IInv, TypeOK, PanicInv
    <3> QED
      BY <1>1, <3>1, <3>2 DEF Panic, StuckAsConfigured
  <2>8. LagInv'
    BY <1>1 DEF IInv, TypeOK, LagInv, Panic, Finish, Stay, Steps
  <2> QED
    BY <2>2, <2>3, <2>4, <2>6, <2>7, <2>8 DEF IInv
<1>2. ASSUME Advance(h), Stay
      PROVE  IInv'
  <2>1. TypeOK'
    BY <1>2, AdvanceStep DEF IInv, TypeOK, Advance, Stay, PrevOpens
  <2>2. FlagInv' /\ TimeInv' /\ PanicInv' /\ CooldownWithinBounds'
    BY <1>2, AdvanceStep DEF IInv, TypeOK, FlagInv, FlagMatchesPosition, TimeInv, PanicInv,
                             ClampPanics, CooldownWithinBounds, ValidConfig, Advance, Stay
  <2>3. LagInv'
    BY <1>2, AdvanceStep DEF IInv, TypeOK, LagInv, Stay
  <2> QED
    BY <1>2, <2>1, <2>2, <2>3, AdvanceStep DEF IInv
<1>3. CASE Trip(h)
  <2> USE <1>3, AdvanceStep DEF Trip, Advance
  <2>1. TypeOK'
    BY DrawnDelay DEF IInv, TypeOK, Positions, PrevOpens
  <2>2. FlagInv' /\ TimeInv'
    BY DEF FlagInv, FlagMatchesPosition, TimeInv
  <2>3. CooldownWithinBounds' /\ PanicInv'
    <3>1. ValidConfig => cooldown' # NaN
      <4>1. min_open \in Nat /\ MaxOpen \in Nat /\ NaN \notin Int
        BY DEF IInv, TypeOK
      <4>2. NaN \notin min_open .. MaxOpen
        BY ONLY <4>1
      <4> QED
        BY <4>2, DrawnDelay
    <3> QED
      BY <3>1, DrawnDelay DEF CooldownWithinBounds, PanicInv, ClampPanics, ValidConfig
  <2>4. LagInv'
    BY DEF LagInv
  <2> QED
    BY <2>1, <2>2, <2>3, <2>4 DEF IInv
<1>4. ASSUME Advance(h), Close(h), cooldown # NaN, position # "Closed",
             tripped_at + cooldown <= clock
      PROVE  IInv'
  <2> USE <1>4, AdvanceStep DEF Advance, Close
  <2>1. prev_open' \in PrevOpens'
    <3>1. tripped_at \in 0 .. clock' /\ now[h] \in 0 .. clock'
      BY DEF IInv, TypeOK
    <3> HIDE <1>4 DEF Advance
    <3> QED
      BY <3>1, <1>4 DEF PrevOpens
  <2>2. TypeOK'
    <3>1. /\ min_open' \in MinOpens
          /\ clock' \in 0 .. MaxTime
          /\ position' \in Positions
          /\ tripped_at' \in 0 .. clock'
          /\ cooldown' \in Nat \cup {NaN}
          /\ half_life' \in HalfLives
          /\ raised' \in 0 .. clock'
      BY DEF IInv, TypeOK, Positions
    <3>2. /\ tripped' \in BOOLEAN
          /\ holder' \in Handlers \cup {Nobody}
          /\ poisoned' \in BOOLEAN
          /\ sample' \in [Handlers -> Nat]
          /\ now' \in [Handlers -> 0 .. clock']
          /\ calm' \in BOOLEAN
      BY DEF IInv, TypeOK
    <3> QED
      BY <2>1, <3>1, <3>2 DEF TypeOK
  <2>3. prev_open' # None
    BY DEF IInv, TypeOK
  <2>4. FlagInv' /\ TimeInv' /\ PanicInv' /\ CooldownWithinBounds'
    BY <2>3 DEF IInv, TypeOK, FlagInv, FlagMatchesPosition, TimeInv, PanicInv,
                CooldownWithinBounds
  <2>5. LagInv'
    BY DEF IInv, TypeOK, LagInv
  <2> QED
    BY <2>2, <2>4, <2>5 DEF IInv
<1>5. CASE CooldownToClosed(h)
  <2>1. cooldown # NaN /\ tripped_at + cooldown <= clock
    BY <1>5 DEF CooldownToClosed, CooldownPanics, CooldownOver, IInv, TypeOK
  <2> QED
    BY <1>4, <1>5, <2>1 DEF CooldownToClosed
<1>6. CASE CooldownToOpen(h)
  <2> USE <1>6, AdvanceStep DEF CooldownToOpen, Advance
  <2>1. TypeOK'
    BY DEF IInv, TypeOK, Positions, PrevOpens
  <2>2. FlagInv' /\ TimeInv' /\ PanicInv' /\ CooldownWithinBounds'
    BY DEF IInv, TypeOK, FlagInv, FlagMatchesPosition, TimeInv, PanicInv, ClampPanics,
           CooldownPanics, CooldownOver, CooldownWithinBounds
  <2>3. LagInv'
    BY DEF IInv, TypeOK, LagInv
  <2> QED
    BY <2>1, <2>2, <2>3 DEF IInv
<1>7. CASE OpenToClosed(h)
  <2>1. cooldown # NaN /\ tripped_at + cooldown <= clock
    BY <1>7 DEF OpenToClosed, IInv, TimeInv, PanicInv
  <2> QED
    BY <1>4, <1>7, <2>1 DEF OpenToClosed
<1> QED
  BY <1>1, <1>2, <1>3, <1>5, <1>6, <1>7 DEF Critical, StayClosed, KeepCooling, StayOpen

(* Storing the flag makes it agree with the position, which no other       *)
(* handler can change meanwhile.                                           *)
LEMMA StoreStep ==
  ASSUME IInv, NEW h \in Handlers, StoreFlag(h)
  PROVE  IInv'
<1> USE DEF IInv, TypeOK, StoreFlag, Store, config, breakerVars
<1>1. TypeOK'
  BY DEF Steps, PrevOpens
<1>2. MutexInv'
  BY DEF MutexInv, Steps
<1>3. FlagInv'
  BY DEF FlagInv, FlagMatchesPosition
<1>4. TimeInv' /\ PanicInv' /\ NeverPoisoned' /\ CooldownWithinBounds'
  BY DEF TimeInv, PanicInv, ClampPanics, NeverPoisoned, CooldownWithinBounds, ValidConfig
<1>5. StuckAsConfigured'
  BY ConstantsAssumption DEF ConstantsAssumption, StuckAsConfigured, MutexInv
<1>6. LagInv'
  <2>1. /\ \A g \in Handlers : pc'[g] # "idle" => clock' <= now'[g] + MaxLag
        /\ \A g \in Handlers : pc'[g] # "store"
    BY ConstantsAssumption DEF ConstantsAssumption, LagInv, MutexInv, Steps
  <2>2. CASE position = "Closed"
    BY <2>1, <2>2
       DEF LagInv
  <2>3. CASE position # "Closed" /\ tripped
    BY <2>1, <2>3 DEF LagInv
  <2>4. CASE position # "Closed" /\ ~tripped
    BY <2>1, <2>4 DEF LagInv
  <2> QED
    BY <2>2, <2>3, <2>4
<1> QED
  BY <1>1, <1>2, <1>3, <1>4, <1>5, <1>6 DEF IInv

(* IInv holds in every reachable state. *)
THEOREM Invariance == Spec => []IInv
<1>1. Init => IInv
  BY InitIInv
<1>2. IInv /\ [Next]_vars => IInv'
  BY OutsideStep, CriticalStep, StoreStep DEF Next, Update
<1> QED
  BY <1>1, <1>2, PTL DEF Spec

(* Every variable keeps its type: instants are never in the future, delays *)
(* and averages never negative.                                            *)
THEOREM TypeCorrect == Spec => []TypeOK
<1>1. IInv => TypeOK
  BY DEF IInv
<1> QED
  BY <1>1, Invariance, PTL

(* is_tripped tells the position whenever no handler is about to store it. *)
THEOREM FlagCorrect == Spec => []FlagMatchesPosition
<1>1. IInv => FlagMatchesPosition
  BY DEF IInv, FlagInv
<1> QED
  BY <1>1, Invariance, PTL

(* With a half-life above zero and 0 < min_open_duration <= seven days,    *)
(* update never panics, however old the instants it works with.            *)
THEOREM NoPanic == Spec => []NeverPoisoned
<1>1. IInv => NeverPoisoned
  BY DEF IInv
<1> QED
  BY <1>1, Invariance, PTL

(* A breaker that panicked is tripped, unless the configured minimum is    *)
(* above the cap: then it panicked in place of tripping.                   *)
THEOREM PanicDecides == Spec => []StuckAsConfigured
<1>1. IInv => StuckAsConfigured
  BY DEF IInv
<1> QED
  BY <1>1, Invariance, PTL

(* A breaker that panicked never changes again: nobody was inside update   *)
(* then, and try_lock lets nobody in.                                      *)
THEOREM PanicIsFinal == Spec => StuckForGood
<1>1. ASSUME IInv, [Next]_vars, poisoned
      PROVE  UNCHANGED <<breakerVars, tripped>>
  <2>1. \A h \in Handlers : pc[h] \notin {"locked", "store", "unlock"}
    BY <1>1, ConstantsAssumption DEF ConstantsAssumption, IInv, MutexInv
  <2>2. ASSUME NEW h \in Handlers, Update(h)
        PROVE  UNCHANGED <<breakerVars, tripped>>
    <3>1. ~Critical(h) /\ ~StoreFlag(h) /\ ~Unlock(h)
      BY <2>1 DEF Critical, StayClosed, Trip, KeepCooling, CooldownToClosed, CooldownToOpen,
                  StayOpen, OpenToClosed, Advance, Panic, StoreFlag, Store, Unlock
    <3> QED
      BY <1>1, <2>2, <3>1 DEF Update, Lock, DropSample, flagVars
  <2> QED
    BY <1>1, <2>2 DEF Next, Measure, Tick, LoadSubsides, vars, flagVars
<1>2. IInv /\ [Next]_vars => [poisoned => UNCHANGED <<breakerVars, tripped>>]_vars
  BY <1>1
<1> QED
  BY <1>2, Invariance, PTL DEF Spec, StuckForGood

(* The delay of a trip stays between the minimum and the cap. *)
THEOREM CooldownBounds == Spec => []CooldownWithinBounds
<1>1. IInv => CooldownWithinBounds
  BY DEF IInv
<1> QED
  BY <1>1, Invariance, PTL

(* Challenges stay on for the delay that was drawn, from the moment the    *)
(* flag goes up to the moment it goes down, less the time the tripping     *)
(* handler took to raise it.                                               *)
THEOREM CooldownIsServed == Spec => NoEarlyReset
<1>1. ASSUME IInv, [Next]_vars
      PROVE  [(tripped /\ ~tripped') => clock + MaxLag >= raised + cooldown]_vars
  <2>1. CASE \E h \in Handlers : StoreFlag(h)
    <3> SUFFICES ASSUME tripped, ~tripped'
                 PROVE  clock + MaxLag >= raised + cooldown
      OBVIOUS
    <3>1. position = "Closed" /\ prev_open # None
      BY <1>1, <2>1 DEF StoreFlag, Store, IInv, FlagInv
    <3>2. prev_open.start + cooldown <= clock /\ raised <= prev_open.start + MaxLag
      BY <1>1, <3>1 DEF IInv, TimeInv, LagInv
    <3>3. /\ prev_open.start \in Nat /\ cooldown \in Nat /\ clock \in Nat
          /\ raised \in Nat /\ MaxLag \in Nat
      BY <1>1, <3>1, ConstantsAssumption
         DEF ConstantsAssumption, IInv, TypeOK, PrevOpens, PanicInv
    <3> QED
      BY <3>2, <3>3
  <2>2. CASE ~ \E h \in Handlers : StoreFlag(h)
    <3>1. tripped' = tripped
      BY <1>1, <2>2 DEF Next, Update, Measure, Lock, Enter, DropSample, Critical, StayClosed,
         Trip, KeepCooling, CooldownToClosed, CooldownToOpen, StayOpen, OpenToClosed, Advance,
         Panic, Unlock, Tick, LoadSubsides, vars, flagVars
    <3> QED
      BY <3>1
  <2> QED
    BY <2>1, <2>2
<1> QED
  BY <1>1, Invariance, PTL DEF Spec, NoEarlyReset

-----------------------------------------------------------------------------
(* The exponential backoff. *)

(* The delay of a trip before jitter is at most the previous open period   *)
(* or the minimum, and exactly that period when the breaker trips at the   *)
(* instant of its reset.                                                   *)
LEMMA BaseDelayBounds ==
  ASSUME IInv, ValidConfig, prev_open # None, NEW t \in Nat, NEW base \in BaseDelays(t)
  PROVE  LET open == prev_open.end - prev_open.start
         IN  /\ base \in Int
             /\ base <= (IF open > min_open THEN open ELSE min_open)
             /\ (t = prev_open.end /\ open >= 0) => base = open
<1> USE ConstantsAssumption DEF ConstantsAssumption
<1> DEFINE prev == Since(prev_open.end, prev_open.start)
           quiet == Since(t, prev_open.end)
           x == IF prev >= min_open THEN prev - min_open ELSE min_open - prev
<1>1. /\ min_open \in Nat /\ prev_open.start \in Nat /\ prev_open.end \in Nat
      /\ half_life \in Nat /\ half_life # 0
  BY DEF IInv, TypeOK, PrevOpens, ValidConfig
<1>2. prev \in Nat /\ quiet \in Nat /\ x \in Nat
  BY <1>1 DEF Since
<1>3. PICK r \in Faded(x, quiet) :
        base = IF prev >= min_open THEN min_open + r ELSE min_open - r
  BY <1>1 DEF BaseDelays
<1>4. r \in 0 .. x
  BY <1>1, <1>3 DEF Faded
<1>5. quiet = 0 => r = x
  <2> SUFFICES ASSUME quiet = 0
               PROVE  r = x
    OBVIOUS
  <2>1. 0 \div half_life = 0 /\ 0 % half_life = 0 /\ 2 ^ 0 = 1
    BY <1>1
  <2>2. r * 2 ^ 0 <= x /\ x < (r + 1) * 2 ^ 0
    <3> HIDE DEF x, quiet
    <3> QED
      BY <1>1, <1>3, <2>1 DEF Faded
  <2> HIDE DEF x, quiet
  <2> QED
    BY <1>2, <1>4, <2>1, <2>2
<1>6. t = prev_open.end => quiet = 0
  BY <1>1 DEF Since
<1>7. prev = IF prev_open.end >= prev_open.start THEN prev_open.end - prev_open.start ELSE 0
  BY DEF Since
<1> QED
  BY <1>1, <1>2, <1>3, <1>4, <1>5, <1>6, <1>7

(* The state machine leaves Closed only with a trip. *)
LEMMA OnlyTripLeavesClosed ==
  ASSUME [Next]_vars, position = "Closed", position' # "Closed"
  PROVE  \E h \in Handlers : Trip(h)
BY DEF Next, Update, Measure, Lock, Enter, DropSample, Critical, StayClosed, KeepCooling,
       CooldownToClosed, CooldownToOpen, StayOpen, OpenToClosed, Close, Panic, Stay, StoreFlag,
       Store, Unlock, Tick, LoadSubsides, breakerVars, vars

(* No trip waits for more than twice the previous open period or twice the *)
(* minimum, whatever the handlers do (the jitter and the clamp).           *)
THEOREM BackoffIsBounded == Spec => BackoffBounded
<1> DEFINE Bound == LET open == prev_open.end - prev_open.start
                    IN  cooldown' <= 2 * (IF open > min_open THEN open ELSE min_open)
<1>1. ASSUME IInv, [Next]_vars
      PROVE  [(Retrips /\ ValidConfig) => Bound]_vars
  <2> SUFFICES ASSUME Retrips, ValidConfig
               PROVE  Bound
    OBVIOUS
  <2>1. PICK h \in Handlers : Trip(h)
    BY <1>1, OnlyTripLeavesClosed DEF Retrips
  <2>2. now[h] \in Nat /\ min_open \in Nat /\ MaxOpen \in Nat
    BY <1>1, ConstantsAssumption DEF ConstantsAssumption, IInv, TypeOK
  <2>0. PICK base \in BaseDelays(now[h]) :
          \E delay \in Jittered(base) : cooldown' = Cooldown(Clamp(delay))
    BY <2>1 DEF Trip
  <2>3. PICK delay \in Jittered(base) : cooldown' = Clamp(delay)
    BY <2>0 DEF Cooldown, ValidConfig
  <2>4. base \in Int /\ delay \in Int /\ delay <= 2 * base /\ NaN \notin Int
    BY <1>1, <2>2, BaseDelayBounds, ConstantsAssumption
       DEF ConstantsAssumption, Retrips, Jittered
  <2>5. LET open == prev_open.end - prev_open.start
        IN  base <= (IF open > min_open THEN open ELSE min_open)
    BY <1>1, <2>2, BaseDelayBounds DEF Retrips
  <2>6. prev_open.end \in Nat /\ prev_open.start \in Nat
    BY <1>1 DEF IInv, TypeOK, PrevOpens, Retrips
  <2> QED
    BY <2>2, <2>3, <2>4, <2>5, <2>6 DEF Clamp
<1> QED
  BY <1>1, Invariance, PTL DEF Spec, BackoffBounded

(* What holds with one handler at a time: no instant is older than the     *)
(* trip, so that a period the breaker was open lasted for the whole delay. *)
OneHandler == \A g, h \in Handlers : g = h

SoloInv ==
  /\ cooldown # NaN => cooldown <= MaxOpen
  /\ prev_open # None => prev_open.start + cooldown <= prev_open.end
  /\ position = "Open" =>
       \A h \in Handlers : pc[h] \in {"timed", "locked"} => tripped_at + cooldown <= now[h]

(* The steps outside the state machine give no handler an old instant.     *)
LEMMA SoloOutside ==
  ASSUME IInv, SoloInv,
         \/ \E h \in Handlers : (\E s \in Samples : Measure(h, s)) \/ Lock(h) \/ DropSample(h)
                                 \/ StoreFlag(h) \/ Unlock(h)
         \/ Tick \/ LoadSubsides \/ UNCHANGED vars
  PROVE  SoloInv'
<1> USE DEF IInv, TypeOK, SoloInv, breakerVars, handlerVars, config
<1>1. CASE \E h \in Handlers : \E s \in Samples : Measure(h, s)
  BY <1>1 DEF Measure, TimeInv
<1>2. CASE \E h \in Handlers : Lock(h)
  BY <1>2 DEF Lock, Enter
<1>3. CASE \E h \in Handlers : DropSample(h) \/ Unlock(h)
  BY <1>3 DEF DropSample, Unlock, Finish
<1>4. CASE \E h \in Handlers : StoreFlag(h)
  BY <1>4 DEF StoreFlag, Store
<1>5. CASE Tick \/ LoadSubsides \/ UNCHANGED vars
  BY <1>5 DEF Tick, LoadSubsides, vars
<1> QED
  BY <1>1, <1>2, <1>3, <1>4, <1>5

LEMMA SoloCritical ==
  ASSUME OneHandler, IInv, SoloInv, NEW h \in Handlers, Critical(h)
  PROVE  SoloInv'
<1> USE ConstantsAssumption DEF ConstantsAssumption
<1>1. pc[h] = "locked" /\ pc'[h] \in {"store", "idle"}
  BY DEF Critical, StayClosed, Trip, KeepCooling, CooldownToClosed, CooldownToOpen, StayOpen,
         OpenToClosed, Panic, Advance, Finish, IInv, TypeOK
<1>2. \A g \in Handlers : pc'[g] \notin {"timed", "locked"}
  BY <1>1 DEF OneHandler
<1>3. CASE Stay
  BY <1>2, <1>3 DEF SoloInv, Stay
<1>4. CASE Trip(h)
  <2>1. ~ClampPanics /\ prev_open' = None
    BY <1>4 DEF Trip
  <2>2. min_open \in Nat /\ now[h] \in Nat
    BY DEF IInv, TypeOK
  <2>3. cooldown' # NaN => cooldown' <= MaxOpen
    <3>1. PICK base \in BaseDelays(now[h]) :
            \E delay \in Jittered(base) : cooldown' = Cooldown(Clamp(delay))
      BY <1>4 DEF Trip
    <3>2. PICK delay \in Jittered(base) : cooldown' = Cooldown(Clamp(delay))
      BY <3>1
    <3>3. delay \in Int \cup {NaN}
      BY <2>2, <3>2, BaseDelayIsNumber DEF Jittered
    <3> QED
      BY <2>1, <2>2, <3>2, <3>3 DEF ClampPanics, Clamp, Cooldown
  <2> QED
    BY <1>2, <2>1, <2>3 DEF SoloInv
<1>5. CASE CooldownToClosed(h) \/ OpenToClosed(h)
  <2>1. Close(h)
    BY <1>5 DEF CooldownToClosed, OpenToClosed
  <2>2. tripped_at + cooldown <= now[h]
    BY <1>1, <1>5 DEF CooldownToClosed, CooldownOver, OpenToClosed, SoloInv
  <2> QED
    BY <1>2, <2>1, <2>2 DEF Close, SoloInv
<1>6. CASE CooldownToOpen(h)
  BY <1>2, <1>6 DEF CooldownToOpen, SoloInv, IInv, TypeOK
<1> QED
  BY <1>3, <1>4, <1>5, <1>6 DEF Critical, StayClosed, KeepCooling, StayOpen, Panic

(* With one handler, a trip at the instant of the reset waits at least as  *)
(* long as the trip before it did (base_delay, jitter and clamp together). *)
THEOREM BackoffIsMonotone == ASSUME OneHandler PROVE Spec => BackoffGrows
<1>1. Init => SoloInv
  BY ConstantsAssumption DEF ConstantsAssumption, Init, SoloInv
<1>2. IInv /\ SoloInv /\ [Next]_vars => SoloInv'
  BY SoloOutside, SoloCritical DEF Next, Update
<1>3. ASSUME IInv, SoloInv, [Next]_vars
      PROVE  [(Retrips /\ ValidConfig /\ tripped_at' = prev_open.end)
                => cooldown' >= cooldown]_vars
  <2> SUFFICES ASSUME Retrips, ValidConfig, tripped_at' = prev_open.end
               PROVE  cooldown' >= cooldown
    OBVIOUS
  <2>1. PICK h \in Handlers : Trip(h)
    BY <1>3, OnlyTripLeavesClosed DEF Retrips
  <2>2. /\ now[h] \in Nat /\ min_open \in Nat /\ MaxOpen \in Nat /\ cooldown \in Nat
        /\ prev_open.end \in Nat /\ prev_open.start \in Nat /\ NaN \notin Int
    BY <1>3, ConstantsAssumption
       DEF ConstantsAssumption, IInv, TypeOK, PrevOpens, PanicInv, Retrips
  <2>0. PICK base \in BaseDelays(now[h]) :
          \E delay \in Jittered(base) : cooldown' = Cooldown(Clamp(delay))
    BY <2>1 DEF Trip
  <2>3. PICK delay \in Jittered(base) : cooldown' = Clamp(delay)
    BY <2>0 DEF Cooldown, ValidConfig
  <2>4. now[h] = prev_open.end /\ ~ClampPanics
    BY <2>1 DEF Trip
  <2>5. prev_open.start + cooldown <= prev_open.end /\ cooldown <= MaxOpen
    BY <1>3 DEF SoloInv, PanicInv, IInv, Retrips
  <2>6. base = prev_open.end - prev_open.start
    BY <1>3, <2>2, <2>4, <2>5, BaseDelayBounds DEF Retrips
  <2>7. delay \in Int /\ delay >= cooldown
    BY <2>2, <2>3, <2>5, <2>6 DEF Jittered
  <2> QED
    BY <2>2, <2>3, <2>4, <2>5, <2>7 DEF Clamp, ClampPanics
<1> QED
  BY <1>1, <1>2, <1>3, Invariance, PTL DEF Spec, BackoffGrows

(* Smoothing never takes the average past the latency it is fed, so that a *)
(* calm upstream cannot trip a closed breaker again.                       *)
THEOREM CalmStaysClosed == Spec => QuietForGood
<1>1. ASSUME IInv, [Next]_vars, Quiet
      PROVE  Quiet'
  <2> USE DEF Quiet
  <2>0. /\ calm /\ position = "Closed" /\ latency < ResetBelow
        /\ \A h \in Handlers : sample[h] < ResetBelow
        /\ latency \in Nat /\ sample \in [Handlers -> Nat] /\ Samples \subseteq Nat
        /\ ResetBelow \in Nat /\ TripAbove \in Nat
        /\ 0 < ResetBelow /\ ResetBelow < TripAbove
    BY <1>1, ConstantsAssumption DEF ConstantsAssumption, IInv, TypeOK
  <2>1. ASSUME NEW h \in Handlers, NEW s \in Samples, Measure(h, s)
        PROVE  Quiet'
    BY <2>0, <2>1 DEF Measure, breakerVars
  <2>2. ASSUME NEW h \in Handlers, Lock(h) \/ StoreFlag(h)
        PROVE  Quiet'
    BY <2>0, <2>2 DEF Lock, Enter, StoreFlag, Store, breakerVars
  <2>3. ASSUME NEW h \in Handlers, DropSample(h) \/ Unlock(h)
        PROVE  Quiet'
    <3>1. /\ UNCHANGED <<calm, position, latency>>
          /\ sample' = [sample EXCEPT ![h] = 0]
      BY <2>3 DEF DropSample, Unlock, Finish, breakerVars
    <3>2. \A i \in Handlers : sample'[i] < ResetBelow
      BY ONLY <2>0, <3>1
    <3> QED
      BY <2>0, <3>1, <3>2
  <2>4. ASSUME NEW h \in Handlers, Critical(h)
        PROVE  Quiet'
    <3>1. latency' \in Smoothed(latency, sample[h])
      BY <2>4 DEF Critical, StayClosed, Trip, KeepCooling, CooldownToClosed, CooldownToOpen,
                  StayOpen, OpenToClosed, Advance, Panic
    <3>2. sample[h] \in Nat /\ sample[h] < ResetBelow
      BY <2>0
    <3>3. latency' \in Nat /\ latency' < ResetBelow
      BY ONLY <2>0, <3>1, <3>2 DEF Smoothed
    <3>4. ~(latency' > TripAbove)
      BY ONLY <2>0, <3>3
    <3>5. ~Trip(h) /\ ~Panic(h)
      BY <2>0, <3>4 DEF Trip, Panic
    <3>6. /\ ~KeepCooling(h) /\ ~CooldownToClosed(h) /\ ~CooldownToOpen(h)
          /\ ~StayOpen(h) /\ ~OpenToClosed(h)
      BY <2>0 DEF KeepCooling, CooldownToClosed, CooldownToOpen, StayOpen, OpenToClosed
    <3>7. StayClosed(h)
      BY <2>4, <3>5, <3>6 DEF Critical
    <3> QED
      BY <2>0, <3>3, <3>7 DEF StayClosed, Advance, Stay
  <2>5. CASE Tick \/ LoadSubsides \/ UNCHANGED vars
    BY <2>0, <2>5 DEF Tick, LoadSubsides, vars, breakerVars, handlerVars
  <2> QED
    BY <1>1, <2>1, <2>2, <2>3, <2>4, <2>5 DEF Next, Update
<1>2. IInv /\ [Next]_vars => [Quiet => Quiet']_vars
  BY <1>1
<1> QED
  BY <1>2, Invariance, PTL DEF Spec, QuietForGood
=============================================================================
