---------------------------- MODULE GatewayProofs ----------------------------
(***************************************************************************)
(* The request path composed with the breaker: what is proved about the    *)
(* breaker alone holds for the breaker inside the gateway, and only        *)
(* proxied requests reach it.                                              *)
(***************************************************************************)
EXTENDS Gateway, CircuitBreakerProofs

(* Every step of the gateway is a step of the breaker or leaves it alone.  *)
LEMMA GatewayStepIsBreakerStep ==
  ASSUME [GatewayNext]_allVars
  PROVE  [Next]_vars
<1>1. CASE \E h \in Handlers : \E k \in Kinds : Arrive(h, k)
  BY <1>1 DEF Arrive
<1>2. ASSUME NEW h \in Handlers, Handle(h) \/ BodyArrives(h) \/ ClientGone(h)
      PROVE  [Next]_vars
  BY <1>2 DEF Handle, BodyArrives, ClientGone, ServeHeavy, ReadBody, ServeChallenge,
              ProxyUpstream, UpstreamAnswers, Respond, Await, ReturnUnreported, Report, Feed, Next
<1>3. CASE GatewayTick \/ GatewayLoadSubsides
  BY <1>3 DEF GatewayTick, GatewayLoadSubsides, Next
<1>4. CASE UNCHANGED allVars
  BY <1>4 DEF allVars
<1> QED
  BY <1>1, <1>2, <1>3, <1>4 DEF GatewayNext

(* The breaker inside the gateway goes through its own steps only. *)
LEMMA GatewayKeepsBreaker == GatewaySpec => Spec
<1>1. GatewayInit => Init
  BY DEF GatewayInit
<1>2. [GatewayNext]_allVars => [Next]_vars
  BY GatewayStepIsBreakerStep
<1> QED
  BY <1>1, <1>2, PTL DEF GatewaySpec, Spec

(* Inside the gateway too, the flag that route_request reads agrees with   *)
(* the position of the breaker.                                            *)
THEOREM GatewayFlagCorrect == GatewaySpec => []FlagMatchesPosition
BY GatewayKeepsBreaker, FlagCorrect, PTL

(* Inside the gateway too, challenges stay on for the delay drawn, less    *)
(* the lag of the handler that turned them on.                             *)
THEOREM GatewayServesCooldown == GatewaySpec => NoEarlyReset
BY GatewayKeepsBreaker, CooldownIsServed, PTL

(* Inside the gateway too, no handler panics in update, and with it loses  *)
(* its response, under a half-life above zero and a minimum that is above  *)
(* zero and at most the cap.                                               *)
THEOREM GatewayNeverPanics == GatewaySpec => []NeverPoisoned
BY GatewayKeepsBreaker, NoPanic, PTL

(* Inside the gateway too, every delay is between the minimum and the cap. *)
THEOREM GatewayCooldownBounds == GatewaySpec => []CooldownWithinBounds
BY GatewayKeepsBreaker, CooldownBounds, PTL

(* Inside the gateway too, no trip waits for more than twice the longer of *)
(* the previous open period and the minimum.                               *)
THEOREM GatewayBackoffBounded == GatewaySpec => BackoffBounded
BY GatewayKeepsBreaker, BackoffIsBounded, PTL

(* What a panic in one handler does to all requests after it: those that   *)
(* nothing exempts are let through for good, however slow the upstream, if *)
(* the minimum is above the cap, and challenged for good otherwise.        *)
THEOREM GatewayPanicIsFinal == GatewaySpec => []StuckAsConfigured /\ StuckForGood
BY GatewayKeepsBreaker, PanicDecides, PanicIsFinal, PTL

-----------------------------------------------------------------------------
(* The inductive invariant: the types of the gateway's own variables, and  *)
(* where a handler is on both paths at once.                               *)
GatewayInv ==
  /\ stage \in [Handlers -> Stages]
  /\ kind \in [Handlers -> Kinds \cup {"none"}]
  /\ challenged \in [Handlers -> BOOLEAN]
  /\ source \in [Handlers -> Sources]
  /\ pc \in [Handlers -> Steps]
  /\ \A h \in Handlers : pc[h] # "idle" <=> stage[h] = "feeding"
  /\ \A h \in Handlers : stage[h] # "free" => kind[h] \in Kinds
  /\ \A h \in Handlers : stage[h] = "upstream" => ~HeavyPath(h)
  /\ \A h \in Handlers : stage[h] = "body" => HeavyPath(h)
  /\ \A h \in Handlers : stage[h] = "answered" => (Proxied(h) <=> source[h] = "upstream")

LEMMA GatewayInvInit == GatewayInit => GatewayInv
BY DEF GatewayInit, Init, GatewayInv, Stages, Sources, Steps

(* A step inside update changes the program counter of its own handler.    *)
LEMMA UpdateMoves ==
  ASSUME GatewayInv, NEW h \in Handlers, Update(h)
  PROVE  /\ pc[h] # "idle"
         /\ \E step \in Steps : pc' = [pc EXCEPT ![h] = step]
<1>1. CASE Lock(h) \/ DropSample(h) \/ StoreFlag(h) \/ Unlock(h)
  BY <1>1 DEF GatewayInv, Lock, Enter, DropSample, StoreFlag, Store, Unlock, Finish, Steps
<1>2. CASE Advance(h)
  BY <1>2 DEF Advance, Steps
<1>3. CASE Panic(h)
  BY <1>3 DEF Panic, Finish, Steps
<1> QED
  BY <1>1, <1>2, <1>3 DEF Update, Critical, StayClosed, Trip, KeepCooling, CooldownToClosed,
     CooldownToOpen, StayOpen, OpenToClosed

(* A handler that is through leaves the others where they are. *)
LEMMA DoneKeepsInv ==
  ASSUME GatewayInv, NEW h \in Handlers, Done(h), pc' \in [Handlers -> Steps], pc'[h] = "idle",
         \A g \in Handlers : g # h => pc'[g] = pc[g]
  PROVE  GatewayInv'
<1>1. /\ stage' \in [Handlers -> Stages] /\ kind' \in [Handlers -> Kinds \cup {"none"}]
      /\ challenged' \in [Handlers -> BOOLEAN] /\ source' \in [Handlers -> Sources]
  BY DEF GatewayInv, Done, Stages, Sources
<1>2. stage'[h] = "free"
  BY DEF GatewayInv, Done
<1>3. ASSUME NEW g \in Handlers, g # h
      PROVE  /\ stage'[g] = stage[g] /\ kind'[g] = kind[g]
             /\ challenged'[g] = challenged[g] /\ source'[g] = source[g]
  BY <1>3 DEF GatewayInv, Done
<1>4. ASSUME NEW g \in Handlers
      PROVE  /\ pc'[g] # "idle" <=> stage'[g] = "feeding"
             /\ stage'[g] # "free" => kind'[g] \in Kinds
             /\ stage'[g] = "upstream" => kind'[g] \notin {"own", "submit"}
             /\ stage'[g] = "body" => kind'[g] \in {"own", "submit"}
             /\ stage'[g] = "answered" =>
                  ((~challenged'[g] /\ kind'[g] \notin {"own", "submit"})
                     <=> source'[g] = "upstream")
  <2>1. CASE g = h
    BY <1>2, <2>1
  <2>2. CASE g # h
    BY <1>3, <2>2 DEF GatewayInv, HeavyPath, Proxied
  <2> QED
    BY <2>1, <2>2
<1> QED
  BY <1>1, <1>4 DEF GatewayInv, HeavyPath, Proxied

LEMMA GatewayInvStep ==
  ASSUME GatewayInv, [GatewayNext]_allVars
  PROVE  GatewayInv'
<1> USE GatewayAssumption DEF GatewayAssumption, GatewayInv, Stages, Sources, HeavyPath, Proxied
<1>1. ASSUME NEW h \in Handlers, NEW k \in Kinds, Arrive(h, k)
      PROVE  GatewayInv'
  BY <1>1 DEF Arrive, vars, handlerVars
<1>2. ASSUME NEW h \in Handlers, ReturnUnreported(h) \/ ClientGone(h)
      PROVE  GatewayInv'
  <2>1. Done(h) /\ pc' = pc /\ pc[h] = "idle"
    BY <1>2 DEF ReturnUnreported, ClientGone, vars, handlerVars
  <2> QED
    BY <2>1, DoneKeepsInv
<1>3. ASSUME NEW h \in Handlers, ProxyUpstream(h) \/ ReadBody(h)
      PROVE  GatewayInv'
  BY <1>3 DEF ProxyUpstream, ReadBody, Await, vars, handlerVars
<1>4. ASSUME NEW h \in Handlers,
             ServeHeavy(h) \/ BodyArrives(h) \/ ServeChallenge(h) \/ UpstreamAnswers(h)
      PROVE  GatewayInv'
  <2> USE DEF Respond, vars, handlerVars
  <2>1. CASE ServeHeavy(h)
    BY <2>1 DEF ServeHeavy
  <2>4. CASE BodyArrives(h)
    BY <2>4 DEF BodyArrives
  <2>2. CASE ServeChallenge(h)
    BY <2>2 DEF ServeChallenge
  <2>3. CASE UpstreamAnswers(h)
    BY <2>3 DEF UpstreamAnswers
  <2> QED
    BY <1>4, <2>1, <2>2, <2>3, <2>4
<1>5. ASSUME NEW h \in Handlers, NEW s \in Samples, Report(h, s)
      PROVE  GatewayInv'
  BY <1>5 DEF Report, Measure, Steps
<1>6. ASSUME NEW h \in Handlers, Feed(h)
      PROVE  GatewayInv'
  <2>1. PICK step \in Steps : pc' = [pc EXCEPT ![h] = step]
    BY <1>6, UpdateMoves DEF Feed
  <2>2. CASE pc'[h] = "idle"
    <3>1. Done(h) /\ pc' \in [Handlers -> Steps] /\ \A g \in Handlers : g # h => pc'[g] = pc[g]
      BY <1>6, <2>1, <2>2 DEF Feed
    <3> QED
      BY <2>2, <3>1, DoneKeepsInv
  <2>3. CASE pc'[h] # "idle"
    BY <1>6, <2>1, <2>3 DEF Feed, gatewayVars
  <2> QED
    BY <2>2, <2>3
<1>7. CASE GatewayTick \/ GatewayLoadSubsides
  BY <1>7 DEF GatewayTick, GatewayLoadSubsides, Tick, LoadSubsides, handlerVars, gatewayVars
<1>8. CASE UNCHANGED allVars
  BY <1>8 DEF allVars, vars, handlerVars, gatewayVars
<1> QED
  BY <1>1, <1>2, <1>3, <1>4, <1>5, <1>6, <1>7, <1>8 DEF GatewayNext, Handle

(* The path and RouteResponse.challenged tell the responses of the         *)
(* upstream from all others, whatever the breaker did since they were      *)
(* routed: those, and no others, are reported to it.                       *)
THEOREM OnlyProxiedReachBreaker == GatewaySpec => OnlyProxiedFeeds
<1>1. GatewayInit => GatewayInv
  BY GatewayInvInit
<1>2. GatewayInv /\ [GatewayNext]_allVars => GatewayInv'
  BY GatewayInvStep
<1>3. ASSUME GatewayInv, GatewayNext,
             NEW g \in Handlers, stage[g] = "answered", stage'[g] # "answered"
      PROVE  pc'[g] # "idle" <=> source[g] = "upstream"
  <2> USE <1>3 DEF GatewayInv, Stages
  <2>1. CASE \E s \in Samples : Report(g, s)
    BY <2>1 DEF Report, Measure, Steps
  <2>2. CASE ReturnUnreported(g)
    BY <2>2 DEF ReturnUnreported, vars, handlerVars
  <2>3. ASSUME NEW h \in Handlers,
               \/ Handle(h) \/ BodyArrives(h) \/ ClientGone(h)
               \/ \E k \in Kinds : Arrive(h, k)
        PROVE  h = g
    <3> USE <2>3 DEF Respond, Await, Done
    <3>1. CASE Handle(h)
      BY <3>1 DEF Handle, ServeHeavy, ReadBody, ServeChallenge, ProxyUpstream, UpstreamAnswers,
                  Report, ReturnUnreported, Feed, gatewayVars
    <3>2. CASE BodyArrives(h) \/ ClientGone(h) \/ \E k \in Kinds : Arrive(h, k)
      BY <3>2 DEF BodyArrives, ClientGone, Arrive
    <3> QED
      BY <3>1, <3>2
  <2>4. ~GatewayTick /\ ~GatewayLoadSubsides
    BY DEF GatewayTick, GatewayLoadSubsides, gatewayVars
  <2>5. \/ Handle(g) \/ BodyArrives(g) \/ ClientGone(g)
        \/ \E k \in Kinds : Arrive(g, k)
    BY <2>3, <2>4 DEF GatewayNext
  <2>6. (\E s \in Samples : Report(g, s)) \/ ReturnUnreported(g)
    BY <2>5 DEF Handle, BodyArrives, ClientGone, Arrive, ServeHeavy, ReadBody, ServeChallenge,
                ProxyUpstream, UpstreamAnswers, Feed
  <2> QED
    BY <2>1, <2>2, <2>6
<1>4. GatewayInv /\ [GatewayNext]_allVars =>
        [\A h \in Handlers : (stage[h] = "answered" /\ stage'[h] # "answered") =>
           (pc'[h] # "idle" <=> source[h] = "upstream")]_allVars
  BY <1>3
<1> QED
  BY <1>1, <1>2, <1>4, PTL DEF GatewaySpec, OnlyProxiedFeeds

(* Every variable of the composition keeps its type. *)
THEOREM GatewayTypeCorrect == GatewaySpec => []GatewayTypeOK
<1>1. GatewayInit => GatewayInv
  BY GatewayInvInit
<1>2. GatewayInv /\ [GatewayNext]_allVars => GatewayInv'
  BY GatewayInvStep
<1>3. GatewayInv /\ TypeOK => GatewayTypeOK
  BY DEF GatewayInv, GatewayTypeOK
<1>4. GatewaySpec => []TypeOK
  BY GatewayKeepsBreaker, TypeCorrect, PTL
<1> QED
  BY <1>1, <1>2, <1>3, <1>4, PTL DEF GatewaySpec

(* Without requests that are never challenged, a tripped breaker is fed by *)
(* the requests under way only: with the last of them it is tripped for    *)
(* good, at any load, after any time, and with any requests coming in.     *)
THEOREM StarvationIsFinal == ASSUME "exempt" \notin Kinds PROVE GatewaySpec => StarvedForGood
<1>1. GatewayInit => GatewayInv
  BY GatewayInvInit
<1>2. GatewayInv /\ [GatewayNext]_allVars => GatewayInv'
  BY GatewayInvStep
<1>3. ASSUME GatewayInv, [GatewayNext]_allVars, Starved
      PROVE  Starved' /\ UNCHANGED <<breakerVars, tripped>>
  <2> USE <1>3 DEF GatewayInv, Starved, Stages
  <2>1. ASSUME NEW h \in Handlers, NEW k \in Kinds, Arrive(h, k)
        PROVE  Starved' /\ UNCHANGED <<breakerVars, tripped>>
    BY <2>1 DEF Arrive, vars, flagVars
  <2>2. ASSUME NEW h \in Handlers,
               ServeHeavy(h) \/ ReadBody(h) \/ ServeChallenge(h) \/ BodyArrives(h)
        PROVE  Starved' /\ UNCHANGED <<breakerVars, tripped>>
    BY <2>2 DEF ServeHeavy, ReadBody, ServeChallenge, BodyArrives, Respond, Await, vars, flagVars
  <2>3. ASSUME NEW h \in Handlers, ReturnUnreported(h) \/ ClientGone(h)
        PROVE  Starved' /\ UNCHANGED <<breakerVars, tripped>>
    BY <2>3 DEF ReturnUnreported, ClientGone, Done, vars, flagVars
  <2>4. ASSUME NEW h \in Handlers
        PROVE  /\ ~ProxyUpstream(h) /\ ~UpstreamAnswers(h) /\ ~Feed(h)
               /\ \A s \in Samples : ~Report(h, s)
    BY GatewayAssumption DEF GatewayAssumption, ProxyUpstream, HeavyPath, Challenged, Feed,
                             UpstreamAnswers, Report
  <2>5. CASE GatewayTick \/ GatewayLoadSubsides \/ UNCHANGED allVars
    BY <2>5 DEF GatewayTick, GatewayLoadSubsides, Tick, LoadSubsides, gatewayVars, allVars, vars,
                flagVars
  <2> QED
    BY <2>1, <2>2, <2>3, <2>4, <2>5 DEF GatewayNext, Handle
<1>4. GatewayInv /\ [GatewayNext]_allVars
        => [Starved => Starved' /\ UNCHANGED <<breakerVars, tripped>>]_allVars
  BY <1>3
<1> QED
  BY <1>1, <1>2, <1>4, PTL DEF GatewaySpec, StarvedForGood
=============================================================================
