------------------------------- MODULE Gateway -------------------------------
(***************************************************************************)
(* The request path of src/src/main.rs around the circuit breaker:         *)
(* handle_request, route_request, serve_heavy, verify_and_issue_token and  *)
(* proxy_upstream.                                                         *)
(*                                                                         *)
(* A handler reads the breaker's flag once, when it routes its request.    *)
(* Two awaits follow a request of one kind or another: the upstream        *)
(* answers any time later, and the body of a submission arrives any time   *)
(* later or never.  Once there is a response, handle_request decides from  *)
(* the path and from RouteResponse.challenged whether to report a latency  *)
(* to the breaker (the steps of CircuitBreaker).  Meanwhile other handlers *)
(* trip and reset it.                                                      *)
(*                                                                         *)
(* What decides about a request is its kind: "own" for the /__heavy/ paths *)
(* that are answered at once, "submit" for POST /__heavy/submit, "exempt"  *)
(* for a whitelisted request, a sub-resource or a valid token, "plain" for *)
(* every other request.                                                    *)
(***************************************************************************)
EXTENDS CircuitBreaker

CONSTANTS
  Kinds,         (* the kinds of requests that arrive                      *)
  ChallengeAll   (* config.challenge_all                                   *)

ASSUME GatewayAssumption ==
  /\ Kinds \subseteq {"own", "submit", "exempt", "plain"}
  /\ ChallengeAll \in BOOLEAN

VARIABLES
  stage,         (* where each handler is on the request path              *)
  kind,          (* the kind of the request it handles                     *)
  challenged,    (* RouteResponse.challenged, once there is a response     *)
  source         (* history: who gave the response                         *)

gatewayVars == <<stage, kind, challenged, source>>
allVars == <<vars, gatewayVars>>

(* "free": no request; "arrived": not routed yet; "body": waiting for the  *)
(* body of a submission; "upstream": proxied and waiting for the upstream; *)
(* "answered": route_request has returned; "feeding": inside               *)
(* CircuitBreaker::update.                                                 *)
Stages == {"free", "arrived", "body", "upstream", "answered", "feeding"}
Sources == {"nobody", "heavy", "challenge", "upstream"}

GatewayInit ==
  /\ Init
  /\ stage = [h \in Handlers |-> "free"]
  /\ kind = [h \in Handlers |-> "none"]
  /\ challenged = [h \in Handlers |-> FALSE]
  /\ source = [h \in Handlers |-> "nobody"]

Arrive(h, k) ==
  /\ stage[h] = "free"
  /\ stage' = [stage EXCEPT ![h] = "arrived"]
  /\ kind' = [kind EXCEPT ![h] = k]
  /\ UNCHANGED <<vars, challenged, source>>

(* The handler is gone, with its response or without. *)
Done(h) ==
  /\ stage' = [stage EXCEPT ![h] = "free"]
  /\ kind' = [kind EXCEPT ![h] = "none"]
  /\ challenged' = [challenged EXCEPT ![h] = FALSE]
  /\ source' = [source EXCEPT ![h] = "nobody"]

(* route_request returns the response that `by` gave. *)
Respond(h, by, isChallenge) ==
  /\ stage' = [stage EXCEPT ![h] = "answered"]
  /\ challenged' = [challenged EXCEPT ![h] = isChallenge]
  /\ source' = [source EXCEPT ![h] = by]
  /\ UNCHANGED <<vars, kind>>

Await(h, where) ==
  /\ stage' = [stage EXCEPT ![h] = where]
  /\ UNCHANGED <<vars, kind, challenged, source>>

(* req.uri().path().starts_with("/__heavy/") *)
HeavyPath(h) == kind[h] \in {"own", "submit"}

(* Mutant: sub-resources, tokens and the whitelist are not looked at. *)
ChallengedAlways(h) == ~HeavyPath(h) /\ (ChallengeAll \/ tripped)

(* Mutant: the decision only looks at challenge_all. *)
ChallengedNever(h) == kind[h] = "plain" /\ ChallengeAll

(* challenges_on and nothing exempts the request. *)
Challenged(h) == kind[h] = "plain" /\ (ChallengeAll \/ tripped)

(* A request that Heavy answers itself, without waiting for anything. *)
ServeHeavy(h) ==
  /\ stage[h] = "arrived"
  /\ kind[h] = "own"
  /\ Respond(h, "heavy", FALSE)

(* verify_and_issue_token collects the body of a submission. *)
ReadBody(h) ==
  /\ stage[h] = "arrived"
  /\ kind[h] = "submit"
  /\ Await(h, "body")

(* The body is there, or reading it failed: a token or a 400. *)
BodyArrives(h) ==
  /\ stage[h] = "body"
  /\ Respond(h, "heavy", FALSE)

ServeChallenge(h) ==
  /\ stage[h] = "arrived"
  /\ Challenged(h)
  /\ Respond(h, "challenge", TRUE)

ProxyUpstream(h) ==
  /\ stage[h] = "arrived"
  /\ ~HeavyPath(h)
  /\ ~Challenged(h)
  /\ Await(h, "upstream")

(* The upstream answers, or fails and the response is a 502. *)
UpstreamAnswers(h) ==
  /\ stage[h] = "upstream"
  /\ Respond(h, "upstream", FALSE)

(* The client disconnects while its handler waits for the upstream or for  *)
(* the body: the server drops the handler, which reports nothing.          *)
ClientGone(h) ==
  /\ stage[h] \in {"body", "upstream"}
  /\ Done(h)
  /\ UNCHANGED vars

(* Mutant: only the path is looked at, so that challenges are reported.    *)
ProxiedByPath(h) == ~HeavyPath(h)

(* !routed.challenged && !path.starts_with("/__heavy/") *)
Proxied(h) == ~challenged[h] /\ ~HeavyPath(h)

(* The response took s, and handle_request enters update. *)
Report(h, s) ==
  /\ stage[h] = "answered"
  /\ Proxied(h)
  /\ Measure(h, s)
  /\ stage' = [stage EXCEPT ![h] = "feeding"]
  /\ UNCHANGED <<kind, challenged, source>>

(* handle_request returns the response without telling the breaker. *)
ReturnUnreported(h) ==
  /\ stage[h] = "answered"
  /\ ~Proxied(h)
  /\ Done(h)
  /\ UNCHANGED vars

(* A step inside update; with its last one the response is returned.  A    *)
(* panic ends the task instead, and the connection with it.                *)
Feed(h) ==
  /\ stage[h] = "feeding"
  /\ Update(h)
  /\ IF pc'[h] = "idle" THEN Done(h) ELSE UNCHANGED gatewayVars

GatewayTick == Tick /\ UNCHANGED gatewayVars

GatewayLoadSubsides == LoadSubsides /\ UNCHANGED gatewayVars

(* What a handler does without depending on its client. *)
Handle(h) ==
  \/ ServeHeavy(h)
  \/ ReadBody(h)
  \/ ServeChallenge(h)
  \/ ProxyUpstream(h)
  \/ UpstreamAnswers(h)
  \/ \E s \in Samples : Report(h, s)
  \/ ReturnUnreported(h)
  \/ Feed(h)

GatewayNext ==
  \/ \E h \in Handlers : \E k \in Kinds : Arrive(h, k)
  \/ \E h \in Handlers : Handle(h) \/ BodyArrives(h) \/ ClientGone(h)
  \/ GatewayTick
  \/ GatewayLoadSubsides

GatewaySpec == GatewayInit /\ [][GatewayNext]_allVars

(* The runtime schedules every task, the upstream answers every request,   *)
(* requests keep arriving, and the average converges as in CircuitBreaker. *)
(* Which kinds of requests arrive is up to the clients, and nothing makes  *)
(* them send the body they announced or wait for an answer.                *)
GatewayFairness ==
  /\ WF_allVars(GatewayTick)
  /\ \A h \in Handlers :
       /\ WF_allVars(Handle(h))
       /\ WF_allVars(\E k \in Kinds : Arrive(h, k))
       /\ SF_allVars(Feed(h) /\ latency' < latency)

GatewayFairSpec == GatewaySpec /\ GatewayFairness

-----------------------------------------------------------------------------
(* Properties. *)

GatewayTypeOK ==
  /\ TypeOK
  /\ stage \in [Handlers -> Stages]
  /\ kind \in [Handlers -> Kinds \cup {"none"}]
  /\ challenged \in [Handlers -> BOOLEAN]
  /\ source \in [Handlers -> Sources]

(* The breaker hears of a response exactly if the upstream gave it: not of *)
(* a challenge, not of an answer of Heavy's own, and of every proxied one, *)
(* although handle_request judges by the path and by what route_request    *)
(* returned, and the breaker may have tripped or reset since it routed.    *)
OnlyProxiedFeeds ==
  [][\A h \in Handlers : (stage[h] = "answered" /\ stage'[h] # "answered") =>
       (pc'[h] # "idle" <=> source[h] = "upstream")]_allVars

(* Every request is answered, or its handler waits for the body of a       *)
(* submission: the only thing that keeps a handler for ever is a client    *)
(* that stalls there, since neither a busy nor a poisoned mutex does.      *)
EveryRequestEnds ==
  \A h \in Handlers : stage[h] # "free" ~> stage[h] \in {"free", "body"}

(* As long as requests that are never challenged keep arriving, and their  *)
(* clients wait for the answers from some time on, a tripped breaker is    *)
(* reset after the load is gone.                                           *)
Fed(h) ==
  /\ []<><<Arrive(h, "exempt")>>_allVars
  /\ <>[][~ClientGone(h)]_allVars

ResetsWhenFed == (\E h \in Handlers : Fed(h)) => ResetsWhenCalm

(* While the breaker stays open, the plain requests that were let through  *)
(* before it tripped leave the upstream and no others follow.              *)
PlainUpstream == \E h \in Handlers : stage[h] = "upstream" /\ kind[h] = "plain"

OpenSheds == (<>[]tripped) => <>[]~PlainUpstream

(* "When the impolite scraper gives up and goes away, Heavy starts         *)
(* transparently proxying traffic again": the load is gone, the clock has  *)
(* room for the longest delay, requests keep arriving, and at some point   *)
(* one of them is proxied for any reason at all.                           *)
ProxiesAgain ==
  (calm /\ tripped /\ clock + MaxOpen <= MaxTime) ~>
    (~tripped \/ \E h \in Handlers : stage[h] = "upstream")

(* Why it does not: a tripped breaker that nobody is about to feed stays   *)
(* as it is, when no request comes that is proxied all the same.           *)
Starved ==
  /\ tripped
  /\ \A h \in Handlers :
       /\ stage[h] \notin {"upstream", "feeding"}
       /\ stage[h] = "answered" => source[h] # "upstream"

StarvedForGood == [][Starved => Starved' /\ UNCHANGED <<breakerVars, tripped>>]_allVars
=============================================================================
