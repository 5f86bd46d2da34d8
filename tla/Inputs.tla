-------------------------------- MODULE Inputs --------------------------------
(***************************************************************************)
(* Request on inputs that grow by one element at a time, one topic per     *)
(* behaviour: a request and its way through reverse proxies, a request and *)
(* the settings that decide about it, the headers of a message.  What the  *)
(* sender and the administrator meant is kept beside what they wrote down. *)
(* A search for a proof of work is one more topic (ProofOfWork).           *)
(***************************************************************************)
EXTENDS ProofOfWork, Request

CONSTANTS
  Addresses,     (* of clients and proxies                                 *)
  Paths,         (* of requests                                            *)
  Settings,      (* challenge_all in the environment and in the file, and  *)
                 (* the breaker's flag                                     *)
  Rules,         (* whitelist rules, and the paths and addresses each is   *)
                 (* meant to exempt                                        *)
  Names,         (* of headers without a meaning of their own              *)
  MaxSteps       (* bound: elements of an input                            *)

ListNames == {"x-real-ip", "x-forwarded-for", "forwarded", "cookie", "sec-fetch-mode",
              "connection"}

HeaderNames == ListNames \cup Names

Param(key, form, node) == [key |-> key, form |-> form, node |-> node]

Params == {Param(key, form, node) : key \in {"by", "for", None}, form \in {"bare", "port"},
                                    node \in Addresses \cup {None}}

Pairs == [name : {"_heavy-token", "session"}, value : {"valid", "expired"}]

(* A rule and its meaning: the paths it names, the addresses of its family *)
(* that agree with it in every bit it has, or nothing.                     *)
MeansPaths(r) == r.rule.kind = "paths" /\ r.paths = r.rule.paths /\ r.ips = {}

MeansNet(r) ==
  /\ r.rule.kind = "net"
  /\ r.rule.bits \in Seq({0, 1})
  /\ r.paths = {}
  /\ r.ips = {a \in Addresses : /\ a.family = r.rule.family
                                /\ Len(r.rule.bits) <= Len(a.bits)
                                /\ \A i \in 1 .. Len(r.rule.bits) : a.bits[i] = r.rule.bits[i]}

MeansNothing(r) == r.rule.kind = "invalid" /\ r.paths = {} /\ r.ips = {}

ASSUME InputsAssumption ==
  /\ {} \notin {Addresses, Settings}
  /\ Addresses \subseteq [family : {4, 6}, bits : Seq({0, 1})]
  /\ None \notin Addresses
  /\ None \notin Seq(Addresses \cup {None})
  /\ None \notin Seq(Params)
  /\ None \notin Seq(Pairs)
  /\ Settings \subseteq (BOOLEAN \cup {None, Invalid}) \X (BOOLEAN \cup {None}) \X BOOLEAN
  /\ \A r \in Rules : MeansPaths(r) \/ MeansNet(r) \/ MeansNothing(r)
  /\ Names \cap ListNames = {}
  /\ None \notin Seq(Names)
  /\ MaxSteps \in Nat

VARIABLES
  topic,
  headers,       (* the headers as they arrive                             *)
  peer,          (* who connects to Heavy                                  *)
  path,
  site,          (* the settings, and the breaker's flag                   *)
  meant,         (* history: what the elements stand for                   *)
  steps

inputs == <<topic, headers, peer, path, site, meant, steps>>

Site(s) == [env |-> s[1], file |-> s[2], tripped |-> s[3],
            whitelist |-> [rules |-> {}, includes |-> << >>]]

Meaning(client) == [client |-> client, sent |-> {}, hops |-> << >>, exempt |-> FALSE,
                    fault |-> FALSE, tokens |-> {}, skip |-> {}]

(* What does not matter for a topic does not vary. *)
AnyOf(S) == {CHOOSE x \in S : TRUE}

InputsInit ==
  /\ Init
  /\ topic \in {"work", "source", "route", "headers"}
  /\ topic # "work" => /\ keystream \in AnyOf([0 .. BlockWords * Words32 - 1 -> Zeros])
                       /\ difficulty \in AnyOf(Difficulties)
  /\ headers = [name \in HeaderNames |-> << >>]
  /\ peer \in IF topic \in {"source", "route"} THEN Addresses ELSE AnyOf(Addresses)
  /\ path \in IF topic = "route" THEN Paths ELSE AnyOf(Paths)
  /\ \E s \in IF topic = "route" THEN Settings ELSE AnyOf(Settings) : site = Site(s)
  /\ meant = Meaning(peer)
  /\ steps = 0

Grows(t) ==
  /\ topic = t
  /\ steps < MaxSteps
  /\ steps' = steps + 1
  /\ UNCHANGED <<work, topic, path>>

Put(name, value) == headers' = [headers EXCEPT ![name] = Append(@, value)]

(* A list header gets more elements, in a line of their own or at the end  *)
(* of its last line, if that is readable.                                  *)
Longer(lines, list) ==
  {Append(lines, list)} \cup
  {[lines EXCEPT ![i] = @ \o list] : i \in {i \in DOMAIN lines : i = Len(lines) /\ lines[i] # None}}

Extend(name, list) ==
  \E lines \in Longer(headers[name], list) : headers' = [headers EXCEPT ![name] = lines]

-----------------------------------------------------------------------------
(* The client may send what only proxies should, forged or of no use.      *)

ProxyNames == {"x-real-ip", "x-forwarded-for", "forwarded"}

ClientSends ==
  \E name \in ProxyNames, node \in Addresses \cup {None} :
    /\ Grows("source")
    /\ meant.hops = << >>
    /\ \/ name = "x-real-ip" /\ Put(name, node)
       \/ name = "x-forwarded-for" /\ Extend(name, <<node>>)
       \/ /\ name = "forwarded"
          /\ \E key \in {"for", None} : Extend(name, <<Param(key, "bare", node)>>)
    /\ meant' = [meant EXCEPT !.sent = @ \cup {name}]
    /\ UNCHANGED <<peer, site>>

(* Reverse proxies: each connects to the next and says who its peer is, in *)
(* the header it is configured for.  X-Real-IP is overwritten, the lists   *)
(* are appended to.                                                        *)

Hop(convention) ==
  /\ Grows("source")
  /\ peer' \in Addresses
  /\ meant' = [meant EXCEPT !.hops = Append(@, convention)]
  /\ UNCHANGED site

HopRealIp ==
  /\ Hop("x-real-ip")
  /\ headers' = [headers EXCEPT !["x-real-ip"] = <<peer>>]

HopForwardedFor ==
  /\ Hop("x-forwarded-for")
  /\ Extend("x-forwarded-for", <<peer>>)

HopForwarded ==
  \E form \in {"bare", "port"}, node \in {peer, None}, by \in BOOLEAN :
    /\ Hop(IF node = None THEN "hidden" ELSE "forwarded")
    /\ Extend("forwarded",
              IF by
              THEN <<Param("by", "bare", None), Param("for", form, node)>>
              ELSE <<Param("for", form, node)>>)

-----------------------------------------------------------------------------
(* What decides about a challenge. *)

AddCookie ==
  \E pair \in Pairs :
    /\ Grows("route")
    /\ Extend("cookie", <<pair>>)
    /\ meant' = [meant EXCEPT !.tokens =
                   IF pair.name = "session" THEN @ ELSE @ \cup {pair.value}]
    /\ UNCHANGED <<peer, site>>

AddUnreadable ==
  \E t \in {"route", "headers"} :
    /\ Grows(t)
    /\ Put(IF t = "route" THEN "cookie" ELSE "connection", None)
    /\ UNCHANGED <<peer, site, meant>>

AddMode ==
  \E mode \in {"navigate", "no-cors", None} :
    /\ Grows("route")
    /\ Put("sec-fetch-mode", mode)
    /\ UNCHANGED <<peer, site, meant>>

(* A rule goes into the main file or a file of its own, which may name     *)
(* files itself, and may be one that does not parse.                       *)
AddRule ==
  \E r \in Rules, nested \in BOOLEAN :
    /\ Grows("route")
    /\ \/ /\ ~nested
          /\ site' = [site EXCEPT !.whitelist.rules = @ \cup {r.rule}]
       \/ site' = [site EXCEPT !.whitelist.includes =
                     Append(@, [rules |-> {r.rule}, nested |-> nested])]
    /\ meant' = [meant EXCEPT !.exempt = @ \/ path \in r.paths \/ peer \in r.ips,
                               !.fault = @ \/ nested \/ r.rule.kind = "invalid"]
    /\ UNCHANGED <<headers, peer>>

-----------------------------------------------------------------------------
(* The headers of a message. *)

AddField ==
  \E name \in Names :
    /\ Grows("headers")
    /\ Put(name, steps)
    /\ UNCHANGED <<peer, site, meant>>

Nominate ==
  \E name \in Names :
    /\ Grows("headers")
    /\ Extend("connection", <<name>>)
    /\ meant' = [meant EXCEPT !.skip = @ \cup {name}]
    /\ UNCHANGED <<peer, site>>

InputsNext ==
  \/ topic = "work" /\ Scan /\ UNCHANGED inputs
  \/ ClientSends \/ HopRealIp \/ HopForwardedFor \/ HopForwarded
  \/ AddCookie \/ AddUnreadable \/ AddMode \/ AddRule
  \/ AddField \/ Nominate

InputsSpec == InputsInit /\ [][InputsNext]_<<work, inputs>>

-----------------------------------------------------------------------------
(* Properties. *)

(* Behind any chain of proxies the address Heavy works with is the         *)
(* client's own, if the first proxy tells it, no later one uses a header   *)
(* that client_ip looks at before, or X-Real-IP a second time, and what    *)
(* the client sent of these headers is overwritten or one that client_ip   *)
(* looks at after.  Without a proxy it must send none.  What else a client *)
(* sends can name another one, as main.rs:445-447 warns.                   *)
Rank == [h \in {"x-real-ip", "x-forwarded-for", "forwarded", "hidden"} |->
           CASE h = "x-real-ip" -> 1 [] h = "x-forwarded-for" -> 2 [] OTHER -> 3]

Harmless(name, first) ==
  \/ Rank[name] > Rank[first]
  \/ name = "x-real-ip" /\ first = "x-real-ip"

Told ==
  LET hops == meant.hops
  IN  IF hops = << >> THEN meant.sent = {}
      ELSE /\ hops[1] # "hidden"
           /\ \A name \in meant.sent : Harmless(name, hops[1])
           /\ \A i \in 2 .. Len(hops) : hops[i] # "x-real-ip" /\ Rank[hops[i]] >= Rank[hops[1]]

SourceFound == (topic = "source" /\ Told) => ClientIp(headers, peer) = meant.client

(* A request is answered with a challenge exactly when challenges are on   *)
(* and none of the ways out applies: Heavy's own path, a rule of the main  *)
(* file or any included one, a sub-resource, a valid token among all the   *)
(* cookies sent in all Cookie headers.  Settings that make no sense keep   *)
(* Heavy from starting.                                                    *)
Senseless == site.env = Invalid \/ meant.fault

ChallengesOn ==
  \/ site.env = TRUE
  \/ site.env = None /\ site.file = TRUE
  \/ site.tripped

Bypasses ==
  \/ meant.exempt
  \/ "valid" \in meant.tokens
  \/ headers["sec-fetch-mode"] # << >> /\ headers["sec-fetch-mode"][1] = "no-cors"

ChallengeIsDue ==
  topic = "route" =>
    LET answer == Route(site, site.tripped, path, headers, peer)
    IN  /\ answer = "down" <=> Senseless
        /\ answer = "heavy" <=> ~Senseless /\ path = "/__heavy/"
        /\ answer = "challenge" <=>
             ~Senseless /\ path # "/__heavy/" /\ ChallengesOn /\ ~Bypasses

(* Every header a message came with goes on, as often and in the order it  *)
(* came, unless it is about one connection: by its name (one of those that *)
(* filters_all_hop_by_hop_headers expects to be gone, main.rs:564-573), or *)
(* because any readable Connection header says so.                         *)
OneConnection == {"connection", "keep-alive", "transfer-encoding", "upgrade", "te", "trailer",
                  "proxy-authenticate", "proxy-authorization"}

HeadersKept ==
  topic = "headers" =>
    \A name \in HeaderNames :
      FilterHeaders(headers)[name] =
        (IF name \in OneConnection \cup meant.skip THEN << >> ELSE headers[name])

-----------------------------------------------------------------------------
(* The inductive invariant.                                                *)

ValuesOf(name) ==
  CASE name = "x-real-ip" -> Addresses \cup {None}
    [] name = "x-forwarded-for" -> Seq(Addresses \cup {None}) \cup {None}
    [] name = "forwarded" -> Seq(Params) \cup {None}
    [] name = "cookie" -> Seq(Pairs) \cup {None}
    [] name = "sec-fetch-mode" -> {"navigate", "no-cors", None}
    [] name = "connection" -> Seq(Names) \cup {None}
    [] OTHER -> Nat

HeadersTypeOK ==
  /\ DOMAIN headers = HeaderNames
  /\ \A name \in HeaderNames : headers[name] \in Seq(ValuesOf(name))

RuleSets == SUBSET {r.rule : r \in Rules}

SiteTypeOK ==
  site \in [env : BOOLEAN \cup {None, Invalid}, file : BOOLEAN \cup {None}, tripped : BOOLEAN,
            whitelist : [rules : RuleSets, includes : Seq([rules : RuleSets, nested : BOOLEAN])]]

MeantTypeOK ==
  meant \in [client : Addresses, sent : SUBSET ProxyNames, hops : Seq(DOMAIN Rank),
             exempt : BOOLEAN, fault : BOOLEAN, tokens : SUBSET {"valid", "expired"},
             skip : SUBSET Names]

InputsTypeOK ==
  /\ topic \in {"work", "source", "route", "headers"}
  /\ HeadersTypeOK
  /\ SiteTypeOK
  /\ MeantTypeOK
  /\ peer \in Addresses
  /\ steps \in Nat

(* The first value of a list header is where the first proxy wrote, and    *)
(* what decides in it is what that proxy wrote.                            *)
FirstFor(params, node) ==
  \E k \in 1 .. Len(params) :
    /\ params[k].key = "for"
    /\ params[k].node = node
    /\ \A j \in 1 .. k - 1 : ~Decides(params[j])

NothingTold == \A name \in ProxyNames : headers[name] = << >>

FirstTold(convention, told, client) ==
  CASE convention = "x-real-ip" -> told["x-real-ip"] = <<client>>
    [] convention = "x-forwarded-for" ->
         /\ told["x-real-ip"] = << >>
         /\ told["x-forwarded-for"] # << >>
         /\ told["x-forwarded-for"][1] \notin {None, << >>}
         /\ told["x-forwarded-for"][1][1] = client
    [] convention = "forwarded" ->
         /\ told["x-real-ip"] = << >>
         /\ told["x-forwarded-for"] = << >>
         /\ told["forwarded"] # << >>
         /\ told["forwarded"][1] # None
         /\ FirstFor(told["forwarded"][1], client)
    [] OTHER -> FALSE

SourceInv ==
  topic = "source" =>
    /\ meant.hops = << >> =>
         /\ peer = meant.client
         /\ \A name \in ProxyNames \ meant.sent : headers[name] = << >>
    /\ (meant.hops # << >> /\ Told) => FirstTold(meant.hops[1], headers, meant.client)

(* What was meant by the cookies, the rules and the files is what they     *)
(* amount to for this request.                                             *)
RouteInv ==
  topic = "route" =>
    /\ NothingTold
    /\ "valid" \in meant.tokens <=> HasToken(headers)
    /\ meant.exempt <=> IsExempt(LoadWhitelist(site.whitelist), path, peer)
    /\ meant.fault <=> CannotLoad(site.whitelist)

HeadersInv == topic = "headers" => meant.skip = ConnectionSkip(headers)

InputsInv == InputsTypeOK /\ SourceInv /\ RouteInv /\ HeadersInv
=============================================================================
