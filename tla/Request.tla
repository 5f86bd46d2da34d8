------------------------------- MODULE Request --------------------------------
(***************************************************************************)
(* What Heavy reads out of one request: the address of its client, its     *)
(* cookies and its Sec-Fetch-Mode, the whitelist's say, and which of its   *)
(* headers go on to the upstream (src/src/main.rs, src/src/whitelist.rs,   *)
(* src/src/config.rs).                                                     *)
(*                                                                         *)
(* The headers are the header map: for each name its values in the order   *)
(* they came, none for a name that is not there.  A value is what          *)
(* splitting it gives: a sequence for a list, a record for a pair, None    *)
(* for what is no readable text or does not parse.  An address is          *)
(* [family, bits], a network the same with fewer bits.                     *)
(***************************************************************************)
EXTENDS Integers, Sequences, SequencesExt

CONSTANTS
  None,          (* an Option's None                                       *)
  Invalid        (* what load panics on                                    *)

ASSUME OptionAssumption ==
  /\ {None, Invalid} \cap BOOLEAN = {}
  /\ None # Invalid
  /\ None \notin {"for", "by", "navigate", "no-cors"}

(* Option::or. *)
OrElse(option, other) == IF option # None THEN option ELSE other

(* The first value with a name, as text. *)
Get(headers, name) == IF headers[name] = << >> THEN None ELSE headers[name][1]

(* What all readable values list, together. *)
Items(values) == UNION {Range(value) : value \in Range(values) \ {None}}

-----------------------------------------------------------------------------
(* The client's address. *)

(* Mutant: the last entry of the list. *)
Rightmost(list) == IF list = None THEN None ELSE list[Len(list)]

Leftmost(list) == IF list = None THEN None ELSE list[1]

(* A parameter of Forwarded has a key, or None without an equals sign; the *)
(* value of a for= is an address or None, and "bare" or in a form with     *)
(* brackets or a port.  A bare value that is no address is passed over,    *)
(* any other one decides.                                                  *)
Decides(param) ==
  \/ param.key = None
  \/ param.key = "for" /\ (param.form = "bare" => param.node # None)

ParseForwardedFor(params) ==
  LET deciding == {i \in DOMAIN params : Decides(params[i])}
      first == params[Min(deciding)]
  IN  IF params = None \/ deciding = {} \/ first.key = None THEN None ELSE first.node

ClientIp(headers, peer) ==
  OrElse(Get(headers, "x-real-ip"),
    OrElse(Leftmost(Get(headers, "x-forwarded-for")),
      OrElse(ParseForwardedFor(Get(headers, "forwarded")), peer)))

-----------------------------------------------------------------------------
(* The decision. *)

(* A setting: the environment, else the file, else the default. *)
Resolve(env, file, default) == OrElse(env, OrElse(file, default))

(* The rules of the main file and of the files it includes, which must not *)
(* include others.                                                         *)
NestedIncludes(main) == \E i \in DOMAIN main.includes : main.includes[i].nested

LoadWhitelist(main) ==
  main.rules \cup UNION {main.includes[i].rules : i \in DOMAIN main.includes}

(* load panics on a file too deep and on a rule that does not parse.       *)
CannotLoad(main) ==
  \/ NestedIncludes(main)
  \/ \E rule \in LoadWhitelist(main) : rule.kind = "invalid"

(* A path rule matches the paths of its pattern, a network the addresses   *)
(* of its family that start with its bits.                                 *)
Matches(rule, path, ip) ==
  \/ rule.kind = "paths" /\ path \in rule.paths
  \/ rule.kind = "net" /\ rule.family = ip.family /\ IsPrefix(rule.bits, ip.bits)

IsExempt(rules, path, ip) == \E rule \in rules : Matches(rule, path, ip)

IsSubresource(headers) == Get(headers, "sec-fetch-mode") \notin {None, "navigate"}

Named(pairs, name) == {pair.value : pair \in {p \in pairs : p.name = name}}

(* Mutant: only the first Cookie header. *)
CookieValuesOfFirst(headers, name) ==
  IF Get(headers, "cookie") = None THEN {} ELSE Named(Range(Get(headers, "cookie")), name)

(* The values of the pairs with the name, out of all Cookie headers. *)
CookieValues(headers, name) == Named(Items(headers["cookie"]), name)

(* A cookie's value is whether verify_token accepts it (see Authenticator). *)
HasToken(headers) == "valid" \in CookieValues(headers, "_heavy-token")

(* What route_request does with a request for `path`, in a process that    *)
(* was started with the settings of `site` and whose breaker is tripped or *)
(* not; "down" when load panicked.                                         *)
Route(site, tripped, path, headers, peer) ==
  LET challenge_all == Resolve(site.env, site.file, FALSE)
      due == /\ challenge_all \/ tripped
             /\ ~IsExempt(LoadWhitelist(site.whitelist), path, ClientIp(headers, peer))
             /\ ~IsSubresource(headers)
             /\ ~HasToken(headers)
  IN  IF challenge_all = Invalid \/ CannotLoad(site.whitelist) THEN "down"
      ELSE IF path = "/__heavy/" THEN "heavy"
      ELSE IF due THEN "challenge"
      ELSE "proxy"

-----------------------------------------------------------------------------
(* The headers that go on, to the upstream and back to the client. *)

HopByHop == {"connection", "proxy-authenticate", "proxy-authorization", "te", "trailer",
             "transfer-encoding", "upgrade", "keep-alive"}

(* Mutant: only the first Connection header. *)
ConnectionSkipOfFirst(headers) ==
  IF Get(headers, "connection") = None THEN {} ELSE Range(Get(headers, "connection"))

ConnectionSkip(headers) == Items(headers["connection"])

FilterHeaders(headers) ==
  [name \in DOMAIN headers |->
     IF name \in HopByHop \cup ConnectionSkip(headers) THEN << >> ELSE headers[name]]
=============================================================================
