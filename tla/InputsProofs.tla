----------------------------- MODULE InputsProofs -----------------------------
(***************************************************************************)
(* What Heavy reads out of a request is what was meant by it, for every    *)
(* set of addresses, paths, settings, rules and header names, and requests *)
(* of any length.                                                          *)
(***************************************************************************)
EXTENDS Inputs, ProofOfWorkProofs, NaturalsInduction

-----------------------------------------------------------------------------
(* Lists and their elements. *)

LEMMA RangeAppend ==
  ASSUME NEW S, NEW s \in Seq(S), NEW e
  PROVE  Range(Append(s, e)) = Range(s) \cup {e}
<1>1. \A x : x \in Range(Append(s, e)) <=> x \in Range(s) \/ x = e
  <2> SUFFICES ASSUME NEW x
               PROVE  x \in Range(Append(s, e)) <=> x \in Range(s) \/ x = e
    OBVIOUS
  <2>1. /\ Len(Append(s, e)) = Len(s) + 1
        /\ DOMAIN Append(s, e) = 1 .. Len(s) + 1
        /\ Append(s, e)[Len(s) + 1] = e
        /\ \A i \in 1 .. Len(s) : Append(s, e)[i] = s[i]
    OBVIOUS
  <2>2. DOMAIN s = 1 .. Len(s) /\ Len(s) \in Nat
    OBVIOUS
  <2>3. \A i \in 1 .. Len(s) + 1 : i \in 1 .. Len(s) \/ i = Len(s) + 1
    BY <2>2
  <2>4. Len(s) + 1 \in 1 .. Len(s) + 1 /\ \A i \in 1 .. Len(s) : i \in 1 .. Len(s) + 1
    BY <2>2
  <2> QED
    BY <2>1, <2>2, <2>3, <2>4 DEF Range
<1> QED
  BY <1>1

LEMMA RangeConcat ==
  ASSUME NEW S, NEW s \in Seq(S), NEW T, NEW t \in Seq(T)
  PROVE  Range(s \o t) = Range(s) \cup Range(t)
<1>1. /\ DOMAIN (s \o t) = 1 .. Len(s) + Len(t)
      /\ \A i \in 1 .. Len(s) : (s \o t)[i] = s[i]
      /\ \A i \in 1 .. Len(t) : (s \o t)[Len(s) + i] = t[i]
      /\ DOMAIN s = 1 .. Len(s) /\ DOMAIN t = 1 .. Len(t)
      /\ Len(s) \in Nat /\ Len(t) \in Nat
  OBVIOUS
<1>2. ASSUME NEW i \in 1 .. Len(s) + Len(t)
      PROVE  (s \o t)[i] \in Range(s) \cup Range(t)
  <2>1. CASE i <= Len(s)
    <3>1. i \in 1 .. Len(s)
      BY <1>1, <2>1
    <3> QED
      BY <1>1, <3>1 DEF Range
  <2>2. CASE ~(i <= Len(s))
    <3>1. i - Len(s) \in 1 .. Len(t) /\ i = Len(s) + (i - Len(s))
      BY <1>1, <2>2
    <3>2. (s \o t)[i] = t[i - Len(s)]
      BY <1>1, <3>1
    <3> QED
      BY <1>1, <3>1, <3>2 DEF Range
  <2> QED
    BY <2>1, <2>2
<1>3. ASSUME NEW i \in 1 .. Len(s)
      PROVE  s[i] \in Range(s \o t)
  <2>1. i \in 1 .. Len(s) + Len(t)
    BY <1>1
  <2> QED
    BY <1>1, <2>1 DEF Range
<1>4. ASSUME NEW i \in 1 .. Len(t)
      PROVE  t[i] \in Range(s \o t)
  <2>1. Len(s) + i \in 1 .. Len(s) + Len(t)
    BY <1>1
  <2> QED
    BY <1>1, <2>1 DEF Range
<1>5. Range(s \o t) \subseteq Range(s) \cup Range(t)
  BY <1>1, <1>2 DEF Range
<1>6. Range(s) \subseteq Range(s \o t) /\ Range(t) \subseteq Range(s \o t)
  BY <1>1, <1>3, <1>4 DEF Range
<1> QED
  BY <1>5, <1>6

LEMMA ItemsMember ==
  ASSUME NEW values, NEW x
  PROVE  x \in Items(values) <=>
           \E i \in DOMAIN values : values[i] # None /\ x \in Range(values[i])
BY DEF Items, Range

(* One more value lists what it lists, an unreadable one nothing.          *)
LEMMA ItemsAppend ==
  ASSUME NEW V, NEW values \in Seq(V), NEW value
  PROVE  Items(Append(values, value)) =
           Items(values) \cup (IF value = None THEN {} ELSE Range(value))
BY RangeAppend DEF Items

(* A list that got longer starts with the same value or a longer one, and  *)
(* lists what it did and the new elements.                                 *)
LEMMA LongerFacts ==
  ASSUME NEW S, NEW lines \in Seq(Seq(S) \cup {None}), NEW list \in Seq(S),
         None \notin Seq(S),
         NEW longer \in Longer(lines, list)
  PROVE  /\ longer \in Seq(Seq(S) \cup {None})
         /\ Items(longer) = Items(lines) \cup Range(list)
         /\ longer # << >>
         /\ lines = << >> => longer[1] = list
         /\ lines # << >> => \/ longer[1] = lines[1]
                             \/ lines[1] # None /\ longer[1] = lines[1] \o list
<1>1. CASE longer = Append(lines, list)
  <2>1. Items(longer) = Items(lines) \cup Range(list)
    BY <1>1, ItemsAppend
  <2> QED
    BY <1>1, <2>1
<1>2. ASSUME NEW i \in DOMAIN lines, lines[i] # None,
             longer = [lines EXCEPT ![i] = lines[i] \o list]
      PROVE  /\ longer \in Seq(Seq(S) \cup {None})
             /\ Items(longer) = Items(lines) \cup Range(list)
             /\ longer # << >>
             /\ lines # << >>
             /\ \/ longer[1] = lines[1]
                \/ lines[1] # None /\ longer[1] = lines[1] \o list
  <2>1. /\ longer \in Seq(Seq(S) \cup {None})
        /\ Len(longer) = Len(lines)
        /\ lines[i] \in Seq(S)
        /\ longer[i] = lines[i] \o list /\ longer[i] # None
        /\ \A j \in 1 .. Len(lines) : j # i => longer[j] = lines[j]
    <3>1. lines[i] \in Seq(S) \cup {None}
      BY <1>2
    <3> DEFINE line == lines[i] \o list
               V == Seq(S) \cup {None}
    <3>2. lines[i] \in Seq(S) /\ line \in Seq(S)
      BY <1>2, <3>1
    <3> HIDE DEF line
    <3>3. lines \in Seq(V) /\ line \in V /\ line # None
      BY <3>2
    <3>4. i \in 1 .. Len(lines)
      BY <1>2
    <3> USE DEF line
    <3>5. longer = [lines EXCEPT ![i] = line]
      BY <1>2
    <3> HIDE DEF line, V
    <3>6. /\ longer \in Seq(V)
          /\ Len(longer) = Len(lines)
          /\ \A j \in 1 .. Len(lines) : longer[j] = IF j = i THEN line ELSE lines[j]
      BY <3>3, <3>4, <3>5, ExceptSeq
    <3>7. longer \in Seq(Seq(S) \cup {None}) /\ Len(longer) = Len(lines)
      BY <3>6 DEF V
    <3>8. lines[i] \in Seq(S) /\ longer[i] = lines[i] \o list /\ longer[i] # None
      BY <3>2, <3>3, <3>4, <3>6 DEF line
    <3> QED
      BY <3>6, <3>7, <3>8
  <2>2. i \in 1 .. Len(lines) /\ Len(lines) \in Nat
        /\ DOMAIN lines = 1 .. Len(lines) /\ DOMAIN longer = 1 .. Len(lines)
    BY <2>1
  <2>3. Range(longer[i]) = Range(lines[i]) \cup Range(list)
    BY <2>1, RangeConcat
  <2>4. ASSUME NEW x
        PROVE  x \in Items(longer) <=> x \in Items(lines) \/ x \in Range(list)
    <3>1. x \in Items(longer) <=>
            \E j \in 1 .. Len(lines) : longer[j] # None /\ x \in Range(longer[j])
      BY <2>2, ItemsMember
    <3>2. x \in Items(lines) <=>
            \E j \in 1 .. Len(lines) : lines[j] # None /\ x \in Range(lines[j])
      BY <2>2, ItemsMember
    <3> QED
      BY <1>2, <2>1, <2>2, <2>3, <3>1, <3>2
  <2>5. longer # << >> /\ lines # << >>
    BY <2>1, <2>2
  <2>6. longer[1] = lines[1] \/ (lines[1] # None /\ longer[1] = lines[1] \o list)
    <3>1. CASE i = 1
      BY <1>2, <2>1, <3>1
    <3>2. CASE i # 1
      <4>1. 1 \in 1 .. Len(lines)
        BY <2>2
      <4>2. \A j \in 1 .. Len(lines) : j # i => longer[j] = lines[j]
        BY <2>1
      <4>3. longer[1] = lines[1]
        BY <3>2, <4>1, <4>2
      <4> QED
        BY <4>3
    <3> QED
      BY <3>1, <3>2
  <2> QED
    BY <2>1, <2>4, <2>5, <2>6
<1> QED
  BY <1>1, <1>2 DEF Longer

-----------------------------------------------------------------------------
(* What the headers say. *)

LEMMA ListHeaderTypes ==
  /\ ListNames \subseteq HeaderNames
  /\ ValuesOf("x-real-ip") = Addresses \cup {None}
  /\ ValuesOf("x-forwarded-for") = Seq(Addresses \cup {None}) \cup {None}
  /\ ValuesOf("forwarded") = Seq(Params) \cup {None}
  /\ ValuesOf("cookie") = Seq(Pairs) \cup {None}
  /\ ValuesOf("sec-fetch-mode") = {"navigate", "no-cors", None}
  /\ ValuesOf("connection") = Seq(Names) \cup {None}
  /\ \A name \in Names : name \in HeaderNames /\ name \notin ListNames /\ ValuesOf(name) = Nat
BY InputsAssumption DEF ListNames, HeaderNames, ValuesOf

(* A set of positions that is not empty has a first one. *)
LEMMA HasFirst ==
  ASSUME NEW S, S \subseteq Nat, S # {}
  PROVE  \E k \in S : \A j \in S : k <= j
<1>1. PICK k \in S : \A j \in S : <<j, k>> \notin OpToRel(<, Nat)
  BY NatLessThanWellFounded, WFMin
<1>2. ASSUME NEW j \in S, j < k
      PROVE  FALSE
  <2>1. j \in Nat /\ k \in Nat
    OBVIOUS
  <2>2. <<j, k>> \in OpToRel(<, Nat)
    BY <2>1, <1>2 DEF OpToRel
  <2> QED
    BY <2>2, <1>1
<1>3. \A j \in S : j \in Nat /\ k \in Nat
  OBVIOUS
<1> QED
  BY <1>2, <1>3

LEMMA MinIs ==
  ASSUME NEW S, NEW k \in S, S \subseteq Nat, \A j \in S : k <= j
  PROVE  Min(S) = k
<1>1. \A x \in S : (\A y \in S : x =< y) => x = k
  <2> SUFFICES ASSUME NEW x \in S, \A y \in S : x =< y
               PROVE  x = k
    OBVIOUS
  <2>1. x =< k /\ k <= x /\ x \in Nat /\ k \in Nat
    OBVIOUS
  <2> QED
    BY <2>1
<1> QED
  BY <1>1 DEF Min

(* The first parameter that decides is the one whose address is returned   *)
(* (parse_forwarded_for).                                                  *)
LEMMA FirstForFound ==
  ASSUME NEW S, NEW params \in Seq(S), NEW node,
         None \notin {params, node}, FirstFor(params, node)
  PROVE  ParseForwardedFor(params) = node
<1>1. PICK k \in 1 .. Len(params) : /\ params[k].key = "for"
                                    /\ params[k].node = node
                                    /\ \A j \in 1 .. k - 1 : ~Decides(params[j])
  BY DEF FirstFor
<1> DEFINE deciding == {i \in DOMAIN params : Decides(params[i])}
<1>2. k \in deciding
  BY <1>1 DEF Decides
<1>3. \A j \in deciding : k <= j
  <2> SUFFICES ASSUME NEW j \in 1 .. Len(params), Decides(params[j]), ~(k <= j)
               PROVE  FALSE
    OBVIOUS
  <2>1. j \in 1 .. k - 1
    OBVIOUS
  <2> QED
    BY <1>1, <2>1
<1>4. deciding \subseteq Nat
  OBVIOUS
<1>5. Min(deciding) = k
  <2> HIDE DEF deciding
  <2> QED
    BY <1>2, <1>3, <1>4, MinIs
<1>6. params[k].key # None
  BY <1>1, OptionAssumption
<1>7. ParseForwardedFor(params) =
        IF params = None \/ deciding = {} \/ params[Min(deciding)].key = None
        THEN None
        ELSE params[Min(deciding)].node
  BY DEF ParseForwardedFor
<1> HIDE DEF deciding
<1> QED
  BY <1>1, <1>2, <1>5, <1>6, <1>7

(* Without a word about the client it is who connected (client_ip).        *)
LEMMA PeerIfNothingTold ==
  ASSUME NothingTold
  PROVE  ClientIp(headers, peer) = peer
BY DEF NothingTold, ProxyNames, ClientIp, OrElse, Get, Leftmost, ParseForwardedFor

LEMMA SourceIsTold ==
  ASSUME HeadersTypeOK, MeantTypeOK, NEW convention,
         FirstTold(convention, headers, meant.client)
  PROVE  ClientIp(headers, peer) = meant.client
<1>1. meant.client \in Addresses /\ meant.client # None
  BY InputsAssumption DEF MeantTypeOK
<1>2. CASE convention = "x-real-ip"
  <2>1. headers["x-real-ip"] = <<meant.client>>
    BY <1>2 DEF FirstTold
  <2>2. headers["x-real-ip"] # << >> /\ headers["x-real-ip"][1] = meant.client
    BY <2>1
  <2> QED
    BY <1>1, <2>2 DEF ClientIp, OrElse, Get
<1>3. CASE convention = "x-forwarded-for"
  <2>1. /\ headers["x-real-ip"] = << >>
        /\ headers["x-forwarded-for"] # << >>
        /\ headers["x-forwarded-for"][1] # None
        /\ headers["x-forwarded-for"][1][1] = meant.client
    BY <1>3 DEF FirstTold
  <2> QED
    BY <1>1, <2>1 DEF ClientIp, OrElse, Get, Leftmost
<1>4. CASE convention = "forwarded"
  <2>1. /\ headers["x-real-ip"] = << >>
        /\ headers["x-forwarded-for"] = << >>
        /\ headers["forwarded"] # << >>
        /\ headers["forwarded"][1] # None
        /\ FirstFor(headers["forwarded"][1], meant.client)
    BY <1>4 DEF FirstTold
  <2>2. headers["forwarded"][1] \in Seq(Params)
    <3>1. headers["forwarded"] \in Seq(Seq(Params) \cup {None})
      BY ListHeaderTypes DEF HeadersTypeOK, ListNames
    <3>2. headers["forwarded"][1] \in Seq(Params) \cup {None}
      BY <2>1, <3>1
    <3> QED
      BY <2>1, <3>2
  <2>3. ParseForwardedFor(headers["forwarded"][1]) = meant.client
    BY <1>1, <2>1, <2>2, FirstForFound
  <2> QED
    BY <1>1, <2>1, <2>3 DEF ClientIp, OrElse, Get, Leftmost
<1> QED
  BY <1>2, <1>3, <1>4 DEF FirstTold

(* A rule matches what it is meant to exempt (Whitelist::is_exempt).       *)
LEMMA RuleMeaning ==
  ASSUME NEW r \in Rules, NEW p, NEW ip \in Addresses
  PROVE  Matches(r.rule, p, ip) <=> p \in r.paths \/ ip \in r.ips
<1>1. CASE MeansPaths(r)
  BY <1>1 DEF MeansPaths, Matches
<1>2. CASE MeansNet(r)
  <2>1. ip.bits \in Seq({0, 1}) /\ r.rule.bits \in Seq({0, 1})
    BY <1>2, InputsAssumption DEF MeansNet
  <2>2. IsPrefix(r.rule.bits, ip.bits) <=>
          /\ Len(r.rule.bits) <= Len(ip.bits)
          /\ \A i \in 1 .. Len(r.rule.bits) : r.rule.bits[i] = ip.bits[i]
    BY <2>1, SubSeqProperties DEF IsPrefix
  <2>3. Matches(r.rule, p, ip) <=> ip \in r.ips
    BY <1>2, <2>2 DEF MeansNet, Matches
  <2> QED
    BY <1>2, <2>3 DEF MeansNet
<1>3. CASE MeansNothing(r)
  BY <1>3 DEF MeansNothing, Matches
<1> QED
  BY <1>1, <1>2, <1>3, InputsAssumption

LEMMA TokenIs ==
  ASSUME NEW h
  PROVE  HasToken(h) <=>
           \E pair \in Items(h["cookie"]) : pair.name = "_heavy-token" /\ pair.value = "valid"
BY DEF HasToken, CookieValues, Named

-----------------------------------------------------------------------------
(* What the steps do to the headers and to the history. *)

LEMMA OneHeaderChanges ==
  ASSUME HeadersTypeOK, NEW name \in HeaderNames, NEW values \in Seq(ValuesOf(name)),
         headers' = [headers EXCEPT ![name] = values]
  PROVE  /\ HeadersTypeOK'
         /\ headers'[name] = values
         /\ \A other \in HeaderNames : other # name => headers'[other] = headers[other]
<1>1. DOMAIN headers' = HeaderNames /\ headers'[name] = values
  BY DEF HeadersTypeOK
<1>2. \A other \in HeaderNames : other # name => headers'[other] = headers[other]
  BY DEF HeadersTypeOK
<1>3. ASSUME NEW other \in HeaderNames
      PROVE  headers'[other] \in Seq(ValuesOf(other))
  <2>1. CASE other = name
    BY <1>1, <2>1
  <2>2. CASE other # name
    BY <1>2, <2>2 DEF HeadersTypeOK
  <2> QED
    BY <2>1, <2>2
<1>4. HeadersTypeOK'
  <2>1. \A other \in HeaderNames : headers'[other] \in Seq(ValuesOf(other))
    BY <1>3
  <2>2. \A other : ValuesOf(other)' = ValuesOf(other)
    BY DEF ValuesOf
  <2> QED
    BY <1>1, <2>1, <2>2 DEF HeadersTypeOK
<1> QED
  BY <1>1, <1>2, <1>4

(* A list header got more elements. *)
LEMMA ExtendFacts ==
  ASSUME HeadersTypeOK, NEW name \in ListNames, NEW S,
         ValuesOf(name) = Seq(S) \cup {None}, None \notin Seq(S),
         NEW list \in Seq(S), Extend(name, list)
  PROVE  /\ HeadersTypeOK'
         /\ headers'[name] \in Seq(Seq(S) \cup {None})
         /\ Items(headers'[name]) = Items(headers[name]) \cup Range(list)
         /\ headers'[name] # << >>
         /\ headers[name] = << >> => headers'[name][1] = list
         /\ headers[name] # << >> =>
              \/ headers'[name][1] = headers[name][1]
              \/ /\ headers[name][1] # None
                 /\ headers'[name][1] = headers[name][1] \o list
         /\ \A other \in HeaderNames : other # name => headers'[other] = headers[other]
<1>1. PICK lines \in Longer(headers[name], list) : headers' = [headers EXCEPT ![name] = lines]
  BY DEF Extend
<1>2. name \in HeaderNames
  BY DEF HeaderNames
<1>3. headers[name] \in Seq(Seq(S) \cup {None})
  BY <1>2 DEF HeadersTypeOK
<1>4. /\ lines \in Seq(Seq(S) \cup {None})
      /\ Items(lines) = Items(headers[name]) \cup Range(list)
      /\ lines # << >>
      /\ headers[name] = << >> => lines[1] = list
      /\ headers[name] # << >> => \/ lines[1] = headers[name][1]
                                 \/ /\ headers[name][1] # None
                                    /\ lines[1] = headers[name][1] \o list
  <2> DEFINE old == headers[name]
  <2>1. old \in Seq(Seq(S) \cup {None}) /\ lines \in Longer(old, list)
    BY <1>3
  <2> HIDE DEF old
  <2>2. /\ lines \in Seq(Seq(S) \cup {None})
        /\ Items(lines) = Items(old) \cup Range(list)
        /\ lines # << >>
        /\ old = << >> => lines[1] = list
        /\ old # << >> => \/ lines[1] = old[1]
                          \/ old[1] # None /\ lines[1] = old[1] \o list
    BY <2>1, LongerFacts
  <2> QED
    BY <2>2 DEF old
<1>5. /\ HeadersTypeOK'
      /\ headers'[name] = lines
      /\ \A other \in HeaderNames : other # name => headers'[other] = headers[other]
  BY <1>1, <1>2, <1>4, OneHeaderChanges
<1> QED
  BY <1>4, <1>5

(* One more value. *)
LEMMA PutFacts ==
  ASSUME HeadersTypeOK, NEW name \in HeaderNames, NEW value \in ValuesOf(name),
         Put(name, value)
  PROVE  /\ HeadersTypeOK'
         /\ headers'[name] = Append(headers[name], value)
         /\ \A other \in HeaderNames : other # name => headers'[other] = headers[other]
<1>1. headers' = [headers EXCEPT ![name] = Append(headers[name], value)]
  BY DEF Put
<1>2. Append(headers[name], value) \in Seq(ValuesOf(name))
  BY DEF HeadersTypeOK
<1> QED
  BY <1>1, <1>2, OneHeaderChanges

LEMMA InitInputs == InputsInit => InputsInv
<1> SUFFICES ASSUME InputsInit
             PROVE  InputsInv
  OBVIOUS
<1>1. /\ headers = [name \in HeaderNames |-> << >>]
      /\ meant = Meaning(peer)
      /\ topic \in {"work", "source", "route", "headers"}
      /\ steps = 0
  BY DEF InputsInit
<1>2. \A name \in ListNames : headers[name] = << >>
  BY <1>1 DEF HeaderNames
<1>3. peer \in Addresses
  BY InputsAssumption DEF InputsInit, AnyOf
<1>4. PICK s \in Settings : site = Site(s)
  BY InputsAssumption DEF InputsInit, AnyOf
<1>5. HeadersTypeOK
  <2>1. \A name \in HeaderNames : headers[name] = << >>
    BY <1>1
  <2>2. \A S : << >> \in Seq(S)
    OBVIOUS
  <2> QED
    BY <1>1, <2>1, <2>2 DEF HeadersTypeOK
<1>6. SiteTypeOK
  <2>1. s \in (BOOLEAN \cup {None, Invalid}) \X (BOOLEAN \cup {None}) \X BOOLEAN
    BY InputsAssumption
  <2> QED
    BY <1>4, <2>1 DEF Site, SiteTypeOK, RuleSets
<1>7. MeantTypeOK
  BY <1>1, <1>3 DEF Meaning, MeantTypeOK
<1>8. SourceInv
  <2>1. meant.hops = << >> /\ meant.client = peer
    BY <1>1 DEF Meaning
  <2> QED
    BY <1>2, <2>1 DEF SourceInv, ProxyNames, ListNames
<1>9. RouteInv
  <2>1. NothingTold
    BY <1>2 DEF NothingTold, ProxyNames, ListNames
  <2>2. "valid" \notin meant.tokens /\ ~meant.exempt /\ ~meant.fault
    BY <1>1 DEF Meaning
  <2>3. ~HasToken(headers)
    BY <1>2, TokenIs, ItemsMember DEF ListNames
  <2>4. LoadWhitelist(site.whitelist) = {} /\ ~CannotLoad(site.whitelist)
    BY <1>4 DEF Site, LoadWhitelist, NestedIncludes, CannotLoad
  <2> QED
    BY <2>1, <2>2, <2>3, <2>4 DEF RouteInv, IsExempt
<1>10. HeadersInv
  <2>1. Items(headers["connection"]) = {}
    BY <1>2, ItemsMember DEF ListNames
  <2> QED
    BY <1>1, <2>1 DEF HeadersInv, ConnectionSkip, Meaning
<1> QED
  BY <1>1, <1>3, <1>5, <1>6, <1>7, <1>8, <1>9, <1>10 DEF InputsInv, InputsTypeOK

-----------------------------------------------------------------------------
(* Reverse proxies. *)

LEMMA HopFacts ==
  ASSUME InputsTypeOK, NEW convention \in DOMAIN Rank, Hop(convention)
  PROVE  /\ topic = "source" /\ topic' = "source"
         /\ SiteTypeOK' /\ MeantTypeOK' /\ peer' \in Addresses /\ steps' \in Nat
         /\ meant'.client = meant.client /\ meant'.sent = meant.sent
         /\ meant'.hops = Append(meant.hops, convention)
<1>1. /\ meant' = [meant EXCEPT !.hops = Append(meant.hops, convention)]
      /\ topic = "source" /\ topic' = "source" /\ site' = site
      /\ peer' \in Addresses /\ steps' = steps + 1
  BY DEF Hop, Grows
<1>2. MeantTypeOK'
  <2>1. Append(meant.hops, convention) \in Seq(DOMAIN Rank)
    BY DEF InputsTypeOK, MeantTypeOK
  <2> QED
    BY <1>1, <2>1 DEF InputsTypeOK, MeantTypeOK
<1>3. SiteTypeOK'
  BY <1>1 DEF InputsTypeOK, SiteTypeOK
<1>4. /\ meant'.client = meant.client /\ meant'.sent = meant.sent
      /\ meant'.hops = Append(meant.hops, convention)
  BY <1>1 DEF InputsTypeOK, MeantTypeOK
<1> QED
  BY <1>1, <1>2, <1>3, <1>4 DEF InputsTypeOK

LEMMA OneMoreHop ==
  ASSUME MeantTypeOK, NEW convention, meant'.hops = Append(meant.hops, convention)
  PROVE  meant'.hops # << >>
<1> DEFINE hops == meant.hops
<1>1. hops \in Seq(DOMAIN Rank)
  BY DEF MeantTypeOK
<1> HIDE DEF hops
<1>2. Append(hops, convention) # << >>
  BY <1>1
<1> QED
  BY <1>2 DEF hops

(* What the first proxy tells overrules no header of the client's that     *)
(* client_ip looks at before, and of its own ones only X-Real-IP.          *)
LEMMA HarmIs ==
  /\ ~Harmless("x-real-ip", "x-forwarded-for")
  /\ ~Harmless("x-forwarded-for", "x-forwarded-for")
  /\ \A name \in ProxyNames : ~Harmless(name, "forwarded")
<1>1. Rank["x-real-ip"] = 1 /\ Rank["x-forwarded-for"] = 2 /\ Rank["forwarded"] = 3
  BY DEF Rank
<1> QED
  BY <1>1 DEF Harmless, ProxyNames

(* A chain that tells the client one hop later told it before, and the new *)
(* hop does not outrank the first; a chain of one hop overrules what the   *)
(* client sent.                                                            *)
LEMMA ToldBefore ==
  ASSUME MeantTypeOK, NEW convention \in DOMAIN Rank,
         meant'.hops = Append(meant.hops, convention), meant'.sent = meant.sent, Told'
  PROVE  /\ meant'.hops # << >>
         /\ meant.hops = << >> => /\ meant'.hops[1] = convention
                                  /\ convention # "hidden"
                                  /\ \A name \in meant.sent : Harmless(name, convention)
         /\ meant.hops # << >> => /\ Told
                                  /\ meant'.hops[1] = meant.hops[1]
                                  /\ convention # "x-real-ip"
                                  /\ Rank[convention] >= Rank[meant.hops[1]]
<1> DEFINE hops == meant.hops
           after == meant'.hops
<1>1. hops \in Seq(DOMAIN Rank) /\ Len(hops) \in Nat
  BY DEF MeantTypeOK
<1>2. /\ Len(after) = Len(hops) + 1
      /\ after[Len(hops) + 1] = convention
      /\ \A i \in 1 .. Len(hops) : after[i] = hops[i]
  BY <1>1
<1>3. after # << >>
  BY <1>1
<1>4. /\ after[1] # "hidden"
      /\ \A name \in meant.sent : Harmless(name, after[1])
      /\ \A i \in 2 .. Len(after) : after[i] # "x-real-ip" /\ Rank[after[i]] >= Rank[after[1]]
  <2>1. Rank' = Rank
    BY DEF Rank
  <2> QED
    BY <1>3, <2>1 DEF Told, Harmless
<1> HIDE DEF after
<1>5. CASE hops = << >>
  <2>1. after[1] = convention
    BY <1>2, <1>5
  <2> QED
    BY <1>3, <1>4, <1>5, <2>1 DEF after
<1>6. CASE hops # << >>
  <2>1. Len(hops) >= 1 /\ 1 \in 1 .. Len(hops) /\ Len(hops) + 1 \in 2 .. Len(after)
    BY <1>1, <1>2, <1>6
  <2>2. after[1] = hops[1]
    BY <1>2, <2>1
  <2>3. convention # "x-real-ip" /\ Rank[convention] >= Rank[hops[1]]
    BY <1>2, <1>4, <2>1, <2>2
  <2>4. ASSUME NEW i \in 2 .. Len(hops)
        PROVE  hops[i] # "x-real-ip" /\ Rank[hops[i]] >= Rank[hops[1]]
    <3>1. i \in 2 .. Len(after) /\ i \in 1 .. Len(hops)
      BY <1>1, <1>2
    <3> QED
      BY <1>2, <1>4, <2>2, <3>1
  <2>5. Told
    BY <1>4, <1>6, <2>2, <2>4 DEF Told
  <2> QED
    BY <1>3, <1>6, <2>2, <2>3, <2>5 DEF after
<1> QED
  BY <1>5, <1>6

(* What is told stays told when the headers it is read from stay.          *)
LEMMA FirstToldElsewhere ==
  ASSUME NEW convention, NEW before, NEW after, NEW client,
         FirstTold(convention, before, client),
         after["x-real-ip"] = before["x-real-ip"],
         convention # "x-real-ip" => after["x-forwarded-for"] = before["x-forwarded-for"],
         convention = "forwarded" => after["forwarded"] = before["forwarded"]
  PROVE  FirstTold(convention, after, client)
BY DEF FirstTold

(* ... and when more is added to the end of the same value.                *)
LEMMA LeftmostStays ==
  ASSUME NEW S, NEW first \in Seq(S), first # << >>, NEW list \in Seq(S), None \notin Seq(S)
  PROVE  /\ first \o list # None
         /\ first \o list # << >>
         /\ (first \o list)[1] = first[1]
<1>1. first \o list \in Seq(S)
  OBVIOUS
<1>2. Len(first) \in Nat /\ Len(list) \in Nat /\ Len(first) > 0
  OBVIOUS
<1>3. Len(first \o list) = Len(first) + Len(list) /\ (first \o list)[1] = first[1]
  BY <1>2
<1>4. first \o list # << >>
  BY <1>1, <1>2, <1>3
<1> QED
  BY <1>1, <1>3, <1>4

LEMMA FirstForStays ==
  ASSUME NEW S, NEW params \in Seq(S), NEW list \in Seq(S), NEW node, FirstFor(params, node)
  PROVE  FirstFor(params \o list, node)
<1>1. PICK k \in 1 .. Len(params) : /\ params[k].key = "for"
                                    /\ params[k].node = node
                                    /\ \A j \in 1 .. k - 1 : ~Decides(params[j])
  BY DEF FirstFor
<1> DEFINE both == params \o list
<1>2. /\ Len(params) \in Nat /\ Len(list) \in Nat
      /\ Len(both) = Len(params) + Len(list)
      /\ \A j \in 1 .. Len(params) : both[j] = params[j]
  OBVIOUS
<1> HIDE DEF both
<1>3. k \in 1 .. Len(both) /\ both[k] = params[k]
  BY <1>2
<1>4. \A j \in 1 .. k - 1 : j \in 1 .. Len(params) /\ both[j] = params[j]
  BY <1>2
<1>5. \A j \in 1 .. k - 1 : ~Decides(both[j])
  BY <1>1, <1>4
<1>6. FirstFor(both, node)
  BY <1>1, <1>3, <1>5 DEF FirstFor
<1> QED
  BY <1>6 DEF both

(* What the client sends touches no header but those it sent.              *)
LEMMA SendStep ==
  ASSUME InputsInv, ClientSends
  PROVE  InputsTypeOK' /\ SourceInv' /\ topic' = "source"
<1>1. InputsTypeOK /\ SourceInv /\ HeadersTypeOK /\ MeantTypeOK
  BY DEF InputsInv, InputsTypeOK
<1>2. PICK name \in ProxyNames, node \in Addresses \cup {None} :
        /\ Grows("source")
        /\ meant.hops = << >>
        /\ \/ name = "x-real-ip" /\ Put(name, node)
           \/ name = "x-forwarded-for" /\ Extend(name, <<node>>)
           \/ /\ name = "forwarded"
              /\ \E key \in {"for", None} : Extend(name, <<Param(key, "bare", node)>>)
        /\ meant' = [meant EXCEPT !.sent = @ \cup {name}]
        /\ UNCHANGED <<peer, site>>
  BY DEF ClientSends
<1>3. /\ topic = "source" /\ topic' = "source" /\ peer' = peer /\ site' = site
      /\ steps' = steps + 1
  BY <1>2 DEF Grows
<1>4. /\ HeadersTypeOK'
      /\ \A other \in HeaderNames : other # name => headers'[other] = headers[other]
  <2>1. CASE name = "x-real-ip" /\ Put(name, node)
    <3>1. name \in HeaderNames /\ node \in ValuesOf(name)
      BY <2>1, ListHeaderTypes DEF ListNames
    <3> QED
      BY <1>1, <2>1, <3>1, PutFacts
  <2>2. CASE name = "x-forwarded-for" /\ Extend(name, <<node>>)
    <3>1. <<node>> \in Seq(Addresses \cup {None}) /\ name \in ListNames
      BY <2>2 DEF ListNames
    <3> QED
      BY <1>1, <2>2, <3>1, ListHeaderTypes, InputsAssumption, ExtendFacts
  <2>3. CASE /\ name = "forwarded"
             /\ \E key \in {"for", None} : Extend(name, <<Param(key, "bare", node)>>)
    <3>1. PICK key \in {"for", None} : Extend(name, <<Param(key, "bare", node)>>)
      BY <2>3
    <3> DEFINE list == <<Param(key, "bare", node)>>
    <3>2. list \in Seq(Params) /\ name \in ListNames
      <4>1. Param(key, "bare", node) \in Params
        BY DEF Params
      <4> QED
        BY <2>3, <4>1 DEF ListNames
    <3>3. Extend(name, list)
      BY <3>1
    <3> HIDE DEF list
    <3> QED
      BY <1>1, <2>3, <3>2, <3>3, ListHeaderTypes, InputsAssumption, ExtendFacts
  <2> QED
    BY <1>2, <2>1, <2>2, <2>3
<1>5. /\ MeantTypeOK'
      /\ meant'.hops = << >> /\ meant'.client = meant.client
      /\ meant'.sent = meant.sent \cup {name}
  <2> DEFINE sent == meant.sent \cup {name}
  <2>1. meant' = [meant EXCEPT !.sent = sent] /\ sent \in SUBSET ProxyNames
    BY <1>1, <1>2 DEF MeantTypeOK
  <2> HIDE DEF sent
  <2>2. MeantTypeOK' /\ meant'.hops = meant.hops /\ meant'.client = meant.client
        /\ meant'.sent = sent
    BY <1>1, <2>1 DEF MeantTypeOK, ProxyNames
  <2> QED
    BY <1>2, <2>2 DEF sent
<1>6. SourceInv'
  <2>1. /\ peer = meant.client
        /\ \A other \in ProxyNames \ meant.sent : headers[other] = << >>
    BY <1>1, <1>2, <1>3 DEF SourceInv
  <2>2. ProxyNames \subseteq HeaderNames /\ ProxyNames' = ProxyNames
    BY ListHeaderTypes DEF ProxyNames, ListNames
  <2> QED
    BY <1>3, <1>4, <1>5, <2>1, <2>2 DEF SourceInv
<1> QED
  BY <1>1, <1>3, <1>4, <1>5, <1>6 DEF InputsTypeOK, SiteTypeOK

(* How a hop keeps the source found. *)
LEMMA RealIpStep ==
  ASSUME InputsInv, HopRealIp
  PROVE  InputsTypeOK' /\ SourceInv' /\ topic' = "source"
<1>1. InputsTypeOK /\ SourceInv /\ HeadersTypeOK /\ MeantTypeOK /\ peer \in Addresses
  BY DEF InputsInv, InputsTypeOK
<1>2. Hop("x-real-ip") /\ headers' = [headers EXCEPT !["x-real-ip"] = <<peer>>]
  BY DEF HopRealIp
<1>3. "x-real-ip" \in DOMAIN Rank
  BY DEF Rank
<1>4. /\ topic = "source" /\ topic' = "source"
      /\ SiteTypeOK' /\ MeantTypeOK' /\ peer' \in Addresses /\ steps' \in Nat
      /\ meant'.client = meant.client /\ meant'.sent = meant.sent
      /\ meant'.hops = Append(meant.hops, "x-real-ip")
  BY <1>1, <1>2, <1>3, HopFacts
<1>5. HeadersTypeOK' /\ headers'["x-real-ip"] = <<peer>>
  <2>1. <<peer>> \in Seq(ValuesOf("x-real-ip")) /\ "x-real-ip" \in HeaderNames
    BY <1>1, ListHeaderTypes DEF ListNames
  <2> QED
    BY <1>1, <1>2, <2>1, OneHeaderChanges
<1>6. SourceInv'
  <2>0. meant'.hops # << >>
    BY <1>1, <1>4, OneMoreHop
  <2> SUFFICES ASSUME Told'
               PROVE  FirstTold(meant'.hops[1], headers', meant'.client)
    BY <2>0 DEF SourceInv
  <2>1. /\ meant'.hops # << >>
        /\ meant.hops = << >> /\ meant'.hops[1] = "x-real-ip"
    BY <1>1, <1>3, <1>4, ToldBefore
  <2>2. peer = meant.client
    BY <1>1, <1>4, <2>1 DEF SourceInv
  <2> QED
    BY <1>4, <1>5, <2>1, <2>2 DEF FirstTold
<1> QED
  BY <1>4, <1>5, <1>6 DEF InputsTypeOK

LEMMA ForwardedForStep ==
  ASSUME InputsInv, HopForwardedFor
  PROVE  InputsTypeOK' /\ SourceInv' /\ topic' = "source"
<1>1. InputsTypeOK /\ SourceInv /\ HeadersTypeOK /\ MeantTypeOK /\ peer \in Addresses
  BY DEF InputsInv, InputsTypeOK
<1>2. Hop("x-forwarded-for") /\ Extend("x-forwarded-for", <<peer>>)
  BY DEF HopForwardedFor
<1>3. "x-forwarded-for" \in DOMAIN Rank
  BY DEF Rank
<1>4. /\ topic = "source" /\ topic' = "source"
      /\ SiteTypeOK' /\ MeantTypeOK' /\ peer' \in Addresses /\ steps' \in Nat
      /\ meant'.client = meant.client /\ meant'.sent = meant.sent
      /\ meant'.hops = Append(meant.hops, "x-forwarded-for")
  BY <1>1, <1>2, <1>3, HopFacts
<1> DEFINE old == headers["x-forwarded-for"]
           new == headers'["x-forwarded-for"]
<1>5. /\ HeadersTypeOK'
      /\ new # << >>
      /\ old = << >> => new[1] = <<peer>>
      /\ old # << >> => new[1] = old[1] \/ (old[1] # None /\ new[1] = old[1] \o <<peer>>)
      /\ \A other \in HeaderNames : other # "x-forwarded-for" => headers'[other] = headers[other]
  <2>1. <<peer>> \in Seq(Addresses \cup {None}) /\ "x-forwarded-for" \in ListNames
    BY <1>1 DEF ListNames
  <2> QED
    BY <1>1, <1>2, <2>1, ListHeaderTypes, InputsAssumption, ExtendFacts
<1>6. headers'["x-real-ip"] = headers["x-real-ip"] /\ headers'["forwarded"] = headers["forwarded"]
  BY <1>5, ListHeaderTypes DEF ListNames
<1>7. SourceInv'
  <2>0. meant'.hops # << >>
    BY <1>1, <1>4, OneMoreHop
  <2> SUFFICES ASSUME Told'
               PROVE  FirstTold(meant'.hops[1], headers', meant'.client)
    BY <2>0 DEF SourceInv
  <2>1. /\ meant'.hops # << >>
        /\ meant.hops = << >> => /\ meant'.hops[1] = "x-forwarded-for"
                                 /\ \A name \in meant.sent : Harmless(name, "x-forwarded-for")
        /\ meant.hops # << >> => /\ Told
                                 /\ meant'.hops[1] = meant.hops[1]
                                 /\ Rank["x-forwarded-for"] >= Rank[meant.hops[1]]
    BY <1>1, <1>3, <1>4, ToldBefore
  <2>2. CASE meant.hops = << >>
    <3>1. peer = meant.client /\ headers["x-real-ip"] = << >> /\ old = << >>
      <4>1. {"x-real-ip", "x-forwarded-for"} \subseteq ProxyNames \ meant.sent
        BY <2>1, <2>2, HarmIs DEF ProxyNames
      <4> QED
        BY <1>1, <1>4, <2>2, <4>1 DEF SourceInv
    <3>2. new[1] = <<peer>>
      BY <1>5, <3>1
    <3>3. new[1] \notin {None, << >>}
      <4>1. <<peer>> \in Seq(Addresses \cup {None}) /\ <<peer>> # << >>
        BY <1>1
      <4> QED
        BY <3>2, <4>1, InputsAssumption
    <3> QED
      BY <1>4, <1>5, <1>6, <2>1, <2>2, <3>1, <3>2, <3>3 DEF FirstTold
  <2>3. CASE meant.hops # << >>
    <3>1. FirstTold(meant.hops[1], headers, meant.client)
      BY <1>1, <1>4, <2>1, <2>3 DEF SourceInv
    <3>2. CASE meant.hops[1] = "x-real-ip"
      BY <1>4, <1>6, <2>1, <2>3, <3>1, <3>2, FirstToldElsewhere
    <3>3. CASE meant.hops[1] = "x-forwarded-for"
      <4>1. /\ headers["x-real-ip"] = << >> /\ old # << >>
            /\ old[1] \notin {None, << >>} /\ old[1][1] = meant.client
        BY <3>1, <3>3 DEF FirstTold
      <4>2. old[1] \in Seq(Addresses \cup {None})
        <5>1. old \in Seq(Seq(Addresses \cup {None}) \cup {None})
          BY <1>1, ListHeaderTypes DEF HeadersTypeOK, ListNames
        <5>2. old[1] \in Seq(Addresses \cup {None}) \cup {None}
          BY <4>1, <5>1
        <5> QED
          BY <4>1, <5>2
      <4>3. <<peer>> \in Seq(Addresses \cup {None})
        BY <1>1
      <4>4. new[1] \notin {None, << >>} /\ new[1][1] = meant.client
        <5>1. old[1] \o <<peer>> \notin {None, << >>} /\ (old[1] \o <<peer>>)[1] = old[1][1]
          <6> DEFINE first == old[1]
                     list == <<peer>>
          <6>1. /\ first \in Seq(Addresses \cup {None}) /\ first # << >>
                /\ list \in Seq(Addresses \cup {None})
                /\ None \notin Seq(Addresses \cup {None})
            BY <4>1, <4>2, <4>3, InputsAssumption
          <6> HIDE DEF first, list
          <6>2. /\ first \o list # None
                /\ first \o list # << >>
                /\ (first \o list)[1] = first[1]
            BY <6>1, LeftmostStays
          <6> QED
            BY <6>2 DEF first, list
        <5> QED
          BY <1>5, <4>1, <5>1
      <4> QED
        BY <1>4, <1>5, <1>6, <2>1, <2>3, <3>3, <4>1, <4>4 DEF FirstTold
    <3>4. CASE meant.hops[1] = "forwarded"
      BY <2>1, <2>3, <3>4 DEF Rank
    <3> QED
      BY <3>1, <3>2, <3>3, <3>4 DEF FirstTold
  <2> QED
    BY <2>2, <2>3
<1> QED
  BY <1>4, <1>5, <1>7 DEF InputsTypeOK

(* What a proxy adds to Forwarded, by and for, tells who its peer is.      *)
Added(form, node, by) ==
  IF by THEN <<Param("by", "bare", None), Param("for", form, node)>> ELSE <<Param("for", form, node)>>

LEMMA AddedTells ==
  ASSUME NEW form \in {"bare", "port"}, NEW node \in Addresses \cup {None}, NEW by \in BOOLEAN
  PROVE  /\ Added(form, node, by) \in Seq(Params)
         /\ node # None => FirstFor(Added(form, node, by), node)
<1>1. Param("by", "bare", None) \in Params /\ Param("for", form, node) \in Params
  BY DEF Params
<1>2. /\ Param("by", "bare", None).key = "by"
      /\ Param("for", form, node).key = "for" /\ Param("for", form, node).node = node
  BY DEF Param
<1>3. ~Decides(Param("by", "bare", None))
  BY <1>2, OptionAssumption DEF Decides
<1>4. CASE by
  <2> DEFINE list == <<Param("by", "bare", None), Param("for", form, node)>>
  <2>1. Added(form, node, by) = list
    BY <1>4 DEF Added
  <2>2. list \in Seq(Params)
    BY <1>1
  <2>3. /\ Len(list) = 2
        /\ list[1] = Param("by", "bare", None) /\ list[2] = Param("for", form, node)
    OBVIOUS
  <2> HIDE DEF list
  <2>4. FirstFor(list, node)
    <3>1. 2 \in 1 .. Len(list) /\ \A j \in 1 .. 2 - 1 : j = 1
      BY <2>3
    <3> QED
      BY <1>2, <1>3, <2>3, <3>1 DEF FirstFor
  <2> QED
    BY <2>1, <2>2, <2>4
<1>5. CASE ~by
  <2> DEFINE list == <<Param("for", form, node)>>
  <2>1. Added(form, node, by) = list
    BY <1>5 DEF Added
  <2>2. list \in Seq(Params)
    BY <1>1
  <2>3. Len(list) = 1 /\ list[1] = Param("for", form, node)
    OBVIOUS
  <2> HIDE DEF list
  <2>4. FirstFor(list, node)
    <3>1. 1 \in 1 .. Len(list) /\ \A j \in 1 .. 1 - 1 : FALSE
      BY <2>3
    <3> QED
      BY <1>2, <2>3, <3>1 DEF FirstFor
  <2> QED
    BY <2>1, <2>2, <2>4
<1> QED
  BY <1>4, <1>5

LEMMA ForwardedStep ==
  ASSUME InputsInv, HopForwarded
  PROVE  InputsTypeOK' /\ SourceInv' /\ topic' = "source"
<1>1. InputsTypeOK /\ SourceInv /\ HeadersTypeOK /\ MeantTypeOK /\ peer \in Addresses
  BY DEF InputsInv, InputsTypeOK
<1>2. PICK form \in {"bare", "port"}, node \in {peer, None}, by \in BOOLEAN :
        /\ Hop(IF node = None THEN "hidden" ELSE "forwarded")
        /\ Extend("forwarded", Added(form, node, by))
  BY DEF HopForwarded, Added
<1> DEFINE convention == IF node = None THEN "hidden" ELSE "forwarded"
           list == Added(form, node, by)
           old == headers["forwarded"]
           new == headers'["forwarded"]
<1>3. convention \in DOMAIN Rank /\ Rank[convention] = 3
  BY DEF Rank
<1>4. node \in Addresses \cup {None}
  BY <1>1
<1>5. list \in Seq(Params) /\ (node # None => FirstFor(list, node))
  BY <1>4, AddedTells
<1> HIDE DEF list, convention
<1>6. /\ topic = "source" /\ topic' = "source"
      /\ SiteTypeOK' /\ MeantTypeOK' /\ peer' \in Addresses /\ steps' \in Nat
      /\ meant'.client = meant.client /\ meant'.sent = meant.sent
      /\ meant'.hops = Append(meant.hops, convention)
  BY <1>1, <1>2, <1>3, HopFacts DEF convention
<1>7. /\ HeadersTypeOK'
      /\ new # << >>
      /\ old = << >> => new[1] = list
      /\ old # << >> => new[1] = old[1] \/ (old[1] # None /\ new[1] = old[1] \o list)
      /\ \A other \in HeaderNames : other # "forwarded" => headers'[other] = headers[other]
  <2>1. "forwarded" \in ListNames /\ Extend("forwarded", list)
    BY <1>2 DEF ListNames, list
  <2> QED
    BY <1>1, <1>5, <2>1, ListHeaderTypes, InputsAssumption, ExtendFacts
<1>8. /\ headers'["x-real-ip"] = headers["x-real-ip"]
      /\ headers'["x-forwarded-for"] = headers["x-forwarded-for"]
  BY <1>7, ListHeaderTypes DEF ListNames
<1>9. SourceInv'
  <2>0. meant'.hops # << >>
    BY <1>1, <1>6, OneMoreHop
  <2> SUFFICES ASSUME Told'
               PROVE  FirstTold(meant'.hops[1], headers', meant'.client)
    BY <2>0 DEF SourceInv
  <2>1. /\ meant'.hops # << >>
        /\ meant.hops = << >> => /\ meant'.hops[1] = convention
                                 /\ convention # "hidden"
                                 /\ \A name \in meant.sent : Harmless(name, convention)
        /\ meant.hops # << >> => Told /\ meant'.hops[1] = meant.hops[1]
    BY <1>1, <1>3, <1>6, ToldBefore
  <2>2. CASE meant.hops = << >>
    <3>1. convention = "forwarded"
      BY <1>2, <2>1, <2>2 DEF convention
    <3>2. node = peer /\ node # None
      BY <1>2, <2>1, <2>2 DEF convention
    <3>4. /\ peer = meant.client /\ old = << >>
          /\ headers["x-real-ip"] = << >> /\ headers["x-forwarded-for"] = << >>
      <4>1. ProxyNames \subseteq ProxyNames \ meant.sent
        BY <2>1, <2>2, <3>1, HarmIs
      <4> QED
        BY <1>1, <1>6, <2>2, <4>1 DEF SourceInv, ProxyNames
    <3>3. new[1] = list /\ list # None /\ FirstFor(list, meant.client)
      BY <1>5, <1>7, <3>2, <3>4, InputsAssumption
    <3> QED
      BY <1>6, <1>7, <1>8, <2>1, <2>2, <3>1, <3>3, <3>4 DEF FirstTold
  <2>3. CASE meant.hops # << >>
    <3>1. FirstTold(meant.hops[1], headers, meant.client)
      BY <1>1, <1>6, <2>1, <2>3 DEF SourceInv
    <3>2. CASE meant.hops[1] # "forwarded"
      BY <1>6, <1>8, <2>1, <2>3, <3>1, <3>2, FirstToldElsewhere
    <3>3. CASE meant.hops[1] = "forwarded"
      <4>1. /\ headers["x-real-ip"] = << >> /\ headers["x-forwarded-for"] = << >>
            /\ old # << >> /\ old[1] # None /\ FirstFor(old[1], meant.client)
        BY <3>1, <3>3 DEF FirstTold
      <4>2. old[1] \in Seq(Params)
        <5>1. old \in Seq(Seq(Params) \cup {None})
          BY <1>1, ListHeaderTypes DEF HeadersTypeOK, ListNames
        <5>2. old[1] \in Seq(Params) \cup {None}
          BY <4>1, <5>1
        <5> QED
          BY <4>1, <5>2
      <4>3. new[1] # None /\ FirstFor(new[1], meant.client)
        <5> DEFINE first == old[1]
        <5>1. first \in Seq(Params) /\ FirstFor(first, meant.client)
          BY <4>1, <4>2
        <5> HIDE DEF first
        <5>2. first \o list \in Seq(Params) /\ FirstFor(first \o list, meant.client)
          BY <1>5, <5>1, FirstForStays
        <5>3. first \o list # None
          BY <5>2, InputsAssumption
        <5> QED
          BY <1>7, <4>1, <5>2, <5>3 DEF first
      <4> QED
        BY <1>6, <1>7, <1>8, <2>1, <2>3, <3>3, <4>1, <4>3 DEF FirstTold
    <3> QED
      BY <3>2, <3>3
  <2> QED
    BY <2>2, <2>3
<1> QED
  BY <1>6, <1>7, <1>9 DEF InputsTypeOK

-----------------------------------------------------------------------------
(* What decides about a challenge. *)

(* A header that neither tells an address nor is a cookie leaves the rest  *)
(* of the decision alone; so does what is added to the cookies, but for    *)
(* the tokens.                                                             *)
LEMMA StillNothingTold ==
  ASSUME NothingTold, NEW name, name \notin {"x-real-ip", "x-forwarded-for", "forwarded"},
         \A other \in HeaderNames : other # name => headers'[other] = headers[other]
  PROVE  NothingTold'
BY ListHeaderTypes DEF NothingTold, ProxyNames, ListNames

LEMMA CookieStep ==
  ASSUME InputsInv, AddCookie
  PROVE  InputsTypeOK' /\ RouteInv' /\ topic' = "route"
<1>1. InputsTypeOK /\ RouteInv /\ HeadersTypeOK /\ MeantTypeOK
  BY DEF InputsInv, InputsTypeOK
<1>2. PICK pair \in Pairs :
        /\ Grows("route")
        /\ Extend("cookie", <<pair>>)
        /\ meant' = [meant EXCEPT !.tokens =
                       IF pair.name = "session" THEN @ ELSE @ \cup {pair.value}]
        /\ UNCHANGED <<peer, site>>
  BY DEF AddCookie
<1>3. /\ topic = "route" /\ topic' = "route" /\ path' = path /\ peer' = peer /\ site' = site
      /\ steps' = steps + 1
  BY <1>2 DEF Grows
<1>4. /\ HeadersTypeOK'
      /\ Items(headers'["cookie"]) = Items(headers["cookie"]) \cup Range(<<pair>>)
      /\ \A other \in HeaderNames : other # "cookie" => headers'[other] = headers[other]
  <2>1. <<pair>> \in Seq(Pairs) /\ "cookie" \in ListNames
    BY DEF ListNames
  <2> QED
    BY <1>1, <1>2, <2>1, ListHeaderTypes, InputsAssumption, ExtendFacts
<1>5. Range(<<pair>>) = {pair}
  BY DEF Range
<1>6. /\ pair.name \in {"_heavy-token", "session"} /\ pair.value \in {"valid", "expired"}
      /\ meant.tokens \in SUBSET {"valid", "expired"}
  BY <1>1 DEF Pairs, MeantTypeOK
<1>7. /\ MeantTypeOK' /\ meant'.exempt = meant.exempt /\ meant'.fault = meant.fault
      /\ meant'.tokens = IF pair.name = "session" THEN meant.tokens
                         ELSE meant.tokens \cup {pair.value}
  BY <1>1, <1>2, <1>6 DEF MeantTypeOK
<1>8. "valid" \in meant'.tokens <=> HasToken(headers')
  <2>1. "valid" \in meant.tokens <=> HasToken(headers)
    BY <1>1, <1>3 DEF RouteInv
  <2>2. HasToken(headers') <=>
          HasToken(headers) \/ (pair.name = "_heavy-token" /\ pair.value = "valid")
    BY <1>4, <1>5, TokenIs
  <2> QED
    BY <1>6, <1>7, <2>1, <2>2
<1>9. NothingTold'
  BY <1>1, <1>3, <1>4, StillNothingTold DEF RouteInv
<1>10. RouteInv'
  BY <1>1, <1>3, <1>7, <1>8, <1>9 DEF RouteInv
<1>11. InputsTypeOK'
  BY <1>1, <1>3, <1>4, <1>7 DEF InputsTypeOK, SiteTypeOK
<1> QED
  BY <1>3, <1>10, <1>11

(* An unreadable line lists nothing (filter_map over to_str in             *)
(* cookie_values and filter_headers).                                      *)
LEMMA UnreadableStep ==
  ASSUME InputsInv, AddUnreadable
  PROVE  InputsTypeOK' /\ RouteInv' /\ HeadersInv' /\ topic' \in {"route", "headers"}
<1>1. InputsTypeOK /\ RouteInv /\ HeadersInv /\ HeadersTypeOK
  BY DEF InputsInv, InputsTypeOK
<1>2. PICK t \in {"route", "headers"} :
        /\ Grows(t)
        /\ Put(IF t = "route" THEN "cookie" ELSE "connection", None)
        /\ UNCHANGED <<peer, site, meant>>
  BY DEF AddUnreadable
<1> DEFINE name == IF t = "route" THEN "cookie" ELSE "connection"
<1>3. /\ topic = t /\ topic' = t /\ path' = path /\ peer' = peer /\ site' = site
      /\ meant' = meant /\ steps' = steps + 1
  BY <1>2 DEF Grows
<1>4. name \in {"cookie", "connection"} /\ name \in HeaderNames /\ None \in ValuesOf(name)
  BY ListHeaderTypes DEF ListNames
<1>5. Put(name, None)
  BY <1>2
<1> HIDE DEF name
<1>6. /\ HeadersTypeOK'
      /\ headers'[name] = Append(headers[name], None)
      /\ \A other \in HeaderNames : other # name => headers'[other] = headers[other]
  BY <1>1, <1>4, <1>5, PutFacts
<1>7. Items(headers'[name]) = Items(headers[name])
  <2>1. headers[name] \in Seq(ValuesOf(name))
    BY <1>1, <1>4 DEF HeadersTypeOK
  <2> QED
    BY <1>6, <2>1, ItemsAppend
<1>8. /\ Items(headers'["cookie"]) = Items(headers["cookie"])
      /\ Items(headers'["connection"]) = Items(headers["connection"])
  BY <1>6, <1>7, ListHeaderTypes DEF ListNames
<1>9. RouteInv'
  <2> SUFFICES ASSUME topic = "route"
               PROVE  RouteInv'
    BY <1>3 DEF RouteInv
  <2>1. NothingTold'
    BY <1>1, <1>4, <1>6, StillNothingTold DEF RouteInv
  <2>2. HasToken(headers') <=> HasToken(headers)
    BY <1>8, TokenIs
  <2> QED
    BY <1>1, <1>3, <2>1, <2>2 DEF RouteInv
<1>10. HeadersInv'
  BY <1>1, <1>3, <1>8 DEF HeadersInv, ConnectionSkip
<1>11. InputsTypeOK'
  BY <1>1, <1>3, <1>6 DEF InputsTypeOK, SiteTypeOK, MeantTypeOK
<1> QED
  BY <1>3, <1>9, <1>10, <1>11

LEMMA ModeStep ==
  ASSUME InputsInv, AddMode
  PROVE  InputsTypeOK' /\ RouteInv' /\ topic' = "route"
<1>1. InputsTypeOK /\ RouteInv /\ HeadersTypeOK
  BY DEF InputsInv, InputsTypeOK
<1>2. PICK mode \in {"navigate", "no-cors", None} :
        /\ Grows("route")
        /\ Put("sec-fetch-mode", mode)
        /\ UNCHANGED <<peer, site, meant>>
  BY DEF AddMode
<1>3. /\ topic = "route" /\ topic' = "route" /\ path' = path /\ peer' = peer /\ site' = site
      /\ meant' = meant /\ steps' = steps + 1
  BY <1>2 DEF Grows
<1>4. /\ HeadersTypeOK'
      /\ \A other \in HeaderNames : other # "sec-fetch-mode" => headers'[other] = headers[other]
  <2>1. "sec-fetch-mode" \in HeaderNames /\ mode \in ValuesOf("sec-fetch-mode")
    BY ListHeaderTypes DEF ListNames
  <2> QED
    BY <1>1, <1>2, <2>1, PutFacts
<1>5. NothingTold'
  BY <1>1, <1>3, <1>4, StillNothingTold DEF RouteInv
<1>6. HasToken(headers') <=> HasToken(headers)
  BY <1>4, TokenIs, ListHeaderTypes DEF ListNames
<1>7. RouteInv'
  BY <1>1, <1>3, <1>5, <1>6 DEF RouteInv
<1> QED
  BY <1>1, <1>3, <1>4, <1>7 DEF InputsTypeOK, SiteTypeOK, MeantTypeOK

(* A file more adds its rules, and its fault if it names files             *)
(* (load_whitelist_params).                                                *)
LEMMA FileAdded ==
  ASSUME NEW S, NEW main, main.includes \in Seq(S), NEW file,
         NEW after, after.rules = main.rules, after.includes = Append(main.includes, file)
  PROVE  /\ LoadWhitelist(after) = LoadWhitelist(main) \cup file.rules
         /\ NestedIncludes(after) <=> NestedIncludes(main) \/ file.nested
<1> DEFINE old == main.includes
           new == after.includes
<1>1. /\ Len(old) \in Nat /\ DOMAIN old = 1 .. Len(old) /\ DOMAIN new = 1 .. Len(old) + 1
      /\ new[Len(old) + 1] = file
      /\ \A i \in 1 .. Len(old) : new[i] = old[i]
  OBVIOUS
<1>2. \A i \in 1 .. Len(old) + 1 : i \in 1 .. Len(old) \/ i = Len(old) + 1
  BY <1>1
<1>3. Len(old) + 1 \in 1 .. Len(old) + 1 /\ \A i \in 1 .. Len(old) : i \in 1 .. Len(old) + 1
  BY <1>1
<1> HIDE DEF old, new
<1>4. LoadWhitelist(main) = main.rules \cup UNION {old[i].rules : i \in DOMAIN old}
  BY DEF LoadWhitelist, old
<1>5. LoadWhitelist(after) = main.rules \cup UNION {new[i].rules : i \in DOMAIN new}
  BY DEF LoadWhitelist, new
<1>6. UNION {new[i].rules : i \in DOMAIN new} =
        (UNION {old[i].rules : i \in DOMAIN old}) \cup file.rules
  BY <1>1, <1>2, <1>3
<1>7. NestedIncludes(main) <=> \E i \in DOMAIN old : old[i].nested
  BY DEF NestedIncludes, old
<1>8. NestedIncludes(after) <=> \E i \in DOMAIN new : new[i].nested
  BY DEF NestedIncludes, new
<1>9. NestedIncludes(after) <=> NestedIncludes(main) \/ file.nested
  BY <1>1, <1>2, <1>3, <1>7, <1>8
<1> QED
  BY <1>4, <1>5, <1>6, <1>9

LEMMA RuleStep ==
  ASSUME InputsInv, AddRule
  PROVE  InputsTypeOK' /\ RouteInv' /\ topic' = "route"
<1>1. InputsTypeOK /\ RouteInv /\ HeadersTypeOK /\ SiteTypeOK /\ MeantTypeOK /\ peer \in Addresses
  BY DEF InputsInv, InputsTypeOK
<1>2. PICK r \in Rules, nested \in BOOLEAN :
        /\ Grows("route")
        /\ \/ /\ ~nested
              /\ site' = [site EXCEPT !.whitelist.rules = @ \cup {r.rule}]
           \/ site' = [site EXCEPT !.whitelist.includes =
                         Append(@, [rules |-> {r.rule}, nested |-> nested])]
        /\ meant' = [meant EXCEPT !.exempt = @ \/ path \in r.paths \/ peer \in r.ips,
                                   !.fault = @ \/ nested \/ r.rule.kind = "invalid"]
        /\ UNCHANGED <<headers, peer>>
  BY DEF AddRule
<1>3. /\ topic = "route" /\ topic' = "route" /\ path' = path /\ peer' = peer
      /\ headers' = headers /\ steps' = steps + 1
  BY <1>2 DEF Grows
<1>4. /\ MeantTypeOK'
      /\ meant'.exempt <=> meant.exempt \/ path \in r.paths \/ peer \in r.ips
      /\ meant'.fault <=> meant.fault \/ nested \/ r.rule.kind = "invalid"
      /\ meant'.tokens = meant.tokens
  <2> DEFINE exempt == meant.exempt \/ path \in r.paths \/ peer \in r.ips
             fault == meant.fault \/ nested \/ r.rule.kind = "invalid"
  <2>1. meant' = [meant EXCEPT !.exempt = exempt, !.fault = fault]
    BY <1>2
  <2>2. exempt \in BOOLEAN /\ fault \in BOOLEAN
    OBVIOUS
  <2> HIDE DEF exempt, fault
  <2>3. /\ MeantTypeOK' /\ meant'.exempt = exempt /\ meant'.fault = fault
        /\ meant'.tokens = meant.tokens
    BY <1>1, <2>1, <2>2 DEF MeantTypeOK
  <2> QED
    BY <2>3 DEF exempt, fault
<1> DEFINE old == site.whitelist
           new == site'.whitelist
           file == [rules |-> {r.rule}, nested |-> nested]
<1>5. /\ old.rules \in RuleSets /\ {r.rule} \in RuleSets
      /\ old.includes \in Seq([rules : RuleSets, nested : BOOLEAN])
      /\ old \in [rules : RuleSets, includes : Seq([rules : RuleSets, nested : BOOLEAN])]
  <2>1. {r.rule} \in RuleSets
    BY DEF RuleSets
  <2>2. old \in [rules : RuleSets, includes : Seq([rules : RuleSets, nested : BOOLEAN])]
    BY <1>1 DEF SiteTypeOK
  <2> HIDE DEF old
  <2> QED
    BY <2>1, <2>2
<1>6. /\ SiteTypeOK'
      /\ LoadWhitelist(new) = LoadWhitelist(old) \cup {r.rule}
      /\ NestedIncludes(new) <=> NestedIncludes(old) \/ nested
  <2>1. CASE ~nested /\ site' = [site EXCEPT !.whitelist.rules = @ \cup {r.rule}]
    <3>1. new = [old EXCEPT !.rules = old.rules \cup {r.rule}]
      BY <1>1, <2>1 DEF SiteTypeOK
    <3>2. new.rules = old.rules \cup {r.rule} /\ new.includes = old.includes
      BY <1>5, <3>1
    <3>3. old.rules \cup {r.rule} \in RuleSets
      BY <1>5 DEF RuleSets
    <3>4. new \in [rules : RuleSets, includes : Seq([rules : RuleSets, nested : BOOLEAN])]
      BY <1>5, <3>1, <3>3
    <3>5. SiteTypeOK'
      <4>1. site' = [site EXCEPT !.whitelist = new]
        BY <1>1, <2>1 DEF SiteTypeOK
      <4> HIDE DEF new
      <4> QED
        BY <1>1, <3>4, <4>1 DEF SiteTypeOK, RuleSets
    <3> QED
      BY <2>1, <3>2, <3>5 DEF LoadWhitelist, NestedIncludes
  <2>2. CASE site' = [site EXCEPT !.whitelist.includes = Append(@, file)]
    <3>1. new = [old EXCEPT !.includes = Append(old.includes, file)]
      BY <1>1, <2>2 DEF SiteTypeOK
    <3>2. new.rules = old.rules /\ new.includes = Append(old.includes, file)
      BY <1>5, <3>1
    <3>3. Append(old.includes, file) \in Seq([rules : RuleSets, nested : BOOLEAN])
      BY <1>5
    <3>4. new \in [rules : RuleSets, includes : Seq([rules : RuleSets, nested : BOOLEAN])]
      BY <1>5, <3>1, <3>3
    <3>5. SiteTypeOK'
      <4>1. site' = [site EXCEPT !.whitelist = new]
        BY <1>1, <2>2 DEF SiteTypeOK
      <4> HIDE DEF new
      <4> QED
        BY <1>1, <3>4, <4>1 DEF SiteTypeOK, RuleSets
    <3>6. /\ LoadWhitelist(new) = LoadWhitelist(old) \cup file.rules
          /\ NestedIncludes(new) <=> NestedIncludes(old) \/ file.nested
      BY <1>5, <3>2, FileAdded
    <3> QED
      BY <3>5, <3>6
  <2> QED
    BY <1>2, <2>1, <2>2
<1> HIDE DEF old, new, file
<1>7. IsExempt(LoadWhitelist(new), path, peer) <=>
        IsExempt(LoadWhitelist(old), path, peer) \/ path \in r.paths \/ peer \in r.ips
  <2>1. Matches(r.rule, path, peer) <=> path \in r.paths \/ peer \in r.ips
    BY <1>1, RuleMeaning
  <2> QED
    BY <1>6, <2>1 DEF IsExempt
<1>8. RouteInv'
  <2>1. NothingTold'
    BY <1>1, <1>3 DEF RouteInv, NothingTold, ProxyNames
  <2>2. /\ "valid" \in meant.tokens <=> HasToken(headers)
        /\ meant.exempt <=> IsExempt(LoadWhitelist(old), path, peer)
        /\ meant.fault <=> CannotLoad(old)
    BY <1>1, <1>3 DEF RouteInv, old
  <2>3. CannotLoad(new) <=> CannotLoad(old) \/ nested \/ r.rule.kind = "invalid"
    BY <1>6 DEF CannotLoad
  <2>4. /\ meant'.exempt <=> IsExempt(LoadWhitelist(new), path, peer)
        /\ meant'.fault <=> CannotLoad(new)
    BY <1>4, <1>7, <2>2, <2>3
  <2> QED
    BY <1>3, <1>4, <2>1, <2>2, <2>4 DEF RouteInv, new
<1>9. InputsTypeOK'
  <2>1. HeadersTypeOK'
    BY <1>1, <1>3 DEF HeadersTypeOK, ValuesOf
  <2> QED
    BY <1>1, <1>3, <1>4, <1>6, <2>1 DEF InputsTypeOK
<1> QED
  BY <1>3, <1>8, <1>9

-----------------------------------------------------------------------------
(* The headers of a message. *)

LEMMA FieldStep ==
  ASSUME InputsInv, AddField
  PROVE  InputsTypeOK' /\ HeadersInv' /\ topic' = "headers"
<1>1. InputsTypeOK /\ HeadersInv /\ HeadersTypeOK /\ steps \in Nat
  BY DEF InputsInv, InputsTypeOK
<1>2. PICK name \in Names : Grows("headers") /\ Put(name, steps) /\ UNCHANGED <<peer, site, meant>>
  BY DEF AddField
<1>3. /\ topic = "headers" /\ topic' = "headers" /\ peer' = peer /\ site' = site
      /\ meant' = meant /\ steps' = steps + 1
  BY <1>2 DEF Grows
<1>4. name \in HeaderNames /\ name # "connection" /\ steps \in ValuesOf(name)
  BY <1>1, ListHeaderTypes DEF ListNames
<1>5. /\ HeadersTypeOK'
      /\ \A other \in HeaderNames : other # name => headers'[other] = headers[other]
  BY <1>1, <1>2, <1>4, PutFacts
<1>6. headers'["connection"] = headers["connection"]
  BY <1>4, <1>5, ListHeaderTypes DEF ListNames
<1> QED
  BY <1>1, <1>3, <1>5, <1>6
  DEF HeadersInv, ConnectionSkip, InputsTypeOK, SiteTypeOK, MeantTypeOK

LEMMA NominateStep ==
  ASSUME InputsInv, Nominate
  PROVE  InputsTypeOK' /\ HeadersInv' /\ topic' = "headers"
<1>1. InputsTypeOK /\ HeadersInv /\ HeadersTypeOK /\ MeantTypeOK
  BY DEF InputsInv, InputsTypeOK
<1>2. PICK name \in Names :
        /\ Grows("headers")
        /\ Extend("connection", <<name>>)
        /\ meant' = [meant EXCEPT !.skip = @ \cup {name}]
        /\ UNCHANGED <<peer, site>>
  BY DEF Nominate
<1>3. /\ topic = "headers" /\ topic' = "headers" /\ peer' = peer /\ site' = site
      /\ steps' = steps + 1
  BY <1>2 DEF Grows
<1>4. /\ HeadersTypeOK'
      /\ Items(headers'["connection"]) = Items(headers["connection"]) \cup Range(<<name>>)
  <2>1. <<name>> \in Seq(Names) /\ "connection" \in ListNames
    BY DEF ListNames
  <2> QED
    BY <1>1, <1>2, <2>1, ListHeaderTypes, InputsAssumption, ExtendFacts
<1>5. Range(<<name>>) = {name}
  BY DEF Range
<1>6. MeantTypeOK' /\ meant'.skip = meant.skip \cup {name}
  BY <1>1, <1>2 DEF MeantTypeOK
<1>7. HeadersInv'
  BY <1>1, <1>3, <1>4, <1>5, <1>6 DEF HeadersInv, ConnectionSkip
<1> QED
  BY <1>1, <1>3, <1>4, <1>6, <1>7 DEF InputsTypeOK, SiteTypeOK

-----------------------------------------------------------------------------
(* Theorems. *)

LEMMA QuietStep ==
  ASSUME InputsInv, UNCHANGED inputs
  PROVE  InputsInv'
BY DEF inputs, InputsInv, InputsTypeOK, HeadersTypeOK, ValuesOf, SiteTypeOK, MeantTypeOK,
       SourceInv, Told, Harmless, NothingTold, RouteInv, HeadersInv

LEMMA NextInputs == InputsInv /\ [InputsNext]_<<work, inputs>> => InputsInv'
<1> SUFFICES ASSUME InputsInv, [InputsNext]_<<work, inputs>>
             PROVE  InputsInv'
  OBVIOUS
<1>1. CASE UNCHANGED inputs
  BY <1>1, QuietStep
<1>2. CASE HopRealIp
  BY <1>2, RealIpStep DEF InputsInv, RouteInv, HeadersInv
<1>3. CASE HopForwardedFor
  BY <1>3, ForwardedForStep DEF InputsInv, RouteInv, HeadersInv
<1>4. CASE HopForwarded
  BY <1>4, ForwardedStep DEF InputsInv, RouteInv, HeadersInv
<1>5. CASE AddCookie
  BY <1>5, CookieStep DEF InputsInv, SourceInv, HeadersInv
<1>6. CASE AddUnreadable
  BY <1>6, UnreadableStep DEF InputsInv, SourceInv
<1>7. CASE AddMode
  BY <1>7, ModeStep DEF InputsInv, SourceInv, HeadersInv
<1>8. CASE AddRule
  BY <1>8, RuleStep DEF InputsInv, SourceInv, HeadersInv
<1>9. CASE AddField
  BY <1>9, FieldStep DEF InputsInv, SourceInv, RouteInv
<1>10. CASE Nominate
  BY <1>10, NominateStep DEF InputsInv, SourceInv, RouteInv
<1>11. CASE ClientSends
  BY <1>11, SendStep DEF InputsInv, RouteInv, HeadersInv
<1> QED
  BY <1>1, <1>2, <1>3, <1>4, <1>5, <1>6, <1>7, <1>8, <1>9, <1>10, <1>11 DEF InputsNext

(* What the elements of a request and of the settings stand for and what   *)
(* the code reads out of them agree after every element.                   *)
THEOREM MeaningIsRead == InputsSpec => []InputsInv
<1>1. InputsInit => InputsInv
  BY InitInputs
<1>2. InputsInv /\ [InputsNext]_<<work, inputs>> => InputsInv'
  BY NextInputs
<1> QED
  BY <1>1, <1>2, PTL DEF InputsSpec

(* Behind proxies of any number, whose conventions do not overrule the     *)
(* first one's, client_ip finds the client, whatever the client sent in    *)
(* the headers that the first one overrules.                               *)
THEOREM SourceIsFound == InputsSpec => []SourceFound
<1>1. InputsInv => SourceFound
  <2> SUFFICES ASSUME InputsInv, topic = "source", Told
               PROVE  ClientIp(headers, peer) = meant.client
    BY DEF SourceFound
  <2>1. CASE meant.hops = << >>
    <3>1. NothingTold /\ peer = meant.client
      BY <2>1 DEF InputsInv, SourceInv, NothingTold, Told
    <3> QED
      BY <3>1, PeerIfNothingTold
  <2>2. CASE meant.hops # << >>
    <3>1. FirstTold(meant.hops[1], headers, meant.client)
      BY <2>2 DEF InputsInv, SourceInv
    <3> QED
      BY <3>1, SourceIsTold DEF InputsInv, InputsTypeOK
  <2> QED
    BY <2>1, <2>2
<1> QED
  BY <1>1, MeaningIsRead, PTL

(* route_request challenges exactly the requests that are due, whatever    *)
(* cookies, modes, rules and include files came together.                  *)
THEOREM ChallengeIsDecided == InputsSpec => []ChallengeIsDue
<1>1. InputsInv => ChallengeIsDue
  <2> SUFFICES ASSUME InputsInv, topic = "route"
               PROVE  ChallengeIsDue
    BY DEF ChallengeIsDue
  <2> DEFINE all == Resolve(site.env, site.file, FALSE)
             exempt == IsExempt(LoadWhitelist(site.whitelist), path, ClientIp(headers, peer))
             on == all \/ site.tripped
  <2>1. /\ NothingTold
        /\ "valid" \in meant.tokens <=> HasToken(headers)
        /\ meant.exempt <=> IsExempt(LoadWhitelist(site.whitelist), path, peer)
        /\ meant.fault <=> CannotLoad(site.whitelist)
    BY DEF InputsInv, RouteInv
  <2>2. meant.exempt <=> exempt
    BY <2>1, PeerIfNothingTold
  <2>3. /\ site.env \in BOOLEAN \cup {None, Invalid} /\ site.file \in BOOLEAN \cup {None}
        /\ site.tripped \in BOOLEAN
    BY DEF InputsInv, InputsTypeOK, SiteTypeOK
  <2>4. all = Invalid <=> site.env = Invalid
    BY <2>3, OptionAssumption DEF Resolve, OrElse
  <2>5. all # Invalid => (on <=> ChallengesOn)
    <3>1. CASE site.env = None
      BY <2>3, <3>1, OptionAssumption DEF Resolve, OrElse, ChallengesOn
    <3>2. CASE site.env # None
      BY <2>3, <3>2, OptionAssumption DEF Resolve, OrElse, ChallengesOn
    <3> QED
      BY <3>1, <3>2
  <2>6. IsSubresource(headers) <=>
          headers["sec-fetch-mode"] # << >> /\ headers["sec-fetch-mode"][1] = "no-cors"
    <3>1. headers["sec-fetch-mode"] \in Seq({"navigate", "no-cors", None})
      BY ListHeaderTypes DEF InputsInv, InputsTypeOK, HeadersTypeOK, ListNames
    <3>2. headers["sec-fetch-mode"] # << >> =>
            headers["sec-fetch-mode"][1] \in {"navigate", "no-cors", None}
      BY <3>1
    <3> QED
      BY <3>2, OptionAssumption DEF IsSubresource, Get
  <2>7. Bypasses <=> exempt \/ HasToken(headers) \/ IsSubresource(headers)
    BY <2>1, <2>2, <2>6 DEF Bypasses
  <2>8. Route(site, site.tripped, path, headers, peer) =
          IF all = Invalid \/ CannotLoad(site.whitelist) THEN "down"
          ELSE IF path = "/__heavy/" THEN "heavy"
          ELSE IF on /\ ~exempt /\ ~IsSubresource(headers) /\ ~HasToken(headers)
               THEN "challenge"
          ELSE "proxy"
    BY DEF Route
  <2> HIDE DEF all, exempt, on
  <2>9. Senseless <=> all = Invalid \/ CannotLoad(site.whitelist)
    BY <2>1, <2>4 DEF Senseless
  <2> QED
    BY <2>5, <2>7, <2>8, <2>9 DEF ChallengeIsDue
<1> QED
  BY <1>1, MeaningIsRead, PTL

(* filter_headers drops what is about one connection and nothing else, for *)
(* every list of names in every number of Connection headers.              *)
THEOREM HeadersAreKept == InputsSpec => []HeadersKept
<1>1. InputsInv => HeadersKept
  <2>1. HopByHop = OneConnection
    BY DEF HopByHop, OneConnection
  <2> QED
    BY <2>1 DEF InputsInv, InputsTypeOK, HeadersTypeOK, HeadersInv, HeadersKept, FilterHeaders
<1> QED
  BY <1>1, MeaningIsRead, PTL

(* What is proved about the search for a proof of work holds when it is    *)
(* one topic of several.                                                   *)
LEMMA InputsKeepWork == InputsSpec => Spec
<1>1. InputsInit => Init
  BY DEF InputsInit
<1>2. [InputsNext]_<<work, inputs>> => [Scan]_work
  BY DEF InputsNext, ClientSends, HopRealIp, HopForwardedFor, HopForwarded, Hop, AddCookie, AddUnreadable,
         AddMode, AddRule, AddField, Nominate, Grows
<1> QED
  BY <1>1, <1>2, PTL DEF InputsSpec, Spec

(* verify_proof_of_work accepts what worker.js posts beside all of that. *)
THEOREM InputsWorkAccepted == InputsSpec => []WorkAccepted
BY InputsKeepWork, WorkIsAccepted, PTL

(* And nothing it accepts spares the search. *)
THEOREM InputsNoShortcut == InputsSpec => []NoShortcut
BY InputsKeepWork, NothingSparesTheSearch, PTL

(* A second Heavy behind the first finds nothing left to drop: whatever    *)
(* the headers, filter_headers removes at once all that it ever would.     *)
THEOREM FilteringIsFinal ==
  ASSUME NEW map, "connection" \in DOMAIN map
  PROVE  FilterHeaders(FilterHeaders(map)) = FilterHeaders(map)
<1> DEFINE once == FilterHeaders(map)
<1>1. /\ DOMAIN once = DOMAIN map
      /\ \A name \in DOMAIN map : name \in HopByHop => once[name] = << >>
  BY DEF FilterHeaders
<1>2. once["connection"] = << >>
  BY <1>1 DEF HopByHop
<1>3. ConnectionSkip(once) = {}
  BY <1>2, ItemsMember DEF ConnectionSkip
<1>4. once = [name \in DOMAIN map |-> once[name]]
  BY DEF FilterHeaders
<1> HIDE DEF once
<1>5. FilterHeaders(once) = [name \in DOMAIN map |-> once[name]]
  BY <1>1, <1>3 DEF FilterHeaders
<1> QED
  BY <1>4, <1>5 DEF once

(* client_ip always answers with an address, whatever the headers hold:    *)
(* values that are no text, entries that are no address, parameters        *)
(* without an equals sign or a key.  (A list split out of a value has at   *)
(* least one entry.)                                                       *)
THEOREM ClientIsSomebody ==
  ASSUME HeadersTypeOK, peer \in Addresses,
         \A i \in 1 .. Len(headers["x-forwarded-for"]) : headers["x-forwarded-for"][i] # << >>
  PROVE  ClientIp(headers, peer) \in Addresses
<1> DEFINE real == Get(headers, "x-real-ip")
           chain == Get(headers, "x-forwarded-for")
           params == Get(headers, "forwarded")
<1>1. real \in Addresses \cup {None}
  <2>1. headers["x-real-ip"] \in Seq(Addresses \cup {None})
    BY ListHeaderTypes DEF HeadersTypeOK, ListNames
  <2> QED
    BY <2>1 DEF Get
<1>2. Leftmost(chain) \in Addresses \cup {None}
  <2>1. headers["x-forwarded-for"] \in Seq(Seq(Addresses \cup {None}) \cup {None})
    BY ListHeaderTypes DEF HeadersTypeOK, ListNames
  <2>2. chain # None => chain \in Seq(Addresses \cup {None}) /\ chain # << >>
    BY <2>1 DEF Get
  <2> HIDE DEF chain
  <2> QED
    BY <2>2 DEF Leftmost
<1>3. ParseForwardedFor(params) \in Addresses \cup {None}
  <2>1. headers["forwarded"] \in Seq(Seq(Params) \cup {None})
    BY ListHeaderTypes DEF HeadersTypeOK, ListNames
  <2>2. params # None => params \in Seq(Params)
    BY <2>1 DEF Get
  <2> HIDE DEF params
  <2> SUFFICES ASSUME ParseForwardedFor(params) # None
               PROVE  ParseForwardedFor(params) \in Addresses
    OBVIOUS
  <2> DEFINE deciding == {i \in DOMAIN params : Decides(params[i])}
  <2>3. /\ params \in Seq(Params) /\ deciding # {}
        /\ ParseForwardedFor(params) = params[Min(deciding)].node
    BY <2>2 DEF ParseForwardedFor
  <2>4. deciding \subseteq Nat /\ deciding \subseteq DOMAIN params
    BY <2>3
  <2> HIDE DEF deciding
  <2>5. PICK k \in deciding : \A j \in deciding : k <= j
    BY ONLY <2>3, <2>4, HasFirst
  <2>6. Min(deciding) = k
    BY ONLY <2>4, <2>5, MinIs
  <2>7. params[k] \in Params
    BY <2>3, <2>4
  <2>8. params[k].node \in Addresses \cup {None}
    BY <2>7 DEF Params, Param
  <2> QED
    BY <2>3, <2>6, <2>8
<1> QED
  BY <1>1, <1>2, <1>3 DEF ClientIp, OrElse
=============================================================================
