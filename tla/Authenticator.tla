---------------------------- MODULE Authenticator ----------------------------
(***************************************************************************)
(* Puzzles and tokens: src/src/challenge.rs, verify_and_issue_token and    *)
(* the challenge branch of route_request in src/src/main.rs, and the page  *)
(* src/templates/challenge.html that one browser runs in several tabs.     *)
(*                                                                         *)
(* The server stores nothing.  A puzzle is its timestamp and the client    *)
(* (address and user agent) it was made for; a token carries the timestamp *)
(* of its puzzle; both are bound to the client by keyed hashes, so that    *)
(* only a record made by the server for the same client and timestamp      *)
(* verifies.  What goes on meanwhile: the solver takes its time, a client  *)
(* posts without having solved its puzzle, tabs share the cookie, responses*)
(* get lost, a request is delivered twice, the client's address changes,   *)
(* and the server's wall clock is set back.                                *)
(*                                                                         *)
(* Time passes in ticks that are shorter than a second: timestamps are cut *)
(* down to whole seconds, but compared with the time of day as it is.      *)
(***************************************************************************)
EXTENDS Integers

CONSTANTS
  Tabs,            (* tabs of the browser                                  *)
  Addresses,       (* who the server takes the browser for                 *)
  Second,          (* ticks in a second                                    *)
  PuzzleLifetime,  (* PUZZLE_LIFETIME                                      *)
  TokenLifetime,   (* config.token_lifetime                                *)
  SolveTime,       (* a page is loaded, solved and reloaded within this    *)
  MaxTime,         (* bound of the model: real time stops there            *)
  None

ASSUME ConstantsAssumption ==
  /\ Second \in Nat \ {0}
  /\ PuzzleLifetime \in Nat
  /\ TokenLifetime \in Nat
  /\ SolveTime \in Nat
  /\ MaxTime \in Nat
  /\ None \notin [ts : Nat, for : Addresses]
  /\ None \notin [token : [ts : Nat, for : Addresses], until : Nat]

VARIABLES
  clock,       (* real time                                                *)
  skew,        (* how far the server's wall clock is behind it             *)
  address,     (* the browser's current address                            *)
  on,          (* challenges_on                                            *)
  tab,         (* state, puzzle and load time of each tab                  *)
  jar,         (* the _heavy-token cookie: token and time of expiry        *)
  solved,      (* history: puzzles the browser solved                      *)
  minted,      (* history: tokens the server gave out                      *)
  disturbed    (* history: the address or the wall clock was changed       *)

environment == <<clock, skew, address, on, disturbed>>
vars == <<environment, tab, jar, solved, minted>>

wall == clock - skew

(* "open": shows the site; "solving": runs the worker; "solved": posts;    *)
(* "granted": the server accepted; "reload": the cookie is stored;         *)
(* "failed": got a 400; "stuck": the answer to the post got lost.          *)
TabStates ==
  {"blank", "open", "solving", "solved", "granted", "reload", "failed", "stuck"}

(* States the page leaves by itself, without the user. *)
Busy == {"solving", "solved", "granted", "reload"}

Stamps == [ts : 0 .. clock, for : Addresses]

Init ==
  /\ clock = 0
  /\ skew = 0
  /\ address \in Addresses
  /\ on = TRUE
  /\ tab = [t \in Tabs |-> [state |-> "blank", puzzle |-> None, loaded |-> 0]]
  /\ jar = None
  /\ solved = {}
  /\ minted = {}
  /\ disturbed = FALSE

-----------------------------------------------------------------------------
(* challenge.rs *)

(* Mutant: a timestamp in the future counts as fresh. *)
FreshIfFuture(ts, lifetime) == wall - ts <= lifetime

(* Mutant: the last instant of a lifetime does not belong to it. *)
IsFreshStrict(ts, lifetime) == ts <= wall /\ wall - ts < lifetime

(* A timestamp from the future is not fresh. *)
IsFresh(ts, lifetime) == ts <= wall /\ wall - ts <= lifetime

WholeSeconds(time) == time - (time % Second)

(* now_secs drops the fraction, so that a puzzle is dated up to a second   *)
(* before it was made.                                                     *)
MakePuzzle == [ts |-> WholeSeconds(wall), for |-> address]

(* Mutant: the token starts to count when it is minted. *)
MintNow(puzzle) == [ts |-> WholeSeconds(wall), for |-> puzzle.for]

(* The token has the timestamp of the puzzle. *)
Mint(puzzle) == puzzle

(* Mutant: the offsets are not looked at. *)
RedeemsUnworked(ts, offsets) == IsFresh(ts, PuzzleLifetime)

(* A submission is a timestamp and offsets, which are abstracted to the    *)
(* puzzle they solve, if any.  The nonce they must solve is derived from   *)
(* the timestamp and the address of the submission.                        *)
Redeems(ts, offsets) ==
  /\ IsFresh(ts, PuzzleLifetime)
  /\ offsets = [ts |-> ts, for |-> address]

(* Mutant: a token lives no longer than a puzzle. *)
VerifyShort(token) == IsFresh(token.ts, PuzzleLifetime) /\ token.for = address

VerifyToken(token) == IsFresh(token.ts, TokenLifetime) /\ token.for = address

-----------------------------------------------------------------------------
(* The browser and the routes it calls. *)

Becomes(t, state) == tab' = [tab EXCEPT ![t].state = state]

(* A page without a puzzle. *)
Shows(t, state) ==
  tab' = [tab EXCEPT ![t] = [state |-> state, puzzle |-> None, loaded |-> 0]]

(* The browser sends the cookie until its Max-Age is over; it does not even *)
(* store one with Max-Age=0.                                               *)
CookieSent == jar # None /\ TokenLifetime > 0 /\ clock <= jar.until

Admitted == ~on \/ (CookieSent /\ VerifyToken(jar.token))

(* The user opens or reloads a page at any time, or the script does in the *)
(* end.                                                                    *)
LoadSite(t) ==
  /\ Admitted
  /\ Shows(t, "open")
  /\ UNCHANGED <<environment, jar, solved, minted>>

LoadChallenge(t) ==
  /\ ~Admitted
  /\ tab' = [tab EXCEPT ![t] =
       [state |-> "solving", puzzle |-> MakePuzzle, loaded |-> clock]]
  /\ UNCHANGED <<environment, jar, solved, minted>>

Solve(t) ==
  /\ tab[t].state = "solving"
  /\ Becomes(t, "solved")
  /\ solved' = solved \cup {tab[t].puzzle}
  /\ UNCHANGED <<environment, jar, minted>>

(* POST /__heavy/submit.  The page posts what it solved.  Another client   *)
(* posts before it has solved anything, with offsets that solve nothing or *)
(* with those of any puzzle that was ever solved.                          *)
Posts(t, offsets) ==
  \/ tab[t].state = "solved" /\ offsets = tab[t].puzzle
  \/ tab[t].state = "solving" /\ offsets \in solved \cup {None}

SubmitAccepted(t, offsets) ==
  /\ Posts(t, offsets)
  /\ Redeems(tab[t].puzzle.ts, offsets)
  /\ LET redeemed == [ts |-> tab[t].puzzle.ts, for |-> address]
     IN  /\ tab' = [tab EXCEPT ![t].state = "granted", ![t].puzzle = redeemed]
         /\ minted' = minted \cup {Mint(redeemed)}
  /\ UNCHANGED <<environment, jar, solved>>

SubmitRejected(t, offsets) ==
  /\ Posts(t, offsets)
  /\ ~Redeems(tab[t].puzzle.ts, offsets)
  /\ Shows(t, "failed")
  /\ UNCHANGED <<environment, jar, solved, minted>>

(* The same submission reaches the server once more. *)
SubmitAgain(t) ==
  /\ tab[t].state \in {"granted", "stuck"}
  /\ Redeems(tab[t].puzzle.ts, tab[t].puzzle)
  /\ minted' = minted \cup {Mint(tab[t].puzzle)}
  /\ UNCHANGED <<environment, tab, jar, solved>>

(* Mutant: the page reloads without waiting for the cookie. *)
ReceiveNothing(t) ==
  /\ tab[t].state = "granted"
  /\ tab' = [tab EXCEPT ![t].state = "reload", ![t].puzzle = None]
  /\ UNCHANGED <<environment, jar, solved, minted>>

(* Set-Cookie: Max-Age counts from now on. *)
ReceiveToken(t) ==
  /\ tab[t].state = "granted"
  /\ jar' = [token |-> Mint(tab[t].puzzle), until |-> clock + TokenLifetime]
  /\ tab' = [tab EXCEPT ![t].state = "reload", ![t].puzzle = None]
  /\ UNCHANGED <<environment, solved, minted>>

(* fetch fails, and nothing in the page catches it. *)
LoseAnswer(t) ==
  /\ tab[t].state \in {"solved", "granted"}
  /\ Becomes(t, "stuck")
  /\ UNCHANGED <<environment, jar, solved, minted>>

-----------------------------------------------------------------------------
(* The environment. *)

(* A page that is at work is through after SolveTime. *)
Tick ==
  /\ clock < MaxTime
  /\ \A t \in Tabs : tab[t].state \in Busy => clock < tab[t].loaded + SolveTime
  /\ clock' = clock + 1
  /\ UNCHANGED <<skew, address, on, disturbed, tab, jar, solved, minted>>

(* The wall clock is set back by one.  (The model has one disturbance per  *)
(* behaviour.)                                                             *)
SetBack ==
  /\ ~disturbed
  /\ wall > 0
  /\ skew' = 1
  /\ disturbed' = TRUE
  /\ UNCHANGED <<clock, address, on, tab, jar, solved, minted>>

(* The address or the user agent changes; a server that restarts with a    *)
(* random token_secret does the same to every browser.                     *)
Move ==
  /\ ~disturbed
  /\ address' \in Addresses \ {address}
  /\ disturbed' = TRUE
  /\ UNCHANGED <<clock, skew, on, tab, jar, solved, minted>>

BreakerFlips ==
  /\ on' = ~on
  /\ UNCHANGED <<clock, skew, address, disturbed, tab, jar, solved, minted>>

Next ==
  \/ \E t \in Tabs :
       \/ LoadSite(t) \/ LoadChallenge(t) \/ Solve(t)
       \/ \E offsets \in solved \cup {None} :
            SubmitAccepted(t, offsets) \/ SubmitRejected(t, offsets)
       \/ SubmitAgain(t) \/ ReceiveToken(t) \/ LoseAnswer(t)
  \/ Tick \/ SetBack \/ Move \/ BreakerFlips

Spec == Init /\ [][Next]_vars

-----------------------------------------------------------------------------
(* Properties. *)

TypeOK ==
  /\ clock \in 0 .. MaxTime
  /\ skew \in 0 .. 1 /\ skew <= clock
  /\ address \in Addresses
  /\ on \in BOOLEAN
  /\ tab \in [Tabs -> [state : TabStates, puzzle : Stamps \cup {None}, loaded : 0 .. clock]]
  /\ jar \in [token : Stamps, until : Nat] \cup {None}
  /\ solved \subseteq Stamps
  /\ minted \subseteq Stamps
  /\ disturbed \in BOOLEAN

(* "You can't replay a solution to get unlimited tokens": every token ever *)
(* given out is the one token of a puzzle that was solved, however often   *)
(* and however late its solution is submitted.                             *)
OneTokenPerPuzzle == minted \subseteq solved

(* While challenges are on, a page is shown only for work, although        *)
(* clients post whatever they like: a puzzle made for the very address of  *)
(* the request was solved, dated not in the future and no longer ago than  *)
(* a token lives, by the clock of the server.                              *)
Opens(t) == tab'[t].state = "open" /\ tab[t].state # "open"

NoFreeEntry ==
  [][\A t \in Tabs : (on /\ Opens(t)) =>
       \E p \in solved : p.for = address /\ p.ts <= wall /\ wall - p.ts <= TokenLifetime]_vars

(* A round takes SolveTime, and the fraction of a second that is dropped   *)
(* from a timestamp makes a puzzle and its token look older by as much.    *)
Fraction == Second - 1

TwoRounds == TokenLifetime > 0 /\ 2 * SolveTime + Fraction <= TokenLifetime

(* A tab that just got its cookie is not challenged again, as long as the  *)
(* address and the wall clock stay: not even when another tab's older      *)
(* token overwrites its own.  The token must outlive two rounds and the    *)
(* fraction of a second it was born with.                                  *)
NoChallengeLoop ==
  [][\A t \in Tabs :
       (~disturbed /\ tab[t].state = "reload" /\ TwoRounds) => tab'[t].state # "solving"]_vars

(* Undisturbed, and with solutions in time for the puzzle even though it   *)
(* is dated up to a second early, no solution is ever rejected.            *)
NoFalseRejection ==
  [][\A t \in Tabs :
       (~disturbed /\ tab[t].state = "solved" /\ SolveTime + Fraction <= PuzzleLifetime)
         => tab'[t].state # "failed"]_vars

(* The inductive invariant behind them.  A puzzle whose solution is on its *)
(* way was solved, and tokens come from solved puzzles only; while nothing *)
(* is disturbed, a page at work holds a puzzle for the current address     *)
(* from the second in which it was loaded, a page that is about to reload  *)
(* finds a cookie that is at most one round and a fraction of a second     *)
(* older than itself, and no cookie expires later than that after its      *)
(* token.                                                                  *)
WorkInv ==
  /\ \A t \in Tabs :
       /\ tab[t].state = "solving" => tab[t].puzzle \in Stamps
       /\ tab[t].state \in {"solved", "granted", "stuck"} => tab[t].puzzle \in solved
       /\ tab[t].state \in Busy => clock <= tab[t].loaded + SolveTime
  /\ jar # None => jar.token \in solved

HasPuzzle(t) == tab[t].state \in {"solving", "solved", "granted"}

HoldsCookie(t) ==
  /\ jar # None
  /\ jar.token.for = address
  /\ tab[t].loaded <= jar.token.ts + SolveTime + Fraction
  /\ tab[t].loaded + TokenLifetime <= jar.until

AlmostInTime ==
  jar # None =>
    /\ jar.token.for = address
    /\ jar.until <= jar.token.ts + TokenLifetime + SolveTime + Fraction

UndisturbedInv ==
  ~disturbed =>
    /\ skew = 0
    /\ AlmostInTime
    /\ \A t \in Tabs :
         /\ HasPuzzle(t) => tab[t].puzzle = [ts |-> WholeSeconds(tab[t].loaded), for |-> address]
         /\ tab[t].state = "reload" => HoldsCookie(t)

IInv ==
  /\ TypeOK
  /\ WorkInv
  /\ OneTokenPerPuzzle
  /\ UndisturbedInv

(* "How long a token (and its cookie) remain valid": undisturbed, the      *)
(* cookie the browser still sends carries a token that still verifies.     *)
CookieMatchesToken == (~disturbed /\ CookieSent) => VerifyToken(jar.token)

(* By how much it misses: undisturbed, a cookie the browser still sends    *)
(* carries a token for this browser that is not from the future, and       *)
(* expired no longer ago than a round takes, and a fraction of a second.   *)
CookieLagsOneRound ==
  (~disturbed /\ CookieSent) =>
    /\ jar.token.for = address
    /\ jar.token.ts <= wall
    /\ wall - jar.token.ts <= TokenLifetime + SolveTime + Fraction
=============================================================================
