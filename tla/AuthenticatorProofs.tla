------------------------- MODULE AuthenticatorProofs -------------------------
(***************************************************************************)
(* What Authenticator.tla promises, for any number of tabs and addresses   *)
(* and any lifetimes.                                                      *)
(***************************************************************************)
EXTENDS Authenticator, TLAPS

(* Cutting a time down to whole seconds takes less than a second off.      *)
LEMMA WholeSecondsBounds ==
  ASSUME NEW time \in Nat
  PROVE  WholeSeconds(time) \in 0 .. time /\ time <= WholeSeconds(time) + Fraction
<1>1. Second \in Nat /\ Second > 0
  BY ConstantsAssumption DEF ConstantsAssumption
<1>2. time % Second \in 0 .. (Second - 1)
  BY <1>1
<1>3. time = Second * (time \div Second) + (time % Second) /\ time \div Second \in Nat
  BY <1>1
<1>4. Second * (time \div Second) \in Nat
  BY <1>1, <1>3
<1> QED
  BY <1>1, <1>2, <1>3, <1>4 DEF WholeSeconds, Fraction

(* A fresh browser satisfies the inductive invariant. *)
LEMMA InitIInv == Init => IInv
<1> SUFFICES ASSUME Init PROVE IInv
  OBVIOUS
<1> USE DEF Init
<1>1. TypeOK
  <2>1. 0 \in 0 .. clock /\ clock \in 0 .. MaxTime /\ skew \in 0 .. 1 /\ skew <= clock
    BY ConstantsAssumption DEF ConstantsAssumption
  <2>2. tab \in [Tabs -> [state : TabStates, puzzle : Stamps \cup {None}, loaded : 0 .. clock]]
    BY <2>1 DEF TabStates
  <2> QED BY <2>1, <2>2 DEF TypeOK
<1>2. WorkInv /\ OneTokenPerPuzzle
  BY DEF WorkInv, OneTokenPerPuzzle, Busy
<1>3. UndisturbedInv
  BY DEF UndisturbedInv, HasPuzzle, AlmostInTime
<1> QED BY <1>1, <1>2, <1>3 DEF IInv

(* The wall clock shows a time that has been, and a puzzle carries it.     *)
LEMMA WallType ==
  ASSUME TypeOK
  PROVE  wall \in 0 .. clock /\ MakePuzzle \in Stamps
<1>1. wall \in 0 .. clock /\ clock \in Nat /\ address \in Addresses
  BY ConstantsAssumption DEF TypeOK, wall, ConstantsAssumption
<1>2. WholeSeconds(wall) \in 0 .. wall
  BY <1>1, WholeSecondsBounds
<1> QED
  BY <1>1, <1>2 DEF MakePuzzle, Stamps

(* Showing a page, with or without a puzzle in it, keeps the invariant.    *)
LEMMA LoadStep ==
  ASSUME IInv, NEW t \in Tabs, LoadSite(t) \/ LoadChallenge(t)
  PROVE  IInv'
<1> USE DEF IInv, TypeOK, WorkInv, UndisturbedInv, OneTokenPerPuzzle
<1>1. CASE LoadSite(t)
  <2> USE <1>1 DEF LoadSite, Shows, environment
  <2>1. TypeOK'
    BY DEF TabStates, Stamps
  <2>2. WorkInv'
    BY DEF Busy, Stamps
  <2>3. UndisturbedInv'
    BY DEF HasPuzzle, HoldsCookie, AlmostInTime
  <2> QED BY <2>1, <2>2, <2>3
<1>2. CASE LoadChallenge(t)
  <2> USE <1>2 DEF LoadChallenge, environment
  <2>1. TypeOK'
    BY WallType, ConstantsAssumption DEF TabStates, Stamps, ConstantsAssumption
  <2>2. WorkInv'
    BY WallType, ConstantsAssumption DEF Busy, Stamps, ConstantsAssumption
  <2>3. UndisturbedInv'
    BY DEF HasPuzzle, HoldsCookie, AlmostInTime, MakePuzzle, wall
  <2> QED BY <2>1, <2>2, <2>3
<1> QED BY <1>1, <1>2

(* Solving and submitting keeps it. *)
LEMMA SubmitStep ==
  ASSUME IInv, NEW t \in Tabs,
         \/ Solve(t) \/ SubmitAgain(t) \/ LoseAnswer(t)
         \/ \E offsets \in solved \cup {None} :
              SubmitAccepted(t, offsets) \/ SubmitRejected(t, offsets)
  PROVE  IInv'
<1> USE DEF IInv, TypeOK, WorkInv, UndisturbedInv, OneTokenPerPuzzle, environment
<1>1. CASE Solve(t)
  <2> USE <1>1 DEF Solve, Becomes
  <2>1. TypeOK'
    BY DEF TabStates, Stamps
  <2>2. WorkInv' /\ OneTokenPerPuzzle'
    BY DEF Busy, Stamps
  <2>3. UndisturbedInv'
    BY DEF HasPuzzle, HoldsCookie, AlmostInTime
  <2> QED BY <2>1, <2>2, <2>3
<1>2. ASSUME NEW offsets \in solved \cup {None}, SubmitAccepted(t, offsets)
      PROVE  IInv'
  <2> DEFINE redeemed == [ts |-> tab[t].puzzle.ts, for |-> address]
  <2>0. redeemed = offsets /\ redeemed \in solved /\ redeemed \in Stamps
    <3>1. redeemed = offsets
      BY <1>2 DEF SubmitAccepted, Redeems
    <3>2. tab[t].puzzle \in Stamps
      BY <1>2 DEF SubmitAccepted, Posts
    <3>3. redeemed \in Stamps
      BY <3>2 DEF Stamps
    <3>4. None \notin Stamps
      BY ConstantsAssumption DEF Stamps, ConstantsAssumption
    <3> QED BY <3>1, <3>3, <3>4
  <2>1. /\ tab' = [tab EXCEPT ![t].state = "granted", ![t].puzzle = redeemed]
        /\ minted' = minted \cup {redeemed}
        /\ UNCHANGED <<environment, jar, solved>>
    BY <1>2 DEF SubmitAccepted, Mint
  <2>2. tab[t].state \in {"solving", "solved"}
    BY <1>2 DEF SubmitAccepted, Posts
  <2> HIDE DEF redeemed
  <2>3. TypeOK'
    <3>1. Stamps' = Stamps
      BY <2>1 DEF Stamps
    <3>2. tab' \in [Tabs -> [state : TabStates, puzzle : Stamps \cup {None}, loaded : 0 .. clock]]
      <4> DEFINE P == Stamps \cup {None}
      <4>1. tab \in [Tabs -> [state : TabStates, puzzle : P, loaded : 0 .. clock]]
        OBVIOUS
      <4>2. tab' = [tab EXCEPT ![t].state = "granted", ![t].puzzle = redeemed] /\ redeemed \in P
        BY <2>0, <2>1
      <4>3. "granted" \in TabStates
        BY DEF TabStates
      <4> HIDE DEF P
      <4>4. tab' \in [Tabs -> [state : TabStates, puzzle : P, loaded : 0 .. clock]]
        BY ONLY <4>1, <4>2, <4>3
      <4> QED BY <4>4 DEF P
    <3>3. minted' \subseteq Stamps
      BY <2>0, <2>1
    <3> QED BY <2>1, <3>1, <3>2, <3>3
  <2>4. WorkInv' /\ OneTokenPerPuzzle'
    BY <2>0, <2>1, <2>2 DEF Busy, Stamps
  <2>5. ASSUME ~disturbed
        PROVE  redeemed = tab[t].puzzle
    <3>1. tab[t].puzzle = [ts |-> WholeSeconds(tab[t].loaded), for |-> address]
      BY <2>2, <2>5 DEF HasPuzzle
    <3> QED BY <3>1 DEF redeemed
  <2>6. UndisturbedInv'
    <3>1. tab'[t].state = "granted" /\ tab'[t].puzzle = redeemed /\ tab'[t].loaded = tab[t].loaded
      BY <2>1
    <3>2. \A u \in Tabs : u # t => tab'[u] = tab[u]
      BY <2>1
    <3>3. ASSUME ~disturbed, NEW u \in Tabs
          PROVE  /\ HasPuzzle(u)' =>
                      tab'[u].puzzle = [ts |-> WholeSeconds(tab'[u].loaded), for |-> address]
                 /\ tab'[u].state = "reload" => HoldsCookie(u)'
      <4>1. CASE u = t
        BY <2>2, <2>5, <3>1, <3>3, <4>1 DEF HasPuzzle
      <4>2. CASE u # t
        BY <2>1, <3>2, <3>3, <4>2 DEF HasPuzzle, HoldsCookie
      <4> QED BY <4>1, <4>2
    <3>4. ~disturbed => AlmostInTime'
      BY <2>1 DEF AlmostInTime
    <3> QED BY <2>1, <3>3, <3>4
  <2> QED BY <2>3, <2>4, <2>6
<1>3. ASSUME NEW offsets \in solved \cup {None}, SubmitRejected(t, offsets)
      PROVE  IInv'
  <2> USE <1>3 DEF SubmitRejected, Shows
  <2>1. TypeOK'
    BY DEF TabStates, Stamps
  <2>2. WorkInv' /\ OneTokenPerPuzzle'
    BY DEF Busy, Stamps
  <2>3. UndisturbedInv'
    BY DEF HasPuzzle, HoldsCookie, AlmostInTime
  <2> QED BY <2>1, <2>2, <2>3
<1>4. CASE SubmitAgain(t)
  <2> USE <1>4 DEF SubmitAgain, Mint
  <2>1. TypeOK'
    BY DEF TabStates, Stamps
  <2>2. WorkInv' /\ OneTokenPerPuzzle'
    BY DEF Busy, Stamps
  <2>3. UndisturbedInv'
    BY DEF HasPuzzle, HoldsCookie, AlmostInTime
  <2> QED BY <2>1, <2>2, <2>3
<1>5. CASE LoseAnswer(t)
  <2> USE <1>5 DEF LoseAnswer, Becomes
  <2>1. TypeOK'
    BY DEF TabStates, Stamps
  <2>2. WorkInv' /\ OneTokenPerPuzzle'
    BY DEF Busy, Stamps
  <2>3. UndisturbedInv'
    BY DEF HasPuzzle, HoldsCookie, AlmostInTime
  <2> QED BY <2>1, <2>2, <2>3
<1> QED BY <1>1, <1>2, <1>3, <1>4, <1>5

(* A new cookie keeps it: another tab that is about to reload was loaded   *)
(* no later than now, which is no later than SolveTime after this one was. *)
LEMMA CookieStep ==
  ASSUME IInv, NEW t \in Tabs, ReceiveToken(t)
  PROVE  IInv'
<1> USE ConstantsAssumption
    DEF ConstantsAssumption, IInv, TypeOK, WorkInv, UndisturbedInv, OneTokenPerPuzzle,
        environment, ReceiveToken, Mint
<1>1. tab[t].state = "granted" /\ tab[t].puzzle \in solved /\ tab[t].puzzle \in Stamps
  OBVIOUS
<1>2. TypeOK'
  <2>1. clock + TokenLifetime \in Nat
    OBVIOUS
  <2>2. jar' \in [token : Stamps, until : Nat]
    BY <1>1, <2>1
  <2>3. tab' \in [Tabs -> [state : TabStates, puzzle : Stamps \cup {None}, loaded : 0 .. clock]]
    BY DEF TabStates
  <2> QED BY <2>2, <2>3 DEF Stamps
<1>3. WorkInv' /\ OneTokenPerPuzzle'
  BY <1>1 DEF Busy, Stamps
<1>4. ASSUME ~disturbed, NEW u \in Tabs, tab'[u].state = "reload"
      PROVE  HoldsCookie(u)'
  <2>1. jar' # None
    BY <1>1 DEF Stamps
  <2>2. /\ jar'.token = tab[t].puzzle
        /\ jar'.until = clock + TokenLifetime
    OBVIOUS
  <2>3. tab[t].puzzle = [ts |-> WholeSeconds(tab[t].loaded), for |-> address]
    BY <1>1, <1>4 DEF HasPuzzle
  <2>4. clock <= tab[t].loaded + SolveTime /\ tab[t].loaded \in 0 .. clock
    BY <1>1 DEF Busy
  <2>6. /\ WholeSeconds(tab[t].loaded) \in 0 .. tab[t].loaded
        /\ tab[t].loaded <= WholeSeconds(tab[t].loaded) + Fraction
    BY <2>4, WholeSecondsBounds
  <2>5. tab'[u].loaded = tab[u].loaded /\ tab[u].loaded \in 0 .. clock
    OBVIOUS
  <2> QED BY <2>1, <2>2, <2>3, <2>4, <2>5, <2>6 DEF HoldsCookie, Fraction
<1>5. ASSUME ~disturbed
      PROVE  AlmostInTime'
  <2>1. tab[t].puzzle = [ts |-> WholeSeconds(tab[t].loaded), for |-> address]
    BY <1>1, <1>5 DEF HasPuzzle
  <2>2. clock <= tab[t].loaded + SolveTime /\ tab[t].loaded \in 0 .. clock
    BY <1>1 DEF Busy
  <2>3. /\ WholeSeconds(tab[t].loaded) \in 0 .. tab[t].loaded
        /\ tab[t].loaded <= WholeSeconds(tab[t].loaded) + Fraction
    BY <2>2, WholeSecondsBounds
  <2> QED BY <2>1, <2>2, <2>3 DEF AlmostInTime, Fraction
<1>6. UndisturbedInv'
  BY <1>4, <1>5 DEF HasPuzzle
<1> QED BY <1>2, <1>3, <1>6

(* The clocks, the address and the breaker keep it. *)
LEMMA EnvironmentStep ==
  ASSUME IInv, Tick \/ SetBack \/ Move \/ BreakerFlips
  PROVE  IInv'
<1> USE DEF IInv, TypeOK, WorkInv, UndisturbedInv, OneTokenPerPuzzle
<1>1. CASE Tick
  <2> USE <1>1, ConstantsAssumption DEF Tick, ConstantsAssumption
  <2>1. TypeOK'
    BY DEF TabStates, Stamps
  <2>2. WorkInv' /\ OneTokenPerPuzzle'
    BY DEF Busy, Stamps
  <2>3. UndisturbedInv'
    BY DEF HasPuzzle, HoldsCookie, AlmostInTime
  <2> QED BY <2>1, <2>2, <2>3
<1>2. CASE SetBack
  BY <1>2 DEF SetBack, wall, Stamps, Busy
<1>3. CASE Move
  BY <1>3 DEF Move, Stamps, Busy
<1>4. CASE BreakerFlips
  BY <1>4 DEF BreakerFlips, Stamps, Busy, HasPuzzle, HoldsCookie, AlmostInTime
<1> QED BY <1>1, <1>2, <1>3, <1>4

(* The inductive invariant holds in every reachable state. *)
THEOREM Invariance == Spec => []IInv
<1>1. Init => IInv
  BY InitIInv
<1>2. IInv /\ [Next]_vars => IInv'
  <2> SUFFICES ASSUME IInv, [Next]_vars PROVE IInv'
    OBVIOUS
  <2>1. CASE UNCHANGED vars
    BY <2>1
    DEF vars, environment, IInv, TypeOK, WorkInv, OneTokenPerPuzzle, UndisturbedInv,
        HasPuzzle, HoldsCookie, AlmostInTime, Stamps
  <2>2. CASE Next
    BY <2>2, LoadStep, SubmitStep, CookieStep, EnvironmentStep DEF Next
  <2> QED BY <2>1, <2>2
<1> QED BY <1>1, <1>2, PTL DEF Spec

(* The variables keep their types; no stamp is ever ahead of real time.    *)
THEOREM TypeCorrect == Spec => []TypeOK
BY Invariance, PTL DEF IInv

(* However often and late a solution is submitted, verify_and_issue_token  *)
(* gives out one token per solved puzzle.                                  *)
THEOREM ReplayIsHarmless == Spec => []OneTokenPerPuzzle
BY Invariance, PTL DEF IInv

(* Nobody gets past a challenge without work for the address the request   *)
(* comes from: the server mints a token only for offsets that solve the    *)
(* puzzle of their timestamp, and the cookie verifies only then.           *)
THEOREM EntryIsEarned == Spec => NoFreeEntry
<1>1. ASSUME IInv, [Next]_vars, NEW t \in Tabs, on, Opens(t)
      PROVE  \E p \in solved :
               p.for = address /\ p.ts <= wall /\ wall - p.ts <= TokenLifetime
  <2>1. LoadSite(t)
    <3>1. tab' # tab
      BY <1>1 DEF Opens
    <3>2. ASSUME NEW u \in Tabs, u # t PROVE ~LoadSite(u)
      BY <1>1, <3>2 DEF LoadSite, Shows, Opens, IInv, TypeOK
    <3>3. ASSUME NEW u \in Tabs
          PROVE  /\ ~LoadChallenge(u)
                 /\ ~Solve(u) /\ ~SubmitAgain(u)
                 /\ \A o \in solved \cup {None} : ~SubmitAccepted(u, o) /\ ~SubmitRejected(u, o)
                 /\ ~ReceiveToken(u) /\ ~LoseAnswer(u)
      BY <1>1, <3>1 DEF LoadChallenge, Solve, SubmitAccepted, SubmitRejected, SubmitAgain,
         ReceiveToken, LoseAnswer, Becomes, Shows, Opens, IInv, TypeOK
    <3> QED BY <1>1, <3>1, <3>2, <3>3 DEF Next, vars, Tick, SetBack, Move, BreakerFlips
  <2>2. CookieSent /\ VerifyToken(jar.token)
    BY <2>1, <1>1 DEF LoadSite, Admitted
  <2>3. jar.token \in solved
    BY <2>2, <1>1 DEF CookieSent, IInv, WorkInv
  <2> QED BY <2>2, <2>3 DEF VerifyToken, IsFresh
<1>2. IInv /\ [Next]_vars =>
        [\A t \in Tabs : (on /\ Opens(t)) =>
           \E p \in solved :
             p.for = address /\ p.ts <= wall /\ wall - p.ts <= TokenLifetime]_vars
  BY <1>1
<1> QED BY <1>2, Invariance, PTL DEF Spec, NoFreeEntry

(* A browser whose address and whose server's clock stay is let in with    *)
(* the cookie it just got, whichever of its tabs got it: the challenge     *)
(* page does not reload for ever.                                          *)
THEOREM ReloadIsAdmitted == Spec => NoChallengeLoop
<1>1. ASSUME IInv, [Next]_vars, NEW t \in Tabs,
             ~disturbed, tab[t].state = "reload", TwoRounds, tab'[t].state = "solving"
      PROVE  FALSE
  <2> USE ConstantsAssumption DEF ConstantsAssumption
  <2>1. LoadChallenge(t)
    <3>1. tab' # tab
      BY <1>1
    <3>2. ASSUME NEW u \in Tabs, u # t PROVE ~LoadChallenge(u)
      BY <1>1, <3>2 DEF LoadChallenge, IInv, TypeOK
    <3>3. ASSUME NEW u \in Tabs
          PROVE  /\ ~LoadSite(u)
                 /\ ~Solve(u) /\ ~SubmitAgain(u)
                 /\ \A o \in solved \cup {None} : ~SubmitAccepted(u, o) /\ ~SubmitRejected(u, o)
                 /\ ~ReceiveToken(u) /\ ~LoseAnswer(u)
      BY <1>1, <3>1 DEF LoadSite, Solve, SubmitAccepted, SubmitRejected, SubmitAgain,
         ReceiveToken, LoseAnswer, Becomes, Shows, IInv, TypeOK
    <3> QED BY <1>1, <3>1, <3>2, <3>3 DEF Next, vars, Tick, SetBack, Move, BreakerFlips
  <2>2. HoldsCookie(t) /\ skew = 0
    BY <1>1 DEF IInv, UndisturbedInv
  <2>3. clock <= tab[t].loaded + SolveTime /\ tab[t].loaded \in 0 .. clock /\ clock \in Nat
    BY <1>1 DEF IInv, TypeOK, WorkInv, Busy
  <2>4. jar.until \in Nat /\ jar.token.ts \in 0 .. clock
    BY <2>2, <1>1 DEF HoldsCookie, IInv, TypeOK, Stamps
  <2>5. CookieSent
    BY <1>1, <2>2, <2>3, <2>4 DEF CookieSent, HoldsCookie, TwoRounds, Fraction
  <2>6. VerifyToken(jar.token)
    BY <1>1, <2>2, <2>3, <2>4 DEF VerifyToken, IsFresh, wall, HoldsCookie, TwoRounds, Fraction
  <2> QED BY <2>1, <2>5, <2>6 DEF LoadChallenge, Admitted
<1>2. IInv /\ [Next]_vars =>
        [\A t \in Tabs :
           (~disturbed /\ tab[t].state = "reload" /\ TwoRounds) => tab'[t].state # "solving"]_vars
  BY <1>1
<1> QED BY <1>2, Invariance, PTL DEF Spec, NoChallengeLoop

(* A solution that is in time for PUZZLE_LIFETIME less the fraction of a   *)
(* second its timestamp dropped, from the same client and by an            *)
(* undisturbed clock, is redeemed.                                         *)
THEOREM SolutionIsAccepted == Spec => NoFalseRejection
<1>1. ASSUME IInv, [Next]_vars, NEW t \in Tabs,
             ~disturbed, tab[t].state = "solved", SolveTime + Fraction <= PuzzleLifetime,
             tab'[t].state = "failed"
      PROVE  FALSE
  <2> USE ConstantsAssumption DEF ConstantsAssumption
  <2>1. SubmitRejected(t, tab[t].puzzle)
    <3>1. tab' # tab
      BY <1>1
    <3>2. ASSUME NEW u \in Tabs, u # t, NEW o \in solved \cup {None} PROVE ~SubmitRejected(u, o)
      BY <1>1, <3>2 DEF SubmitRejected, Shows, IInv, TypeOK
    <3>3. ASSUME NEW u \in Tabs
          PROVE  /\ ~LoadSite(u) /\ ~LoadChallenge(u)
                 /\ ~Solve(u) /\ \A o \in solved \cup {None} : ~SubmitAccepted(u, o)
                 /\ ~SubmitAgain(u) /\ ~ReceiveToken(u) /\ ~LoseAnswer(u)
      BY <1>1, <3>1 DEF LoadSite, LoadChallenge, Solve, SubmitAccepted, SubmitAgain,
         ReceiveToken, LoseAnswer, Becomes, Shows, IInv, TypeOK
    <3>4. PICK o \in solved \cup {None} : SubmitRejected(t, o)
      BY <1>1, <3>1, <3>2, <3>3 DEF Next, vars, Tick, SetBack, Move, BreakerFlips
    <3> QED BY <1>1, <3>4 DEF SubmitRejected, Posts
  <2>2. tab[t].puzzle = [ts |-> WholeSeconds(tab[t].loaded), for |-> address] /\ skew = 0
    BY <1>1 DEF IInv, UndisturbedInv, HasPuzzle
  <2>3. clock <= tab[t].loaded + SolveTime /\ tab[t].loaded \in 0 .. clock /\ clock \in Nat
    BY <1>1 DEF IInv, TypeOK, WorkInv, Busy
  <2>5. /\ WholeSeconds(tab[t].loaded) \in 0 .. tab[t].loaded
        /\ tab[t].loaded <= WholeSeconds(tab[t].loaded) + Fraction
    BY <2>3, WholeSecondsBounds
  <2>4. Redeems(tab[t].puzzle.ts, tab[t].puzzle)
    BY <1>1, <2>2, <2>3, <2>5 DEF Redeems, IsFresh, wall, Fraction
  <2> QED BY <2>1, <2>4 DEF SubmitRejected
<1>2. IInv /\ [Next]_vars =>
        [\A t \in Tabs :
           (~disturbed /\ tab[t].state = "solved" /\ SolveTime + Fraction <= PuzzleLifetime)
             => tab'[t].state # "failed"]_vars
  BY <1>1
<1> QED BY <1>2, Invariance, PTL DEF Spec, NoFalseRejection

(* The browser's Max-Age and the token's own lifetime drift apart by no    *)
(* more than the page's work and the dropped fraction of a second: beyond  *)
(* that the browser drops the cookie.                                      *)
THEOREM CookieLags == Spec => []CookieLagsOneRound
<1>1. IInv => CookieLagsOneRound
  <2> SUFFICES ASSUME IInv, ~disturbed, CookieSent
               PROVE  /\ jar.token.for = address
                      /\ jar.token.ts <= wall
                      /\ wall - jar.token.ts <= TokenLifetime + SolveTime + Fraction
    BY DEF CookieLagsOneRound
  <2> USE ConstantsAssumption DEF ConstantsAssumption
  <2>1. jar # None /\ clock <= jar.until
    BY DEF CookieSent
  <2>2. skew = 0 /\ AlmostInTime
    BY DEF IInv, UndisturbedInv
  <2>3. clock \in Nat /\ jar.until \in Nat /\ jar.token.ts \in 0 .. clock
    BY <2>1 DEF IInv, TypeOK, Stamps
  <2> QED BY <2>1, <2>2, <2>3 DEF AlmostInTime, wall, Fraction
<1> QED BY <1>1, Invariance, PTL
=============================================================================
