--------------------------- MODULE RecorderProofs ----------------------------
(***************************************************************************)
(* What Recorder guarantees for any capacity, any set of clients and any   *)
(* sizes they ask for, and that it implements SamplePromise.               *)
(***************************************************************************)
EXTENDS Recorder, SequenceTheorems, TLAPS

(* The newest requests are a sequence of them. *)
LEMMA NewestType ==
  ASSUME NEW last \in Nat, NEW n \in 0 .. last
  PROVE  /\ Newest(n, last) \in Seq(Nat)
         /\ Len(Newest(n, last)) = n
  <1>1. \A i \in 1 .. n : last - n + i \in Nat
    OBVIOUS
  <1>2. Newest(n, last) \in [1 .. n -> Nat]
    BY <1>1 DEF Newest
  <1> QED
    BY <1>2

(* Which request is at which place. *)
LEMMA NewestElement ==
  ASSUME NEW last \in Nat, NEW n \in 0 .. last, NEW i \in 1 .. n
  PROVE  Newest(n, last)[i] = last - n + i
BY DEF Newest

(* One more request makes the newest n of them the newest n + 1. *)
LEMMA NewestAppend ==
  ASSUME NEW last \in Nat, NEW n \in 0 .. last
  PROVE  Append(Newest(n, last), last + 1) = Newest(n + 1, last + 1)
<1> DEFINE r == Newest(n, last)
           s == Append(r, last + 1)
           t == Newest(n + 1, last + 1)
<1>1. r \in Seq(Nat) /\ Len(r) = n
  BY NewestType
<1>2. t \in Seq(Nat) /\ Len(t) = n + 1
  BY NewestType
<1>3. /\ s \in Seq(Nat)
      /\ Len(s) = n + 1
      /\ \A i \in 1 .. n : s[i] = r[i]
      /\ s[n + 1] = last + 1
  <2> HIDE DEF r
  <2> QED
    BY <1>1, AppendProperties
<1>4. ASSUME NEW i \in 1 .. n
      PROVE  r[i] = t[i]
  <2>1. r[i] = last - n + i
    BY NewestElement
  <2>2. t[i] = last + 1 - (n + 1) + i
    <3>1. i \in 1 .. n + 1 /\ n + 1 \in 0 .. last + 1
      OBVIOUS
    <3> QED
      BY <3>1, NewestElement
  <2> QED
    BY <2>1, <2>2
<1>5. t[n + 1] = last + 1
  <2>1. n + 1 \in 1 .. n + 1 /\ n + 1 \in 0 .. last + 1
    OBVIOUS
  <2>2. t[n + 1] = last + 1 - (n + 1) + (n + 1)
    BY <2>1, NewestElement
  <2> QED
    BY <2>2
<1>6. s = t
  <2> HIDE DEF r, s, t
  <2>1. ASSUME NEW i \in 1 .. n + 1
        PROVE  s[i] = t[i]
    BY <1>3, <1>4, <1>5
  <2> QED
    BY <1>2, <1>3, <2>1, SeqEqual
<1> QED
  BY <1>6

(* Rolling off the oldest of the newest n leaves the newest n - 1. *)
LEMMA NewestTail ==
  ASSUME NEW last \in Nat, NEW n \in 1 .. last
  PROVE  Tail(Newest(n, last)) = Newest(n - 1, last)
<1> DEFINE r == Newest(n, last)
           s == Tail(r)
           t == Newest(n - 1, last)
<1>1. r \in Seq(Nat) /\ Len(r) = n
  BY NewestType
<1>2. t \in Seq(Nat) /\ Len(t) = n - 1
  BY NewestType
<1>3. /\ s \in Seq(Nat)
      /\ Len(s) = n - 1
      /\ \A i \in 1 .. n - 1 : s[i] = r[i + 1]
  <2> HIDE DEF r
  <2>1. r # << >>
    BY <1>1
  <2> QED
    BY <1>1, <2>1, HeadTailProperties
<1>4. ASSUME NEW i \in 1 .. n - 1
      PROVE  r[i + 1] = t[i]
  <2>1. i + 1 \in 1 .. n /\ n \in 0 .. last /\ n - 1 \in 0 .. last
    OBVIOUS
  <2>2. r[i + 1] = last - n + (i + 1)
    BY <2>1, NewestElement
  <2>3. t[i] = last - (n - 1) + i
    BY <2>1, NewestElement
  <2> QED
    BY <2>2, <2>3
<1>5. s = t
  <2> HIDE DEF r, s, t
  <2>1. ASSUME NEW i \in 1 .. n - 1
        PROVE  s[i] = t[i]
    BY <1>3, <1>4
  <2> QED
    BY <1>2, <1>3, <2>1, SeqEqual
<1> QED
  BY <1>5

(* Pushing the next request keeps the ring buffer the newest requests. *)
LEMMA PushNewest ==
  ASSUME RecentIsNewest, recorded \in Nat
  PROVE  LET n == IF recorded + 1 < Capacity THEN recorded + 1 ELSE Capacity
         IN  Push(recent, recorded + 1) = Newest(n, recorded + 1)
<1> USE ConstantsAssumption DEF ConstantsAssumption
<1>1. CASE recorded < Capacity
  <2>1. recent = Newest(recorded, recorded)
    BY <1>1 DEF RecentIsNewest
  <2>2. Len(recent) = recorded
    BY <2>1, NewestType
  <2>3. Push(recent, recorded + 1) = Append(recent, recorded + 1)
    BY <1>1, <2>2 DEF Push
  <2>4. Append(recent, recorded + 1) = Newest(recorded + 1, recorded + 1)
    <3>1. recorded \in 0 .. recorded
      OBVIOUS
    <3> QED
      BY <2>1, <3>1, NewestAppend
  <2> QED
    BY <1>1, <2>3, <2>4
<1>2. CASE ~(recorded < Capacity)
  <2>1. recent = Newest(Capacity, recorded)
    BY <1>2 DEF RecentIsNewest
  <2>2. Len(recent) = Capacity
    BY <1>2, <2>1, NewestType
  <2>3. Tail(recent) = Newest(Capacity - 1, recorded)
    BY <1>2, <2>1, NewestTail
  <2>4. Append(Tail(recent), recorded + 1) = Newest(Capacity, recorded + 1)
    <3>1. Capacity - 1 \in 0 .. recorded /\ (Capacity - 1) + 1 = Capacity
      BY <1>2
    <3>2. Append(Newest(Capacity - 1, recorded), recorded + 1)
            = Newest((Capacity - 1) + 1, recorded + 1)
      BY <3>1, NewestAppend
    <3> QED
      BY <2>3, <3>1, <3>2
  <2> QED
    BY <1>2, <2>2, <2>4 DEF Push
<1> QED
  BY <1>1, <1>2

-----------------------------------------------------------------------------
(* Initially nothing is recorded and nobody waits. *)
LEMMA InitIInv == Init => IInv
<1> SUFFICES ASSUME Init PROVE IInv
  OBVIOUS
<1> USE ConstantsAssumption DEF ConstantsAssumption, Init
<1>1. TypeOK
  <2>1. << >> \in Seq(Nat)
    OBVIOUS
  <2>2. /\ client \in [Clients -> ClientStates]
        /\ reply \in [Clients -> Seq(Nat)]
    BY <2>1 DEF ClientStates
  <2>3. recorded \in Nat /\ recent \in Seq(Nat)
    BY <2>1
  <2>4. sample \in Samples \cup {None} /\ poisoned \in BOOLEAN
    OBVIOUS
  <2> QED
    BY <2>2, <2>3, <2>4 DEF TypeOK
<1>2. RecentIsNewest
  <2>1. Newest(0, 0) = << >>
    BY DEF Newest
  <2> QED
    BY <2>1 DEF RecentIsNewest
<1>3. SampleIsContiguous /\ WaitingHasSender
  BY DEF SampleIsContiguous, WaitingHasSender
<1> QED
  BY <1>1, <1>2, <1>3 DEF IInv

(* A recorded request, whether or not it completes a sample. *)
LEMMA RecordStep ==
  ASSUME IInv, Record
  PROVE  IInv'
<1> USE ConstantsAssumption DEF ConstantsAssumption
<1>1. /\ recorded \in Nat
      /\ recorded' = recorded + 1
      /\ recent' = Push(recent, recorded + 1)
      /\ poisoned' = poisoned
  BY DEF IInv, TypeOK, Record, RecordOnly, RecordSample
<1>2. RecentIsNewest'
  BY <1>1, PushNewest DEF IInv, RecentIsNewest
<1>3. recent' \in Seq(Nat)
  <2>1. PICK n \in 0 .. recorded' : recent' = Newest(n, recorded')
    BY <1>1, <1>2 DEF RecentIsNewest
  <2> QED
    BY <1>1, <2>1, NewestType
<1>4. CASE RecordOnly
  BY <1>1, <1>2, <1>3, <1>4
  DEF IInv, TypeOK, RecordOnly, SampleIsContiguous, WaitingHasSender
<1>5. CASE RecordSample
  <2> DEFINE n == Len(sample.collected)
             collected == Append(sample.collected, recorded + 1)
  <2>1. sample # None /\ sample \in Samples
    BY <1>5 DEF IInv, TypeOK, RecordSample
  <2>2. /\ sample.collected \in Seq(Nat)
        /\ sample.target \in Nat
        /\ sample.done \in Clients
        /\ n \in 0 .. recorded
        /\ sample.collected = Newest(n, recorded)
    BY <1>1, <2>1 DEF IInv, SampleIsContiguous, Samples
  <2>3. /\ collected = Newest(n + 1, recorded + 1)
        /\ collected \in Seq(Nat)
        /\ Len(collected) = n + 1
    <3>1. collected = Newest(n + 1, recorded + 1)
      BY <1>1, <2>2, NewestAppend
    <3> QED
      BY <1>1, <2>2, <3>1, NewestType
  <2>4. CASE Complete(collected, sample.target)
    <3>1. sample' = None /\ Send(sample.done, collected)
      BY <1>1, <1>5, <2>4 DEF RecordSample
    <3>2. TypeOK'
      BY <1>1, <1>3, <2>2, <2>3, <3>1 DEF IInv, TypeOK, Send, ClientStates
    <3>3. WaitingHasSender'
      BY <2>1, <2>2, <3>1 DEF IInv, TypeOK, Send, WaitingHasSender
    <3> QED
      BY <1>2, <3>1, <3>2, <3>3 DEF IInv, SampleIsContiguous
  <2>5. CASE ~Complete(collected, sample.target)
    <3>1. /\ sample' = [sample EXCEPT !.collected = collected]
          /\ client' = client
          /\ reply' = reply
      BY <1>1, <1>5, <2>5 DEF RecordSample
    <3>2. /\ sample' = [collected |-> collected, target |-> sample.target,
                        done |-> sample.done]
          /\ sample' \in Samples
      BY <2>1, <2>3, <3>1 DEF Samples
    <3>3. sample' # None
      BY <3>2 DEF Samples
    <3>4. TypeOK'
      BY <1>1, <1>3, <3>1, <3>2 DEF IInv, TypeOK
    <3>5. SampleIsContiguous'
      BY <1>1, <2>2, <2>3, <2>5, <3>2 DEF SampleIsContiguous, Complete
    <3>6. WaitingHasSender'
      BY <2>1, <3>1, <3>2, <3>3 DEF IInv, WaitingHasSender
    <3> QED
      BY <1>2, <3>4, <3>5, <3>6 DEF IInv
  <2> QED
    BY <2>4, <2>5
<1> QED
  BY <1>4, <1>5 DEF Record

(* Flushing answers the waiting client, if there is one, with a sequence. *)
LEMMA FlushStep ==
  ASSUME IInv, NEW c \in Clients, NEW next \in ClientStates, Flush(c, next)
  PROVE  /\ client' \in [Clients -> ClientStates]
         /\ reply' \in [Clients -> Seq(Nat)]
         /\ \A d \in Clients \ {c} : client'[d] # "waiting"
         /\ client'[c] = next
<1>1. client' \in [Clients -> ClientStates] /\ client'[c] = next
  BY DEF IInv, TypeOK, Flush, ClientStates
<1>2. reply' \in [Clients -> Seq(Nat)]
  BY DEF IInv, TypeOK, Flush, Samples
<1>3. \A d \in Clients \ {c} : client'[d] # "waiting"
  BY DEF IInv, TypeOK, WaitingHasSender, Flush
<1> QED
  BY <1>1, <1>2, <1>3

(* Whatever a client does. *)
LEMMA CommandStep ==
  ASSUME IInv, NEW c \in Clients, Command(c)
  PROVE  IInv'
<1> USE ConstantsAssumption DEF ConstantsAssumption
<1>1. CASE Connect(c) \/ Hangup(c) \/ StartSampleRefused(c) \/ Answer(c)
  <2>1. /\ recorded' = recorded
        /\ recent' = recent
        /\ sample' = sample
        /\ poisoned' = poisoned
    BY <1>1 DEF Connect, Hangup, StartSampleRefused, Answer, recorderVars
  <2>2. /\ client' \in [Clients -> ClientStates]
        /\ reply' \in [Clients -> Seq(Nat)]
        /\ \A d \in Clients : client'[d] = "waiting" <=> client[d] = "waiting"
    <3>1. CASE Connect(c) \/ Hangup(c) \/ StartSampleRefused(c)
      BY <3>1 DEF IInv, TypeOK, Connect, Hangup, StartSampleRefused, ClientStates
    <3>2. CASE Answer(c)
      <4>1. PICK next \in {"idle", "closed"} : client' = [client EXCEPT ![c] = next]
        BY <3>2 DEF Answer
      <4>2. << >> \in Seq(Nat)
        OBVIOUS
      <4>3. reply' \in [Clients -> Seq(Nat)]
        BY <3>2, <4>2 DEF Answer, IInv, TypeOK
      <4>4. \A d \in Clients : client'[d] = "waiting" <=> client[d] = "waiting"
        BY <3>2, <4>1 DEF Answer, IInv, TypeOK
      <4>5. client' \in [Clients -> ClientStates]
        BY <4>1 DEF IInv, TypeOK, ClientStates
      <4> QED
        BY <4>3, <4>4, <4>5
    <3> QED
      BY <1>1, <3>1, <3>2
  <2>3. TypeOK'
    BY <2>1, <2>2 DEF IInv, TypeOK
  <2>4. RecentIsNewest' /\ SampleIsContiguous' /\ WaitingHasSender'
    BY <2>1, <2>2 DEF IInv, RecentIsNewest, SampleIsContiguous, WaitingHasSender
  <2> QED
    BY <2>3, <2>4 DEF IInv
<1>2. ASSUME NEW n \in Sizes, StartSample(c, n)
      PROVE  IInv'
  <2>1. Flush(c, "waiting") /\ "waiting" \in ClientStates
    BY <1>2 DEF StartSample, ClientStates
  <2>2. /\ recorded' = recorded
        /\ recent' = recent
        /\ poisoned' = poisoned
        /\ sample' = [collected |-> << >>, target |-> n, done |-> c]
    BY <1>2 DEF StartSample, Blank
  <2>3. sample' \in Samples /\ sample' # None
    <3>1. << >> \in Seq(Nat) /\ n \in Nat
      OBVIOUS
    <3>2. sample' \in Samples
      BY <2>2, <3>1 DEF Samples
    <3>3. None \notin Samples
      BY DEF Samples
    <3> QED
      BY <3>2, <3>3
  <2>4. TypeOK'
    BY <2>1, <2>2, <2>3, FlushStep DEF IInv, TypeOK
  <2>5. SampleIsContiguous'
    <3>1. Newest(0, recorded) = << >>
      BY DEF Newest
    <3> QED
      BY <2>2, <3>1 DEF IInv, TypeOK, SampleIsContiguous
  <2>6. WaitingHasSender'
    BY <2>1, <2>2, <2>3, FlushStep DEF WaitingHasSender
  <2> QED
    BY <2>2, <2>4, <2>5, <2>6 DEF IInv, RecentIsNewest
<1>3. ASSUME NEW n \in Sizes, StartSamplePanics(c, n)
      PROVE  IInv'
  <2>1. Flush(c, "closed") /\ "closed" \in ClientStates
    BY <1>3 DEF StartSamplePanics, ClientStates
  <2>2. TypeOK'
    BY <1>3, <2>1, FlushStep DEF IInv, TypeOK, StartSamplePanics
  <2>3. WaitingHasSender'
    BY <1>3, <2>1, FlushStep DEF WaitingHasSender, StartSamplePanics
  <2> QED
    BY <1>3, <2>2, <2>3 DEF IInv, StartSamplePanics, RecentIsNewest, SampleIsContiguous
<1> QED
  BY <1>1, <1>2, <1>3 DEF Command

(* IInv holds in every reachable state. *)
THEOREM Invariance == Spec => []IInv
<1>1. Init => IInv
  BY InitIInv
<1>2. IInv /\ [Next]_vars => IInv'
  <2> SUFFICES ASSUME IInv, [Next]_vars
               PROVE  IInv'
    OBVIOUS
  <2>1. CASE UNCHANGED vars
    BY <2>1 DEF vars, recorderVars, IInv, TypeOK, RecentIsNewest, SampleIsContiguous,
                WaitingHasSender
  <2>2. CASE Next
    BY <2>2, RecordStep, CommandStep DEF Next
  <2> QED
    BY <2>1, <2>2
<1> QED
  BY <1>1, <1>2, PTL DEF Spec

(* Every variable keeps its type. *)
THEOREM TypeCorrect == Spec => []TypeOK
<1>1. IInv => TypeOK
  BY DEF IInv
<1> QED
  BY <1>1, Invariance, PTL

(* The ring buffer is exactly the most recent requests. *)
THEOREM RingBufferCorrect == Spec => []RecentIsNewest
<1>1. IInv => RecentIsNewest
  BY DEF IInv
<1> QED
  BY <1>1, Invariance, PTL

(* The sample in progress is a contiguous run up to the latest request. *)
THEOREM SampleContiguous == Spec => []SampleIsContiguous
<1>1. IInv => SampleIsContiguous
  BY DEF IInv
<1> QED
  BY <1>1, Invariance, PTL

(* No waiting client is ever forgotten or cancelled. *)
THEOREM NoLostClient == Spec => []WaitingHasSender
<1>1. IInv => WaitingHasSender
  BY DEF IInv
<1> QED
  BY <1>1, Invariance, PTL

-----------------------------------------------------------------------------
(* The refinement: every step of the recorder is one of SamplePromise, or  *)
(* leaves what that module sees alone.                                     *)

(* What SamplePromise sees of a sample: its size, and the request it       *)
(* started after.                                                          *)
LEMMA AskedValue ==
  ASSUME IInv, NEW c \in Clients
  PROVE  /\ Asked[c] # None <=> (sample # None /\ sample.done = c)
         /\ Asked[c] # None =>
              /\ Asked[c] = [after |-> recorded - Len(sample.collected),
                             size |-> sample.target]
              /\ Asked[c].after = recorded - Len(sample.collected)
              /\ Asked[c].size = sample.target
              /\ Promise!Since(Asked[c].after, recorded) = sample.collected
<1> USE ConstantsAssumption DEF ConstantsAssumption
<1>1. CASE sample # None /\ sample.done = c
  <2> DEFINE n == Len(sample.collected)
             a == [after |-> recorded - n, size |-> sample.target]
  <2>1. sample.target \in Nat /\ n \in Nat /\ n <= recorded /\ recorded \in Nat
    BY <1>1 DEF IInv, TypeOK, Samples, SampleIsContiguous
  <2>2. a \in [after : Nat, size : Nat] /\ Asked[c] = a
    BY <1>1, <2>1 DEF Asked
  <2>3. a # None /\ a.after = recorded - n /\ a.size = sample.target
    BY <2>2
  <2>4. recorded - (recorded - n) = n
    BY <2>1
  <2>5. Promise!Since(recorded - n, recorded) = Newest(n, recorded)
    BY <2>4 DEF Promise!Since, Newest
  <2>6. sample.collected = Newest(n, recorded)
    BY <1>1 DEF IInv, SampleIsContiguous
  <2> QED
    BY <1>1, <2>2, <2>3, <2>5, <2>6
<1>2. CASE ~(sample # None /\ sample.done = c)
  BY <1>2 DEF Asked
<1> QED
  BY <1>1, <1>2

(* A sequence of requests is not None. *)
LEMMA AnsweredValue ==
  ASSUME IInv, NEW c \in Clients
  PROVE  /\ Answered[c] # None <=> client[c] = "resolved"
         /\ client[c] = "resolved" => Answered[c] = reply[c]
         /\ client[c] # "resolved" => Answered[c] = None
BY ConstantsAssumption DEF ConstantsAssumption, IInv, TypeOK, Answered

LEMMA PromiseInit == Init => Promise!Init
BY DEF Init, Promise!Init, Asked, Answered

(* Flushing delivers what was recorded so far to whoever asked. *)
LEMMA PromiseFlush ==
  ASSUME IInv, NEW c \in Clients, NEW next \in {"waiting", "closed"}, Flush(c, next),
         client[c] = "idle"
  PROVE  /\ Asked[c] = None
         /\ Answered[c] = None
         /\ Promise!Deliver(Promise!Asking, recorded)
<1>1. Asked[c] = None
  BY AskedValue DEF IInv, WaitingHasSender
<1>2. Answered[c] = None
  BY AnsweredValue
<1>3. ASSUME NEW d \in Clients
      PROVE  Answered'[d] = IF d \in Promise!Asking
                            THEN Promise!Since(Asked[d].after, recorded)
                            ELSE Answered[d]
  <2>1. CASE d \in Promise!Asking
    <3>1. sample # None /\ sample.done = d /\ d # c
      BY <1>1, <2>1, AskedValue DEF Promise!Asking
    <3>2. client'[d] = "resolved" /\ reply'[d] = sample.collected
      BY <3>1 DEF Flush
    <3> QED
      BY <2>1, <3>2, AskedValue DEF Promise!Asking, Answered
  <2>2. CASE d \notin Promise!Asking
    <3>1. ~(sample # None /\ sample.done = d)
      BY <2>2, AskedValue DEF Promise!Asking
    <3>2. reply'[d] = reply[d] /\ client'[d] = IF d = c THEN next ELSE client[d]
      BY <3>1 DEF Flush
    <3> QED
      BY <2>2, <3>2 DEF Answered
  <2> QED
    BY <2>1, <2>2
<1>4. Promise!Deliver(Promise!Asking, recorded)
  BY <1>3 DEF Promise!Deliver, Answered
<1> QED
  BY <1>1, <1>2, <1>4

LEMMA PromiseCommand ==
  ASSUME IInv, IInv', NEW c \in Clients, Command(c)
  PROVE  Promise!Next \/ UNCHANGED <<recorded, Asked, Answered>>
<1> USE ConstantsAssumption DEF ConstantsAssumption
<1>1. CASE Connect(c) \/ Hangup(c) \/ StartSampleRefused(c)
  <2>1. recorded' = recorded /\ Asked' = Asked
    BY <1>1 DEF Connect, Hangup, StartSampleRefused, recorderVars, Asked
  <2>2. Answered' = Answered
    BY <1>1 DEF IInv, TypeOK, Connect, Hangup, StartSampleRefused, Answered
  <2> QED
    BY <2>1, <2>2
<1>2. ASSUME NEW n \in Sizes, StartSample(c, n)
      PROVE  Promise!Ask(c, n)
  <2>1. /\ Asked[c] = None
        /\ Answered[c] = None
        /\ Promise!Deliver(Promise!Asking, recorded)
    BY <1>2, PromiseFlush DEF StartSample
  <2>2. sample' # None /\ sample'.done = c
    BY <1>2 DEF IInv, StartSample, Blank, WaitingHasSender, Flush, TypeOK
  <2>3. sample'.collected = << >> /\ sample'.target = n /\ recorded' = recorded
    BY <1>2 DEF StartSample, Blank
  <2>4. recorded' - Len(sample'.collected) = recorded
    BY <2>3 DEF IInv, TypeOK
  <2>5. Asked' = [d \in Clients |->
           IF d = c THEN [after |-> recorded, size |-> n] ELSE None]
    BY <2>2, <2>3, <2>4 DEF Asked
  <2> QED
    BY <2>1, <2>3, <2>5 DEF Promise!Ask
<1>3. ASSUME NEW n \in Sizes, StartSamplePanics(c, n)
      PROVE  Promise!AskTooMuch(c)
  <2>1. /\ Asked[c] = None
        /\ Answered[c] = None
        /\ Promise!Deliver(Promise!Asking, recorded)
    BY <1>3, PromiseFlush DEF StartSamplePanics
  <2>2. Asked' = [d \in Clients |-> None] /\ recorded' = recorded
    BY <1>3 DEF Asked, StartSamplePanics
  <2> QED
    BY <2>1, <2>2 DEF Promise!AskTooMuch
<1>4. CASE Answer(c)
  <2>1. Answered[c] # None
    BY <1>4, AnsweredValue DEF Answer
  <2>2. recorded' = recorded /\ Asked' = Asked
    BY <1>4 DEF Answer, recorderVars, Asked
  <2>3. Answered' = [Answered EXCEPT ![c] = None]
    BY <1>4 DEF IInv, TypeOK, Answer, Answered
  <2> QED
    BY <2>1, <2>2, <2>3 DEF Promise!Written, Promise!Next
<1> QED
  BY <1>1, <1>2, <1>3, <1>4 DEF Command, Promise!Next

LEMMA PromiseRecord ==
  ASSUME IInv, IInv', Record
  PROVE  Promise!Arrive
<1> USE ConstantsAssumption DEF ConstantsAssumption
<1> DEFINE done == {c \in Promise!Asking : recorded + 1 - Asked[c].after >= Asked[c].size}
<1>1. /\ recorded \in Nat
      /\ recorded < MaxRequests
      /\ recorded' = recorded + 1
  BY DEF IInv, TypeOK, Record, RecordOnly, RecordSample
<1>2. CASE RecordOnly
  <2>1. done = {}
    BY <1>2, AskedValue DEF RecordOnly, Promise!Asking
  <2>2. Asked' = Asked /\ Answered' = Answered
    BY <1>2 DEF RecordOnly, Asked, Answered
  <2>3. Promise!Deliver(done, recorded')
    BY <2>1, <2>2 DEF Promise!Deliver, Answered
  <2>4. Asked' = [c \in Clients |-> IF c \in done THEN None ELSE Asked[c]]
    BY <2>1, <2>2 DEF Asked
  <2> QED
    BY <1>1, <2>3, <2>4 DEF Promise!Arrive
<1>3. CASE RecordSample
  <2> DEFINE n == Len(sample.collected)
             e == sample.done
             collected == Append(sample.collected, recorded + 1)
  <2>1. /\ sample # None
        /\ sample.collected \in Seq(Nat)
        /\ sample.target \in Nat
        /\ e \in Clients
        /\ n \in 0 .. recorded
        /\ sample.collected = Newest(n, recorded)
    BY <1>1, <1>3 DEF IInv, TypeOK, RecordSample, SampleIsContiguous, Samples
  <2>2. collected = Newest(n + 1, recorded + 1) /\ Len(collected) = n + 1
    <3>1. collected = Newest(n + 1, recorded + 1)
      BY <1>1, <2>1, NewestAppend
    <3>2. n + 1 \in 0 .. recorded + 1 /\ recorded + 1 \in Nat
      BY <1>1, <2>1
    <3> QED
      BY <3>1, <3>2, NewestType
  <2>3. Promise!Asking = {e}
    BY <2>1, AskedValue DEF Promise!Asking
  <2>4. Asked[e].after = recorded - n /\ Asked[e].size = sample.target
    BY <2>1, AskedValue
  <2>5. Promise!Since(Asked[e].after, recorded') = collected
    <3>1. recorded' - (recorded - n) = n + 1
      <4>1. n \in Int /\ recorded \in Int /\ recorded' = recorded + 1
        BY <1>1, <2>1
      <4> HIDE DEF n
      <4> QED
        BY <4>1
    <3>2. \A i \in 1 .. n + 1 : (recorded + 1) - (n + 1) + i = (recorded - n) + i
      BY <1>1, <2>1
    <3> QED
      BY <1>1, <2>2, <2>4, <3>1, <3>2 DEF Promise!Since, Newest
  <2>6. e \in done <=> Complete(collected, sample.target)
    BY <1>1, <2>1, <2>2, <2>3, <2>4 DEF Complete
  <2>7. CASE Complete(collected, sample.target)
    <3>1. sample' = None /\ Send(e, collected)
      BY <1>1, <1>3, <2>7 DEF RecordSample
    <3>2. done = {e}
      BY <2>3, <2>6, <2>7
    <3>3. Answered' = [c \in Clients |-> IF c = e THEN collected ELSE Answered[c]]
      BY <3>1 DEF IInv, TypeOK, Send, Answered
    <3>4. Promise!Deliver(done, recorded')
      BY <2>5, <3>2, <3>3 DEF Promise!Deliver
    <3>5. Asked' = [c \in Clients |-> IF c \in done THEN None ELSE Asked[c]]
      BY <2>1, <3>1, <3>2 DEF Asked
    <3> QED
      BY <1>1, <3>4, <3>5 DEF Promise!Arrive
  <2>8. CASE ~Complete(collected, sample.target)
    <3>1. /\ sample' = [sample EXCEPT !.collected = collected]
          /\ client' = client
          /\ reply' = reply
      BY <1>1, <1>3, <2>8 DEF RecordSample
    <3>2. done = {}
      BY <2>3, <2>6, <2>8
    <3>3. /\ sample' # None
          /\ sample'.done = e
          /\ sample'.target = sample.target
          /\ sample'.collected = collected
      BY <2>1, <3>1 DEF IInv, TypeOK, Samples, WaitingHasSender
    <3>4. recorded' - Len(sample'.collected) = recorded - n
      BY <1>1, <2>1, <2>2, <3>3
    <3>5. Asked' = Asked
      BY <2>1, <3>3, <3>4 DEF Asked
    <3>6. Promise!Deliver(done, recorded')
      BY <3>1, <3>2 DEF Promise!Deliver, Answered
    <3>7. Asked' = [c \in Clients |-> IF c \in done THEN None ELSE Asked[c]]
      BY <3>2, <3>5 DEF Asked
    <3> QED
      BY <1>1, <3>6, <3>7 DEF Promise!Arrive
  <2> QED
    BY <2>7, <2>8
<1> QED
  BY <1>2, <1>3 DEF Record

(* The recorder, with its ring buffer and its slot for a single sample,    *)
(* implements what SamplePromise says its clients get.                     *)
THEOREM KeepsPromise == Spec => PromiseKept
<1>1. Init => Promise!Init
  BY PromiseInit
<1>2. IInv /\ IInv' /\ [Next]_vars => [Promise!Next]_(Promise!vars)
  <2> SUFFICES ASSUME IInv, IInv', [Next]_vars
               PROVE  Promise!Next \/ UNCHANGED <<recorded, Asked, Answered>>
    BY DEF Promise!vars
  <2>1. CASE UNCHANGED vars
    BY <2>1 DEF vars, recorderVars, Asked, Answered
  <2>2. CASE Next
    BY <2>2, PromiseRecord, PromiseCommand DEF Next, Promise!Next
  <2> QED
    BY <2>1, <2>2
<1> QED
  BY <1>1, <1>2, Invariance, PTL DEF Spec, PromiseKept, Promise!Spec

(* A client gets fewer requests than it asked for only when another        *)
(* client's command flushed its sample (record and start_sample).          *)
THEOREM ShortOnlyByFlush == Spec => ShortOnlyIfFlushed
<1> DEFINE Excused(c) == \/ Len(reply'[c]) >= sample.target
                         \/ \E d \in Clients \ {c} : client[d] = "idle" /\ client'[d] # "idle"
<1>1. ASSUME IInv, [Next]_vars
      PROVE  [\A c \in Clients : Resolves(c) => Excused(c)]_vars
  <2> SUFFICES ASSUME NEW c \in Clients, client[c] = "waiting", client'[c] = "resolved"
               PROVE  Excused(c)
    BY DEF Resolves
  <2>1. /\ sample # None /\ sample.done = c
        /\ client \in [Clients -> ClientStates] /\ reply \in [Clients -> Seq(Nat)]
    BY <1>1 DEF IInv, WaitingHasSender, TypeOK
  <2>2. CASE RecordSample
    <3> DEFINE collected == Append(sample.collected, recorded + 1)
    <3>1. recorded' = recorded + 1
      BY <2>2 DEF RecordSample
    <3>2. Complete(collected, sample.target) /\ reply'[c] = collected
      BY <2>1, <2>2, <3>1 DEF RecordSample, Send
    <3> QED
      BY <3>2 DEF Complete
  <2>3. ASSUME NEW d \in Clients, Command(d), d # c
        PROVE  Excused(c)
    <3>1. CASE Connect(d) \/ Hangup(d) \/ StartSampleRefused(d) \/ Answer(d)
      BY <2>1, <2>3, <3>1 DEF Connect, Hangup, StartSampleRefused, Answer
    <3>2. CASE \E n \in Sizes : StartSample(d, n) \/ StartSamplePanics(d, n)
      <4>1. client[d] = "idle" /\ client'[d] \in {"waiting", "closed"}
        BY <2>1, <3>2 DEF StartSample, StartSamplePanics, Flush
      <4> QED
        BY <2>3, <4>1
    <3> QED
      BY <2>3, <3>1, <3>2 DEF Command
  <2>4. ~Command(c)
    BY <2>1 DEF Command, Connect, Hangup, StartSample, StartSamplePanics, StartSampleRefused,
                Answer
  <2>5. ~RecordOnly /\ ~UNCHANGED vars
    BY <2>1 DEF RecordOnly, vars
  <2> QED
    BY <1>1, <2>2, <2>3, <2>4, <2>5 DEF Next, Record
<1> QED
  BY <1>1, Invariance, PTL DEF Spec, ShortOnlyIfFlushed

(* A client gets more requests than it asked for only if it asked for      *)
(* none: record sends a sample with the request that completes it.         *)
THEOREM TooLongOnlyForNone == ASSUME 0 \notin Sizes PROVE Spec => NeverTooLong
<1> DEFINE Sized == sample # None => sample.target # 0
           Fits(c) == Resolves(c) => Len(reply'[c]) <= sample.target
<1>1. Init => Sized
  BY DEF Init
<1>2. ASSUME IInv, Sized, [Next]_vars
      PROVE  Sized'
  <2>1. CASE Record
    BY <1>2, <2>1 DEF Record, RecordOnly, RecordSample, IInv, TypeOK, Samples
  <2>2. ASSUME NEW c \in Clients, NEW n \in Sizes, StartSample(c, n)
        PROVE  Sized'
    BY <2>2 DEF StartSample, Blank
  <2>3. ASSUME NEW c \in Clients, Command(c), ~\E n \in Sizes : StartSample(c, n)
        PROVE  Sized'
    BY <1>2, <2>3 DEF Command, Connect, Hangup, StartSamplePanics, StartSampleRefused, Answer,
                      recorderVars
  <2> QED
    BY <1>2, <2>1, <2>2, <2>3 DEF Next, vars, recorderVars
<1>3. ASSUME IInv, Sized, [Next]_vars
      PROVE  [\A c \in Clients : Fits(c)]_vars
  <2> SUFFICES ASSUME NEW c \in Clients, client[c] = "waiting", client'[c] = "resolved"
               PROVE  Len(reply'[c]) <= sample.target
    BY DEF Resolves
  <2>1. /\ sample # None /\ sample.done = c /\ sample.target \in Nat \ {0}
        /\ sample.collected \in Seq(Nat) /\ Len(sample.collected) < sample.target
        /\ client \in [Clients -> ClientStates] /\ reply \in [Clients -> Seq(Nat)]
    BY <1>3 DEF IInv, WaitingHasSender, TypeOK, Samples, SampleIsContiguous
  <2>2. CASE Record
    <3>1. reply'[c] = Append(sample.collected, recorded')
      BY <2>1, <2>2 DEF Record, RecordOnly, RecordSample, Send
    <3> QED
      BY <2>1, <3>1
  <2>3. ASSUME NEW d \in Clients, Command(d)
        PROVE  Len(reply'[c]) <= sample.target
    <3>1. \/ \E n \in Sizes : StartSample(d, n)
          \/ \E n \in Sizes : StartSamplePanics(d, n)
      BY <2>1, <2>3 DEF Command, Connect, Hangup, StartSampleRefused, Answer
    <3>2. reply'[c] = sample.collected
      BY <2>1, <3>1 DEF StartSample, StartSamplePanics, Flush
    <3> QED
      BY <2>1, <3>2
  <2> QED
    BY <1>3, <2>1, <2>2, <2>3 DEF Next, vars
<1> QED
  BY <1>1, <1>2, <1>3, Invariance, PTL DEF Spec, NeverTooLong

(* Every step sends runs only, and leaves the ones already sent alone.     *)
LEMMA AnswersStayGapless ==
  ASSUME IInv, AnswersAreGapless, Next
  PROVE  AnswersAreGapless'
<1> SUFFICES ASSUME NEW c \in Clients, client'[c] = "resolved"
             PROVE  \E last \in 0 .. recorded' :
                      Len(reply'[c]) <= last /\ reply'[c] = Newest(Len(reply'[c]), last)
  BY DEF AnswersAreGapless, Gapless
<1>1. /\ recorded \in Nat /\ recorded' \in {recorded, recorded + 1}
      /\ client \in [Clients -> ClientStates] /\ reply \in [Clients -> Seq(Nat)]
  BY DEF IInv, TypeOK, Next, Record, RecordOnly, RecordSample, Command, Connect, Hangup,
         StartSample, StartSamplePanics, StartSampleRefused, Answer, recorderVars
<1>2. CASE client[c] = "resolved" /\ reply'[c] = reply[c]
  BY <1>1, <1>2 DEF AnswersAreGapless, Gapless
<1>3. CASE sample # None /\ reply'[c] = sample.collected
  BY <1>1, <1>3 DEF IInv, SampleIsContiguous
<1>4. CASE /\ sample # None /\ recorded' = recorded + 1
           /\ reply'[c] = Append(sample.collected, recorded + 1)
  <2> DEFINE n == Len(sample.collected)
  <2>1. n \in 0 .. recorded /\ sample.collected = Newest(n, recorded)
    BY <1>4 DEF IInv, TypeOK, Samples, SampleIsContiguous
  <2>2. reply'[c] = Newest(n + 1, recorded + 1)
    BY <1>1, <1>4, <2>1, NewestAppend
  <2>3. n + 1 \in 0 .. recorded + 1 /\ recorded + 1 \in Nat
    BY <1>1, <2>1
  <2>4. Len(reply'[c]) = n + 1
    BY <2>2, <2>3, NewestType
  <2>5. recorded + 1 \in 0 .. recorded'
    BY <1>4, <2>3
  <2>6. n + 1 <= recorded + 1
    BY <2>3
  <2>7. reply'[c] = Newest(Len(reply'[c]), recorded + 1) /\ Len(reply'[c]) <= recorded + 1
    BY ONLY <2>2, <2>4, <2>6
  <2> QED
    BY ONLY <2>5, <2>7
<1>5. CASE Record
  <2>1. CASE reply' = reply /\ client' = client
    BY <1>2, <2>1
  <2>2. CASE sample # None /\ Send(sample.done, Append(sample.collected, recorded'))
    <3>1. recorded' = recorded + 1
      BY <1>5 DEF Record, RecordOnly, RecordSample
    <3>2. CASE c = sample.done
      BY <1>1, <1>4, <2>2, <3>1, <3>2 DEF Send
    <3>3. CASE c # sample.done
      BY <1>1, <1>2, <2>2, <3>3 DEF Send
    <3> QED
      BY <3>2, <3>3
  <2> QED
    BY <1>5, <2>1, <2>2 DEF Record, RecordOnly, RecordSample
<1>6. ASSUME NEW d \in Clients, Command(d)
      PROVE  \/ client[c] = "resolved" /\ reply'[c] = reply[c]
             \/ sample # None /\ reply'[c] = sample.collected
  <2>1. CASE \E next \in {"waiting", "closed"} : Flush(d, next)
    BY <1>1, <2>1 DEF Flush
  <2>2. CASE Connect(d) \/ Hangup(d) \/ StartSampleRefused(d) \/ Answer(d)
    BY <1>1, <2>2 DEF Connect, Hangup, StartSampleRefused, Answer
  <2> QED
    BY <1>6, <2>1, <2>2 DEF Command, StartSample, StartSamplePanics
<1> QED
  BY <1>2, <1>3, <1>5, <1>6 DEF Next

(* Whatever start_sample, record and flushing do to each other, a client   *)
(* is sent requests that arrived one after the other.                      *)
THEOREM SentWithoutGap == Spec => []AnswersAreGapless
<1>1. Init => AnswersAreGapless
  BY DEF Init, AnswersAreGapless
<1>2. IInv /\ AnswersAreGapless /\ [Next]_vars => AnswersAreGapless'
  <2>1. CASE UNCHANGED vars
    BY <2>1 DEF vars, recorderVars, AnswersAreGapless, Gapless
  <2> QED
    BY <2>1, AnswersStayGapless
<1> QED
  BY <1>1, <1>2, Invariance, PTL DEF Spec

(* A client that goes on waiting has got as much closer to its sample as   *)
(* there were requests.                                                    *)
THEOREM WaitingGetsShorter == Spec => WaitsLess
<1> DEFINE Less(c) == (client[c] = "waiting" /\ client'[c] = "waiting") =>
                        Missing' = Missing - (recorded' - recorded)
<1>1. ASSUME IInv, [Next]_vars
      PROVE  [\A c \in Clients : Less(c)]_vars
  <2> SUFFICES ASSUME NEW c \in Clients, client[c] = "waiting", client'[c] = "waiting", Next
               PROVE  Missing' = Missing - (recorded' - recorded)
    BY <1>1
  <2>1. /\ sample # None /\ sample.done = c /\ sample \in Samples
        /\ recorded \in Nat /\ client \in [Clients -> ClientStates]
    BY <1>1 DEF IInv, TypeOK, WaitingHasSender
  <2>2. /\ sample.target \in Nat /\ sample.collected \in Seq(Nat)
        /\ Missing \in Int
    BY <2>1 DEF Samples, Missing
  <2>3. CASE sample' = sample /\ recorded' = recorded
    <3>1. Missing' = Missing
      BY <2>3 DEF Missing
    <3> QED
      BY ONLY <2>1, <2>2, <2>3, <3>1
  <2>4. CASE RecordSample
    <3> DEFINE collected == Append(sample.collected, recorded + 1)
    <3>1. /\ recorded' = recorded + 1
          /\ sample' = [sample EXCEPT !.collected = collected]
      BY <2>1, <2>4 DEF RecordSample, Send
    <3>2. Len(collected) = Len(sample.collected) + 1 /\ Len(sample.collected) \in Nat
      BY <2>2
    <3>3. sample'.target = sample.target /\ sample'.collected = collected
      BY <2>1, <3>1 DEF Samples
    <3>4. sample' # None
      <4>1. collected \in Seq(Nat)
        BY <2>1, <2>2
      <4>2. sample' \in Samples
        BY <2>1, <3>1, <4>1 DEF Samples
      <4> QED
        BY <4>2, ConstantsAssumption DEF ConstantsAssumption, Samples
    <3> HIDE DEF collected
    <3> DEFINE Wanted == IF sample.target = 0 THEN 1 ELSE sample.target
    <3>5. Missing = Wanted - Len(sample.collected)
      BY <2>1 DEF Missing
    <3>6. Missing' = Wanted - Len(collected)
      BY <3>3, <3>4 DEF Missing
    <3>7. Wanted \in Nat
      BY <2>2
    <3> HIDE DEF Wanted
    <3> QED
      BY ONLY <2>1, <3>1, <3>2, <3>5, <3>6, <3>7
  <2>5. ASSUME NEW d \in Clients, Command(d)
        PROVE  sample' = sample /\ recorded' = recorded
    <3>1. ASSUME NEW next \in {"waiting", "closed"}, Flush(d, next), client[d] = "idle"
          PROVE  FALSE
      BY <2>1, <3>1 DEF Flush
    <3>2. Connect(d) \/ Hangup(d) \/ StartSampleRefused(d) \/ Answer(d)
      BY <2>5, <3>1 DEF Command, StartSample, StartSamplePanics
    <3> QED
      BY <3>2 DEF Connect, Hangup, StartSampleRefused, Answer, recorderVars
  <2> QED
    BY <2>1, <2>3, <2>4, <2>5 DEF Next, Record, RecordOnly
<1> QED
  BY <1>1, Invariance, PTL DEF Spec, WaitsLess
=============================================================================
