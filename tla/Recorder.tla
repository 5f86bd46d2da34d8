------------------------------ MODULE Recorder ------------------------------
(***************************************************************************)
(* The request recorder (src/src/ml/recorder.rs) and the debug-socket      *)
(* clients that draw samples from it (src/src/socket.rs).                  *)
(*                                                                         *)
(* Nothing looks into the features of a request, so a request is its       *)
(* arrival number.  record and start_sample each run entirely under one    *)
(* mutex and are single steps; what interleaves are the requests, the      *)
(* commands of several clients, and the answers travelling back through    *)
(* one-shot channels.                                                      *)
(***************************************************************************)
EXTENDS Integers, Sequences

CONSTANTS
  Clients,       (* connections to the debug socket                        *)
  Sizes,         (* sizes a client may ask for                             *)
  Capacity,      (* CAPACITY of the ring buffer                            *)
  MaxAlloc,      (* Vec::with_capacity overflows, and panics, above it     *)
  MaxRequests,   (* bound of the model: the requests that arrive           *)
  None           (* Option::None                                           *)

ASSUME ConstantsAssumption ==
  /\ Sizes \subseteq Nat
  /\ Capacity \in Nat \ {0}
  /\ MaxAlloc \in Nat
  /\ MaxRequests \in Nat
  /\ None \notin [collected : Seq(Nat), target : Nat, done : Clients]
  /\ None \notin [after : Nat, size : Nat]
  /\ None \notin Seq(Nat)

VARIABLES
  recorded,      (* requests recorded so far                               *)
  recent,        (* State.recent, oldest first                             *)
  sample,        (* State.sample; done is the client whose channel it is   *)
  poisoned,      (* a panic happened while the mutex was held              *)
  client,        (* where each client's connection task is                 *)
  reply          (* what arrived on each client's channel                  *)

recorderVars == <<recorded, recent, sample, poisoned>>
vars == <<recorderVars, client, reply>>

ClientStates == {"closed", "idle", "waiting", "resolved"}

Init ==
  /\ recorded = 0
  /\ recent = << >>
  /\ sample = None
  /\ poisoned = FALSE
  /\ client = [c \in Clients |-> "closed"]
  /\ reply = [c \in Clients |-> << >>]

-----------------------------------------------------------------------------
(* The ring buffer. *)

(* Mutant: the oldest entry rolls off one request too late. *)
PushLate(buffer, request) ==
  Append(IF Len(buffer) > Capacity THEN Tail(buffer) ELSE buffer, request)

Push(buffer, request) ==
  Append(IF Len(buffer) = Capacity THEN Tail(buffer) ELSE buffer, request)

(* done.send(collected) *)
Send(c, collected) ==
  /\ client' = [client EXCEPT ![c] = "resolved"]
  /\ reply' = [reply EXCEPT ![c] = collected]

(* Mutant: completeness is checked before the push. *)
CompleteBefore(collected, target) == Len(collected) - 1 >= target

(* Mutant: a sample is sent one request early. *)
CompleteEarly(collected, target) == Len(collected) + 1 >= target

Complete(collected, target) == Len(collected) >= target

(* A request arrives and no sample is in progress. *)
RecordOnly ==
  /\ ~poisoned
  /\ recorded < MaxRequests
  /\ sample = None
  /\ recorded' = recorded + 1
  /\ recent' = Push(recent, recorded')
  /\ UNCHANGED <<sample, poisoned, client, reply>>

(* A request arrives and joins the sample in progress, which is sent and   *)
(* taken out when it is complete.  Once the mutex is poisoned, record      *)
(* panics instead and the request's task ends with nothing recorded.       *)
RecordSample ==
  /\ ~poisoned
  /\ recorded < MaxRequests
  /\ sample # None
  /\ recorded' = recorded + 1
  /\ recent' = Push(recent, recorded')
  /\ UNCHANGED poisoned
  /\ LET collected == Append(sample.collected, recorded')
     IN  \/ /\ Complete(collected, sample.target)
            /\ sample' = None
            /\ Send(sample.done, collected)
         \/ /\ ~Complete(collected, sample.target)
            /\ sample' = [sample EXCEPT !.collected = collected]
            /\ UNCHANGED <<client, reply>>

Record == RecordOnly \/ RecordSample

-----------------------------------------------------------------------------
(* Clients of the debug socket. *)

Connect(c) ==
  /\ client[c] = "closed"
  /\ client' = [client EXCEPT ![c] = "idle"]
  /\ UNCHANGED <<recorderVars, reply>>

(* End of file, or a failed read. *)
Hangup(c) ==
  /\ client[c] = "idle"
  /\ client' = [client EXCEPT ![c] = "closed"]
  /\ UNCHANGED <<recorderVars, reply>>

(* Mutant: a new sample displaces the one in progress without sending it.  *)
FlushNothing(c, next) ==
  /\ client' = [client EXCEPT ![c] = next]
  /\ UNCHANGED reply

(* The sample in progress is sent as it is, and client c goes on as next.  *)
Flush(c, next) ==
  LET flushed == {d \in Clients : sample # None /\ sample.done = d}
  IN  /\ client' = [d \in Clients |->
           IF d = c THEN next ELSE IF d \in flushed THEN "resolved" ELSE client[d]]
      /\ reply' = [d \in Clients |->
           IF d \in flushed THEN sample.collected ELSE reply[d]]

(* Mutant: the new sample does not keep the sending end of the channel.    *)
BlankUnsent(c, n) == [collected |-> << >>, target |-> n, done |-> None]

(* Mutant: the new sample goes on with what the previous one collected.    *)
BlankReused(c, n) ==
  [collected |-> IF sample = None THEN << >> ELSE sample.collected,
   target |-> n, done |-> c]

Blank(c, n) == [collected |-> << >>, target |-> n, done |-> c]

(* "sample n": flush the sample in progress, start a blank one, and wait.  *)
StartSample(c, n) ==
  /\ client[c] = "idle"
  /\ ~poisoned
  /\ n <= MaxAlloc
  /\ Flush(c, "waiting")
  /\ sample' = Blank(c, n)
  /\ UNCHANGED <<recorded, recent, poisoned>>

(* Mutant: the panic comes before the flush. *)
StartSamplePanicsFirst(c, n) ==
  /\ client[c] = "idle"
  /\ ~poisoned
  /\ n > MaxAlloc
  /\ client' = [client EXCEPT ![c] = "closed"]
  /\ poisoned' = TRUE
  /\ UNCHANGED <<recorded, recent, sample, reply>>

(* "sample n" with an n for which with_capacity overflows: the previous    *)
(* sample is flushed, then the panic poisons the mutex and ends the        *)
(* client's task.  (A smaller n that the allocator refuses ends the whole  *)
(* process, which is left out.)                                            *)
StartSamplePanics(c, n) ==
  /\ client[c] = "idle"
  /\ ~poisoned
  /\ n > MaxAlloc
  /\ Flush(c, "closed")
  /\ sample' = None
  /\ poisoned' = TRUE
  /\ UNCHANGED <<recorded, recent>>

(* "sample n" on the poisoned mutex ends the client's task. *)
StartSampleRefused(c) ==
  /\ client[c] = "idle"
  /\ poisoned
  /\ client' = [client EXCEPT ![c] = "closed"]
  /\ UNCHANGED <<recorderVars, reply>>

(* The task wakes up and writes the sample; the client may be gone.        *)
Answer(c) ==
  /\ client[c] = "resolved"
  /\ \E next \in {"idle", "closed"} : client' = [client EXCEPT ![c] = next]
  /\ reply' = [reply EXCEPT ![c] = << >>]
  /\ UNCHANGED recorderVars

Command(c) ==
  \/ Connect(c)
  \/ Hangup(c)
  \/ \E n \in Sizes : StartSample(c, n)
  \/ \E n \in Sizes : StartSamplePanics(c, n)
  \/ StartSampleRefused(c)
  \/ Answer(c)

Next == Record \/ \E c \in Clients : Command(c)

Spec == Init /\ [][Next]_vars

(* Requests keep arriving and connection tasks get scheduled; what a       *)
(* client types is its own affair.                                         *)
FairSpec == Spec /\ WF_vars(Record) /\ \A c \in Clients : WF_vars(Answer(c))

-----------------------------------------------------------------------------
(* Properties. *)

(* The n requests up to request last, oldest first. *)
Newest(n, last) == [i \in 1 .. n |-> last - n + i]

Samples == [collected : Seq(Nat), target : Nat, done : Clients]

TypeOK ==
  /\ recorded \in Nat
  /\ recent \in Seq(Nat)
  /\ sample \in Samples \cup {None}
  /\ poisoned \in BOOLEAN
  /\ client \in [Clients -> ClientStates]
  /\ reply \in [Clients -> Seq(Nat)]

(* The ring buffer holds the most recent requests, in order, without a gap,*)
(* and it is full as soon as Capacity requests were recorded.              *)
RecentIsNewest ==
  LET n == IF recorded < Capacity THEN recorded ELSE Capacity
  IN  recent = Newest(n, recorded)

(* The sample in progress is a contiguous run of requests that ends with   *)
(* the latest one, and it is not complete.                                 *)
SampleIsContiguous ==
  sample # None =>
    LET n == Len(sample.collected)
    IN  /\ n <= recorded
        /\ sample.collected = Newest(n, recorded)
        /\ n = 0 \/ n < sample.target

(* Of all clients exactly the one whose channel is in the recorder waits:  *)
(* no waiting client is forgotten, so none is told "sample cancelled".     *)
WaitingHasSender ==
  \A c \in Clients :
    client[c] = "waiting" <=> (sample # None /\ sample.done = c)

(* A client gets fewer requests than it asked for only because another     *)
(* client's command flushed its sample.                                    *)
Resolves(c) == client[c] = "waiting" /\ client'[c] = "resolved"

ShortOnlyIfFlushed ==
  [][\A c \in Clients : Resolves(c) =>
       \/ Len(reply'[c]) >= sample.target
       \/ \E d \in Clients \ {c} : client[d] = "idle" /\ client'[d] # "idle"]_vars

(* What a client is about to get is a run of requests that came one after  *)
(* the other, however many samples were started and flushed since.         *)
Gapless(s) == \E last \in 0 .. recorded : Len(s) <= last /\ s = Newest(Len(s), last)

AnswersAreGapless == \A c \in Clients : client[c] = "resolved" => Gapless(reply[c])

(* "Size at which the sample is complete": a client never gets more        *)
(* requests than it asked for.                                             *)
NeverTooLong ==
  [][\A c \in Clients : Resolves(c) => Len(reply'[c]) <= sample.target]_vars

(* A waiting client gets its sample once enough requests arrived, even if  *)
(* other clients come in between or make the recorder panic.               *)
Missing ==
  IF sample = None THEN 1
  ELSE (IF sample.target = 0 THEN 1 ELSE sample.target) - Len(sample.collected)

SampleArrives ==
  \A c \in Clients :
    (client[c] = "waiting" /\ recorded + Missing <= MaxRequests)
      ~> client[c] = "resolved"

(* Why: every request that is recorded, by whichever handler, answers the  *)
(* client that waits or brings it closer by one, and nothing takes it back *)
(* but another client's command, which answers it.                         *)
WaitsLess ==
  [][\A c \in Clients :
       (client[c] = "waiting" /\ client'[c] = "waiting") =>
         Missing' = Missing - (recorded' - recorded)]_vars

(* The inductive invariant. *)
IInv ==
  /\ TypeOK
  /\ RecentIsNewest
  /\ SampleIsContiguous
  /\ WaitingHasSender

(* What the recorder promises its clients, without its buffer and its slot *)
(* for one sample: see SamplePromise.                                      *)
Asked == [c \in Clients |->
  IF sample # None /\ sample.done = c
  THEN [after |-> recorded - Len(sample.collected), size |-> sample.target]
  ELSE None]

Answered == [c \in Clients |-> IF client[c] = "resolved" THEN reply[c] ELSE None]

Promise == INSTANCE SamplePromise WITH asked <- Asked, answer <- Answered

PromiseKept == Promise!Spec
=============================================================================
