---------------------------- MODULE SamplePromise ----------------------------
(***************************************************************************)
(* What record and start_sample of src/src/ml/recorder.rs do for the       *)
(* clients of the debug socket, without the one slot, the buffers and the  *)
(* mutex they do it with: a sample is the run of requests recorded since   *)
(* it was asked for; it is answered when it is complete, or earlier when   *)
(* another sample is started.                                              *)
(***************************************************************************)
EXTENDS Integers, Sequences

CONSTANTS Clients, Sizes, MaxRequests, None

VARIABLES
  recorded,   (* requests recorded so far                                   *)
  asked,      (* None, or the size a client asked for and after how many    *)
              (* requests it did                                            *)
  answer      (* None, or the requests that wait to be written to a client  *)

vars == <<recorded, asked, answer>>

Init ==
  /\ recorded = 0
  /\ asked = [c \in Clients |-> None]
  /\ answer = [c \in Clients |-> None]

Asking == {c \in Clients : asked[c] # None}

(* The requests after the first `after` of them, up to the latest. *)
Since(after, latest) == [i \in 1 .. (latest - after) |-> after + i]

(* Every client of D gets what was recorded since it asked. *)
Deliver(D, latest) ==
  answer' = [c \in Clients |-> IF c \in D THEN Since(asked[c].after, latest) ELSE answer[c]]

(* A request is recorded, and completes the samples it is the last of. *)
Arrive ==
  LET done == {c \in Asking : recorded + 1 - asked[c].after >= asked[c].size}
  IN  /\ recorded < MaxRequests
      /\ recorded' = recorded + 1
      /\ Deliver(done, recorded')
      /\ asked' = [c \in Clients |-> IF c \in done THEN None ELSE asked[c]]

(* A client asks, and ends every other client's sample. *)
Ask(c, n) ==
  /\ asked[c] = None
  /\ answer[c] = None
  /\ Deliver(Asking, recorded)
  /\ asked' = [d \in Clients |->
       IF d = c THEN [after |-> recorded, size |-> n] ELSE None]
  /\ UNCHANGED recorded

(* A client asks for more than can be kept, and gets nothing. *)
AskTooMuch(c) ==
  /\ asked[c] = None
  /\ answer[c] = None
  /\ Deliver(Asking, recorded)
  /\ asked' = [d \in Clients |-> None]
  /\ UNCHANGED recorded

(* The answer is written to the client. *)
Written(c) ==
  /\ answer[c] # None
  /\ answer' = [answer EXCEPT ![c] = None]
  /\ UNCHANGED <<recorded, asked>>

Next ==
  \/ Arrive
  \/ \E c \in Clients :
       (\E n \in Sizes : Ask(c, n)) \/ AskTooMuch(c) \/ Written(c)

Spec == Init /\ [][Next]_vars
=============================================================================
