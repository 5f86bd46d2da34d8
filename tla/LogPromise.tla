----------------------------- MODULE LogPromise ------------------------------
(***************************************************************************)
(* What the access log of src/src/access_log.rs does with an entry that is *)
(* appended to it, without the channel, the writer task, the files and     *)
(* logrotate: the oldest open entry is kept, after all that was kept       *)
(* before and for good, or it alone is given up; and all that is open goes *)
(* with the process.                                                       *)
(***************************************************************************)
EXTENDS Integers, Sequences

VARIABLES
  accepted,   (* entries appended so far, numbered in that order            *)
  open,       (* the entries nothing has happened to yet                    *)
  kept        (* the entries in the files                                   *)

vars == <<accepted, open, kept>>

Init ==
  /\ accepted = 0
  /\ open = {}
  /\ kept = << >>

Accept ==
  /\ accepted' = accepted + 1
  /\ open' = open \cup {accepted'}
  /\ UNCHANGED kept

Oldest(e) == e \in open /\ \A f \in open : e <= f

Keep(e) ==
  /\ Oldest(e)
  /\ open' = open \ {e}
  /\ kept' = Append(kept, e)
  /\ UNCHANGED accepted

GiveUp(e) ==
  /\ Oldest(e)
  /\ open' = open \ {e}
  /\ UNCHANGED <<accepted, kept>>

End ==
  /\ open' = {}
  /\ UNCHANGED <<accepted, kept>>

Next == Accept \/ (\E e \in open : Keep(e) \/ GiveUp(e)) \/ End

Spec == Init /\ [][Next]_vars
=============================================================================
