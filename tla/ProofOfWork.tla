----------------------------- MODULE ProofOfWork ------------------------------
(***************************************************************************)
(* The proof of work: the search of src/web/worker.js through the ChaCha8  *)
(* keystream of a puzzle, and verify_proof_of_work of src/src/challenge.rs *)
(* on the other side, which seeks in the same keystream.                   *)
(*                                                                         *)
(* Of a word of the keystream only the number of its leading zero bits     *)
(* matters.  The worker counts blocks without a bound and writes the count *)
(* into a 32-bit word of the cipher's input; the server takes offsets that *)
(* fit 32 bits.                                                            *)
(***************************************************************************)
EXTENDS Integers, Sequences

CONSTANTS
  NumOffsets,    (* num_offsets, NUM_SOLUTION_OFFSETS                      *)
  BlockWords,    (* words in a block of the keystream                      *)
  Words32,       (* how many values a 32-bit word has                      *)
  Zeros,         (* numbers of leading zeros                               *)
  Difficulties,  (* config.difficulty                                      *)
  MaxScan        (* bound: words the worker scans                          *)

ASSUME WorkAssumption ==
  /\ {NumOffsets, BlockWords, Words32} \subseteq Nat \ {0}
  /\ Zeros \subseteq Nat
  /\ Difficulties \subseteq Nat
  /\ MaxScan \in Nat

VARIABLES
  keystream,     (* what the puzzle's nonce expands to                     *)
  difficulty,    (* what both sides are told                               *)
  counter, word, (* the block and the word in it that is scanned next      *)
  offsets,       (* what the worker found                                  *)
  done           (* the worker posted its offsets                          *)

work == <<keystream, difficulty, counter, word, offsets, done>>

Init ==
  /\ keystream \in [0 .. BlockWords * Words32 - 1 -> Zeros]
  /\ difficulty \in Difficulties
  /\ counter = 0
  /\ word = 0
  /\ offsets = << >>
  /\ done = FALSE

(* The word of the keystream the worker looks at: the counter is cut to 32 *)
(* bits when it is written into the input block.                           *)
Leading == keystream[BlockWords * (counter % Words32) + word]

(* Mutant: words are counted from one. *)
OffsetFromOne == counter * BlockWords + word + 1

Offset == counter * BlockWords + word

Found == Leading >= difficulty

Advance ==
  IF word + 1 < BlockWords
  THEN word' = word + 1 /\ counter' = counter
  ELSE word' = 0 /\ counter' = counter + 1

(* One word of the search; with the last offset it ends and is posted. *)
Scan ==
  /\ ~done
  /\ Offset < MaxScan
  /\ offsets' = IF Found THEN Append(offsets, Offset) ELSE offsets
  /\ done' = (Len(offsets') = NumOffsets)
  /\ Advance
  /\ UNCHANGED <<keystream, difficulty>>

Spec == Init /\ [][Scan]_work

-----------------------------------------------------------------------------
(* The server. *)

(* serde refuses what is no Vec<u32>. *)
Parses(s) == \A i \in 1 .. Len(s) : s[i] < Words32

(* Mutant: offsets may repeat. *)
InOrderWeakly(s) == \A i \in 1 .. Len(s) - 1 : s[i] <= s[i + 1]

InOrder(s) == \A i \in 1 .. Len(s) - 1 : s[i] < s[i + 1]

VerifyProofOfWork(s) ==
  /\ Len(s) = NumOffsets
  /\ InOrder(s)
  /\ \A i \in 1 .. Len(s) : keystream[s[i]] >= difficulty

Accepted(s) == Parses(s) /\ VerifyProofOfWork(s)

-----------------------------------------------------------------------------
(* Properties. *)

(* The server accepts what the worker posts, as long as the search did not *)
(* take it past the offsets that fit 32 bits, and rejects it otherwise.    *)
WorkAccepted == done => (Accepted(offsets) <=> offsets[NumOffsets] < Words32)

(* No submission spares the search: whatever is accepted names a word that *)
(* a worker only reaches with the last step of its own search, or later.   *)
Submissions == UNION {[1 .. n -> 0 .. Words32] : n \in 0 .. NumOffsets + 1}

Searched == counter * BlockWords + word

NoShortcut ==
  \A s \in Submissions :
    Accepted(s) => Searched <= s[NumOffsets] + (IF done THEN 1 ELSE 0)

(* The inductive invariant: the offsets are in order, and are exactly the  *)
(* good ones among the words scanned, as far as the counter did not wrap.  *)
WorkTypeOK ==
  /\ keystream \in [0 .. BlockWords * Words32 - 1 -> Zeros]
  /\ difficulty \in Difficulties
  /\ counter \in Nat
  /\ word \in 0 .. BlockWords - 1
  /\ offsets \in Seq(Nat)
  /\ done \in BOOLEAN

Ascending ==
  /\ \A i \in 1 .. Len(offsets) : offsets[i] < Searched
  /\ \A i, j \in 1 .. Len(offsets) : i < j => offsets[i] < offsets[j]

Exact ==
  \A k \in 0 .. Words32 - 1 :
    k < Searched => (keystream[k] >= difficulty <=> \E i \in 1 .. Len(offsets) : offsets[i] = k)

Ended ==
  /\ Len(offsets) <= NumOffsets
  /\ done <=> Len(offsets) = NumOffsets
  /\ done => Searched = offsets[NumOffsets] + 1

WorkInv == WorkTypeOK /\ Ascending /\ Exact /\ Ended
=============================================================================
