-------------------------- MODULE ProofOfWorkProofs ---------------------------
(***************************************************************************)
(* Worker and verifier agree for every keystream, difficulty, number of    *)
(* offsets and block size, and no submission spares the search.            *)
(***************************************************************************)
EXTENDS ProofOfWork, SequenceTheorems, FiniteSetTheorems, WellFoundedInduction, TLAPS

USE WorkAssumption DEF WorkAssumption

(* A counter of a word within 32 bits is below 2^32 itself, so that the    *)
(* cut does nothing to it.                                                 *)
LEMMA CounterFits ==
  ASSUME NEW c \in Nat, NEW w \in 0 .. BlockWords - 1, c * BlockWords + w < Words32
  PROVE  c % Words32 = c
<1>1. c <= c * BlockWords
  BY SMT
<1>2. c < Words32
  BY <1>1
<1> QED
  BY <1>2, SMT

(* The words come one after the other. *)
LEMMA AdvanceByOne ==
  ASSUME WorkTypeOK, Advance
  PROVE  /\ counter' \in Nat
         /\ word' \in 0 .. BlockWords - 1
         /\ Searched' = Searched + 1
<1> DEFINE before == counter * BlockWords
<1>1. before \in Nat /\ BlockWords \in Nat
  BY DEF WorkTypeOK
<1>2. CASE word + 1 < BlockWords
  <2>1. word' = word + 1 /\ counter' = counter
    BY <1>2 DEF Advance
  <2>2. Searched = before + word /\ Searched' = before + word'
    BY <2>1 DEF Searched
  <2>3. word \in 0 .. BlockWords - 1 /\ counter \in Nat
    BY DEF WorkTypeOK
  <2> HIDE DEF before
  <2> QED
    BY <1>1, <1>2, <2>1, <2>2, <2>3
<1>3. CASE ~(word + 1 < BlockWords)
  <2>1. word = BlockWords - 1 /\ word' = 0 /\ counter' = counter + 1
    BY <1>1, <1>3 DEF Advance, WorkTypeOK
  <2>2. (counter + 1) * BlockWords = before + BlockWords
    BY DEF WorkTypeOK
  <2>3. Searched = before + word /\ Searched' = before + BlockWords
    BY <1>1, <2>1, <2>2 DEF Searched
  <2>4. counter' \in Nat /\ word' \in 0 .. BlockWords - 1
    BY <1>1, <2>1 DEF WorkTypeOK
  <2> HIDE DEF before
  <2> QED
    BY <1>1, <2>1, <2>3, <2>4
<1> QED
  BY <1>2, <1>3

(* Neighbours in order means all in order: otherwise take the first place  *)
(* that something before it is not below.                                  *)
LEMMA OrderIsTotal ==
  ASSUME NEW n \in Nat, NEW s \in [1 .. n -> Nat], InOrder(s)
  PROVE  \A i, j \in 1 .. n : i < j => s[i] < s[j]
<1> DEFINE T == {j \in 1 .. n : \E i \in 1 .. n : i < j /\ s[i] >= s[j]}
<1>1. Len(s) = n
  OBVIOUS
<1>2. SUFFICES ASSUME NEW a \in 1 .. n, NEW b \in 1 .. n, a < b, ~(s[a] < s[b])
               PROVE  FALSE
  OBVIOUS
<1>3. PICK j \in T : \A k \in T : <<k, j>> \notin OpToRel(<, Nat)
  <2>1. T \subseteq Nat
    OBVIOUS
  <2>2. b \in T
    BY <1>2
  <2> QED
    BY <2>1, <2>2, NatLessThanWellFounded, WFMin
<1>4. ASSUME NEW k \in T, k < j
      PROVE  FALSE
  <2>1. k \in Nat /\ j \in Nat
    OBVIOUS
  <2>2. <<k, j>> \in OpToRel(<, Nat)
    <3> HIDE DEF T
    <3> QED
      BY <2>1, <1>4 DEF OpToRel
  <2> QED
    BY <2>2, <1>3
<1>5. PICK i \in 1 .. n : i < j /\ s[i] >= s[j]
  OBVIOUS
<1>6. s[j - 1] < s[j]
  BY <1>1, <1>5 DEF InOrder
<1>7. CASE i = j - 1
  BY <1>5, <1>6, <1>7
<1>8. CASE i < j - 1
  <2>1. j - 1 \notin T /\ j - 1 \in 1 .. n
    BY <1>4, <1>5
  <2>2. s[i] < s[j - 1]
    BY <2>1, <1>8
  <2> QED
    BY <2>2, <1>5, <1>6
<1> QED
  BY <1>5, <1>7, <1>8

-----------------------------------------------------------------------------
(* The search. *)

LEMMA InitWork == Init => WorkInv
<1> SUFFICES ASSUME Init
             PROVE  WorkInv
  OBVIOUS
<1>1. WorkTypeOK
  <2>1. offsets \in Seq(Nat)
    BY EmptySeq DEF Init
  <2>4. done \in BOOLEAN
    BY DEF Init
  <2>2. counter \in Nat /\ word \in 0 .. BlockWords - 1
    BY DEF Init
  <2>3. /\ keystream \in [0 .. BlockWords * Words32 - 1 -> Zeros]
        /\ difficulty \in Difficulties
    BY DEF Init
  <2> QED
    BY <2>1, <2>2, <2>3, <2>4 DEF WorkTypeOK
<1>2. Searched = 0
  BY DEF Init, Searched
<1>3. Len(offsets) = 0
  BY DEF Init
<1> QED
  BY <1>1, <1>2, <1>3 DEF Init, WorkInv, Ascending, Exact, Ended

(* The worker looks at the word the server seeks to, as long as its offset *)
(* fits 32 bits.                                                           *)
LEMMA SameWord ==
  ASSUME WorkTypeOK, Searched < Words32
  PROVE  Leading = keystream[Searched]
<1>1. counter \in Nat /\ word \in 0 .. BlockWords - 1
  BY DEF WorkTypeOK
<1>2. counter * BlockWords + word < Words32
  BY DEF Searched
<1>3. counter % Words32 = counter
  BY <1>1, <1>2, CounterFits
<1>4. BlockWords * counter + word = counter * BlockWords + word
  BY <1>1
<1> QED
  BY <1>3, <1>4 DEF Leading, Searched

(* A step of the search appends the word it looks at, or leaves it. *)
LEMMA ScanOffsets ==
  ASSUME WorkTypeOK, Scan
  PROVE  /\ offsets' \in Seq(Nat)
         /\ Searched \in Nat
         /\ Found => /\ Len(offsets') = Len(offsets) + 1
                     /\ offsets'[Len(offsets) + 1] = Searched
                     /\ \A i \in 1 .. Len(offsets) : offsets'[i] = offsets[i]
         /\ ~Found => offsets' = offsets
<1>1. Searched \in Nat /\ Offset = Searched
  BY DEF WorkTypeOK, Searched, Offset
<1>2. offsets \in Seq(Nat)
  BY DEF WorkTypeOK
<1>3. CASE Found
  <2>1. offsets' = Append(offsets, Searched)
    BY <1>1, <1>3 DEF Scan
  <2> QED
    BY <1>1, <1>2, <1>3, <2>1
<1>4. CASE ~Found
  BY <1>1, <1>2, <1>4 DEF Scan
<1> QED
  BY <1>3, <1>4

LEMMA ScanKeeps ==
  ASSUME WorkInv, Scan
  PROVE  WorkInv'
<1>1. WorkTypeOK /\ Ascending /\ Exact /\ Ended
  BY DEF WorkInv
<1>2. /\ counter' \in Nat
      /\ word' \in 0 .. BlockWords - 1
      /\ Searched' = Searched + 1
  BY <1>1, AdvanceByOne DEF Scan
<1>3. /\ offsets' \in Seq(Nat)
      /\ Searched \in Nat
      /\ Found => /\ Len(offsets') = Len(offsets) + 1
                  /\ offsets'[Len(offsets) + 1] = Searched
                  /\ \A i \in 1 .. Len(offsets) : offsets'[i] = offsets[i]
      /\ ~Found => offsets' = offsets
  BY <1>1, ScanOffsets
<1>4. Len(offsets) \in Nat /\ offsets \in Seq(Nat)
  BY <1>1 DEF WorkTypeOK
<1>5. WorkTypeOK'
  <2>1. /\ keystream' \in [0 .. BlockWords * Words32 - 1 -> Zeros]
        /\ difficulty' \in Difficulties
    BY <1>1 DEF WorkTypeOK, Scan
  <2>2. done' \in BOOLEAN
    BY DEF Scan
  <2> QED
    BY <1>2, <1>3, <2>1, <2>2 DEF WorkTypeOK
<1>6. Ascending'
  <2>1. CASE Found
    <3>1. \A i \in 1 .. Len(offsets) : offsets'[i] < Searched
      BY <1>1, <1>3, <2>1 DEF Ascending
    <3>2. \A i \in 1 .. Len(offsets') : offsets'[i] < Searched + 1
      <4> SUFFICES ASSUME NEW i \in 1 .. Len(offsets')
                   PROVE  offsets'[i] < Searched + 1
        OBVIOUS
      <4>1. i \in 1 .. Len(offsets) \/ i = Len(offsets) + 1
        BY <1>3, <1>4, <2>1
      <4>2. offsets'[i] \in Nat
        BY <1>3
      <4> QED
        BY <1>3, <2>1, <3>1, <4>1, <4>2
    <3>3. ASSUME NEW i \in 1 .. Len(offsets'), NEW j \in 1 .. Len(offsets'), i < j
          PROVE  offsets'[i] < offsets'[j]
      <4>1. CASE j = Len(offsets) + 1
        BY <1>3, <1>4, <2>1, <3>1, <3>3, <4>1
      <4>2. CASE j \in 1 .. Len(offsets)
        <5>1. i \in 1 .. Len(offsets)
          BY <1>4, <3>3, <4>2
        <5>2. offsets[i] < offsets[j]
          BY <1>1, <3>3, <4>2, <5>1 DEF Ascending
        <5> QED
          BY <1>3, <2>1, <4>2, <5>1, <5>2
      <4> QED
        BY <1>3, <1>4, <2>1, <4>1, <4>2
    <3> QED
      BY <1>2, <3>2, <3>3 DEF Ascending
  <2>2. CASE ~Found
    <3>1. \A i \in 1 .. Len(offsets) : offsets[i] < Searched + 1
      <4> SUFFICES ASSUME NEW i \in 1 .. Len(offsets)
                   PROVE  offsets[i] < Searched + 1
        OBVIOUS
      <4>1. offsets[i] \in Nat
        BY <1>4
      <4>2. offsets[i] < Searched
        BY <1>1 DEF Ascending
      <4> QED
        BY <1>3, <4>1, <4>2
    <3> QED
      BY <1>1, <1>2, <1>3, <2>2, <3>1 DEF Ascending
  <2> QED
    BY <2>1, <2>2
<1>7. Exact'
  <2> SUFFICES ASSUME NEW k \in 0 .. Words32 - 1, k < Searched + 1
               PROVE  keystream[k] >= difficulty <=>
                        \E i \in 1 .. Len(offsets') : offsets'[i] = k
    BY <1>2 DEF Exact, Scan
  <2>1. CASE k = Searched
    <3>1. Found <=> keystream[k] >= difficulty
      BY <1>1, <2>1, SameWord DEF Found
    <3>2. ASSUME NEW i \in 1 .. Len(offsets)
          PROVE  offsets[i] # k
      <4>1. offsets[i] < Searched /\ offsets[i] \in Nat
        BY <1>1, <1>4 DEF Ascending
      <4> QED
        BY <1>3, <2>1, <4>1
    <3> QED
      BY <1>3, <1>4, <2>1, <3>1, <3>2
  <2>2. CASE k < Searched
    <3>1. keystream[k] >= difficulty <=> \E i \in 1 .. Len(offsets) : offsets[i] = k
      BY <1>1, <2>2 DEF Exact
    <3>2. (\E i \in 1 .. Len(offsets) : offsets[i] = k)
            <=> (\E i \in 1 .. Len(offsets') : offsets'[i] = k)
      <4>1. CASE Found
        <5>1. Len(offsets') = Len(offsets) + 1
          BY <1>3, <4>1
        <5>2. offsets'[Len(offsets) + 1] # k
          BY <1>3, <2>2, <4>1
        <5>3. \A i \in 1 .. Len(offsets) + 1 : i \in 1 .. Len(offsets) \/ i = Len(offsets) + 1
          BY <1>4
        <5>4. \A i \in 1 .. Len(offsets) : i \in 1 .. Len(offsets) + 1
          BY <1>4
        <5> QED
          BY <1>3, <4>1, <5>1, <5>2, <5>3, <5>4
      <4>2. CASE ~Found
        BY <1>3, <4>2
      <4> QED
        BY <4>1, <4>2
    <3> QED
      BY <3>1, <3>2
  <2> QED
    BY <1>3, <2>1, <2>2
<1>8. Ended'
  <2>1. ~done /\ (done' <=> Len(offsets') = NumOffsets)
    BY DEF Scan
  <2>2. Len(offsets) < NumOffsets
    BY <1>1, <1>4, <2>1 DEF Ended
  <2>3. CASE Found
    <3>1. Len(offsets') <= NumOffsets
      BY <1>3, <1>4, <2>2, <2>3
    <3>2. ASSUME done'
          PROVE  Searched' = offsets'[NumOffsets] + 1
      BY <1>2, <1>3, <1>4, <2>1, <2>3, <3>2
    <3> QED
      BY <2>1, <3>1, <3>2 DEF Ended
  <2>4. CASE ~Found
    <3>1. Len(offsets') < NumOffsets
      BY <1>3, <2>2, <2>4
    <3>2. ~done'
      BY <1>4, <2>1, <3>1
    <3> QED
      BY <1>3, <1>4, <2>1, <2>2, <2>4, <3>2 DEF Ended
  <2> QED
    BY <2>3, <2>4
<1> QED
  BY <1>5, <1>6, <1>7, <1>8 DEF WorkInv

-----------------------------------------------------------------------------
(* Theorems. *)

(* The worker's offsets are exactly the good words it scanned, in order    *)
(* (the loop of worker.js).                                                *)
THEOREM SearchIsExact == Spec => []WorkInv
<1>1. WorkInv /\ [Scan]_work => WorkInv'
  <2>1. CASE Scan
    BY <2>1, ScanKeeps
  <2>2. CASE UNCHANGED work
    BY <2>2 DEF WorkInv, WorkTypeOK, Ascending, Exact, Ended, Searched, work
  <2> QED
    BY <2>1, <2>2
<1> QED
  BY <1>1, InitWork, PTL DEF Spec

(* verify_proof_of_work accepts what worker.js posts, exactly when the     *)
(* last of its offsets fits 32 bits.                                       *)
THEOREM WorkIsAccepted == Spec => []WorkAccepted
<1>1. WorkInv => WorkAccepted
  <2> SUFFICES ASSUME WorkInv, done
               PROVE  Accepted(offsets) <=> offsets[NumOffsets] < Words32
    BY DEF WorkAccepted
  <2>1. Len(offsets) = NumOffsets /\ offsets \in Seq(Nat)
    BY DEF WorkInv, Ended, WorkTypeOK
  <2>2. \A i, j \in 1 .. NumOffsets : i < j => offsets[i] < offsets[j]
    BY <2>1 DEF WorkInv, Ascending
  <2>3. ASSUME Accepted(offsets)
        PROVE  offsets[NumOffsets] < Words32
    BY <2>1, <2>3 DEF Accepted, Parses
  <2>4. ASSUME offsets[NumOffsets] < Words32
        PROVE  Accepted(offsets)
    <3>1. \A i \in 1 .. NumOffsets : offsets[i] \in Nat
      BY <2>1
    <3>2. \A i \in 1 .. NumOffsets : offsets[i] < Words32
      BY <2>2, <2>4, <3>1
    <3>3. InOrder(offsets)
      BY <2>1, <2>2 DEF InOrder
    <3>4. ASSUME NEW i \in 1 .. NumOffsets
          PROVE  keystream[offsets[i]] >= difficulty
      <4>1. offsets[i] \in 0 .. Words32 - 1 /\ offsets[i] < Searched
        BY <2>1, <3>1, <3>2 DEF WorkInv, Ascending
      <4> QED
        BY <2>1, <4>1 DEF WorkInv, Exact
    <3> QED
      BY <2>1, <3>2, <3>3, <3>4 DEF Accepted, Parses, VerifyProofOfWork
  <2> QED
    BY <2>3, <2>4
<1> QED
  BY <1>1, SearchIsExact, PTL

(* Whatever verify_proof_of_work accepts costs the whole search: were all  *)
(* its offsets before the one that ends it, they would be NumOffsets       *)
(* different ones among fewer that the worker found.                       *)
THEOREM NothingSparesTheSearch == Spec => []NoShortcut
<1>1. WorkInv => NoShortcut
  <2> SUFFICES ASSUME WorkInv, NEW s \in Submissions, Accepted(s),
                      ~(Searched <= s[NumOffsets] + (IF done THEN 1 ELSE 0))
               PROVE  FALSE
    BY DEF NoShortcut
  <2> DEFINE found == IF done THEN NumOffsets - 1 ELSE Len(offsets)
  <2>1. PICK n \in 0 .. NumOffsets + 1 : s \in [1 .. n -> 0 .. Words32]
    BY DEF Submissions
  <2>2. n = NumOffsets
    BY <2>1 DEF Accepted, VerifyProofOfWork
  <2>3. s \in [1 .. NumOffsets -> Nat] /\ Len(s) = NumOffsets
    BY <2>1, <2>2
  <2>4. \A i, j \in 1 .. NumOffsets : i < j => s[i] < s[j]
    BY <2>3, OrderIsTotal DEF Accepted, VerifyProofOfWork
  <2>5. Searched \in Nat /\ offsets \in Seq(Nat) /\ Len(offsets) \in Nat
    <3>1. counter \in Nat /\ word \in Nat /\ offsets \in Seq(Nat)
      BY DEF WorkInv, WorkTypeOK
    <3> QED
      BY <3>1 DEF Searched
  <2>6. found \in Nat /\ found < NumOffsets /\ found <= Len(offsets)
    BY <2>5 DEF WorkInv, Ended
  <2>7. ASSUME NEW i \in 1 .. NumOffsets
        PROVE  \E k \in 1 .. found : offsets[k] = s[i]
    <3>1. s[i] \in Nat /\ s[NumOffsets] \in Nat /\ s[i] <= s[NumOffsets]
      BY <2>3, <2>4
    <3>2. s[i] \in 0 .. Words32 - 1 /\ keystream[s[i]] >= difficulty
      BY <2>3, <3>1 DEF Accepted, Parses, VerifyProofOfWork
    <3>3. s[i] < Searched
      BY <2>5, <3>1
    <3>4. PICK k \in 1 .. Len(offsets) : offsets[k] = s[i]
      BY <3>2, <3>3 DEF WorkInv, Exact
    <3>5. k \in 1 .. found
      <4>1. CASE done
        <5>1. Len(offsets) = NumOffsets /\ Searched = offsets[NumOffsets] + 1
          BY <4>1 DEF WorkInv, Ended
        <5>2. s[i] # offsets[NumOffsets]
          <6>1. offsets[NumOffsets] \in Nat
            BY <2>5, <5>1
          <6>2. ~(Searched <= s[NumOffsets] + 1)
            BY <4>1
          <6> QED
            BY <3>1, <5>1, <6>1, <6>2
        <5>3. k # NumOffsets
          BY <3>4, <5>2
        <5> QED
          BY <4>1, <5>1, <5>3
      <4>2. CASE ~done
        BY <4>2
      <4> QED
        BY <4>1, <4>2
    <3> QED
      BY <3>4, <3>5
  <2> DEFINE f == [i \in 1 .. NumOffsets |-> CHOOSE k \in 1 .. found : offsets[k] = s[i]]
  <2>8. f \in [1 .. NumOffsets -> 1 .. found] /\ \A i \in 1 .. NumOffsets : offsets[f[i]] = s[i]
    BY <2>7
  <2>9. /\ IsFiniteSet(1 .. NumOffsets) /\ IsFiniteSet(1 .. found)
        /\ Cardinality(1 .. found) < Cardinality(1 .. NumOffsets)
    <3> HIDE DEF found
    <3> USE <2>6
    <3>0. NumOffsets \in Nat /\ NumOffsets > 0
      OBVIOUS
    <3>1. Cardinality(1 .. found) = IF 1 > found THEN 0 ELSE found - 1 + 1
      BY FS_Interval
    <3>2. Cardinality(1 .. NumOffsets) = IF 1 > NumOffsets THEN 0 ELSE NumOffsets - 1 + 1
      BY <3>0, FS_Interval
    <3>3. IsFiniteSet(1 .. found) /\ IsFiniteSet(1 .. NumOffsets)
      BY <3>0, FS_Interval
    <3> QED
      BY <3>0, <3>1, <3>2, <3>3
  <2>10. \E i, j \in 1 .. NumOffsets : i # j /\ f[i] = f[j]
    <3> DEFINE D == 1 .. NumOffsets
               E == 1 .. found
    <3> HIDE DEF f, found
    <3>1. IsFiniteSet(D) /\ IsFiniteSet(E) /\ Cardinality(E) < Cardinality(D) /\ f \in [D -> E]
      BY <2>8, <2>9
    <3> HIDE DEF D, E
    <3>2. \E i, j \in D : i # j /\ f[i] = f[j]
      BY <3>1, FS_PigeonHole
    <3> QED
      BY <3>2 DEF D
  <2>11. PICK i, j \in 1 .. NumOffsets : i # j /\ s[i] = s[j]
    <3> HIDE DEF f, found
    <3> QED
      BY <2>8, <2>10
  <2> QED
    BY <2>3, <2>4, <2>11
<1> QED
  BY <1>1, SearchIsExact, PTL
=============================================================================
