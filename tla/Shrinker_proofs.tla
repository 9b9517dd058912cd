--------------------------- MODULE Shrinker_proofs ---------------------------
(* Theorems about Ddmin and Shrinker, for recordings of any length and       *)
(* messages of any shape, and whatever the bug needs of them.                *)
EXTENDS Shrinker, Wire_proofs

-----------------------------------------------------------------------------
(* Chunks and cuts *)

\* A chunk of a sequence of two messages or more is neither empty nor all of it.
LEMMA ChunkBounds ==
  ASSUME NEW a \in Nat, a >= 2, NEW g \in Nat, g >= 2
  PROVE  DivCeil(a, g) \in 1..(a - 1)
<1> DEFINE c == (a + g - 1) \div g
           r == (a + g - 1) % g
<1>1. c \in Int /\ r \in Int /\ a + g - 1 = g * c + r /\ 0 <= r /\ r < g
  OBVIOUS
<1> HIDE DEF c, r
<1>2. c >= 1
  <2>1. g * c >= a
    BY <1>1
  <2>2. c <= 0 => g * c <= 0
    BY <1>1
  <2> QED BY <1>1, <2>1, <2>2
<1>3. c <= a - 1
  <2>1. c >= a => g * c >= g * a
    BY <1>1
  <2>2. g * a >= a + g
    <3>1. (g - 1) * (a - 1) >= 1
      BY Z3
    <3>2. (g - 1) * (a - 1) = g * a - g - a + 1
      BY Z3
    <3> QED BY <3>1, <3>2
  <2>3. g * c <= a + g - 1
    BY <1>1
  <2>4. g * c \in Int /\ g * a \in Int
    BY <1>1
  <2> QED BY <1>1, <2>1, <2>2, <2>3, <2>4
<1> QED BY <1>1, <1>2, <1>3 DEF DivCeil, c

\* What is left of a sequence when c elements after the first a are cut out.
LEMMA CutProperties ==
  ASSUME NEW S, NEW seq \in Seq(S), NEW a \in 0..Len(seq), NEW c \in Nat \ {0}
  PROVE  /\ Cut(seq, a, c) \in Seq(S)
         /\ Len(Cut(seq, a, c)) = IF a + c <= Len(seq) THEN Len(seq) - c ELSE a
         /\ \A k \in 1..Len(Cut(seq, a, c)) :
              /\ k <= a => Cut(seq, a, c)[k] = seq[k]
              /\ k > a => k + c <= Len(seq) /\ Cut(seq, a, c)[k] = seq[k + c]
<1> DEFINE cut == Cut(seq, a, c)
           left == SubSeq(seq, 1, a)
           right == SubSeq(seq, a + c + 1, Len(seq))
<1>1. left \in Seq(S) /\ Len(left) = a /\ \A k \in 1..a : left[k] = seq[k]
  OBVIOUS
<1> DEFINE m == a + c + 1
           n == Len(seq)
<1>2. m \in Int /\ n \in Int /\ \A k \in m..n : seq[k] \in S
  OBVIOUS
<1> HIDE DEF m, n
<1>3. /\ SubSeq(seq, m, n) \in Seq(S)
      /\ Len(SubSeq(seq, m, n)) = IF m <= n THEN n - m + 1 ELSE 0
      /\ \A k \in 1..(n - m + 1) : SubSeq(seq, m, n)[k] = seq[m + k - 1]
  BY <1>2, SubSeqProperties
<1>4. right = SubSeq(seq, m, n)
  BY DEF m, n
<1>5. right \in Seq(S) /\ Len(right) = IF a + c + 1 <= Len(seq) THEN Len(seq) - c - a ELSE 0
  BY <1>3, <1>4 DEF m, n
<1>6. \A k \in 1..Len(right) : right[k] = seq[k + a + c]
  <2> SUFFICES ASSUME NEW k \in 1..Len(right) PROVE right[k] = seq[k + a + c]
    OBVIOUS
  <2>1. k \in 1..(n - m + 1)
    BY <1>5 DEF m, n
  <2>2. m + k - 1 = k + a + c
    BY DEF m
  <2> QED BY <1>3, <1>4, <2>1, <2>2
<1> HIDE DEF left, right, cut
<1>7. cut = left \o right
  BY DEF left, right, cut, Cut
<1>8. a \in Nat /\ Len(right) \in Nat /\ Len(seq) \in Nat
  BY <1>5
<1>9. /\ left \o right \in Seq(S)
      /\ Len(left \o right) = Len(left) + Len(right)
      /\ \A k \in 1..(Len(left) + Len(right)) :
           (left \o right)[k] = IF k <= Len(left) THEN left[k] ELSE right[k - Len(left)]
  BY <1>1, <1>5, ConcatProperties, Zenon
<1>10. /\ cut \in Seq(S)
       /\ Len(cut) = a + Len(right)
       /\ \A k \in 1..(a + Len(right)) :
            cut[k] = IF k <= a THEN left[k] ELSE right[k - a]
  BY <1>1, <1>7, <1>9, Zenon
<1>11. Len(cut) = IF a + c <= Len(seq) THEN Len(seq) - c ELSE a
  BY <1>5, <1>8, <1>10
<1>12. ASSUME NEW k \in 1..Len(cut), k > a
       PROVE  k + c <= Len(seq) /\ cut[k] = seq[k + c]
  <2>1. k - a \in 1..Len(right)
    BY <1>12, <1>8, <1>10
  <2>2. cut[k] = right[k - a]
    BY <1>8, <1>10, <1>12
  <2>3. right[k - a] = seq[(k - a) + a + c]
    BY <2>1, <1>6
  <2>4. (k - a) + a + c = k + c
    BY <1>8
  <2>5. k + c <= Len(seq)
    BY <2>1, <1>5, <1>8
  <2> QED BY <2>2, <2>3, <2>4, <2>5
<1>13. ASSUME NEW k \in 1..Len(cut), k <= a PROVE cut[k] = seq[k]
  BY <1>1, <1>8, <1>10, <1>13
<1> QED BY <1>10, <1>11, <1>12, <1>13 DEF cut

-----------------------------------------------------------------------------
(* The inductive invariant: the for loop is only entered with two messages *)
(* or more, so that a chunk is never everything there is.                  *)

IInv ==
  /\ TypeOK
  /\ BestIsASubsequence
  /\ NeverEmptied
  /\ pc = "for" => Len(best) >= 2

\* What a round of the for loop verifies is a nonempty subsequence of best.
LEMMA CandidateProperties ==
  ASSUME IInv, pc = "for", Start <= Len(best)
  PROVE  /\ Candidate \in Seq(original)
         /\ Len(Candidate) \in 1..Len(best)
         /\ \A l, k \in DOMAIN Candidate : l < k => Candidate[l] < Candidate[k]
         /\ Positions(Candidate) \subseteq Positions(best)
<1> DEFINE c == ChunkSize
           a == Start
           L == Len(best)
           cand == Candidate
<1>1. best \in Seq(original) /\ L \in Nat /\ L >= 2
  BY DEF IInv, TypeOK
<1>2. c \in 1..(L - 1)
  <2>1. granularity \in Nat /\ granularity >= 2
    BY DEF IInv, TypeOK
  <2> HIDE DEF L
  <2>2. DivCeil(L, granularity) \in 1..(L - 1)
    BY <1>1, <2>1, ChunkBounds
  <2> QED BY <2>2 DEF ChunkSize, L
<1>3. a \in 0..L
  <2>1. i \in Nat /\ ChunkSize \in Nat
    BY <1>1, <1>2 DEF IInv, TypeOK
  <2>2. i * ChunkSize \in Nat
    BY <2>1
  <2> QED BY <1>1, <2>2 DEF Start
<1>4. cand = Cut(best, a, c)
  BY DEF Candidate
<1> HIDE DEF c, a, cand
<1>5. /\ cand \in Seq(original)
      /\ Len(cand) = IF a + c <= L THEN L - c ELSE a
      /\ \A k \in 1..Len(cand) : /\ k <= a => cand[k] = best[k]
                                 /\ k > a => k + c <= L /\ cand[k] = best[k + c]
  BY <1>1, <1>2, <1>3, <1>4, CutProperties
<1>6. Len(cand) \in 1..L
  BY <1>1, <1>2, <1>3, <1>5
<1> DEFINE At(k) == IF k <= a THEN k ELSE k + c
<1>7. \A k \in 1..Len(cand) : At(k) \in 1..L /\ cand[k] = best[At(k)]
  <2> SUFFICES ASSUME NEW k \in 1..Len(cand)
               PROVE  At(k) \in 1..L /\ cand[k] = best[At(k)]
    OBVIOUS
  <2>1. CASE k <= a
    BY <1>1, <1>3, <1>5, <1>6, <2>1
  <2>2. CASE k > a
    BY <1>1, <1>2, <1>3, <1>5, <1>6, <2>2
  <2> QED BY <1>3, <1>6, <2>1, <2>2
<1>8. DOMAIN cand = 1..Len(cand) /\ DOMAIN best = 1..L
  BY <1>1, <1>5
<1>9. ASSUME NEW l \in 1..Len(cand), NEW k \in 1..Len(cand), l < k
      PROVE  cand[l] < cand[k]
  <2>1. At(l) < At(k)
    BY <1>2, <1>3, <1>6, <1>9
  <2>2. best[At(l)] < best[At(k)]
    BY <1>7, <1>8, <2>1 DEF IInv, BestIsASubsequence
  <2> QED BY <1>7, <2>2
<1>10. Positions(cand) \subseteq Positions(best)
  BY <1>7, <1>8 DEF Positions
<1> QED BY <1>5, <1>6, <1>8, <1>9, <1>10 DEF cand

LEMMA InitIInv == Init => IInv
<1> SUFFICES ASSUME Init PROVE IInv
  OBVIOUS
<1>1. PICK n \in 0..MaxMessages :
        /\ best = [k \in 1..n |-> k]
        /\ original = 1..n
        /\ core \in SUBSET (1..n)
        /\ pc = IF n < 2 THEN "done" ELSE "while"
  BY DEF Init
<1>2. n \in Nat /\ MaxMessages \in Nat
  BY DdminAssumption
<1>3. best \in Seq(1..n) /\ Len(best) = n /\ DOMAIN best = 1..n
  BY <1>1, <1>2
<1>4. TypeOK
  <2>1. best \in Seq(original) /\ Len(best) <= MaxMessages
    BY <1>1, <1>2, <1>3
  <2>2. original \subseteq 1..MaxMessages /\ core \subseteq original
    BY <1>1, <1>2
  <2>3. pc \in {"while", "for", "done", "panicked"}
    BY <1>1
  <2>4. flaky \in BOOLEAN /\ granularity = 2 /\ i = 0 /\ timed_out = FALSE
    BY Zenon DEF Init
  <2>5. granularity \in Nat /\ granularity >= 2 /\ i \in 0..granularity
    BY <2>4
  <2> QED BY <2>1, <2>2, <2>3, <2>4, <2>5, Zenon DEF TypeOK
<1>5. BestIsASubsequence
  BY <1>1, <1>3 DEF BestIsASubsequence
<1>6. NeverEmptied
  <2>1. original # {} => n >= 1
    BY <1>1, <1>2
  <2>2. best = <<>> => n = 0
    BY <1>3
  <2> QED BY <2>1, <2>2 DEF NeverEmptied
<1> QED BY <1>1, <1>4, <1>5, <1>6 DEF IInv

LEMMA TryIInv == ASSUME IInv, Try PROVE IInv'
<1>1. PICK verdict \in Verdicts(Candidate) :
        IF Accept(verdict)
        THEN best' = Candidate /\ granularity' = Coarser(granularity)
               /\ pc' = "while" /\ UNCHANGED i
        ELSE i' = i + 1 /\ UNCHANGED <<best, granularity, pc>>
  BY DEF Try
<1>2. pc = "for" /\ i < granularity /\ Start <= Len(best)
      /\ UNCHANGED <<original, core, flaky, timed_out>>
  BY DEF Try
<1>3. CASE Accept(verdict)
  <2>1. best' = Candidate /\ granularity' = Coarser(granularity)
          /\ pc' = "while" /\ i' = i
    BY <1>1, <1>3
  <2>2. best' \in Seq(original') /\ Len(best') \in 1..Len(best)
    BY <1>2, <2>1, CandidateProperties
  <2>3. BestIsASubsequence'
    BY <1>2, <2>1, CandidateProperties DEF BestIsASubsequence
  <2>4. NeverEmptied'
    BY <2>2 DEF NeverEmptied
  <2>5. granularity' \in Nat /\ granularity' >= 2 /\ i' \in 0..granularity'
    BY <1>2, <2>1 DEF IInv, TypeOK, Coarser
  <2>6. Len(best') <= MaxMessages
    BY <2>2, DdminAssumption DEF IInv, TypeOK
  <2>7. TypeOK'
    BY <1>2, <2>1, <2>2, <2>5, <2>6 DEF IInv, TypeOK
  <2> QED BY <2>1, <2>3, <2>4, <2>7 DEF IInv
<1>4. CASE ~ Accept(verdict)
  <2>1. i' = i + 1 /\ UNCHANGED <<best, granularity, pc>>
    BY <1>1, <1>4
  <2>2. i' \in 0..granularity'
    BY <1>2, <2>1 DEF IInv, TypeOK
  <2> QED BY <1>2, <2>1, <2>2 DEF IInv, TypeOK, BestIsASubsequence, NeverEmptied
<1> QED BY <1>3, <1>4

LEMMA NextIInv == IInv /\ [Next]_vars => IInv'
<1> SUFFICES ASSUME IInv, [Next]_vars PROVE IInv'
  OBVIOUS
<1> USE DEF IInv, TypeOK, BestIsASubsequence, NeverEmptied
<1>1. CASE Begin
  BY <1>1 DEF Begin
<1>2. CASE Try
  BY <1>2, TryIInv
<1>3. CASE Panic
  BY <1>3 DEF Panic
<1>4. CASE Exhausted
  BY <1>4 DEF Exhausted
<1>5. CASE TimeOut
  BY <1>5 DEF TimeOut
<1>6. CASE Stopped \/ UNCHANGED vars
  BY <1>6 DEF Stopped, vars
<1> QED BY <1>1, <1>2, <1>3, <1>4, <1>5, <1>6 DEF Next, Loop

LEMMA SpecIInv == Spec => []IInv
BY InitIInv, NextIInv, PTL DEF Spec

\* The counters of the loop stay in range and what is kept comes from the
\* recording, for recordings of any length.
THEOREM TypeCorrect == Spec => []TypeOK
BY SpecIInv, PTL DEF IInv

\* The reproducer is a subsequence of the recording, whatever the target says.
THEOREM AlwaysASubsequence == Spec => []BestIsASubsequence
BY SpecIInv, PTL DEF IInv

\* Delta debugging never empties the sequence, whatever the target says.
THEOREM NeverEmptiedAlways == Spec => []NeverEmptied
BY SpecIInv, PTL DEF IInv

-----------------------------------------------------------------------------
(* Refinement *)

\* A step of the loop is a step of Reducer or leaves its variables alone.
LEMMA StepReduces == IInv /\ [Next]_vars => [Shrinking!GiveUp]_(Shrinking!vars)
<1> SUFFICES ASSUME IInv, [Next]_vars
             PROVE  Shrinking!GiveUp \/ UNCHANGED Shrinking!vars
  OBVIOUS
<1>1. CASE Try
  <2>1. PICK verdict \in Verdicts(Candidate) :
          IF Accept(verdict) THEN best' = Candidate ELSE best' = best
    BY <1>1 DEF Try
  <2>2. UNCHANGED <<original, core, flaky>>
    BY <1>1 DEF Try
  <2>3. CASE Accept(verdict)
    <3>1. Shrinking!Reproduces(Positions(Candidate))
      BY <2>3 DEF Verdicts, Accept, Shrinking!Reproduces
    <3>2. Positions(Candidate) # {} /\ Positions(Candidate) \subseteq Positions(best)
      <4>1. pc = "for" /\ Start <= Len(best)
        BY <1>1 DEF Try
      <4>2. /\ Candidate \in Seq(original) /\ Len(Candidate) \in 1..Len(best)
            /\ Positions(Candidate) \subseteq Positions(best)
        BY <4>1, CandidateProperties
      <4>3. 1 \in DOMAIN Candidate
        BY <4>2
      <4> QED BY <4>2, <4>3 DEF Positions
    <3>3. Positions(best)' = Positions(Candidate)
      BY <2>1, <2>3 DEF Positions
    <3> QED BY <2>2, <3>1, <3>2, <3>3 DEF Shrinking!GiveUp
  <2>4. CASE ~ Accept(verdict)
    BY <2>1, <2>2, <2>4 DEF Shrinking!vars, Positions
  <2> QED BY <2>3, <2>4
<1>2. CASE UNCHANGED <<original, core, flaky, best>>
  BY <1>2 DEF Shrinking!vars, Positions
<1>3. Try \/ UNCHANGED <<original, core, flaky, best>>
  BY DEF Next, Loop, Begin, Panic, Exhausted, TimeOut, Stopped, vars
<1> QED BY <1>1, <1>2, <1>3

\* The loop implements Reducer: for recordings of any length it only ever moves
\* to a nonempty smaller set of messages that was seen to trigger the bug.
THEOREM DdminReduces == Spec => ImplementsReducer
<1>1. Init => Shrinking!Init
  BY DEF Init, Shrinking!Init, Positions
<1> QED BY SpecIInv, <1>1, StepReduces, PTL DEF Spec, ImplementsReducer, Shrinking!Spec

-----------------------------------------------------------------------------
(* Why delta debugging ends, although it may keep a candidate that is best *)
(* itself: the last chunks can be empty                                    *)

\* What is left of one round of the while loop.
RoundLeft ==
  CASE pc = "while" -> granularity + 2
    [] pc = "for" -> granularity + 1 - i
    [] OTHER -> 0

\* Delta debugging keeps fewer messages, or tries smaller chunks, or fewer of them, or
\* goes on in the same round.
DdminNearer ==
  \/ Len(best') < Len(best)
  \/ /\ Len(best') = Len(best)
     /\ \/ ChunkSize' < ChunkSize
        \/ /\ ChunkSize' = ChunkSize
           /\ \/ granularity' < granularity
              \/ granularity' = granularity /\ RoundLeft' < RoundLeft

\* The chunk is the least that covers a sequence of length a with g chunks.
LEMMA ChunkCovers ==
  ASSUME NEW a \in Nat, NEW g \in Nat, g >= 1
  PROVE  /\ DivCeil(a, g) \in Nat
         /\ a <= g * DivCeil(a, g)
         /\ g * DivCeil(a, g) < a + g
<1> DEFINE c == (a + g - 1) \div g
           r == (a + g - 1) % g
<1>1. c \in Int /\ r \in Int /\ a + g - 1 = g * c + r /\ 0 <= r /\ r < g
  OBVIOUS
<1>2. DivCeil(a, g) = c
  BY DEF DivCeil
<1> HIDE DEF c, r
<1>3. g * c \in Int /\ a <= g * c /\ g * c < a + g
  <2> DEFINE p == g * c
  <2>1. p \in Int /\ a + g - 1 = p + r
    BY <1>1
  <2> HIDE DEF p
  <2>2. a <= p /\ p < a + g
    BY <1>1, <2>1
  <2> QED BY <2>1, <2>2 DEF p
<1>4. c >= 0
  <2>1. c <= -1 => g * c <= -g
    BY <1>1
  <2>2. g * c > -g
    BY <1>1, <1>3
  <2>3. g * c \in Int /\ -g \in Int
    BY <1>1
  <2> QED BY <1>1, <2>1, <2>2, <2>3
<1> QED BY <1>1, <1>2, <1>3, <1>4

\* Twice as many chunks are smaller ones, while they are no more than the messages.
LEMMA FinerChunks ==
  ASSUME NEW a \in Nat, NEW g \in Nat, g >= 2, g * 2 <= a
  PROVE  DivCeil(a, g * 2) < DivCeil(a, g)
<1> DEFINE c == DivCeil(a, g)
           d == DivCeil(a, g * 2)
           gc == g * c
           gd == g * d
<1>1. c \in Nat /\ a <= gc
  BY ChunkCovers
<1>2. d \in Nat /\ (g * 2) * d < a + g * 2
  BY ChunkCovers
<1> HIDE DEF c, d
<1>3. gc \in Nat /\ gd \in Nat /\ (g * 2) * d = gd + gd
  BY <1>1, <1>2
<1> SUFFICES ASSUME ~(d < c) PROVE FALSE
  BY DEF c, d
<1>4. gc <= gd
  BY <1>1, <1>2
<1>5. d <= 1 => gd <= g
  BY <1>2
<1>6. d >= 2 => gd >= g + g
  BY <1>2
<1> HIDE DEF gc, gd
<1>7. gd + gd < a + g + g /\ a <= gd
  BY <1>1, <1>2, <1>3, <1>4
<1>8. gd < g + g /\ gd >= g + g
  BY <1>3, <1>7
<1> QED BY <1>3, <1>8

\* If the chunks before the last ones cover everything, one chunk less does it, too.
LEMMA FewerChunks ==
  ASSUME NEW a \in Nat, NEW g \in Nat, g >= 3, NEW k \in 0..(g - 1),
         k * DivCeil(a, g) = a
  PROVE  DivCeil(a, g - 1) <= DivCeil(a, g)
<1> DEFINE c == DivCeil(a, g)
           h == g - 1
           d == DivCeil(a, h)
           hc == h * c
           hd == h * d
<1>1. c \in Nat
  BY ChunkCovers
<1>2. h \in Nat /\ h >= 2 /\ k \in 0..h
  OBVIOUS
<1>3. d \in Nat /\ hd < a + h
  <2>1. h \in Nat /\ h >= 1
    BY <1>2
  <2> HIDE DEF h
  <2> QED BY <2>1, ChunkCovers
<1> HIDE DEF h
<1>4. k * c = a
  OBVIOUS
<1> HIDE DEF c, d
<1>5. hc \in Nat /\ hd \in Nat /\ a <= hc
  BY <1>1, <1>2, <1>3, <1>4
<1>6. d >= c + 1 => hd >= hc + h
  BY <1>1, <1>2, <1>3
<1> HIDE DEF hc, hd
<1>7. ~(d >= c + 1)
  BY <1>2, <1>3, <1>5, <1>6
<1>8. d <= c
  BY <1>1, <1>3, <1>7
<1> QED BY <1>8 DEF c, d, h

LEMMA RoundLeftNat == IInv => RoundLeft \in Nat
<1> SUFFICES ASSUME IInv PROVE RoundLeft \in Nat
  OBVIOUS
<1>1. granularity \in Nat /\ i \in 0..granularity
  BY DEF IInv, TypeOK
<1> QED BY <1>1 DEF RoundLeft

\* The candidate is kept: it is shorter, or the chunk was empty and there are fewer.
LEMMA AcceptNearer ==
  ASSUME IInv, Try, best' = Candidate, granularity' = Coarser(granularity)
  PROVE  DdminNearer
<1> DEFINE n == Len(best)
           g == granularity
           c == ChunkSize
<1>1. n \in Nat /\ n >= 2 /\ g \in Nat /\ g >= 2 /\ i \in 0..(g - 1) /\ Start <= n
      /\ best \in Seq(original)
  BY DEF IInv, TypeOK, Try
<1>2. c \in 1..(n - 1)
  BY <1>1, ChunkBounds DEF ChunkSize
<1>3. Start = i * c /\ Start \in 0..n
  <2>1. Start = i * c
    BY DEF Start
  <2> HIDE DEF c
  <2>2. i * c \in Nat
    BY <1>1, <1>2
  <2> QED BY <1>1, <2>1, <2>2
<1>4. Len(best') = IF Start + c <= n THEN n - c ELSE Start
  BY <1>1, <1>2, <1>3, CutProperties DEF Candidate
<1>5. CASE Start # n
  <2>1. Len(best') < n
    <3> HIDE DEF c, n
    <3> QED BY <1>1, <1>2, <1>3, <1>4, <1>5
  <2> QED BY <2>1 DEF DdminNearer
<1>6. CASE Start = n
  <2>1. Len(best') = n
    <3> HIDE DEF c, n
    <3> QED BY <1>1, <1>2, <1>4, <1>6
  <2>2. g >= 3
    <3> SUFFICES ASSUME g = 2 PROVE FALSE
      BY <1>1
    <3>1. i = 0 \/ i = 1
      BY <1>1
    <3>2. i * c = 0 \/ i * c = c
      <4> HIDE DEF c
      <4> QED BY <1>2, <3>1
    <3> HIDE DEF c, n
    <3> QED BY <1>1, <1>2, <1>3, <1>6, <3>2
  <2>3. granularity' = g - 1
    BY <1>1, <2>2 DEF Coarser
  <2>4. ChunkSize' = DivCeil(n, g - 1) /\ c = DivCeil(n, g)
    BY <2>1, <2>3 DEF ChunkSize
  <2>5. DivCeil(n, g - 1) <= DivCeil(n, g)
    <3>1. i * DivCeil(n, g) = n
      BY <1>3, <1>6, <2>4
    <3> HIDE DEF n, g, c
    <3> QED BY <1>1, <2>2, <3>1, FewerChunks
  <2>6. DivCeil(n, g - 1) \in Nat
    <3>1. g - 1 \in Nat /\ g - 1 >= 1
      BY <1>1, <2>2
    <3> HIDE DEF n, g, c
    <3> QED BY <1>1, <3>1, ChunkCovers
  <2>7. ChunkSize' < ChunkSize \/ (ChunkSize' = ChunkSize /\ granularity' < granularity)
    <3>1. g - 1 < g
      BY <1>1
    <3>2. ChunkSize' \in Nat /\ ChunkSize \in Nat /\ ChunkSize' <= ChunkSize
      BY <1>2, <2>4, <2>5, <2>6
    <3> QED BY <2>3, <3>1, <3>2
  <2> QED BY <2>1, <2>7 DEF DdminNearer
<1> QED BY <1>5, <1>6

LEMMA DdminStepNearer == ASSUME IInv, Loop PROVE DdminNearer
<1>1. Len(best) \in Nat /\ granularity \in Nat /\ granularity >= 2 /\ i \in 0..granularity
  BY DEF IInv, TypeOK
<1>2. ASSUME best' = best, granularity' = granularity, RoundLeft' < RoundLeft
      PROVE  DdminNearer
  <2>1. ChunkSize' = ChunkSize
    BY <1>2 DEF ChunkSize
  <2> QED BY <1>2, <2>1 DEF DdminNearer
<1>3. CASE Begin
  <2>1. RoundLeft' < RoundLeft
    BY <1>1, <1>3 DEF Begin, RoundLeft
  <2> QED BY <1>2, <1>3, <2>1 DEF Begin
<1>4. CASE Panic
  <2>1. RoundLeft' < RoundLeft
    BY <1>1, <1>4 DEF Panic, RoundLeft
  <2> QED BY <1>2, <1>4, <2>1 DEF Panic
<1>5. CASE Exhausted
  <2>1. CASE pc' = "done" /\ UNCHANGED granularity
    <3>1. RoundLeft' < RoundLeft
      BY <1>1, <1>5, <2>1 DEF Exhausted, RoundLeft
    <3> QED BY <1>2, <1>5, <2>1, <3>1 DEF Exhausted
  <2>2. CASE ~(granularity * 2 > Len(best)) /\ granularity' = granularity * 2
    <3>1. granularity * 2 <= Len(best)
      BY <1>1, <2>2
    <3>2. DivCeil(Len(best), granularity * 2) < DivCeil(Len(best), granularity)
      BY <1>1, <3>1, FinerChunks
    <3>3. best' = best
      BY <1>5 DEF Exhausted
    <3> QED BY <2>2, <3>2, <3>3 DEF DdminNearer, ChunkSize
  <2> QED BY <1>5, <2>1, <2>2 DEF Exhausted
<1>6. CASE Try
  <2>1. CASE best' = Candidate /\ granularity' = Coarser(granularity)
    BY <1>6, <2>1, AcceptNearer
  <2>2. CASE i' = i + 1 /\ UNCHANGED <<best, granularity, pc>>
    <3>1. RoundLeft' < RoundLeft
      BY <1>1, <1>6, <2>2 DEF Try, RoundLeft
    <3> QED BY <1>2, <2>2, <3>1
  <2> QED BY <1>6, <2>1, <2>2 DEF Try
<1> QED BY <1>3, <1>4, <1>5, <1>6 DEF Loop

\* Numbers that the code never asks about: whether they can fall for ever.
LEMMA DdminNat == IInv => Len(best) \in Nat /\ ChunkSize \in Nat /\ granularity \in Nat
                          /\ RoundLeft \in Nat
<1> SUFFICES ASSUME IInv
             PROVE  Len(best) \in Nat /\ ChunkSize \in Nat /\ granularity \in Nat
                    /\ RoundLeft \in Nat
  OBVIOUS
<1>1. Len(best) \in Nat /\ granularity \in Nat /\ granularity >= 2
  BY DEF IInv, TypeOK
<1> QED BY <1>1, ChunkCovers, RoundLeftNat DEF ChunkSize

\* For recordings of any length, and whatever the target answers: each step of delta
\* debugging lowers the messages left, or else the size of a chunk, or else the number
\* of chunks, or else what is left of the round.  All four are naturals, so the loop ends;
\* the clock changes none of them.
THEOREM DdminNearsItsEnd ==
  Spec => /\ [](Len(best) \in Nat /\ ChunkSize \in Nat /\ granularity \in Nat
                /\ RoundLeft \in Nat)
          /\ [][Loop => DdminNearer]_vars
          /\ [][TimeOut => UNCHANGED <<Len(best), ChunkSize, granularity, RoundLeft>>]_vars
<1>1. IInv /\ [Next]_vars => [Loop => DdminNearer]_vars
  BY DdminStepNearer
<1>2. [TimeOut => UNCHANGED <<Len(best), ChunkSize, granularity, RoundLeft>>]_vars
  BY DEF TimeOut, ChunkSize, RoundLeft
<1> QED BY <1>1, <1>2, SpecIInv, DdminNat, PTL DEF Spec

-----------------------------------------------------------------------------
(* The part that is delta debugging                                        *)

LEMMA ShrinkStepsDdmin == [ShrinkNext]_svars => [Next]_vars
<1> SUFFICES ASSUME [ShrinkNext]_svars PROVE Next \/ UNCHANGED vars
  OBVIOUS
<1>1. CASE DdminStep
  BY <1>1 DEF DdminStep, Next
<1>2. CASE DdminTimeOut
  BY <1>2 DEF DdminTimeOut, Next
<1>3. CASE DdminReturns \/ KeepTheRest \/ BeginMessage \/ Return \/ Overtime
  BY <1>3 DEF DdminReturns, KeepTheRest, BeginMessage, Return, Overtime
<1>4. CASE TryAttribute \/ AttributesDone \/ PopLast \/ TryMinimal
  BY <1>4 DEF TryAttribute, AttributesDone, PopLast, TryMinimal
<1>5. CASE TryFinal \/ TryTail \/ TailDone
  BY <1>5 DEF TryFinal, TryTail, TailDone
<1>6. CASE UNCHANGED svars
  BY <1>6 DEF svars
<1> QED BY <1>1, <1>2, <1>3, <1>4, <1>5, <1>6 DEF ShrinkNext, Shrink

LEMMA ShrinkIInv == ShrinkSpec => []IInv
<1>1. ShrinkInit => IInv
  BY InitIInv DEF ShrinkInit
<1> QED BY <1>1, ShrinkStepsDdmin, NextIInv, PTL DEF ShrinkSpec

\* The whole of shrink, and not only its first loop, works on a subsequence of
\* the recording, and on a nonempty one.
THEOREM ShrinksASubsequence == ShrinkSpec => [](BestIsASubsequence /\ NeverEmptied)
BY ShrinkIInv, PTL DEF IInv

\* The message set of shrink moves as Reducer allows: the passes over the single
\* messages never drop one.
THEOREM ShrinkerReduces == ShrinkSpec => ImplementsReducer
<1>1. ShrinkInit => Shrinking!Init
  BY DEF ShrinkInit, Init, Shrinking!Init, Positions
<1> QED BY ShrinkIInv, <1>1, ShrinkStepsDdmin, StepReduces, PTL
        DEF ShrinkSpec, ImplementsReducer, Shrinking!Spec

-----------------------------------------------------------------------------
(* Sequences of messages that the types say nothing of                     *)

IsSequence(s) == s \in Seq({s[k] : k \in DOMAIN s})

LEMMA AppendedSequence ==
  ASSUME NEW s, IsSequence(s), NEW e
  PROVE  /\ IsSequence(Append(s, e))
         /\ Len(Append(s, e)) = Len(s) + 1
         /\ Append(s, e)[Len(s) + 1] = e
         /\ \A k \in 1..Len(s) : Append(s, e)[k] = s[k]
<1> DEFINE S == {s[k] : k \in DOMAIN s} \cup {e}
           t == Append(s, e)
<1>1. s \in Seq(S)
  <2>1. s \in Seq({s[k] : k \in DOMAIN s})
    BY DEF IsSequence
  <2> QED BY <2>1
<1>2. e \in S
  OBVIOUS
<1> HIDE DEF S
<1>3. /\ t \in Seq(S) /\ Len(t) = Len(s) + 1
      /\ t[Len(s) + 1] = e /\ \A k \in 1..Len(s) : t[k] = s[k]
  BY <1>1, <1>2
<1> HIDE DEF t
<1>4. t \in Seq({t[k] : k \in DOMAIN t})
  BY <1>3
<1> QED BY <1>3, <1>4 DEF IsSequence, t

\* What is done, then what was recorded.
Joined == [k \in DOMAIN best |-> IF k <= Len(shrunk) THEN shrunk[k] ELSE recorded[best[k]]]

\* A candidate's sequence has the messages done, the candidate, the recorded rest.
LEMMA SequenceAt ==
  ASSUME IInv, IsSequence(shrunk), Place <= Len(best), NEW b, NEW k \in DOMAIN best
  PROVE  Sequence(b)[k] = IF k < Place THEN shrunk[k]
                          ELSE IF k = Place THEN b ELSE recorded[best[k]]
<1> DEFINE S == {shrunk[n] : n \in DOMAIN shrunk} \cup {b}
                  \cup {recorded[best[n]] : n \in DOMAIN best}
           n1 == Len(shrunk)
           L == Len(best)
<1>1. L \in Nat /\ n1 \in Nat /\ n1 + 1 <= L /\ DOMAIN best = 1..L
  BY DEF IInv, TypeOK, IsSequence, Place
<1>2. shrunk \in Seq(S) /\ Len(shrunk) = n1
  <2>1. shrunk \in Seq({shrunk[n] : n \in DOMAIN shrunk})
    BY DEF IsSequence
  <2> QED BY <2>1
<1>3. <<b>> \in Seq(S) /\ Len(<<b>>) = 1 /\ <<b>>[1] = b
  OBVIOUS
<1>4. /\ Suffix \in Seq(S) /\ Len(Suffix) = L - n1 - 1
      /\ \A m \in 1..(L - n1 - 1) : Suffix[m] = recorded[best[n1 + 1 + m]]
  <2>1. Suffix = [m \in 1..(L - n1 - 1) |-> recorded[best[n1 + 1 + m]]]
    BY <1>1 DEF Suffix, Place
  <2>2. \A m \in 1..(L - n1 - 1) : n1 + 1 + m \in DOMAIN best
    BY <1>1
  <2>3. L - n1 - 1 \in Nat
    BY <1>1
  <2>4. \A m \in 1..(L - n1 - 1) : recorded[best[n1 + 1 + m]] \in S
    BY <2>2
  <2> HIDE DEF S, L, n1
  <2> QED BY <2>1, <2>3, <2>4
<1> HIDE DEF S, L, n1
<1> DEFINE front == shrunk \o <<b>>
<1>5. /\ front \in Seq(S) /\ Len(front) = n1 + 1
      /\ \A m \in 1..(n1 + 1) : front[m] = IF m <= n1 THEN shrunk[m] ELSE b
  BY <1>1, <1>2, <1>3
<1>6. Sequence(b) = front \o Suffix
  BY DEF Sequence
<1> HIDE DEF front
<1>7. /\ \A m \in 1..(n1 + 1) : Sequence(b)[m] = front[m]
      /\ \A m \in 1..(L - n1 - 1) : Sequence(b)[n1 + 1 + m] = Suffix[m]
  BY <1>1, <1>4, <1>5, <1>6
<1>8. k \in 1..L
  BY <1>1
<1>9. CASE k <= n1
  BY <1>1, <1>5, <1>7, <1>8, <1>9 DEF Place, n1
<1>10. CASE k = n1 + 1
  BY <1>1, <1>5, <1>7, <1>8, <1>10 DEF Place, n1
<1>11. CASE k > n1 + 1
  <2>1. k - n1 - 1 \in 1..(L - n1 - 1) /\ n1 + 1 + (k - n1 - 1) = k
    BY <1>1, <1>8, <1>11
  <2>2. PICK m \in 1..(L - n1 - 1) : n1 + 1 + m = k
    BY <2>1
  <2>3. Sequence(b)[k] = Suffix[m] /\ Suffix[m] = recorded[best[k]]
    BY <1>4, <1>7, <2>2
  <2>4. ~(k < Place) /\ k # Place
    BY <1>1, <1>8, <1>11 DEF Place, n1
  <2> QED BY <2>3, <2>4
<1> QED BY <1>1, <1>8, <1>9, <1>10, <1>11

\* Fails looks at nothing but the messages at the places of best.
LEMMA FailsPointwise ==
  ASSUME NEW s, NEW t, \A k \in DOMAIN best : s[k] = t[k], Fails(s)
  PROVE  Fails(t)
BY DEF Fails

\* A target that always answers the same fails on what was recorded.
LEMMA RecordedFails ==
  ASSUME need \in Needs \cup {"presence"},
         \A k \in DOMAIN best : ~recorded[best[k]].minimal /\ recorded[best[k]].cut = 0
  PROVE  Fails(RecordedSequence)
<1>1. need \in {"presence", "values", "attributes", "all but one"}
  BY ShrinkerAssumption
<1>2. RecordedSequence = [k \in DOMAIN best |-> recorded[best[k]]]
  BY DEF RecordedSequence
<1>3. CASE need = "presence"
  BY <1>3 DEF Fails
<1>4. CASE need = "values"
  BY <1>2, <1>4 DEF Fails
<1>5. CASE need = "attributes"
  BY <1>5, Zenon DEF Fails
<1>6. CASE need = "all but one"
  BY <1>6 DEF Fails
<1> QED BY <1>1, <1>3, <1>4, <1>5, <1>6

-----------------------------------------------------------------------------
(* The inductive invariant: between two messages the target fails on what is *)
(* done with the recorded rest, within a message on what is done, what is    *)
(* kept of the message and the rest.                                         *)

InMessage == at \in Passes \cup {"tail"}

RecordedInv ==
  /\ original = DOMAIN recorded
  /\ \A k \in original : Recordable(recorded[k])
  /\ \A k \in original : ~recorded[k].minimal /\ recorded[k].cut = 0
  /\ need \in Needs \cup {"presence"}
  /\ ~flaky => core \subseteq Positions(best)

LoopInv ==
  /\ IsSequence(shrunk)
  /\ Len(shrunk) <= Len(best)
  /\ at \in Passes \cup {"ddmin", "next", "tail", "returned"}
  /\ at = "ddmin" => shrunk = <<>>
  /\ InMessage => Place <= Len(best) /\ kept \in accepted \cup {Current}
  /\ at = "returned" => Len(shrunk) = Len(best)

FailsInv ==
  ~flaky => /\ at \in {"next", "returned"} => Fails(Joined)
            /\ InMessage => Fails(Sequence(kept))

LEMMA RecordedStep == IInv /\ RecordedInv /\ [ShrinkNext]_svars => RecordedInv'
<1> SUFFICES ASSUME IInv, RecordedInv, [ShrinkNext]_svars PROVE RecordedInv'
  OBVIOUS
<1>1. UNCHANGED <<recorded, need>>
  BY DEF ShrinkNext, Shrink, svars, DdminStep, DdminReturns, KeepTheRest, BeginMessage,
         TryAttribute, AttributesDone, PopLast, TryMinimal, TryFinal, TryTail, TailDone,
         Return, Overtime, DdminTimeOut
<1>2. Next \/ UNCHANGED vars
  BY ShrinkStepsDdmin
<1>3. UNCHANGED <<original, core, flaky>>
  BY <1>2 DEF Next, Loop, Begin, Try, Panic, Exhausted, TimeOut, Stopped, vars
<1>4. ASSUME ~flaky PROVE core \subseteq Positions(best')
  <2>1. CASE best' = best
    BY <1>4, <2>1 DEF RecordedInv
  <2>2. CASE Try
    <3>1. PICK verdict \in Verdicts(Candidate) :
            IF Accept(verdict) THEN best' = Candidate ELSE best' = best
      BY <2>2 DEF Try
    <3>2. verdict = (core \subseteq Positions(Candidate))
      BY <1>4, <3>1 DEF Verdicts
    <3> QED BY <2>1, <3>1, <3>2 DEF Accept
  <2> QED BY <1>2, <2>1, <2>2 DEF Next, Loop, Begin, Panic, Exhausted, TimeOut, Stopped, vars
<1>5. Positions(best)' = Positions(best')
  BY DEF Positions
<1> QED BY <1>1, <1>3, <1>4, <1>5 DEF RecordedInv

\* A message is done: it joins the result, whose rest is still as recorded.
LEMMA JoinedStep ==
  ASSUME IInv, IsSequence(shrunk), Place <= Len(best), NEW b,
         shrunk' = Append(shrunk, b), UNCHANGED <<vars, recorded, need>>,
         Fails(Sequence(b))
  PROVE  Fails(Joined)'
<1>1. DOMAIN best = 1..Len(best) /\ Len(shrunk) \in Nat
  BY DEF IInv, TypeOK, IsSequence
<1>2. /\ Len(shrunk') = Len(shrunk) + 1 /\ shrunk'[Len(shrunk) + 1] = b
      /\ \A k \in 1..Len(shrunk) : shrunk'[k] = shrunk[k]
  BY AppendedSequence
<1>3. ASSUME NEW k \in DOMAIN best PROVE Sequence(b)[k] = Joined'[k]
  <2>1. Sequence(b)[k] = IF k < Place THEN shrunk[k]
                         ELSE IF k = Place THEN b ELSE recorded[best[k]]
    BY SequenceAt
  <2>2. Joined'[k] = IF k <= Len(shrunk') THEN shrunk'[k] ELSE recorded[best[k]]
    BY DEF Joined, vars
  <2> QED BY <1>1, <1>2, <2>1, <2>2 DEF Place
<1>4. Fails(Joined')
  BY <1>3, FailsPointwise
<1> QED BY <1>4 DEF Fails, RecordedSequence, vars

\* A candidate that still fails may be kept; nothing else changes on the way.
LEMMA TestedAccepted ==
  ASSUME NEW b, NEW answer \in Answers(b), answer, ~flaky
  PROVE  Fails(Sequence(b))
BY DEF Answers

LEMMA AcceptedGrows ==
  TryAttribute \/ PopLast \/ TryMinimal => accepted \subseteq accepted'
<1>1. TryAttribute => accepted \subseteq accepted'
  BY DEF TryAttribute, Test
<1>2. PopLast => accepted \subseteq accepted'
  BY DEF PopLast, Test
<1>3. TryMinimal => accepted \subseteq accepted'
  BY DEF TryMinimal, Test
<1> QED BY <1>1, <1>2, <1>3

\* While the structured passes run, what is kept is what was recorded.
LEMMA PassStep ==
  ASSUME LoopInv, FailsInv,
         TryAttribute \/ AttributesDone \/ PopLast \/ TryMinimal
  PROVE  LoopInv' /\ FailsInv'
<1>1. at \in Passes /\ at' \in Passes
  <2>1. CASE TryAttribute \/ AttributesDone \/ TryMinimal
    BY <2>1 DEF TryAttribute, AttributesDone, TryMinimal, Passes
  <2>2. CASE PopLast
    <3>1. at \in {"nlri", "withdrawn", "params", "data"} /\ (at' = at \/ at' = PassAfter(at))
      BY <2>2 DEF PopLast, Test
    <3> QED BY <3>1 DEF PassAfter, Passes
  <2> QED BY <2>1, <2>2
<1>2. UNCHANGED <<vars, recorded, need, shrunk, kept>>
  BY DEF TryAttribute, AttributesDone, PopLast, TryMinimal
<1>3. accepted \subseteq accepted'
  BY AcceptedGrows DEF AttributesDone
<1>4. /\ Place' = Place /\ Current' = Current /\ Sequence(kept)' = Sequence(kept)
      /\ Len(best)' = Len(best)
  BY <1>2 DEF Place, Current, Sequence, Suffix, vars
<1>5. LoopInv'
  <2>1. at' # "ddmin" /\ at' # "returned" /\ at' # "next"
    BY <1>1 DEF Passes
  <2> QED BY <1>1, <1>2, <1>3, <1>4, <2>1 DEF LoopInv, InMessage
<1>6. FailsInv'
  <2>1. at' # "next" /\ at' # "returned" /\ flaky' = flaky /\ InMessage
    BY <1>1, <1>2 DEF Passes, vars, InMessage
  <2>2. Fails(Sequence(kept)) => Fails(Sequence(kept))'
    BY <1>2, <1>4 DEF Fails, RecordedSequence, vars
  <2> QED BY <2>1, <2>2 DEF FailsInv
<1> QED BY <1>5, <1>6

\* The last re-encoding, like the tail, is kept only if it was seen to fail.
LEMMA FinalStep ==
  ASSUME LoopInv, FailsInv, TryFinal
  PROVE  LoopInv' /\ FailsInv'
<1>1. at = "final" /\ at' = "tail" /\ UNCHANGED <<vars, recorded, need, shrunk>>
  BY DEF TryFinal
<1>2. \/ UNCHANGED <<kept, accepted>>
      \/ \E answer \in Answers(parsed) :
           IF answer THEN kept' = parsed /\ accepted' = accepted \cup {parsed}
           ELSE UNCHANGED <<kept, accepted>>
  BY DEF TryFinal, Test
<1>3. /\ Place' = Place /\ Current' = Current /\ Len(best)' = Len(best)
      /\ \A b : Sequence(b)' = Sequence(b)
  BY <1>1 DEF Place, Current, Sequence, Suffix, vars
<1>4. InMessage
  BY <1>1 DEF InMessage, Passes
<1>5. kept' \in accepted' \cup {Current'}
  BY <1>2, <1>3, <1>4 DEF LoopInv
<1>6. LoopInv'
  BY <1>1, <1>3, <1>4, <1>5 DEF LoopInv, InMessage
<1>7. ASSUME ~flaky PROVE Fails(Sequence(kept'))
  BY <1>2, <1>4, <1>7, TestedAccepted DEF FailsInv
<1>8. Sequence(kept)' = Sequence(kept')
  BY <1>1 DEF Sequence, Suffix, Place, vars
<1>9. FailsInv'
  <2>1. Fails(Sequence(kept')) => Fails(Sequence(kept))'
    BY <1>1, <1>8 DEF Fails, RecordedSequence, vars
  <2> QED BY <1>1, <1>7, <2>1 DEF FailsInv, vars
<1> QED BY <1>6, <1>9

\* One message is done and joins the result.
LEMMA DoneStep ==
  ASSUME IInv, LoopInv, Place <= Len(best), NEW b, ~flaky => Fails(Sequence(b)),
         at' = "next", shrunk' = Append(shrunk, b), UNCHANGED <<vars, recorded, need>>
  PROVE  LoopInv' /\ FailsInv'
<1>1. IsSequence(shrunk') /\ Len(shrunk') = Len(shrunk) + 1
  BY AppendedSequence DEF LoopInv
<1>2. Len(shrunk') <= Len(best') /\ best' = best
  BY <1>1 DEF Place, vars
<1>3. LoopInv'
  BY <1>1, <1>2 DEF LoopInv, InMessage, IsSequence, Passes
<1>4. ~flaky => Fails(Joined)'
  BY JoinedStep DEF LoopInv
<1>5. FailsInv'
  BY <1>4 DEF FailsInv, InMessage, Passes, vars
<1> QED BY <1>3, <1>5

LEMMA TailStep ==
  ASSUME IInv, LoopInv, FailsInv, TryTail \/ TailDone
  PROVE  LoopInv' /\ FailsInv'
<1>1. at = "tail" /\ UNCHANGED <<vars, recorded, need>>
  BY DEF TryTail, TailDone
<1>2. InMessage /\ Place <= Len(best) /\ kept \in accepted \cup {Current}
  BY <1>1 DEF LoopInv, InMessage
<1>3. ~flaky => Fails(Sequence(kept))
  BY <1>2 DEF FailsInv
<1>4. CASE at' = "next" /\ shrunk' = Append(shrunk, kept)
  BY <1>1, <1>2, <1>3, <1>4, DoneStep
<1>5. CASE \E b : \E answer \in Answers(b) :
             answer /\ kept' = b /\ accepted' = accepted \cup {b} /\ UNCHANGED <<at, shrunk>>
  <2>1. PICK b : \E answer \in Answers(b) :
             answer /\ kept' = b /\ accepted' = accepted \cup {b} /\ UNCHANGED <<at, shrunk>>
    BY <1>5
  <2>2. ~flaky => Fails(Sequence(b))
    BY <2>1, TestedAccepted
  <2>3. Place' = Place /\ Current' = Current /\ Sequence(kept)' = Sequence(b)
        /\ Len(best)' = Len(best)
    BY <1>1, <2>1 DEF Place, Current, Sequence, Suffix, vars
  <2>4. LoopInv'
    BY <1>1, <1>2, <2>1, <2>3 DEF LoopInv, InMessage, IsSequence
  <2>5. Fails(Sequence(b)) => Fails(Sequence(kept))'
    BY <1>1, <2>3 DEF Fails, RecordedSequence, vars
  <2>6. FailsInv'
    BY <1>1, <2>1, <2>2, <2>5 DEF FailsInv, vars
  <2> QED BY <2>4, <2>6
<1>6. CASE TryTail
  <2> DEFINE shorter == [kept EXCEPT !.cut = @ + 1]
  <2>1. \E answer \in Answers(shorter) :
          IF answer
          THEN kept' = shorter /\ UNCHANGED <<at, shrunk>>
                 /\ accepted' = accepted \cup {shorter}
          ELSE at' = "next" /\ shrunk' = Append(shrunk, kept)
    BY <1>6 DEF TryTail, Test
  <2> HIDE DEF shorter
  <2> QED BY <1>4, <1>5, <2>1
<1> QED BY <1>4, <1>6 DEF TailDone

\* From delta debugging to the first message, from one to the next, to the end.
LEMMA BetweenStep ==
  ASSUME IInv, RecordedInv, LoopInv, FailsInv,
         DdminReturns \/ KeepTheRest \/ BeginMessage \/ Return
  PROVE  LoopInv' /\ FailsInv'
<1>1. UNCHANGED <<vars, recorded, need>>
  BY DEF DdminReturns, KeepTheRest, BeginMessage, Return
<1>2. Len(best) \in Nat /\ DOMAIN best = 1..Len(best) /\ Len(shrunk) \in Nat
  BY DEF IInv, TypeOK, LoopInv, IsSequence
<1>3. CASE DdminReturns
  <2>1. at = "ddmin" /\ at' = "next" /\ shrunk = <<>> /\ shrunk' = <<>>
    BY <1>3 DEF DdminReturns, LoopInv
  <2>2. LoopInv'
    BY <1>1, <1>3, <2>1 DEF LoopInv, InMessage, Passes, vars, DdminReturns
  <2>3. \A k \in DOMAIN best : best[k] \in original
    BY DEF IInv, TypeOK
  <2>4. Fails(RecordedSequence)
    BY <2>3, RecordedFails DEF RecordedInv
  <2>5. \A k \in DOMAIN best : RecordedSequence[k] = Joined[k]
    BY <1>2, <2>1 DEF RecordedSequence, Joined
  <2>6. Fails(Joined)
    BY <2>4, <2>5, FailsPointwise
  <2>7. Fails(Joined) => Fails(Joined)'
    BY <1>1, <2>1 DEF Fails, Joined, RecordedSequence, vars
  <2> QED BY <2>1, <2>2, <2>6, <2>7 DEF FailsInv, InMessage, Passes
<1>4. ASSUME at = "next", Place <= Len(best), ~flaky PROVE Fails(Sequence(Current))
  <2>1. \A k \in DOMAIN best : Joined[k] = Sequence(Current)[k]
    <3> SUFFICES ASSUME NEW k \in DOMAIN best PROVE Joined[k] = Sequence(Current)[k]
      OBVIOUS
    <3>1. Sequence(Current)[k] = IF k < Place THEN shrunk[k]
                                 ELSE IF k = Place THEN Current ELSE recorded[best[k]]
      BY <1>4, SequenceAt DEF LoopInv
    <3>2. Joined[k] = IF k <= Len(shrunk) THEN shrunk[k] ELSE recorded[best[k]]
      BY DEF Joined
    <3>3. k = Place => Current = recorded[best[k]]
      BY DEF Current
    <3> QED BY <1>2, <3>1, <3>2, <3>3 DEF Place
  <2> QED BY <1>4, <2>1, FailsPointwise DEF FailsInv
<1>5. CASE KeepTheRest
  BY <1>1, <1>4, <1>5, DoneStep DEF KeepTheRest
<1>6. CASE BeginMessage
  <2>1. at = "next" /\ Place <= Len(best) /\ kept' = Current /\ shrunk' = shrunk
    BY <1>6 DEF BeginMessage
  <2>2. at' \in Passes \cup {"tail"}
    <3>1. at' = "tail" \/ \E m : at' = FirstPass(m)
      BY <1>6 DEF BeginMessage
    <3> QED BY <3>1 DEF FirstPass, Passes
  <2>3. Place' = Place /\ Current' = Current /\ Sequence(kept)' = Sequence(Current)
    BY <1>1, <2>1 DEF Place, Current, Sequence, Suffix, vars
  <2>4. LoopInv'
    BY <1>1, <2>1, <2>2, <2>3 DEF LoopInv, InMessage, IsSequence, Passes, vars
  <2>5. ~flaky => Fails(Sequence(Current))
    BY <1>4, <2>1
  <2>6. Fails(Sequence(Current)) => Fails(Sequence(kept))'
    BY <1>1, <2>3 DEF Fails, RecordedSequence, vars
  <2> QED BY <1>1, <2>2, <2>4, <2>5, <2>6 DEF FailsInv, Passes, vars
<1>7. CASE Return
  <2>1. at = "next" /\ at' = "returned" /\ shrunk' = shrunk /\ Place > Len(best)
    BY <1>7 DEF Return
  <2>2. LoopInv'
    BY <1>1, <1>2, <2>1 DEF LoopInv, InMessage, IsSequence, Passes, Place, vars
  <2>3. Fails(Joined) => Fails(Joined)'
    BY <1>1, <2>1 DEF Fails, Joined, RecordedSequence, vars
  <2> QED BY <1>1, <2>1, <2>2, <2>3 DEF FailsInv, InMessage, Passes, vars
<1> QED BY <1>3, <1>5, <1>6, <1>7

LEMMA LoopStep ==
  ASSUME IInv, RecordedInv, LoopInv, FailsInv, [ShrinkNext]_svars
  PROVE  LoopInv' /\ FailsInv'
<1>1. CASE DdminStep \/ DdminTimeOut
  <2>1. at = "ddmin" /\ shrunk = <<>> /\ UNCHANGED messageVars
    BY <1>1 DEF DdminStep, DdminTimeOut, LoopInv
  <2>2. IInv'
    BY ShrinkStepsDdmin, NextIInv
  <2>3. Len(best') \in Nat /\ Len(<<>>) = 0
    BY <2>2 DEF IInv, TypeOK
  <2> QED BY <2>1, <2>3 DEF LoopInv, FailsInv, InMessage, IsSequence, Passes, messageVars
<1>2. CASE Overtime \/ UNCHANGED svars
  <2>1. UNCHANGED <<vars, recorded, need, messageVars>>
    BY <1>2 DEF Overtime, svars
  <2>2. LoopInv'
    BY <2>1 DEF LoopInv, InMessage, IsSequence, Place, Current, messageVars, vars
  <2>3. /\ Fails(Joined) => Fails(Joined)'
        /\ Fails(Sequence(kept)) => Fails(Sequence(kept))'
    <3>1. Joined' = Joined /\ Sequence(kept)' = Sequence(kept)
      BY <2>1 DEF Joined, Sequence, Suffix, Place, messageVars, vars
    <3> QED BY <2>1, <3>1 DEF Fails, RecordedSequence, vars
  <2>4. at' = at /\ flaky' = flaky
    BY <2>1 DEF messageVars, vars
  <2> QED BY <2>2, <2>3, <2>4 DEF FailsInv, InMessage
<1> QED BY <1>1, <1>2, PassStep, FinalStep, TailStep, BetweenStep DEF ShrinkNext, Shrink

LEMMA ShrinkInitInv == ShrinkInit => RecordedInv /\ LoopInv /\ FailsInv
<1> SUFFICES ASSUME ShrinkInit PROVE RecordedInv /\ LoopInv /\ FailsInv
  OBVIOUS
<1>1. PICK r \in Recordings : recorded = r.messages /\ original = DOMAIN r.messages
  BY DEF ShrinkInit
<1>2. PICK n \in 0..MaxMessages : /\ best = [k \in 1..n |-> k]
                                 /\ original = 1..n
                                 /\ core \in SUBSET (1..n)
  BY DEF ShrinkInit, Init
<1>3. RecordedInv
  <2>0. \A k \in original : Recordable(recorded[k])
    BY <1>1, ShrinkerAssumption
  <2>1. \A k \in original : ~recorded[k].minimal /\ recorded[k].cut = 0
    <3> TAKE k \in original
    <3> DEFINE b == recorded[k]
    <3>1. b = Bytes(b.msg, b.extra)
      BY <2>0 DEF Recordable
    <3> HIDE DEF b
    <3>2. ~b.minimal /\ b.cut = 0
      <4>1. ~Bytes(b.msg, b.extra).minimal /\ Bytes(b.msg, b.extra).cut = 0
        BY DEF Bytes
      <4> QED BY <3>1, <4>1, Zenon
    <3> QED BY <3>2 DEF b
  <2>2. need \in Needs \cup {"presence"}
    BY DEF ShrinkInit
  <2>3. core \subseteq Positions(best)
    BY <1>2 DEF Positions
  <2> QED BY <1>1, <2>0, <2>1, <2>2, <2>3 DEF RecordedInv
<1>4. LoopInv
  <2>1. at = "ddmin" /\ shrunk = <<>>
    BY DEF ShrinkInit
  <2>2. Len(best) \in Nat /\ Len(<<>>) = 0
    BY <1>2, DdminAssumption
  <2> QED BY <2>1, <2>2 DEF LoopInv, InMessage, IsSequence, Passes
<1>5. FailsInv
  BY DEF ShrinkInit, FailsInv, InMessage, Passes
<1> QED BY <1>3, <1>4, <1>5

LEMMA ShrinkInv == ShrinkSpec => [](IInv /\ RecordedInv /\ LoopInv /\ FailsInv)
<1>1. IInv /\ RecordedInv /\ LoopInv /\ FailsInv /\ [ShrinkNext]_svars
        => RecordedInv' /\ LoopInv' /\ FailsInv'
  BY RecordedStep, LoopStep
<1> QED BY ShrinkIInv, ShrinkInitInv, <1>1, PTL DEF ShrinkSpec

-----------------------------------------------------------------------------
(* Theorems *)

\* For recordings of any length, and a bug that needs the presence, the values,
\* the attributes or all but one of its messages as recorded: what shrink returns
\* still fails, although each message was shrunk against a sequence that has
\* changed since, and although the time may have run out half-way.
THEOREM ResultAlwaysFails == ShrinkSpec => []ResultStillFails
<1>1. IInv /\ RecordedInv /\ LoopInv /\ FailsInv => ResultStillFails
  <2> SUFFICES ASSUME IInv, RecordedInv, LoopInv, FailsInv, at = "returned", ~flaky
               PROVE  /\ Len(shrunk) = Len(best)
                      /\ core \subseteq Positions(best)
                      /\ Fails(shrunk)
    BY DEF ResultStillFails
  <2>1. Len(shrunk) = Len(best) /\ core \subseteq Positions(best) /\ Fails(Joined)
    BY DEF LoopInv, RecordedInv, FailsInv
  <2>2. DOMAIN best = 1..Len(best)
    BY DEF IInv, TypeOK
  <2>3. \A k \in DOMAIN best : Joined[k] = shrunk[k]
    BY <2>1, <2>2 DEF Joined
  <2>4. Fails(shrunk)
    BY <2>1, <2>3, FailsPointwise
  <2> QED BY <2>1, <2>4
<1> QED BY <1>1, ShrinkInv, PTL

\* Whatever the target answers, even if it changes its mind, a message enters the
\* result as recorded or as bytes that the verifier was seen to accept.
THEOREM OnlyVerifiedKept == ShrinkSpec => VerifiedBeforeKept
<1> DEFINE Step == shrunk' # shrunk => shrunk'[Place] \in accepted \cup {Current}
<1>1. LoopInv /\ [ShrinkNext]_svars => Step \/ UNCHANGED svars
  <2> SUFFICES ASSUME LoopInv, [ShrinkNext]_svars, shrunk' # shrunk
               PROVE  shrunk'[Place] \in accepted \cup {Current}
    OBVIOUS
  <2>1. KeepTheRest \/ TryTail \/ TailDone
    BY DEF ShrinkNext, Shrink, svars, messageVars, DdminStep, DdminReturns, BeginMessage,
           TryAttribute, AttributesDone, PopLast, TryMinimal, TryFinal, Return, Overtime,
           DdminTimeOut
  <2>2. \/ shrunk' = Append(shrunk, Current)
        \/ shrunk' = Append(shrunk, kept) /\ InMessage
    BY <2>1 DEF KeepTheRest, TryTail, TailDone, Test, InMessage
  <2>3. \A e : Append(shrunk, e)[Place] = e
    BY AppendedSequence DEF LoopInv, Place
  <2> QED BY <2>2, <2>3 DEF LoopInv
<1>2. LoopInv /\ [ShrinkNext]_svars => [Step]_svars
  BY <1>1
<1> QED BY <1>2, ShrinkInv, PTL DEF ShrinkSpec, VerifiedBeforeKept

-----------------------------------------------------------------------------
(* Sizes                                                                     *)

\* The sizes of the elements of a list.
LEMMA PrefixSizes ==
  ASSUME NEW r \in Seq(Nat)
  PROVE  /\ [k \in DOMAIN r |-> PrefixSize(r[k])] \in Seq(Nat)
         /\ Len([k \in DOMAIN r |-> PrefixSize(r[k])]) = Len(r)
<1>1. DOMAIN r = 1..Len(r) /\ Len(r) \in Nat
  OBVIOUS
<1>2. \A k \in DOMAIN r : PrefixSize(r[k]) \in Nat
  <2>1. \A bits \in Nat : PrefixSize(bits) \in Nat
    BY DEF PrefixSize
  <2> QED BY <2>1
<1> QED BY <1>1, <1>2

LEMMA ParamSizes ==
  ASSUME NEW r \in Seq(Parameters)
  PROVE  /\ [k \in DOMAIN r |-> ParamSize(r[k])] \in Seq(Nat)
         /\ Len([k \in DOMAIN r |-> ParamSize(r[k])]) = Len(r)
<1>1. DOMAIN r = 1..Len(r) /\ Len(r) \in Nat
  OBVIOUS
<1>2. ASSUME NEW k \in DOMAIN r PROVE ParamSize(r[k]) \in Nat
  <2>1. r[k] \in Parameters
    OBVIOUS
  <2>2. r[k].size \in Nat
    BY <2>1 DEF Parameters
  <2> QED BY <2>2 DEF ParamSize
<1> QED BY <1>1, <1>2

LEMMA AttributeSizes ==
  ASSUME NEW r \in Seq(Attributes)
  PROVE  /\ \A k \in DOMAIN r : AttributeSize(r[k]) \in Nat
         /\ [k \in DOMAIN r |-> AttributeSize(r[k])] \in Seq(Nat)
         /\ Len([k \in DOMAIN r |-> AttributeSize(r[k])]) = Len(r)
<1>1. DOMAIN r = 1..Len(r) /\ Len(r) \in Nat
  OBVIOUS
<1>2. \A k \in DOMAIN r : AttributeSize(r[k]) \in Nat
  <2> TAKE k \in DOMAIN r
  <2>1. r[k] \in Attributes
    OBVIOUS
  <2>2. r[k].size \in Nat
    BY <2>1 DEF Attributes
  <2> QED BY <2>2 DEF AttributeSize
<1> QED BY <1>1, <1>2

LEMMA MessageTotals ==
  ASSUME NEW m \in Messages
  PROVE  /\ ParamsSize(m) \in Nat /\ WithdrawnSize(m) \in Nat
         /\ AttributesSize(m) \in Nat /\ NlriSize(m) \in Nat /\ m.data \in Nat
<1>1. /\ m.params \in Seq(Parameters) /\ m.withdrawn \in Seq(Nat)
      /\ m.attrs \in Seq(Attributes) /\ m.nlri \in Seq(Nat) /\ m.data \in Nat
  BY DEF Messages
<1>2. ParamsSize(m) \in Nat
  <2>1. [k \in DOMAIN m.params |-> ParamSize(m.params[k])] \in Seq(Nat)
    BY <1>1, ParamSizes
  <2> QED BY <2>1, TotalNat DEF ParamsSize
<1>3. WithdrawnSize(m) \in Nat
  <2>1. [k \in DOMAIN m.withdrawn |-> PrefixSize(m.withdrawn[k])] \in Seq(Nat)
    BY <1>1, PrefixSizes
  <2> QED BY <2>1, TotalNat DEF WithdrawnSize
<1>4. AttributesSize(m) \in Nat
  <2>1. [k \in DOMAIN m.attrs |-> AttributeSize(m.attrs[k])] \in Seq(Nat)
    BY <1>1, AttributeSizes
  <2> QED BY <2>1, TotalNat DEF AttributesSize
<1>5. NlriSize(m) \in Nat
  <2>1. [k \in DOMAIN m.nlri |-> PrefixSize(m.nlri[k])] \in Seq(Nat)
    BY <1>1, PrefixSizes
  <2> QED BY <2>1, TotalNat DEF NlriSize
<1> QED BY <1>1, <1>2, <1>3, <1>4, <1>5

\* The size of a message is a natural number and grows with each of its parts.
LEMMA MessageSize ==
  ASSUME NEW m \in Messages
  PROVE  Size(m) =
           CASE m.kind = "OPEN" -> 29 + ParamsSize(m)
             [] m.kind = "UPDATE" ->
                  23 + WithdrawnSize(m) + AttributesSize(m) + NlriSize(m)
             [] m.kind = "NOTIFICATION" -> 21 + m.data
             [] m.kind = "KEEPALIVE" -> 19
             [] m.kind = "ROUTE-REFRESH" -> 23
             [] m.kind = "RAW" -> 19 + m.data
<1>1. m.kind \in {"OPEN", "UPDATE", "NOTIFICATION", "KEEPALIVE", "ROUTE-REFRESH", "RAW"}
  BY DEF Messages
<1>2. /\ ParamsSize(m) \in Nat /\ WithdrawnSize(m) \in Nat
      /\ AttributesSize(m) \in Nat /\ NlriSize(m) \in Nat /\ m.data \in Nat
  BY MessageTotals
<1>3. CASE m.kind = "OPEN"
  BY <1>2, <1>3 DEF Size, OpenSize, HeaderLen
<1>4. CASE m.kind = "UPDATE"
  <2>1. Size(m) = 19 + 2 + WithdrawnSize(m) + 2 + AttributesSize(m) + NlriSize(m)
    BY <1>4 DEF Size, UpdateSize, HeaderLen
  <2> QED BY <1>2, <1>4, <2>1
<1>5. CASE m.kind = "NOTIFICATION"
  BY <1>2, <1>5 DEF Size, NotificationSize, HeaderLen
<1>6. CASE m.kind = "KEEPALIVE"
  BY <1>6 DEF Size, KeepaliveSize, HeaderLen
<1>7. CASE m.kind = "ROUTE-REFRESH"
  BY <1>7 DEF Size, RouteRefreshSize, HeaderLen
<1>8. CASE m.kind = "RAW"
  BY <1>2, <1>8 DEF Size, RawSize, HeaderLen
<1> QED BY <1>1, <1>3, <1>4, <1>5, <1>6, <1>7, <1>8

LEMMA SizeGrows ==
  ASSUME NEW m \in Messages, NEW d \in Messages, d.kind = m.kind,
         ParamsSize(d) <= ParamsSize(m), WithdrawnSize(d) <= WithdrawnSize(m),
         AttributesSize(d) <= AttributesSize(m), NlriSize(d) <= NlriSize(m),
         d.data <= m.data
  PROVE  Size(d) \in Nat /\ Size(m) \in Nat /\ Size(d) <= Size(m)
<1> DEFINE p == ParamsSize(m) w == WithdrawnSize(m) a == AttributesSize(m) r == NlriSize(m)
           p1 == ParamsSize(d) w1 == WithdrawnSize(d) a1 == AttributesSize(d)
           r1 == NlriSize(d)
<1>1. /\ p \in Nat /\ w \in Nat /\ a \in Nat /\ r \in Nat /\ m.data \in Nat
      /\ p1 \in Nat /\ w1 \in Nat /\ a1 \in Nat /\ r1 \in Nat /\ d.data \in Nat
      /\ p1 <= p /\ w1 <= w /\ a1 <= a /\ r1 <= r
  BY MessageTotals
<1>2. m.kind \in {"OPEN", "UPDATE", "NOTIFICATION", "KEEPALIVE", "ROUTE-REFRESH", "RAW"}
  BY DEF Messages
<1>3. Size(m) = CASE m.kind = "OPEN" -> 29 + p
                  [] m.kind = "UPDATE" -> 23 + w + a + r
                  [] m.kind = "NOTIFICATION" -> 21 + m.data
                  [] m.kind = "KEEPALIVE" -> 19
                  [] m.kind = "ROUTE-REFRESH" -> 23
                  [] m.kind = "RAW" -> 19 + m.data
  BY MessageSize
<1>4. Size(d) = CASE m.kind = "OPEN" -> 29 + p1
                  [] m.kind = "UPDATE" -> 23 + w1 + a1 + r1
                  [] m.kind = "NOTIFICATION" -> 21 + d.data
                  [] m.kind = "KEEPALIVE" -> 19
                  [] m.kind = "ROUTE-REFRESH" -> 23
                  [] m.kind = "RAW" -> 19 + d.data
  BY MessageSize
<1> HIDE DEF p, w, a, r, p1, w1, a1, r1
<1>5. CASE m.kind = "OPEN"
  BY <1>1, <1>3, <1>4, <1>5
<1>6. CASE m.kind = "UPDATE"
  BY <1>1, <1>3, <1>4, <1>6
<1>7. CASE m.kind = "NOTIFICATION" \/ m.kind = "RAW"
  BY <1>1, <1>3, <1>4, <1>7
<1>8. CASE m.kind = "KEEPALIVE" \/ m.kind = "ROUTE-REFRESH"
  BY <1>3, <1>4, <1>8
<1> QED BY <1>2, <1>5, <1>6, <1>7, <1>8

\* Lists that lose elements have smaller sizes.
LEMMA ShorterRoutes ==
  ASSUME NEW r \in Seq(Nat), NEW t \in Seq(Nat), Len(t) <= Len(r),
         \A k \in 1..Len(t) : t[k] = r[k]
  PROVE  Total([k \in DOMAIN t |-> PrefixSize(t[k])])
           <= Total([k \in DOMAIN r |-> PrefixSize(r[k])])
<1> DEFINE x == [k \in DOMAIN t |-> PrefixSize(t[k])]
           y == [k \in DOMAIN r |-> PrefixSize(r[k])]
<1>1. x \in Seq(Nat) /\ Len(x) = Len(t) /\ y \in Seq(Nat) /\ Len(y) = Len(r)
  BY PrefixSizes
<1>2. ASSUME NEW k \in 1..Len(x) PROVE x[k] <= y[k]
  <2>1. k \in DOMAIN t /\ k \in DOMAIN r /\ t[k] = r[k] /\ k \in DOMAIN x
    BY <1>1
  <2>2. x[k] = y[k]
    BY <2>1
  <2> HIDE DEF x, y
  <2>3. x[k] \in Nat
    BY <1>1, ElementOfSeq, Zenon
  <2> QED BY <2>2, <2>3
<1> HIDE DEF x, y
<1>3. Total(x) <= Total(y)
  BY <1>1, <1>2, TotalOfSmaller
<1> QED BY <1>3 DEF x, y

LEMMA ShorterParams ==
  ASSUME NEW r \in Seq(Parameters), NEW t \in Seq(Parameters),
         Len(t) <= Len(r), \A k \in 1..Len(t) : t[k] = r[k]
  PROVE  Total([k \in DOMAIN t |-> ParamSize(t[k])])
           <= Total([k \in DOMAIN r |-> ParamSize(r[k])])
<1> DEFINE x == [k \in DOMAIN t |-> ParamSize(t[k])]
           y == [k \in DOMAIN r |-> ParamSize(r[k])]
<1>1. x \in Seq(Nat) /\ Len(x) = Len(t) /\ y \in Seq(Nat) /\ Len(y) = Len(r)
  BY ParamSizes
<1>2. ASSUME NEW k \in 1..Len(x) PROVE x[k] <= y[k]
  <2>1. k \in DOMAIN t /\ k \in DOMAIN r /\ t[k] = r[k] /\ k \in DOMAIN x
    BY <1>1
  <2>2. x[k] = y[k]
    BY <2>1
  <2> HIDE DEF x, y
  <2>3. x[k] \in Nat
    BY <1>1, ElementOfSeq, Zenon
  <2> QED BY <2>2, <2>3
<1> HIDE DEF x, y
<1>3. Total(x) <= Total(y)
  BY <1>1, <1>2, TotalOfSmaller
<1> QED BY <1>3 DEF x, y

\* p names the places in r of what is left in t.
LEMMA FewerAttributes ==
  ASSUME NEW r \in Seq(Attributes), NEW t \in Seq(Attributes),
         NEW p \in [DOMAIN t -> DOMAIN r],
         \A k, l \in DOMAIN t : k < l => p[k] < p[l],
         \A k \in DOMAIN t : AttributeSize(t[k]) <= AttributeSize(r[p[k]])
  PROVE  Total([k \in DOMAIN t |-> AttributeSize(t[k])])
           <= Total([k \in DOMAIN r |-> AttributeSize(r[k])])
<1> DEFINE x == [k \in DOMAIN t |-> AttributeSize(t[k])]
           y == [k \in DOMAIN r |-> AttributeSize(r[k])]
<1>1. x \in Seq(Nat) /\ Len(x) = Len(t) /\ y \in Seq(Nat) /\ Len(y) = Len(r)
  BY AttributeSizes
<1>2. DOMAIN t = 1..Len(t) /\ DOMAIN r = 1..Len(r)
  OBVIOUS
<1>3. \A k \in DOMAIN t : p[k] \in DOMAIN r
  OBVIOUS
<1>4. \A k \in DOMAIN t : x[k] <= y[p[k]]
  BY <1>3
<1> HIDE DEF x, y
<1>5. p \in [1..Len(x) -> 1..Len(y)]
  BY <1>1, <1>2
<1>6. /\ \A k, l \in 1..Len(x) : k < l => p[k] < p[l]
      /\ \A k \in 1..Len(x) : x[k] <= y[p[k]]
  BY <1>1, <1>2, <1>4
<1>7. Total(x) <= Total(y)
  BY <1>1, <1>5, <1>6, TotalOfSome
<1> QED BY <1>7 DEF x, y

-----------------------------------------------------------------------------
(* Decoding                                                                  *)

LEMMA DecodedAttribute ==
  ASSUME NEW a \in Attributes, a.size >= Least(a)
  PROVE  /\ DecodeAttribute(a) \in Attributes
         /\ AttributeSize(DecodeAttribute(a)) <= AttributeSize(a)
<1>1. a.size \in Nat /\ a.code \in Nat
  BY DEF Attributes
<1>2. CASE \E type \in Types : type.code = a.code
  <2>1. PICK type \in Types : type.code = a.code
    BY <1>2
  <2> DEFINE bytes == IF type.whole THEN a.size ELSE type.least
             d == Attribute(type, bytes)
  <2>2. DecodeAttribute(a) = d /\ Least(a) = type.least
    BY <2>1, DecodedSize
  <2>3. type.least \in Nat /\ type.flags \in SUBSET {"optional", "transitive"}
    BY DEF Types, Type, Origin, AsPath, NextHop, MultiExitDisc, LocalPref,
           AtomicAggregate, Aggregator, MpReachNlri, MpUnreachNlri
  <2>4. bytes \in Nat /\ bytes <= a.size
    BY <1>1, <2>2, <2>3
  <2>5. d.code = a.code /\ d.flags = type.flags /\ d.size = bytes
    BY <2>1 DEF Attribute
  <2>6. d \in Attributes
    <3> HIDE DEF bytes
    <3> QED BY <1>1, <2>1, <2>3, <2>4 DEF Attribute, Attributes
  <2>7. AttributeSize(d) <= AttributeSize(a)
    <3>1. ~ExtendedByFlag(d)
      BY <2>3, <2>5 DEF ExtendedByFlag
    <3> HIDE DEF d, bytes
    <3>2. AttributeSize(d) = IF bytes > 255 THEN 4 + bytes ELSE 3 + bytes
      BY <2>4, <2>5, <3>1 DEF AttributeSize, TwoOctetLength
    <3>3. /\ AttributeSize(a) \in {3 + a.size, 4 + a.size}
          /\ a.size > 255 => AttributeSize(a) = 4 + a.size
      BY <1>1 DEF AttributeSize, TwoOctetLength
    <3> DEFINE x == AttributeSize(d)
               y == AttributeSize(a)
               z == a.size
    <3>4. /\ x = (IF bytes > 255 THEN 4 + bytes ELSE 3 + bytes)
          /\ y \in {3 + z, 4 + z} /\ (z > 255 => y = 4 + z)
          /\ bytes \in Nat /\ z \in Nat /\ bytes <= z
      BY <1>1, <2>4, <3>2, <3>3
    <3> HIDE DEF x, y, z
    <3>5. x <= y
      BY <3>4
    <3> QED BY <3>5 DEF x, y
  <2> HIDE DEF d
  <2> QED BY <2>2, <2>6, <2>7
<1>3. CASE ~\E type \in Types : type.code = a.code
  <2>1. DecodeAttribute(a) = a
    BY <1>3, DecodedRaw
  <2>2. AttributeSize(a) \in Nat
    BY <1>1 DEF AttributeSize
  <2> QED BY <2>1, <2>2
<1> QED BY <1>2, <1>3

\* The recorded bytes, with what is before and behind the message counted.
LEMMA RecordableFacts ==
  ASSUME NEW b, Recordable(b)
  PROVE  /\ b.msg \in Messages /\ b.extra \in Nat /\ b.cut = 0 /\ b.minimal = FALSE
         /\ Size(b.msg) \in Nat /\ Length(b.msg) = Size(b.msg)
         /\ BytesSize(b) = Size(b.msg) + b.extra
<1>1. b = Bytes(b.msg, b.extra) /\ b.msg \in Messages /\ b.extra \in Nat
  BY DEF Recordable
<1>2. b.cut = 0 /\ b.minimal = FALSE
  <2>1. Bytes(b.msg, b.extra).cut = 0 /\ Bytes(b.msg, b.extra).minimal = FALSE
    BY DEF Bytes
  <2> QED BY <1>1, <2>1, Zenon
<1> DEFINE k == Size(b.msg)
           e == b.extra
<1>3. k \in Nat /\ k >= 19
  <2> DEFINE m == b.msg
             p == ParamsSize(m) w == WithdrawnSize(m) a == AttributesSize(m) r == NlriSize(m)
             d == m.data
  <2>1. p \in Nat /\ w \in Nat /\ a \in Nat /\ r \in Nat /\ d \in Nat
    BY <1>1, MessageTotals
  <2>2. k = CASE m.kind = "OPEN" -> 29 + p
              [] m.kind = "UPDATE" -> 23 + w + a + r
              [] m.kind = "NOTIFICATION" -> 21 + d
              [] m.kind = "KEEPALIVE" -> 19
              [] m.kind = "ROUTE-REFRESH" -> 23
              [] m.kind = "RAW" -> 19 + d
    BY <1>1, MessageSize
  <2>3. m.kind \in {"OPEN", "UPDATE", "NOTIFICATION", "KEEPALIVE", "ROUTE-REFRESH", "RAW"}
    BY <1>1 DEF Messages
  <2> HIDE DEF k, m, p, w, a, r, d
  <2>4. CASE m.kind = "OPEN"
    BY <2>1, <2>2, <2>4
  <2>5. CASE m.kind = "UPDATE"
    BY <2>1, <2>2, <2>5
  <2>6. CASE m.kind = "NOTIFICATION" \/ m.kind = "RAW"
    BY <2>1, <2>2, <2>6
  <2>7. CASE m.kind = "KEEPALIVE" \/ m.kind = "ROUTE-REFRESH"
    BY <2>1, <2>2, <2>7
  <2> QED BY <2>3, <2>4, <2>5, <2>6, <2>7
<1>4. BytesSize(b) = k + e - 0
  BY <1>2 DEF BytesSize
<1>5. e \in Nat
  BY <1>1
<1>6. Length(b.msg) = k
  <2>1. <<Length(b.msg), k>> \in LengthFields(b.msg)
    BY DEF LengthFields
  <2>2. \A field \in LengthFields(b.msg) : field[1] = field[2]
    BY DEF Recordable
  <2> QED BY <2>1, <2>2
<1> HIDE DEF k, e
<1>7. BytesSize(b) = k + e
  BY <1>3, <1>4, <1>5
<1> QED BY <1>1, <1>2, <1>3, <1>6, <1>7 DEF k, e

LEMMA DecodedRecording ==
  ASSUME NEW b, Recordable(b)
  PROVE  /\ Decode(b.msg, 0).message \in Messages
         /\ Decode(b.msg, 0).message.kind = b.msg.kind
         /\ Size(Decode(b.msg, 0).message) \in Nat
         /\ Size(Decode(b.msg, 0).message) <= Size(b.msg)
<1> DEFINE m == b.msg
           size == Size(m)
<1>1. m \in Messages
  BY RecordableFacts
<1>0. size \in Nat /\ Length(m) = size /\ size <= size
  <2>1. size \in Nat /\ Length(m) = size
    BY RecordableFacts
  <2> HIDE DEF size
  <2> QED BY <2>1
<1>2. \A k \in DOMAIN m.attrs : m.attrs[k].size >= Least(m.attrs[k])
  BY DEF Recordable
<1> SUFFICES /\ Decode(m, 0).message \in Messages
             /\ Decode(m, 0).message.kind = m.kind
             /\ Size(Decode(m, 0).message) \in Nat
             /\ Size(Decode(m, 0).message) <= Size(m)
  OBVIOUS
<1>same. ASSUME Decode(m, 0).message = m
         PROVE  /\ Decode(m, 0).message \in Messages
                /\ Decode(m, 0).message.kind = m.kind
                /\ Size(Decode(m, 0).message) \in Nat
                /\ Size(Decode(m, 0).message) <= Size(m)
  <2>1. Size(m) \in Nat /\ Size(m) <= Size(m)
    BY <1>0
  <2> HIDE DEF m, size
  <2> QED BY <1>1, <1>same, <2>1
<1> HIDE DEF m
<1>3. /\ m.params \in Seq(Parameters) /\ m.withdrawn \in Seq(Nat)
      /\ m.attrs \in Seq(Attributes) /\ m.nlri \in Seq(Nat) /\ m.data \in Nat
      /\ m.kind \in {"OPEN", "UPDATE", "NOTIFICATION", "KEEPALIVE", "ROUTE-REFRESH", "RAW"}
  BY <1>1 DEF Messages
<1>4. CASE m.kind = "UPDATE"
  <2> DEFINE A == [k \in DOMAIN m.attrs |-> DecodeAttribute(m.attrs[k])]
             r == m.nlri \o RoutesBehind(0)
             d == [m EXCEPT !.attrs = A, !.nlri = r]
  <2>1. Decode(m, 0).message = d
    BY <1>4 DEF Decode, DecodeUpdate
  <2>2. r = m.nlri
    BY <1>3 DEF RoutesBehind
  <2>3. DOMAIN m.attrs = 1..Len(m.attrs) /\ Len(m.attrs) \in Nat
    BY <1>3
  <2>4. \A k \in DOMAIN m.attrs : m.attrs[k] \in Attributes
    BY <1>3
  <2>5. ASSUME NEW k \in DOMAIN m.attrs
        PROVE  A[k] \in Attributes /\ AttributeSize(A[k]) <= AttributeSize(m.attrs[k])
    BY <1>2, <2>4, DecodedAttribute
  <2>6. A \in Seq(Attributes) /\ DOMAIN A = DOMAIN m.attrs
    <3>1. A \in [1..Len(m.attrs) -> Attributes]
      BY <2>3, <2>5
    <3> HIDE DEF A
    <3> QED BY <2>3, <3>1
  <2> HIDE DEF A, r
  <2>7. /\ d \in Messages
        /\ d.kind = m.kind /\ d.params = m.params /\ d.withdrawn = m.withdrawn
        /\ d.attrs = A /\ d.nlri = r /\ d.data = m.data
    <3>1. r \in Seq(Nat)
      BY <1>3, <2>2
    <3>2. d = [m EXCEPT !.attrs = A, !.nlri = r]
      OBVIOUS
    <3>3. A \in Seq(Attributes)
      BY <2>6
    <3> HIDE DEF d
    <3> QED BY <1>1, <3>1, <3>2, <3>3 DEF Messages
  <2> HIDE DEF d
  <2>8. AttributesSize(d) <= AttributesSize(m)
    <3> DEFINE p == [k \in DOMAIN A |-> k]
    <3>1. p \in [DOMAIN A -> DOMAIN m.attrs]
      BY <2>6
    <3>2. \A k, l \in DOMAIN A : k < l => p[k] < p[l]
      OBVIOUS
    <3>3. \A k \in DOMAIN A : AttributeSize(A[k]) <= AttributeSize(m.attrs[p[k]])
      BY <2>5, <2>6
    <3> HIDE DEF p
    <3>4. Total([k \in DOMAIN A |-> AttributeSize(A[k])])
            <= Total([k \in DOMAIN m.attrs |-> AttributeSize(m.attrs[k])])
      BY <1>3, <2>6, <3>1, <3>2, <3>3, FewerAttributes
    <3> QED BY <2>7, <3>4 DEF AttributesSize
  <2>9. /\ ParamsSize(d) = ParamsSize(m) /\ WithdrawnSize(d) = WithdrawnSize(m)
        /\ NlriSize(d) = NlriSize(m)
    BY <2>2, <2>7 DEF ParamsSize, WithdrawnSize, NlriSize
  <2>10. /\ ParamsSize(m) \in Nat /\ WithdrawnSize(m) \in Nat /\ NlriSize(m) \in Nat
    BY <1>1, MessageTotals
  <2>11. Size(d) \in Nat /\ Size(d) <= Size(m)
    <3>1. /\ ParamsSize(d) <= ParamsSize(m) /\ WithdrawnSize(d) <= WithdrawnSize(m)
          /\ NlriSize(d) <= NlriSize(m) /\ d.data <= m.data
      BY <1>3, <2>7, <2>9, <2>10
    <3> QED BY <1>1, <2>7, <2>8, <3>1, SizeGrows
  <2> QED BY <2>1, <2>7, <2>11
<1>5. CASE m.kind = "NOTIFICATION"
  <2> DEFINE k == Size(m)
             e == Min({HeaderLen + Length(m), BufferLen(m, 0)})
  <2>1. k = 21 + m.data
    BY <1>1, <1>5, MessageSize
  <2>2. e = k
    <3> DEFINE l == HeaderLen + Length(m)
               n == BufferLen(m, 0)
    <3>1. k \in Nat /\ Length(m) = k
      BY <1>0
    <3>2. n = k + 0 * KeepaliveSize /\ l = 19 + k
      BY <3>1 DEF BufferLen, HeaderLen
    <3> HIDE DEF k, l, n
    <3>3. n = k /\ n \in Int /\ l \in Int /\ n <= l
      BY <3>1, <3>2 DEF KeepaliveSize, HeaderLen
    <3>4. Min({n, l}) = n
      BY <3>3, MinOfTwo
    <3>5. {n, l} = {l, n}
      OBVIOUS
    <3> QED BY <3>3, <3>4, <3>5 DEF n, l
  <2>3. Decode(m, 0).message = [m EXCEPT !.data = e - 21]
    BY <1>5 DEF Decode, DecodeNotification
  <2>4. e - 21 = m.data
    BY <1>3, <2>1, <2>2
  <2> HIDE DEF e
  <2>5. Decode(m, 0).message = m
    BY <1>1, <2>3, <2>4 DEF Messages
  <2> QED BY <2>5, <1>same
<1>6. CASE m.kind # "UPDATE" /\ m.kind # "NOTIFICATION"
  <2>1. Decode(m, 0).message = m
    BY <1>6 DEF Decode, DecodeKeepalive, DecodeFixed
  <2> QED BY <2>1, <1>same
<1> QED BY <1>4, <1>5, <1>6

-----------------------------------------------------------------------------
(* What the passes take away                                                 *)

\* A list without its last element.
LEMMA FrontOf ==
  ASSUME NEW S, NEW s \in Seq(S), s # <<>>
  PROVE  /\ Front(s) \in Seq(S) /\ Len(Front(s)) <= Len(s)
         /\ Len(Front(s)) = Len(s) - 1
         /\ \A k \in 1..Len(Front(s)) : Front(s)[k] = s[k]
<1>1. Len(s) \in Nat /\ Len(s) >= 1 /\ \A k \in 1..Len(s) : s[k] \in S
  OBVIOUS
<1> DEFINE n == Len(s) - 1
<1>2. n \in Int /\ 1 \in Int /\ n >= 0 /\ \A k \in 1..n : s[k] \in S
  BY <1>1
<1> HIDE DEF n
<1>3. /\ SubSeq(s, 1, n) \in Seq(S)
      /\ Len(SubSeq(s, 1, n)) = IF 1 <= n THEN n - 1 + 1 ELSE 0
      /\ \A k \in 1..(n - 1 + 1) : SubSeq(s, 1, n)[k] = s[1 + k - 1]
  BY <1>2, SubSeqProperties
<1>4. Len(SubSeq(s, 1, n)) = n /\ \A k \in 1..n : SubSeq(s, 1, n)[k] = s[k]
  BY <1>2, <1>3
<1>5. Front(s) = SubSeq(s, 1, n)
  BY DEF Front, n
<1> QED BY <1>1, <1>2, <1>3, <1>4, <1>5 DEF n

\* A list without the element at l, and the places of the others.
Skip(l, k) == IF k < l THEN k ELSE k + 1

LEMMA RemovedAt ==
  ASSUME NEW S, NEW s \in Seq(S), NEW l \in 1..Len(s)
  PROVE  /\ RemoveAt(s, l) \in Seq(S) /\ Len(RemoveAt(s, l)) = Len(s) - 1
         /\ \A k \in 1..(Len(s) - 1) :
              /\ Skip(l, k) \in 1..Len(s) /\ RemoveAt(s, l)[k] = s[Skip(l, k)]
<1> DEFINE n == Len(s)
           t == SubSeq(s, 1, l - 1)
           u == SubSeq(s, l + 1, n)
<1>1. n \in Nat /\ \A k \in 1..n : s[k] \in S
  OBVIOUS
<1> HIDE DEF n
<1>2. l \in Int /\ 1 <= l /\ l <= n
  BY <1>1 DEF n
<1>3. t \in Seq(S) /\ Len(t) = l - 1 /\ \A k \in 1..(l - 1) : t[k] = s[k]
  <2>1. 1 \in Int /\ l - 1 \in Int /\ \A k \in 1..(l - 1) : s[k] \in S
    BY <1>1, <1>2
  <2>2. /\ t \in Seq(S) /\ Len(t) = (IF 1 <= l - 1 THEN l - 1 - 1 + 1 ELSE 0)
        /\ \A k \in 1..(l - 1 - 1 + 1) : t[k] = s[1 + k - 1]
    BY <2>1, SubSeqProperties
  <2> HIDE DEF t
  <2> QED BY <1>2, <2>2
<1>4. u \in Seq(S) /\ Len(u) = n - l /\ \A k \in 1..(n - l) : u[k] = s[l + k]
  <2>1. l + 1 \in Int /\ n \in Int /\ \A k \in (l + 1)..n : s[k] \in S
    BY <1>1, <1>2
  <2>2. /\ u \in Seq(S) /\ Len(u) = (IF l + 1 <= n THEN n - (l + 1) + 1 ELSE 0)
        /\ \A k \in 1..(n - (l + 1) + 1) : u[k] = s[l + 1 + k - 1]
    BY <2>1, SubSeqProperties
  <2> HIDE DEF u
  <2>3. Len(u) = n - l
    BY <1>1, <1>2, <2>2
  <2>4. ASSUME NEW k \in 1..(n - l) PROVE u[k] = s[l + k]
    <3>1. k \in 1..(n - (l + 1) + 1) /\ l + 1 + k - 1 = l + k
      BY <1>1, <1>2
    <3> QED BY <2>2, <3>1
  <2> QED BY <2>2, <2>3, <2>4
<1>5. RemoveAt(s, l) = t \o u
  BY DEF RemoveAt, n
<1> HIDE DEF t, u
<1>6. /\ t \o u \in Seq(S) /\ Len(t \o u) = Len(t) + Len(u)
      /\ \A k \in 1..(Len(t) + Len(u)) :
           (t \o u)[k] = IF k <= Len(t) THEN t[k] ELSE u[k - Len(t)]
  BY <1>3, <1>4, ConcatProperties, Zenon
<1>7. Len(t) + Len(u) = n - 1
  BY <1>1, <1>2, <1>3, <1>4
<1>8. ASSUME NEW k \in 1..(n - 1)
      PROVE  Skip(l, k) \in 1..n /\ (t \o u)[k] = s[Skip(l, k)]
  <2>1. (t \o u)[k] = IF k <= l - 1 THEN t[k] ELSE u[k - (l - 1)]
    BY <1>3, <1>6, <1>7
  <2>2. CASE k < l
    <3>1. k \in 1..(l - 1) /\ k <= l - 1 /\ k \in 1..n
      BY <1>1, <1>2, <2>2
    <3> QED BY <1>3, <2>1, <2>2, <3>1 DEF Skip
  <2>3. CASE ~(k < l)
    <3>1. k - (l - 1) \in 1..(n - l) /\ ~(k <= l - 1) /\ k + 1 \in 1..n
          /\ l + (k - (l - 1)) = k + 1
      BY <1>1, <1>2, <2>3
    <3>2. u[k - (l - 1)] = s[l + (k - (l - 1))]
      BY <1>4, <3>1
    <3> QED BY <2>1, <2>3, <3>1, <3>2 DEF Skip
  <2> QED BY <2>2, <2>3
<1> QED BY <1>5, <1>6, <1>7, <1>8 DEF n

-----------------------------------------------------------------------------
(* The size invariant                                                        *)

AllBytes == [msg : Messages, extra : Nat, cut : Nat, minimal : BOOLEAN]

NoLonger(b, r) == BytesSize(b) <= BytesSize(r) \/ (b.minimal /\ BytesSize(b) <= 37)

\* some is what is left of all: in the same order, the mandatory ones included.
InOrder(some, all) ==
  \E places \in [DOMAIN some -> DOMAIN all] :
    /\ \A k, l \in DOMAIN some : k < l => places[k] < places[l]
    /\ \A k \in DOMAIN some : some[k] = all[places[k]]
    /\ \A l \in DOMAIN all : all[l].code <= 3 => \E k \in DOMAIN some : places[k] = l

LEMMA OrderItself ==
  ASSUME NEW all PROVE InOrder(all, all)
<1> DEFINE places == [k \in DOMAIN all |-> k]
<1>1. places \in [DOMAIN all -> DOMAIN all] /\ \A k \in DOMAIN all : places[k] = k
  OBVIOUS
<1> HIDE DEF places
<1> QED BY <1>1 DEF InOrder

\* An attribute whose code is not one of the mandatory ones can go.
LEMMA OrderRemoved ==
  ASSUME NEW all, NEW some \in Seq(Attributes), InOrder(some, all),
         NEW l \in 1..Len(some), ~(some[l].code <= 3)
  PROVE  InOrder(RemoveAt(some, l), all)
<1>1. PICK places \in [DOMAIN some -> DOMAIN all] :
         /\ \A k, n \in DOMAIN some : k < n => places[k] < places[n]
         /\ \A k \in DOMAIN some : some[k] = all[places[k]]
         /\ \A n \in DOMAIN all : all[n].code <= 3 => \E k \in DOMAIN some : places[k] = n
  BY DEF InOrder
<1> DEFINE fewer == RemoveAt(some, l)
           others == [k \in DOMAIN fewer |-> places[Skip(l, k)]]
<1>2. /\ fewer \in Seq(Attributes) /\ Len(fewer) = Len(some) - 1
      /\ \A k \in 1..(Len(some) - 1) :
           Skip(l, k) \in 1..Len(some) /\ fewer[k] = some[Skip(l, k)]
  BY RemovedAt
<1>3. /\ DOMAIN some = 1..Len(some) /\ Len(some) \in Nat
      /\ DOMAIN fewer = 1..(Len(some) - 1)
  BY <1>2
<1> HIDE DEF fewer
<1>4. /\ others \in [DOMAIN fewer -> DOMAIN all]
      /\ \A k \in DOMAIN fewer : others[k] = places[Skip(l, k)]
  BY <1>1, <1>2, <1>3
<1> HIDE DEF others
<1>5. ASSUME NEW k \in DOMAIN fewer, NEW n \in DOMAIN fewer, k < n
      PROVE  others[k] < others[n]
  <2>1. Skip(l, k) < Skip(l, n)
    BY <1>3, <1>5 DEF Skip
  <2>2. Skip(l, k) \in DOMAIN some /\ Skip(l, n) \in DOMAIN some
    BY <1>2, <1>3
  <2> QED BY <1>1, <1>4, <2>1, <2>2
<1>6. \A k \in DOMAIN fewer : fewer[k] = all[others[k]]
  BY <1>1, <1>2, <1>3, <1>4
<1>7. ASSUME NEW n \in DOMAIN all, all[n].code <= 3
      PROVE  \E k \in DOMAIN fewer : others[k] = n
  <2>1. PICK k \in DOMAIN some : places[k] = n
    BY <1>1, <1>7
  <2>2. k # l
    BY <1>1, <1>7, <2>1
  <2>3. PICK o \in DOMAIN fewer : Skip(l, o) = k
    <3>1. CASE k < l
      <4>1. k \in 1..(Len(some) - 1) /\ Skip(l, k) = k
        BY <1>3, <3>1 DEF Skip
      <4> QED BY <1>3, <4>1
    <3>2. CASE k > l
      <4>1. k - 1 \in 1..(Len(some) - 1) /\ Skip(l, k - 1) = k
        BY <1>3, <3>2 DEF Skip
      <4> QED BY <1>3, <4>1
    <3> QED BY <1>3, <2>2, <3>1, <3>2
  <2> QED BY <1>4, <2>1, <2>3
<1>8. InOrder(fewer, all)
  BY <1>4, <1>5, <1>6, <1>7 DEF InOrder
<1> QED BY <1>8 DEF fewer

\* Of the lists of a message, one is made shorter.
LEMMA WithoutAttribute ==
  ASSUME NEW m \in Messages, NEW l \in 1..Len(m.attrs),
         NEW d, d = [m EXCEPT !.attrs = RemoveAt(m.attrs, l)]
  PROVE  /\ d \in Messages /\ d.kind = m.kind /\ d.attrs = RemoveAt(m.attrs, l)
         /\ Size(d) \in Nat /\ Size(d) <= Size(m)
<1> DEFINE r == m.attrs
           t == RemoveAt(r, l)
           p == [k \in DOMAIN t |-> Skip(l, k)]
<1>1. r \in Seq(Attributes)
  BY DEF Messages
<1> HIDE DEF r
<1>2. /\ t \in Seq(Attributes) /\ Len(t) = Len(r) - 1
      /\ \A k \in 1..(Len(r) - 1) : Skip(l, k) \in 1..Len(r) /\ t[k] = r[Skip(l, k)]
  BY <1>1, RemovedAt DEF r
<1>3. DOMAIN t = 1..(Len(r) - 1) /\ DOMAIN r = 1..Len(r) /\ Len(r) \in Nat
  BY <1>1, <1>2
<1> HIDE DEF t
<1>4. /\ p \in [DOMAIN t -> DOMAIN r]
      /\ \A k \in DOMAIN t : p[k] = Skip(l, k)
  BY <1>2, <1>3
<1> HIDE DEF p
<1>5. \A k, n \in DOMAIN t : k < n => p[k] < p[n]
  BY <1>3, <1>4 DEF Skip
<1>6. \A k \in DOMAIN t : AttributeSize(t[k]) <= AttributeSize(r[p[k]])
  <2> TAKE k \in DOMAIN t
  <2>1. t[k] = r[p[k]]
    BY <1>2, <1>3, <1>4
  <2>2. AttributeSize(t[k]) \in Nat
    BY <1>2, AttributeSizes
  <2> QED BY <2>1, <2>2
<1>7. Total([k \in DOMAIN t |-> AttributeSize(t[k])])
        <= Total([k \in DOMAIN r |-> AttributeSize(r[k])])
  BY <1>1, <1>2, <1>4, <1>5, <1>6, FewerAttributes
<1>8. /\ d \in Messages /\ d.kind = m.kind /\ d.attrs = t /\ d.params = m.params
      /\ d.withdrawn = m.withdrawn /\ d.nlri = m.nlri /\ d.data = m.data
  <2>1. d = [m EXCEPT !.attrs = t]
    BY DEF t, r
  <2> QED BY <1>2, <2>1 DEF Messages
<1>9. AttributesSize(d) <= AttributesSize(m)
  BY <1>7, <1>8 DEF AttributesSize, r
<1>10. /\ ParamsSize(d) = ParamsSize(m) /\ WithdrawnSize(d) = WithdrawnSize(m)
       /\ NlriSize(d) = NlriSize(m)
  BY <1>8 DEF ParamsSize, WithdrawnSize, NlriSize
<1>11. /\ ParamsSize(d) <= ParamsSize(m) /\ WithdrawnSize(d) <= WithdrawnSize(m)
       /\ NlriSize(d) <= NlriSize(m) /\ d.data <= m.data
  <2>1. /\ ParamsSize(m) \in Nat /\ WithdrawnSize(m) \in Nat /\ NlriSize(m) \in Nat
        /\ m.data \in Nat
    BY MessageTotals
  <2> QED BY <1>8, <1>10, <2>1
<1>12. Size(d) \in Nat /\ Size(d) <= Size(m)
  BY <1>8, <1>9, <1>11, SizeGrows
<1> QED BY <1>8, <1>12 DEF t, r

LEMMA WithoutRoute ==
  ASSUME NEW m \in Messages, NEW d,
         \/ m.nlri # <<>> /\ d = [m EXCEPT !.nlri = Front(m.nlri)]
         \/ m.withdrawn # <<>> /\ d = [m EXCEPT !.withdrawn = Front(m.withdrawn)]
  PROVE  /\ d \in Messages /\ d.kind = m.kind /\ d.attrs = m.attrs
         /\ Size(d) \in Nat /\ Size(d) <= Size(m)
<1>1. m.nlri \in Seq(Nat) /\ m.withdrawn \in Seq(Nat)
  BY DEF Messages
<1>2. /\ ParamsSize(m) \in Nat /\ WithdrawnSize(m) \in Nat /\ NlriSize(m) \in Nat
      /\ AttributesSize(m) \in Nat /\ m.data \in Nat
  BY MessageTotals
<1> DEFINE f == Front(m.nlri)
           g == Front(m.withdrawn)
<1>3. CASE m.nlri # <<>> /\ d = [m EXCEPT !.nlri = f]
  <2>1. f \in Seq(Nat) /\ Len(f) <= Len(m.nlri) /\ \A k \in 1..Len(f) : f[k] = m.nlri[k]
    BY <1>1, <1>3, FrontOf
  <2> HIDE DEF f
  <2>2. /\ d \in Messages /\ d.kind = m.kind /\ d.attrs = m.attrs /\ d.params = m.params
        /\ d.withdrawn = m.withdrawn /\ d.nlri = f /\ d.data = m.data
    BY <1>3, <2>1 DEF Messages
  <2>3. NlriSize(d) <= NlriSize(m)
    BY <1>1, <2>1, <2>2, ShorterRoutes DEF NlriSize
  <2>4. /\ ParamsSize(d) = ParamsSize(m) /\ WithdrawnSize(d) = WithdrawnSize(m)
        /\ AttributesSize(d) = AttributesSize(m)
    BY <2>2 DEF ParamsSize, WithdrawnSize, AttributesSize
  <2>5. /\ ParamsSize(d) <= ParamsSize(m) /\ WithdrawnSize(d) <= WithdrawnSize(m)
        /\ AttributesSize(d) <= AttributesSize(m) /\ d.data <= m.data
    BY <1>2, <2>2, <2>4
  <2> QED BY <2>2, <2>3, <2>5, SizeGrows
<1>4. CASE m.withdrawn # <<>> /\ d = [m EXCEPT !.withdrawn = g]
  <2>1. g \in Seq(Nat) /\ Len(g) <= Len(m.withdrawn) /\ \A k \in 1..Len(g) : g[k] = m.withdrawn[k]
    BY <1>1, <1>4, FrontOf
  <2> HIDE DEF g
  <2>2. /\ d \in Messages /\ d.kind = m.kind /\ d.attrs = m.attrs /\ d.params = m.params
        /\ d.nlri = m.nlri /\ d.withdrawn = g /\ d.data = m.data
    BY <1>4, <2>1 DEF Messages
  <2>3. WithdrawnSize(d) <= WithdrawnSize(m)
    BY <1>1, <2>1, <2>2, ShorterRoutes DEF WithdrawnSize
  <2>4. /\ ParamsSize(d) = ParamsSize(m) /\ NlriSize(d) = NlriSize(m)
        /\ AttributesSize(d) = AttributesSize(m)
    BY <2>2 DEF ParamsSize, NlriSize, AttributesSize
  <2>5. /\ ParamsSize(d) <= ParamsSize(m) /\ NlriSize(d) <= NlriSize(m)
        /\ AttributesSize(d) <= AttributesSize(m) /\ d.data <= m.data
    BY <1>2, <2>2, <2>4
  <2> QED BY <2>2, <2>3, <2>5, SizeGrows
<1> QED BY <1>3, <1>4

LEMMA WithoutParameter ==
  ASSUME NEW m \in Messages, m.params # <<>>,
         NEW d, d = [m EXCEPT !.params = Front(m.params)]
  PROVE  /\ d \in Messages /\ d.kind = m.kind /\ d.attrs = m.attrs
         /\ Size(d) \in Nat /\ Size(d) <= Size(m)
<1>1. m.params \in Seq(Parameters)
  BY DEF Messages
<1>2. /\ NlriSize(m) \in Nat /\ WithdrawnSize(m) \in Nat /\ AttributesSize(m) \in Nat
      /\ m.data \in Nat
  BY MessageTotals
<1> DEFINE f == Front(m.params)
<1>3. f \in Seq(Parameters) /\ Len(f) <= Len(m.params) /\ \A k \in 1..Len(f) : f[k] = m.params[k]
  BY <1>1, FrontOf
<1>4. d = [m EXCEPT !.params = f]
  OBVIOUS
<1> HIDE DEF f
<1>5. /\ d \in Messages /\ d.kind = m.kind /\ d.attrs = m.attrs /\ d.params = f
      /\ d.withdrawn = m.withdrawn /\ d.nlri = m.nlri /\ d.data = m.data
  BY <1>3, <1>4 DEF Messages
<1>6. ParamsSize(d) <= ParamsSize(m)
  BY <1>1, <1>3, <1>5, ShorterParams DEF ParamsSize
<1>7. /\ NlriSize(d) = NlriSize(m) /\ WithdrawnSize(d) = WithdrawnSize(m)
      /\ AttributesSize(d) = AttributesSize(m)
  BY <1>5 DEF NlriSize, WithdrawnSize, AttributesSize
<1>8. /\ NlriSize(d) <= NlriSize(m) /\ WithdrawnSize(d) <= WithdrawnSize(m)
      /\ AttributesSize(d) <= AttributesSize(m) /\ d.data <= m.data
  BY <1>2, <1>5, <1>7
<1> QED BY <1>5, <1>6, <1>8, SizeGrows

LEMMA WithoutData ==
  ASSUME NEW m \in Messages, m.data # 0, NEW d, d = [m EXCEPT !.data = m.data - 1]
  PROVE  /\ d \in Messages /\ d.kind = m.kind /\ d.attrs = m.attrs
         /\ Size(d) \in Nat /\ Size(d) <= Size(m)
<1>1. /\ ParamsSize(m) \in Nat /\ NlriSize(m) \in Nat /\ WithdrawnSize(m) \in Nat
      /\ AttributesSize(m) \in Nat /\ m.data \in Nat
  BY MessageTotals
<1>2. /\ d \in Messages /\ d.kind = m.kind /\ d.attrs = m.attrs /\ d.params = m.params
      /\ d.withdrawn = m.withdrawn /\ d.nlri = m.nlri /\ d.data = m.data - 1
  <2> DEFINE x == m.data - 1
  <2>1. x \in Nat
    BY <1>1
  <2>2. d = [m EXCEPT !.data = x]
    OBVIOUS
  <2> HIDE DEF x
  <2>3. /\ d \in Messages /\ d.kind = m.kind /\ d.attrs = m.attrs /\ d.params = m.params
        /\ d.withdrawn = m.withdrawn /\ d.nlri = m.nlri /\ d.data = x
    BY <2>1, <2>2 DEF Messages
  <2> QED BY <2>3 DEF x
<1>3. /\ NlriSize(d) = NlriSize(m) /\ WithdrawnSize(d) = WithdrawnSize(m)
      /\ AttributesSize(d) = AttributesSize(m) /\ ParamsSize(d) = ParamsSize(m)
  BY <1>2 DEF NlriSize, WithdrawnSize, AttributesSize, ParamsSize
<1>4. /\ NlriSize(d) <= NlriSize(m) /\ WithdrawnSize(d) <= WithdrawnSize(m)
      /\ AttributesSize(d) <= AttributesSize(m) /\ ParamsSize(d) <= ParamsSize(m)
      /\ d.data <= m.data
  BY <1>1, <1>2, <1>3
<1>5. Size(d) \in Nat /\ Size(d) <= Size(m)
  <2>1. d \in Messages /\ d.kind = m.kind
    BY <1>2
  <2> QED BY <1>4, <2>1, SizeGrows
<1> QED BY <1>2, <1>5

LEMMA SizeNat == ASSUME NEW m \in Messages PROVE Size(m) \in Nat
<1>1. /\ ParamsSize(m) <= ParamsSize(m) /\ WithdrawnSize(m) <= WithdrawnSize(m)
      /\ AttributesSize(m) <= AttributesSize(m) /\ NlriSize(m) <= NlriSize(m)
      /\ m.data <= m.data
  BY MessageTotals
<1> QED BY <1>1, SizeGrows

\* What a while loop pops: the message is no larger, its attributes stay.
LEMMA Popped ==
  ASSUME NEW b \in AllBytes, NEW list \in {"nlri", "withdrawn", "params", "data"},
         ~Empty(b, list)
  PROVE  \E d \in Messages :
           /\ Pop(b, list) = [b EXCEPT !.msg = d]
           /\ d.kind = b.msg.kind /\ d.attrs = b.msg.attrs
           /\ Size(d) \in Nat /\ Size(d) <= Size(b.msg)
<1> DEFINE m == b.msg
<1>1. m \in Messages
  BY DEF AllBytes
<1>2. CASE list = "nlri"
  <2> DEFINE d == [m EXCEPT !.nlri = Front(m.nlri)]
  <2>1. m.nlri # <<>> /\ Pop(b, list) = [b EXCEPT !.msg = d]
    BY <1>1, <1>2 DEF Empty, Pop, AllBytes, Messages
  <2> QED BY <1>1, <2>1, WithoutRoute
<1>3. CASE list = "withdrawn"
  <2> DEFINE d == [m EXCEPT !.withdrawn = Front(m.withdrawn)]
  <2>1. m.withdrawn # <<>> /\ Pop(b, list) = [b EXCEPT !.msg = d]
    BY <1>1, <1>3 DEF Empty, Pop, AllBytes, Messages
  <2> QED BY <1>1, <2>1, WithoutRoute
<1>4. CASE list = "params"
  <2> DEFINE d == [m EXCEPT !.params = Front(m.params)]
  <2>1. m.params # <<>> /\ Pop(b, list) = [b EXCEPT !.msg = d]
    BY <1>1, <1>4 DEF Empty, Pop, AllBytes, Messages
  <2> QED BY <1>1, <2>1, WithoutParameter
<1>5. CASE list = "data"
  <2> DEFINE d == [m EXCEPT !.data = m.data - 1]
  <2>1. m.data # 0 /\ Pop(b, list) = [b EXCEPT !.msg = d]
    BY <1>1, <1>5 DEF Empty, Pop, AllBytes, Messages
  <2> QED BY <1>1, <2>1, WithoutData
<1> QED BY <1>2, <1>3, <1>4, <1>5

\* Bytes whose message is no larger are no longer.
LEMMA SmallerBytes ==
  ASSUME NEW b \in AllBytes, NEW d \in Messages, Size(d) \in Nat, Size(d) <= Size(b.msg),
         NEW c, c = [b EXCEPT !.msg = d],
         NEW r, BytesSize(r) \in Int, NoLonger(b, r)
  PROVE  /\ c \in AllBytes /\ c.msg = d
         /\ c.extra = b.extra /\ c.cut = b.cut /\ c.minimal = b.minimal
         /\ NoLonger(c, r)
<1>1. /\ c \in AllBytes /\ c.msg = d
      /\ c.extra = b.extra /\ c.cut = b.cut /\ c.minimal = b.minimal
  BY DEF AllBytes
<1> DEFINE k == Size(d) n == Size(b.msg) e == b.extra u == b.cut l == BytesSize(r)
<1>2. k \in Nat /\ n \in Nat /\ e \in Nat /\ u \in Nat /\ l \in Int /\ k <= n
  BY SizeNat DEF AllBytes
<1>3. BytesSize(c) = k + e - u /\ BytesSize(b) = n + e - u
  BY <1>1 DEF BytesSize
<1>4. BytesSize(b) <= l \/ (b.minimal /\ BytesSize(b) <= 37)
  BY DEF NoLonger
<1> HIDE DEF k, n, e, u, l
<1>5. BytesSize(c) <= BytesSize(b) /\ BytesSize(c) \in Int /\ BytesSize(b) \in Int
  BY <1>2, <1>3
<1>6. BytesSize(c) <= l \/ (c.minimal /\ BytesSize(c) <= 37)
  <2>1. CASE BytesSize(b) <= l
    BY <1>2, <1>5, <2>1
  <2>2. CASE b.minimal /\ BytesSize(b) <= 37
    <3>1. BytesSize(c) <= 37
      BY <1>5, <2>2
    <3> QED BY <1>1, <2>2, <3>1, Zenon
  <2> QED BY <1>4, <2>1, <2>2
<1> QED BY <1>1, <1>6 DEF NoLonger, l

\* The minimal messages are 37 and 29 bytes long.
LEMMA MinimalBytes ==
  ASSUME NEW b
  PROVE  /\ Minimal(b) \in AllBytes /\ Minimal(b).minimal = TRUE
         /\ Minimal(b).extra = 0 /\ Minimal(b).cut = 0
         /\ BytesSize(Minimal(b)) <= 37
<1>1. MinimalOpen \in Messages /\ BytesSize(Bytes(MinimalOpen, 0)) = 29
  <2> DEFINE m == MinimalOpen
  <2>1. m \in Messages /\ m.kind = "OPEN" /\ m.params = <<>>
    <3>1. <<>> \in Seq(Nat) /\ <<>> \in Seq(Attributes) /\ <<>> \in Seq(Parameters)
      OBVIOUS
    <3>2. Blank \in Messages
      BY <3>1 DEF Blank, Messages
    <3>3. m \in Messages
      BY <3>1, <3>2 DEF MinimalOpen, Open, Messages
    <3>4. m.kind = "OPEN" /\ m.params = <<>>
      BY DEF MinimalOpen, Open, Blank
    <3> QED BY <3>3, <3>4
  <2>2. ParamsSize(m) = Total(<<>>)
    <3>1. [k \in DOMAIN m.params |-> ParamSize(m.params[k])] = <<>>
      BY <2>1
    <3> QED BY <3>1 DEF ParamsSize
  <2>3. Size(m) = 29 + ParamsSize(m)
    BY <2>1, MessageSize
  <2>4. BytesSize(Bytes(m, 0)) = Size(m) + 0 - 0
    BY DEF BytesSize, Bytes
  <2> HIDE DEF m
  <2>5. Size(m) = 29
    BY <2>2, <2>3, TotalOfNone
  <2> QED BY <2>1, <2>4, <2>5 DEF m
<1>2. MinimalUpdate \in Messages /\ BytesSize(Bytes(MinimalUpdate, 0)) = 37
  <2> DEFINE m == MinimalUpdate
             a == <<Attribute(Origin, 1), Attribute(AsPath, 0), Attribute(NextHop, 4)>>
             sizes == [k \in DOMAIN a |-> AttributeSize(a[k])]
  <2>1. a \in Seq(Attributes) /\ Len(a) = 3
    BY DEF Attribute, Origin, AsPath, NextHop, Type, Attributes
  <2>2. AttributeSize(a[1]) = 4 /\ AttributeSize(a[2]) = 3 /\ AttributeSize(a[3]) = 7
    BY DEF Attribute, Origin, AsPath, NextHop, Type, AttributeSize, TwoOctetLength,
           ExtendedByFlag
  <2> HIDE DEF a
  <2>3. /\ m \in Messages /\ m.kind = "UPDATE" /\ m.withdrawn = <<>> /\ m.attrs = a
        /\ m.nlri = <<>>
    <3>1. <<>> \in Seq(Nat) /\ <<>> \in Seq(Parameters)
      OBVIOUS
    <3>2. Blank \in Messages
      BY <3>1 DEF Blank, Messages
    <3>3. m = Update(<<>>, a, <<>>)
      BY DEF MinimalUpdate, a
    <3> HIDE DEF m
    <3>4. m \in Messages
      BY <2>1, <3>1, <3>2, <3>3 DEF Update, Messages
    <3>5. m.kind = "UPDATE" /\ m.withdrawn = <<>> /\ m.attrs = a /\ m.nlri = <<>>
      BY <3>3 DEF Update, Blank
    <3> QED BY <3>4, <3>5
  <2>4. sizes \in Seq(Nat) /\ Len(sizes) = 3
    BY <2>1, AttributeSizes
  <2>5. sizes[1] = 4 /\ sizes[2] = 3 /\ sizes[3] = 7
    BY <2>1, <2>2
  <2>6. Total(sizes) = 14
    <3> HIDE DEF sizes
    <3>1. PICK f \in [0..Len(sizes) -> Nat] :
             /\ f[0] = 0
             /\ \A k \in 1..Len(sizes) : f[k] = f[k - 1] + sizes[k]
             /\ Total(sizes) = f[Len(sizes)]
      BY <2>4, PartialTotals
    <3>2. f[1] = f[1 - 1] + sizes[1] /\ f[2] = f[2 - 1] + sizes[2] /\ f[3] = f[3 - 1] + sizes[3]
      BY <2>4, <3>1
    <3>3. f[1] = 4
      BY <2>5, <3>1, <3>2
    <3>4. f[2] = 7
      BY <2>5, <3>2, <3>3
    <3> QED BY <2>4, <2>5, <3>1, <3>2, <3>4
  <2>7. AttributesSize(m) = 14
    BY <2>3, <2>6 DEF AttributesSize
  <2>8. WithdrawnSize(m) = 0 /\ NlriSize(m) = 0
    <3>1. /\ [k \in DOMAIN m.withdrawn |-> PrefixSize(m.withdrawn[k])] = <<>>
          /\ [k \in DOMAIN m.nlri |-> PrefixSize(m.nlri[k])] = <<>>
      BY <2>3
    <3> QED BY <3>1, TotalOfNone DEF WithdrawnSize, NlriSize
  <2>9. Size(m) = 23 + WithdrawnSize(m) + AttributesSize(m) + NlriSize(m)
    BY <2>3, MessageSize
  <2>10. BytesSize(Bytes(m, 0)) = Size(m) + 0 - 0
    BY DEF BytesSize, Bytes
  <2> HIDE DEF m
  <2>11. Size(m) = 37
    BY <2>7, <2>8, <2>9
  <2> QED BY <2>3, <2>10, <2>11 DEF m
<1> DEFINE m == IF b.msg.kind = "UPDATE" THEN MinimalUpdate ELSE MinimalOpen
           c == Minimal(b)
<1>3. m \in Messages /\ BytesSize(Bytes(m, 0)) \in {29, 37}
  BY <1>1, <1>2
<1>4. c = [Bytes(m, 0) EXCEPT !.minimal = TRUE]
  BY DEF Minimal
<1> HIDE DEF m
<1>5. /\ c \in AllBytes /\ c.minimal = TRUE /\ c.extra = 0 /\ c.cut = 0 /\ c.msg = m
  <2>1. m \in Messages
    BY <1>3
  <2>2. c = [msg |-> m, extra |-> 0, cut |-> 0, minimal |-> TRUE]
    BY <1>4 DEF Bytes
  <2> HIDE DEF c
  <2> QED BY <2>1, <2>2 DEF AllBytes
<1>6. BytesSize(c) = BytesSize(Bytes(m, 0))
  <2>1. Bytes(m, 0).msg = m /\ Bytes(m, 0).extra = 0 /\ Bytes(m, 0).cut = 0
    BY DEF Bytes
  <2> QED BY <1>5, <2>1 DEF BytesSize
<1>7. BytesSize(c) <= 37
  BY <1>3, <1>6
<1> QED BY <1>5, <1>7

-----------------------------------------------------------------------------
(* The invariant of the passes                                               *)

KindInv ==
  /\ at \in {"attrs", "nlri", "withdrawn"} =>
       parsed.msg.kind = "UPDATE" /\ j \in 0..Len(parsed.msg.attrs)
  /\ at = "params" => parsed.msg.kind = "OPEN"
  /\ at = "data" => parsed.msg.kind = "NOTIFICATION"

ParsedInv ==
  /\ parsed \in AllBytes /\ parsed.extra = 0 /\ parsed.cut = 0
  /\ NoLonger(parsed, Current)
  /\ ~parsed.minimal => InOrder(parsed.msg.attrs, Decode(Current.msg, 0).message.attrs)

SizeInv ==
  /\ at \in Passes => ParsedInv /\ KindInv
  /\ InMessage => kept \in AllBytes /\ NoLonger(kept, Current)
  /\ \A k \in 1..Len(shrunk) :
       shrunk[k] \in AllBytes /\ NoLonger(shrunk[k], recorded[best[k]])
  /\ timed_out => overtime

\* The message at hand is one of the recorded ones.
LEMMA CurrentFacts ==
  ASSUME IInv, RecordedInv, LoopInv, Place <= Len(best)
  PROVE  /\ Recordable(Current) /\ Current \in AllBytes
         /\ BytesSize(Current) \in Int /\ NoLonger(Current, Current)
<1>1. Len(shrunk) \in Nat /\ Len(best) \in Nat /\ best \in Seq(original)
  BY DEF LoopInv, IsSequence, IInv, TypeOK
<1>2. Place \in 1..Len(best)
  BY <1>1 DEF Place
<1>3. Recordable(Current)
  <2>1. best[Place] \in original
    BY <1>1, <1>2
  <2> QED BY <2>1 DEF RecordedInv, Current
<1> DEFINE b == Current
<1>4. b = Bytes(b.msg, b.extra) /\ b.msg \in Messages /\ b.extra \in Nat
  BY <1>3 DEF Recordable
<1>5. Bytes(b.msg, b.extra) \in AllBytes
  BY <1>4 DEF Bytes, AllBytes
<1> HIDE DEF b
<1>6. b \in AllBytes
  BY <1>4, <1>5, Zenon
<1>7. BytesSize(b) \in Int
  <2>1. Size(b.msg) \in Nat /\ b.extra \in Nat /\ b.cut \in Nat
    BY <1>6, SizeNat DEF AllBytes
  <2> QED BY <2>1 DEF BytesSize
<1>8. NoLonger(b, b)
  <2>1. BytesSize(b) <= BytesSize(b)
    BY <1>7
  <2> QED BY <2>1 DEF NoLonger
<1> QED BY <1>3, <1>6, <1>7, <1>8 DEF b

\* A smaller message, with the attributes still in order.
LEMMA ParsedShrinks ==
  ASSUME ParsedInv, BytesSize(Current) \in Int, Current' = Current,
         NEW d \in Messages, Size(d) \in Nat, Size(d) <= Size(parsed.msg),
         ~parsed.minimal => InOrder(d.attrs, Decode(Current.msg, 0).message.attrs),
         parsed' = [parsed EXCEPT !.msg = d]
  PROVE  ParsedInv' /\ parsed'.msg = d
<1>1. /\ parsed \in AllBytes /\ parsed.extra = 0 /\ parsed.cut = 0
      /\ NoLonger(parsed, Current)
  BY DEF ParsedInv
<1>2. /\ parsed' \in AllBytes /\ parsed'.msg = d /\ parsed'.extra = parsed.extra
      /\ parsed'.cut = parsed.cut /\ parsed'.minimal = parsed.minimal
      /\ NoLonger(parsed', Current)
  BY <1>1, SmallerBytes
<1>3. ~parsed'.minimal => InOrder(parsed'.msg.attrs, Decode(Current.msg, 0).message.attrs)
  BY <1>2, Zenon
<1> QED BY <1>1, <1>2, <1>3 DEF ParsedInv

LEMMA AttributeSizeStep ==
  ASSUME IInv, RecordedInv, LoopInv, ParsedInv, KindInv, TryAttribute
  PROVE  ParsedInv' /\ KindInv'
<1>1. /\ at = "attrs" /\ at' = at /\ j > 0 /\ j' = j - 1
      /\ UNCHANGED <<vars, recorded, shrunk>>
  BY DEF TryAttribute
<1>2. Current' = Current
  BY <1>1 DEF Current, Place, vars
<1>3. parsed.msg.kind = "UPDATE" /\ j \in 0..Len(parsed.msg.attrs)
  BY <1>1 DEF KindInv
<1>4. parsed \in AllBytes /\ parsed.msg \in Messages
  BY DEF ParsedInv, AllBytes
<1>5. parsed.msg.attrs \in Seq(Attributes)
  BY <1>4 DEF Messages
<1>6. Len(parsed.msg.attrs) \in Nat
  BY <1>5
<1>7. CASE parsed' = parsed
  <2>1. ParsedInv'
    BY <1>2, <1>7 DEF ParsedInv
  <2>2. j' \in 0..Len(parsed'.msg.attrs)
    BY <1>1, <1>3, <1>6, <1>7
  <2>3. parsed'.msg.kind = "UPDATE"
    BY <1>3, <1>7
  <2> QED BY <1>1, <2>1, <2>2, <2>3 DEF KindInv
<1>8. CASE /\ ~(parsed.msg.attrs[j].code <= 3)
           /\ parsed' = [parsed EXCEPT !.msg.attrs = RemoveAt(@, j)]
  <2> DEFINE m == parsed.msg
             d == [m EXCEPT !.attrs = RemoveAt(m.attrs, j)]
  <2>1. j \in 1..Len(m.attrs)
    BY <1>1, <1>3, <1>6
  <2>2. /\ d \in Messages /\ d.kind = m.kind /\ d.attrs = RemoveAt(m.attrs, j)
        /\ Size(d) \in Nat /\ Size(d) <= Size(m)
    BY <1>4, <2>1, WithoutAttribute
  <2>3. parsed' = [parsed EXCEPT !.msg = d]
    BY <1>4, <1>8 DEF AllBytes, Messages
  <2>4. ~parsed.minimal => InOrder(d.attrs, Decode(Current.msg, 0).message.attrs)
    <3> SUFFICES ASSUME ~parsed.minimal
                 PROVE  InOrder(d.attrs, Decode(Current.msg, 0).message.attrs)
      OBVIOUS
    <3>1. InOrder(m.attrs, Decode(Current.msg, 0).message.attrs)
      BY DEF ParsedInv
    <3>2. InOrder(RemoveAt(m.attrs, j), Decode(Current.msg, 0).message.attrs)
      BY <1>5, <1>8, <2>1, <3>1, OrderRemoved
    <3> HIDE DEF d
    <3> QED BY <2>2, <3>2
  <2>5. Len(RemoveAt(m.attrs, j)) = Len(m.attrs) - 1
    BY <1>5, <2>1, RemovedAt
  <2> HIDE DEF d
  <2>6. ParsedInv' /\ parsed'.msg = d
    <3>1. Place <= Len(best)
      BY <1>1 DEF LoopInv, InMessage, Passes
    <3>2. BytesSize(Current) \in Int
      BY <3>1, CurrentFacts
    <3> QED BY <1>2, <2>2, <2>3, <2>4, <3>2, ParsedShrinks
  <2>7. j' \in 0..Len(parsed'.msg.attrs)
    BY <1>1, <1>6, <2>1, <2>2, <2>5, <2>6
  <2>8. parsed'.msg.kind = "UPDATE"
    BY <1>3, <2>2, <2>6
  <2> QED BY <1>1, <2>6, <2>7, <2>8 DEF KindInv
<1> QED BY <1>7, <1>8 DEF TryAttribute, Test, PutBack

LEMMA PopSizeStep ==
  ASSUME IInv, RecordedInv, LoopInv, ParsedInv, KindInv, PopLast
  PROVE  ParsedInv' /\ KindInv' /\ at' \in Passes
<1>1. /\ at \in {"nlri", "withdrawn", "params", "data"} /\ j' = j
      /\ UNCHANGED <<vars, recorded, shrunk>>
  BY DEF PopLast
<1>2. Current' = Current
  BY <1>1 DEF Current, Place, vars
<1>3. BytesSize(Current) \in Int
  <2>1. Place <= Len(best)
    BY <1>1 DEF LoopInv, InMessage, Passes
  <2> QED BY <2>1, CurrentFacts
<1>4. \/ parsed' = parsed /\ at' = PassAfter(at)
      \/ ~Empty(parsed, at) /\ parsed' = Pop(parsed, at) /\ at' = at
  BY DEF PopLast, Test
<1>5. ParsedInv' /\ parsed'.msg.kind = parsed.msg.kind /\ parsed'.msg.attrs = parsed.msg.attrs
  <2>1. CASE parsed' = parsed
    BY <1>2, <2>1 DEF ParsedInv
  <2>2. CASE ~Empty(parsed, at) /\ parsed' = Pop(parsed, at)
    <3>1. parsed \in AllBytes
      BY DEF ParsedInv
    <3>2. PICK d \in Messages :
             /\ Pop(parsed, at) = [parsed EXCEPT !.msg = d]
             /\ d.kind = parsed.msg.kind /\ d.attrs = parsed.msg.attrs
             /\ Size(d) \in Nat /\ Size(d) <= Size(parsed.msg)
      BY <1>1, <2>2, <3>1, Popped
    <3>3. ~parsed.minimal => InOrder(d.attrs, Decode(Current.msg, 0).message.attrs)
      BY <3>2 DEF ParsedInv
    <3>4. parsed' = [parsed EXCEPT !.msg = d]
      BY <2>2, <3>2, Zenon
    <3>5. Size(d) \in Nat /\ Size(d) <= Size(parsed.msg)
      BY <3>2
    <3>6. ParsedInv' /\ parsed'.msg = d
      BY <1>2, <1>3, <3>3, <3>4, <3>5, ParsedShrinks
    <3> QED BY <3>2, <3>6
  <2> QED BY <1>4, <2>1, <2>2
<1>6. \/ at = "nlri" /\ at' \in {"nlri", "withdrawn"}
      \/ at = "withdrawn" /\ at' \in {"withdrawn", "minimal"}
      \/ at = "params" /\ at' \in {"params", "minimal"}
      \/ at = "data" /\ at' \in {"data", "final"}
  BY <1>1, <1>4 DEF PassAfter
<1>7. KindInv' /\ at' \in Passes
  BY <1>1, <1>5, <1>6 DEF KindInv, Passes
<1> QED BY <1>5, <1>7

LEMMA MinimalSizeStep ==
  ASSUME ParsedInv, TryMinimal
  PROVE  ParsedInv' /\ KindInv'
<1>1. at' = "final" /\ UNCHANGED <<vars, recorded, shrunk>>
  BY DEF TryMinimal
<1>2. Current' = Current
  BY <1>1 DEF Current, Place, vars
<1>3. parsed' = parsed \/ parsed' = Minimal(parsed)
  BY DEF TryMinimal, Test
<1>4. CASE parsed' = parsed
  BY <1>1, <1>2, <1>4 DEF ParsedInv, KindInv
<1>5. CASE parsed' = Minimal(parsed)
  <2>1. /\ parsed' \in AllBytes /\ parsed'.minimal = TRUE
        /\ parsed'.extra = 0 /\ parsed'.cut = 0 /\ BytesSize(parsed') <= 37
    BY <1>5, MinimalBytes, Zenon
  <2>2. NoLonger(parsed', Current')
    BY <2>1 DEF NoLonger
  <2> QED BY <1>1, <2>1, <2>2 DEF ParsedInv, KindInv
<1> QED BY <1>3, <1>4, <1>5

\* A pass over the message at hand, whatever pass it is.
LEMMA PassSizeStep ==
  ASSUME IInv, RecordedInv, LoopInv, SizeInv,
         TryAttribute \/ AttributesDone \/ PopLast \/ TryMinimal
  PROVE  SizeInv'
<1>1. UNCHANGED <<vars, recorded, shrunk, kept, overtime>>
  BY DEF TryAttribute, AttributesDone, PopLast, TryMinimal
<1>2. Current' = Current
  BY <1>1 DEF Current, Place, vars
<1>3. at \in Passes
  BY DEF TryAttribute, AttributesDone, PopLast, TryMinimal, Passes
<1>4. ParsedInv /\ KindInv /\ kept \in AllBytes /\ NoLonger(kept, Current)
  BY <1>3 DEF SizeInv, InMessage
<1>5. ParsedInv' /\ KindInv'
  <2>1. CASE AttributesDone
    <3>1. /\ at = "attrs" /\ at' = "nlri" /\ parsed' = parsed /\ j' = j
      BY <2>1 DEF AttributesDone
    <3>2. ParsedInv'
      BY <1>2, <1>4, <3>1 DEF ParsedInv
    <3>3. KindInv'
      BY <1>4, <3>1 DEF KindInv
    <3> QED BY <3>2, <3>3
  <2> QED BY <1>4, <2>1, AttributeSizeStep, PopSizeStep, MinimalSizeStep
<1>6. kept' \in AllBytes /\ NoLonger(kept', Current')
  BY <1>1, <1>2, <1>4
<1>7. \A k \in 1..Len(shrunk') :
       shrunk'[k] \in AllBytes /\ NoLonger(shrunk'[k], recorded'[best'[k]])
  BY <1>1 DEF SizeInv, vars
<1>8. timed_out' => overtime'
  BY <1>1 DEF SizeInv, vars
<1> QED BY <1>5, <1>6, <1>7, <1>8 DEF SizeInv

\* A message that is no longer than what was recorded joins the result.
LEMMA DoneSizeStep ==
  ASSUME LoopInv, SizeInv, NEW b \in AllBytes, NoLonger(b, Current),
         at' = "next", shrunk' = Append(shrunk, b), UNCHANGED <<vars, recorded, overtime>>
  PROVE  SizeInv'
<1>1. /\ Len(shrunk) \in Nat /\ Len(shrunk') = Len(shrunk) + 1
      /\ \A k \in 1..Len(shrunk) : shrunk'[k] = shrunk[k]
      /\ shrunk'[Len(shrunk) + 1] = b
  BY AppendedSequence DEF LoopInv, IsSequence
<1>2. ASSUME NEW k \in 1..Len(shrunk')
      PROVE  shrunk'[k] \in AllBytes /\ NoLonger(shrunk'[k], recorded'[best'[k]])
  <2>1. recorded' = recorded /\ best' = best
    BY DEF vars
  <2>2. CASE k = Len(shrunk) + 1
    BY <1>1, <2>1, <2>2 DEF Current, Place
  <2>3. CASE k # Len(shrunk) + 1
    <3>1. k \in 1..Len(shrunk)
      BY <1>1, <2>3
    <3> QED BY <1>1, <2>1, <3>1 DEF SizeInv
  <2> QED BY <2>2, <2>3
<1>3. timed_out' => overtime'
  BY DEF SizeInv, vars
<1>4. ~InMessage' /\ at' \notin Passes
  BY DEF InMessage, Passes
<1> QED BY <1>2, <1>3, <1>4 DEF SizeInv

LEMMA TailSizeStep ==
  ASSUME IInv, RecordedInv, LoopInv, SizeInv, TryFinal \/ TryTail \/ TailDone
  PROVE  SizeInv'
<1>1. /\ at \in {"final", "tail"} /\ UNCHANGED <<vars, recorded, overtime>>
      /\ InMessage
  BY DEF TryFinal, TryTail, TailDone, InMessage, Passes
<1>2. kept \in AllBytes /\ NoLonger(kept, Current)
  BY <1>1 DEF SizeInv
<1>3. CASE at' = "next" /\ shrunk' = Append(shrunk, kept)
  BY <1>1, <1>2, <1>3, DoneSizeStep
<1>4. CASE at' = "tail" /\ shrunk' = shrunk /\ kept' \in AllBytes /\ NoLonger(kept', Current)
  <2>1. Current' = Current /\ at' \notin Passes
    BY <1>1, <1>4 DEF Current, Place, Passes, vars
  <2>2. \A k \in 1..Len(shrunk') :
         shrunk'[k] \in AllBytes /\ NoLonger(shrunk'[k], recorded'[best'[k]])
    BY <1>1, <1>4 DEF SizeInv, vars
  <2>3. timed_out' => overtime'
    BY <1>1 DEF SizeInv, vars
  <2>4. kept' \in AllBytes /\ NoLonger(kept', Current')
    BY <1>4, <2>1
  <2> QED BY <2>1, <2>2, <2>3, <2>4 DEF SizeInv
<1>5. CASE TryFinal
  <2>1. at = "final" /\ at' = "tail" /\ shrunk' = shrunk /\ (kept' = kept \/ kept' = parsed)
    BY <1>5 DEF TryFinal, Test
  <2>2. parsed \in AllBytes /\ NoLonger(parsed, Current)
    BY <2>1 DEF SizeInv, ParsedInv, Passes
  <2> QED BY <1>2, <1>4, <2>1, <2>2
<1>6. CASE TryTail
  <2> DEFINE shorter == [kept EXCEPT !.cut = @ + 1]
  <2>1. at = "tail"
    BY <1>6 DEF TryTail
  <2>2. \/ at' = at /\ shrunk' = shrunk /\ kept' = shorter
        \/ at' = "next" /\ shrunk' = Append(shrunk, kept)
    BY <1>6 DEF TryTail, Test
  <2>3. shorter \in AllBytes /\ NoLonger(shorter, Current)
    <3> DEFINE k == Size(kept.msg) e == kept.extra u == kept.cut l == BytesSize(Current)
    <3>1. k \in Nat /\ e \in Nat /\ u \in Nat /\ l \in Int
      <4>1. k \in Nat /\ e \in Nat /\ u \in Nat
        BY <1>2, SizeNat DEF AllBytes
      <4>2. Place <= Len(best)
        BY <1>1 DEF LoopInv
      <4> QED BY <4>1, <4>2, CurrentFacts
    <3>2. /\ shorter \in AllBytes /\ shorter.msg = kept.msg /\ shorter.extra = e
          /\ shorter.cut = u + 1 /\ shorter.minimal = kept.minimal
      <4> DEFINE v == u + 1
      <4>1. v \in Nat
        BY <3>1
      <4>2. shorter = [kept EXCEPT !.cut = v]
        BY <1>2 DEF AllBytes
      <4> HIDE DEF v, shorter
      <4>3. /\ shorter \in AllBytes /\ shorter.msg = kept.msg /\ shorter.extra = kept.extra
            /\ shorter.cut = v /\ shorter.minimal = kept.minimal
        BY <1>2, <4>1, <4>2 DEF AllBytes
      <4> QED BY <4>3 DEF v
    <3> HIDE DEF shorter
    <3>3. BytesSize(kept) = k + e - u /\ BytesSize(shorter) = k + e - (u + 1)
      BY <3>2 DEF BytesSize
    <3>4. BytesSize(kept) <= l \/ (kept.minimal /\ BytesSize(kept) <= 37)
      BY <1>2 DEF NoLonger
    <3> HIDE DEF k, e, u, l
    <3>5. BytesSize(shorter) <= BytesSize(kept) /\ BytesSize(shorter) \in Int
          /\ BytesSize(kept) \in Int
      BY <3>1, <3>3
    <3>6. CASE BytesSize(kept) <= l
      <4>1. BytesSize(shorter) <= l
        BY <3>1, <3>5, <3>6
      <4> QED BY <3>2, <4>1 DEF NoLonger, l
    <3>7. CASE kept.minimal /\ BytesSize(kept) <= 37
      <4>1. BytesSize(shorter) <= 37
        BY <3>5, <3>7
      <4>2. shorter.minimal
        BY <3>2, <3>7, Zenon
      <4> QED BY <3>2, <4>1, <4>2 DEF NoLonger
    <3> QED BY <3>4, <3>6, <3>7
  <2> HIDE DEF shorter
  <2> QED BY <1>3, <1>4, <2>1, <2>2, <2>3
<1>7. CASE TailDone
  BY <1>3, <1>7 DEF TailDone
<1> QED BY <1>5, <1>6, <1>7

\* What decoding and encoding give is where the passes start.
LEMMA BeginSizeStep ==
  ASSUME IInv, RecordedInv, LoopInv, SizeInv, BeginMessage
  PROVE  SizeInv'
<1>1. /\ Place <= Len(best) /\ kept' = Current
      /\ UNCHANGED <<vars, recorded, shrunk, overtime>>
  BY DEF BeginMessage
<1>2. Current' = Current
  BY <1>1 DEF Current, Place, vars
<1>3. /\ Recordable(Current) /\ Current \in AllBytes
      /\ BytesSize(Current) \in Int /\ NoLonger(Current, Current)
  BY <1>1, CurrentFacts
<1>4. kept' \in AllBytes /\ NoLonger(kept', Current')
  BY <1>1, <1>2, <1>3
<1>5. \A k \in 1..Len(shrunk') :
       shrunk'[k] \in AllBytes /\ NoLonger(shrunk'[k], recorded'[best'[k]])
  BY <1>1 DEF SizeInv, vars
<1>6. timed_out' => overtime'
  BY <1>1 DEF SizeInv, vars
<1>7. CASE at' = "tail"
  BY <1>4, <1>5, <1>6, <1>7 DEF SizeInv, Passes
<1>8. CASE \E m : /\ m = Decode(Current.msg, 0).message
                  /\ parsed' = Encoded([msg |-> m]) /\ j' = Len(m.attrs)
                  /\ at' = FirstPass(m)
  <2>1. PICK m : /\ m = Decode(Current.msg, 0).message
                 /\ parsed' = Encoded([msg |-> m]) /\ j' = Len(m.attrs)
                 /\ at' = FirstPass(m)
    BY <1>8
  <2>2. m \in Messages /\ Size(m) \in Nat /\ Size(m) <= Size(Current.msg)
    BY <1>3, <2>1, DecodedRecording
  <2>3. /\ parsed'.msg = m /\ parsed'.extra = 0 /\ parsed'.cut = 0
        /\ parsed'.minimal = FALSE /\ parsed' \in AllBytes
    BY <2>1, <2>2 DEF Encoded, Bytes, AllBytes
  <2>4. NoLonger(parsed', Current')
    <3> DEFINE k == Size(m) n == Size(Current.msg) e == Current.extra
    <3>1. BytesSize(Current) = n + e /\ n \in Nat /\ e \in Nat
      BY <1>3, RecordableFacts
    <3>2. BytesSize(parsed') = k + 0 - 0
      BY <2>3 DEF BytesSize
    <3>3. k \in Nat /\ k <= n
      BY <2>2
    <3> HIDE DEF k, n, e
    <3>4. BytesSize(parsed') <= BytesSize(Current)
      BY <3>1, <3>2, <3>3
    <3> QED BY <1>2, <3>4 DEF NoLonger
  <2>5. InOrder(parsed'.msg.attrs, Decode(Current'.msg, 0).message.attrs)
    <3>1. parsed'.msg.attrs = Decode(Current'.msg, 0).message.attrs
      BY <1>2, <2>1, <2>3
    <3> QED BY <3>1, OrderItself
  <2>6. ParsedInv'
    BY <2>3, <2>4, <2>5 DEF ParsedInv
  <2>7. m.attrs \in Seq(Attributes)
    BY <2>2 DEF Messages
  <2>8. j' \in 0..Len(parsed'.msg.attrs)
    BY <2>1, <2>3, <2>7
  <2>9. KindInv'
    BY <2>1, <2>3, <2>8 DEF KindInv, FirstPass
  <2> QED BY <1>4, <1>5, <1>6, <2>6, <2>9 DEF SizeInv
<1>9. \/ at' = "tail"
      \/ /\ parsed' = Encoded([msg |-> Decode(Current.msg, 0).message])
         /\ j' = Len(Decode(Current.msg, 0).message.attrs)
         /\ at' = FirstPass(Decode(Current.msg, 0).message)
  BY DEF BeginMessage
<1> QED BY <1>7, <1>8, <1>9

\* Delta debugging comes before the messages, and its clock runs out last.
LEMMA DdminSizeStep ==
  ASSUME LoopInv, SizeInv, DdminStep \/ DdminTimeOut
  PROVE  SizeInv'
<1>1. at = "ddmin" /\ shrunk = <<>> /\ UNCHANGED <<messageVars, recorded, overtime>>
  BY DEF DdminStep, DdminTimeOut, LoopInv
<1>2. at' \notin Passes /\ ~InMessage'
  BY <1>1 DEF messageVars, Passes, InMessage
<1>3. \A k \in 1..Len(shrunk') :
       shrunk'[k] \in AllBytes /\ NoLonger(shrunk'[k], recorded'[best'[k]])
  <2>1. shrunk' = <<>> /\ Len(<<>>) = 0
    BY <1>1 DEF messageVars
  <2> QED BY <2>1
<1>4. timed_out' => overtime'
  <2>1. CASE DdminStep
    <3>1. timed_out' = timed_out
      BY <2>1 DEF DdminStep, Loop, Begin, Try, Panic, Exhausted
    <3> QED BY <1>1, <3>1 DEF SizeInv
  <2>2. CASE DdminTimeOut
    BY <1>1, <2>2 DEF DdminTimeOut
  <2> QED BY <2>1, <2>2
<1> QED BY <1>2, <1>3, <1>4 DEF SizeInv

LEMMA SizeStep ==
  ASSUME IInv, RecordedInv, LoopInv, SizeInv, [ShrinkNext]_svars
  PROVE  SizeInv'
<1>1. CASE KeepTheRest
  <2>1. at = "next" /\ Place <= Len(best) /\ shrunk' = Append(shrunk, Current) /\ at' = "next"
        /\ UNCHANGED <<vars, recorded, overtime>>
    BY <1>1 DEF KeepTheRest
  <2>2. Current \in AllBytes /\ NoLonger(Current, Current)
    BY <2>1, CurrentFacts
  <2> QED BY <2>1, <2>2, DoneSizeStep
<1>2. CASE DdminReturns \/ Return
  <2>1. at' \in {"next", "returned"} /\ UNCHANGED <<vars, recorded, shrunk, overtime>>
    BY <1>2 DEF DdminReturns, Return
  <2> QED BY <2>1 DEF SizeInv, InMessage, Passes, vars
<1>3. CASE Overtime \/ UNCHANGED svars
  <2>1. UNCHANGED <<vars, recorded, messageVars>> /\ (overtime' = TRUE \/ overtime' = overtime)
    BY <1>3 DEF Overtime, svars
  <2>2. /\ Current' = Current /\ at' = at /\ parsed' = parsed /\ j' = j /\ kept' = kept
        /\ shrunk' = shrunk /\ recorded' = recorded /\ best' = best /\ timed_out' = timed_out
    BY <2>1 DEF messageVars, vars, Current, Place
  <2>3. ParsedInv' = ParsedInv /\ KindInv' = KindInv /\ InMessage' = InMessage
    BY <2>2 DEF ParsedInv, KindInv, InMessage
  <2> QED BY <2>1, <2>2, <2>3 DEF SizeInv
<1> QED BY <1>1, <1>2, <1>3, PassSizeStep, TailSizeStep, BeginSizeStep, DdminSizeStep
        DEF ShrinkNext, Shrink

LEMMA SizeInit == ShrinkInit => SizeInv
<1> SUFFICES ASSUME ShrinkInit PROVE SizeInv
  OBVIOUS
<1>1. at = "ddmin" /\ shrunk = <<>> /\ Len(<<>>) = 0
  BY DEF ShrinkInit
<1>2. ~timed_out
  BY DEF ShrinkInit, Init
<1> QED BY <1>1, <1>2 DEF SizeInv, InMessage, Passes

LEMMA ShrinkSizeInv == ShrinkSpec => [](IInv /\ RecordedInv /\ LoopInv /\ SizeInv)
<1>1. IInv /\ RecordedInv /\ LoopInv /\ SizeInv /\ [ShrinkNext]_svars => SizeInv'
  BY SizeStep
<1> QED BY ShrinkInv, SizeInit, <1>1, PTL DEF ShrinkSpec

\* The places of shrink's loops: no message is done before delta debugging is, none
\* twice, and each pass has a message of its kind and an attribute left to try.
THEOREM ShrinkerTypes == ShrinkSpec => []ShrinkerTypeOK
<1>1. IInv /\ LoopInv /\ SizeInv => ShrinkerTypeOK
  <2> SUFFICES ASSUME IInv, LoopInv, SizeInv PROVE ShrinkerTypeOK
    OBVIOUS
  <2>1. TypeOK /\ Len(shrunk) <= Len(best) /\ (at = "ddmin" => shrunk = <<>>)
        /\ at \in {"ddmin", "next", "tail", "returned"} \cup Passes /\ (timed_out => overtime)
    BY DEF IInv, LoopInv, SizeInv
  <2>2. ASSUME at \in Passes
        PROVE  /\ parsed.extra = 0 /\ parsed.cut = 0 /\ KindInv
               /\ Len(parsed.msg.attrs) \in Nat
    <3>1. parsed.extra = 0 /\ parsed.cut = 0 /\ KindInv /\ parsed \in AllBytes
      BY <2>2 DEF SizeInv, ParsedInv
    <3>2. parsed.msg.attrs \in Seq(Attributes)
      BY <3>1 DEF AllBytes, Messages
    <3> QED BY <3>1, <3>2
  <2>3. at \in {"attrs", "nlri", "withdrawn"} =>
          parsed.msg.kind = "UPDATE" /\ j <= Len(parsed.msg.attrs)
    BY <2>2 DEF KindInv, Passes
  <2>4. at = "params" => parsed.msg.kind = "OPEN"
    BY <2>2 DEF KindInv, Passes
  <2>5. at = "data" => parsed.msg.kind = "NOTIFICATION"
    BY <2>2 DEF KindInv, Passes
  <2> QED BY <2>1, <2>2, <2>3, <2>4, <2>5 DEF ShrinkerTypeOK
<1> QED BY <1>1, ShrinkSizeInv, PTL

\* Whatever was recorded and however the target answers, no message of the result is
\* longer than it was recorded, but for an UPDATE or OPEN that became the minimal one.
THEOREM NothingGrows == ShrinkSpec => []GrowsOnlyToMinimal
<1>1. IInv /\ RecordedInv /\ LoopInv /\ SizeInv => GrowsOnlyToMinimal
  <2> SUFFICES ASSUME IInv, RecordedInv, LoopInv, SizeInv, NEW k \in DOMAIN shrunk,
                      BytesSize(shrunk[k]) > BytesSize(RecordedSequence[k])
               PROVE  shrunk[k].minimal /\ BytesSize(shrunk[k]) <= 37
    BY DEF GrowsOnlyToMinimal
  <2>1. k \in 1..Len(shrunk) /\ k \in DOMAIN best /\ best \in Seq(original)
    <3>1. DOMAIN shrunk = 1..Len(shrunk) /\ Len(shrunk) \in Nat /\ Len(shrunk) <= Len(best)
      BY DEF LoopInv, IsSequence
    <3>2. DOMAIN best = 1..Len(best) /\ Len(best) \in Nat /\ best \in Seq(original)
      BY DEF IInv, TypeOK
    <3> QED BY <3>1, <3>2
  <2> DEFINE b == shrunk[k]
             r == recorded[best[k]]
  <2>2. b \in AllBytes /\ NoLonger(b, r) /\ RecordedSequence[k] = r
    BY <2>1 DEF SizeInv, RecordedSequence
  <2>3. BytesSize(r) \in Int
    <3>1. best[k] \in original
      BY <2>1
    <3>2. Recordable(r)
      BY <3>1 DEF RecordedInv
    <3> HIDE DEF r
    <3>3. BytesSize(r) = Size(r.msg) + r.extra /\ Size(r.msg) \in Nat /\ r.extra \in Nat
      BY <3>2, RecordableFacts
    <3> QED BY <3>3
  <2>4. BytesSize(b) \in Int
    <3> HIDE DEF b
    <3>1. Size(b.msg) \in Nat /\ b.extra \in Nat /\ b.cut \in Nat
      BY <2>2, SizeNat DEF AllBytes
    <3> QED BY <3>1 DEF BytesSize
  <2>5. BytesSize(b) > BytesSize(r)
    BY <2>2
  <2>6. BytesSize(b) <= BytesSize(r) \/ (b.minimal /\ BytesSize(b) <= 37)
    BY <2>2 DEF NoLonger
  <2> HIDE DEF b, r
  <2>7. ~(BytesSize(b) <= BytesSize(r))
    BY <2>3, <2>4, <2>5
  <2>8. b.minimal /\ BytesSize(b) <= 37
    BY <2>6, <2>7
  <2> QED BY <2>8 DEF b
<1> QED BY <1>1, ShrinkSizeInv, PTL

\* Attributes are taken away one by one, for any number of them: those left are in
\* the recorded order and ORIGIN, AS_PATH and NEXT_HOP are among them.
THEOREM OrderKept == ShrinkSpec => []AttributesInOrder
<1>1. SizeInv => AttributesInOrder
  BY DEF SizeInv, ParsedInv, InOrder, AttributesInOrder
<1> QED BY <1>1, ShrinkSizeInv, PTL
-----------------------------------------------------------------------------
(* Why shrink ends: delta debugging nears its end, and then so does each    *)
(* message, pass by pass                                                    *)

MessagesLeft == Len(best) - Len(shrunk)

\* The passes over one message, counted from the last one.
StagesLeft ==
  CASE at = "next" -> 7
    [] at = "attrs" -> 6
    [] at = "nlri" -> 5
    [] at \in {"withdrawn", "params", "data"} -> 4
    [] at = "minimal" -> 3
    [] at = "final" -> 2
    [] at = "tail" -> 1
    [] OTHER -> 0

\* What the pass can still try.
TriesLeft ==
  CASE at = "attrs" -> j
    [] at = "nlri" -> Len(parsed.msg.nlri)
    [] at = "withdrawn" -> Len(parsed.msg.withdrawn)
    [] at = "params" -> Len(parsed.msg.params)
    [] at = "data" -> parsed.msg.data
    [] at = "tail" -> IF BytesSize(kept) > HeaderLen THEN BytesSize(kept) ELSE 0
    [] OTHER -> 0

\* Shrinking ends its delta debugging, or has fewer messages to do, or fewer passes over
\* the message at hand, or less to try in the pass.
ShrinkNearer ==
  \/ at = "ddmin" /\ (at' # "ddmin" \/ DdminNearer)
  \/ /\ at # "ddmin" /\ at' # "ddmin"
     /\ \/ MessagesLeft' < MessagesLeft
        \/ /\ MessagesLeft' = MessagesLeft
           /\ \/ StagesLeft' < StagesLeft
              \/ StagesLeft' = StagesLeft /\ TriesLeft' < TriesLeft

LEMMA LeftNat ==
  ASSUME IInv, LoopInv, SizeInv
  PROVE  MessagesLeft \in Nat /\ StagesLeft \in Nat /\ TriesLeft \in Nat
<1>1. MessagesLeft \in Nat
  <2>1. Len(best) \in Nat /\ Len(shrunk) \in Nat /\ Len(shrunk) <= Len(best)
    BY DEF IInv, TypeOK, LoopInv, IsSequence
  <2> QED BY <2>1 DEF MessagesLeft
<1>2. StagesLeft \in Nat
  BY DEF StagesLeft
<1> SUFFICES TriesLeft \in Nat
  BY <1>1, <1>2, Zenon
<1>3. CASE at \in {"attrs", "nlri", "withdrawn", "params", "data"}
  <2>1. parsed.msg \in Messages /\ KindInv
    BY <1>3 DEF SizeInv, ParsedInv, Passes, AllBytes
  <2>2. /\ Len(parsed.msg.nlri) \in Nat /\ Len(parsed.msg.withdrawn) \in Nat
        /\ Len(parsed.msg.params) \in Nat /\ parsed.msg.data \in Nat
        /\ Len(parsed.msg.attrs) \in Nat
    BY <2>1, SMTT(20) DEF Messages
  <2>3. at = "attrs" => j \in Nat
    BY <2>1, <2>2 DEF KindInv
  <2>4. \/ at = "attrs" /\ TriesLeft = j
        \/ TriesLeft = Len(parsed.msg.nlri)
        \/ TriesLeft = Len(parsed.msg.withdrawn)
        \/ TriesLeft = Len(parsed.msg.params)
        \/ TriesLeft = parsed.msg.data
    BY <1>3 DEF TriesLeft
  <2> QED BY <2>2, <2>3, <2>4, Zenon
<1>4. CASE at = "tail"
  <2>1. kept \in AllBytes
    BY <1>4 DEF SizeInv, InMessage
  <2>2. BytesSize(kept) \in Int
    BY <2>1, SizeNat DEF BytesSize, AllBytes
  <2>3. TriesLeft = IF BytesSize(kept) > HeaderLen THEN BytesSize(kept) ELSE 0
    BY <1>4 DEF TriesLeft
  <2>4. BytesSize(kept) > HeaderLen => BytesSize(kept) \in Nat
    BY <2>2 DEF HeaderLen
  <2> DEFINE t == TriesLeft z == BytesSize(kept)
  <2>5. t = IF z > HeaderLen THEN z ELSE 0
    BY <2>3
  <2>6. (z > HeaderLen => t = z) /\ (~(z > HeaderLen) => t = 0)
    BY <2>5, Zenon
  <2> HIDE DEF t, z
  <2>7. t \in Nat
    BY <2>4, <2>6 DEF z
  <2> QED BY <2>7, Zenon DEF t
<1>5. CASE at \notin {"attrs", "nlri", "withdrawn", "params", "data", "tail"}
  <2>1. TriesLeft = 0
    BY <1>5 DEF TriesLeft
  <2>2. 0 \in Nat
    OBVIOUS
  <2> QED BY <2>1, <2>2, Zenon
<1> QED BY <1>3, <1>4, <1>5, Zenon

\* A message is done.
LEMMA MessageNearer ==
  ASSUME IInv, LoopInv, NEW b, at # "ddmin", at' = "next", shrunk' = Append(shrunk, b),
         best' = best
  PROVE  ShrinkNearer
<1>1. Len(best) \in Nat /\ Len(shrunk) \in Nat /\ Len(shrunk') = Len(shrunk) + 1
  BY AppendedSequence DEF IInv, TypeOK, LoopInv, IsSequence
<1>2. MessagesLeft = Len(best) - Len(shrunk) /\ MessagesLeft' = Len(best) - (Len(shrunk) + 1)
  BY <1>1 DEF MessagesLeft
<1>3. MessagesLeft' < MessagesLeft
  BY <1>1, <1>2
<1> QED BY <1>3, Zenon DEF ShrinkNearer

\* A pass over the message is done.
LEMMA StageNearer ==
  ASSUME UNCHANGED <<shrunk, best>>,
         \/ at = "next" /\ at' \in Passes \cup {"tail", "returned"} /\ at' # "minimal"
         \/ at = "attrs" /\ at' = "nlri"
         \/ at \in {"nlri", "withdrawn", "params", "data"} /\ at' = PassAfter(at)
         \/ at = "minimal" /\ at' = "final"
         \/ at = "final" /\ at' = "tail"
  PROVE  ShrinkNearer
<1>1. MessagesLeft' = MessagesLeft
  BY DEF MessagesLeft
<1>2. StagesLeft' < StagesLeft /\ at # "ddmin" /\ at' # "ddmin"
  BY DEF StagesLeft, Passes, PassAfter
<1> QED BY <1>1, <1>2, Zenon DEF ShrinkNearer

\* A while loop pops: its list is shorter.
LEMMA PopNearer ==
  ASSUME NEW b \in AllBytes, NEW list \in {"nlri", "withdrawn", "params", "data"},
         ~Empty(b, list), NEW c, c = Pop(b, list)
  PROVE  /\ list # "data" => Len(c.msg[list]) < Len(b.msg[list])
         /\ list = "data" => c.msg.data < b.msg.data
<1> DEFINE m == b.msg
<1>1. m \in Messages
  BY DEF AllBytes
<1>2. CASE list = "nlri"
  <2>1. m.nlri # <<>> /\ c.msg.nlri = Front(m.nlri) /\ m.nlri \in Seq(Nat)
    BY <1>1, <1>2 DEF Empty, Pop, AllBytes, Messages
  <2>2. Len(Front(m.nlri)) = Len(m.nlri) - 1 /\ Len(m.nlri) \in Nat
    BY <2>1, FrontOf
  <2> QED BY <1>2, <2>1, <2>2
<1>3. CASE list = "withdrawn"
  <2>1. m.withdrawn # <<>> /\ c.msg.withdrawn = Front(m.withdrawn) /\ m.withdrawn \in Seq(Nat)
    BY <1>1, <1>3 DEF Empty, Pop, AllBytes, Messages
  <2>2. Len(Front(m.withdrawn)) = Len(m.withdrawn) - 1 /\ Len(m.withdrawn) \in Nat
    BY <2>1, FrontOf
  <2> QED BY <1>3, <2>1, <2>2
<1>4. CASE list = "params"
  <2>1. m.params # <<>> /\ c.msg.params = Front(m.params) /\ m.params \in Seq(Parameters)
    BY <1>1, <1>4 DEF Empty, Pop, AllBytes, Messages
  <2>2. Len(Front(m.params)) = Len(m.params) - 1 /\ Len(m.params) \in Nat
    BY <2>1, FrontOf
  <2> QED BY <1>4, <2>1, <2>2
<1>5. CASE list = "data"
  <2>1. c.msg.data = m.data - 1 /\ m.data \in Nat
    BY <1>1, <1>5 DEF Empty, Pop, AllBytes, Messages
  <2> QED BY <1>5, <2>1
<1> QED BY <1>2, <1>3, <1>4, <1>5

\* A pass goes on with less to try.
LEMMA TriesNearer ==
  ASSUME UNCHANGED <<shrunk, best, at>>, at # "ddmin", TriesLeft' < TriesLeft
  PROVE  ShrinkNearer
<1>1. MessagesLeft' = MessagesLeft
  BY DEF MessagesLeft
<1>2. StagesLeft' = StagesLeft
  BY DEF StagesLeft
<1> QED BY <1>1, <1>2, Zenon DEF ShrinkNearer

LEMMA PassNearer ==
  ASSUME IInv, LoopInv, SizeInv, TryAttribute \/ PopLast \/ TryTail
  PROVE  ShrinkNearer
<1>1. CASE TryAttribute
  <2>1. at = "attrs" /\ at' = at /\ j' = j - 1 /\ shrunk' = shrunk /\ best' = best
    BY <1>1 DEF TryAttribute, vars
  <2>2. j \in Int
    BY <2>1 DEF SizeInv, KindInv, Passes
  <2>3. TriesLeft' < TriesLeft
    BY <2>1, <2>2 DEF TriesLeft
  <2> QED BY <2>1, <2>3, TriesNearer
<1>2. CASE PopLast
  <2>1. at \in {"nlri", "withdrawn", "params", "data"} /\ shrunk' = shrunk /\ best' = best
    BY <1>2 DEF PopLast, vars
  <2>2. \/ at' = PassAfter(at)
        \/ at' = at /\ ~Empty(parsed, at) /\ parsed' = Pop(parsed, at)
    BY <1>2, Zenon DEF PopLast, Test
  <2>3. ASSUME at' = at, ~Empty(parsed, at), parsed' = Pop(parsed, at) PROVE TriesLeft' < TriesLeft
    <3>1. parsed \in AllBytes
      BY <2>1 DEF SizeInv, ParsedInv, Passes
    <3>2. /\ at # "data" => Len(parsed'.msg[at]) < Len(parsed.msg[at])
          /\ at = "data" => parsed'.msg.data < parsed.msg.data
      BY <2>1, <2>3, <3>1, PopNearer, Zenon
    <3>3. CASE at = "data"
      BY <2>3, <3>2, <3>3 DEF TriesLeft
    <3>4. CASE at # "data"
      <4>1. TriesLeft = Len(parsed.msg[at]) /\ TriesLeft' = Len(parsed'.msg[at])
        BY <2>1, <2>3, <3>4 DEF TriesLeft
      <4> QED BY <3>2, <3>4, <4>1, Zenon
    <3> QED BY <3>3, <3>4
  <2> QED BY <2>1, <2>2, <2>3, TriesNearer, StageNearer
<1>3. CASE TryTail
  <2> DEFINE shorter == [kept EXCEPT !.cut = @ + 1]
  <2>1. at = "tail" /\ best' = best /\ BytesSize(kept) > HeaderLen
    BY <1>3 DEF TryTail, vars
  <2>2. \/ at' = at /\ shrunk' = shrunk /\ kept' = shorter
        \/ at' = "next" /\ shrunk' = Append(shrunk, kept)
    BY <1>3 DEF TryTail, Test
  <2>3. ASSUME at' = at, kept' = shorter PROVE TriesLeft' < TriesLeft
    <3> DEFINE k == Size(kept.msg) e == kept.extra u == kept.cut
    <3>1. kept \in AllBytes
      BY <2>1 DEF SizeInv, InMessage
    <3>2. k \in Nat /\ e \in Nat /\ u \in Nat
      BY <3>1, SizeNat DEF AllBytes
    <3>3. kept'.msg = kept.msg /\ kept'.extra = kept.extra /\ kept'.cut = u + 1
      BY <2>3, <3>1 DEF AllBytes
    <3>4. BytesSize(kept) = k + e - u /\ BytesSize(kept') = k + e - (u + 1)
      BY <3>3 DEF BytesSize
    <3>5. TriesLeft = BytesSize(kept)
          /\ TriesLeft' = IF BytesSize(kept') > HeaderLen THEN BytesSize(kept') ELSE 0
      BY <2>1, <2>3 DEF TriesLeft
    <3> HIDE DEF k, e, u
    <3> QED BY <2>1, <3>2, <3>4, <3>5 DEF HeaderLen
  <2> HIDE DEF shorter
  <2> QED BY <2>1, <2>2, <2>3, TriesNearer, MessageNearer
<1> QED BY <1>1, <1>2, <1>3

LEMMA ShrinkStepNearer ==
  ASSUME IInv, LoopInv, SizeInv, Shrink
  PROVE  ShrinkNearer
<1>1. CASE DdminStep
  <2>1. at = "ddmin" /\ DdminNearer
    BY <1>1, DdminStepNearer DEF DdminStep
  <2> QED BY <2>1, Zenon DEF ShrinkNearer
<1>2. CASE DdminReturns
  BY <1>2 DEF DdminReturns, ShrinkNearer
<1>3. CASE KeepTheRest \/ TailDone
  <2>1. \E b : at # "ddmin" /\ at' = "next" /\ shrunk' = Append(shrunk, b) /\ best' = best
    BY <1>3 DEF KeepTheRest, TailDone, vars
  <2> QED BY <2>1, MessageNearer
<1>4. CASE BeginMessage
  <2>1. /\ at = "next" /\ shrunk' = shrunk /\ best' = best
        /\ at' = "tail" \/ \E m : at' = FirstPass(m)
    BY <1>4 DEF BeginMessage, vars
  <2>2. at' \in {"tail", "attrs", "params", "data", "final"}
    BY <2>1 DEF FirstPass
  <2> QED BY <2>1, <2>2, StageNearer DEF Passes
<1>5. CASE AttributesDone \/ TryMinimal \/ TryFinal \/ Return
  <2>1. /\ shrunk' = shrunk /\ best' = best
        /\ \/ at = "attrs" /\ at' = "nlri"
           \/ at = "minimal" /\ at' = "final"
           \/ at = "final" /\ at' = "tail"
           \/ at = "next" /\ at' = "returned"
    BY <1>5 DEF AttributesDone, TryMinimal, TryFinal, Return, vars
  <2> QED BY <2>1, StageNearer
<1>6. CASE TryAttribute \/ PopLast \/ TryTail
  BY <1>6, PassNearer
<1> QED BY <1>1, <1>2, <1>3, <1>4, <1>5, <1>6 DEF Shrink

\* The two clocks leave the measure alone.
LEMMA ClocksKeep ==
  ASSUME Overtime \/ DdminTimeOut
  PROVE  UNCHANGED <<at, Len(best), ChunkSize, granularity, RoundLeft,
                     MessagesLeft, StagesLeft, TriesLeft>>
<1>1. CASE Overtime
  BY <1>1 DEF Overtime, vars, messageVars, ChunkSize, RoundLeft, MessagesLeft, StagesLeft,
              TriesLeft
<1>2. CASE DdminTimeOut
  BY <1>2 DEF DdminTimeOut, TimeOut, messageVars, ChunkSize, RoundLeft, MessagesLeft,
              StagesLeft, TriesLeft
<1> QED BY <1>1, <1>2

\* For recordings of any length and messages of any size, and whatever the target
\* answers: after delta debugging, each call of verify and each end of a loop lowers the
\* messages left, or else the passes left over the message, or else what the pass can still
\* try.  All are naturals, so shrink ends; the clocks change none of them.
THEOREM ShrinkerNearsItsEnd ==
  ShrinkSpec => /\ [](MessagesLeft \in Nat /\ StagesLeft \in Nat /\ TriesLeft \in Nat)
                /\ [][Shrink => ShrinkNearer]_svars
                /\ [][Overtime \/ DdminTimeOut =>
                        UNCHANGED <<at, Len(best), ChunkSize, granularity, RoundLeft,
                                    MessagesLeft, StagesLeft, TriesLeft>>]_svars
<1>1. IInv /\ LoopInv /\ SizeInv => [Shrink => ShrinkNearer]_svars
  BY ShrinkStepNearer
<1>2. [Overtime \/ DdminTimeOut =>
         UNCHANGED <<at, Len(best), ChunkSize, granularity, RoundLeft,
                     MessagesLeft, StagesLeft, TriesLeft>>]_svars
  BY ClocksKeep
<1> QED BY <1>1, <1>2, LeftNat, ShrinkSizeInv, PTL DEF ShrinkSpec
=============================================================================
