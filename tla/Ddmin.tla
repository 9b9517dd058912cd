------------------------------- MODULE Ddmin -------------------------------
(***************************************************************************)
(* Shrinker::delta_debug_sequence of bgp-fuzz-driver: delta debugging of a *)
(* recorded message sequence against a verifier that replays a candidate   *)
(* to the target.                                                          *)
(*                                                                         *)
(* A message is its position in the recording.  An action is the code      *)
(* between two calls of verify: Begin is the head of the while loop, Try   *)
(* one round of the for loop with its verdict, Panic the slice             *)
(* best[..start] with start past the end, Exhausted what follows a for     *)
(* loop that found nothing.                                                *)
(***************************************************************************)
EXTENDS Integers, Sequences

CONSTANT MaxMessages   \* bound: messages in the recording

ASSUME DdminAssumption == MaxMessages \in Nat

VARIABLES
  original,     \* the positions of the recording
  core,         \* the positions the bug needs
  flaky,        \* whether the target's verdicts may vary
  best,         \* the candidate kept, a sequence of positions
  granularity,
  i,            \* the chunk the for loop is at
  timed_out,    \* total_timeout has passed
  pc            \* "while", "for", "done" or "panicked"

vars == <<original, core, flaky, best, granularity, i, timed_out, pc>>

Positions(seq) == {seq[k] : k \in DOMAIN seq}

Init ==
  /\ \E n \in 0..MaxMessages :
       /\ best = [k \in 1..n |-> k]
       /\ original = 1..n
       /\ core \in SUBSET (1..n)
       /\ pc = IF n < 2 THEN "done" ELSE "while"
  /\ flaky \in BOOLEAN
  /\ granularity = 2
  /\ i = 0
  /\ timed_out = FALSE

-----------------------------------------------------------------------------
DivCeil(a, b) == (a + b - 1) \div b

ChunkSize == DivCeil(Len(best), granularity)

Start == i * ChunkSize

Rotated(seq, a, c) ==        \* slip: the two slices are chained the wrong way
  SubSeq(seq, a + c + 1, Len(seq)) \o SubSeq(seq, 1, a)

\* seq without the c elements after the first a.
Cut(seq, a, c) == SubSeq(seq, 1, a) \o SubSeq(seq, a + c + 1, Len(seq))

\* best without chunk i (Rust's slices are 0-based, sequences 1-based).
Candidate == Cut(best, Start, ChunkSize)

\* A deterministic target fails when every message the bug needs is there; a
\* flaky one answers either way.
Verdicts(candidate) ==
  IF flaky THEN BOOLEAN ELSE {core \subseteq Positions(candidate)}

Begin ==
  /\ pc = "while"
  /\ IF Len(best) < 2 \/ timed_out THEN pc' = "done" ELSE pc' = "for"
  /\ i' = 0
  /\ UNCHANGED <<original, core, flaky, best, granularity, timed_out>>

CoarserToOne(g) == IF g > 1 THEN g - 1 ELSE 1     \* slip: max(1)

\* granularity.saturating_sub(1).max(2)
Coarser(g) == IF g > 2 THEN g - 1 ELSE 2

AcceptAnything(verdict) == TRUE     \* slip: the verdict is ignored

Accept(verdict) == verdict

\* verify the candidate; keep it if the bug is still there.
Try ==
  /\ pc = "for" /\ i < granularity /\ Start <= Len(best)
  /\ \E verdict \in Verdicts(Candidate) :
       IF Accept(verdict)
       THEN /\ best' = Candidate
            /\ granularity' = Coarser(granularity)
            /\ pc' = "while"
            /\ UNCHANGED i
       ELSE /\ i' = i + 1
            /\ UNCHANGED <<best, granularity, pc>>
  /\ UNCHANGED <<original, core, flaky, timed_out>>

\* best[..start] is out of bounds.
Panic ==
  /\ pc = "for" /\ i < granularity /\ Start > Len(best)
  /\ pc' = "panicked"
  /\ UNCHANGED <<original, core, flaky, best, granularity, i, timed_out>>

NeverGiveUp ==         \* slip: the granularity is not compared with the length
  /\ pc = "for" /\ i = granularity
  /\ granularity' = IF granularity * 2 > Len(best) THEN granularity
                    ELSE granularity * 2
  /\ pc' = "while"
  /\ UNCHANGED <<original, core, flaky, best, i, timed_out>>

\* No chunk could go: refine, or stop when chunks cannot get smaller.
Exhausted ==
  /\ pc = "for" /\ i = granularity
  /\ IF granularity * 2 > Len(best)
     THEN pc' = "done" /\ UNCHANGED granularity
     ELSE pc' = "while" /\ granularity' = granularity * 2
  /\ UNCHANGED <<original, core, flaky, best, i, timed_out>>

Loop == Begin \/ Try \/ Panic \/ Exhausted

\* total_timeout passes, most likely while verify waits for the target.
TimeOut ==
  /\ ~timed_out
  /\ timed_out' = TRUE
  /\ UNCHANGED <<original, core, flaky, best, granularity, i, pc>>

Stopped == pc \in {"done", "panicked"} /\ UNCHANGED vars

Next == Loop \/ TimeOut \/ Stopped

\* verify returns, so the loop keeps going; the clock need not reach the
\* timeout for it to end.
Spec == Init /\ [][Next]_vars /\ WF_vars(Loop)
-----------------------------------------------------------------------------
(* Properties *)

TypeOK ==
  /\ original \subseteq 1..MaxMessages
  /\ core \subseteq original
  /\ flaky \in BOOLEAN
  /\ best \in Seq(original)
  /\ Len(best) <= MaxMessages
  /\ granularity \in Nat /\ granularity >= 2
  /\ i \in 0..granularity
  /\ timed_out \in BOOLEAN
  /\ pc \in {"while", "for", "done", "panicked"}

\* Whatever is cut out, and at whatever granularity, the messages left are in
\* their recorded order, none twice: the reproducer is a subsequence.
BestIsASubsequence ==
  \A j, k \in DOMAIN best : j < k => best[j] < best[k]

\* Delta debugging never empties the sequence, however the target answers.
NeverEmptied == original # {} => best # <<>>

Shrinking == INSTANCE Reducer WITH kept <- Positions(best)

\* The loop only ever moves to a nonempty set of messages that was seen to
\* trigger the bug; if the target answers consistently, that still triggers it.
ImplementsReducer == Shrinking!Spec

\* "ddmin should preserve full sequence when all are needed", for any length:
\* the shrinker returns what it was given when nothing can go.
PreservesWhenAllNeeded ==
  ~flaky /\ core = original => pc # "panicked" /\ Positions(best) = original
=============================================================================
