------------------------------ MODULE Reducer ------------------------------
(***************************************************************************)
(* What a shrinker promises: it starts from the whole recorded sequence    *)
(* and only ever gives up messages, moving to a smaller set of them when   *)
(* that smaller set has been seen to trigger the bug.  Messages are named  *)
(* by their positions in the recording.                                    *)
(***************************************************************************)
VARIABLES original,   \* the positions of the recording
          core,       \* the positions the bug needs, unknown to the shrinker
          flaky,      \* whether the target may answer either way
          kept        \* the positions still kept

vars == <<original, core, flaky, kept>>

Reproduces(positions) == flaky \/ core \subseteq positions

Init == kept = original

GiveUp ==
  /\ \E smaller \in SUBSET kept :
       /\ smaller # {}
       /\ Reproduces(smaller)
       /\ kept' = smaller
  /\ UNCHANGED <<original, core, flaky>>

Spec == Init /\ [][GiveUp]_vars
=============================================================================
