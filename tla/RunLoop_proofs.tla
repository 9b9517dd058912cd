--------------------------- MODULE RunLoop_proofs ---------------------------
(***************************************************************************)
(* Proofs about the loop of a run, for batches, findings and attempts of   *)
(* any number: its types, and why it ends once ctrl-c or the duration has  *)
(* stopped it.  That a step is taken is fairness and stays with TLC.       *)
(***************************************************************************)
EXTENDS RunLoop, TLAPS

\* Findings are being reported only while there are some, a batch is only in
\* progress during a session.
LoopInv ==
  /\ TypeOK
  /\ pc = "report" => todo > 0
  /\ pc # "connecting" => attempt = 0

LEMMA LoopInit == Init => LoopInv
<1> SUFFICES ASSUME Init PROVE LoopInv
  OBVIOUS
<1>1. 0 \in 0..(MaxAttempts - 1) /\ 0 \in 0..MaxBatch /\ 0 \in 0..MaxFindings
  BY RunLoopAssumption
<1>2. TypeOK
  BY <1>1 DEF Init, TypeOK
<1> QED BY <1>2 DEF Init, LoopInv

LEMMA LoopStep == LoopInv /\ [Next]_vars => LoopInv'
<1> SUFFICES ASSUME LoopInv, [Next]_vars PROVE LoopInv'
  OBVIOUS
<1> USE RunLoopAssumption
<1>1. CASE Iterate \/ Finish \/ Connected \/ Refused
  BY <1>1 DEF LoopInv, TypeOK, Iterate, Finish, Connected, Refused, flags
<1>2. CASE Handshaken \/ EndSession \/ Take \/ Written \/ WriteFails
  BY <1>2 DEF LoopInv, TypeOK, Handshaken, EndSession, Take, Written, WriteFails, flags
<1>3. CASE Judged
  BY <1>3 DEF LoopInv, TypeOK, Judged, flags
<1>4. CASE Reported \/ Panics
  BY <1>4 DEF LoopInv, TypeOK, Reported, Panics, flags
<1>5. CASE CtrlC \/ DurationPasses
  BY <1>5 DEF LoopInv, TypeOK, CtrlC, DurationPasses
<1>6. CASE Done \/ UNCHANGED vars
  BY <1>6 DEF LoopInv, TypeOK, Done, vars
<1> QED BY <1>1, <1>2, <1>3, <1>4, <1>5, <1>6 DEF Next, Session

LEMMA LoopInvAlways == Spec => []LoopInv
BY LoopInit, LoopStep, PTL DEF Spec

\* For any number of attempts, messages of a batch and findings: the counters of
\* the loop stay in their range.
THEOREM RunLoopTypes == Spec => []TypeOK
<1>1. LoopInv => TypeOK
  BY DEF LoopInv
<1> QED BY <1>1, LoopInvAlways, PTL

-----------------------------------------------------------------------------
(* Why a stopped run ends *)

\* The most steps a message costs: it is taken, written, judged and reported.
Cost == MaxFindings + 4

\* The most steps the task still takes once it has been told to stop.
StepsLeft ==
  CASE pc = "connecting" -> 3 + MaxBatch * Cost + (MaxAttempts - attempt)
    [] pc = "handshake" -> 3 + MaxBatch * Cost
    [] pc = "write" -> 4 + MaxFindings + left * Cost
    [] pc = "read" -> 3 + MaxFindings + left * Cost
    [] pc = "report" -> 2 + todo + left * Cost
    [] pc = "send" -> 2 + left * Cost
    [] pc = "loop" -> 1
    [] pc \in {"done", "panicked"} -> 0

LEMMA CostNat == Cost \in Nat /\ Cost = MaxFindings + 4
BY RunLoopAssumption DEF Cost

\* What is left of a batch costs at most as much as a whole one.
LEMMA BatchCost ==
  /\ \A n \in Nat : n * Cost \in Nat
  /\ \A n \in Nat : n > 0 => n * Cost = (n - 1) * Cost + Cost
  /\ \A n \in 0..MaxBatch : n * Cost <= MaxBatch * Cost
<1>1. Cost \in Nat /\ MaxBatch \in Nat
  BY CostNat, RunLoopAssumption
<1> DEFINE c == Cost
           b == MaxBatch
<1> HIDE DEF c, b
<1>2. c \in Nat /\ b \in Nat
  BY <1>1 DEF c, b
<1>3. \A n \in Nat : n * c \in Nat
  BY <1>2
<1>4. \A n \in Nat : n > 0 => n * c = (n - 1) * c + c
  BY <1>2
<1>5. \A n \in 0..b : n * c <= b * c
  BY <1>2
<1> QED BY <1>3, <1>4, <1>5 DEF c, b

LEMMA StepsLeftNat == LoopInv => StepsLeft \in Nat
<1> SUFFICES ASSUME LoopInv PROVE StepsLeft \in Nat
  OBVIOUS
<1> DEFINE whole == MaxBatch * Cost
           rest == left * Cost
<1>1. whole \in Nat /\ rest \in Nat
  BY BatchCost, RunLoopAssumption DEF LoopInv, TypeOK
<1> HIDE DEF whole, rest
<1>2. StepsLeft =
        CASE pc = "connecting" -> 3 + whole + (MaxAttempts - attempt)
          [] pc = "handshake" -> 3 + whole
          [] pc = "write" -> 4 + MaxFindings + rest
          [] pc = "read" -> 3 + MaxFindings + rest
          [] pc = "report" -> 2 + todo + rest
          [] pc = "send" -> 2 + rest
          [] pc = "loop" -> 1
          [] pc \in {"done", "panicked"} -> 0
  BY DEF StepsLeft, whole, rest
<1> QED BY <1>1, <1>2, RunLoopAssumption DEF LoopInv, TypeOK

\* One step of the task, once it has been told to stop.
LEMMA StoppedStep == LoopInv /\ LoopInv' /\ Stop /\ Session => StepsLeft' < StepsLeft
<1> SUFFICES ASSUME LoopInv, LoopInv', Stop, Session PROVE StepsLeft' < StepsLeft
  OBVIOUS
<1> DEFINE whole == MaxBatch * Cost
           rest == left * Cost
           rest1 == left' * Cost
<1>1. /\ whole \in Nat /\ rest \in Nat /\ rest1 \in Nat
      /\ rest <= whole /\ rest1 <= whole
      /\ left' = left => rest1 = rest
      /\ left > 0 /\ left' = left - 1 => rest = rest1 + MaxFindings + 4
  <2>1. left \in 0..MaxBatch /\ left' \in 0..MaxBatch /\ MaxBatch \in Nat
    BY RunLoopAssumption DEF LoopInv, TypeOK
  <2>2. /\ whole \in Nat /\ rest \in Nat /\ rest1 \in Nat
        /\ rest <= whole /\ rest1 <= whole /\ (left' = left => rest1 = rest)
    BY <2>1, BatchCost
  <2>3. ASSUME left > 0, left' = left - 1 PROVE rest = rest1 + MaxFindings + 4
    <3>1. rest = rest1 + Cost
      BY <2>1, <2>3, BatchCost
    <3> HIDE DEF rest, rest1
    <3> QED BY <2>2, <3>1, CostNat, RunLoopAssumption
  <2> QED BY <2>2, <2>3
<1>2. StepsLeft =
        CASE pc = "connecting" -> 3 + whole + (MaxAttempts - attempt)
          [] pc = "handshake" -> 3 + whole
          [] pc = "write" -> 4 + MaxFindings + rest
          [] pc = "read" -> 3 + MaxFindings + rest
          [] pc = "report" -> 2 + todo + rest
          [] pc = "send" -> 2 + rest
          [] pc = "loop" -> 1
          [] pc \in {"done", "panicked"} -> 0
  BY DEF StepsLeft
<1>3. StepsLeft' =
        CASE pc' = "connecting" -> 3 + whole + (MaxAttempts - attempt')
          [] pc' = "handshake" -> 3 + whole
          [] pc' = "write" -> 4 + MaxFindings + rest1
          [] pc' = "read" -> 3 + MaxFindings + rest1
          [] pc' = "report" -> 2 + todo' + rest1
          [] pc' = "send" -> 2 + rest1
          [] pc' = "loop" -> 1
          [] pc' \in {"done", "panicked"} -> 0
  BY DEF StepsLeft
<1> HIDE DEF whole, rest, rest1
<1> USE RunLoopAssumption, <1>1, <1>2, <1>3 DEF LoopInv, TypeOK, flags
<1>4. CASE Iterate
  BY <1>4 DEF Iterate
<1>5. CASE Finish \/ Connected \/ Refused
  BY <1>5 DEF Finish, Connected, Refused
<1>6. CASE Handshaken
  BY <1>6 DEF Handshaken
<1>7. CASE EndSession
  BY <1>7 DEF EndSession
<1>8. CASE Take
  BY <1>8 DEF Take
<1>9. CASE Written \/ WriteFails
  BY <1>9 DEF Written, WriteFails
<1>10. CASE Judged
  BY <1>10 DEF Judged
<1>11. CASE Reported \/ Panics
  BY <1>11 DEF Reported, Panics
<1> QED BY <1>4, <1>5, <1>6, <1>7, <1>8, <1>9, <1>10, <1>11 DEF Session

\* Ctrl-c, the clock and the end itself leave the number of steps as it is.
LEMMA OtherStep ==
  Stop /\ (CtrlC \/ DurationPasses \/ Done \/ UNCHANGED vars) => StepsLeft' = StepsLeft
BY DEF CtrlC, DurationPasses, Done, vars, StepsLeft, Cost

\* Told to stop by ctrl-c or by the clock, the task stays told, and each step it takes,
\* whatever the peer does, brings it nearer to its end: no message, no finding and no
\* attempt is added after that, so only a bounded number of steps is left.
NearsItsEnd ==
  Stop => /\ Stop'
          /\ StepsLeft' <= StepsLeft
          /\ Session => StepsLeft' < StepsLeft

THEOREM StoppedRunNearsItsEnd == Spec => [](StepsLeft \in Nat) /\ [][NearsItsEnd]_vars
<1>1. LoopInv => StepsLeft \in Nat
  BY StepsLeftNat
<1>2. LoopInv /\ [Next]_vars => [NearsItsEnd]_vars
  <2> SUFFICES ASSUME LoopInv, Next, Stop
               PROVE  Stop' /\ StepsLeft' <= StepsLeft
                            /\ (Session => StepsLeft' < StepsLeft)
    BY DEF NearsItsEnd
  <2>1. LoopInv'
    BY LoopStep
  <2>2. StepsLeft \in Nat /\ StepsLeft' \in Nat
    <3>1. LoopInv' => (StepsLeft \in Nat)'
      BY StepsLeftNat, PTL
    <3> QED BY <2>1, <3>1, StepsLeftNat
  <2>3. Stop'
    BY DEF Next, Session, Stop, flags, Iterate, Finish, Connected, Refused, Handshaken,
           EndSession, Take, Written, WriteFails, Judged, Reported, Panics,
           CtrlC, DurationPasses, Done, vars
  <2>4. Session => StepsLeft' < StepsLeft
    BY <2>1, StoppedStep
  <2>5. CtrlC \/ DurationPasses \/ Done => StepsLeft' = StepsLeft
    BY OtherStep
  <2> QED BY <2>2, <2>3, <2>4, <2>5 DEF Next
<1> QED BY <1>1, <1>2, LoopInvAlways, PTL DEF Spec
=============================================================================
