------------------------- MODULE TcpVerifier_proofs -------------------------
(* Theorems about TcpVerifier, for candidates of any length and any number of *)
(* retries.                                                                   *)
EXTENDS TcpVerifier, SequenceTheorems, TLAPS

-----------------------------------------------------------------------------
(* What a connection brings the target                                     *)

\* The k-th message of a connection: the handshake's, then the candidate's.
Expected(k) == IF k <= 2 THEN k - 3 ELSE k - 2

InputInv ==
  /\ candidate \in 0..MaxLen
  /\ bug \in {"ConnectionReset", "PeerClosed", "Error"}
  /\ trigger \in SUBSET Messages
  /\ hangup \in 0..MaxLen
  /\ slow \in BOOLEAN /\ leftover \in BOOLEAN /\ (leftover => slow)

WireInv ==
  /\ wire \in Seq(Int)
  /\ Len(wire) <= candidate + 2
  /\ \A k \in DOMAIN wire : wire[k] = Expected(k)

\* How far the replay is: on an open connection everything up to next was written.
ProgressInv ==
  /\ pc \in {"handshake", "drain"} => next = 1 /\ Len(wire) <= 2
  /\ pc = "write" /\ conn = "open" => Len(wire) = next + 1
  /\ pc = "read" => next <= candidate /\ (conn = "open" => Len(wire) = next + 2)
  /\ pc \in {"handshake", "drain", "write", "read"} => conn # "none"
  /\ pc = "connect" => refused < ConnectRetries

\* The target goes down, now or later, only if this candidate or an earlier one
\* makes it, and hangs up only on a message of the candidate; a reset without a
\* crash takes a slow target.
TargetInv ==
  /\ due => CandidateCrashes \/ leftover
  /\ conn = "reset" => CandidateCrashes \/ leftover \/ (slow /\ hangup \in 1..candidate)
  /\ conn = "closed" => hangup \in 1..candidate

\* Only a slow target is ever behind by more than the message just written.
Lockstep ==
  ~slow =>
    /\ pc \in {"connect", "sleep", "returned"} => conn = "none"
    /\ pc \in {"handshake", "write"} /\ conn = "open" => taken = Len(wire) /\ unread = FALSE
    /\ pc \in {"drain", "read"} /\ conn = "open" =>
         taken + 1 >= Len(wire) /\ unread \in BOOLEAN /\ (unread => taken = Len(wire))

VInv == TypeOK /\ InputInv /\ WireInv /\ ProgressInv /\ TargetInv /\ TrueOnlyIfTriggered

LEMMA AppendedPrefix ==
  ASSUME NEW seq \in Seq(Int), NEW e, NEW n \in 0..Len(seq)
  PROVE  SubSeq(Append(seq, e), 1, n) = SubSeq(seq, 1, n)
<1> DEFINE S == Int \cup {e}
           t == Append(seq, e)
<1>1. seq \in Seq(S) /\ e \in S
  OBVIOUS
<1> HIDE DEF S
<1>2. t \in Seq(S) /\ Len(t) = Len(seq) + 1 /\ \A k \in 1..Len(seq) : t[k] = seq[k]
  BY <1>1
<1> HIDE DEF t
<1>3. SubSeq(t, 1, n) \in Seq(S) /\ Len(SubSeq(t, 1, n)) = n
      /\ \A k \in 1..n : SubSeq(t, 1, n)[k] = t[k]
  BY <1>2
<1>4. SubSeq(seq, 1, n) \in Seq(S) /\ Len(SubSeq(seq, 1, n)) = n
      /\ \A k \in 1..n : SubSeq(seq, 1, n)[k] = seq[k]
  BY <1>1
<1>5. \A k \in 1..n : SubSeq(t, 1, n)[k] = SubSeq(seq, 1, n)[k]
  BY <1>2, <1>3, <1>4
<1> QED BY <1>3, <1>4, <1>5, SeqEqual DEF t

\* What is written next on an open connection is what the replay expects.
LEMMA WireGrows ==
  ASSUME WireInv, InputInv, NEW m, m = Expected(Len(wire) + 1), Len(wire) < candidate + 2,
         wire' = Append(wire, m), candidate' = candidate
  PROVE  WireInv' /\ Len(wire') = Len(wire) + 1
<1>1. wire \in Seq(Int) /\ Len(wire) \in Nat /\ candidate \in Int
  BY VerifierAssumption DEF WireInv, InputInv
<1>2. m \in Int
  BY <1>1 DEF Expected
<1>3. /\ wire' \in Seq(Int) /\ Len(wire') = Len(wire) + 1
      /\ \A k \in 1..Len(wire) : wire'[k] = wire[k]
      /\ wire'[Len(wire) + 1] = m
  BY <1>1, <1>2
<1>4. \A k \in DOMAIN wire' : wire'[k] = Expected(k)
  BY <1>1, <1>3 DEF WireInv
<1> QED BY <1>1, <1>3, <1>4 DEF WireInv

\* A target that crashes on a part of a connection crashes on the candidate.
LEMMA CrashIsTheCandidates ==
  ASSUME WireInv, InputInv, NEW n \in 1..Len(wire), Crashes(SubSeq(wire, 1, n))
  PROVE  CandidateCrashes
<1> DEFINE seq == SubSeq(wire, 1, n)
<1>1. wire \in Seq(Int) /\ Len(wire) \in Nat /\ candidate \in Nat /\ MaxLen \in Nat
  BY VerifierAssumption DEF WireInv, InputInv
<1>2. DOMAIN seq = 1..n /\ \A k \in 1..n : seq[k] = wire[k]
  BY <1>1
<1> HIDE DEF seq
<1>3. ASSUME NEW m \in trigger PROVE m \in 1..candidate
  <2>1. PICK k \in 1..n : m = seq[k]
    BY <1>2 DEF Crashes, ToSet, seq
  <2>2. m = Expected(k) /\ k \in 1..(candidate + 2)
    BY <1>1, <1>2, <2>1 DEF WireInv
  <2>3. m \in 1..MaxLen
    BY DEF InputInv, Messages
  <2> QED BY <1>1, <2>2, <2>3 DEF Expected
<1> QED BY <1>3 DEF CandidateCrashes, Crashes

LEMMA WholeWire ==
  ASSUME WireInv, Crashes(wire)
  PROVE  Len(wire) \in 1..Len(wire) /\ Crashes(SubSeq(wire, 1, Len(wire)))
<1>1. wire \in Seq(Int) /\ Len(wire) \in Nat
  BY DEF WireInv
<1>2. Len(wire) # 0
  <2>1. \E k \in DOMAIN wire : TRUE
    <3>1. trigger # {} /\ trigger \subseteq {wire[k] : k \in DOMAIN wire}
      BY DEF Crashes, ToSet
    <3> QED BY <3>1
  <2>2. DOMAIN wire = 1..Len(wire)
    BY <1>1
  <2> QED BY <1>1, <2>1, <2>2
<1>3. SubSeq(wire, 1, Len(wire)) = wire
  BY <1>1
<1>4. Crashes(SubSeq(wire, 1, Len(wire)))
  BY <1>3 DEF Crashes
<1>5. Len(wire) \in 1..Len(wire)
  BY <1>1, <1>2
<1> QED BY <1>4, <1>5

-----------------------------------------------------------------------------
(* The inductive invariant                                                 *)

LEMMA InitVInv == Init => VInv
<1> SUFFICES ASSUME Init PROVE VInv
  OBVIOUS
<1>1. MaxLen \in Nat /\ MaxRetries \in Nat \ {0} /\ candidate \in Nat
  BY VerifierAssumption DEF Init
<1>2. Len(wire) = 0 /\ wire \in Seq(Int) /\ DOMAIN wire = {}
  BY DEF Init
<1>3. InputInv
  BY Zenon DEF Init, InputInv
<1>4. TypeOK
  BY <1>1, <1>2 DEF Init, TypeOK, ConnectRetries
<1>5. WireInv
  BY <1>1, <1>2 DEF WireInv
<1>6. ProgressInv /\ TargetInv /\ TrueOnlyIfTriggered
  BY DEF Init, ProgressInv, TargetInv, TrueOnlyIfTriggered, ConnectRetries
<1> QED BY <1>3, <1>4, <1>5, <1>6 DEF VInv

LEMMA Inputs == [Next]_vars => UNCHANGED <<callerVars, targetVars>>
<1> SUFFICES ASSUME [Next]_vars PROVE UNCHANGED <<callerVars, targetVars>>
  OBVIOUS
<1>1. CASE Verify
  BY <1>1 DEF Verify, Connect, Refused, WriteHandshake, DrainHandshake, WriteMessage,
              ReadMessage, ReplayOver, NextAttempt
<1>2. CASE TakeIn \/ LateCrash \/ Restart \/ UNCHANGED vars
  BY <1>2 DEF TakeIn, LateCrash, Restart, vars
<1> QED BY <1>1, <1>2 DEF Next

LEMMA InputStep == InputInv /\ [Next]_vars => InputInv'
BY Inputs DEF InputInv, callerVars, targetVars

\* Leaving a connection, however the attempt ended.
LEMMA LeaveStep ==
  ASSUME VInv, Leave, UNCHANGED <<callerVars, targetVars>>
  PROVE  TargetInv'
<1>1. conn' = "none" /\ (due' => due \/ Crashes(wire))
  BY DEF Leave
<1>2. Crashes(wire) => CandidateCrashes
  BY WholeWire, CrashIsTheCandidates DEF VInv
<1>3. CandidateCrashes' = CandidateCrashes /\ leftover' = leftover
  BY DEF CandidateCrashes, callerVars, targetVars
<1> QED BY <1>1, <1>2, <1>3 DEF VInv, TargetInv

\* One outcome: what counts as the bug is one of the ends the target can give.
LEMMA SeeStep ==
  ASSUME VInv, NEW outcome \in {"Data", "Timeout", "PeerClosed", "ConnectionReset", "Error"},
         pc \in {"write", "read"}, next <= candidate, See(outcome),
         outcome \in {"ConnectionReset", "Error"} => conn = "reset",
         outcome = "PeerClosed" => conn = "closed",
         outcome \in {"Data", "Timeout"} => pc = "read",
         UNCHANGED <<callerVars, targetVars, wire, attempt, refused, taken>>
  PROVE  VInv'
<1>1. /\ candidate' = candidate /\ bug' = bug /\ trigger' = trigger
      /\ hangup' = hangup /\ slow' = slow /\ leftover' = leftover
      /\ candidate \in Nat /\ MaxLen \in Nat
      /\ next \in Nat
  BY VerifierAssumption DEF callerVars, targetVars, VInv, InputInv, TypeOK
<1>2. InputInv' /\ WireInv'
  BY <1>1 DEF VInv, InputInv, WireInv
<1>3. verdict = "none"
  BY DEF VInv, TypeOK
<1>4. CandidateCrashes' = CandidateCrashes
  BY <1>1 DEF CandidateCrashes
<1>5. CASE outcome = bug
  <2>1. pc' = "returned" /\ verdict' = "true" /\ Leave /\ next' = next
    BY <1>5 DEF See, Return
  <2>2. TargetInv'
    BY <2>1, LeaveStep
  <2>3. TypeOK'
    BY <1>1, <2>1 DEF VInv, TypeOK, Leave
  <2>4. TrueOnlyIfTriggered'
    BY <1>1, <1>4, <1>5 DEF VInv, InputInv, TargetInv, TrueOnlyIfTriggered
  <2> QED BY <1>2, <2>1, <2>2, <2>3, <2>4 DEF VInv, ProgressInv
<1>6. CASE outcome # bug /\ outcome \in {"Error", "PeerClosed", "ConnectionReset"}
  <2>1. pc' = "sleep" /\ verdict' = verdict /\ Leave /\ next' = next
    BY <1>6 DEF See
  <2>2. TargetInv'
    BY <2>1, LeaveStep
  <2>3. TypeOK'
    BY <1>1, <1>3, <2>1 DEF VInv, TypeOK, Leave
  <2> QED BY <1>2, <1>3, <2>1, <2>2, <2>3 DEF VInv, ProgressInv, TrueOnlyIfTriggered
<1>7. CASE outcome # bug /\ outcome \in {"Data", "Timeout"}
  <2>1. pc = "read" /\ pc' = "write" /\ next' = next + 1
        /\ UNCHANGED <<verdict, conn, due>>
    BY <1>7 DEF See
  <2>2. TypeOK'
    BY <1>1, <1>3, <2>1 DEF VInv, TypeOK
  <2>3. ProgressInv'
    BY <1>1, <2>1 DEF VInv, ProgressInv
  <2>4. TargetInv'
    BY <1>1, <1>4, <2>1 DEF VInv, TargetInv
  <2> QED BY <1>2, <1>3, <2>1, <2>2, <2>3, <2>4 DEF VInv, TrueOnlyIfTriggered
<1> QED BY <1>5, <1>6, <1>7

LEMMA ConnectStep == VInv /\ (Connect \/ Refused) => VInv'
<1> SUFFICES ASSUME VInv, Connect \/ Refused PROVE VInv'
  OBVIOUS
<1>1. UNCHANGED <<callerVars, targetVars>> /\ pc = "connect" /\ candidate \in Nat
  BY VerifierAssumption DEF Connect, Refused, VInv, InputInv
<1>2. InputInv' /\ CandidateCrashes' = CandidateCrashes
  BY <1>1 DEF VInv, InputInv, CandidateCrashes, callerVars, targetVars
<1>3. CASE Connect
  <2>1. Len(wire') = 0 /\ wire' \in Seq(Int) /\ DOMAIN wire' = {}
    BY <1>3 DEF Connect
  <2>2. WireInv'
    BY <1>1, <2>1 DEF WireInv, callerVars
  <2>3. TypeOK'
    BY <1>1, <1>3, <2>1 DEF VInv, TypeOK, Connect, callerVars
  <2>4. ProgressInv' /\ TargetInv' /\ TrueOnlyIfTriggered'
    BY <1>1, <1>2, <1>3, <2>1
       DEF VInv, ProgressInv, TargetInv, TrueOnlyIfTriggered, Connect, callerVars, targetVars
  <2> QED BY <1>2, <2>2, <2>3, <2>4 DEF VInv
<1>4. CASE Refused
  <2>1. /\ UNCHANGED <<callerVars, attempt, next, conn, wire, targetVars, taken, due>>
        /\ refused' = refused + 1
        /\ \/ pc' = "returned" /\ verdict' = "false"
           \/ refused' # ConnectRetries /\ UNCHANGED <<pc, verdict>>
    BY <1>4 DEF Refused, Return
  <2>2. refused' \in 0..ConnectRetries
    BY <1>1, <2>1 DEF VInv, TypeOK, ProgressInv, ConnectRetries
  <2>3. refused' # ConnectRetries => refused' < ConnectRetries
    BY <2>2 DEF ConnectRetries
  <2>4. TypeOK'
    BY <1>1, <2>1, <2>2 DEF VInv, TypeOK, callerVars
  <2>5. WireInv' /\ ProgressInv' /\ TargetInv' /\ TrueOnlyIfTriggered'
    BY <1>1, <1>2, <2>1, <2>3
       DEF VInv, WireInv, ProgressInv, TargetInv, TrueOnlyIfTriggered, callerVars, targetVars
  <2> QED BY <1>2, <2>4, <2>5 DEF VInv
<1> QED BY <1>3, <1>4

LEMMA BelowTwo == ASSUME NEW n \in Nat, n <= 2, n # 2 PROVE n = 0 \/ n = 1
OBVIOUS

LEMMA HandshakeStep == VInv /\ (WriteHandshake \/ DrainHandshake) => VInv'
<1> SUFFICES ASSUME VInv, WriteHandshake \/ DrainHandshake PROVE VInv'
  OBVIOUS
<1>1. /\ UNCHANGED <<callerVars, attempt, verdict, refused, next, conn, targetVars, taken, due>>
      /\ pc \in {"handshake", "drain"} /\ candidate \in Nat /\ next = 1
  BY VerifierAssumption DEF WriteHandshake, DrainHandshake, VInv, InputInv, ProgressInv
<1>2. InputInv' /\ CandidateCrashes' = CandidateCrashes
  BY <1>1 DEF VInv, InputInv, CandidateCrashes, callerVars, targetVars
<1>3. TargetInv' /\ TrueOnlyIfTriggered'
  BY <1>1, <1>2 DEF VInv, TargetInv, TrueOnlyIfTriggered, callerVars, targetVars
<1>4. Len(wire) \in Nat /\ Len(wire) <= 2
  BY <1>1 DEF VInv, WireInv, ProgressInv
<1>5. Len(Handshake) = 2 /\ Handshake[1] = -2 /\ Handshake[2] = -1
  BY DEF Handshake
<1>6. CASE DrainHandshake
  <2>1. pc' = "handshake" /\ wire' = wire
    BY <1>6 DEF DrainHandshake
  <2>2. TypeOK' /\ WireInv' /\ ProgressInv'
    BY <1>1, <1>4, <1>6, <2>1
       DEF VInv, TypeOK, WireInv, ProgressInv, DrainHandshake, callerVars
  <2> QED BY <1>2, <1>3, <2>2 DEF VInv
<1>7. CASE WriteHandshake /\ Len(wire) # 2 /\ conn = "open"
  <2>1. Len(wire) = 0 \/ Len(wire) = 1
    BY <1>4, <1>7, BelowTwo, Zenon
  <2>2. pc' = "drain" /\ wire' = Append(wire, Handshake[Len(wire) + 1])
    <3>1. Len(wire) < Len(Handshake)
      BY <1>5, <2>1
    <3> QED BY <1>7, <3>1 DEF WriteHandshake, Write
  <2>3. Handshake[Len(wire) + 1] = Expected(Len(wire) + 1)
    <3>1. CASE Len(wire) = 0
      BY <1>5, <3>1 DEF Expected
    <3>2. CASE Len(wire) = 1
      BY <1>5, <3>2 DEF Expected
    <3> QED BY <2>1, <3>1, <3>2
  <2>4. candidate' = candidate /\ Len(wire) < candidate + 2
    BY <1>1, <2>1 DEF callerVars
  <2>5. WireInv' /\ Len(wire') = Len(wire) + 1
    BY <2>2, <2>3, <2>4, WireGrows DEF VInv
  <2>6. TypeOK' /\ ProgressInv'
    BY <1>1, <1>7, <2>1, <2>2, <2>5 DEF VInv, TypeOK, ProgressInv, WriteHandshake, callerVars
  <2> QED BY <1>2, <1>3, <2>5, <2>6 DEF VInv
<1>8. CASE WriteHandshake /\ (Len(wire) = 2 \/ conn # "open")
  <2>1. pc' = "write" /\ wire' = wire /\ pc = "handshake"
    BY <1>4, <1>5, <1>8 DEF WriteHandshake
  <2>2. TypeOK'
    BY <1>1, <2>1 DEF VInv, TypeOK, callerVars
  <2>3. WireInv'
    BY <1>1, <2>1 DEF VInv, WireInv, callerVars
  <2>4. conn = "open" => Len(wire) = 2
    BY <1>8, Zenon
  <2>5. ProgressInv'
    BY <1>1, <2>1, <2>4 DEF VInv, ProgressInv
  <2> QED BY <1>2, <1>3, <2>2, <2>3, <2>5 DEF VInv
<1> QED BY <1>6, <1>7, <1>8

LEMMA WriteStep == VInv /\ WriteMessage => VInv'
<1> SUFFICES ASSUME VInv, WriteMessage PROVE VInv'
  OBVIOUS
<1>1. /\ UNCHANGED <<callerVars, attempt, refused, targetVars, taken>>
      /\ pc = "write" /\ next <= candidate /\ candidate \in Nat /\ conn # "none"
  BY VerifierAssumption DEF WriteMessage, VInv, InputInv, ProgressInv
<1>2. InputInv' /\ CandidateCrashes' = CandidateCrashes
  BY <1>1 DEF VInv, InputInv, CandidateCrashes, callerVars, targetVars
<1>3. CASE conn = "reset"
  <2>1. See("Error") /\ wire' = wire
    BY <1>3 DEF WriteMessage
  <2> QED BY <1>1, <1>3, <2>1, SeeStep
<1>4. CASE conn # "reset"
  <2>1. Write(next) /\ pc' = "read" /\ UNCHANGED <<verdict, next, conn, due>>
    BY <1>4 DEF WriteMessage
  <2>2. TargetInv' /\ TrueOnlyIfTriggered'
    BY <1>1, <1>2, <2>1 DEF VInv, TargetInv, TrueOnlyIfTriggered, callerVars, targetVars
  <2>3. next \in Nat /\ next >= 1 /\ Len(wire) \in Nat
    BY <1>1 DEF VInv, TypeOK, WireInv
  <2>4. CASE conn = "open"
    <3>1. Len(wire) = next + 1 /\ wire' = Append(wire, next)
      BY <1>1, <2>1, <2>4 DEF VInv, ProgressInv, Write
    <3>2. next = Expected(Len(wire) + 1) /\ Len(wire) < candidate + 2
      BY <1>1, <2>3, <3>1 DEF Expected
    <3>3. WireInv' /\ Len(wire') = Len(wire) + 1
      BY <1>1, <3>1, <3>2, WireGrows DEF VInv, callerVars
    <3>4. TypeOK'
      BY <1>1, <2>1, <2>3, <3>3 DEF VInv, TypeOK, callerVars
    <3>5. ProgressInv'
      BY <1>1, <2>1, <2>3, <3>1, <3>3 DEF VInv, ProgressInv, callerVars
    <3> QED BY <1>2, <2>2, <3>3, <3>4, <3>5 DEF VInv
  <2>5. CASE conn # "open"
    <3>1. wire' = wire
      BY <2>1, <2>5 DEF Write
    <3>2. TypeOK'
      BY <1>1, <2>1, <3>1 DEF VInv, TypeOK, callerVars
    <3>3. WireInv' /\ ProgressInv'
      BY <1>1, <2>1, <2>5, <3>1 DEF VInv, WireInv, ProgressInv, callerVars
    <3> QED BY <1>2, <2>2, <3>2, <3>3 DEF VInv
  <2> QED BY <2>4, <2>5
<1> QED BY <1>3, <1>4

LEMMA ReadStep == VInv /\ ReadMessage => VInv'
<1> SUFFICES ASSUME VInv, ReadMessage PROVE VInv'
  OBVIOUS
<1>1. /\ UNCHANGED <<callerVars, attempt, refused, wire, targetVars, taken>>
      /\ pc = "read" /\ next <= candidate /\ conn \in {"open", "reset", "closed"}
      /\ See(Outcome)
  BY DEF ReadMessage, VInv, ProgressInv, TypeOK
<1>2. /\ Outcome \in {"Data", "Timeout", "PeerClosed", "ConnectionReset"}
      /\ Outcome = "ConnectionReset" => conn = "reset"
      /\ Outcome = "PeerClosed" => conn = "closed"
  BY <1>1 DEF Outcome
<1> HIDE DEF Outcome
<1> QED BY <1>1, <1>2, SeeStep

LEMMA OverStep == VInv /\ (ReplayOver \/ NextAttempt) => VInv'
<1> SUFFICES ASSUME VInv, ReplayOver \/ NextAttempt PROVE VInv'
  OBVIOUS
<1>1. UNCHANGED <<callerVars, next, wire, targetVars, taken>>
  BY DEF ReplayOver, NextAttempt
<1>2. InputInv' /\ WireInv' /\ CandidateCrashes' = CandidateCrashes
  BY <1>1 DEF VInv, InputInv, WireInv, CandidateCrashes, callerVars, targetVars
<1>3. CASE ReplayOver
  <2>1. pc = "write" /\ pc' = "sleep" /\ Leave /\ UNCHANGED <<attempt, verdict, refused>>
    BY <1>3 DEF ReplayOver
  <2>2. TargetInv'
    BY <1>1, <2>1, LeaveStep
  <2>3. TypeOK' /\ ProgressInv' /\ TrueOnlyIfTriggered'
    BY <1>1, <2>1
       DEF VInv, TypeOK, ProgressInv, TrueOnlyIfTriggered, Leave, callerVars
  <2> QED BY <1>2, <2>2, <2>3 DEF VInv
<1>4. CASE NextAttempt
  <2>1. /\ pc = "sleep" /\ refused' = 0 /\ UNCHANGED <<conn, due>>
        /\ \/ attempt < MaxRetries /\ attempt' = attempt + 1 /\ pc' = "connect"
              /\ verdict' = verdict
           \/ pc' = "returned" /\ verdict' = "false" /\ attempt' = attempt
    BY <1>4 DEF NextAttempt, Return
  <2>2. attempt' \in 1..MaxRetries
    BY <2>1, VerifierAssumption DEF VInv, TypeOK
  <2>3. TypeOK'
    BY <1>1, <2>1, <2>2 DEF VInv, TypeOK, ConnectRetries, callerVars
  <2>4. ProgressInv' /\ TargetInv' /\ TrueOnlyIfTriggered'
    BY <1>1, <1>2, <2>1 DEF VInv, TypeOK, ProgressInv, TargetInv, TrueOnlyIfTriggered,
                            ConnectRetries, callerVars, targetVars
  <2> QED BY <1>2, <2>3, <2>4 DEF VInv
<1> QED BY <1>3, <1>4

\* The target crashes and hangs up on nothing but the candidate.
LEMMA TargetStep == VInv /\ Lockstep /\ (TakeIn \/ LateCrash \/ Restart) => VInv'
<1> SUFFICES ASSUME VInv, Lockstep, TakeIn \/ LateCrash \/ Restart PROVE VInv'
  OBVIOUS
<1>1. UNCHANGED <<callerVars, verifierVars, wire, targetVars>>
  BY DEF TakeIn, LateCrash, Restart
<1>2. InputInv' /\ WireInv' /\ CandidateCrashes' = CandidateCrashes
  BY <1>1 DEF VInv, InputInv, WireInv, CandidateCrashes, callerVars, targetVars
<1>3. TrueOnlyIfTriggered'
  BY <1>1, <1>2 DEF VInv, TrueOnlyIfTriggered, callerVars, targetVars, verifierVars
<1>4. CASE TakeIn
  <2>1. /\ conn = "open" /\ taken < Len(wire) /\ taken' = taken + 1 /\ due' = due
        /\ \/ conn' = "reset" /\ Crashes(SubSeq(wire, 1, taken + 1))
           \/ conn' = "closed" /\ wire[taken + 1] = hangup
           \/ conn' = "reset" /\ wire[taken + 1] = hangup /\ taken + 1 < Len(wire)
           \/ conn' = conn
    BY <1>4 DEF TakeIn
  <2>2. taken + 1 \in 1..Len(wire) /\ candidate \in Nat /\ Len(wire) <= candidate + 2
    BY <2>1, VerifierAssumption DEF VInv, TypeOK, WireInv, InputInv
  <2>3. Crashes(SubSeq(wire, 1, taken + 1)) => CandidateCrashes
    BY <2>2, CrashIsTheCandidates DEF VInv
  <2>4. wire[taken + 1] = hangup => hangup \in 1..candidate
    <3>1. wire[taken + 1] = Expected(taken + 1)
      BY <2>2 DEF VInv, WireInv
    <3>2. hangup \in Nat /\ (hangup = 0 => wire[taken + 1] # 0)
      BY <2>2, <3>1, VerifierAssumption DEF VInv, InputInv, Expected
    <3> QED BY <2>2, <3>1, <3>2 DEF Expected
  <2>5. taken + 1 < Len(wire) => slow
    BY <2>1, <2>2 DEF Lockstep, VInv, InputInv, TypeOK
  <2>6. conn' = "reset" => CandidateCrashes \/ (slow /\ hangup \in 1..candidate)
    BY <2>1, <2>3, <2>4, <2>5
  <2>7. TargetInv'
    BY <1>1, <1>2, <2>1, <2>4, <2>6 DEF VInv, TargetInv, callerVars, targetVars
  <2>8. TypeOK' /\ ProgressInv'
    BY <1>1, <2>1, <2>2 DEF VInv, TypeOK, ProgressInv, callerVars, verifierVars
  <2> QED BY <1>2, <1>3, <2>7, <2>8 DEF VInv
<1>5. CASE LateCrash \/ Restart
  <2>1. /\ taken' = taken /\ (due' => due)
        /\ conn' = conn \/ (conn = "open" /\ conn' = "reset" /\ due)
    BY <1>5 DEF LateCrash, Restart
  <2>2. TargetInv'
    BY <1>1, <1>2, <2>1 DEF VInv, TargetInv, callerVars, targetVars
  <2>3. TypeOK' /\ ProgressInv'
    BY <1>1, <2>1 DEF VInv, TypeOK, ProgressInv, callerVars, verifierVars
  <2> QED BY <1>2, <1>3, <2>2, <2>3 DEF VInv
<1> QED BY <1>4, <1>5

\* A prompt target has caught up whenever verify goes on.
LEMMA LockstepStep == VInv /\ Lockstep /\ [Next]_vars => Lockstep'
<1> SUFFICES ASSUME VInv, Lockstep, [Next]_vars, ~slow PROVE Lockstep'
  BY Inputs DEF Lockstep, targetVars
<1>1. /\ Len(wire) \in Nat /\ taken \in 0..Len(wire) /\ wire \in Seq(Int)
      /\ conn \in {"none", "open", "reset", "closed"}
      /\ pc \in {"connect", "handshake", "drain", "write", "read", "sleep", "returned"}
  BY DEF VInv, WireInv, TypeOK
<1>2. \A e : Len(Append(wire, e)) = Len(wire) + 1
  BY <1>1
<1>3. CASE Connect
  <2>1. Len(wire') = 0 /\ taken' = 0 /\ unread' = FALSE /\ pc' = "handshake"
    BY <1>3 DEF Connect
  <2> QED BY <2>1 DEF Lockstep
<1>4. CASE Refused \/ NextAttempt
  BY <1>4 DEF Refused, NextAttempt, Return, Lockstep
<1>5. CASE WriteHandshake
  <2>1. \/ pc' = "write" /\ wire' = wire
        \/ pc' = "drain" /\ wire' = Append(wire, Handshake[Len(wire) + 1])
    BY <1>5 DEF WriteHandshake, Write
  <2>2. pc = "handshake" /\ UNCHANGED <<conn, taken, unread>>
    BY <1>5 DEF WriteHandshake
  <2>3. conn = "open" => taken = Len(wire) /\ unread = FALSE
    BY <2>2 DEF Lockstep
  <2>4. pc' = "drain" /\ conn = "open" => taken + 1 >= Len(wire')
    BY <1>1, <1>2, <2>1, <2>3
  <2> QED BY <2>1, <2>2, <2>3, <2>4, Zenon DEF Lockstep
<1>6. CASE DrainHandshake
  BY <1>1, <1>6 DEF DrainHandshake, Answered, Lockstep
<1>7. CASE WriteMessage
  <2>1. CASE conn = "reset"
    BY <1>7, <2>1 DEF WriteMessage, See, Return, Leave, Lockstep
  <2>2. CASE conn # "reset"
    <3>1. /\ pc = "write" /\ pc' = "read" /\ UNCHANGED <<conn, taken, unread>>
          /\ conn = "open" => wire' = Append(wire, next)
      BY <1>7, <2>2 DEF WriteMessage, Write
    <3>2. conn = "open" => taken = Len(wire) /\ unread = FALSE
      BY <3>1 DEF Lockstep
    <3>3. conn = "open" => taken + 1 >= Len(wire')
      BY <1>1, <1>2, <3>1, <3>2
    <3> QED BY <3>1, <3>2, <3>3, Zenon DEF Lockstep
  <2> QED BY <2>1, <2>2
<1>8. CASE ReadMessage
  <2>1. /\ pc = "read" /\ unread' = FALSE /\ UNCHANGED <<wire, taken>>
        /\ conn = "open" => taken = Len(wire)
    BY <1>1, <1>8 DEF ReadMessage, Answered, Lockstep
  <2>2. \/ pc' \in {"sleep", "returned"} /\ conn' = "none"
        \/ pc' = "write" /\ conn' = conn
    BY <1>8 DEF ReadMessage, See, Return, Leave
  <2> QED BY <2>1, <2>2 DEF Lockstep
<1>9. CASE ReplayOver
  BY <1>9 DEF ReplayOver, Leave, Lockstep
<1>10. CASE TakeIn
  <2>1. /\ conn = "open" /\ taken < Len(wire) /\ taken' = taken + 1
        /\ UNCHANGED <<pc, wire>> /\ unread' \in {unread, TRUE}
    BY <1>10 DEF TakeIn, verifierVars
  <2>2. pc \in {"drain", "read"}
    BY <1>1, <2>1 DEF Lockstep
  <2>3. unread \in BOOLEAN /\ taken + 1 >= Len(wire)
    BY <2>1, <2>2, Zenon DEF Lockstep
  <2>4. taken' = Len(wire') /\ taken' + 1 >= Len(wire')
    BY <1>1, <2>1, <2>3
  <2> QED BY <2>1, <2>2, <2>3, <2>4, Zenon DEF Lockstep
<1>11. CASE LateCrash \/ Restart
  BY <1>11 DEF LateCrash, Restart, verifierVars, Lockstep
<1>12. CASE UNCHANGED vars
  BY <1>12 DEF vars, verifierVars, Lockstep, targetVars
<1> QED BY <1>3, <1>4, <1>5, <1>6, <1>7, <1>8, <1>9, <1>10, <1>11, <1>12 DEF Next, Verify

LEMMA NextVInv == VInv /\ Lockstep /\ [Next]_vars => VInv'
<1> SUFFICES ASSUME VInv, UNCHANGED vars PROVE VInv'
  BY ConnectStep, HandshakeStep, WriteStep, ReadStep, OverStep, TargetStep DEF Next, Verify
<1> QED BY DEF VInv, TypeOK, InputInv, WireInv, ProgressInv, TargetInv, TrueOnlyIfTriggered,
               CandidateCrashes, vars, callerVars, verifierVars, targetVars

LEMMA SpecVInv == Spec => []VInv
<1>1. Init => Lockstep
  BY DEF Init, Lockstep
<1> QED BY <1>1, InitVInv, NextVInv, LockstepStep, PTL DEF Spec

-----------------------------------------------------------------------------
(* Theorems *)

\* Attempts, connects and the place in the replay stay in range for candidates of
\* any length and any number of retries, and there is a verdict on return only.
THEOREM VerifierTypes == Spec => []TypeOK
BY SpecVInv, PTL DEF VInv

\* Whatever the target and its restarts do in between: a prompt target convicted
\* of a reset crashes on this candidate; one convicted of closing hangs up on it.
THEOREM TrueIsTriggered == Spec => []TrueOnlyIfTriggered
BY SpecVInv, PTL DEF VInv

\* Every attempt replays the candidate from its first message on and in order.
THEOREM AlwaysAPrefix == Spec => []ReplayIsAPrefix
<1>1. VInv => ReplayIsAPrefix
  <2> SUFFICES ASSUME VInv
               PROVE  IsPrefix(wire, Handshake \o [k \in 1..candidate |-> k])
    BY DEF ReplayIsAPrefix
  <2> DEFINE replay == [k \in 1..candidate |-> k]
             full == Handshake \o replay
             L == Len(wire)
  <2>1. wire \in Seq(Int) /\ L \in Nat /\ L <= candidate + 2 /\ candidate \in Nat
    BY VerifierAssumption DEF VInv, WireInv, InputInv
  <2>2. replay \in Seq(Int) /\ Len(replay) = candidate
        /\ \A k \in 1..candidate : replay[k] = k
    BY <2>1
  <2>3. /\ Handshake \in Seq(Int) /\ Len(Handshake) = 2
        /\ Handshake[1] = -2 /\ Handshake[2] = -1
    BY DEF Handshake
  <2> HIDE DEF replay
  <2>4. /\ full \in Seq(Int) /\ Len(full) = candidate + 2
        /\ \A k \in 1..(candidate + 2) : full[k] = IF k <= 2 THEN Handshake[k] ELSE replay[k - 2]
    <3>1. /\ full \in Seq(Int) /\ Len(full) = Len(Handshake) + Len(replay)
          /\ \A k \in 1..(Len(Handshake) + Len(replay)) :
               full[k] = IF k <= Len(Handshake) THEN Handshake[k] ELSE replay[k - Len(Handshake)]
      BY <2>2, <2>3, ConcatProperties, Zenon
    <3>2. Len(Handshake) + Len(replay) = candidate + 2
      BY <2>1, <2>2, <2>3
    <3> HIDE DEF full
    <3> QED BY <2>3, <3>1, <3>2
  <2>5. \A k \in 1..(candidate + 2) : full[k] = Expected(k)
    BY <2>1, <2>2, <2>3, <2>4 DEF Expected
  <2> HIDE DEF full
  <2>6. \A k \in 1..L : wire[k] = full[k]
    BY <2>1, <2>5 DEF VInv, WireInv
  <2>7. SubSeq(wire, 1, L) \in Seq(Int) /\ Len(SubSeq(wire, 1, L)) = L
        /\ \A k \in 1..L : SubSeq(wire, 1, L)[k] = wire[k]
    BY <2>1
  <2>8. SubSeq(full, 1, L) \in Seq(Int) /\ Len(SubSeq(full, 1, L)) = L
        /\ \A k \in 1..L : SubSeq(full, 1, L)[k] = full[k]
    BY <2>1, <2>4
  <2>9. SubSeq(wire, 1, L) = SubSeq(full, 1, L)
    BY <2>6, <2>7, <2>8, SeqEqual
  <2> QED BY <2>1, <2>4, <2>9 DEF IsPrefix, full, replay
<1> QED BY <1>1, SpecVInv, PTL

-----------------------------------------------------------------------------
(* A prompt target.  It has taken in everything when the next message is     *)
(* written, so the message that completes the trigger is the one whose read  *)
(* sees the reset; the first attempt already convicts it.                    *)

Prompt == bug = "ConnectionReset" /\ CandidateCrashes /\ ~slow /\ hangup = 0

TakenAll == taken = Len(wire) /\ unread = FALSE

PromptInv ==
  /\ due = FALSE /\ unread \in BOOLEAN
  /\ pc # "sleep"
  /\ pc = "returned" /\ verdict = "false" => gave_up
  /\ pc \in {"connect", "returned"} => conn = "none"
  /\ pc \in {"handshake", "write"} => conn = "open" /\ TakenAll
  /\ pc = "drain" => conn = "open"
  /\ pc = "read" => /\ (conn = "open" /\ taken + 1 >= Len(wire)) \/ conn = "reset"
                    /\ unread => conn = "open" /\ taken = Len(wire)
  /\ conn = "open" => ~Crashes(SubSeq(wire, 1, taken))

ConvictInv == Prompt => PromptInv

\* The handshake crashes no one, the whole replay does.
LEMMA NothingCrashesBefore ==
  ASSUME VInv, NEW n \in 0..Len(wire), n <= 2
  PROVE  ~Crashes(SubSeq(wire, 1, n))
<1> SUFFICES ASSUME Crashes(SubSeq(wire, 1, n)) PROVE FALSE
  OBVIOUS
<1> DEFINE seq == SubSeq(wire, 1, n)
<1>1. wire \in Seq(Int) /\ Len(wire) \in Nat
  BY DEF VInv, WireInv
<1>2. DOMAIN seq = 1..n /\ \A k \in 1..n : seq[k] = wire[k]
  BY <1>1
<1> HIDE DEF seq
<1>3. PICK m \in trigger : m \in ToSet(seq)
  BY DEF Crashes, seq
<1>4. PICK k \in 1..n : m = seq[k]
  BY <1>2, <1>3 DEF ToSet
<1>5. m = Expected(k) /\ k \in {1, 2}
  BY <1>1, <1>2, <1>4 DEF VInv, WireInv
<1>6. m \in 1..MaxLen
  BY <1>3 DEF VInv, InputInv, Messages
<1> QED BY <1>5, <1>6, VerifierAssumption DEF Expected

LEMMA WholeReplayCrashes ==
  ASSUME VInv, CandidateCrashes, Len(wire) = candidate + 2
  PROVE  Crashes(SubSeq(wire, 1, Len(wire)))
<1>1. wire \in Seq(Int) /\ candidate \in Nat /\ DOMAIN wire = 1..(candidate + 2)
  BY VerifierAssumption DEF VInv, WireInv, InputInv
<1>2. ASSUME NEW m \in trigger PROVE m \in ToSet(wire)
  <2>1. m \in 1..candidate
    BY DEF CandidateCrashes
  <2>2. m + 2 \in DOMAIN wire
    BY <1>1, <2>1
  <2>3. Expected(m + 2) = m
    BY <1>1, <2>1 DEF Expected
  <2>4. wire[m + 2] = m
    BY <2>2, <2>3 DEF VInv, WireInv
  <2> QED BY <2>2, <2>4 DEF ToSet
<1>3. SubSeq(wire, 1, Len(wire)) = wire
  BY <1>1, SubSeqFull
<1> QED BY <1>2, <1>3 DEF Crashes, CandidateCrashes

LEMMA PromptInit == Init => ConvictInv
BY DEF Init, Prompt, ConvictInv, PromptInv, TakenAll

\* The steps verify takes against a prompt target.
LEMMA PromptVerify == VInv /\ Prompt /\ PromptInv /\ Verify => PromptInv'
<1> SUFFICES ASSUME VInv, Prompt, PromptInv, Verify PROVE PromptInv'
  OBVIOUS
<1>1. /\ Len(wire) \in Nat /\ taken \in 0..Len(wire) /\ candidate \in Nat /\ next \in Nat
      /\ wire \in Seq(Int)
  BY VerifierAssumption DEF VInv, WireInv, TypeOK, InputInv
<1>2. CASE Connect
  <2>1. /\ conn' = "open" /\ wire' = <<>> /\ taken' = 0 /\ unread' = FALSE
        /\ pc' = "handshake" /\ due' = due /\ UNCHANGED targetVars
    BY <1>2 DEF Connect
  <2>2. trigger # {}
    BY DEF Prompt, CandidateCrashes
  <2>3. Len(wire') = 0
    BY <2>1
  <2>4. ~Crashes(SubSeq(wire, 1, taken))'
    <3>1. SubSeq(wire, 1, taken)' = <<>>
      BY <2>1
    <3>2. ToSet(<<>>) = {}
      BY DEF ToSet
    <3> QED BY <2>1, <2>2, <3>1, <3>2 DEF Crashes, targetVars
  <2> QED BY <2>1, <2>3, <2>4 DEF PromptInv, TakenAll
<1>3. CASE Refused
  BY <1>3 DEF Refused, Return, PromptInv, TakenAll, callerVars, targetVars, Crashes
<1>4. CASE WriteHandshake
  <2>1. /\ pc = "handshake" /\ conn = "open" /\ TakenAll
        /\ UNCHANGED <<conn, taken, unread, due, targetVars>>
        /\ \/ pc' = "write" /\ wire' = wire
           \/ pc' = "drain" /\ wire' = Append(wire, Handshake[Len(wire) + 1])
    BY <1>4 DEF WriteHandshake, Write, PromptInv
  <2>2. ~Crashes(SubSeq(wire, 1, taken))'
    <3>1. SubSeq(wire', 1, taken) = SubSeq(wire, 1, taken)
      <4>1. ASSUME NEW e, wire' = Append(wire, e) PROVE SubSeq(wire', 1, taken) = SubSeq(wire, 1, taken)
        BY <1>1, <4>1, AppendedPrefix
      <4> QED BY <2>1, <4>1
    <3> QED BY <2>1, <3>1 DEF PromptInv, Crashes, targetVars
  <2> QED BY <2>1, <2>2 DEF PromptInv, TakenAll
<1>5. CASE DrainHandshake
  <2>1. /\ pc = "drain" /\ conn = "open" /\ pc' = "handshake" /\ unread' = FALSE
        /\ UNCHANGED <<conn, wire, taken, due, targetVars>>
        /\ taken = Len(wire)
    BY <1>5 DEF DrainHandshake, PromptInv, Answered, Prompt
  <2> QED BY <2>1 DEF PromptInv, TakenAll, Crashes, targetVars
<1>6. CASE WriteMessage
  <2>1. /\ pc = "write" /\ conn = "open" /\ TakenAll /\ pc' = "read"
        /\ wire' = Append(wire, next) /\ UNCHANGED <<conn, taken, unread, due, targetVars>>
    BY <1>6 DEF WriteMessage, Write, PromptInv
  <2>2. SubSeq(wire', 1, taken) = SubSeq(wire, 1, taken)
    BY <1>1, <2>1, AppendedPrefix
  <2>3. Len(wire') = Len(wire) + 1
    BY <1>1, <2>1
  <2>4. ~Crashes(SubSeq(wire, 1, taken))'
    BY <2>1, <2>2 DEF PromptInv, Crashes, targetVars
  <2> QED BY <1>1, <2>1, <2>3, <2>4 DEF PromptInv, TakenAll
<1>7. CASE ReadMessage
  <2>1. /\ pc = "read" /\ unread' = FALSE /\ See(Outcome)
        /\ UNCHANGED <<wire, taken, targetVars>>
        /\ unread \/ Answered
    BY <1>7 DEF ReadMessage
  <2>2. CASE conn = "reset"
    <3>1. Outcome = bug
      BY <2>1, <2>2 DEF Outcome, PromptInv, Prompt
    <3>2. pc' = "returned" /\ verdict' = "true" /\ conn' = "none" /\ due' = FALSE
      BY <2>2, <3>1, <2>1 DEF See, Return, Leave, PromptInv
    <3> QED BY <2>1, <3>2 DEF PromptInv
  <2>3. CASE conn = "open"
    <3>1. Outcome \in {"Data", "Timeout"}
      BY <2>3 DEF Outcome
    <3>2. pc' = "write" /\ UNCHANGED <<verdict, conn, due>>
      BY <2>1, <3>1 DEF See, Prompt
    <3>3. taken = Len(wire)
      BY <2>1, <2>3 DEF PromptInv, Answered, Prompt
    <3> QED BY <2>1, <2>3, <3>2, <3>3 DEF PromptInv, TakenAll, Crashes, targetVars
  <2> QED BY <2>1, <2>2, <2>3 DEF PromptInv
<1>8. CASE ReplayOver
  <2>1. pc = "write" /\ next > candidate /\ conn = "open" /\ taken = Len(wire)
    BY <1>8 DEF ReplayOver, PromptInv, TakenAll
  <2>2. Len(wire) = candidate + 2
    BY <1>1, <2>1 DEF VInv, TypeOK, ProgressInv, WireInv
  <2>3. Crashes(SubSeq(wire, 1, Len(wire)))
    BY <2>2, WholeReplayCrashes DEF Prompt
  <2> QED BY <2>1, <2>3 DEF PromptInv
<1>9. CASE NextAttempt
  BY <1>9 DEF NextAttempt, PromptInv
<1> QED BY <1>2, <1>3, <1>4, <1>5, <1>6, <1>7, <1>8, <1>9 DEF Verify

LEMMA PromptTarget ==
  VInv /\ Prompt /\ PromptInv /\ (TakeIn \/ LateCrash \/ Restart) => PromptInv'
<1> SUFFICES ASSUME VInv, Prompt, PromptInv, TakeIn \/ LateCrash \/ Restart
             PROVE  PromptInv'
  OBVIOUS
<1>1. Len(wire) \in Nat /\ taken \in 0..Len(wire)
  BY DEF VInv, WireInv, TypeOK
<1>2. CASE Restart
  BY <1>2 DEF Restart, PromptInv, TakenAll, Crashes, verifierVars, targetVars
<1>3. CASE LateCrash
  BY <1>3 DEF LateCrash, PromptInv
<1>4. CASE TakeIn
  <2>1. /\ conn = "open" /\ taken < Len(wire) /\ taken' = taken + 1
        /\ UNCHANGED <<verifierVars, wire, targetVars, due>>
        /\ \/ Crashes(SubSeq(wire, 1, taken + 1)) /\ conn' = "reset" /\ unread' = unread
           \/ wire[taken + 1] = hangup
           \/ /\ ~Crashes(SubSeq(wire, 1, taken + 1))
              /\ conn' = conn /\ unread' \in BOOLEAN
    BY <1>4 DEF TakeIn, PromptInv
  <2>2. pc \in {"drain", "read"}
    BY <1>1, <2>1 DEF PromptInv, TakenAll, VInv, TypeOK
  <2>3. pc = "drain" => Len(wire) <= 2
    BY DEF VInv, ProgressInv
  <2>4. taken + 1 \in 0..Len(wire) /\ taken + 1 \in DOMAIN wire
    BY <1>1, <2>1 DEF VInv, WireInv
  <2>5. wire[taken + 1] # hangup
    BY <1>1, <2>4 DEF VInv, WireInv, Expected, Prompt
  <2>6. CASE Crashes(SubSeq(wire, 1, taken + 1)) /\ conn' = "reset" /\ unread' = unread
    <3>1. pc = "read"
      BY <1>1, <2>1, <2>2, <2>3, <2>4, <2>6, NothingCrashesBefore
    <3> QED BY <1>1, <2>1, <2>6, <3>1 DEF PromptInv, verifierVars
  <2>7. CASE /\ ~Crashes(SubSeq(wire, 1, taken + 1))
             /\ conn' = conn /\ unread' \in BOOLEAN
    <3>1. ~Crashes(SubSeq(wire, 1, taken))'
      BY <2>1, <2>7 DEF Crashes, targetVars
    <3>2. pc = "read" => taken + 1 = Len(wire)
      BY <1>1, <2>1 DEF PromptInv
    <3> QED BY <1>1, <2>1, <2>2, <2>7, <3>1, <3>2 DEF PromptInv, verifierVars
  <2> QED BY <2>1, <2>5, <2>6, <2>7
<1> QED BY <1>2, <1>3, <1>4

LEMMA PromptStep == VInv /\ ConvictInv /\ [Next]_vars => ConvictInv'
<1> SUFFICES ASSUME VInv, ConvictInv, [Next]_vars, Prompt' PROVE PromptInv'
  BY DEF ConvictInv
<1>1. Prompt /\ PromptInv
  <2>1. UNCHANGED <<callerVars, targetVars>>
    BY Inputs
  <2>2. Prompt
    BY <2>1 DEF Prompt, CandidateCrashes, callerVars, targetVars
  <2> QED BY <2>2 DEF ConvictInv
<1>2. CASE UNCHANGED vars
  BY <1>1, <1>2 DEF PromptInv, TakenAll, Crashes, vars, verifierVars, targetVars
<1> QED BY <1>1, <1>2, PromptVerify, PromptTarget DEF Next

\* For candidates of any length: a prompt target that crashes on the candidate, and
\* does not hang up on it, escapes only by not being there to connect to.
THEOREM PromptAlwaysConvicted == Spec => []PromptTargetIsConvicted
<1>1. ConvictInv /\ VInv => PromptTargetIsConvicted
  BY DEF ConvictInv, PromptInv, Prompt, PromptTargetIsConvicted, VInv, TypeOK
<1> QED BY <1>1, PromptInit, PromptStep, SpecVInv, PTL DEF Spec
-----------------------------------------------------------------------------
(* Why verify returns *)

\* The most steps of one attempt: the refused connects, the handshake's five steps, two
\* for each message, and the pause.
AttemptCost == 2 * candidate + 11

\* What a replay costs from its first message on.
ReplayCost == 2 * candidate + 2

\* The most steps verify still takes in this attempt.
AttemptLeft ==
  CASE pc = "connect" -> ReplayCost + 6 + (ConnectRetries - refused)
    [] pc = "handshake" -> ReplayCost + 1 + 2 * (2 - Len(wire))
    [] pc = "drain" -> ReplayCost + 2 + 2 * (2 - Len(wire))
    [] pc = "write" -> ReplayCost - 2 * (next - 1)
    [] pc = "read" -> ReplayCost - 2 * (next - 1) - 1
    [] pc = "sleep" -> 1
    [] pc = "returned" -> 0

StepsLeft ==
  IF pc = "returned" THEN 0 ELSE AttemptLeft + (MaxRetries - attempt) * AttemptCost

\* The target, its crashes and its restarts never lengthen a replay, and each step of
\* verify shortens what is left of it.
NearsItsVerdict == StepsLeft' <= StepsLeft /\ (Verify => StepsLeft' < StepsLeft)

LEMMA AttemptLeftNat == VInv => AttemptLeft \in Nat /\ (pc # "returned" => AttemptLeft > 0)
<1> SUFFICES ASSUME VInv
             PROVE  AttemptLeft \in Nat /\ (pc # "returned" => AttemptLeft > 0)
  OBVIOUS
<1> DEFINE w == Len(wire)
<1>1. w \in Nat
  BY DEF VInv, WireInv
<1>2. pc \in {"handshake", "drain"} => w <= 2
  BY DEF VInv, ProgressInv
<1> HIDE DEF w
<1>3. AttemptLeft =
        CASE pc = "connect" -> ReplayCost + 6 + (ConnectRetries - refused)
          [] pc = "handshake" -> ReplayCost + 1 + 2 * (2 - w)
          [] pc = "drain" -> ReplayCost + 2 + 2 * (2 - w)
          [] pc = "write" -> ReplayCost - 2 * (next - 1)
          [] pc = "read" -> ReplayCost - 2 * (next - 1) - 1
          [] pc = "sleep" -> 1
          [] pc = "returned" -> 0
  BY DEF AttemptLeft, w
<1>4. candidate \in Nat /\ next \in 1..(candidate + 1) /\ refused \in 0..3
      /\ (pc = "read" => next <= candidate)
  BY VerifierAssumption DEF VInv, TypeOK, InputInv, ProgressInv, ConnectRetries
<1>5. pc \in {"connect", "handshake", "drain", "write", "read", "sleep", "returned"}
  BY DEF VInv, TypeOK
<1>6. pc \in {"handshake", "drain"} => AttemptLeft \in Nat /\ AttemptLeft > 0
  BY <1>1, <1>2, <1>3, <1>4 DEF ReplayCost
<1>7. pc \in {"write", "read"} => AttemptLeft \in Nat /\ AttemptLeft > 0
  BY <1>3, <1>4 DEF ReplayCost
<1>8. pc \in {"connect", "sleep", "returned"} =>
        AttemptLeft \in Nat /\ (pc # "returned" => AttemptLeft > 0)
  BY <1>3, <1>4 DEF ReplayCost, ConnectRetries
<1> QED BY <1>5, <1>6, <1>7, <1>8

\* The attempts after this one.
LEMMA AttemptsLeft ==
  ASSUME VInv
  PROVE  /\ AttemptCost \in Nat
         /\ (MaxRetries - attempt) * AttemptCost \in Nat
         /\ attempt < MaxRetries =>
              (MaxRetries - attempt) * AttemptCost
                = (MaxRetries - (attempt + 1)) * AttemptCost + AttemptCost
<1>1. candidate \in Nat /\ attempt \in 1..MaxRetries /\ MaxRetries \in Nat
  BY VerifierAssumption DEF VInv, TypeOK, InputInv
<1>2. AttemptCost \in Nat
  BY <1>1 DEF AttemptCost
<1> DEFINE c == AttemptCost
           n == MaxRetries - attempt
<1>3. c \in Nat /\ n \in Nat /\ MaxRetries - (attempt + 1) = n - 1
  BY <1>1, <1>2
<1> HIDE DEF c, n
<1>4. n * c \in Nat /\ n * c = (n - 1) * c + c
  BY <1>3
<1> QED BY <1>2, <1>3, <1>4 DEF c, n

LEMMA StepsLeftNat == VInv => StepsLeft \in Nat
<1> SUFFICES ASSUME VInv PROVE StepsLeft \in Nat
  OBVIOUS
<1> DEFINE later == (MaxRetries - attempt) * AttemptCost
<1>1. later \in Nat /\ AttemptLeft \in Nat
  BY AttemptsLeft, AttemptLeftNat
<1>2. StepsLeft = IF pc = "returned" THEN 0 ELSE AttemptLeft + later
  BY DEF StepsLeft
<1> HIDE DEF later
<1> QED BY <1>1, <1>2

\* Where one outcome, or the write of a message, leaves the replay.
LEMMA SeeMoves ==
  ASSUME NEW outcome, See(outcome)
  PROVE  pc' \in {"sleep", "returned"} \/ (pc' = "write" /\ next' = next + 1)
BY Zenon DEF See, Return

LEMMA WriteMoves ==
  ASSUME WriteMessage
  PROVE  /\ pc = "write" /\ next <= candidate
         /\ See("Error") \/ (pc' = "read" /\ next' = next)
BY Zenon DEF WriteMessage

\* A step of verify within one attempt.
LEMMA AttemptStep ==
  ASSUME VInv, VInv', Verify, ~NextAttempt
  PROVE  pc' = "returned" \/ AttemptLeft' < AttemptLeft
<1> SUFFICES ASSUME pc' # "returned" PROVE AttemptLeft' < AttemptLeft
  OBVIOUS
<1> DEFINE w == Len(wire)
           w1 == Len(wire')
           replay == 2 * candidate + 2
<1>0. candidate' = candidate
  BY Inputs DEF Next, callerVars
<1>1. wire \in Seq(Int) /\ wire' \in Seq(Int) /\ w \in Nat /\ w1 \in Nat
  BY DEF VInv, WireInv
<1>2. pc \in {"handshake", "drain"} => w <= 2 /\ next = 1
  BY DEF VInv, ProgressInv
<1>3. /\ candidate \in Nat /\ replay \in Nat
      /\ next \in 1..(candidate + 1) /\ refused \in 0..3
      /\ (pc = "read" => next <= candidate)
  BY VerifierAssumption DEF VInv, TypeOK, InputInv, ProgressInv, ConnectRetries
<1>4. /\ pc = "connect" => AttemptLeft = replay + 6 + (3 - refused)
      /\ pc = "handshake" => AttemptLeft = replay + 1 + 2 * (2 - w)
      /\ pc = "drain" => AttemptLeft = replay + 2 + 2 * (2 - w)
      /\ pc = "write" => AttemptLeft = replay - 2 * (next - 1)
      /\ pc = "read" => AttemptLeft = replay - 2 * (next - 1) - 1
  BY DEF AttemptLeft, ReplayCost, ConnectRetries
<1>5. /\ pc' = "connect" => AttemptLeft' = replay + 6 + (3 - refused')
      /\ pc' = "handshake" => AttemptLeft' = replay + 1 + 2 * (2 - w1)
      /\ pc' = "drain" => AttemptLeft' = replay + 2 + 2 * (2 - w1)
      /\ pc' = "write" => AttemptLeft' = replay - 2 * (next' - 1)
      /\ pc' = "read" => AttemptLeft' = replay - 2 * (next' - 1) - 1
      /\ pc' = "sleep" => AttemptLeft' = 1
  BY <1>0 DEF AttemptLeft, ReplayCost, ConnectRetries
<1>6. next <= candidate => replay - 2 * (next - 1) - 1 > 1
  BY <1>3
<1>7. CASE Connect
  <2>1. pc = "connect" /\ pc' = "handshake" /\ wire' = <<>> /\ w1 = 0
    BY <1>7 DEF Connect
  <2>2. AttemptLeft = replay + 6 + (3 - refused) /\ AttemptLeft' = replay + 1 + 2 * (2 - 0)
    BY <1>4, <1>5, <2>1
  <2> HIDE DEF w, w1, replay
  <2> QED BY <1>3, <2>2
<1>8. CASE Refused
  <2>1. pc = "connect" /\ pc' = "connect" /\ refused' = refused + 1
    BY <1>8 DEF Refused, Return
  <2>2. /\ AttemptLeft = replay + 6 + (3 - refused)
        /\ AttemptLeft' = replay + 6 + (3 - (refused + 1))
    BY <1>4, <1>5, <2>1
  <2> HIDE DEF w, w1, replay
  <2> QED BY <1>3, <2>2
<1>9. CASE WriteHandshake
  <2>1. /\ pc = "handshake" /\ next' = next
        /\ \/ pc' = "drain" /\ w1 = w + 1
           \/ pc' = "write"
    <3>1. conn = "open" => Len(Append(wire, Handshake[Len(wire) + 1])) = Len(wire) + 1
      BY <1>1
    <3> QED BY <1>9, <3>1 DEF WriteHandshake, Write
  <2>2. AttemptLeft = replay + 1 + 2 * (2 - w) /\ w <= 2 /\ next = 1
    BY <1>2, <1>4, <2>1
  <2>3. \/ AttemptLeft' = replay + 2 + 2 * (2 - (w + 1))
        \/ AttemptLeft' = replay - 2 * (1 - 1)
    BY <1>5, <2>1, <2>2
  <2> HIDE DEF w, w1, replay
  <2> QED BY <1>1, <1>3, <2>2, <2>3
<1>10. CASE DrainHandshake
  <2>1. pc = "drain" /\ pc' = "handshake" /\ w1 = w
    BY <1>10 DEF DrainHandshake
  <2>2. AttemptLeft = replay + 2 + 2 * (2 - w) /\ AttemptLeft' = replay + 1 + 2 * (2 - w)
    BY <1>4, <1>5, <2>1
  <2> HIDE DEF w, w1, replay
  <2> QED BY <1>1, <1>3, <2>2
<1>11. ASSUME pc \in {"write", "read"}, next <= candidate,
              \/ pc' = "sleep"
              \/ pc' = "write" /\ next' = next + 1
              \/ pc = "write" /\ pc' = "read" /\ next' = next
       PROVE  AttemptLeft' < AttemptLeft
  <2> DEFINE q == replay - 2 * (next - 1)
  <2>1. /\ q \in Int /\ q - 1 > 1
        /\ next' = next + 1 => replay - 2 * (next' - 1) = q - 2
    BY <1>3, <1>6, <1>11
  <2>2. /\ AttemptLeft = q \/ AttemptLeft = q - 1
        /\ pc = "write" => AttemptLeft = q
    BY <1>4, <1>11
  <2>3. \/ AttemptLeft' = 1
        \/ AttemptLeft' = q - 2
        \/ pc = "write" /\ AttemptLeft' = q - 1
    <3>1. CASE pc' = "sleep"
      BY <1>5, <3>1, Zenon
    <3>2. CASE pc' = "write" /\ next' = next + 1
      BY <1>5, <2>1, <3>2, Zenon
    <3>3. CASE pc = "write" /\ pc' = "read" /\ next' = next
      BY <1>5, <3>3, Zenon
    <3> QED BY <1>11, <3>1, <3>2, <3>3, Zenon
  <2> HIDE DEF w, w1, replay, q
  <2> QED BY <2>1, <2>2, <2>3
<1>12. CASE WriteMessage
  <2>1. pc = "write" /\ next <= candidate
        /\ (See("Error") \/ (pc' = "read" /\ next' = next))
    BY <1>12, WriteMoves
  <2> QED BY <1>11, <2>1, SeeMoves, Zenon
<1>13. CASE ReadMessage
  <2>1. pc = "read" /\ next <= candidate /\ See(Outcome)
    BY <1>3, <1>13 DEF ReadMessage
  <2> QED BY <1>11, <2>1, SeeMoves, Zenon
<1>14. CASE ReplayOver
  <2>1. pc = "write" /\ pc' = "sleep"
    BY <1>14 DEF ReplayOver
  <2>2. AttemptLeft = replay - 2 * (next - 1) /\ AttemptLeft' = 1
    BY <1>4, <1>5, <2>1
  <2>3. replay - 2 * (next - 1) > 1
    BY <1>3
  <2> HIDE DEF w, w1, replay
  <2> QED BY <2>2, <2>3
<1> QED BY <1>7, <1>8, <1>9, <1>10, <1>12, <1>13, <1>14 DEF Verify

LEMMA VerifyStepFalls ==
  ASSUME VInv, VInv', Verify PROVE StepsLeft' < StepsLeft
<1> DEFINE later == (MaxRetries - attempt) * AttemptCost
<1>1. later \in Nat /\ AttemptLeft \in Nat /\ AttemptLeft' \in Nat
  <2>1. VInv' => (AttemptLeft \in Nat)'
    BY AttemptLeftNat, PTL
  <2> QED BY <2>1, AttemptsLeft, AttemptLeftNat
<1>2. StepsLeft = IF pc = "returned" THEN 0 ELSE AttemptLeft + later
  BY DEF StepsLeft
<1>3. pc # "returned" /\ AttemptLeft > 0
  BY AttemptLeftNat DEF Verify, Connect, Refused, WriteHandshake, DrainHandshake,
     WriteMessage, ReadMessage, ReplayOver, NextAttempt
<1>4. candidate' = candidate
  BY Inputs DEF Next, callerVars
<1>5. CASE pc' = "returned"
  <2>1. StepsLeft' = 0
    BY <1>5 DEF StepsLeft
  <2> HIDE DEF later
  <2> QED BY <1>1, <1>2, <1>3, <2>1
<1>6. CASE pc' # "returned" /\ ~NextAttempt
  <2>1. attempt' = attempt
    BY <1>6 DEF Verify, Connect, Refused, WriteHandshake, DrainHandshake,
       WriteMessage, ReadMessage, ReplayOver
  <2>2. StepsLeft' = AttemptLeft' + later
    BY <1>4, <1>6, <2>1 DEF StepsLeft, AttemptCost
  <2>3. AttemptLeft' < AttemptLeft
    BY <1>6, AttemptStep
  <2>4. StepsLeft = AttemptLeft + later
    BY <1>2, <1>3
  <2> DEFINE l == later a == AttemptLeft a1 == AttemptLeft'
  <2>5. a + l > a1 + l
    <3>1. l \in Nat /\ a \in Nat /\ a1 \in Nat /\ a1 < a
      BY <1>1, <2>3
    <3> HIDE DEF l, a, a1
    <3> QED BY <3>1
  <2> QED BY <2>2, <2>4, <2>5
<1>7. CASE pc' # "returned" /\ NextAttempt
  <2> DEFINE rest == (MaxRetries - (attempt + 1)) * AttemptCost
  <2>1. /\ pc = "sleep" /\ pc' = "connect" /\ refused' = 0
        /\ attempt < MaxRetries /\ attempt' = attempt + 1
    BY <1>7 DEF NextAttempt, Return
  <2>2. later = rest + AttemptCost /\ rest \in Int
    <3>1. attempt + 1 \in Int /\ MaxRetries \in Int /\ AttemptCost \in Nat
      BY AttemptsLeft, VerifierAssumption DEF VInv, TypeOK
    <3> QED BY <2>1, <3>1, AttemptsLeft
  <2>3. StepsLeft' = AttemptLeft' + rest
    BY <1>4, <1>7, <2>1 DEF StepsLeft, AttemptCost
  <2>4. AttemptLeft = 1 /\ AttemptLeft' = AttemptCost
    BY <1>4, <2>1, VerifierAssumption
    DEF AttemptLeft, AttemptCost, ReplayCost, ConnectRetries, VInv, InputInv
  <2>5. AttemptCost \in Nat
    BY AttemptsLeft
  <2> HIDE DEF later, rest
  <2> QED BY <1>1, <1>2, <1>3, <2>2, <2>3, <2>4, <2>5
<1> QED BY <1>5, <1>6, <1>7

LEMMA TargetStepKeeps ==
  TakeIn \/ LateCrash \/ Restart \/ UNCHANGED vars => StepsLeft' = StepsLeft
<1> SUFFICES ASSUME TakeIn \/ LateCrash \/ Restart \/ UNCHANGED vars
             PROVE  StepsLeft' = StepsLeft
  OBVIOUS
<1>1. UNCHANGED <<candidate, pc, attempt, refused, next, wire>>
  BY DEF TakeIn, LateCrash, Restart, vars, callerVars, verifierVars
<1>2. AttemptLeft' = AttemptLeft
  BY <1>1 DEF AttemptLeft, ReplayCost
<1> QED BY <1>1, <1>2 DEF StepsLeft, AttemptCost

\* Whatever the target does, for candidates of any length and any number of retries:
\* verify takes a bounded number of steps, each of which lowers what is left, so an
\* attempt can neither start over nor be repeated without end.
THEOREM VerifierNearsItsVerdict == Spec => [](StepsLeft \in Nat) /\ [][NearsItsVerdict]_vars
<1>1. VInv => StepsLeft \in Nat
  BY StepsLeftNat
<1>2. VInv /\ VInv' /\ [Next]_vars => [NearsItsVerdict]_vars
  <2> SUFFICES ASSUME VInv, VInv', Next
               PROVE  StepsLeft' <= StepsLeft /\ (Verify => StepsLeft' < StepsLeft)
    BY DEF NearsItsVerdict
  <2>1. StepsLeft \in Nat /\ StepsLeft' \in Nat
    <3>1. VInv' => (StepsLeft \in Nat)'
      BY StepsLeftNat, PTL
    <3> QED BY <3>1, StepsLeftNat
  <2>2. Verify => StepsLeft' < StepsLeft
    BY VerifyStepFalls
  <2>3. TakeIn \/ LateCrash \/ Restart => StepsLeft' = StepsLeft
    BY TargetStepKeeps
  <2> QED BY <2>1, <2>2, <2>3 DEF Next
<1> QED BY <1>1, <1>2, SpecVInv, PTL DEF Spec
=============================================================================
