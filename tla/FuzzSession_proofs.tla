------------------------- MODULE FuzzSession_proofs -------------------------
(* Theorems about FuzzSession, for every set of setups (panels, generators, *)
(* peers) and every bound: its flags, its driver, and what it remembers,    *)
(* the history it hands to the shrinker and the order of the scenarios.     *)
EXTENDS FuzzSession, SequenceTheorems, TLAPS

-----------------------------------------------------------------------------
\* No message moves the machine out of Idle: the table has at most an entry
\* that stays there for it.
LEMMA IdleIgnoresMessages ==
  ASSUME NEW e \in WireEvent
  PROVE  /\ StepEntry(DefaultTransitions, "Idle", e).to = "Idle"
         /\ StepEntry(DefaultTransitions, "Idle", e).legality \in Legality
<1> DEFINE k == <<"Idle", e>>
           Row(key) == CHOOSE r \in TableRules : r[1] = key[1] /\ r[2] = key[2]
<1>1. CASE k \notin DOMAIN DefaultTransitions
  BY <1>1 DEF StepEntry, Legality
<1>2. CASE k \in DOMAIN DefaultTransitions
  <2>1. \E r \in TableRules : r[1] = k[1] /\ r[2] = k[2]
    BY <1>2 DEF DefaultTransitions
  <2>2. Row(k) \in TableRules /\ Row(k)[1] = "Idle" /\ Row(k)[2] = e
    BY <2>1
  <2>3. DefaultTransitions[k] = [to |-> Row(k)[3], legality |-> Row(k)[4]]
    BY <1>2 DEF DefaultTransitions
  <2>4. \A r \in TableRules :
          r[1] = "Idle" /\ r[2] \in WireEvent => r[3] = "Idle" /\ r[4] \in Legality
    BY DEF TableRules, Rules, LegalRules, IllegalKeys, WireEvent, Legality
  <2> HIDE DEF Row
  <2> QED BY <1>2, <2>2, <2>3, <2>4 DEF StepEntry
<1> QED BY <1>1, <1>2

-----------------------------------------------------------------------------
(* What a session is set up with stays.                                    *)

\* The decoder or the shrinker panics.
Panic == SendPanics \/ RecvPanics \/ ShrinkPanics

LEMMA SetupStep == [Next]_vars => setup' = setup
<1> SUFFICES ASSUME [Next]_vars PROVE setup' = setup
  OBVIOUS
<1> USE DEF flagVars, fixedVars
<1>1. CASE Iterate \/ Finish \/ Connected \/ Refused
  BY <1>1 DEF Iterate, Finish, Connected, Refused
<1>2. CASE ReadOpen \/ ReadKeepalive \/ EndSession \/ WriteFails
  BY <1>2 DEF ReadOpen, ReadKeepalive, EndSession, WriteFails
<1>3. CASE Take \/ Written \/ ReadData \/ ReadNothing
  BY <1>3 DEF Take, Written, ReadData, ReadNothing
<1>4. CASE Report \/ StartShrink \/ EndShrink \/ Panic
  BY <1>4 DEF Report, StartShrink, EndShrink, Panic,
     SendPanics, RecvPanics, ShrinkPanics, Unwind, DropStream
<1>5. CASE Environment
  BY <1>5 DEF Environment, CtrlC, DurationPasses, Tick, PeerSends, PeerAnswers,
              PeerAnnounces, PeerLeaves
<1>6. CASE Done \/ UNCHANGED vars
  BY <1>6 DEF Done, vars
<1> QED BY <1>1, <1>2, <1>3, <1>4, <1>5, <1>6 DEF Next, Session, Panic

-----------------------------------------------------------------------------
(* Ctrl-c.  Only one fuzz message can be past the check of the flag when   *)
(* it is set, and one that is past it has not been written yet; and what   *)
(* has been written of a handshake since then is at most that handshake.   *)

LateInv ==
  /\ late \in {<<>>, <<HandshakeOpen>>, <<HandshakeOpen, HandshakeKeepalive>>}
       \/ \E m : late = <<m>>
  /\ ~shutdown \/ pc \in {"connecting", "write"} => late = <<>>
  /\ pc = "hs_open" => late \in {<<>>, <<HandshakeOpen>>}

LEMMA SecondAppended ==
  ASSUME NEW S, NEW s \in Seq(S), NEW b \in S, Len(s) = 1
  PROVE  /\ Append(s, b) \in Seq(S) /\ Len(Append(s, b)) = 2
         /\ Append(s, b)[1] = s[1]
         /\ Append(s, b)[2] = b
<1>1. Append(s, b) \in Seq(S) /\ Len(Append(s, b)) = 2
  OBVIOUS
<1>2. Append(s, b)[1] = s[1]
  OBVIOUS
<1>3. Append(s, b)[2] = b
  <2>1. Append(s, b)[Len(s) + 1] = b
    BY AppendProperties, Zenon
  <2>2. Len(s) + 1 = 2
    OBVIOUS
  <2> QED BY <2>1, <2>2, Zenon
<1> QED BY <1>1, <1>2, <1>3, Zenon

LEMMA AppendToOne ==
  ASSUME NEW a, NEW b
  PROVE  Append(<<a>>, b) = <<a, b>>
<1> DEFINE t == Append(<<a>>, b)
           u == <<a, b>>
<1>1. <<a>> \in Seq({a, b}) /\ Len(<<a>>) = 1 /\ <<a>>[1] = a /\ b \in {a, b}
  OBVIOUS
<1>2. u \in Seq({a, b}) /\ Len(u) = 2 /\ u[1] = a /\ u[2] = b
  OBVIOUS
<1>3. t \in Seq({a, b}) /\ Len(t) = 2 /\ t[1] = a /\ t[2] = b
  BY <1>1, SecondAppended
<1> HIDE DEF t, u
<1>4. t = u
  <2>1. \A i \in 1..2 : i = 1 \/ i = 2
    OBVIOUS
  <2> QED BY <1>2, <1>3, <2>1, SeqEqual
<1> QED BY <1>4 DEF t, u

LEMMA LateStep == LateInv /\ [Next]_vars => LateInv'
<1> SUFFICES ASSUME LateInv, [Next]_vars PROVE LateInv'
  OBVIOUS
<1> USE DEF LateInv, flagVars, ghostVars, sessionVars
<1>1. CASE Iterate \/ Finish \/ Refused
  BY <1>1 DEF Iterate, Finish, Refused
<1>2. CASE Connected
  <2>1. /\ late = <<>> /\ shutdown' = shutdown /\ pc' = "hs_open"
        /\ late' = IF shutdown THEN Append(late, HandshakeOpen) ELSE late
    BY <1>2 DEF Connected, NoteLate
  <2>2. Append(<<>>, HandshakeOpen) = <<HandshakeOpen>>
    OBVIOUS
  <2> QED BY <2>1, <2>2
<1>3. CASE ReadOpen
  <2>1. /\ late \in {<<>>, <<HandshakeOpen>>}
        /\ ~shutdown => late = <<>>
        /\ shutdown' = shutdown /\ pc' = "hs_keepalive"
        /\ late' = late \/ (shutdown /\ late' = Append(late, HandshakeKeepalive))
    BY <1>3 DEF ReadOpen, NoteLate
  <2>2. /\ Append(<<>>, HandshakeKeepalive) = <<HandshakeKeepalive>>
        /\ Append(<<HandshakeOpen>>, HandshakeKeepalive)
             = <<HandshakeOpen, HandshakeKeepalive>>
    BY AppendToOne
  <2>3. CASE late' = late
    BY <2>1, <2>3
  <2>4. CASE shutdown /\ late' = Append(late, HandshakeKeepalive) /\ late = <<>>
    BY <2>1, <2>2, <2>4, Zenon
  <2>5. CASE shutdown /\ late' = Append(late, HandshakeKeepalive)
               /\ late = <<HandshakeOpen>>
    BY <2>1, <2>2, <2>5, Zenon
  <2> QED BY <2>1, <2>3, <2>4, <2>5
<1>4. CASE ReadKeepalive \/ EndSession \/ WriteFails
  BY <1>4 DEF ReadKeepalive, EndSession, WriteFails, Disconnect, DropStream
<1>5. CASE Take
  <2>1. ~shutdown /\ late' = late /\ shutdown' = shutdown
    BY <1>5 DEF Take, StopBatch
  <2> QED BY <2>1
<1>6. CASE Written \/ SendPanics
  <2>1. /\ late = <<>> /\ shutdown' = shutdown /\ pc' \in {"read", "panicked"}
        /\ late' = IF shutdown THEN Append(late, sent) ELSE late
    BY <1>6 DEF Written, SendPanics, NoteLate, Unwind
  <2>2. Append(<<>>, sent) = <<sent>>
    OBVIOUS
  <2> QED BY <2>1, <2>2
<1>7. CASE ReadData \/ ReadNothing
  BY <1>7 DEF ReadData, ReadNothing, Judge
<1>8. CASE Report \/ StartShrink \/ EndShrink
  BY <1>8 DEF Report, StartShrink, EndShrink, File
<1>9. CASE RecvPanics \/ ShrinkPanics
  BY <1>9 DEF RecvPanics, ShrinkPanics, Unwind
<1>10. CASE Environment
  BY <1>10 DEF Environment, CtrlC, DurationPasses, Tick, PeerSends, PeerAnswers,
               PeerAnnounces, PeerLeaves
<1>11. CASE Done \/ UNCHANGED vars
  BY <1>11 DEF Done, vars
<1> QED BY <1>1, <1>2, <1>3, <1>4, <1>5, <1>6, <1>7, <1>8, <1>9, <1>10, <1>11
        DEF Next, Session

\* However long a run and whatever the peer does: after ctrl-c at most one more
\* message goes out, or the two of the handshake of a connection being made.
THEOREM FewWritesAlways == Spec => []FewWritesAfterShutdown
<1>1. Init => LateInv
  BY DEF Init, LateInv
<1>2. LateInv => FewWritesAfterShutdown
  <2> SUFFICES ASSUME LateInv, late # <<HandshakeOpen, HandshakeKeepalive>>
               PROVE  Len(late) <= 1
    BY DEF FewWritesAfterShutdown
  <2>1. CASE late = <<>>
    BY <2>1
  <2>2. CASE \E m : late = <<m>>
    BY <2>2
  <2>3. late = <<>> \/ \E m : late = <<m>>
    BY DEF LateInv
  <2> QED BY <2>1, <2>2, <2>3
<1> QED BY <1>1, <1>2, LateStep, PTL DEF Spec

-----------------------------------------------------------------------------
(* The pending check.  It is set together with the message and outlives a  *)
(* failed write only until the next message replaces it.                   *)

PendingInv ==
  "NotificationCode" \in Panel /\ pc \in {"write", "read"} =>
    pending # <<>> /\ Head(pending).bytes = sent

LEMMA PendingStep == PendingInv /\ [Next]_vars => PendingInv'
<1> SUFFICES ASSUME PendingInv, [Next]_vars, "NotificationCode" \in Panel
             PROVE  pc' \in {"write", "read"} =>
                      pending' # <<>> /\ Head(pending').bytes = sent'
  BY SetupStep DEF PendingInv, Panel
<1> USE DEF PendingInv, oracleVars
<1>1. CASE Iterate \/ Finish \/ Connected \/ Refused
  BY <1>1 DEF Iterate, Finish, Connected, Refused
<1>2. CASE ReadOpen \/ ReadKeepalive \/ EndSession \/ WriteFails
  BY <1>2 DEF ReadOpen, ReadKeepalive, EndSession, WriteFails, Disconnect, DropStream
<1>3. CASE Take
  <2>1. Inject
    BY <1>3 DEF Take, UseGenerated
  <2>2. sent' = Head(Queue).bytes /\ pending' = <<Head(Queue)>>
    BY <2>1 DEF Inject, SetPending
  <2>3. Head(<<Head(Queue)>>) = Head(Queue) /\ <<Head(Queue)>> # <<>>
    OBVIOUS
  <2> QED BY <2>2, <2>3
<1>4. CASE Written
  BY <1>4 DEF Written
<1>5. CASE ReadData \/ ReadNothing
  BY <1>5 DEF ReadData, ReadNothing, Judge
<1>6. CASE Report \/ StartShrink \/ EndShrink \/ Panic
  BY <1>6 DEF Report, StartShrink, EndShrink, Panic,
     SendPanics, RecvPanics, ShrinkPanics, Unwind, DropStream, File
<1>7. CASE Environment
  BY <1>7 DEF Environment, CtrlC, DurationPasses, Tick, PeerSends, PeerAnswers,
              PeerAnnounces, PeerLeaves, sessionVars
<1>8. CASE Done \/ UNCHANGED vars
  BY <1>8 DEF Done, vars
<1> QED BY <1>1, <1>2, <1>3, <1>4, <1>5, <1>6, <1>7, <1>8 DEF Next, Session, Panic

\* An outcome is always judged against the scenario sent just before it, whatever
\* writes failed and however many connections came in between.
THEOREM PendingAlwaysMatches == Spec => []PendingIsTheMessageSent
<1>1. Init => PendingInv
  BY DEF Init, PendingInv
<1>2. PendingInv => PendingIsTheMessageSent
  BY DEF PendingInv, PendingIsTheMessageSent
<1> QED BY <1>1, <1>2, PendingStep, PTL DEF Spec

-----------------------------------------------------------------------------
(* The shadow FSM.  Everything that is ever sent or read is one of these   *)
(* messages, and none of them moves the machine out of Idle.               *)

AnyBatch == UNION {s.batches : s \in Setups}

Generated == UNION {{b[k] : k \in DOMAIN b} : b \in AnyBatch}

AnyReply == UNION {s.replies : s \in Setups}

AnyAnnouncement == UNION {s.announcements : s \in Setups}

AnyMessage ==
  Generated \cup AnyReply \cup AnyAnnouncement
    \cup {NoReply, HandshakeOpen, HandshakeKeepalive,
          HandshakeReplies[1], HandshakeReplies[2]}
    \cup {Scenarios[k].bytes : k \in 1..8}
    \cup {Notification(Scenarios[k].expected) : k \in 1..8}

AnyScenario == {Scenarios[k] : k \in 1..8}

LEMMA BuiltMessages ==
  ASSUME NEW name, NEW type \in MessageType, NEW form \in Form,
         form # "fatal",
         NEW code \in ErrorCode, NEW caps \in Caps, NEW nlri
  PROVE  IsMessage(Message(name, type, form, code, caps, nlri))
BY DEF IsMessage, Message

LEMMA PlainMessages ==
  ASSUME NEW name, NEW type \in MessageType
  PROVE  IsMessage(Plain(name, type))
<1>1. "whole" \in Form /\ NoCode \in ErrorCode /\ "plain" \in Caps
  BY DEF Form, NoCode, ErrorCode, Caps
<1> QED BY <1>1, BuiltMessages DEF Plain

LEMMA ScenarioForms ==
  ASSUME NEW k \in 1..8
  PROVE  \E name : \E type \in MessageType, form \in Form \ {"fatal"}, code \in ErrorCode :
           \E nlri : Scenarios[k] = Scenario(name, type, form, code, nlri)
<1>1. /\ {"BgpOpen", "BgpUpdate", "Unknown"} \subseteq MessageType
      /\ {"whole", "damaged"} \subseteq Form \ {"fatal"}
      /\ {<<1, 2>>, <<1, 3>>, <<2, 1>>, <<2, 2>>, <<2, 3>>, <<2, 5>>, <<3, 3>>,
          <<3, 8>>} \subseteq ErrorCode
  BY DEF MessageType, Form, ErrorCode
<1> USE <1>1
<1>2. CASE k = 1
  BY <1>2 DEF Scenarios
<1>3. CASE k = 2
  BY <1>3 DEF Scenarios
<1>4. CASE k = 3
  BY <1>4 DEF Scenarios
<1>5. CASE k = 4
  BY <1>5 DEF Scenarios
<1>6. CASE k = 5
  BY <1>6 DEF Scenarios
<1>7. CASE k = 6
  BY <1>7 DEF Scenarios
<1>8. CASE k = 7
  BY <1>8 DEF Scenarios
<1>9. CASE k = 8
  BY <1>9 DEF Scenarios
<1> QED BY <1>2, <1>3, <1>4, <1>5, <1>6, <1>7, <1>8, <1>9

LEMMA ScenariosTyped ==
  /\ Scenarios \in Seq(AnyScenario) /\ Len(Scenarios) = 8
  /\ \A k \in 1..8 : /\ IsMessage(Scenarios[k].bytes)
                     /\ Scenarios[k].expected \in ErrorCode
<1>1. Len(Scenarios) = 8 /\ DOMAIN Scenarios = 1..8
  BY DEF Scenarios
<1>2. Scenarios \in Seq(AnyScenario)
  <2>1. Scenarios = [k \in 1..8 |-> Scenarios[k]]
    BY DEF Scenarios
  <2>2. \A k \in 1..8 : Scenarios[k] \in AnyScenario
    BY DEF AnyScenario
  <2>3. 8 \in Nat
    OBVIOUS
  <2> QED BY <2>1, <2>2, <2>3
<1>3. ASSUME NEW k \in 1..8
      PROVE  /\ IsMessage(Scenarios[k].bytes)
             /\ Scenarios[k].expected \in ErrorCode
  <2>1. PICK name : \E type \in MessageType, form \in Form \ {"fatal"}, code \in ErrorCode :
          \E nlri : Scenarios[k] = Scenario(name, type, form, code, nlri)
    BY ScenarioForms
  <2>2. PICK type \in MessageType, form \in Form \ {"fatal"}, code \in ErrorCode :
          \E nlri : Scenarios[k] = Scenario(name, type, form, code, nlri)
    BY <2>1
  <2>3. PICK nlri : Scenarios[k] = Scenario(name, type, form, code, nlri)
    BY <2>2
  <2>4. /\ Scenarios[k].bytes = Message(name, type, form, NoCode, "plain", nlri)
        /\ Scenarios[k].expected = code
    BY <2>3 DEF Scenario
  <2>5. NoCode \in ErrorCode /\ "plain" \in Caps
    BY DEF NoCode, ErrorCode, Caps
  <2> QED BY <2>4, <2>5, BuiltMessages
<1> QED BY <1>1, <1>2, <1>3

LEMMA AnyIsMessage == \A m \in AnyMessage : IsMessage(m)
<1>1. \A m \in Generated \cup AnyReply \cup AnyAnnouncement : IsMessage(m)
  <2>1. ASSUME NEW b \in AnyBatch, NEW k \in DOMAIN b PROVE IsMessage(b[k])
    <3>1. PICK n \in 1..MaxBatch :
            b = [j \in 1..n |-> b[j]] /\ \A j \in 1..n : IsMessage(b[j])
      BY FuzzSessionAssumption DEF AnyBatch, IsBatch
    <3>2. k \in 1..n
      BY <3>1
    <3> QED BY <3>1, <3>2
  <2>2. \A m \in AnyReply \cup AnyAnnouncement : IsMessage(m)
    BY FuzzSessionAssumption DEF AnyReply, AnyAnnouncement
  <2> QED BY <2>1, <2>2 DEF Generated
<1>2. /\ "BgpOpen" \in MessageType /\ "BgpKeepalive" \in MessageType
      /\ "Unknown" \in MessageType /\ "BgpNotification" \in MessageType
      /\ "stub" \in Form /\ "whole" \in Form
      /\ NoCode \in ErrorCode /\ "plain" \in Caps
  BY DEF MessageType, Form, NoCode, ErrorCode, Caps
<1>3. /\ IsMessage(HandshakeOpen) /\ IsMessage(HandshakeKeepalive)
      /\ IsMessage(HandshakeReplies[1]) /\ IsMessage(HandshakeReplies[2])
  BY <1>2, PlainMessages DEF HandshakeOpen, HandshakeKeepalive, HandshakeReplies
<1>4. IsMessage(NoReply)
  BY <1>2, BuiltMessages DEF NoReply
<1>5. ASSUME NEW k \in 1..8
      PROVE  IsMessage(Scenarios[k].bytes)
             /\ IsMessage(Notification(Scenarios[k].expected))
  BY <1>2, BuiltMessages, ScenariosTyped DEF Notification
<1> QED BY <1>1, <1>3, <1>4, <1>5 DEF AnyMessage

LEMMA AnyIsIgnored ==
  ASSUME NEW m \in AnyMessage
  PROVE  /\ ClassifyMessage(m) \in WireEvent
         /\ StepEntry(DefaultTransitions, "Idle", ClassifyMessage(m)).to = "Idle"
         /\ StepEntry(DefaultTransitions, "Idle", ClassifyMessage(m)).legality \in Legality
<1>1. ClassifyMessage(m) \in WireEvent
  BY AnyIsMessage DEF ClassifyMessage, IsMessage, MessageType, WireEvent
<1> QED BY <1>1, IdleIgnoresMessages

IdleInv ==
  /\ state = "Idle"
  /\ event_log \in Seq(LogEntry)
  /\ \A k \in DOMAIN event_log : event_log[k].state_after = "Idle"
  /\ pc = "read" => event_log # <<>>
  /\ echo = <<>>

TrafficInv ==
  /\ setup \in Setups
  /\ sent \in AnyMessage
  /\ inbox \in Seq(AnyMessage)
  /\ batch \in Seq(Generated)
  /\ triggers \in Seq(AnyScenario)

\* Functions on 1..n are the lists.
LEMMA ListOf ==
  ASSUME NEW S, NEW n \in Nat, NEW b, b = [k \in 1..n |-> b[k]], \A k \in 1..n : b[k] \in S
  PROVE  b \in Seq(S)
<1>1. [k \in 1..n |-> b[k]] \in [1..n -> S]
  BY Zenon
<1>2. b \in [1..n -> S]
  BY <1>1, Zenon
<1> QED BY <1>2, SeqDef, Zenon

LEMMA RestOfSequence ==
  ASSUME NEW S, NEW seq \in Seq(S), NEW n \in 1..Len(seq)
  PROVE  SubSeq(seq, n + 1, Len(seq)) \in Seq(S)
<1>1. n + 1 \in Int /\ Len(seq) \in Int /\ \A k \in (n + 1)..Len(seq) : seq[k] \in S
  OBVIOUS
<1> QED BY <1>1, SubSeqProperties

LEMMA QueueTyped ==
  ASSUME TrafficInv
  PROVE  Queue \in Seq(AnyScenario) /\ Queue # <<>>
<1>1. Scenarios # <<>>
  <2>1. Len(Scenarios) = 8
    BY ScenariosTyped
  <2>2. Len(<<>>) = 0
    OBVIOUS
  <2> QED BY <2>1, <2>2
<1> QED BY <1>1, ScenariosTyped DEF TrafficInv, Queue

LEMMA TrafficStep == TrafficInv /\ [Next]_vars => TrafficInv'
<1> SUFFICES ASSUME TrafficInv, [Next]_vars PROVE TrafficInv'
  OBVIOUS
<1> USE SetupStep DEF TrafficInv, oracleVars, peerVars
<1>1. CASE Iterate \/ Finish \/ Refused \/ Written
  BY <1>1 DEF Iterate, Finish, Refused, Written
<1>2. CASE Connected
  <2>1. inbox' = <<>> /\ UNCHANGED <<sent, batch, triggers>>
    BY <1>2 DEF Connected
  <2> QED BY <2>1
<1>3. CASE ReadOpen
  <2>1. inbox' = inbox \/ \E n \in 1..Len(inbox) : inbox' = SubSeq(inbox, n + 1, Len(inbox))
    BY <1>3 DEF ReadOpen, HandshakeRead, ReadSome
  <2>2. UNCHANGED <<sent, batch, triggers>>
    BY <1>3 DEF ReadOpen
  <2> QED BY <2>1, <2>2, RestOfSequence
<1>4. CASE ReadKeepalive
  <2>1. inbox' = inbox \/ \E n \in 1..Len(inbox) : inbox' = SubSeq(inbox, n + 1, Len(inbox))
    BY <1>4 DEF ReadKeepalive, HandshakeRead, ReadSome
  <2>2. inbox' \in Seq(AnyMessage)
    BY <2>1, RestOfSequence
  <2>3. batch' \in Batches /\ batch' \in AnyBatch
    BY <1>4 DEF ReadKeepalive, Batches, AnyBatch
  <2>4. PICK n \in 1..MaxBatch : batch' = [k \in 1..n |-> batch'[k]]
    BY <2>3, FuzzSessionAssumption DEF Batches, IsBatch
  <2>5. batch' \in Seq(Generated)
    <3>1. n \in Nat /\ DOMAIN batch' = 1..n
      BY <2>4, FuzzSessionAssumption
    <3>2. \A k \in 1..n : batch'[k] \in Generated
      BY <2>3, <3>1 DEF Generated
    <3> DEFINE S == Generated b == batch'
    <3>3. b = [k \in 1..n |-> b[k]] /\ \A k \in 1..n : b[k] \in S
      BY <2>4, <3>2, Zenon
    <3> HIDE DEF S, b
    <3>4. b \in Seq(S)
      BY <3>1, <3>3, ListOf, Zenon
    <3> QED BY <3>4, Zenon DEF S, b
  <2>6. UNCHANGED <<sent, triggers>>
    BY <1>4 DEF ReadKeepalive
  <2> QED BY <2>2, <2>5, <2>6
<1>5. CASE EndSession \/ WriteFails
  <2>1. inbox' = <<>> /\ batch' = <<>> /\ UNCHANGED <<sent, triggers>>
    BY <1>5 DEF EndSession, WriteFails, Disconnect, DropStream
  <2> QED BY <2>1
<1>6. CASE Take
  <2>1. batch # <<>> /\ batch' = Tail(batch) /\ inbox' = inbox
    BY <1>6 DEF Take, StopBatch
  <2>2. Head(batch) \in Generated /\ batch' \in Seq(Generated)
    BY <2>1
  <2>3. CASE Inject
    <3>1. sent' = Head(Queue).bytes /\ triggers' = Tail(Queue)
      BY <2>3 DEF Inject, PopTrigger
    <3>2. Head(Queue) \in AnyScenario /\ Tail(Queue) \in Seq(AnyScenario)
      BY QueueTyped
    <3>3. sent' \in AnyMessage
      BY <3>1, <3>2 DEF AnyScenario, AnyMessage
    <3> QED BY <2>1, <2>2, <3>1, <3>2, <3>3
  <2>4. CASE UseGenerated
    BY <2>1, <2>2, <2>4 DEF UseGenerated, AnyMessage
  <2> QED BY <1>6, <2>3, <2>4 DEF Take
<1>7. CASE ReadData
  <2>1. PICK n \in 1..Len(inbox) : inbox' = SubSeq(inbox, n + 1, Len(inbox))
    BY <1>7 DEF ReadData, ReadSome
  <2>2. UNCHANGED <<sent, batch, triggers>>
    BY <1>7 DEF ReadData, Judge, PanelUpdate
  <2> QED BY <2>1, <2>2, RestOfSequence
<1>8. CASE ReadNothing
  BY <1>8 DEF ReadNothing, Judge, PanelUpdate
<1>9. CASE Report \/ StartShrink \/ EndShrink
  BY <1>9 DEF Report, StartShrink, EndShrink, File
<1>14. CASE Panic
  <2>1. inbox' = <<>> /\ batch' = <<>> /\ UNCHANGED <<sent, triggers>>
    BY <1>14 DEF Panic, SendPanics, RecvPanics, ShrinkPanics, Unwind, DropStream
  <2> QED BY <2>1
<1>10. CASE CtrlC \/ DurationPasses \/ Tick \/ PeerLeaves
  BY <1>10 DEF CtrlC, DurationPasses, Tick, PeerLeaves, sessionVars
<1>11. CASE PeerSends \/ PeerAnnounces
  <2>1. PICK m \in Replies \cup Announcements : inbox' = Append(inbox, m)
    BY <1>11 DEF PeerSends, PeerAnnounces
  <2>2. m \in AnyMessage
    BY DEF AnyMessage, AnyReply, AnyAnnouncement, Replies, Announcements
  <2>3. UNCHANGED <<sent, batch, triggers>>
    BY <1>11 DEF PeerSends, PeerAnnounces, sessionVars
  <2> QED BY <2>1, <2>2, <2>3
<1>12. CASE PeerAnswers
  <2>1. \/ inbox' = inbox \o HandshakeReplies
        \/ inbox' = inbox
        \/ \E k \in DOMAIN Scenarios :
             inbox' = Append(inbox, Notification(Scenarios[k].expected))
    BY <1>12 DEF PeerAnswers
  <2>2. /\ HandshakeReplies[1] \in AnyMessage
        /\ HandshakeReplies[2] \in AnyMessage
        /\ \A k \in DOMAIN Scenarios : Notification(Scenarios[k].expected) \in AnyMessage
    BY ScenariosTyped DEF AnyMessage
  <2>3. inbox' \in Seq(AnyMessage)
    <3> DEFINE o == HandshakeReplies[1]
               k == HandshakeReplies[2]
    <3>0. HandshakeReplies = <<o, k>>
      BY DEF HandshakeReplies
    <3> HIDE DEF o, k
    <3>1. o \in AnyMessage /\ k \in AnyMessage
      BY <2>2 DEF o, k
    <3>2. inbox \o <<o, k>> \in Seq(AnyMessage)
      BY <3>1
    <3>3. \A m \in AnyMessage : Append(inbox, m) \in Seq(AnyMessage)
      OBVIOUS
    <3> QED BY <2>1, <2>2, <3>0, <3>2, <3>3
  <2>4. UNCHANGED <<sent, batch, triggers>>
    BY <1>12 DEF PeerAnswers, sessionVars
  <2> QED BY <2>3, <2>4
<1>13. CASE Done \/ UNCHANGED vars
  BY <1>13 DEF Done, vars
<1> QED BY <1>1, <1>2, <1>3, <1>4, <1>5, <1>6, <1>7, <1>8, <1>9, <1>10, <1>11,
           <1>12, <1>13, <1>14 DEF Next, Session, Panic, Environment

\* Feeding the driver any message leaves it in Idle and logs that.
LEMMA FeedStaysIdle ==
  ASSUME IdleInv, NEW dir \in {"Sent", "Recv"}, NEW m \in AnyMessage,
         Feed(dir, ClassifyMessage(m))
  PROVE  /\ state' = "Idle"
         /\ event_log' \in Seq(LogEntry)
         /\ event_log' # <<>> /\ Len(event_log') = Len(event_log) + 1
         /\ \A k \in DOMAIN event_log' : event_log'[k].state_after = "Idle"
<1> DEFINE event == ClassifyMessage(m)
           entry == StepEntry(DefaultTransitions, "Idle", event)
           new == [dir |-> dir, event |-> event, state_after |-> entry.to,
                   legality |-> entry.legality]
<1>1. state' = entry.to /\ event_log' = Append(event_log, new)
  BY DEF IdleInv, Feed, PushLog
<1>2. event \in WireEvent /\ entry.to = "Idle" /\ entry.legality \in Legality
  BY AnyIsIgnored
<1> HIDE DEF event, entry
<1>3. new \in LogEntry /\ new.state_after = "Idle"
  BY <1>2 DEF LogEntry, EventType, MessageEvent, State
<1> HIDE DEF new
<1>4. /\ event_log' \in Seq(LogEntry) /\ event_log' # <<>>
      /\ Len(event_log') = Len(event_log) + 1
  BY <1>1, <1>3, AppendProperties DEF IdleInv
<1>5. ASSUME NEW k \in DOMAIN event_log'
      PROVE  event_log'[k].state_after = "Idle"
  <2>1. k \in DOMAIN event_log \/ k = Len(event_log) + 1
    BY <1>1, <1>3 DEF IdleInv
  <2>2. CASE k \in DOMAIN event_log
    BY <1>1, <1>3, <2>2 DEF IdleInv
  <2>3. CASE k = Len(event_log) + 1
    BY <1>1, <1>3, <2>3 DEF IdleInv
  <2> QED BY <2>1, <2>2, <2>3
<1> QED BY <1>1, <1>2, <1>4, <1>5

\* Nor do the oracles take the session for established.
LEMMA JudgeKeepsEcho ==
  ASSUME NEW x, Judge(x), echo = <<>>,
         event_log' \in Seq(LogEntry), event_log' # <<>>,
         \A k \in DOMAIN event_log' : event_log'[k].state_after = "Idle"
  PROVE  echo' = <<>> /\ pc' # "read"
<1>1. Len(event_log') \in DOMAIN event_log'
  OBVIOUS
<1>2. event_log'[Len(event_log')].state_after # "Established"
  BY <1>1
<1>3. echo' = <<>>
  BY <1>2 DEF Judge, PanelUpdate, EchoPending
<1> QED BY <1>3 DEF Judge

LEMMA IdleStep == IdleInv /\ TrafficInv /\ [Next]_vars => IdleInv'
<1> SUFFICES ASSUME IdleInv, TrafficInv, [Next]_vars PROVE IdleInv'
  OBVIOUS
<1> USE DEF fsmVars, oracleVars
<1>1. CASE Iterate \/ Finish \/ Connected \/ Refused
  BY <1>1 DEF IdleInv, Iterate, Finish, Connected, Refused
<1>2. CASE ReadOpen \/ ReadKeepalive \/ EndSession \/ WriteFails
  BY <1>2 DEF IdleInv, ReadOpen, ReadKeepalive, EndSession, WriteFails, Disconnect, DropStream
<1>3. CASE Take
  BY <1>3 DEF IdleInv, Take
<1>4. CASE Written
  <2>1. Feed("Sent", ClassifyMessage(sent)) /\ echo' = echo
    BY <1>4 DEF Written, OnSend
  <2>2. sent \in AnyMessage
    BY DEF TrafficInv
  <2> QED BY <2>1, <2>2, FeedStaysIdle DEF IdleInv
<1>5. CASE ReadData
  <2>1. Feed("Recv", ClassifyMessage(Head(inbox)))
    BY <1>5 DEF ReadData, OnRecv
  <2>2. Head(inbox) \in AnyMessage
    <3>1. inbox # <<>>
      BY <1>5 DEF ReadData
    <3> QED BY <3>1 DEF TrafficInv
  <2>3. /\ state' = "Idle"
        /\ event_log' \in Seq(LogEntry) /\ event_log' # <<>>
        /\ \A k \in DOMAIN event_log' : event_log'[k].state_after = "Idle"
    BY <2>1, <2>2, FeedStaysIdle
  <2>4. \E n \in 1..Len(inbox) :
          Judge([sent |-> sent, kind |-> "Data", reply |-> Head(inbox), alone |-> n = 1])
    BY <1>5 DEF ReadData
  <2>5. echo' = <<>> /\ pc' # "read"
    BY <2>3, <2>4, JudgeKeepsEcho DEF IdleInv
  <2> QED BY <2>3, <2>5 DEF IdleInv
<1>6. CASE ReadNothing
  <2>1. PICK kind \in RecvKind :
          /\ UNCHANGED fsmVars
          /\ Judge([sent |-> sent, kind |-> kind, reply |-> NoReply, alone |-> TRUE])
    BY <1>6 DEF ReadNothing
  <2>2. event_log' = event_log /\ state' = state /\ event_log # <<>>
    BY <1>6, <2>1 DEF IdleInv, ReadNothing
  <2>3. echo' = <<>> /\ pc' # "read"
    BY <2>1, <2>2, JudgeKeepsEcho DEF IdleInv
  <2> QED BY <2>2, <2>3 DEF IdleInv
<1>7. CASE Report \/ StartShrink \/ EndShrink \/ Panic
  BY <1>7 DEF IdleInv, Report, StartShrink, EndShrink, Panic,
     SendPanics, RecvPanics, ShrinkPanics, Unwind, DropStream, File
<1>8. CASE Environment
  BY <1>8 DEF IdleInv, Environment, CtrlC, DurationPasses, Tick, PeerSends,
              PeerAnswers, PeerAnnounces, PeerLeaves, sessionVars
<1>9. CASE Done \/ UNCHANGED vars
  BY <1>9 DEF IdleInv, Done, vars
<1> QED BY <1>1, <1>2, <1>3, <1>4, <1>5, <1>6, <1>7, <1>8, <1>9 DEF Next, Session, Panic

\* For every generator, peer, panel and length of run, the shadow FSM never
\* leaves Idle: the oracles that wait for Established never see it.
THEOREM ShadowAlwaysIdle == Spec => []ShadowStaysIdle
<1>1. Init => IdleInv
  BY DEF Init, IdleInv, DriverInit
<1>2. Init => TrafficInv
  BY DEF Init, TrafficInv, AnyMessage
<1>3. IdleInv => ShadowStaysIdle
  BY DEF IdleInv, ShadowStaysIdle
<1> QED BY <1>1, <1>2, <1>3, IdleStep, TrafficStep, PTL DEF Spec
-----------------------------------------------------------------------------
(* The history and the wire.  The wire has the handshake's two messages    *)
(* before the first of the batch, unless a write of the handshake was      *)
(* lost; but then the link is not writable and never will be again.        *)

HistoryInv ==
  link # "none" =>
    /\ wire \in Seq(AnyMessage)
    /\ Len(wire) >= 1
    /\ message_history = SubSeq(wire, 3, Len(wire))
    /\ pc = "hs_open" => Len(wire) = 1
    /\ pc # "hs_open" => Len(wire) >= 2 \/ ~Writable

\* Dropping the first two messages commutes with appending one.
LEMMA AppendBehindTwo ==
  ASSUME NEW S, NEW w \in Seq(S), NEW m \in S, Len(w) >= 2
  PROVE  /\ SubSeq(Append(w, m), 3, Len(Append(w, m)))
              = Append(SubSeq(w, 3, Len(w)), m)
         /\ Append(w, m) \in Seq(S) /\ Len(Append(w, m)) = Len(w) + 1
<1> DEFINE n == Len(w)
           a == SubSeq(Append(w, m), 3, n + 1)
           b == SubSeq(w, 3, n)
<1>1. n \in Nat /\ n >= 2 /\ Append(w, m) \in Seq(S) /\ Len(Append(w, m)) = n + 1
  OBVIOUS
<1>2. \A k \in 1..n : Append(w, m)[k] = w[k] /\ w[k] \in S
  OBVIOUS
<1>3. Append(w, m)[n + 1] = m
  OBVIOUS
<1>4. /\ a \in Seq(S) /\ Len(a) = n - 1
      /\ \A k \in 1..(n - 1) : a[k] = Append(w, m)[k + 2]
  <2>1. 3 \in Int /\ n + 1 \in Int /\ \A k \in 3..(n + 1) : Append(w, m)[k] \in S
    BY <1>1, <1>2, <1>3
  <2> QED BY <2>1, <1>1, SubSeqProperties
<1>5. /\ b \in Seq(S) /\ Len(b) = n - 2
      /\ \A k \in 1..(n - 2) : b[k] = w[k + 2]
  <2>1. 3 \in Int /\ n \in Int /\ \A k \in 3..n : w[k] \in S
    BY <1>1, <1>2
  <2>2. /\ b \in Seq(S) /\ Len(b) = IF 3 <= n THEN n - 3 + 1 ELSE 0
        /\ \A k \in 1..(n - 3 + 1) : b[k] = w[3 + k - 1]
    BY <2>1, SubSeqProperties
  <2> HIDE DEF b
  <2>3. n - 3 + 1 = n - 2 /\ \A k \in 1..(n - 2) : 3 + k - 1 = k + 2
    BY <1>1
  <2>4. (IF 3 <= n THEN n - 3 + 1 ELSE 0) = n - 2
    <3>1. CASE n = 2
      BY <3>1
    <3>2. CASE n # 2
      <4>1. n \in Nat /\ n >= 2
        BY <1>1
      <4> HIDE DEF n
      <4>2. 3 <= n
        BY <3>2, <4>1
      <4> QED BY <4>1, <4>2
    <3> QED BY <3>1, <3>2
  <2>5. Len(b) = n - 2
    BY <2>2, <2>4
  <2>6. \A k \in 1..(n - 2) : b[k] = w[k + 2]
    BY <2>2, <2>3, Zenon
  <2> QED BY <2>2, <2>5, <2>6
<1> HIDE DEF a, b
<1>6. /\ Append(b, m) \in Seq(S) /\ Len(Append(b, m)) = n - 1
      /\ \A k \in 1..(n - 2) : Append(b, m)[k] = b[k]
      /\ Append(b, m)[n - 1] = m
  BY <1>1, <1>5
<1>7. ASSUME NEW k \in 1..(n - 1) PROVE a[k] = Append(b, m)[k]
  <2>1. CASE k = n - 1
    BY <2>1, <1>1, <1>3, <1>4, <1>6
  <2>2. CASE k # n - 1
    <3>1. k \in 1..(n - 2) /\ k + 2 \in 1..n
      BY <2>2, <1>1
    <3> QED BY <3>1, <1>2, <1>4, <1>5, <1>6
  <2> QED BY <2>1, <2>2
<1>8. a = Append(b, m)
  BY <1>4, <1>6, <1>7, SeqEqual
<1> QED BY <1>1, <1>8 DEF a, b

LEMMA HistoryStep ==
  HistoryInv /\ TrafficInv /\ [Next]_vars => HistoryInv'
<1> SUFFICES ASSUME HistoryInv, TrafficInv, [Next]_vars, link' # "none"
             PROVE  HistoryInv'
  BY DEF HistoryInv
<1> USE DEF HistoryInv, Writable
<1>1. CASE Iterate \/ Finish \/ Refused
  BY <1>1 DEF Iterate, Finish, Refused, peerVars
<1>2. CASE Connected
  <2>1. wire' = <<HandshakeOpen>> /\ message_history' = <<>> /\ pc' = "hs_open"
    BY <1>2 DEF Connected, ClearedHistory
  <2>2. wire' \in Seq(AnyMessage) /\ Len(wire') = 1
    <3>1. HandshakeOpen \in AnyMessage
      BY DEF AnyMessage
    <3> QED BY <2>1, <3>1
  <2>3. SubSeq(wire', 3, Len(wire')) = <<>>
    BY <2>2, SubSeqEmpty
  <2> QED BY <2>1, <2>2, <2>3
<1>3. CASE ReadOpen
  <2>1. /\ pc = "hs_open" /\ pc' = "hs_keepalive"
        /\ UNCHANGED <<link, message_history>>
        /\ wire' = IF Writable THEN Append(wire, HandshakeKeepalive) ELSE wire
    BY <1>3 DEF ReadOpen, NoteLate
  <2>2. wire \in Seq(AnyMessage) /\ Len(wire) = 1 /\ message_history = <<>>
    BY <2>1, SubSeqEmpty
  <2>3. CASE Writable
    <3>1. HandshakeKeepalive \in AnyMessage
      BY DEF AnyMessage
    <3>2. wire' \in Seq(AnyMessage) /\ Len(wire') = 2
      <4>1. wire' = Append(wire, HandshakeKeepalive)
        BY <2>1, <2>3
      <4>2. Append(wire, HandshakeKeepalive) \in Seq(AnyMessage)
        BY <2>2, <3>1, AppendProperties
      <4>3. Len(Append(wire, HandshakeKeepalive)) = Len(wire) + 1
        BY <2>2, <3>1, AppendProperties
      <4> QED BY <2>2, <4>1, <4>2, <4>3
    <3>3. SubSeq(wire', 3, Len(wire')) = <<>>
      BY <3>2, SubSeqEmpty
    <3> QED BY <2>1, <2>2, <3>2, <3>3
  <2>4. CASE ~Writable
    BY <2>1, <2>2, <2>4
  <2> QED BY <2>3, <2>4
<1>4. CASE ReadKeepalive
  BY <1>4 DEF ReadKeepalive
<1>5. CASE EndSession \/ WriteFails
  BY <1>5 DEF EndSession, WriteFails, Disconnect, DropStream
<1>6. CASE Take
  BY <1>6 DEF Take, peerVars
<1>7. CASE Written
  <2>1. /\ pc = "write" /\ pc' = "read" /\ Writable /\ link' = link
        /\ wire' = Append(wire, sent)
        /\ message_history' = Append(message_history, sent)
    BY <1>7 DEF Written
  <2>2. Len(wire) >= 2 /\ wire \in Seq(AnyMessage) /\ sent \in AnyMessage
    BY <2>1 DEF TrafficInv
  <2> QED BY <2>1, <2>2, AppendBehindTwo
<1>8. CASE ReadData
  BY <1>8 DEF ReadData, Judge
<1>9. CASE ReadNothing
  BY <1>9 DEF ReadNothing, Judge, peerVars
<1>10. CASE Report \/ StartShrink \/ EndShrink \/ Panic
  BY <1>10 DEF Report, StartShrink, EndShrink, Panic,
     SendPanics, RecvPanics, ShrinkPanics, Unwind, DropStream, File, peerVars
<1>11. CASE CtrlC \/ DurationPasses \/ Tick
  BY <1>11 DEF CtrlC, DurationPasses, Tick, sessionVars, peerVars
<1>12. CASE PeerSends \/ PeerAnswers \/ PeerAnnounces
  BY <1>12 DEF PeerSends, PeerAnswers, PeerAnnounces, sessionVars
<1>13. CASE PeerLeaves
  BY <1>13 DEF PeerLeaves, sessionVars
<1>14. CASE Done \/ UNCHANGED vars
  BY <1>14 DEF Done, vars, peerVars
<1> QED BY <1>1, <1>2, <1>3, <1>4, <1>5, <1>6, <1>7, <1>8, <1>9, <1>10, <1>11,
           <1>12, <1>13, <1>14 DEF Next, Session, Panic, Environment

\* Whatever the peer does and however many connections there are, the history
\* handed to the shrinker is what this connection carried after the handshake.
THEOREM HistoryAlwaysTheWire == Spec => []HistoryIsTheWire
<1>1. Init => HistoryInv
  BY DEF Init, HistoryInv
<1>2. Init => TrafficInv
  BY DEF Init, TrafficInv, AnyMessage
<1>3. HistoryInv => HistoryIsTheWire
  BY DEF HistoryInv, HistoryIsTheWire
<1> QED BY <1>1, <1>2, <1>3, HistoryStep, TrafficStep, PTL DEF Spec

-----------------------------------------------------------------------------
(* The order of the scenarios.  What is left in the queue tells which      *)
(* scenario was injected last; that one ends the history, unless it is     *)
(* still to be written.                                                    *)

NextScenario(k) == (k % Len(Scenarios)) + 1

HistoryEndsBefore(q) ==
  \/ message_history = <<>>
  \/ \E k \in 1..8 :
       /\ NextScenario(k) = q
       /\ message_history[Len(message_history)] = Scenarios[k].bytes

QueueAt(q) ==
  /\ Queue = SubSeq(Scenarios, q, 8)
  /\ pc \in {"hs_open", "hs_keepalive", "send", "read", "report", "shrinking"} =>
       HistoryEndsBefore(q)
  /\ pc = "write" =>
       \E k \in 1..8 : /\ NextScenario(k) = q
                       /\ sent = Scenarios[k].bytes
                       /\ HistoryEndsBefore(k)

Follows(m, n) ==
  \E k \in DOMAIN Scenarios :
    m = Scenarios[k].bytes /\ n = Scenarios[NextScenario(k)].bytes

OrderInv ==
  "NotificationCode" \in Panel =>
    /\ message_history \in Seq(AnyMessage)
    /\ \A i \in 1..(Len(message_history) - 1) :
         Follows(message_history[i], message_history[i + 1])
    /\ \E q \in 1..8 : QueueAt(q)

LEMMA NextScenarioIs ==
  ASSUME NEW k \in 1..8
  PROVE  /\ NextScenario(k) \in 1..8
         /\ k < 8 => NextScenario(k) = k + 1
         /\ k = 8 => NextScenario(k) = 1
<1>1. NextScenario(k) = (k % 8) + 1
  BY ScenariosTyped DEF NextScenario
<1>2. k = 8 => k % 8 = 0
  OBVIOUS
<1>3. k < 8 => k % 8 = k
  OBVIOUS
<1> QED BY <1>1, <1>2, <1>3

\* Popping the queue at q leaves it at the next scenario.
LEMMA PopMovesOn ==
  ASSUME NEW q \in 1..8, Queue = SubSeq(Scenarios, q, 8), PopTrigger
  PROVE  /\ Head(Queue) = Scenarios[q]
         /\ Queue' = SubSeq(Scenarios, NextScenario(q), 8)
<1>1. /\ Head(Queue) = Scenarios[q]
      /\ Tail(Queue) = SubSeq(Scenarios, q + 1, 8)
  <2>1. q \in 1..Len(Scenarios) /\ 8 \in q..Len(Scenarios)
    BY ScenariosTyped
  <2> QED BY <2>1, ScenariosTyped, HeadTailOfSubSeq
<1>2. triggers' = SubSeq(Scenarios, q + 1, 8)
  BY <1>1 DEF PopTrigger
<1>3. Queue' = IF triggers' = <<>> THEN Scenarios ELSE triggers'
  BY DEF Queue
<1>4. CASE q = 8
  <2>1. triggers' = <<>>
    BY <1>2, <1>4, SubSeqEmpty
  <2>2. Scenarios = SubSeq(Scenarios, 1, 8)
    BY ScenariosTyped, SubSeqFull
  <2> QED BY <1>1, <1>3, <1>4, <2>1, <2>2, NextScenarioIs
<1>5. CASE q < 8
  <2>1. q + 1 \in 1..8
    BY <1>5
  <2>2. /\ q + 1 \in Int /\ 8 \in Int
        /\ \A k \in (q + 1)..8 : Scenarios[k] \in AnyScenario
    <3>1. q + 1 \in Int /\ 8 \in Int
      OBVIOUS
    <3>2. ASSUME NEW k \in (q + 1)..8 PROVE Scenarios[k] \in AnyScenario
      <4>1. k \in 1..8
        OBVIOUS
      <4> QED BY <4>1, Zenon DEF AnyScenario
    <3> QED BY <3>1, <3>2
  <2>3. Len(SubSeq(Scenarios, q + 1, 8)) = IF q + 1 <= 8 THEN 8 - (q + 1) + 1 ELSE 0
    BY <2>2, SubSeqProperties
  <2>4. Len(triggers') # 0
    BY <1>2, <1>5, <2>3
  <2>5. triggers' # <<>>
    BY <2>4
  <2> QED BY <1>1, <1>2, <1>3, <1>5, <2>5, NextScenarioIs
<1> QED BY <1>4, <1>5

LEMMA OrderStep ==
  OrderInv /\ TrafficInv /\ [Next]_vars => OrderInv'
<1> SUFFICES ASSUME OrderInv, TrafficInv, [Next]_vars, "NotificationCode" \in Panel
             PROVE  /\ (message_history \in Seq(AnyMessage))'
                    /\ (\A i \in 1..(Len(message_history) - 1) :
                          Follows(message_history[i], message_history[i + 1]))'
                    /\ \E q \in 1..8 : QueueAt(q)'
  BY SetupStep DEF OrderInv, Panel
<1>0. /\ message_history \in Seq(AnyMessage)
      /\ \A i \in 1..(Len(message_history) - 1) :
           Follows(message_history[i], message_history[i + 1])
  BY DEF OrderInv
<1>q. PICK q \in 1..8 : QueueAt(q)
  BY DEF OrderInv
<1> USE DEF QueueAt, HistoryEndsBefore, Queue, oracleVars
<1>1. CASE Iterate \/ Finish \/ Refused
  BY <1>0, <1>q, <1>1 DEF Iterate, Finish, Refused
<1>2. CASE Connected
  <2>1. /\ message_history' = <<>> /\ triggers' = triggers /\ pc' = "hs_open"
    BY <1>2 DEF Connected, ClearedHistory
  <2>2. message_history' \in Seq(AnyMessage) /\ 1..(Len(message_history') - 1) = {}
    BY <2>1
  <2>3. QueueAt(q)'
    BY <1>q, <2>1
  <2> QED BY <2>2, <2>3
<1>3. CASE ReadOpen \/ ReadKeepalive
  BY <1>0, <1>q, <1>3 DEF ReadOpen, ReadKeepalive
<1>4. CASE EndSession \/ WriteFails
  BY <1>0, <1>q, <1>4 DEF EndSession, WriteFails, Disconnect, DropStream
<1>5. CASE Take
  <2>1. /\ pc = "send" /\ pc' = "write" /\ message_history' = message_history
    BY <1>5 DEF Take
  <2>2. sent' = Head(Queue).bytes /\ PopTrigger
    BY <1>5 DEF Take, UseGenerated, Inject
  <2>3. /\ Head(Queue) = Scenarios[q]
        /\ Queue' = SubSeq(Scenarios, NextScenario(q), 8)
    BY <1>q, <2>2, PopMovesOn
  <2>4. NextScenario(q) \in 1..8
    BY NextScenarioIs
  <2>5. HistoryEndsBefore(q)' 
    BY <1>q, <2>1
  <2>6. QueueAt(NextScenario(q))'
    BY <2>1, <2>2, <2>3, <2>5
  <2> QED BY <1>0, <2>1, <2>4, <2>6
<1>6. CASE Written
  <2>1. /\ pc = "write" /\ pc' = "read" /\ triggers' = triggers
        /\ message_history' = Append(message_history, sent)
    BY <1>6 DEF Written
  <2>2. PICK k \in 1..8 : /\ NextScenario(k) = q
                          /\ sent = Scenarios[k].bytes
                          /\ HistoryEndsBefore(k)
    BY <1>q, <2>1
  <2> DEFINE n == Len(message_history)
  <2>3. /\ n \in Nat
        /\ message_history' \in Seq(AnyMessage) /\ Len(message_history') = n + 1
        /\ \A i \in 1..n : message_history'[i] = message_history[i]
        /\ message_history'[n + 1] = sent
    <3>1. sent \in AnyMessage
      BY DEF TrafficInv
    <3> QED BY <1>0, <2>1, <3>1, AppendProperties
  <2>4. QueueAt(q)'
    BY <1>q, <2>1, <2>2, <2>3
  <2>5. ASSUME NEW i \in 1..n
        PROVE  Follows(message_history'[i], message_history'[i + 1])
    <3>1. CASE i = n
      <4>1. message_history # <<>>
        BY <3>1
      <4>2. PICK j \in 1..8 : /\ NextScenario(j) = k
                              /\ message_history[n] = Scenarios[j].bytes
        BY <2>2, <4>1
      <4>3. j \in DOMAIN Scenarios
        BY ScenariosTyped
      <4> QED BY <2>2, <2>3, <3>1, <4>2, <4>3 DEF Follows
    <3>2. CASE i # n
      <4>1. i \in 1..(n - 1) /\ i + 1 \in 1..n
        BY <2>3, <3>2
      <4> QED BY <1>0, <2>3, <4>1
    <3> QED BY <3>1, <3>2
  <2>6. 1..(Len(message_history') - 1) = 1..n
    BY <2>3, SMTT(20)
  <2> QED BY <2>3, <2>4, <2>5, <2>6, Zenon
<1>7. CASE ReadData \/ ReadNothing
  BY <1>0, <1>q, <1>7 DEF ReadData, ReadNothing, Judge, PanelUpdate
<1>8. CASE Report \/ StartShrink \/ EndShrink \/ Panic
  BY <1>0, <1>q, <1>8 DEF Report, StartShrink, EndShrink, Panic,
     SendPanics, RecvPanics, ShrinkPanics, Unwind, DropStream, File
<1>9. CASE Environment
  BY <1>0, <1>q, <1>9 DEF Environment, CtrlC, DurationPasses, Tick, PeerSends,
                          PeerAnswers, PeerAnnounces, PeerLeaves, sessionVars
<1>10. CASE Done \/ UNCHANGED vars
  BY <1>0, <1>q, <1>10 DEF Done, vars
<1> QED BY <1>1, <1>2, <1>3, <1>4, <1>5, <1>6, <1>7, <1>8, <1>9, <1>10, Zenon
        DEF Next, Session, Panic

\* On every connection of every run the scenarios go out in queue order without
\* a gap, wherever earlier connections broke off.
THEOREM ScenariosAlwaysInOrder == Spec => []ScenariosInOrder
<1>1. Init => OrderInv
  <2> SUFFICES ASSUME Init PROVE OrderInv
    OBVIOUS
  <2>1. Queue = SubSeq(Scenarios, 1, 8)
    BY ScenariosTyped, SubSeqFull DEF Init, Queue
  <2>2. QueueAt(1)
    BY <2>1 DEF Init, QueueAt
  <2>3. message_history \in Seq(AnyMessage) /\ Len(message_history) = 0
    BY DEF Init
  <2> QED BY <2>2, <2>3 DEF OrderInv
<1>2. Init => TrafficInv
  BY DEF Init, TrafficInv, AnyMessage
<1>3. OrderInv => ScenariosInOrder
  BY DEF OrderInv, ScenariosInOrder, Follows, NextScenario
<1> QED BY <1>1, <1>2, <1>3, OrderStep, TrafficStep, PTL DEF Spec
=============================================================================
