-------------------------- MODULE ShadowFsm_proofs --------------------------
(* Theorems about ShadowFsm, for every bound and every set of edited keys. *)
EXTENDS ShadowFsm, TLAPS

-----------------------------------------------------------------------------
(* The default transition table, by inspection of its rules. *)

LEMMA RulesTyped ==
  \A r \in TableRules : /\ r[1] \in State /\ r[2] \in EventType
                        /\ r[3] \in State /\ r[4] \in Legality
<1> SUFFICES ASSUME NEW r \in TableRules
             PROVE  /\ r[1] \in State /\ r[2] \in EventType
                    /\ r[3] \in State /\ r[4] \in Legality
  OBVIOUS
<1> USE DEF State, EventType, AdminEvent, TimerEvent, TcpEvent, MessageEvent, WireEvent,
            Legality
<1>1. ASSUME NEW q \in LegalRules, r = <<q[1], q[2], q[3], "Legal">>
      PROVE  /\ r[1] \in State /\ r[2] \in EventType
             /\ r[3] \in State /\ r[4] \in Legality
  BY <1>1 DEF LegalRules
<1>2. ASSUME NEW k \in IllegalKeys, r = <<k[1], k[2], k[1], "Illegal">>
      PROVE  /\ r[1] \in State /\ r[2] \in EventType
             /\ r[3] \in State /\ r[4] \in Legality
  BY <1>2 DEF IllegalKeys
<1>3. CASE r = <<"Connect", "AutomaticStart", "Connect", "Unspecified">>
  BY <1>3
<1> QED BY <1>1, <1>2, <1>3 DEF TableRules, Rules

\* Entries that are not Legal are self-loops.
LEMMA OnlyLegalRulesMove ==
  \A r \in TableRules : r[4] # "Legal" => r[3] = r[1]
BY DEF TableRules, Rules, LegalRules, IllegalKeys

\* Every entry of the default table is a rule of the table.
LEMMA DefaultEntry ==
  ASSUME NEW k \in DOMAIN DefaultTransitions
  PROVE  \E r \in TableRules :
           /\ k = <<r[1], r[2]>>
           /\ DefaultTransitions[k] = [to |-> r[3], legality |-> r[4]]
<1> DEFINE Row(key) == CHOOSE r \in TableRules : r[1] = key[1] /\ r[2] = key[2]
<1>1. PICK r \in TableRules : k = <<r[1], r[2]>>
  BY DEF DefaultTransitions
<1>2. /\ Row(k) \in TableRules
      /\ Row(k)[1] = k[1] /\ Row(k)[2] = k[2]
  <2>1. \E q \in TableRules : q[1] = k[1] /\ q[2] = k[2]
    BY <1>1
  <2> QED BY <2>1
<1>3. k = <<Row(k)[1], Row(k)[2]>>
  BY <1>1, <1>2
<1>4. DefaultTransitions[k] = [to |-> Row(k)[3], legality |-> Row(k)[4]]
  BY DEF DefaultTransitions
<1> QED BY <1>2, <1>3, <1>4, Zenon

LEMMA DefaultTyped ==
  /\ DOMAIN DefaultTransitions \subseteq TransitionKey
  /\ \A k \in DOMAIN DefaultTransitions : DefaultTransitions[k] \in TransitionEntry
BY DefaultEntry, RulesTyped DEF TransitionKey, TransitionEntry

-----------------------------------------------------------------------------
(* Types and timers *)

IInv == TypeOK /\ TimersCountDown

\* A step stays within the states, whatever the table was edited to.
LEMMA StepEntryTyped ==
  ASSUME TypeOK, NEW event \in EventType
  PROVE  StepEntry(transitions, state, event) \in TransitionEntry
BY DEF TypeOK, StepEntry, TransitionEntry, Legality

LEMMA InitIInv == Init => IInv
BY DefaultTyped, NotRunningAssumption
   DEF Init, IInv, TypeOK, TimersCountDown, Running, State, TimerEvent

LEMMA StepIInv ==
  ASSUME IInv, NEW event \in EventType, Step(event)
  PROVE  IInv'
<1>1. state' \in State
  BY StepEntryTyped DEF IInv, Step, TransitionEntry
<1> QED BY <1>1 DEF IInv, TypeOK, TimersCountDown, Running, Step

LEMMA TickIInv ==
  ASSUME IInv, NEW s \in 0..MaxStep, TickSeconds(s)
  PROVE  IInv'
<1> USE NotRunningAssumption, BoundsAssumption DEF IInv
<1>1. \A t \in Timer : session'[t] = AdvanceTimer(session[t], s)
  BY DEF TickSeconds
<1>2. session' \in [Timer -> Nat \cup {NotRunning}]
  BY DEF TickSeconds, TypeOK, AdvanceTimer
<1>3. expired' \subseteq TimerEvent
  BY DEF TickSeconds, ExpiryEvent, TimerEvent, Timer
<1>4. now' \in Nat /\ now' = now + s
  BY DEF TickSeconds, TypeOK
<1>5. deadline' \in [Timer -> Nat]
  BY DEF TickSeconds, TypeOK
<1>6. TimersCountDown'
  <2> SUFFICES ASSUME NEW t \in Timer, session'[t] # NotRunning
               PROVE  deadline'[t] = now' + session'[t]
    BY DEF TimersCountDown, Running
  <2>1. session[t] # NotRunning /\ session'[t] = session[t] - s
    BY <1>1 DEF AdvanceTimer
  <2>2. deadline'[t] = deadline[t]
    BY DEF TickSeconds
  <2>3. deadline[t] = now + session[t]
    BY <2>1 DEF TimersCountDown, Running
  <2>4. session[t] \in Nat /\ now \in Nat
    BY <2>1 DEF TypeOK
  <2> QED BY <1>4, <2>1, <2>2, <2>3, <2>4
<1> QED BY <1>2, <1>3, <1>4, <1>5, <1>6 DEF TickSeconds, TypeOK

LEMMA SetTimerIInv ==
  ASSUME IInv, NEW t \in Timer, NEW v \in 0..MaxTimer \cup {NotRunning},
         SetTimer(t, v)
  PROVE  IInv'
<1>1. v = NotRunning \/ v \in Nat
  BY BoundsAssumption
<1>2. TypeOK'
  BY <1>1 DEF IInv, TypeOK, SetTimer
<1>3. TimersCountDown'
  BY <1>1 DEF IInv, TypeOK, TimersCountDown, Running, SetTimer
<1> QED BY <1>2, <1>3 DEF IInv

LEMMA InjectIInv ==
  ASSUME IInv, Inject
  PROVE  IInv'
<1> USE BoundsAssumption DEF IInv
<1>0. Edit
  BY DEF Inject, SetState, AddTransition, RemoveTransition
<1>1. TimersCountDown' /\ edits' \in Nat
  BY <1>0 DEF Edit, TypeOK, TimersCountDown, Running
<1>2. CASE \E s \in State : SetState(s)
  BY <1>1, <1>2 DEF SetState, Edit, TypeOK
<1>3. CASE \E k \in Injectable, entry \in TransitionEntry : AddTransition(k, entry)
  BY <1>1, <1>3 DEF AddTransition, Edit, TypeOK
<1>4. CASE \E k \in Injectable : RemoveTransition(k)
  BY <1>1, <1>4 DEF RemoveTransition, Edit, TypeOK
<1> QED BY <1>2, <1>3, <1>4 DEF Inject

LEMMA NextIInv == IInv /\ [Next]_vars => IInv'
<1> SUFFICES ASSUME IInv, [Next]_vars PROVE IInv'
  OBVIOUS
<1>1. CASE \E e \in EventType : Step(e)
  BY <1>1, StepIInv
<1>2. CASE \E s \in 0..MaxStep : TickSeconds(s)
  BY <1>2, TickIInv
<1>3. CASE \E t \in Timer, v \in 0..MaxTimer \cup {NotRunning} : SetTimer(t, v)
  BY <1>3, SetTimerIInv
<1>4. CASE Inject
  BY <1>4, InjectIInv
<1>5. CASE UNCHANGED vars
  BY <1>5 DEF IInv, TypeOK, TimersCountDown, Running, vars, fsmVars
<1> QED BY <1>1, <1>2, <1>3, <1>4, <1>5 DEF Next, Operate

LEMMA SpecIInv == Spec => []IInv
BY InitIInv, NextIInv, PTL DEF Spec

\* Whatever a caller edits, arms and ticks, the machine is in one of the six
\* states, and its timers are None or a natural number of seconds.
THEOREM TypeCorrect == Spec => []TypeOK
BY SpecIInv, PTL DEF IInv

\* advance_timer never loses or gains a second, and never wraps.
THEOREM TimersAlwaysCountDown == Spec => []TimersCountDown
BY SpecIInv, PTL DEF IInv

\* tick_seconds reports an expiry exactly when the armed instant is reached.
THEOREM ExpiryAlwaysOnTime == Spec => ExpiryIsOnTime
<1>1. ASSUME IInv, NEW s \in 0..MaxStep, TickSeconds(s), NEW t \in Timer
      PROVE  (ExpiryEvent[t] \in expired') <=> (Running(t) /\ deadline[t] <= now + s)
  <2>1. (ExpiryEvent[t] \in expired') <=> Expires(session[t], s)
    BY <1>1 DEF TickSeconds, ExpiryEvent, Timer
  <2>2. Running(t) => /\ session[t] \in Nat /\ now \in Nat
                      /\ deadline[t] = now + session[t]
    BY <1>1 DEF IInv, TypeOK, TimersCountDown, Running
  <2> QED BY <1>1, <2>1, <2>2, BoundsAssumption DEF Expires, Running
<1>2. IInv => [\A s \in 0..MaxStep : TickSeconds(s) =>
                 \A t \in Timer : (ExpiryEvent[t] \in expired')
                                    <=> (Running(t) /\ deadline[t] <= now + s)]_vars
  BY <1>1
<1> QED BY SpecIInv, <1>2, PTL DEF ExpiryIsOnTime

-----------------------------------------------------------------------------
(* The machine until somebody edits it *)

DefaultInv == Unedited => transitions = DefaultTransitions

\* An edit is counted, and the count never returns to zero.
LEMMA EditsStay ==
  ASSUME TypeOK, Inject
  PROVE  ~Unedited'
<1>1. Edit
  BY DEF Inject, SetState, AddTransition, RemoveTransition
<1> QED BY <1>1 DEF TypeOK, Edit, Unedited

LEMMA NextDefaultInv ==
  ASSUME TypeOK, DefaultInv, [Next]_vars
  PROVE  DefaultInv'
<1>1. CASE Inject
  BY <1>1, EditsStay DEF DefaultInv
<1>2. CASE Operate \/ UNCHANGED vars
  BY <1>2 DEF Operate, Step, TickSeconds, SetTimer, vars, fsmVars, DefaultInv, Unedited
<1> QED BY <1>1, <1>2 DEF Next

LEMMA SpecDefaultInv == Spec => [](TypeOK /\ DefaultInv)
<1>1. Init => DefaultInv
  BY DEF Init, DefaultInv
<1>2. TypeOK /\ DefaultInv /\ [Next]_vars => DefaultInv'
  BY NextDefaultInv
<1> QED BY TypeCorrect, <1>1, <1>2, PTL DEF Spec

\* A step that moves the machine is a Legal rule of the table.
LEMMA MovesAreRules ==
  ASSUME DefaultInv, Unedited, NEW e \in EventType, Step(e), state' # state
  PROVE  <<state, e, state'>> \in LegalRules
<1>1. <<state, e>> \in DOMAIN DefaultTransitions
  BY DEF DefaultInv, Step, StepEntry
<1>2. PICK r \in TableRules :
        /\ <<state, e>> = <<r[1], r[2]>>
        /\ DefaultTransitions[<<state, e>>] = [to |-> r[3], legality |-> r[4]]
  BY <1>1, DefaultEntry
<1>3. state' = r[3] /\ state = r[1] /\ e = r[2]
  BY <1>1, <1>2 DEF DefaultInv, Step, StepEntry
<1>4. r[4] = "Legal"
  BY <1>3, OnlyLegalRulesMove
<1>5. \E q \in LegalRules : r = <<q[1], q[2], q[3], "Legal">>
  BY <1>4 DEF TableRules, Rules
<1>6. \A q \in LegalRules : q = <<q[1], q[2], q[3]>>
  BY DEF LegalRules
<1> QED BY <1>3, <1>5, <1>6

\* An event the table calls Illegal, or does not know, never moves the machine.
THEOREM OnlyLegalAlways == Spec => OnlyLegalMoves
<1>1. ASSUME DefaultInv, Unedited, NEW e \in EventType, Step(e), state' # state
      PROVE  StepEntry(transitions, state, e).legality = "Legal"
  <2>1. <<state, e>> \in DOMAIN DefaultTransitions
    BY <1>1 DEF DefaultInv, Step, StepEntry
  <2>2. PICK r \in TableRules :
          /\ <<state, e>> = <<r[1], r[2]>>
          /\ DefaultTransitions[<<state, e>>] = [to |-> r[3], legality |-> r[4]]
    BY <2>1, DefaultEntry
  <2> QED BY <1>1, <2>1, <2>2, OnlyLegalRulesMove DEF DefaultInv, Step, StepEntry
<1>2. DefaultInv => [\A e \in EventType : Unedited /\ Step(e) /\ state' # state =>
                       StepEntry(transitions, state, e).legality = "Legal"]_vars
  BY <1>1
<1> QED BY SpecDefaultInv, <1>2, PTL DEF OnlyLegalMoves

\* Every Legal rule climbs one rung, falls to rung 0 or 1, or stays.
LEMMA RulesClimb ==
  \A q \in LegalRules :
    \/ Rung(q[1]) < 4 /\ Rung(q[3]) = Rung(q[1]) + 1
    \/ Rung(q[3]) \in {0, 1} /\ Rung(q[3]) < Rung(q[1])
    \/ Rung(q[3]) = Rung(q[1])
BY DEF LegalRules, Rung

\* Until it is edited the machine implements the session ladder.
THEOREM TableClimbs == Spec => ClimbsTheLadder
<1>1. Init => Ladder!Init
  BY DEF Init, Ladder!Init, LadderRung, Unedited, Rung
<1>2. TypeOK /\ DefaultInv /\ [Next]_vars => [Ladder!Next]_LadderRung
  <2> SUFFICES ASSUME TypeOK, DefaultInv, [Next]_vars, LadderRung' # LadderRung
               PROVE  Ladder!Next
    OBVIOUS
  <2>1. ASSUME NEW s \in State PROVE Rung(s) \in 0..4
    BY <2>1 DEF State, Rung
  <2>2. LadderRung \in 0..4
    BY <2>1 DEF TypeOK, LadderRung
  <2>3. CASE Inject
    <3>1. LadderRung' = 0
      BY <2>3, EditsStay DEF LadderRung
    <3> QED BY <2>2, <3>1 DEF Ladder!Next, Ladder!Fall
  <2>4. CASE Operate
    <3>1. UNCHANGED edits
      BY <2>4 DEF Operate, Step, TickSeconds, SetTimer
    <3>2. Unedited /\ Unedited' /\ state' # state
      BY <3>1 DEF LadderRung, Unedited
    <3>3. PICK e \in EventType : Step(e)
      BY <2>4, <3>2 DEF Operate, TickSeconds, SetTimer
    <3>4. <<state, e, state'>> \in LegalRules
      BY <3>2, <3>3, MovesAreRules
    <3>5. \/ Rung(state) < 4 /\ Rung(state') = Rung(state) + 1
          \/ Rung(state') \in {0, 1} /\ Rung(state') < Rung(state)
          \/ Rung(state') = Rung(state)
      BY <3>4, RulesClimb
    <3>6. LadderRung = Rung(state) /\ LadderRung' = Rung(state')
      BY <3>2 DEF LadderRung
    <3> QED BY <3>5, <3>6 DEF Ladder!Next, Ladder!Climb, Ladder!Fall
  <2>5. CASE UNCHANGED vars
    BY <2>5 DEF vars, fsmVars, LadderRung, Unedited
  <2> QED BY <2>3, <2>4, <2>5 DEF Next
<1> QED BY SpecDefaultInv, <1>1, <1>2, PTL
        DEF Spec, ClimbsTheLadder, Ladder!Spec

\* Every state of the default table has its ManualStop row.
THEOREM StopAlwaysWorks == Spec => []StopAlwaysIdles
<1>1. ASSUME NEW s \in State
      PROVE  StepEntry(DefaultTransitions, s, "ManualStop").to = "Idle"
  <2>1. \E r \in TableRules : r[1] = s /\ r[2] = "ManualStop"
    <3>1. <<s, "ManualStop", "Idle", "Legal">> \in TableRules
      BY DEF TableRules, Rules, LegalRules, State
    <3> QED BY <3>1
  <2>2. <<s, "ManualStop">> \in DOMAIN DefaultTransitions
    BY <2>1 DEF DefaultTransitions
  <2>3. PICK r \in TableRules :
          /\ <<s, "ManualStop">> = <<r[1], r[2]>>
          /\ DefaultTransitions[<<s, "ManualStop">>] = [to |-> r[3], legality |-> r[4]]
    BY <2>2, DefaultEntry
  <2>4. \A q \in TableRules : q[2] = "ManualStop" => q[3] = "Idle"
    BY DEF TableRules, Rules, LegalRules, IllegalKeys
  <2>5. r[3] = "Idle"
    BY <2>3, <2>4
  <2> QED BY <2>2, <2>3, <2>5 DEF StepEntry
<1>2. TypeOK /\ DefaultInv => StopAlwaysIdles
  BY <1>1 DEF TypeOK, DefaultInv, StopAlwaysIdles
<1> QED BY SpecDefaultInv, <1>2, PTL
=============================================================================
