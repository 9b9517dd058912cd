----------------------------- MODULE ShadowFsm -----------------------------
(***************************************************************************)
(* bgp-fsm's ShadowFsm: the current state, the (mutable) transition table  *)
(* and the three countdown timers of SessionAttributes.                    *)
(*                                                                         *)
(* Actions correspond to the public methods: Step, TickSeconds, SetState,  *)
(* AddTransition, RemoveTransition, and SetTimer for the writes callers    *)
(* make through session_attrs_mut.  `now` and `deadline` are history       *)
(* variables: seconds ticked so far and the instant each running timer was *)
(* armed to expire at.                                                     *)
(***************************************************************************)
EXTENDS FsmTable

CONSTANTS NotRunning,  \* the None of Option<u32>
          MaxTimer,    \* bound: largest value a caller arms a timer with
          MaxStep,     \* bound: largest argument of tick_seconds
          MaxNow,      \* bound: total seconds ticked in a behaviour
          Injectable,  \* the keys a caller edits the table at
          MaxEdits     \* bound: table edits and state overrides

ASSUME NotRunningAssumption == NotRunning \notin Nat

ASSUME BoundsAssumption ==
  /\ MaxTimer \in Nat
  /\ MaxStep \in Nat
  /\ MaxNow \in Nat
  /\ MaxEdits \in Nat
  /\ Injectable \subseteq TransitionKey

VARIABLES state, transitions, session, expired, edits, now, deadline

fsmVars == <<state, transitions, session, expired, edits>>
vars == <<fsmVars, now, deadline>>

Timer == {"connect_retry_timer", "hold_timer", "keepalive_timer"}

ExpiryEvent ==
  [t \in Timer |->
     CASE t = "connect_retry_timer" -> "ConnectRetryTimerExpires"
       [] t = "hold_timer" -> "HoldTimerExpires"
       [] t = "keepalive_timer" -> "KeepaliveTimerExpires"]

Running(t) == session[t] # NotRunning

TypeOK ==
  /\ state \in State
  /\ \A k \in DOMAIN transitions : transitions[k] \in TransitionEntry
  /\ DOMAIN transitions \subseteq TransitionKey
  /\ session \in [Timer -> Nat \cup {NotRunning}]
  /\ expired \subseteq TimerEvent
  /\ edits \in Nat
  /\ now \in Nat
  /\ deadline \in [Timer -> Nat]

Init ==
  /\ state = "Idle"
  /\ transitions = DefaultTransitions
  /\ session = [t \in Timer |-> NotRunning]
  /\ expired = {}
  /\ edits = 0
  /\ now = 0
  /\ deadline = [t \in Timer |-> 0]

-----------------------------------------------------------------------------
\* One step of the machine: the table decides, timers are not touched.
Step(event) ==
  /\ state' = StepEntry(transitions, state, event).to
  /\ UNCHANGED <<transitions, session, expired, edits, now, deadline>>

AdvanceOne(v, seconds) ==       \* slip: counts ticks instead of seconds
  IF v = NotRunning \/ v <= seconds THEN NotRunning ELSE v - 1

AdvanceBelowZero(v, seconds) ==   \* slip: only an exact hit stops the timer
  IF v = NotRunning \/ v = seconds THEN NotRunning ELSE v - seconds

\* What advance_timer leaves of a timer.
AdvanceTimer(v, seconds) ==
  IF v = NotRunning \/ v <= seconds THEN NotRunning ELSE v - seconds

ExpiresLate(v, seconds) == v # NotRunning /\ v < seconds   \* slip

\* Whether advance_timer pushes the timer's expiry event.
Expires(v, seconds) == v # NotRunning /\ v <= seconds

\* tick_seconds: every timer advances, the expiry events are returned.  They
\* are returned in a fixed order; nothing depends on it, so a set is kept.
TickSeconds(seconds) ==
  /\ now + seconds <= MaxNow
  /\ session' = [t \in Timer |-> AdvanceTimer(session[t], seconds)]
  /\ expired' = {ExpiryEvent[t] : t \in {u \in Timer : Expires(session[u], seconds)}}
  /\ now' = now + seconds
  /\ deadline' = [t \in Timer |->
                    IF session'[t] = NotRunning THEN 0 ELSE deadline[t]]
  /\ UNCHANGED <<state, transitions, edits>>

\* session_attrs_mut: a caller arms (v \in Nat) or stops (v = NotRunning) a timer.
SetTimer(t, v) ==
  /\ session' = [session EXCEPT ![t] = v]
  /\ deadline' = [deadline EXCEPT ![t] = IF v = NotRunning THEN 0 ELSE now + v]
  /\ UNCHANGED <<state, transitions, expired, edits, now>>

Edit ==
  /\ edits < MaxEdits
  /\ edits' = edits + 1
  /\ UNCHANGED <<session, expired, now, deadline>>

\* set_state: "override the current state (for fuzzer injection / test setup)".
SetState(s) ==
  /\ Edit
  /\ state' = s
  /\ UNCHANGED transitions

AddTransition(k, entry) ==
  /\ Edit
  /\ transitions' = [j \in DOMAIN transitions \cup {k} |->
                       IF j = k THEN entry ELSE transitions[j]]
  /\ UNCHANGED state

RemoveTransition(k) ==
  /\ Edit
  /\ transitions' = [j \in DOMAIN transitions \ {k} |-> transitions[j]]
  /\ UNCHANGED state

\* The calls every caller in the repository's own binaries makes.
Operate ==
  \/ \E e \in EventType : Step(e)
  \/ \E s \in 0..MaxStep : TickSeconds(s)
  \/ \E t \in Timer, v \in 0..MaxTimer \cup {NotRunning} : SetTimer(t, v)

\* The fuzzer's injections.
Inject ==
  \/ \E s \in State : SetState(s)
  \/ \E k \in Injectable, entry \in TransitionEntry : AddTransition(k, entry)
  \/ \E k \in Injectable : RemoveTransition(k)

Next == Operate \/ Inject

Spec == Init /\ [][Next]_vars
-----------------------------------------------------------------------------
(* Properties *)

\* A running timer always holds exactly the seconds left to the instant it was
\* armed for, whatever sequence of ticks, re-arms and steps came in between.
\* (That no subtraction of advance_timer wraps is TypeOK's: session stays in Nat.)
TimersCountDown ==
  \A t \in Timer : Running(t) => deadline[t] = now + session[t]

\* tick_seconds reports a timer's expiry exactly on the tick that reaches the
\* instant the timer was armed for: never early, never one tick late.
ExpiryIsOnTime ==
  [][\A s \in 0..MaxStep : TickSeconds(s) =>
       \A t \in Timer :
         (ExpiryEvent[t] \in expired') <=> (Running(t) /\ deadline[t] <= now + s)]_vars

\* Nobody has edited the table or overridden the state.
Unedited == edits = 0

\* As long as nobody edits the table, an event that is not Legal never moves the
\* machine.
OnlyLegalMoves ==
  [][\A e \in EventType :
       Unedited /\ Step(e) /\ state' # state =>
         StepEntry(transitions, state, e).legality = "Legal"]_vars

\* As long as nobody edits the table, whatever else has happened, ManualStop
\* would now bring the machine to Idle: no state it can be in lacks its row.
StopAlwaysIdles ==
  Unedited => StepEntry(transitions, state, "ManualStop").to = "Idle"

Rung(s) ==
  CASE s = "Idle" -> 0
    [] s \in {"Connect", "Active"} -> 1
    [] s = "OpenSent" -> 2
    [] s = "OpenConfirm" -> 3
    [] s = "Established" -> 4

\* An edit by the fuzzer counts as the end of the session.
LadderRung == IF Unedited THEN Rung(state) ELSE 0

Ladder == INSTANCE SessionLadder WITH rung <- LadderRung

\* Until it is edited the machine implements the session ladder: a session is
\* established only rung by rung, and only falls to Idle or to reconnecting.
ClimbsTheLadder == Ladder!Spec
=============================================================================
