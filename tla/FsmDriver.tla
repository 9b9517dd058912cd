----------------------------- MODULE FsmDriver -----------------------------
(***************************************************************************)
(* bgp-fuzz-driver's FsmDriver: a ShadowFsm of its own that every message  *)
(* handed to on_send / on_recv is fed to, and the log of what it answered. *)
(*                                                                         *)
(* The wrapped machine is ShadowFsm with its table never edited and its    *)
(* timers never armed: FsmDriver gives its callers no access to either, so *)
(* its tick_seconds always returns an empty vector and is left out, as is  *)
(* on_timer, which nothing in the repository calls.                        *)
(***************************************************************************)
EXTENDS BgpMessage

VARIABLES state,      \* the ShadowFsm's state
          event_log   \* the LogEntry sequence, oldest first

LogEntry == [dir : {"Sent", "Recv"}, event : EventType,
             state_after : State, legality : Legality]

DriverTypeOK ==
  /\ state \in State
  /\ event_log \in Seq(LogEntry)

DriverInit ==
  /\ state = "Idle"
  /\ event_log = <<>>

\* push_log: record what the step answered.
PushLog(dir, event) ==
  LET entry == StepEntry(DefaultTransitions, state, event)
  IN  event_log' = Append(event_log,
        [dir |-> dir, event |-> event, state_after |-> entry.to,
         legality |-> entry.legality])

Feed(dir, event) ==
  /\ state' = StepEntry(DefaultTransitions, state, event).to
  /\ PushLog(dir, event)

OnSend(m) == Feed("Sent", ClassifyMessage(m))

OnRecv(m) == Feed("Recv", ClassifyMessage(m))

=============================================================================
