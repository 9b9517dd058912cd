------------------------------ MODULE RunLoop ------------------------------
(***************************************************************************)
(* The control skeleton of FuzzSession::run and run_session: which await   *)
(* the fuzz loop is at, how many messages of the batch and how many        *)
(* findings of the last exchange are still to be handled, and the two      *)
(* flags that end a run.  Nothing bounds the number of connections, so the *)
(* question whether a run ends is asked here; FuzzSession, the detailed    *)
(* module, implements this one.                                            *)
(***************************************************************************)
EXTENDS Naturals

CONSTANTS MaxAttempts,   \* connect_with_retry's max_attempts (3 in run)
          MaxBatch,      \* bound: messages in one generated batch
          MaxFindings    \* bound: findings of one exchange

ASSUME RunLoopAssumption ==
  /\ MaxAttempts \in Nat \ {0}
  /\ MaxBatch \in Nat \ {0}
  /\ MaxFindings \in Nat

VARIABLES pc, attempt, left, todo, shutdown, elapsed

vars == <<pc, attempt, left, todo, shutdown, elapsed>>

TypeOK ==
  /\ pc \in {"loop", "connecting", "handshake", "send", "write", "read",
             "report", "done", "panicked"}
  /\ attempt \in 0..(MaxAttempts - 1)
  /\ left \in 0..MaxBatch
  /\ todo \in 0..MaxFindings
  /\ shutdown \in BOOLEAN
  /\ elapsed \in BOOLEAN

Init ==
  /\ pc = "loop"
  /\ attempt = 0
  /\ left = 0
  /\ todo = 0
  /\ shutdown = FALSE
  /\ elapsed = FALSE

flags == <<shutdown, elapsed>>

StopDuration == elapsed          \* slip: the loop only looks at the clock

StopSignal == shutdown           \* slip: the loop only looks at the signal

\* The condition of the while loop of run, negated.
Stop == elapsed \/ shutdown

Iterate ==
  /\ pc = "loop" /\ ~Stop
  /\ pc' = "connecting"
  /\ attempt' = 0
  /\ UNCHANGED <<left, todo, flags>>

Finish ==
  /\ pc = "loop" /\ Stop
  /\ pc' = "done"
  /\ UNCHANGED <<attempt, left, todo, flags>>

Connected ==
  /\ pc = "connecting"
  /\ pc' = "handshake"
  /\ attempt' = 0
  /\ UNCHANGED <<left, todo, flags>>

RefusedForever ==     \* slip: the attempts are counted but never run out
  /\ pc = "connecting"
  /\ attempt' = attempt + 1
  /\ UNCHANGED <<pc, left, todo, flags>>

\* An attempt fails; the last one breaks out of the loop.
Refused ==
  /\ pc = "connecting"
  /\ IF attempt + 1 < MaxAttempts
     THEN attempt' = attempt + 1 /\ pc' = pc
     ELSE attempt' = 0 /\ pc' = "done"
  /\ UNCHANGED <<left, todo, flags>>

\* The handshake never fails; the generator then yields a batch.
Handshaken ==
  /\ pc = "handshake"
  /\ pc' = "send"
  /\ left' \in 1..MaxBatch
  /\ UNCHANGED <<attempt, todo, flags>>

EndSession ==
  /\ pc = "send" /\ (left = 0 \/ shutdown)
  /\ pc' = "loop"
  /\ left' = 0
  /\ UNCHANGED <<attempt, todo, flags>>

Take ==
  /\ pc = "send" /\ left > 0 /\ ~shutdown
  /\ pc' = "write"
  /\ left' = left - 1
  /\ UNCHANGED <<attempt, todo, flags>>

Written ==
  /\ pc = "write"
  /\ pc' = "read"
  /\ UNCHANGED <<attempt, left, todo, flags>>

WriteFails ==
  /\ pc = "write"
  /\ pc' = "loop"
  /\ left' = 0
  /\ UNCHANGED <<attempt, todo, flags>>

\* The read returns (at the latest by its timeout) and the oracles judge it.
Judged ==
  /\ pc = "read"
  /\ todo' \in 0..MaxFindings
  /\ pc' = IF todo' = 0 THEN "send" ELSE "report"
  /\ UNCHANGED <<attempt, left, flags>>

\* One finding is turned into a report, shrunk if enabled, and filed.
Reported ==
  /\ pc = "report"
  /\ todo' = todo - 1
  /\ pc' = IF todo' = 0 THEN "send" ELSE "report"
  /\ UNCHANGED <<attempt, left, flags>>

\* The decoder may panic on the bytes just written or just read, the shrinker
\* on a finding (module Ddmin shows where): the process ends.
Panics ==
  /\ pc \in {"write", "read", "report"}
  /\ pc' = "panicked"
  /\ left' = 0
  /\ UNCHANGED <<attempt, todo, flags>>

Session ==
  \/ Iterate \/ Finish \/ Connected \/ Refused \/ Handshaken \/ EndSession
  \/ Take \/ Written \/ WriteFails \/ Judged \/ Reported \/ Panics

\* The task spawned by run stores TRUE once, on ctrl-c.
CtrlC ==
  /\ ~shutdown
  /\ shutdown' = TRUE
  /\ UNCHANGED <<pc, attempt, left, todo, elapsed>>

\* started.elapsed() reaches the configured duration.
DurationPasses ==
  /\ ~elapsed
  /\ elapsed' = TRUE
  /\ UNCHANGED <<pc, attempt, left, todo, shutdown>>

Ended == pc \in {"done", "panicked"}

Done == Ended /\ UNCHANGED vars

Next == Session \/ CtrlC \/ DurationPasses \/ Done

\* The task runs on as long as it can: every await it makes completes.  Reads
\* do by their timeouts; that connects and writes do, which have none, is an
\* assumption: TcpStream::connect gives up in the end, and a message fits into
\* the buffers of the two sockets.  Nothing is assumed of ctrl-c, nor of time.
Spec == Init /\ [][Next]_vars /\ WF_vars(Session)
-----------------------------------------------------------------------------
(* Properties *)

\* After ctrl-c the run ends, however the peer answers, stalls, refuses or
\* closes from then on, as long as writes and connects finish: the flag is
\* noticed between two messages and between two connections.
ShutdownEndsRun == shutdown ~> Ended

\* Once the configured duration has passed the run ends, although the clock is
\* only read between connections and a batch in progress is finished first.
DurationEndsRun == elapsed ~> Ended
=============================================================================
