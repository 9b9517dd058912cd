---------------------------- MODULE FuzzSession ----------------------------
(***************************************************************************)
(* One run of the fuzz loop: bgp-fuzz-driver's FuzzSession with its        *)
(* FsmDriver and its panel of oracles, against a peer that answers, stays  *)
(* silent, closes or resets whenever it likes.                             *)
(*                                                                         *)
(* An action is the code between two awaits.  pc names the await (or the   *)
(* loop head) the task is at:                                              *)
(*   loop        the while condition of run                                *)
(*   connecting  TcpStream::connect, or the delay before the next attempt  *)
(*   hs_open, hs_keepalive   the two reads of do_handshake                 *)
(*   send        the head of the for loop of run_session                   *)
(*   write       write_all                                                 *)
(*   read        the read bounded by the hold time                         *)
(*   report      process_outcome, before the next finding is formatted     *)
(*   shrinking   shrink_bug_report                                         *)
(*   done        run has returned                                          *)
(*   panicked    the decoder or the shrinker panicked, and with it run     *)
(***************************************************************************)
EXTENDS Oracles, FsmDriver, FiniteSets

CONSTANTS Setups,       \* the ways a session may be set up, see Setup below
          WindowSize,   \* LatencyOracle's window (20 by default)
          MaxAttempts,  \* connect_with_retry's max_attempts (3 in run)
          MaxBatch,     \* bound: messages in a generated batch
          MaxInbox      \* bound: unread messages in the receive buffer

OracleName == {"Crash", "FsmConsistency", "Response", "AttributeEcho",
               "Latency", "CapNegotiation", "NotificationCode"}

IsBatch(b) ==
  \E n \in 1..MaxBatch :
    b = [k \in 1..n |-> b[k]] /\ \A k \in 1..n : IsMessage(b[k])

\* What a peer that conforms answers the handshake's OPEN with.
HandshakeReplies == <<Plain("open", "BgpOpen"), Plain("keepalive", "BgpKeepalive")>>

ASSUME FuzzSessionAssumption ==
  /\ \A s \in Setups :
       /\ s.panel \subseteq OracleName
       /\ s.enable_shrink \in BOOLEAN
       /\ \A b \in s.batches : IsBatch(b)
       /\ \A m \in s.replies : IsMessage(m)
       /\ \A m \in s.announcements :
            /\ IsMessage(m) /\ ~Panics(m)
            /\ \A k \in DOMAIN HandshakeReplies : m # HandshakeReplies[k]
       /\ s.max_conns \in Nat
       /\ s.max_clock \in Nat
  /\ WindowSize \in Nat
  /\ MaxAttempts \in Nat \ {0}
  /\ MaxBatch \in Nat \ {0}
  /\ MaxInbox \in Nat \ {0}

\* FsmDriver contributes state and event_log.
VARIABLES
  setup, conforming,                             \* the session and its peer
  pc, attempt, shutdown, elapsed, clock,         \* control and time
  link, inbox, wire, answered,                   \* the connection and the peer
  batch, sent,                                   \* run_session's iteration
  triggers, pending, echo, samples, consecutive, \* the oracles' state
  message_history, stats,                        \* FuzzSession
  findings, report, bugs,                        \* process_outcome
  exchanges, found, late                         \* history variables

fixedVars == <<setup, conforming>>              \* chosen once, never changed
flagVars == <<fixedVars, shutdown, elapsed, clock>>
peerVars == <<link, inbox, wire, answered>>
fsmVars == <<state, event_log>>
oracleVars == <<triggers, pending, echo, samples, consecutive>>
bugVars == <<findings, report, bugs>>
ghostVars == <<exchanges, found, late>>

vars == <<pc, attempt, flagVars, peerVars, fsmVars, batch, sent, oracleVars,
          message_history, stats, bugVars, ghostVars>>

\* The session is built once from its FuzzConfig and the oracles main.rs names,
\* and what its generator and its peer may come up with is settled with it.
Panel == setup.panel                  \* the names of the oracles
EnableShrink == setup.enable_shrink   \* FuzzConfig::enable_shrink
Batches == setup.batches              \* the batches generate_batch may yield
Replies == setup.replies              \* what an unconstrained peer may send
Announcements == setup.announcements  \* what a conforming one sends unasked
MaxConns == setup.max_conns           \* bound: connections the peer accepts
MaxClock == setup.max_clock           \* bound: whole seconds that pass

NoReport == [kind |-> "Timeout", severity |-> "Medium", id |-> 0]

NoStats == [connections |-> 0, msgs_sent |-> 0, msgs_recv |-> 0,
            bugs_critical |-> 0, bugs_high |-> 0, bugs_medium |-> 0]

\* What do_handshake sends.
HandshakeOpen == Plain("handshake open", "BgpOpen")
HandshakeKeepalive == Plain("handshake keepalive", "BgpKeepalive")

BugReport == [kind : FindingKind, severity : BugSeverity, id : Nat]

TypeOK ==
  /\ pc \in {"loop", "connecting", "hs_open", "hs_keepalive", "send", "write",
             "read", "report", "shrinking", "done", "panicked"}
  /\ attempt \in 0..(MaxAttempts - 1)
  /\ shutdown \in BOOLEAN /\ elapsed \in BOOLEAN /\ clock \in 0..MaxClock
  /\ setup \in Setups /\ conforming \in BOOLEAN
  /\ link \in {"none", "up", "fin", "rst", "lost"}
  /\ Len(inbox) <= MaxInbox + 1
  /\ answered \in 0..Len(wire)
  /\ DriverTypeOK
  /\ Len(batch) <= MaxBatch
  /\ IsMessage(sent)
  /\ Len(triggers) <= Len(Scenarios)
  /\ Len(pending) <= 1 /\ Len(echo) <= 1
  /\ samples \in 0..WindowSize
  /\ consecutive \in Nat
  /\ stats \in [DOMAIN NoStats -> Nat]
  /\ \A i \in DOMAIN findings : findings[i].kind \in FindingKind
  /\ report \in BugReport
  /\ \A i \in DOMAIN bugs : bugs[i] \in BugReport
  /\ Len(late) <= 2

Init ==
  /\ setup \in Setups
  /\ pc = "loop" /\ attempt = 0
  /\ shutdown = FALSE /\ elapsed = FALSE /\ clock = 0
  /\ conforming \in BOOLEAN /\ (conforming => "NotificationCode" \in Panel)
  /\ link = "none" /\ inbox = <<>> /\ wire = <<>> /\ answered = 0
  /\ DriverInit
  /\ batch = <<>> /\ sent = NoReply
  /\ triggers = <<>> /\ pending = <<>> /\ echo = <<>>
  /\ samples = 0 /\ consecutive = 0
  /\ message_history = <<>> /\ stats = NoStats
  /\ findings = <<>> /\ report = NoReport /\ bugs = <<>>
  /\ exchanges = <<>> /\ found = <<>> /\ late = <<>>

-----------------------------------------------------------------------------
(* run *)

Iterate ==
  /\ pc = "loop" /\ ~elapsed /\ ~shutdown
  /\ pc' = "connecting"
  /\ attempt' = 0
  /\ UNCHANGED <<flagVars, peerVars, fsmVars, batch, sent, oracleVars,
                 message_history, stats, bugVars, ghostVars>>

Finish ==
  /\ pc = "loop" /\ (elapsed \/ shutdown)
  /\ pc' = "done"
  /\ UNCHANGED <<attempt, flagVars, peerVars, fsmVars, batch, sent, oracleVars,
                 message_history, stats, bugVars, ghostVars>>

\* What is written once ctrl-c has come is noted.
NoteLate(m) == late' = IF shutdown THEN Append(late, m) ELSE late

KeepHistory == message_history     \* slip: the history outlives its connection

ClearedHistory == <<>>

\* connect_with_retry succeeds; the history is cleared and do_handshake writes
\* its OPEN, which no one tells the FsmDriver about.
Connected ==
  /\ pc = "connecting"
  /\ stats.connections < MaxConns
  /\ pc' = "hs_open"
  /\ attempt' = 0
  /\ link' = "up" /\ inbox' = <<>> /\ wire' = <<HandshakeOpen>> /\ answered' = 0
  /\ stats' = [stats EXCEPT !.connections = @ + 1]
  /\ message_history' = ClearedHistory
  /\ NoteLate(HandshakeOpen)
  /\ UNCHANGED <<flagVars, fsmVars, batch, sent, oracleVars, bugVars, exchanges,
                 found>>

\* A refused attempt is retried after a delay; the last one ends the run.
Refused ==
  /\ pc = "connecting"
  /\ IF attempt + 1 < MaxAttempts
     THEN attempt' = attempt + 1 /\ pc' = pc
     ELSE attempt' = 0 /\ pc' = "done"
  /\ UNCHANGED <<flagVars, peerVars, fsmVars, batch, sent, oracleVars,
                 message_history, stats, bugVars, ghostVars>>

-----------------------------------------------------------------------------
(* The socket, as read and write_all show it. *)

Writable == link \in {"up", "fin"}

\* A read returns a nonempty prefix of the unread messages (TCP may split or
\* coalesce them) and the first one is what BgpMessage::decode sees.
ReadSome(n) == inbox' = SubSeq(inbox, n + 1, Len(inbox))

\* A peer that conforms does not let a read time out while it owes an answer.
Silent == inbox = <<>> /\ link = "up" /\ (conforming => answered = Len(wire))

\* The RecvKinds a read that yields no data can end in.
EmptyOutcome(kind) ==
  \/ kind = "PeerClosed" /\ inbox = <<>> /\ link = "fin"
  \/ kind = "ConnectionReset" /\ link = "rst"
  \/ kind = "Error" /\ link = "lost"
  \/ kind = "Timeout" /\ Silent

-----------------------------------------------------------------------------
(* do_handshake: every read and write is best effort. *)

HandshakeNoRead ==        \* slip: the replies are left in the receive buffer
  /\ inbox # <<>> \/ \E kind \in RecvKind : EmptyOutcome(kind)
  /\ UNCHANGED inbox

HandshakeRead ==
  \/ \E n \in 1..Len(inbox) : ReadSome(n)
  \/ (\E kind \in RecvKind : EmptyOutcome(kind)) /\ UNCHANGED inbox

ReadOpen ==
  /\ pc = "hs_open"
  /\ HandshakeRead
  /\ pc' = "hs_keepalive"
  /\ \/ /\ Writable
        /\ wire' = Append(wire, HandshakeKeepalive)
        /\ NoteLate(HandshakeKeepalive)
     \/ ~Writable /\ UNCHANGED <<wire, late>>
  /\ UNCHANGED <<attempt, flagVars, link, answered, fsmVars, batch, sent,
                 oracleVars, message_history, stats, bugVars, exchanges, found>>

\* After the handshake the generator is asked for a batch.
ReadKeepalive ==
  /\ pc = "hs_keepalive"
  /\ HandshakeRead
  /\ pc' = "send"
  /\ batch' \in Batches
  /\ UNCHANGED <<attempt, flagVars, link, wire, answered, fsmVars, sent,
                 oracleVars, message_history, stats, bugVars, ghostVars>>

-----------------------------------------------------------------------------
(* run_session and send_and_recv *)

\* run_session is left and the stream dropped: for the head of run's loop, or
\* because a panic unwinds both.
DropStream ==
  /\ batch' = <<>>
  /\ link' = "none" /\ inbox' = <<>> /\ wire' = <<>> /\ answered' = 0

Disconnect == DropStream /\ pc' = "loop"

Unwind == DropStream /\ pc' = "panicked"

StopBatchSlip == batch = <<>>            \* slip: the flag is not looked at

StopBatch == batch = <<>> \/ shutdown

\* The batch is exhausted or ctrl-c was seen: the stream is dropped.
EndSession ==
  /\ pc = "send" /\ StopBatch
  /\ Disconnect
  /\ UNCHANGED <<attempt, flagVars, fsmVars, sent, oracleVars,
                 message_history, stats, bugVars, ghostVars>>

\* NotificationCodeOracle's queue when take_trigger pops from it.
Queue == IF triggers = <<>> THEN Scenarios ELSE triggers

KeepPending(scenario) ==      \* slip: a check still pending is not replaced
  pending' = IF pending = <<>> THEN <<scenario>> ELSE pending

SetPending(scenario) == pending' = <<scenario>>

PopTwo == triggers' = SubSeq(Queue, 3, Len(Queue))      \* slip

PopTrigger == triggers' = Tail(Queue)

Inject ==            \* some oracle provides a trigger
  /\ "NotificationCode" \in Panel
  /\ sent' = Head(Queue).bytes
  /\ SetPending(Head(Queue))
  /\ PopTrigger

UseGenerated ==
  /\ "NotificationCode" \notin Panel
  /\ sent' = Head(batch)
  /\ UNCHANGED <<triggers, pending>>

\* The next message: a trigger's bytes if an oracle has one, in which case the
\* generator's message is dropped.
Take ==
  /\ pc = "send" /\ ~StopBatch
  /\ pc' = "write"
  /\ batch' = Tail(batch)
  /\ Inject \/ UseGenerated
  /\ UNCHANGED <<attempt, flagVars, peerVars, fsmVars, echo, samples,
                 consecutive, message_history, stats, bugVars, ghostVars>>

\* write_all succeeds; it does so on a stream the peer has half closed.
Written ==
  /\ pc = "write" /\ Writable /\ ~Panics(sent)
  /\ pc' = "read"
  /\ wire' = Append(wire, sent)
  /\ OnSend(sent)
  /\ stats' = [stats EXCEPT !.msgs_sent = @ + 1]
  /\ message_history' = Append(message_history, sent)
  /\ NoteLate(sent)
  /\ UNCHANGED <<attempt, flagVars, link, inbox, answered, batch, sent,
                 oracleVars, bugVars, exchanges, found>>

\* write_all succeeds, but on_send panics decoding what was written (raw and
\* byte-mutated messages may have any header length): nothing is recorded.
SendPanics ==
  /\ pc = "write" /\ Writable /\ Panics(sent)
  /\ Unwind
  /\ NoteLate(sent)
  /\ UNCHANGED <<attempt, flagVars, fsmVars, sent, oracleVars, message_history,
                 stats, bugVars, exchanges, found>>

WriteFailsAndGoesOn ==    \* slip: the next message is tried instead
  /\ pc = "write" /\ ~Writable
  /\ pc' = "send"
  /\ UNCHANGED <<attempt, flagVars, peerVars, fsmVars, batch, sent, oracleVars,
                 message_history, stats, bugVars, ghostVars>>

\* write_all fails: the session is abandoned, no oracle hears of it.
WriteFails ==
  /\ pc = "write" /\ ~Writable
  /\ Disconnect
  /\ UNCHANGED <<attempt, flagVars, fsmVars, sent, oracleVars,
                 message_history, stats, bugVars, ghostVars>>

-----------------------------------------------------------------------------
(* process_outcome: the oracles of the panel look at the exchange, in order. *)

Ask(name, answer) == IF name \in Panel THEN answer ELSE <<>>

\* What the panel finds; `last` is the last entry of the log, `above` whether
\* a measured RTT is above the latency threshold.
PanelFindings(x, last, above) ==
  Ask("Crash", CrashCheck(x))
    \o Ask("FsmConsistency", FsmCheck(x, last))
    \o Ask("Response", ResponseCheck(x, consecutive))
    \o Ask("AttributeEcho", EchoCheck(x, last, echo))
    \o Ask("Latency", LatencyCheck(x, samples, WindowSize, above))
    \o Ask("CapNegotiation", CapCheck(x))
    \o Ask("NotificationCode", NotificationCheck(x, pending))

\* How the oracles' state changes; NotificationCode takes its pending check
\* whatever the outcome.
PanelUpdate(x, last) ==
  /\ consecutive' = IF "Response" \in Panel THEN CountTimeouts(x, consecutive)
                    ELSE consecutive
  /\ echo' = IF "AttributeEcho" \in Panel THEN EchoPending(x, last, echo) ELSE echo
  /\ samples' = IF "Latency" \in Panel
                THEN LatencyWindow(x, samples, WindowSize) ELSE samples
  /\ pending' = <<>>
  /\ UNCHANGED triggers

Judge(x) ==
  LET last == event_log'[Len(event_log')]
  IN  /\ \E above \in BOOLEAN : findings' = PanelFindings(x, last, above)
      /\ PanelUpdate(x, last)
      /\ pc' = IF findings' = <<>> THEN "send" ELSE "report"
      /\ exchanges' = Append(exchanges, x)
      /\ found' = found \o findings'

ReadData ==
  /\ pc = "read" /\ inbox # <<>> /\ ~Panics(Head(inbox))
  /\ stats' = [stats EXCEPT !.msgs_recv = @ + 1]
  /\ OnRecv(Head(inbox))
  /\ \E n \in 1..Len(inbox) :
       /\ ReadSome(n)
       /\ Judge([sent |-> sent, kind |-> "Data", reply |-> Head(inbox),
                 alone |-> n = 1])
  /\ UNCHANGED <<attempt, flagVars, link, wire, answered, batch, sent,
                 message_history, report, bugs, late>>

ReadNothing ==
  /\ pc = "read"
  /\ \E kind \in RecvKind :
       /\ EmptyOutcome(kind)
       /\ UNCHANGED fsmVars
       /\ Judge([sent |-> sent, kind |-> kind, reply |-> NoReply, alone |-> TRUE])
  /\ UNCHANGED <<attempt, flagVars, peerVars, batch, sent, message_history,
                 stats, report, bugs, late>>

\* on_recv panics decoding what the peer sent: the read is counted, but neither
\* logged nor shown to an oracle.
RecvPanics ==
  /\ pc = "read" /\ inbox # <<>> /\ Panics(Head(inbox))
  /\ Unwind
  /\ stats' = [stats EXCEPT !.msgs_recv = @ + 1]
  /\ UNCHANGED <<attempt, flagVars, fsmVars, sent, oracleVars, message_history,
                 bugVars, ghostVars>>

\* into_report: severity from the finding, id from the current second.
Format(f) == [kind |-> f.kind, severity |-> SeverityOf(f), id |-> clock]

MiscountedSeverity(severity) ==     \* slip: critical bugs counted as high
  [stats EXCEPT !.bugs_high = IF severity \in {"Critical", "High"} THEN @ + 1 ELSE @,
                !.bugs_medium = IF severity = "Medium" THEN @ + 1 ELSE @]

CountedSeverity(severity) ==
  [stats EXCEPT !.bugs_critical = IF severity = "Critical" THEN @ + 1 ELSE @,
                !.bugs_high = IF severity = "High" THEN @ + 1 ELSE @,
                !.bugs_medium = IF severity = "Medium" THEN @ + 1 ELSE @]

FileFirstOnly(r) ==      \* slip: the other findings of the exchange are dropped
  /\ stats' = CountedSeverity(r.severity)
  /\ bugs' = Append(bugs, r)
  /\ findings' = <<>>
  /\ pc' = "send"

\* The severity counters, the bug list and the next finding.  write_report's
\* file, named after the id, is left out; its I/O errors are ignored.
File(r) ==
  /\ stats' = CountedSeverity(r.severity)
  /\ bugs' = Append(bugs, r)
  /\ findings' = Tail(findings)
  /\ pc' = IF findings' = <<>> THEN "send" ELSE "report"

Report ==
  /\ pc = "report" /\ ~EnableShrink
  /\ File(Format(Head(findings)))
  /\ UNCHANGED <<attempt, flagVars, peerVars, fsmVars, batch, sent, oracleVars,
                 message_history, report, ghostVars>>

\* With shrinking the report is formatted first and filed when the shrinker,
\* which awaits the target over and over, is through.
StartShrink ==
  /\ pc = "report" /\ EnableShrink
  /\ pc' = "shrinking"
  /\ report' = Format(Head(findings))
  /\ UNCHANGED <<attempt, flagVars, peerVars, fsmVars, batch, sent, oracleVars,
                 message_history, stats, findings, bugs, ghostVars>>

EndShrink ==
  /\ pc = "shrinking"
  /\ File(report)
  /\ report' = NoReport
  /\ UNCHANGED <<attempt, flagVars, peerVars, fsmVars, batch, sent, oracleVars,
                 message_history, ghostVars>>

\* The shortest history on which the shrinker's ddmin can panic (see Ddmin).
ShortestPanic == 5

\* The panic unwinds run: nothing more is filed, and the bugs are lost with it.
ShrinkPanics ==
  /\ pc = "shrinking" /\ Len(message_history) >= ShortestPanic
  /\ Unwind
  /\ UNCHANGED <<attempt, flagVars, fsmVars, sent, oracleVars, message_history,
                 stats, bugVars, ghostVars>>

Session ==
  \/ Iterate \/ Finish \/ Connected \/ Refused \/ ReadOpen \/ ReadKeepalive
  \/ EndSession \/ Take \/ Written \/ SendPanics \/ WriteFails
  \/ ReadData \/ RecvPanics \/ ReadNothing
  \/ Report \/ StartShrink \/ EndShrink \/ ShrinkPanics
-----------------------------------------------------------------------------
(* Everything that happens on its own. *)

sessionVars == <<pc, attempt, fsmVars, batch, sent, oracleVars,
                 message_history, stats, bugVars, ghostVars>>

\* The task spawned by run.
CtrlC ==
  /\ ~shutdown
  /\ shutdown' = TRUE
  /\ UNCHANGED <<fixedVars, elapsed, clock, peerVars, sessionVars>>

\* The configured duration is over.
DurationPasses ==
  /\ ~elapsed
  /\ elapsed' = TRUE
  /\ UNCHANGED <<fixedVars, shutdown, clock, peerVars, sessionVars>>

\* The wall clock reaches the next second.
Tick ==
  /\ clock < MaxClock
  /\ clock' = clock + 1
  /\ UNCHANGED <<fixedVars, shutdown, elapsed, peerVars, sessionVars>>

\* An unconstrained peer sends what it likes, answer or not.
PeerSends ==
  /\ ~conforming /\ link = "up" /\ Len(inbox) < MaxInbox
  /\ \E m \in Replies : inbox' = Append(inbox, m)
  /\ UNCHANGED <<flagVars, link, wire, answered, sessionVars>>

\* A conforming peer handles the messages in order.  It answers the OPEN with
\* its own OPEN and a KEEPALIVE, and the first malformed message with the
\* NOTIFICATION the RFCs ask for, after which it closes.
PeerAnswers ==
  /\ conforming /\ link = "up" /\ answered < Len(wire)
  /\ answered' = answered + 1
  /\ LET m == wire[answered + 1] IN
       \/ /\ m = HandshakeOpen
          /\ inbox' = inbox \o HandshakeReplies
          /\ link' = link
       \/ /\ m = HandshakeKeepalive
          /\ UNCHANGED <<inbox, link>>
       \/ \E i \in DOMAIN Scenarios :
            /\ m = Scenarios[i].bytes
            /\ inbox' = Append(inbox, Notification(Scenarios[i].expected))
            /\ link' = "fin"
  /\ UNCHANGED <<flagVars, wire, sessionVars>>

\* The handshake's KEEPALIVE establishes the session for a conforming peer: from
\* then on it sends its routes, an End-of-RIB and its own periodic KEEPALIVEs.
PeerAnnounces ==
  /\ conforming /\ link = "up" /\ answered >= 2 /\ Len(inbox) < MaxInbox
  /\ \E m \in Announcements : inbox' = Append(inbox, m)
  /\ UNCHANGED <<flagVars, link, wire, answered, sessionVars>>

\* The peer closes or resets, or the path to it is lost.
PeerLeaves ==
  /\ ~conforming
  /\ \/ link = "up" /\ link' \in {"fin", "rst", "lost"}
     \/ link = "fin" /\ link' = "rst"
  /\ UNCHANGED <<flagVars, inbox, wire, answered, sessionVars>>

Environment ==
  \/ CtrlC \/ DurationPasses \/ Tick
  \/ PeerSends \/ PeerAnswers \/ PeerAnnounces \/ PeerLeaves

Done == pc \in {"done", "panicked"} /\ UNCHANGED vars

Next == Session \/ Environment \/ Done

\* The task runs on as long as it can, its writes and connects finishing as
\* RunLoop assumes; a peer that conforms does answer, which is what lets its
\* reads not time out.  Nothing else is assumed of the peer, of ctrl-c or of time.
Spec == Init /\ [][Next]_vars /\ WF_vars(Session) /\ WF_vars(PeerAnswers)
-----------------------------------------------------------------------------
(* Properties *)

\* The shadow FSM stays in Idle for the whole run, however many messages are
\* exchanged: no message event leaves Idle, and run never feeds it a start or
\* a TCP event.  So AttributeEchoOracle, which waits for Established, and
\* LegalRejected findings never come into play.
ShadowStaysIdle ==
  /\ state = "Idle"
  /\ \A i \in DOMAIN event_log : event_log[i].state_after = "Idle"
  /\ echo = <<>>

\* When an outcome is read, the check NotificationCodeOracle has pending is the
\* one for the message just sent, although the check is set before a write that
\* may fail and taken on a later connection.  (Whether the outcome answers that
\* message is another question, see OnlyUnaskedMisleads.)
PendingIsTheMessageSent ==
  "NotificationCode" \in Panel /\ pc = "read" =>
    pending # <<>> /\ Head(pending).bytes = sent

\* The history handed to the shrinker is exactly what was written on the
\* current connection after the handshake, in order.
HistoryIsTheWire ==
  link # "none" => message_history = SubSeq(wire, 3, Len(wire))

\* Within a connection the scenarios are injected in queue order without a gap,
\* whatever became of the messages in between; the first follows the last.
ScenariosInOrder ==
  "NotificationCode" \in Panel =>
    \A i \in 1..(Len(message_history) - 1) :
      \E k \in DOMAIN Scenarios :
        /\ message_history[i] = Scenarios[k].bytes
        /\ message_history[i + 1] = Scenarios[(k % Len(Scenarios)) + 1].bytes

\* As long as nothing has panicked, the statistics, the bug list and the FSM log
\* agree with the exchanges that took place; every reset a read has seen is one
\* Critical bug.
StatsAccountForExchanges ==
  LET Count(kind) ==
        Cardinality({i \in DOMAIN exchanges : exchanges[i].kind = kind})
      reported == pc \notin {"report", "shrinking"}
  IN  pc # "panicked" =>
      /\ stats.msgs_sent = Len(exchanges) + (IF pc = "read" THEN 1 ELSE 0)
      /\ stats.msgs_recv = Count("Data")
      /\ Len(event_log) = stats.msgs_sent + stats.msgs_recv
      /\ stats.bugs_critical + stats.bugs_high + stats.bugs_medium = Len(bugs)
      /\ "Crash" \in Panel /\ reported =>
           stats.bugs_critical = Count("ConnectionReset")

\* Every finding an oracle returned becomes one bug, of its kind and severity,
\* in the order found, whatever is shrunk and for however long: no finding is
\* lost or filed twice, and the next message waits until all are filed.
EveryFindingIsFiled ==
  /\ Len(found) = Len(bugs) + Len(findings)
  /\ \A i \in DOMAIN bugs :
       bugs[i].kind = found[i].kind /\ bugs[i].severity = SeverityOf(found[i])
  /\ \A i \in DOMAIN findings : findings[i] = found[Len(bugs) + i]
  /\ pc \notin {"report", "shrinking", "panicked"} => findings = <<>>

\* At most one message is written after ctrl-c: the fuzz message already past
\* the check, or the KEEPALIVE of a handshake under way; but a connection that
\* was still being made gets both messages of its handshake.
FewWritesAfterShutdown ==
  Len(late) <= 1 \/ late = <<HandshakeOpen, HandshakeKeepalive>>

\* A timeout is reported High exactly when the last three exchanges, of this
\* connection or of earlier ones, all timed out.
EscalationIsThreeInARow ==
  \A i \in DOMAIN findings : findings[i].kind = "Timeout" =>
    (SeverityOf(findings[i]) = "High") <=>
      /\ Len(exchanges) >= 3
      /\ \A k \in (Len(exchanges) - 2)..Len(exchanges) :
           exchanges[k].kind = "Timeout"

Skeleton == INSTANCE RunLoop WITH
  pc <- CASE pc \in {"hs_open", "hs_keepalive"} -> "handshake"
          [] pc = "shrinking" -> "report"
          [] OTHER -> pc,
  left <- Len(batch),
  todo <- Len(findings),
  MaxFindings <- 4

\* The session implements the control skeleton, its fairness included; with it
\* come RunLoop's guarantees that a run ends after ctrl-c or its duration.
ImplementsRunLoop == Skeleton!Spec

\* "generate, send, observe, report": the scenarios are injected between the
\* generator's messages, so a run that exchanges more messages than there are
\* scenarios has sent one of the generator's.
GeneratorGetsItsTurn ==
  Len(exchanges) > Len(Scenarios) =>
    \E i \in DOMAIN exchanges : ~IsScenario(exchanges[i].sent)

\* Against a peer that answers correctly and in time, the handshake's two reads
\* leave none of its replies to be taken for the answer to a fuzz message.  So
\* the first message of a connection draws a NOTIFICATION-code finding only if
\* something the peer sent unasked was read in the answer's place, which the
\* oracle does hold against it.
OnlyUnaskedMisleads ==
  conforming =>
    /\ \A i \in DOMAIN exchanges, k \in DOMAIN HandshakeReplies :
         exchanges[i].reply # HandshakeReplies[k]
    /\ \A i \in DOMAIN findings :
         findings[i].kind = "NotificationCode" =>
           \/ Len(message_history) > 1
           \/ exchanges[Len(exchanges)].reply \in Announcements

\* No message of a peer that answers correctly and in time ever draws one.
ConformingPeerIsNotBlamed ==
  conforming => \A i \in DOMAIN findings : findings[i].kind # "NotificationCode"

\* A peer that answers with a NOTIFICATION has rejected the message.
RejectionIsNotAcceptance ==
  findings # <<>> /\ DecodesAs(exchanges[Len(exchanges)].reply, "BgpNotification")
    => \A i \in DOMAIN findings : findings[i].kind # "IllegalAccepted"

\* No two bug reports carry the same id.
BugIdsAreUnique ==
  \A i, j \in DOMAIN bugs : i # j => bugs[i].id # bugs[j].id
=============================================================================
