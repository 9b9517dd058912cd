------------------------------ MODULE Oracles ------------------------------
(***************************************************************************)
(* The seven oracles of bgp-fuzz-oracle, as operators from what an oracle  *)
(* is shown to the findings it returns.  An exchange is                    *)
(*     [sent, kind, reply, alone]                                          *)
(* the message sent, the RecvKind of the outcome and, when that is Data,   *)
(* the first message of the bytes read and whether they are that message   *)
(* alone (NoReply and TRUE otherwise).  What more than the first message   *)
(* an oracle decodes of a longer read is left to module Wire.  `last` is   *)
(* the last entry of the FSM log.  Oracles that keep state take it as an   *)
(* argument; the operator that updates it is next to the check.            *)
(***************************************************************************)
EXTENDS BgpMessage

RecvKind == {"Data", "PeerClosed", "ConnectionReset", "Timeout", "Error"}

NoReply == Message("none", "Unknown", "stub", NoCode, "plain", {})

FindingKind == {"PeerReset", "PeerClosed", "IllegalAccepted", "LegalRejected",
                "Timeout", "AttributeEcho", "AttributeMirror",
                "NotificationCode", "CapNegotiation", "LatencySpike"}

BugSeverity == {"Critical", "High", "Medium"}

\* A finding; count is the consecutive-timeout count a Timeout carries.
Finding(kind, count) == [kind |-> kind, count |-> count]

\* The findings list with one element if the condition holds.
When(condition, kind) == IF condition THEN <<Finding(kind, 0)>> ELSE <<>>

SeverityOff(f) ==      \* slip: a timeout escalates one too early
  CASE f.kind = "PeerReset" -> "Critical"
    [] f.kind \in {"PeerClosed", "IllegalAccepted", "AttributeEcho",
                   "NotificationCode"} -> "High"
    [] f.kind = "Timeout" -> IF f.count >= 2 THEN "High" ELSE "Medium"
    [] f.kind \in {"LegalRejected", "AttributeMirror", "CapNegotiation",
                   "LatencySpike"} -> "Medium"

\* The severity into_report gives a finding.
SeverityOf(f) ==
  CASE f.kind = "PeerReset" -> "Critical"
    [] f.kind \in {"PeerClosed", "IllegalAccepted", "AttributeEcho",
                   "NotificationCode"} -> "High"
    [] f.kind = "Timeout" -> IF f.count >= 3 THEN "High" ELSE "Medium"
    [] f.kind \in {"LegalRejected", "AttributeMirror", "CapNegotiation",
                   "LatencySpike"} -> "Medium"

-----------------------------------------------------------------------------
(* CrashOracle *)

CrashCheck(x) ==
  When(x.kind = "ConnectionReset", "PeerReset")
    \o When(x.kind = "PeerClosed", "PeerClosed")

(* FsmConsistencyOracle: judges the last log entry, whichever it is. *)
FsmCheck(x, last) ==
  LET peer_accepted == x.kind \in {"Data", "Timeout"}
  IN  When(last.legality = "Illegal" /\ peer_accepted, "IllegalAccepted")
        \o When(last.legality = "Legal" /\ ~peer_accepted, "LegalRejected")

(* ResponseOracle: consecutive_timeouts survives everything but an answer. *)
CountTimeouts(x, consecutive) ==
  IF x.kind = "Timeout" THEN consecutive + 1 ELSE 0

ResponseCheck(x, consecutive) ==
  IF x.kind = "Timeout"
  THEN <<Finding("Timeout", CountTimeouts(x, consecutive))>>
  ELSE <<>>

(* AttributeEchoOracle: `echo` is the last UPDATE sent in Established, kept *)
(* as a sequence of length at most one (the two Options it stores are set   *)
(* together); it is never cleared.  The mirror check compares it with       *)
(* everything that was read, the echo check with the UPDATE decoded.        *)
EchoPending(x, last, echo) ==
  IF last.state_after = "Established" /\ DecodesAs(x.sent, "BgpUpdate")
  THEN <<x.sent>> ELSE echo

EchoCheck(x, last, echo) ==
  LET pending == EchoPending(x, last, echo)
      compared == /\ last.state_after = "Established"
                  /\ x.kind = "Data" /\ DecodesAs(x.reply, "BgpUpdate")
                  /\ pending # <<>>
  IN  When(compared /\ Head(pending).nlri # x.reply.nlri, "AttributeEcho")
        \o When(compared /\ (~x.alone \/ Head(pending) # x.reply), "AttributeMirror")

(* LatencyOracle: `samples` is the length of the RTT window; whether the    *)
(* measured RTT is above mean + 3 stddev is the argument `above`.  A spike  *)
(* is kept out of the window, which once full stays full.                   *)
Timed(x) == DecodesAs(x.sent, "BgpKeepalive") /\ x.kind = "Data"

LatencyWindow(x, samples, window_size) ==
  IF Timed(x) /\ samples < window_size THEN samples + 1 ELSE samples

LatencyCheck(x, samples, window_size, above) ==
  When(Timed(x) /\ samples >= window_size /\ above, "LatencySpike")

(* CapNegotiationOracle *)
CapCheck(x) ==
  LET open == DecodesAs(x.sent, "BgpOpen")
      duplicates == x.sent.caps = "duplicate"
  IN  When(open /\ x.kind = "Data" /\ DecodesAs(x.reply, "BgpOpen")
             /\ duplicates, "CapNegotiation")
        \o When(open /\ x.kind = "Data" /\ DecodesAs(x.reply, "BgpNotification")
                  /\ x.sent.caps = "plain", "CapNegotiation")
        \o When(open /\ x.kind \in {"PeerClosed", "ConnectionReset"}
                  /\ ~duplicates, "CapNegotiation")

(* NotificationCodeOracle: `pending` is the scenario just injected, as a    *)
(* sequence of length at most one.                                          *)
NotificationCheck(x, pending) ==
  LET wrong_reply == ~ (/\ DecodesAs(x.reply, "BgpNotification")
                        /\ x.reply.code = Head(pending).expected)
  IN  When(/\ pending # <<>>
           /\ \/ x.kind = "Data" /\ wrong_reply
              \/ x.kind \in {"PeerClosed", "ConnectionReset"},
           "NotificationCode")

-----------------------------------------------------------------------------
(* The malformed messages NotificationCodeOracle injects, in queue order,   *)
(* with the code and subcode it expects back (enqueue_scenarios).           *)

Scenario(name, type, form, code, nlri) ==
  [bytes |-> Message(name, type, form, NoCode, "plain", nlri), expected |-> code]

Scenarios ==
  << Scenario("Bad Message Length", "BgpOpen", "damaged", <<1, 2>>, {}),
     Scenario("Bad Message Type", "Unknown", "whole", <<1, 3>>, {}),
     Scenario("Unsupported Version", "BgpOpen", "whole", <<2, 1>>, {}),
     Scenario("Bad Peer AS", "BgpOpen", "whole", <<2, 2>>, {}),
     Scenario("Bad BGP Identifier", "BgpOpen", "whole", <<2, 3>>, {}),
     Scenario("Unacceptable Hold Time", "BgpOpen", "whole", <<2, 5>>, {}),
     Scenario("Missing Well-known Attribute", "BgpUpdate", "whole", <<3, 3>>, {}),
     Scenario("Invalid NEXT_HOP", "BgpUpdate", "whole", <<3, 8>>, {"192.168.0/24"}) >>

IsScenario(m) == \E i \in DOMAIN Scenarios : Scenarios[i].bytes = m
=============================================================================
