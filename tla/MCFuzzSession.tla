--------------------------- MODULE MCFuzzSession ---------------------------
(* Instances of FuzzSession for model checking. *)
EXTENDS FuzzSession

\* The panel main.rs builds, and the same without the oracle that injects.
FullPanel == OracleName
PassivePanel == OracleName \ {"NotificationCode"}

\* What the generator may yield: an OPEN with a repeated capability, a
\* KEEPALIVE (timed by LatencyOracle), bytes too short for a header.
DuplicateOpen == Message("duplicate", "BgpOpen", "whole", NoCode, "duplicate", {})
Keepalive == Plain("keepalive", "BgpKeepalive")
Stub == Message("stub", "Unknown", "stub", NoCode, "plain", {})

\* Bytes on which the decoder panics: sent they are raw or byte-mutated, and a
\* peer may send what it likes.
ShortHeader == Message("short header", "BgpNotification", "fatal", NoCode, "plain", {})

\* What the peer may send: the NOTIFICATION the first scenario asks for, and an
\* OPEN.
OpenReply == Plain("open", "BgpOpen")
SomeReplies == {Notification(<<1, 2>>), OpenReply}

\* What a conforming peer sends unasked once it is Established.
EndOfRib == Plain("End-of-RIB", "BgpUpdate")
Unasked == {EndOfRib, Plain("periodic keepalive", "BgpKeepalive")}

SetUp(panel, enable_shrink, batches, replies, announcements, max_conns, max_clock) ==
  [panel |-> panel, enable_shrink |-> enable_shrink, batches |-> batches,
   replies |-> replies, announcements |-> announcements,
   max_conns |-> max_conns, max_clock |-> max_clock]

\* With the injecting panel only the length of a batch matters.
AnyBatch == {<<Keepalive>>, <<Keepalive, Keepalive>>}

\* main.rs's panel over two connections.
TwoConnections == SetUp(FullPanel, FALSE, AnyBatch, SomeReplies, Unasked, 2, 0)

\* The scenarios run out and start over.
Refill == SetUp(FullPanel, FALSE, {[k \in 1..9 |-> Keepalive]}, {}, {}, 1, 0)

\* No oracle injects, every report is shrunk, time passes.
LongBatch == <<Keepalive, DuplicateOpen, Stub, Keepalive, DuplicateOpen>>
Shrinking == SetUp(PassivePanel, TRUE, {LongBatch}, {OpenReply}, {}, 1, 1)

\* No oracle injects, and what is sent or read may make the decoder panic.
Panicking == SetUp(PassivePanel, FALSE, {<<Keepalive, ShortHeader>>},
                   {OpenReply, ShortHeader}, {}, 1, 0)

AllSetups == {TwoConnections, Refill, Shrinking, Panicking}

\* For the runs that look for one thing.
QuietPeer == {SetUp(FullPanel, FALSE, AnyBatch, {}, {}, 1, 0)}
OnlyRefill == {Refill}
NoInjection == {SetUp(PassivePanel, FALSE, AnyBatch, SomeReplies, {}, 1, 0)}
=============================================================================
