----------------------- MODULE SessionFindings_proofs -----------------------
(* Theorems about what FuzzSession finds: how many findings an exchange     *)
(* yields, when a timeout escalates, that the session is a run of its       *)
(* control skeleton, what its first verdict may go by, that its statistics  *)
(* add up, and that every finding is filed.                                 *)
EXTENDS FuzzSession_proofs, FiniteSetTheorems

-----------------------------------------------------------------------------
(* The findings of one exchange: what kinds there are, that a timeout      *)
(* carries the oracle's count, and that there are never more than four.    *)

FindingRec == [kind : FindingKind, count : Nat]

\* The findings an exchange may yield; c is ResponseOracle's count after it.
CountedFinding(c) ==
  {f \in FindingRec :
     f.kind = "Timeout" => "Response" \in Panel /\ f.count = c}

\* Findings of these kinds.
Of(kinds) == {f \in FindingRec : f.kind \in kinds}

Exchange ==
  [sent : AnyMessage, kind : RecvKind, reply : AnyMessage, alone : BOOLEAN]

LEMMA WhenFinds ==
  ASSUME NEW condition \in BOOLEAN, NEW kind \in FindingKind,
         NEW kinds, kind \in kinds
  PROVE  /\ When(condition, kind) \in Seq(Of(kinds))
         /\ condition => Len(When(condition, kind)) = 1
         /\ ~condition => Len(When(condition, kind)) = 0
<1>1. Finding(kind, 0) \in Of(kinds)
  BY DEF Finding, Of, FindingRec
<1> QED BY <1>1 DEF When

LEMMA TwoParts ==
  ASSUME NEW S, NEW a \in Seq(S), NEW b \in Seq(S)
  PROVE  /\ a \o b \in Seq(S)
         /\ Len(a) \in Nat /\ Len(b) \in Nat
         /\ Len(a \o b) = Len(a) + Len(b)
BY ConcatProperties

\* Two findings of which at most one is made.
LEMMA EitherFinds ==
  ASSUME NEW p \in BOOLEAN, NEW q \in BOOLEAN, ~(p /\ q),
         NEW k \in FindingKind, NEW l \in FindingKind,
         NEW kinds, k \in kinds, l \in kinds
  PROVE  LET s == When(p, k) \o When(q, l)
         IN  /\ s \in Seq(Of(kinds))
             /\ p \/ q => Len(s) = 1
             /\ ~(p \/ q) => Len(s) = 0
<1> DEFINE a == When(p, k)
           b == When(q, l)
<1>1. /\ a \in Seq(Of(kinds))
      /\ p => Len(a) = 1
      /\ ~p => Len(a) = 0
  BY WhenFinds
<1>2. /\ b \in Seq(Of(kinds))
      /\ q => Len(b) = 1
      /\ ~q => Len(b) = 0
  BY WhenFinds
<1> HIDE DEF a, b
<1>3. a \o b \in Seq(Of(kinds)) /\ Len(a \o b) = Len(a) + Len(b)
  BY <1>1, <1>2, TwoParts
<1>4. /\ p \/ q => Len(a \o b) = 1
      /\ ~(p \/ q) => Len(a \o b) = 0
  <2>0. 1 + 0 = 1 /\ 0 + 1 = 1 /\ 0 + 0 = 0
    OBVIOUS
  <2> QED BY <1>1, <1>2, <1>3, <2>0, Zenon
<1> QED BY <1>3, <1>4 DEF a, b

LEMMA CrashFinds ==
  ASSUME NEW x
  PROVE  /\ CrashCheck(x) \in Seq(Of({"PeerReset", "PeerClosed"}))
         /\ Len(CrashCheck(x)) \in {0, 1}
         /\ x.kind \notin {"ConnectionReset", "PeerClosed"} => Len(CrashCheck(x)) = 0
<1>1. "PeerReset" \in FindingKind /\ "PeerClosed" \in FindingKind
  BY DEF FindingKind
<1> QED BY <1>1, EitherFinds DEF CrashCheck

LEMMA FsmFinds ==
  ASSUME NEW x, NEW last
  PROVE  /\ FsmCheck(x, last) \in Seq(Of({"IllegalAccepted", "LegalRejected"}))
         /\ Len(FsmCheck(x, last)) \in {0, 1}
<1>1. /\ "IllegalAccepted" \in FindingKind
      /\ "LegalRejected" \in FindingKind
  BY DEF FindingKind
<1> QED BY <1>1, EitherFinds DEF FsmCheck

LEMMA ResponseFinds ==
  ASSUME NEW x, consecutive \in Nat
  PROVE  /\ "Response" \in Panel =>
              ResponseCheck(x, consecutive)
                \in Seq(CountedFinding(CountTimeouts(x, consecutive)))
         /\ ResponseCheck(x, consecutive) \in Seq(Of({"Timeout"}))
         /\ Len(ResponseCheck(x, consecutive)) \in {0, 1}
         /\ x.kind # "Timeout" => Len(ResponseCheck(x, consecutive)) = 0
<1>1. CASE x.kind = "Timeout"
  <2> DEFINE f == Finding("Timeout", CountTimeouts(x, consecutive))
  <2>1. CountTimeouts(x, consecutive) \in Nat
    BY DEF CountTimeouts
  <2>2. "Response" \in Panel => f \in CountedFinding(CountTimeouts(x, consecutive))
    BY <2>1 DEF Finding, CountedFinding, FindingRec, FindingKind
  <2>4. f \in Of({"Timeout"})
    BY <2>1 DEF Finding, Of, FindingRec, FindingKind
  <2> HIDE DEF f
  <2>3. ResponseCheck(x, consecutive) = <<f>>
    BY <1>1 DEF ResponseCheck, f
  <2> QED BY <1>1, <2>2, <2>3, <2>4
<1>2. CASE x.kind # "Timeout"
  BY <1>2 DEF ResponseCheck
<1> QED BY <1>1, <1>2

LEMMA EchoFinds ==
  ASSUME NEW x, NEW last, last.state_after # "Established"
  PROVE  /\ EchoCheck(x, last, echo) \in Seq(Of({"AttributeEcho", "AttributeMirror"}))
         /\ Len(EchoCheck(x, last, echo)) = 0
<1>1. EchoCheck(x, last, echo) = When(FALSE, "AttributeEcho") \o When(FALSE, "AttributeMirror")
  BY DEF EchoCheck, When
<1>2. /\ "AttributeEcho" \in FindingKind
      /\ "AttributeMirror" \in FindingKind
  BY DEF FindingKind
<1>3. ~(FALSE /\ FALSE) /\ FALSE \in BOOLEAN
  OBVIOUS
<1> QED BY <1>1, <1>2, <1>3, EitherFinds

LEMMA LatencyFinds ==
  ASSUME NEW x, NEW above \in BOOLEAN
  PROVE  /\ LatencyCheck(x, samples, WindowSize, above) \in Seq(Of({"LatencySpike"}))
         /\ Len(LatencyCheck(x, samples, WindowSize, above)) \in {0, 1}
         /\ ~Timed(x) => Len(LatencyCheck(x, samples, WindowSize, above)) = 0
<1>1. "LatencySpike" \in FindingKind
  BY DEF FindingKind
<1> QED BY <1>1, WhenFinds DEF LatencyCheck

LEMMA CapFinds ==
  ASSUME NEW x
  PROVE  /\ CapCheck(x) \in Seq(Of({"CapNegotiation"}))
         /\ Len(CapCheck(x)) \in {0, 1}
         /\ ~DecodesAs(x.sent, "BgpOpen")
              \/ x.kind \notin {"Data", "PeerClosed", "ConnectionReset"} =>
              Len(CapCheck(x)) = 0
<1> DEFINE K == "CapNegotiation"
           open == DecodesAs(x.sent, "BgpOpen")
           duplicates == x.sent.caps = "duplicate"
           p1 == /\ open /\ x.kind = "Data" /\ DecodesAs(x.reply, "BgpOpen")
                 /\ duplicates
           p2 == /\ open /\ x.kind = "Data" /\ DecodesAs(x.reply, "BgpNotification")
                 /\ x.sent.caps = "plain"
           p3 == /\ open /\ x.kind \in {"PeerClosed", "ConnectionReset"}
                 /\ ~duplicates
           a == When(p1, K) \o When(p2, K)
           b == When(p3, K)
<1>1. K \in FindingKind
  BY DEF FindingKind
<1>2. /\ p1 \in BOOLEAN /\ p2 \in BOOLEAN /\ p3 \in BOOLEAN
      /\ ~(p1 /\ p2) /\ ~((p1 \/ p2) /\ p3)
  BY DEF DecodesAs
<1>3. p1 \/ p2 \/ p3 => open /\ x.kind \in {"Data", "PeerClosed", "ConnectionReset"}
  OBVIOUS
<1>4. CapCheck(x) = a \o b
  BY DEF CapCheck
<1> DEFINE kinds == {K}
<1> HIDE DEF p1, p2, p3
<1>5. /\ a \in Seq(Of(kinds))
      /\ p1 \/ p2 => Len(a) = 1
      /\ ~(p1 \/ p2) => Len(a) = 0
  BY <1>1, <1>2, EitherFinds
<1>6. /\ b \in Seq(Of(kinds))
      /\ p3 => Len(b) = 1
      /\ ~p3 => Len(b) = 0
  BY <1>1, <1>2, WhenFinds
<1> HIDE DEF a, b
<1>7. a \o b \in Seq(Of(kinds)) /\ Len(a \o b) = Len(a) + Len(b)
  BY <1>5, <1>6, TwoParts
<1>8. /\ p1 \/ p2 \/ p3 => Len(a \o b) = 1
      /\ ~(p1 \/ p2 \/ p3) => Len(a \o b) = 0
  <2>1. 1 + 0 = 1 /\ 0 + 1 = 1 /\ 0 + 0 = 0
    OBVIOUS
  <2> QED BY <1>2, <1>5, <1>6, <1>7, <2>1, Zenon
<1> QED BY <1>3, <1>4, <1>7, <1>8

LEMMA NotificationFinds ==
  ASSUME NEW x
  PROVE  /\ NotificationCheck(x, pending) \in Seq(Of({"NotificationCode"}))
         /\ Len(NotificationCheck(x, pending)) \in {0, 1}
         /\ x.kind \notin {"Data", "PeerClosed", "ConnectionReset"} =>
              Len(NotificationCheck(x, pending)) = 0
<1>1. "NotificationCode" \in FindingKind
  BY DEF FindingKind
<1> QED BY <1>1, WhenFinds DEF NotificationCheck

LEMMA SeqIn ==
  ASSUME NEW S, NEW T, S \subseteq T, NEW s \in Seq(S)
  PROVE  s \in Seq(T)
<1>1. s \in [1..Len(s) -> S] /\ Len(s) \in Nat
  BY LenProperties
<1> QED BY <1>1

\* What holds of the findings of every oracle holds of the panel's.
LEMMA PanelIn ==
  ASSUME NEW x, NEW last, NEW above, NEW S,
         Ask("Crash", CrashCheck(x)) \in Seq(S),
         Ask("FsmConsistency", FsmCheck(x, last)) \in Seq(S),
         Ask("Response", ResponseCheck(x, consecutive)) \in Seq(S),
         Ask("AttributeEcho", EchoCheck(x, last, echo)) \in Seq(S),
         Ask("Latency", LatencyCheck(x, samples, WindowSize, above)) \in Seq(S),
         Ask("CapNegotiation", CapCheck(x)) \in Seq(S),
         Ask("NotificationCode", NotificationCheck(x, pending)) \in Seq(S)
  PROVE  PanelFindings(x, last, above) \in Seq(S)
BY TwoParts DEF PanelFindings

\* What the outcome and the message sent leave of the panel.
LEMMA AtMostFour ==
  ASSUME NEW a \in {0, 1}, NEW b \in {0, 1}, NEW c \in {0, 1}, NEW e \in {0, 1},
         NEW f \in {0, 1}, NEW g \in {0, 1},
         \/ a = 0 /\ c = 0 /\ (e = 0 \/ f = 0)
         \/ c = 0 /\ e = 0
         \/ a = 0 /\ e = 0 /\ f = 0 /\ g = 0
  PROVE  a + b + c + 0 + e + f + g \in 0..4
OBVIOUS

\* The panel on a session that is not established.
LEMMA PanelFinds ==
  ASSUME NEW x \in Exchange, NEW last, NEW above \in BOOLEAN,
         last.state_after # "Established", consecutive \in Nat
  PROVE  /\ PanelFindings(x, last, above)
              \in Seq(CountedFinding(CountTimeouts(x, consecutive)))
         /\ Len(PanelFindings(x, last, above)) \in 0..4
<1> DEFINE c == CountTimeouts(x, consecutive)
           T == CountedFinding(c)
           f1 == Ask("Crash", CrashCheck(x))
           f2 == Ask("FsmConsistency", FsmCheck(x, last))
           f3 == Ask("Response", ResponseCheck(x, consecutive))
           f4 == Ask("AttributeEcho", EchoCheck(x, last, echo))
           f5 == Ask("Latency", LatencyCheck(x, samples, WindowSize, above))
           f6 == Ask("CapNegotiation", CapCheck(x))
           f7 == Ask("NotificationCode", NotificationCheck(x, pending))
           s2 == f1 \o f2
           s3 == s2 \o f3
           s4 == s3 \o f4
           s5 == s4 \o f5
           s6 == s5 \o f6
           s7 == s6 \o f7
<1>0. /\ <<>> \in Seq(T) /\ Len(<<>>) = 0
      /\ \A kinds : "Timeout" \notin kinds => Of(kinds) \subseteq T
  BY DEF Of, CountedFinding
<1>1. /\ f1 \in Seq(T) /\ Len(f1) \in {0, 1}
      /\ x.kind \notin {"ConnectionReset", "PeerClosed"} => Len(f1) = 0
  BY <1>0, CrashFinds, SeqIn DEF Ask
<1>2. f2 \in Seq(T) /\ Len(f2) \in {0, 1}
  BY <1>0, FsmFinds, SeqIn DEF Ask
<1>3. /\ f3 \in Seq(T) /\ Len(f3) \in {0, 1}
      /\ x.kind # "Timeout" => Len(f3) = 0
  BY <1>0, ResponseFinds DEF Ask
<1>4. f4 \in Seq(T) /\ Len(f4) = 0
  BY <1>0, EchoFinds, SeqIn DEF Ask
<1>5. /\ f5 \in Seq(T) /\ Len(f5) \in {0, 1}
      /\ ~Timed(x) => Len(f5) = 0
  BY <1>0, LatencyFinds, SeqIn DEF Ask
<1>6. /\ f6 \in Seq(T) /\ Len(f6) \in {0, 1}
      /\ ~DecodesAs(x.sent, "BgpOpen")
           \/ x.kind \notin {"Data", "PeerClosed", "ConnectionReset"} =>
           Len(f6) = 0
  BY <1>0, CapFinds, SeqIn DEF Ask
<1>7. /\ f7 \in Seq(T) /\ Len(f7) \in {0, 1}
      /\ x.kind \notin {"Data", "PeerClosed", "ConnectionReset"} => Len(f7) = 0
  BY <1>0, NotificationFinds, SeqIn DEF Ask
<1>8. PanelFindings(x, last, above) = s7
  BY DEF PanelFindings
<1> HIDE DEF T, f1, f2, f3, f4, f5, f6, f7
<1>9. s2 \in Seq(T) /\ Len(s2) = Len(f1) + Len(f2)
  BY <1>1, <1>2, TwoParts
<1> HIDE DEF s2
<1>10. s3 \in Seq(T) /\ Len(s3) = Len(s2) + Len(f3)
  BY <1>3, <1>9, TwoParts
<1> HIDE DEF s3
<1>11. s4 \in Seq(T) /\ Len(s4) = Len(s3) + Len(f4)
  BY <1>4, <1>10, TwoParts
<1> HIDE DEF s4
<1>12. s5 \in Seq(T) /\ Len(s5) = Len(s4) + Len(f5)
  BY <1>5, <1>11, TwoParts
<1> HIDE DEF s5
<1>13. s6 \in Seq(T) /\ Len(s6) = Len(s5) + Len(f6)
  BY <1>6, <1>12, TwoParts
<1> HIDE DEF s6
<1>14. s7 \in Seq(T) /\ Len(s7) = Len(s6) + Len(f7)
  BY <1>7, <1>13, TwoParts
<1> HIDE DEF s7
<1>15. Len(s7) = Len(f1) + Len(f2) + Len(f3) + 0 + Len(f5) + Len(f6) + Len(f7)
  BY <1>1, <1>2, <1>3, <1>4, <1>5, <1>6, <1>7, <1>9, <1>10, <1>11, <1>12, <1>13,
     <1>14
<1>16. x.kind \in RecvKind
  BY DEF Exchange
<1>20. /\ Len(f1) \in {0, 1} /\ Len(f2) \in {0, 1} /\ Len(f3) \in {0, 1}
       /\ Len(f5) \in {0, 1} /\ Len(f6) \in {0, 1} /\ Len(f7) \in {0, 1}
  BY <1>1, <1>2, <1>3, <1>5, <1>6, <1>7
<1>17. Timed(x) => x.kind = "Data" /\ ~DecodesAs(x.sent, "BgpOpen")
  BY DEF Timed, DecodesAs
<1>18. \/ Len(f1) = 0 /\ Len(f3) = 0 /\ (Len(f5) = 0 \/ Len(f6) = 0)
       \/ Len(f3) = 0 /\ Len(f5) = 0
       \/ Len(f1) = 0 /\ Len(f5) = 0 /\ Len(f6) = 0 /\ Len(f7) = 0
  <2>1. CASE x.kind = "Data"
    BY <1>1, <1>3, <1>5, <1>6, <1>17, <2>1
  <2>2. CASE x.kind \in {"PeerClosed", "ConnectionReset"}
    BY <1>3, <1>5, <1>17, <2>2
  <2>3. CASE x.kind \in {"Timeout", "Error"}
    BY <1>1, <1>5, <1>6, <1>7, <1>17, <2>3
  <2> QED BY <1>16, <2>1, <2>2, <2>3 DEF RecvKind
<1>19. Len(s7) \in 0..4
  <2>1. \A a, b, d, e, g, h \in {0, 1} :
          \/ a = 0 /\ d = 0 /\ (e = 0 \/ g = 0)
          \/ d = 0 /\ e = 0
          \/ a = 0 /\ e = 0 /\ g = 0 /\ h = 0
          => a + b + d + 0 + e + g + h \in 0..4
    BY AtMostFour
  <2>2. Len(f1) + Len(f2) + Len(f3) + 0 + Len(f5) + Len(f6) + Len(f7) \in 0..4
    BY <1>18, <1>20, <2>1
  <2> QED BY <1>15, <2>2
<1> QED BY <1>8, <1>14, <1>19 DEF T

-----------------------------------------------------------------------------
(* The timeout count.  It is the length of the longest run of timeouts at  *)
(* the end of the exchanges, and every Timeout finding carries it.         *)

TimeoutsAtEnd(e, c) ==
  /\ \A k \in (Len(e) - c + 1)..Len(e) : e[k].kind = "Timeout"
  /\ c < Len(e) => e[Len(e) - c].kind # "Timeout"

CountInv ==
  /\ exchanges \in Seq(Exchange)
  /\ consecutive \in 0..Len(exchanges)
  /\ "Response" \in Panel => TimeoutsAtEnd(exchanges, consecutive)
  /\ findings \in Seq(CountedFinding(consecutive))

LEMMA OneMoreExchange ==
  ASSUME NEW e \in Seq(Exchange), NEW x \in Exchange, NEW c \in 0..Len(e),
         TimeoutsAtEnd(e, c)
  PROVE  /\ TimeoutsAtEnd(Append(e, x), CountTimeouts(x, c))
         /\ CountTimeouts(x, c) \in 0..(Len(e) + 1)
<1> DEFINE n == Len(e)
           f == Append(e, x)
<1>1. /\ n \in Nat /\ c \in 0..n /\ Len(f) = n + 1
      /\ \A k \in 1..n : f[k] = e[k]
      /\ f[n + 1] = x
  BY AppendProperties
<1>2. /\ \A k \in (n - c + 1)..n : e[k].kind = "Timeout"
      /\ c < n => e[n - c].kind # "Timeout"
  BY DEF TimeoutsAtEnd
<1> HIDE DEF n, f
<1>3. CASE x.kind = "Timeout"
  <2>1. CountTimeouts(x, c) = c + 1 /\ c + 1 \in 0..(n + 1)
    BY <1>1, <1>3 DEF CountTimeouts
  <2>2. ASSUME NEW k \in (Len(f) - (c + 1) + 1)..Len(f)
        PROVE  f[k].kind = "Timeout"
    <3>1. CASE k = n + 1
      BY <1>1, <1>3, <3>1
    <3>2. CASE k # n + 1
      <4>1. k \in (n - c + 1)..n /\ k \in 1..n
        BY <1>1, <3>2
      <4> QED BY <1>1, <1>2, <4>1
    <3> QED BY <3>1, <3>2
  <2>3. ASSUME c + 1 < Len(f)
        PROVE  f[Len(f) - (c + 1)].kind # "Timeout"
    <3>1. c < n /\ Len(f) - (c + 1) = n - c /\ n - c \in 1..n
      BY <1>1, <2>3
    <3> QED BY <1>1, <1>2, <3>1
  <2> QED BY <2>1, <2>2, <2>3 DEF TimeoutsAtEnd, f, n
<1>4. CASE x.kind # "Timeout"
  <2>1. CountTimeouts(x, c) = 0 /\ 0 \in 0..(n + 1)
    BY <1>1, <1>4 DEF CountTimeouts
  <2>2. (Len(f) - 0 + 1)..Len(f) = {} /\ Len(f) - 0 = n + 1
    BY <1>1
  <2>3. TimeoutsAtEnd(f, 0)
    BY <1>1, <1>4, <2>2 DEF TimeoutsAtEnd
  <2> QED BY <2>1, <2>3 DEF f, n
<1> QED BY <1>3, <1>4

\* A judgement keeps the count, on a session that is not established.
LEMMA JudgeCounts ==
  ASSUME CountInv, NEW x \in Exchange, Judge(x), Panel' = Panel,
         event_log' \in Seq(LogEntry), event_log' # <<>>,
         \A k \in DOMAIN event_log' : event_log'[k].state_after = "Idle"
  PROVE  CountInv' /\ Len(findings') \in 0..4
<1> DEFINE last == event_log'[Len(event_log')]
           c == CountTimeouts(x, consecutive)
<1>1. PICK above \in BOOLEAN : findings' = PanelFindings(x, last, above)
  BY DEF Judge
<1>2. last.state_after # "Established"
  <2>1. Len(event_log') \in DOMAIN event_log'
    OBVIOUS
  <2> QED BY <2>1
<1>3. /\ exchanges \in Seq(Exchange) /\ consecutive \in 0..Len(exchanges)
      /\ consecutive \in Nat
  BY DEF CountInv
<1>4. /\ exchanges' = Append(exchanges, x) /\ exchanges' \in Seq(Exchange)
      /\ Len(exchanges') = Len(exchanges) + 1
  BY <1>3, AppendProperties DEF Judge
<1>5. findings' \in Seq(CountedFinding(c)) /\ Len(findings') \in 0..4
  BY <1>1, <1>2, <1>3, PanelFinds
<1>6. CASE "Response" \in Panel
  <2>1. consecutive' = c
    BY <1>6 DEF Judge, PanelUpdate
  <2>2. findings' \in Seq(CountedFinding(consecutive)')
    BY <1>5, <2>1 DEF CountedFinding
  <2>3. TimeoutsAtEnd(exchanges', c) /\ c \in 0..Len(exchanges')
    BY <1>3, <1>4, <1>6, OneMoreExchange DEF CountInv
  <2> QED BY <1>4, <1>5, <2>1, <2>2, <2>3 DEF CountInv
<1>7. CASE "Response" \notin Panel
  <2>1. consecutive' = consecutive
    BY <1>7 DEF Judge, PanelUpdate
  <2>2. CountedFinding(c) = CountedFinding(consecutive)'
    BY <1>7 DEF CountedFinding
  <2>3. findings' \in Seq(CountedFinding(consecutive)')
    BY <1>5, <2>2
  <2>4. consecutive' \in 0..Len(exchanges')
    BY <1>3, <1>4, <2>1
  <2> QED BY <1>4, <1>5, <1>7, <2>3, <2>4 DEF CountInv
<1> QED BY <1>6, <1>7

LEMMA ReadCounts ==
  ASSUME CountInv, IdleInv, TrafficInv, [Next]_vars, ReadData \/ ReadNothing
  PROVE  CountInv' /\ Len(findings') \in 0..4
<1>0. Panel' = Panel /\ sent \in AnyMessage
  BY SetupStep DEF Panel, TrafficInv
<1>1. CASE ReadData
  <2>0. PICK n \in 1..Len(inbox) :
          Judge([sent |-> sent, kind |-> "Data", reply |-> Head(inbox),
                 alone |-> n = 1])
    BY <1>1 DEF ReadData
  <2> DEFINE x == [sent |-> sent, kind |-> "Data", reply |-> Head(inbox),
                   alone |-> n = 1]
  <2>1. Feed("Recv", ClassifyMessage(Head(inbox)))
    BY <1>1 DEF ReadData, OnRecv
  <2>2. Head(inbox) \in AnyMessage
    BY <1>1 DEF ReadData, TrafficInv
  <2>3. /\ event_log' \in Seq(LogEntry) /\ event_log' # <<>>
        /\ \A k \in DOMAIN event_log' : event_log'[k].state_after = "Idle"
    BY <2>1, <2>2, FeedStaysIdle
  <2>4. x \in Exchange
    BY <1>0, <2>2 DEF Exchange, RecvKind
  <2>5. Judge(x)
    BY <2>0
  <2> QED BY <1>0, <2>3, <2>4, <2>5, JudgeCounts
<1>2. CASE ReadNothing
  <2>1. PICK kind \in RecvKind :
          /\ UNCHANGED fsmVars
          /\ Judge([sent |-> sent, kind |-> kind, reply |-> NoReply, alone |-> TRUE])
    BY <1>2 DEF ReadNothing
  <2> DEFINE x == [sent |-> sent, kind |-> kind, reply |-> NoReply, alone |-> TRUE]
  <2>2. /\ event_log' \in Seq(LogEntry) /\ event_log' # <<>>
        /\ \A k \in DOMAIN event_log' : event_log'[k].state_after = "Idle"
    BY <1>2, <2>1 DEF IdleInv, ReadNothing, fsmVars
  <2>3. x \in Exchange
    <3>1. NoReply \in AnyMessage
      BY DEF AnyMessage
    <3> QED BY <1>0, <3>1 DEF Exchange
  <2> QED BY <1>0, <2>1, <2>2, <2>3, JudgeCounts
<1> QED BY <1>1, <1>2

\* Filing a finding takes the first of the list.
LEMMA FileCounts ==
  ASSUME CountInv, findings # <<>>, Panel' = Panel,
         findings' = Tail(findings), UNCHANGED <<exchanges, consecutive>>
  PROVE  CountInv' /\ Len(findings') = Len(findings) - 1
<1>1. /\ Tail(findings) \in Seq(CountedFinding(consecutive))
      /\ Len(Tail(findings)) = Len(findings) - 1
  BY HeadTailProperties DEF CountInv
<1> QED BY <1>1 DEF CountInv, CountedFinding

\* There is something to report whenever the session is at it.
FindingsInv ==
  /\ Len(findings) \in 0..4
  /\ pc \in {"report", "shrinking"} => findings # <<>>

LEMMA CountStep ==
  CountInv /\ FindingsInv /\ IdleInv /\ TrafficInv /\ [Next]_vars
    => CountInv' /\ FindingsInv'
<1> SUFFICES ASSUME CountInv, FindingsInv, IdleInv, TrafficInv, [Next]_vars
             PROVE  CountInv' /\ FindingsInv'
  OBVIOUS
<1>0. Panel' = Panel
  BY SetupStep DEF Panel
<1>c. UNCHANGED <<exchanges, consecutive, findings>> => CountInv'
  BY <1>0 DEF CountInv, CountedFinding
<1> USE DEF oracleVars, bugVars, ghostVars
<1>1. CASE Iterate \/ Finish \/ Connected \/ Refused \/ Take \/ Written
  BY <1>c, <1>1 DEF FindingsInv, Iterate, Finish, Connected, Refused, Take, Written,
                    Inject, UseGenerated
<1>2. CASE ReadOpen \/ ReadKeepalive \/ EndSession \/ WriteFails
  BY <1>c, <1>2 DEF FindingsInv, ReadOpen, ReadKeepalive, EndSession, WriteFails,
                    Disconnect, DropStream
<1>3. CASE ReadData \/ ReadNothing
  <2>1. CountInv' /\ Len(findings') \in 0..4
    BY <1>3, ReadCounts
  <2>2. pc' \in {"report", "shrinking"} => findings' # <<>>
    BY <1>3 DEF ReadData, ReadNothing, Judge
  <2> QED BY <2>1, <2>2 DEF FindingsInv
<1>4. CASE Report \/ EndShrink
  <2>1. /\ pc \in {"report", "shrinking"} /\ UNCHANGED <<exchanges, consecutive>>
        /\ findings' = Tail(findings)
        /\ pc' = IF findings' = <<>> THEN "send" ELSE "report"
    BY <1>4 DEF Report, EndShrink, File
  <2>2. CountInv' /\ Len(findings') = Len(findings) - 1
    BY <1>0, <2>1, FileCounts DEF FindingsInv
  <2>3. Len(findings) # 0
    <3>1. findings \in Seq(CountedFinding(consecutive)) /\ findings # <<>>
      BY <2>1 DEF CountInv, FindingsInv
    <3> QED BY <3>1, EmptySeq
  <2> QED BY <2>1, <2>2, <2>3 DEF FindingsInv
<1>5. CASE StartShrink \/ Panic
  BY <1>c, <1>5 DEF FindingsInv, StartShrink, Panic, SendPanics, RecvPanics,
                    ShrinkPanics, Unwind, DropStream
<1>6. CASE Environment
  BY <1>c, <1>6 DEF FindingsInv, Environment, CtrlC, DurationPasses, Tick, PeerSends,
                    PeerAnswers, PeerAnnounces, PeerLeaves, sessionVars
<1>7. CASE Done \/ UNCHANGED vars
  BY <1>c, <1>7 DEF FindingsInv, Done, vars
<1> QED BY <1>1, <1>2, <1>3, <1>4, <1>5, <1>6, <1>7 DEF Next, Session, Panic

CountsAll == CountInv /\ FindingsInv /\ IdleInv /\ TrafficInv

LEMMA CountsInit == Init => CountsAll
<1> SUFFICES ASSUME Init PROVE CountsAll
  OBVIOUS
<1>1. IdleInv
  BY DEF Init, IdleInv, DriverInit
<1>2. TrafficInv
  BY DEF Init, TrafficInv, AnyMessage
<1>3. /\ exchanges = <<>> /\ Len(exchanges) = 0 /\ consecutive = 0
      /\ findings = <<>> /\ Len(findings) = 0 /\ pc = "loop"
  BY DEF Init
<1>4. (0 - 0 + 1)..0 = {}
  OBVIOUS
<1>5. TimeoutsAtEnd(exchanges, consecutive)
  BY <1>3, <1>4 DEF TimeoutsAtEnd
<1>6. CountInv
  BY <1>3, <1>5 DEF CountInv
<1>7. FindingsInv
  BY <1>3 DEF FindingsInv
<1> QED BY <1>1, <1>2, <1>6, <1>7 DEF CountsAll

LEMMA CountsStep == CountsAll /\ [Next]_vars => CountsAll'
BY CountStep, IdleStep, TrafficStep DEF CountsAll

LEMMA CountedIsEscalation == CountInv => EscalationIsThreeInARow
<1> SUFFICES ASSUME CountInv, NEW i \in DOMAIN findings,
                    findings[i].kind = "Timeout"
             PROVE  (SeverityOf(findings[i]) = "High") <=>
                      /\ Len(exchanges) >= 3
                      /\ \A k \in (Len(exchanges) - 2)..Len(exchanges) :
                           exchanges[k].kind = "Timeout"
  BY DEF EscalationIsThreeInARow
<1> DEFINE f == findings[i]
           n == Len(exchanges)
           c == consecutive
<1>1. f.count = c /\ "Response" \in Panel
  <2>1. f \in CountedFinding(consecutive)
    BY DEF CountInv
  <2> QED BY <2>1 DEF CountedFinding
<1>2. /\ \A k \in (n - c + 1)..n : exchanges[k].kind = "Timeout"
      /\ c < n => exchanges[n - c].kind # "Timeout"
      /\ n \in Nat /\ c \in 0..n
  BY <1>1 DEF CountInv, TimeoutsAtEnd
<1>3. (SeverityOf(f) = "High") <=> (c >= 3)
  <2>1. SeverityOf(f) = IF f.count >= 3 THEN "High" ELSE "Medium"
    BY DEF SeverityOf
  <2> QED BY <1>1, <2>1
<1> HIDE DEF f, n, c
<1>4. CASE c >= 3
  <2>1. n >= 3 /\ \A k \in (n - 2)..n : k \in (n - c + 1)..n
    BY <1>2, <1>4
  <2> QED BY <1>2, <1>3, <1>4, <2>1 DEF f, n
<1>5. CASE c < 3
  <2>1. n >= 3 => c < n /\ n - c \in (n - 2)..n
    BY <1>2, <1>5
  <2>2. ~(c >= 3)
    BY <1>2, <1>5
  <2> QED BY <1>2, <1>3, <2>1, <2>2 DEF f, n
<1> QED BY <1>2, <1>4, <1>5

\* In runs of any length, over any number of connections, a timeout is reported
\* High exactly when it is the third in a row or a later one.
THEOREM EscalationAlwaysThreeInARow == Spec => []EscalationIsThreeInARow
<1>1. CountsAll => EscalationIsThreeInARow
  BY CountedIsEscalation DEF CountsAll
<1> QED BY <1>1, CountsInit, CountsStep, PTL DEF Spec

-----------------------------------------------------------------------------
(* The control skeleton.  FuzzSession takes RunLoop's steps only.  Fairness, *)
(* and with it that a run ends, stays with TLC.                             *)

\* What RunLoop sees of pc.
SkeletonPc ==
  CASE pc \in {"hs_open", "hs_keepalive"} -> "handshake"
    [] pc = "shrinking" -> "report"
    [] OTHER -> pc

LEMMA StepFollowsSkeleton ==
  CountsAll /\ [Next]_vars => [Skeleton!Next]_(Skeleton!vars)
<1> SUFFICES ASSUME CountsAll, [Next]_vars
             PROVE  Skeleton!Next \/ UNCHANGED Skeleton!vars
  OBVIOUS
<1> USE DEF SkeletonPc, flagVars, bugVars
<1>1. CASE Iterate
  <2>1. Skeleton!Iterate
    BY <1>1 DEF Iterate, Skeleton!Iterate, Skeleton!Stop, Skeleton!flags
  <2> QED BY <2>1 DEF Skeleton!Next, Skeleton!Session
<1>2. CASE Finish
  <2>1. Skeleton!Finish
    BY <1>2 DEF Finish, Skeleton!Finish, Skeleton!Stop, Skeleton!flags
  <2> QED BY <2>1 DEF Skeleton!Next, Skeleton!Session
<1>3. CASE Connected
  <2>1. Skeleton!Connected
    BY <1>3 DEF Connected, Skeleton!Connected, Skeleton!flags
  <2> QED BY <2>1 DEF Skeleton!Next, Skeleton!Session
<1>4. CASE Refused
  <2>1. Skeleton!Refused
    BY <1>4 DEF Refused, Skeleton!Refused, Skeleton!flags
  <2> QED BY <2>1 DEF Skeleton!Next, Skeleton!Session
<1>5. CASE ReadOpen
  BY <1>5 DEF ReadOpen, Skeleton!vars
<1>6. CASE ReadKeepalive
  <2>1. PICK n \in 1..MaxBatch : batch' = [k \in 1..n |-> batch'[k]]
    BY <1>6, FuzzSessionAssumption
       DEF ReadKeepalive, Batches, IsBatch, CountsAll, TrafficInv
  <2>2. Len(batch') = n
    BY <2>1, FuzzSessionAssumption
  <2>3. Len(batch') \in 1..MaxBatch
    BY <2>2
  <2>4. Skeleton!Handshaken
    BY <1>6, <2>3 DEF ReadKeepalive, Skeleton!Handshaken, Skeleton!flags
  <2> QED BY <2>4 DEF Skeleton!Next, Skeleton!Session
<1>7. CASE EndSession
  <2>1. Len(batch) = 0 \/ shutdown
    BY <1>7 DEF EndSession, StopBatch
  <2>2. Len(batch') = 0
    BY <1>7 DEF EndSession, Disconnect, DropStream
  <2>3. Skeleton!EndSession
    BY <1>7, <2>1, <2>2 DEF EndSession, Disconnect, Skeleton!EndSession, Skeleton!flags
  <2> QED BY <2>3 DEF Skeleton!Next, Skeleton!Session
<1>8. CASE Take
  <2>1. batch # <<>> /\ ~shutdown /\ batch' = Tail(batch)
    BY <1>8 DEF Take, StopBatch
  <2>2. Len(batch) > 0 /\ Len(batch') = Len(batch) - 1
    BY <2>1 DEF CountsAll, TrafficInv
  <2>3. Skeleton!Take
    BY <1>8, <2>1, <2>2 DEF Take, Skeleton!Take, Skeleton!flags
  <2> QED BY <2>3 DEF Skeleton!Next, Skeleton!Session
<1>9. CASE Written
  <2>1. Skeleton!Written
    BY <1>9 DEF Written, Skeleton!Written, Skeleton!flags
  <2> QED BY <2>1 DEF Skeleton!Next, Skeleton!Session
<1>10. CASE WriteFails
  <2>1. Len(batch') = 0
    BY <1>10 DEF WriteFails, Disconnect, DropStream
  <2>2. Skeleton!WriteFails
    BY <1>10, <2>1 DEF WriteFails, Disconnect, Skeleton!WriteFails, Skeleton!flags
  <2> QED BY <2>2 DEF Skeleton!Next, Skeleton!Session
<1>11. CASE ReadData \/ ReadNothing
  <2>1. CountInv' /\ Len(findings') \in 0..4
    BY <1>11, ReadCounts DEF CountsAll
  <2>2. /\ pc = "read" /\ pc' = IF findings' = <<>> THEN "send" ELSE "report"
        /\ UNCHANGED <<attempt, batch, shutdown, elapsed>>
    BY <1>11 DEF ReadData, ReadNothing, Judge
  <2>3. findings' = <<>> <=> Len(findings') = 0
    BY <2>1, EmptySeq DEF CountInv
  <2>4. Skeleton!Judged
    BY <2>1, <2>2, <2>3 DEF Skeleton!Judged, Skeleton!flags
  <2> QED BY <2>4 DEF Skeleton!Next, Skeleton!Session
<1>12. CASE Report \/ EndShrink
  <2>1. /\ pc \in {"report", "shrinking"} /\ findings' = Tail(findings)
        /\ pc' = IF findings' = <<>> THEN "send" ELSE "report"
        /\ UNCHANGED <<attempt, batch, shutdown, elapsed, exchanges, consecutive>>
    BY <1>12 DEF Report, EndShrink, File, oracleVars, ghostVars
  <2>2. CountInv' /\ Len(findings') = Len(findings) - 1
    BY <2>1, SetupStep, FileCounts DEF CountsAll, FindingsInv, Panel
  <2>3. findings' = <<>> <=> Len(findings') = 0
    BY <2>2, EmptySeq DEF CountInv
  <2>4. Skeleton!Reported
    BY <2>1, <2>2, <2>3 DEF Skeleton!Reported, Skeleton!flags
  <2> QED BY <2>4 DEF Skeleton!Next, Skeleton!Session
<1>13. CASE StartShrink
  BY <1>13 DEF StartShrink, Skeleton!vars
<1>14. CASE Panic
  <2>1. Len(batch') = 0 /\ pc' = "panicked" /\ pc \in {"write", "read", "shrinking"}
        /\ UNCHANGED <<attempt, findings, shutdown, elapsed>>
    BY <1>14 DEF Panic, SendPanics, RecvPanics, ShrinkPanics, Unwind, DropStream
  <2>2. Skeleton!Panics
    BY <2>1 DEF Skeleton!Panics, Skeleton!flags
  <2> QED BY <2>2 DEF Skeleton!Next, Skeleton!Session
<1>15. CASE CtrlC
  <2>1. Skeleton!CtrlC
    BY <1>15 DEF CtrlC, Skeleton!CtrlC, sessionVars
  <2> QED BY <2>1 DEF Skeleton!Next
<1>16. CASE DurationPasses
  <2>1. Skeleton!DurationPasses
    BY <1>16 DEF DurationPasses, Skeleton!DurationPasses, sessionVars
  <2> QED BY <2>1 DEF Skeleton!Next
<1>17. CASE Tick \/ PeerSends \/ PeerAnswers \/ PeerAnnounces \/ PeerLeaves
  BY <1>17 DEF Tick, PeerSends, PeerAnswers, PeerAnnounces, PeerLeaves, sessionVars,
               Skeleton!vars
<1>18. CASE Done \/ UNCHANGED vars
  BY <1>18 DEF Done, vars, Skeleton!vars
<1> QED BY <1>1, <1>2, <1>3, <1>4, <1>5, <1>6, <1>7, <1>8, <1>9, <1>10, <1>11,
           <1>12, <1>13, <1>14, <1>15, <1>16, <1>17, <1>18
        DEF Next, Session, Environment, Panic

\* Every run of the session is a run of the control skeleton: at most MaxBatch
\* messages per connection, at most four findings per exchange, each reported
\* before the next message, and the flags looked at where RunLoop looks at them.
THEOREM SessionFollowsSkeleton ==
  Spec => Skeleton!Init /\ [][Skeleton!Next]_(Skeleton!vars)
<1>1. Init => Skeleton!Init
  <2> SUFFICES ASSUME Init PROVE Skeleton!Init
    OBVIOUS
  <2>1. Len(batch) = 0 /\ Len(findings) = 0
    BY DEF Init
  <2> QED BY <2>1 DEF Init, Skeleton!Init
<1> QED BY <1>1, CountsInit, CountsStep, StepFollowsSkeleton, PTL DEF Spec

-----------------------------------------------------------------------------
(* What a peer that conforms may be blamed for.  It answers the OPEN before *)
(* the handshake's first read, so the two reads leave none of its replies;  *)
(* what is unread after them it has sent unasked, or it is the answer to    *)
(* the first message, on which the peer closes.                             *)

Opening == <<HandshakeOpen, HandshakeKeepalive>>

ScenarioBytes == {Scenarios[k].bytes : k \in 1..8}

Verdicts == {Notification(Scenarios[k].expected) : k \in 1..8}

\* What a read after the handshake may yield, or be left without.
Fair == Announcements \cup Verdicts \cup {NoReply}

\* The peer has not come to the first message: all that is unread it has sent
\* unasked.
Unanswered ==
  /\ link = "up" /\ answered \in {1, 2}
  /\ Len(inbox) <= MaxInbox
  /\ \A i \in DOMAIN inbox : inbox[i] \in Announcements
  /\ wire \in Seq(AnyMessage) /\ Len(wire) = Len(message_history) + 2
  /\ wire[2] = HandshakeKeepalive
  /\ Len(wire) >= 3 => wire[3] \in ScenarioBytes
  /\ pc = "read" =>
       /\ message_history # <<>>
       /\ Len(message_history) = 1 => wire[3] = sent

\* It has closed on the first message, with its answer in front or something
\* unasked before that.
Answered ==
  /\ link = "fin" /\ message_history # <<>>
  /\ \A i \in DOMAIN inbox : inbox[i] \in Announcements \cup Verdicts
  /\ pc = "read" /\ Len(message_history) = 1 =>
       /\ inbox # <<>>
       /\ \E k \in 1..8 :
            /\ sent = Scenarios[k].bytes
            /\ inbox[1] \in Announcements \cup {Notification(Scenarios[k].expected)}

ConformingInv ==
  conforming =>
    /\ "NotificationCode" \in Panel
    /\ message_history \in Seq(AnyMessage)
    /\ pc = "hs_open" =>
         /\ link = "up" /\ wire = <<HandshakeOpen>> /\ message_history = <<>>
         /\ \/ answered = 0 /\ inbox = <<>>
            \/ answered = 1 /\ Len(inbox) = 2
    /\ pc = "hs_keepalive" =>
         /\ link = "up" /\ wire = Opening /\ message_history = <<>>
         /\ answered \in {1, 2} /\ Len(inbox) <= MaxInbox
         /\ \A i \in DOMAIN inbox : i # 1 => inbox[i] \in Announcements
    /\ pc \in {"send", "write", "read", "report", "shrinking"} =>
         Unanswered \/ Answered
    /\ pc \notin {"hs_open", "hs_keepalive", "send", "write", "read", "report",
                  "shrinking"} => link = "none"

\* What is pending is one of the scenarios, and a verdict on it.
VerdictInv ==
  /\ conforming =>
       \A i \in DOMAIN findings :
         findings[i].kind = "NotificationCode" =>
           \/ Len(message_history) > 1
           \/ exchanges[Len(exchanges)].reply \in Announcements
  /\ pc \notin {"report", "shrinking", "panicked"} => findings = <<>>
  /\ "NotificationCode" \in Panel /\ pc \in {"write", "read"} =>
       \E k \in 1..8 : pending = <<Scenarios[k]>> /\ sent = Scenarios[k].bytes

RepliesInv == conforming => \A i \in DOMAIN exchanges : exchanges[i].reply \in Fair

\* The scenarios and the handshake's messages are all different.
LEMMA ScenariosDiffer ==
  /\ HandshakeOpen # HandshakeKeepalive
  /\ \A k \in 1..8 : /\ Scenarios[k].bytes # HandshakeOpen
                     /\ Scenarios[k].bytes # HandshakeKeepalive
  /\ \A j, k \in 1..8 : Scenarios[j].bytes = Scenarios[k].bytes => j = k
<1> DEFINE name(k) == Scenarios[k].bytes.name
<1>1. name(1) = "Bad Message Length"
  BY DEF Scenarios, Scenario, Message
<1>2. name(2) = "Bad Message Type"
  BY DEF Scenarios, Scenario, Message
<1>3. name(3) = "Unsupported Version"
  BY DEF Scenarios, Scenario, Message
<1>4. name(4) = "Bad Peer AS"
  BY DEF Scenarios, Scenario, Message
<1>5. name(5) = "Bad BGP Identifier"
  BY DEF Scenarios, Scenario, Message
<1>6. name(6) = "Unacceptable Hold Time"
  BY DEF Scenarios, Scenario, Message
<1>7. name(7) = "Missing Well-known Attribute"
  BY DEF Scenarios, Scenario, Message
<1>8. name(8) = "Invalid NEXT_HOP"
  BY DEF Scenarios, Scenario, Message
<1>9. HandshakeOpen.name = "handshake open" /\ HandshakeKeepalive.name = "handshake keepalive"
  BY DEF HandshakeOpen, HandshakeKeepalive, Plain, Message
<1>10. ASSUME NEW k \in 1..8 
       PROVE  name(k) \notin {"handshake open", "handshake keepalive"}
  <2>1. k = 1 \/ k = 2 \/ k = 3 \/ k = 4 \/ k = 5 \/ k = 6 \/ k = 7 \/ k = 8
    OBVIOUS
  <2> QED BY <1>1, <1>2, <1>3, <1>4, <1>5, <1>6, <1>7, <1>8, <2>1
<1>11. ASSUME NEW j \in 1..8, NEW k \in 1..8, name(j) = name(k)
       PROVE  j = k
  <2>1. j = 1 \/ j = 2 \/ j = 3 \/ j = 4 \/ j = 5 \/ j = 6 \/ j = 7 \/ j = 8
    OBVIOUS
  <2>2. k = 1 \/ k = 2 \/ k = 3 \/ k = 4 \/ k = 5 \/ k = 6 \/ k = 7 \/ k = 8
    OBVIOUS
  <2> USE <1>1, <1>2, <1>3, <1>4, <1>5, <1>6, <1>7, <1>8, <1>11, <2>2
  <2>3. CASE j = 1
    BY <2>3
  <2>4. CASE j = 2
    BY <2>4
  <2>5. CASE j = 3
    BY <2>5
  <2>6. CASE j = 4
    BY <2>6
  <2>7. CASE j = 5
    BY <2>7
  <2>8. CASE j = 6
    BY <2>8
  <2>9. CASE j = 7
    BY <2>9
  <2>10. CASE j = 8
    BY <2>10
  <2> QED BY <2>1, <2>3, <2>4, <2>5, <2>6, <2>7, <2>8, <2>9, <2>10
<1> QED BY <1>9, <1>10, <1>11

LEMMA ConformingStays == [Next]_vars => conforming' = conforming
<1> SUFFICES ASSUME [Next]_vars PROVE conforming' = conforming
  OBVIOUS
<1> USE DEF flagVars, fixedVars
<1>1. CASE Iterate \/ Finish \/ Connected \/ Refused
  BY <1>1 DEF Iterate, Finish, Connected, Refused
<1>2. CASE ReadOpen \/ ReadKeepalive \/ EndSession \/ WriteFails
  BY <1>2 DEF ReadOpen, ReadKeepalive, EndSession, WriteFails
<1>3. CASE Take \/ Written \/ ReadData \/ ReadNothing
  BY <1>3 DEF Take, Written, ReadData, ReadNothing
<1>4. CASE Report \/ StartShrink \/ EndShrink \/ Panic
  BY <1>4 DEF Report, StartShrink, EndShrink, Panic, SendPanics, RecvPanics,
              ShrinkPanics
<1>5. CASE Environment
  BY <1>5 DEF Environment, CtrlC, DurationPasses, Tick, PeerSends, PeerAnswers,
              PeerAnnounces, PeerLeaves
<1>6. CASE Done \/ UNCHANGED vars
  BY <1>6 DEF Done, vars
<1> QED BY <1>1, <1>2, <1>3, <1>4, <1>5, <1>6 DEF Next, Session, Panic

\* A read drops the messages it returns from the front.
LEMMA RestOfInbox ==
  ASSUME inbox \in Seq(AnyMessage), NEW n \in 1..Len(inbox), ReadSome(n)
  PROVE  /\ inbox' \in Seq(AnyMessage) /\ Len(inbox') = Len(inbox) - n
         /\ DOMAIN inbox' = 1..(Len(inbox) - n)
         /\ \A i \in DOMAIN inbox' :
              i + n \in DOMAIN inbox /\ i + n # 1 /\ inbox'[i] = inbox[i + n]
<1>1. inbox' = SubSeq(inbox, n + 1, Len(inbox))
  BY DEF ReadSome
<1>2. /\ n + 1 \in Int /\ Len(inbox) \in Int
      /\ \A k \in (n + 1)..Len(inbox) : inbox[k] \in AnyMessage
  OBVIOUS
<1>3. /\ inbox' \in Seq(AnyMessage)
      /\ Len(inbox') = IF n + 1 <= Len(inbox) THEN Len(inbox) - (n + 1) + 1 ELSE 0
      /\ \A i \in 1..(Len(inbox) - (n + 1) + 1) : inbox'[i] = inbox[(n + 1) + i - 1]
  BY <1>1, <1>2, SubSeqProperties
<1>4. Len(inbox') = Len(inbox) - n /\ Len(inbox) - (n + 1) + 1 = Len(inbox) - n
  BY <1>3
<1>5. DOMAIN inbox' = 1..(Len(inbox) - n)
  BY <1>3, <1>4
<1>6. ASSUME NEW i \in DOMAIN inbox'
      PROVE  i + n \in DOMAIN inbox /\ i + n # 1 /\ inbox'[i] = inbox[i + n]
  <2>1. i \in 1..(Len(inbox) - n) /\ (n + 1) + i - 1 = i + n
    BY <1>5
  <2>2. i + n \in DOMAIN inbox /\ i + n # 1
    BY <2>1
  <2>3. inbox'[i] = inbox[(n + 1) + i - 1]
    BY <1>3, <1>4, <2>1
  <2> QED BY <2>1, <2>2, <2>3
<1> QED BY <1>3, <1>4, <1>5, <1>6

\* A handshake read from a peer that neither closes nor stays silent.
LEMMA OneOrMoreRead ==
  ASSUME HandshakeRead, link = "up", conforming, inbox \in Seq(AnyMessage)
  PROVE  \/ \E n \in 1..Len(inbox) : ReadSome(n)
         \/ inbox = <<>> /\ inbox' = <<>> /\ answered = Len(wire)
BY DEF HandshakeRead, EmptyOutcome, Silent

LEMMA HandshakeOpenRead ==
  ASSUME ConformingInv, conforming, inbox \in Seq(AnyMessage), ReadOpen
  PROVE  /\ link' = "up" /\ wire' = Opening /\ message_history' = <<>>
         /\ answered' \in {1, 2} /\ Len(inbox') <= MaxInbox
         /\ \A i \in DOMAIN inbox' : i # 1 => inbox'[i] \in Announcements
<1>1. /\ pc = "hs_open" /\ HandshakeRead
      /\ UNCHANGED <<link, answered, message_history>>
      /\ \/ wire' = Append(wire, HandshakeKeepalive)
         \/ ~Writable
  BY DEF ReadOpen
<1>2. /\ link = "up" /\ wire = <<HandshakeOpen>> /\ message_history = <<>>
      /\ \/ answered = 0 /\ inbox = <<>>
         \/ answered = 1 /\ Len(inbox) = 2
  BY <1>1 DEF ConformingInv
<1>3. wire' = Opening
  <2>1. wire' = Append(<<HandshakeOpen>>, HandshakeKeepalive)
    BY <1>1, <1>2 DEF Writable
  <2> QED BY <2>1, AppendToOne DEF Opening
<1>4. Len(wire) = 1
  BY <1>2
<1>5. PICK n \in 1..Len(inbox) : ReadSome(n)
  BY <1>1, <1>2, <1>4, OneOrMoreRead
<1>6. answered = 1 /\ Len(inbox) = 2
  <2>1. inbox # <<>>
    BY <1>5
  <2> QED BY <1>2, <2>1
<1>7. MaxInbox \in Nat \ {0} /\ Len(inbox') = 2 - n /\ DOMAIN inbox' = 1..(2 - n)
      /\ n \in 1..2
  BY <1>5, <1>6, RestOfInbox, FuzzSessionAssumption
<1>8. Len(inbox') <= MaxInbox /\ \A i \in DOMAIN inbox' : i = 1
  BY <1>7
<1> QED BY <1>1, <1>2, <1>3, <1>6, <1>8

LEMMA HandshakeKeepaliveRead ==
  ASSUME ConformingInv, conforming, inbox \in Seq(AnyMessage), ReadKeepalive,
         setup' = setup
  PROVE  Unanswered'
<1>1. /\ pc = "hs_keepalive" /\ pc' = "send" /\ HandshakeRead
      /\ UNCHANGED <<link, wire, answered, message_history>>
  BY DEF ReadKeepalive
<1>2. /\ link = "up" /\ wire = Opening /\ message_history = <<>>
      /\ answered \in {1, 2} /\ Len(inbox) <= MaxInbox
      /\ \A i \in DOMAIN inbox : i # 1 => inbox[i] \in Announcements
  BY <1>1 DEF ConformingInv
<1>3. /\ wire \in Seq(AnyMessage) /\ Len(wire) = 2 /\ Len(message_history) = 0
      /\ wire[2] = HandshakeKeepalive
  <2>1. HandshakeOpen \in AnyMessage /\ HandshakeKeepalive \in AnyMessage
    BY DEF AnyMessage
  <2> QED BY <1>2, <2>1 DEF Opening
<1>4. Announcements' = Announcements
  BY DEF Announcements
<1>5. Len(inbox') <= MaxInbox /\ \A i \in DOMAIN inbox' : inbox'[i] \in Announcements
  <2>1. CASE \E n \in 1..Len(inbox) : ReadSome(n)
    <3>1. PICK n \in 1..Len(inbox) : ReadSome(n)
      BY <2>1
    <3>2. /\ Len(inbox') = Len(inbox) - n
          /\ \A i \in DOMAIN inbox' :
               i + n \in DOMAIN inbox /\ i + n # 1 /\ inbox'[i] = inbox[i + n]
      BY <3>1, RestOfInbox
    <3>3. MaxInbox \in Nat /\ Len(inbox) \in Nat
      BY FuzzSessionAssumption
    <3>4. Len(inbox') <= MaxInbox
      BY <1>2, <3>2, <3>3
    <3> QED BY <1>2, <3>2, <3>4
  <2>2. CASE inbox = <<>> /\ inbox' = <<>>
    BY <1>2, <2>2
  <2> QED BY <1>1, <1>2, <2>1, <2>2, OneOrMoreRead
<1> QED BY <1>1, <1>2, <1>3, <1>4, <1>5 DEF Unanswered

LEMMA MessageWritten ==
  ASSUME Unanswered \/ Answered, Written, sent \in ScenarioBytes,
         message_history \in Seq(AnyMessage), setup' = setup
  PROVE  (Unanswered \/ Answered)'
<1>1. /\ pc' = "read" /\ UNCHANGED <<link, inbox, answered, sent>>
      /\ wire' = Append(wire, sent)
      /\ message_history' = Append(message_history, sent)
  BY DEF Written
<1>2. sent \in AnyMessage /\ Announcements' = Announcements
  BY DEF ScenarioBytes, AnyMessage, Announcements
<1>3. /\ message_history' # <<>> /\ Len(message_history) \in Nat
      /\ Len(message_history') = Len(message_history) + 1
  BY <1>1, <1>2, AppendProperties
<1>4. CASE Unanswered
  <2>1. wire \in Seq(AnyMessage) /\ Len(wire) = Len(message_history) + 2
    BY <1>4 DEF Unanswered
  <2>2. /\ wire' \in Seq(AnyMessage) /\ Len(wire') = Len(message_history') + 2
        /\ 2 \in 1..Len(wire) /\ wire'[2] = wire[2]
    BY <1>1, <1>2, <1>3, <2>1
  <2>3. CASE Len(message_history) = 0
    <3>1. wire'[3] = sent
      <4>1. wire'[Len(wire) + 1] = sent
        BY <1>1, <1>2, <2>1, AppendProperties, Zenon
      <4>2. Len(wire) + 1 = 3
        BY <2>1, <2>3
      <4> QED BY <4>1, <4>2, Zenon
    <3> QED BY <1>1, <1>2, <1>3, <1>4, <2>2, <3>1 DEF Unanswered
  <2>4. CASE Len(message_history) # 0
    <3>1. Len(wire) >= 3 /\ 3 \in 1..Len(wire) /\ Len(message_history') # 1
      BY <1>3, <2>1, <2>4
    <3>2. wire'[3] = wire[3]
      BY <1>1, <1>2, <2>1, <3>1
    <3> QED BY <1>1, <1>2, <1>3, <1>4, <2>2, <3>1, <3>2 DEF Unanswered
  <2> QED BY <2>3, <2>4
<1>5. CASE Answered
  <2>1. Len(message_history) # 0
    BY <1>5, EmptySeq DEF Answered
  <2>2. Len(message_history') # 1
    BY <1>3, <2>1
  <2> QED BY <1>1, <1>2, <1>3, <1>5, <2>2 DEF Answered
<1> QED BY <1>4, <1>5

LEMMA AnswerRead ==
  ASSUME Unanswered \/ Answered, ReadData, inbox \in Seq(AnyMessage), setup' = setup
  PROVE  (Unanswered \/ Answered)'
<1>1. /\ pc' \in {"send", "report"}
      /\ UNCHANGED <<link, wire, answered, message_history>>
      /\ \E n \in 1..Len(inbox) : ReadSome(n)
  BY DEF ReadData, Judge
<1>2. PICK n \in 1..Len(inbox) : ReadSome(n)
  BY <1>1
<1>3. /\ Len(inbox') = Len(inbox) - n
      /\ \A i \in DOMAIN inbox' : i + n \in DOMAIN inbox /\ inbox'[i] = inbox[i + n]
  BY <1>2, RestOfInbox
<1>4. Announcements' = Announcements /\ MaxInbox \in Nat /\ Len(inbox) \in Nat
  BY FuzzSessionAssumption DEF Announcements
<1>5. CASE Unanswered
  <2>1. Len(inbox') <= MaxInbox
    BY <1>3, <1>4, <1>5 DEF Unanswered
  <2>2. \A i \in DOMAIN inbox' : inbox'[i] \in Announcements
    BY <1>3, <1>5 DEF Unanswered
  <2> QED BY <1>1, <1>4, <1>5, <2>1, <2>2 DEF Unanswered
<1>6. CASE Answered
  <2>1. \A i \in DOMAIN inbox' : inbox'[i] \in Announcements \cup Verdicts
    BY <1>3, <1>6 DEF Answered
  <2> QED BY <1>1, <1>4, <1>6, <2>1 DEF Answered
<1> QED BY <1>5, <1>6

\* The peer comes to the next of the messages written.
LEMMA PeerComesToIt ==
  ASSUME ConformingInv, conforming, inbox \in Seq(AnyMessage), PeerAnswers,
         setup' = setup
  PROVE  \/ /\ pc = "hs_open" /\ answered' = 1 /\ link' = link /\ Len(inbox') = 2
         \/ /\ wire[2] = HandshakeKeepalive /\ answered' = 2
            /\ UNCHANGED <<link, inbox>>
         \/ /\ Unanswered /\ link' = "fin" /\ Len(message_history) # 0
            /\ \E i \in 1..8 :
                 /\ wire[3] = Scenarios[i].bytes
                 /\ inbox' = Append(inbox, Notification(Scenarios[i].expected))
<1> DEFINE m == wire[answered + 1]
<1>1. /\ link = "up" /\ answered < Len(wire) /\ answered' = answered + 1
  BY DEF PeerAnswers
<1>2. \/ /\ m = HandshakeOpen
         /\ inbox' = inbox \o HandshakeReplies
         /\ link' = link
      \/ m = HandshakeKeepalive /\ UNCHANGED <<inbox, link>>
      \/ \E i \in 1..8 :
           /\ m = Scenarios[i].bytes
           /\ inbox' = Append(inbox, Notification(Scenarios[i].expected))
           /\ link' = "fin"
  <2>1. DOMAIN Scenarios = 1..8
    BY ScenariosTyped
  <2> QED BY <2>1, Zenon DEF PeerAnswers
<1>3. CASE pc = "hs_open"
  <2>1. /\ wire = <<HandshakeOpen>>
        /\ (answered = 0 /\ inbox = <<>>) \/ answered = 1
    BY <1>3, Zenon DEF ConformingInv
  <2>2. Len(wire) = 1 /\ answered = 0 /\ inbox = <<>>
    BY <1>1, <2>1
  <2>3. m = HandshakeOpen
    BY <2>1, <2>2
  <2>4. inbox' = <<>> \o HandshakeReplies /\ link' = link
    BY <1>2, <2>2, <2>3, ScenariosDiffer
  <2>5. Len(inbox') = 2
    BY <2>4 DEF HandshakeReplies
  <2> QED BY <1>1, <1>3, <2>2, <2>4, <2>5
<1>4. CASE pc = "hs_keepalive"
  <2>1. wire = Opening /\ answered \in {1, 2}
    BY <1>4, Zenon DEF ConformingInv
  <2>2. Len(wire) = 2 /\ answered = 1 /\ wire[2] = HandshakeKeepalive
    BY <1>1, <2>1 DEF Opening
  <2>3. m = HandshakeKeepalive
    BY <2>2
  <2>4. UNCHANGED <<inbox, link>>
    BY <1>2, <2>3, ScenariosDiffer
  <2> QED BY <1>1, <2>2, <2>4
<1>5. CASE Unanswered
  <2>1. answered \in {1, 2} /\ wire[2] = HandshakeKeepalive
    BY <1>5 DEF Unanswered
  <2>2. CASE answered = 1
    <3>1. m = HandshakeKeepalive /\ answered' = 2
      BY <1>1, <2>1, <2>2
    <3>2. UNCHANGED <<inbox, link>>
      BY <1>2, <3>1, ScenariosDiffer
    <3> QED BY <2>1, <3>1, <3>2
  <2>3. CASE answered = 2
    <3>1. /\ Len(wire) \in Nat /\ Len(wire) = Len(message_history) + 2
          /\ Len(wire) >= 3
      BY <1>1, <1>5, <2>3 DEF Unanswered
    <3>2. m = wire[3] /\ wire[3] \in ScenarioBytes /\ Len(message_history) # 0
      BY <1>5, <2>3, <3>1 DEF Unanswered
    <3>3. PICK k \in 1..8 : m = Scenarios[k].bytes
      BY <3>2 DEF ScenarioBytes
    <3>4. PICK i \in 1..8 :
            /\ m = Scenarios[i].bytes
            /\ inbox' = Append(inbox, Notification(Scenarios[i].expected))
            /\ link' = "fin"
      BY <1>2, <3>3, ScenariosDiffer
    <3> QED BY <1>5, <3>2, <3>4
  <2> QED BY <2>1, <2>2, <2>3
<1>6. pc \in {"hs_open", "hs_keepalive"} \/ Unanswered
  BY <1>1 DEF ConformingInv, Answered
<1> QED BY <1>3, <1>4, <1>5, <1>6

LEMMA UnaskedArrives ==
  ASSUME ConformingInv, conforming, inbox \in Seq(AnyMessage), PeerAnnounces,
         setup' = setup, setup \in Setups
  PROVE  ConformingInv'
<1>1. /\ link = "up" /\ answered >= 2 /\ Len(inbox) < MaxInbox
      /\ UNCHANGED <<pc, link, wire, answered, sent, message_history, conforming>>
  BY DEF PeerAnnounces, sessionVars, flagVars, fixedVars
<1>2. PICK m \in Announcements : inbox' = Append(inbox, m)
  BY DEF PeerAnnounces
<1>3. /\ Announcements' = Announcements /\ Panel' = Panel
      /\ m \in AnyMessage /\ MaxInbox \in Nat /\ Len(inbox) \in Nat
  BY FuzzSessionAssumption
     DEF Announcements, Panel, AnyMessage, AnyAnnouncement
<1>4. /\ Len(inbox') = Len(inbox) + 1 /\ Len(inbox') <= MaxInbox
      /\ DOMAIN inbox' = 1..(Len(inbox) + 1) /\ DOMAIN inbox = 1..Len(inbox)
      /\ \A i \in 1..Len(inbox) : inbox'[i] = inbox[i]
      /\ inbox'[Len(inbox) + 1] = m
  BY <1>1, <1>2, <1>3, AppendProperties
<1>5. \A i \in DOMAIN inbox' : i \in DOMAIN inbox \/ i = Len(inbox) + 1
  BY <1>3, <1>4
<1>6. pc # "hs_open"
  BY <1>1 DEF ConformingInv
<1>7. CASE pc = "hs_keepalive"
  <2>1. \A i \in DOMAIN inbox' : i # 1 => inbox'[i] \in Announcements
    BY <1>3, <1>4, <1>5, <1>7 DEF ConformingInv
  <2> QED BY <1>1, <1>3, <1>4, <1>7, <2>1 DEF ConformingInv
<1>8. CASE Unanswered
  <2>1. \A i \in DOMAIN inbox' : inbox'[i] \in Announcements
    BY <1>3, <1>4, <1>5, <1>8 DEF Unanswered
  <2>2. Unanswered'
    BY <1>1, <1>3, <1>4, <1>8, <2>1 DEF Unanswered
  <2> QED BY <1>1, <1>3, <1>6, <1>7, <2>2 DEF ConformingInv
<1>9. pc = "hs_keepalive" \/ Unanswered
  BY <1>1, <1>6 DEF ConformingInv, Answered
<1> QED BY <1>7, <1>8, <1>9

LEMMA ConformingStep ==
  ConformingInv /\ VerdictInv /\ TrafficInv /\ [Next]_vars => ConformingInv'
<1> SUFFICES ASSUME ConformingInv, VerdictInv, TrafficInv, [Next]_vars, conforming
             PROVE  ConformingInv'
  BY ConformingStays DEF ConformingInv
<1>0. /\ setup' = setup /\ setup \in Setups /\ conforming' /\ inbox \in Seq(AnyMessage) /\ sent \in AnyMessage
      /\ "NotificationCode" \in Panel /\ "NotificationCode" \in Panel'
      /\ message_history \in Seq(AnyMessage) /\ Announcements' = Announcements
  BY SetupStep, ConformingStays DEF ConformingInv, TrafficInv, Panel, Announcements
<1>1. CASE Iterate \/ Finish \/ Refused
  BY <1>0, <1>1 DEF ConformingInv, Iterate, Finish, Refused, peerVars
<1>2. CASE Connected
  BY <1>0, <1>2 DEF ConformingInv, Connected, ClearedHistory
<1>3. CASE ReadOpen
  <2>1. pc' = "hs_keepalive"
    BY <1>3 DEF ReadOpen
  <2>2. /\ link' = "up" /\ wire' = Opening /\ message_history' = <<>>
        /\ answered' \in {1, 2} /\ Len(inbox') <= MaxInbox
        /\ \A i \in DOMAIN inbox' : i # 1 => inbox'[i] \in Announcements
    BY <1>0, <1>3, HandshakeOpenRead
  <2> QED BY <1>0, <2>1, <2>2 DEF ConformingInv
<1>4. CASE ReadKeepalive
  <2>1. pc' = "send" /\ message_history' = message_history
    BY <1>4 DEF ReadKeepalive
  <2>2. Unanswered'
    BY <1>0, <1>4, HandshakeKeepaliveRead
  <2> QED BY <1>0, <2>1, <2>2 DEF ConformingInv
<1>5. CASE EndSession \/ WriteFails
  BY <1>0, <1>5 DEF ConformingInv, EndSession, WriteFails, Disconnect, DropStream
<1>6. CASE Take
  <2>1. /\ pc = "send" /\ pc' = "write"
        /\ UNCHANGED <<link, inbox, wire, answered, message_history>>
    BY <1>6 DEF Take, peerVars
  <2>2. Unanswered \/ Answered
    BY <2>1 DEF ConformingInv
  <2>3. (Unanswered \/ Answered)'
    BY <1>0, <2>1, <2>2 DEF Unanswered, Answered
  <2> QED BY <1>0, <2>1, <2>3 DEF ConformingInv
<1>7. CASE Written
  <2>1. /\ pc = "write" /\ pc' = "read"
        /\ message_history' = Append(message_history, sent)
    BY <1>7 DEF Written
  <2>2. sent \in ScenarioBytes /\ message_history' \in Seq(AnyMessage)
    BY <1>0, <2>1 DEF VerdictInv, ScenarioBytes
  <2>3. (Unanswered \/ Answered)'
    BY <1>0, <1>7, <2>1, <2>2, MessageWritten DEF ConformingInv
  <2> QED BY <1>0, <2>1, <2>2, <2>3 DEF ConformingInv
<1>8. CASE ReadData
  <2>1. pc = "read" /\ pc' \in {"send", "report"} /\ message_history' = message_history
    BY <1>8 DEF ReadData, Judge
  <2>2. (Unanswered \/ Answered)'
    BY <1>0, <1>8, <2>1, AnswerRead DEF ConformingInv
  <2> QED BY <1>0, <2>1, <2>2 DEF ConformingInv
<1>9. CASE ReadNothing
  <2>1. /\ pc = "read" /\ pc' \in {"send", "report"}
        /\ UNCHANGED <<link, inbox, wire, answered, message_history>>
    BY <1>9 DEF ReadNothing, Judge, peerVars
  <2>2. Unanswered \/ Answered
    BY <2>1 DEF ConformingInv
  <2>3. (Unanswered \/ Answered)'
    BY <1>0, <2>1, <2>2 DEF Unanswered, Answered
  <2> QED BY <1>0, <2>1, <2>3 DEF ConformingInv
<1>10. CASE Report \/ StartShrink \/ EndShrink
  <2>1. /\ pc \in {"report", "shrinking"} /\ pc' \in {"send", "report", "shrinking"}
        /\ UNCHANGED <<link, inbox, wire, answered, message_history>>
    BY <1>10 DEF Report, StartShrink, EndShrink, File, peerVars
  <2>2. Unanswered \/ Answered
    BY <2>1 DEF ConformingInv
  <2>3. (Unanswered \/ Answered)'
    BY <1>0, <2>1, <2>2 DEF Unanswered, Answered
  <2> QED BY <1>0, <2>1, <2>3 DEF ConformingInv
<1>11. CASE Panic
  <2>1. pc' = "panicked" /\ link' = "none" /\ message_history' = message_history
    BY <1>11 DEF Panic, SendPanics, RecvPanics, ShrinkPanics, Unwind, DropStream
  <2> QED BY <1>0, <2>1 DEF ConformingInv
<1>12. CASE CtrlC \/ DurationPasses \/ Tick \/ Done \/ UNCHANGED vars
  <2>1. UNCHANGED <<pc, link, inbox, wire, answered, sent, message_history>>
    BY <1>12 DEF CtrlC, DurationPasses, Tick, Done, sessionVars, peerVars, vars
  <2>2. Unanswered => Unanswered'
    BY <1>0, <2>1 DEF Unanswered
  <2>3. Answered => Answered'
    BY <1>0, <2>1 DEF Answered
  <2> QED BY <1>0, <2>1, <2>2, <2>3 DEF ConformingInv
<1>13. CASE PeerSends \/ PeerLeaves
  BY <1>13 DEF PeerSends, PeerLeaves
<1>14. CASE PeerAnswers
  <2>1. link = "up" /\ UNCHANGED <<pc, wire, sent, message_history>>
    BY <1>14 DEF PeerAnswers, sessionVars
  <2>2. CASE pc = "hs_open" /\ answered' = 1 /\ link' = link /\ Len(inbox') = 2
    BY <1>0, <2>1, <2>2 DEF ConformingInv
  <2>3. CASE /\ wire[2] = HandshakeKeepalive /\ answered' = 2
             /\ UNCHANGED <<link, inbox>>
    <3>1. pc # "hs_open"
      <4>1. pc = "hs_open" => answered + 1 \in {1, 2} /\ Len(wire) = 1
        BY DEF ConformingInv
      <4>2. answered' = answered + 1 /\ answered < Len(wire)
        BY <1>14 DEF PeerAnswers
      <4>3. pc = "hs_open" => answered \in {0, 1}
        BY DEF ConformingInv
      <4> QED BY <2>3, <4>1, <4>2, <4>3
    <3>2. pc = "hs_keepalive" \/ Unanswered
      BY <2>1, <3>1 DEF ConformingInv, Answered
    <3>3. Unanswered => Unanswered'
      BY <1>0, <2>1, <2>3 DEF Unanswered
    <3> QED BY <1>0, <2>1, <2>3, <3>1, <3>2, <3>3 DEF ConformingInv
  <2>4. CASE /\ Unanswered /\ link' = "fin" /\ Len(message_history) # 0
             /\ \E i \in 1..8 :
                  /\ wire[3] = Scenarios[i].bytes
                  /\ inbox' = Append(inbox, Notification(Scenarios[i].expected))
    <3>1. PICK i \in 1..8 :
            /\ wire[3] = Scenarios[i].bytes
            /\ inbox' = Append(inbox, Notification(Scenarios[i].expected))
      BY <2>4
    <3>2. pc \in {"send", "write", "read", "report", "shrinking"}
      BY <2>1, <2>4 DEF ConformingInv
    <3> DEFINE v == Notification(Scenarios[i].expected)
    <3>3. v \in AnyMessage /\ v \in Verdicts
      BY DEF AnyMessage, Verdicts
    <3> HIDE DEF v
    <3>4. /\ DOMAIN inbox' = 1..(Len(inbox) + 1) /\ Len(inbox) \in Nat
          /\ \A k \in 1..Len(inbox) : inbox'[k] = inbox[k]
          /\ inbox'[Len(inbox) + 1] = v
      BY <1>0, <3>1, <3>3, AppendProperties DEF v
    <3>5. \A k \in 1..Len(inbox) : inbox'[k] \in Announcements
      BY <1>0, <2>4, <3>4 DEF Unanswered
    <3>6. \A k \in DOMAIN inbox' : inbox'[k] \in Announcements' \cup Verdicts
      <4>1. \A k \in DOMAIN inbox' : k \in 1..Len(inbox) \/ k = Len(inbox) + 1
        BY <3>4
      <4> QED BY <1>0, <3>3, <3>4, <3>5, <4>1
    <3>7. inbox' # <<>> /\ inbox'[1] \in Announcements' \cup {v}
      <4>1. 1 \in 1..Len(inbox) \/ Len(inbox) + 1 = 1
        BY <3>4
      <4>2. inbox' # <<>>
        BY <3>4
      <4> QED BY <1>0, <3>4, <3>5, <4>1, <4>2
    <3>8. message_history # <<>>
      BY <2>4
    <3>9. pc = "read" /\ Len(message_history) = 1 => sent = Scenarios[i].bytes
      BY <2>4, <3>1 DEF Unanswered
    <3>10. Answered'
      BY <2>1, <2>4, <3>6, <3>7, <3>8, <3>9 DEF Answered, v
    <3> QED BY <1>0, <2>1, <3>2, <3>10 DEF ConformingInv
  <2> QED BY <1>0, <1>14, <2>2, <2>3, <2>4, PeerComesToIt
<1>15. CASE PeerAnnounces
  BY <1>0, <1>15, UnaskedArrives
<1> QED BY <1>1, <1>2, <1>3, <1>4, <1>5, <1>6, <1>7, <1>8, <1>9, <1>10, <1>11,
           <1>12, <1>13, <1>14, <1>15 DEF Next, Session, Environment, Panic

\* The expected NOTIFICATION draws no finding about its code.
LEMMA NoBlame ==
  ASSUME NEW x \in Exchange, NEW last, NEW above \in BOOLEAN, NEW k \in 1..8,
         last.state_after # "Established", consecutive \in Nat,
         pending = <<Scenarios[k]>>, x.kind = "Data",
         x.reply = Notification(Scenarios[k].expected)
  PROVE  PanelFindings(x, last, above)
           \in Seq(Of(FindingKind \ {"NotificationCode"}))
<1> DEFINE S == Of(FindingKind \ {"NotificationCode"})
<1>0. /\ <<>> \in Seq(S)
      /\ \A kinds : kinds \subseteq FindingKind \ {"NotificationCode"} =>
           Of(kinds) \subseteq S
  BY DEF Of
<1>1. NotificationCheck(x, pending) = <<>>
  <2>1. Head(pending) = Scenarios[k]
    OBVIOUS
  <2>2. DecodesAs(x.reply, "BgpNotification") /\ x.reply.code = Scenarios[k].expected
    BY DEF DecodesAs, Notification, Message
  <2> QED BY <2>1, <2>2 DEF NotificationCheck, When
<1> HIDE DEF S
<1>2. Ask("NotificationCode", NotificationCheck(x, pending)) \in Seq(S)
  BY <1>0, <1>1 DEF Ask
<1>3. Ask("Crash", CrashCheck(x)) \in Seq(S)
  <2>1. {"PeerReset", "PeerClosed"} \subseteq FindingKind \ {"NotificationCode"}
    BY DEF FindingKind
  <2> QED BY <1>0, <2>1, CrashFinds, SeqIn DEF Ask
<1>4. Ask("FsmConsistency", FsmCheck(x, last)) \in Seq(S)
  <2>1. {"IllegalAccepted", "LegalRejected"} \subseteq FindingKind \ {"NotificationCode"}
    BY DEF FindingKind
  <2> QED BY <1>0, <2>1, FsmFinds, SeqIn DEF Ask
<1>5. Ask("Response", ResponseCheck(x, consecutive)) \in Seq(S)
  <2>1. {"Timeout"} \subseteq FindingKind \ {"NotificationCode"}
    BY DEF FindingKind
  <2> QED BY <1>0, <2>1, ResponseFinds, SeqIn DEF Ask
<1>6. Ask("AttributeEcho", EchoCheck(x, last, echo)) \in Seq(S)
  <2>1. {"AttributeEcho", "AttributeMirror"} \subseteq FindingKind \ {"NotificationCode"}
    BY DEF FindingKind
  <2> QED BY <1>0, <2>1, EchoFinds, SeqIn DEF Ask
<1>7. Ask("Latency", LatencyCheck(x, samples, WindowSize, above)) \in Seq(S)
  <2>1. {"LatencySpike"} \subseteq FindingKind \ {"NotificationCode"}
    BY DEF FindingKind
  <2> QED BY <1>0, <2>1, LatencyFinds, SeqIn DEF Ask
<1>8. Ask("CapNegotiation", CapCheck(x)) \in Seq(S)
  <2>1. {"CapNegotiation"} \subseteq FindingKind \ {"NotificationCode"}
    BY DEF FindingKind
  <2> QED BY <1>0, <2>1, CapFinds, SeqIn DEF Ask
<1> QED BY <1>2, <1>3, <1>4, <1>5, <1>6, <1>7, <1>8, PanelIn DEF S

\* An exchange with a peer that conforms, the first of its connection: only if
\* it is something unasked does the reply draw a finding about its code.
LEMMA FirstReadIsFair ==
  ASSUME ConformingInv, VerdictInv, CountsAll, [Next]_vars, ReadData \/ ReadNothing,
         conforming, Len(message_history) = 1
  PROVE  \/ \A i \in DOMAIN findings' : findings'[i].kind # "NotificationCode"
         \/ exchanges'[Len(exchanges')].reply \in Announcements
<1>0. pc = "read" /\ "NotificationCode" \in Panel /\ inbox \in Seq(AnyMessage)
  BY DEF ReadData, ReadNothing, ConformingInv, CountsAll, TrafficInv
<1>1. PICK k \in 1..8 : pending = <<Scenarios[k]>> /\ sent = Scenarios[k].bytes
  BY <1>0 DEF VerdictInv
<1>2. Unanswered \/ Answered
  BY <1>0, Zenon DEF ConformingInv
<1>3. inbox # <<>> => inbox[1] \in Announcements \cup {Notification(Scenarios[k].expected)}
  <2>1. CASE Unanswered
    <3>1. inbox # <<>> => 1 \in DOMAIN inbox
      BY <1>0
    <3> QED BY <2>1, <3>1 DEF Unanswered
  <2>2. CASE Answered
    <3>1. PICK j \in 1..8 :
            /\ sent = Scenarios[j].bytes
            /\ inbox[1] \in Announcements \cup {Notification(Scenarios[j].expected)}
      BY <1>0, <2>2 DEF Answered
    <3>2. j = k
      BY <1>1, <3>1, ScenariosDiffer
    <3> QED BY <3>1, <3>2
  <2> QED BY <1>2, <2>1, <2>2
<1>5. ReadData
  <2>1. ASSUME ReadNothing PROVE FALSE
    <3>1. CASE Unanswered
      <4>1. answered = Len(wire)
        BY <1>0, <2>1, <3>1 DEF ReadNothing, EmptyOutcome, Silent, Unanswered
      <4>2. Len(wire) = 3
        BY <3>1 DEF Unanswered
      <4> QED BY <3>1, <4>1, <4>2 DEF Unanswered
    <3>2. CASE Answered
      BY <1>0, <2>1, <3>2 DEF ReadNothing, EmptyOutcome, Silent, Answered
    <3> QED BY <1>2, <3>1, <3>2
  <2> QED BY <2>1
<1>4. inbox # <<>> /\ Head(inbox) = inbox[1] /\ Head(inbox) \in AnyMessage
  BY <1>0, <1>5 DEF ReadData
<1>6. PICK n \in 1..Len(inbox) :
        Judge([sent |-> sent, kind |-> "Data", reply |-> Head(inbox),
               alone |-> n = 1])
  BY <1>5 DEF ReadData
<1> DEFINE x == [sent |-> sent, kind |-> "Data", reply |-> Head(inbox),
                 alone |-> n = 1]
           last == event_log'[Len(event_log')]
<1>7. PICK above \in BOOLEAN : findings' = PanelFindings(x, last, above)
  BY <1>6 DEF Judge
<1>9. x \in Exchange
  BY <1>4 DEF Exchange, RecvKind, CountsAll, TrafficInv
<1>10. last.state_after # "Established"
  <2>1. Feed("Recv", ClassifyMessage(Head(inbox)))
    BY <1>5 DEF ReadData, OnRecv
  <2>2. /\ event_log' \in Seq(LogEntry) /\ event_log' # <<>>
        /\ \A i \in DOMAIN event_log' : event_log'[i].state_after = "Idle"
    BY <1>4, <2>1, FeedStaysIdle DEF CountsAll
  <2>3. Len(event_log') \in DOMAIN event_log'
    BY <2>2
  <2> QED BY <2>2, <2>3
<1>11. consecutive \in Nat /\ x.kind = "Data" /\ x.reply = inbox[1]
  BY <1>4 DEF CountsAll, CountInv
<1>12. exchanges'[Len(exchanges')] = x
  <2>1. exchanges' = Append(exchanges, x) /\ exchanges \in Seq(Exchange)
    BY <1>6 DEF Judge, CountsAll, CountInv
  <2> HIDE DEF x
  <2>2. /\ Len(exchanges') = Len(exchanges) + 1
        /\ exchanges'[Len(exchanges) + 1] = x
    BY <1>9, <2>1, AppendProperties
  <2> QED BY <2>2, Zenon
<1> HIDE DEF x, last
<1>13. CASE inbox[1] \in Announcements
  BY <1>11, <1>12, <1>13
<1>14. CASE inbox[1] = Notification(Scenarios[k].expected)
  <2>1. findings' \in Seq(Of(FindingKind \ {"NotificationCode"}))
    BY <1>1, <1>7, <1>9, <1>10, <1>11, <1>14, NoBlame
  <2> QED BY <2>1 DEF Of
<1> QED BY <1>3, <1>4, <1>13, <1>14

LEMMA VerdictStep ==
  ConformingInv /\ VerdictInv /\ CountsAll /\ [Next]_vars => VerdictInv'
<1> SUFFICES ASSUME ConformingInv, VerdictInv, CountsAll, [Next]_vars
             PROVE  VerdictInv'
  OBVIOUS
<1>0. /\ Panel' = Panel /\ conforming' = conforming
      /\ Announcements' = Announcements
  BY SetupStep, ConformingStays DEF Panel, Announcements
<1>k. /\ pc \in {"loop", "connecting", "hs_open", "hs_keepalive", "send", "write", "read"}
           => findings = <<>> /\ DOMAIN findings = {}
      /\ DOMAIN <<>> = {}
  BY DEF VerdictInv
<1> USE <1>0 DEF VerdictInv, oracleVars, bugVars, ghostVars
<1>1. CASE Iterate \/ Finish \/ Refused
  BY <1>1 DEF Iterate, Finish, Refused
<1>2. CASE Connected
  BY <1>2, <1>k DEF Connected
<1>3. CASE ReadOpen \/ ReadKeepalive
  BY <1>3 DEF ReadOpen, ReadKeepalive
<1>4. CASE EndSession \/ WriteFails
  BY <1>4 DEF EndSession, WriteFails, Disconnect, DropStream
<1>5. CASE Take
  <2>1. /\ pc = "send" /\ pc' = "write" /\ UNCHANGED <<findings, message_history>>
    BY <1>5 DEF Take
  <2>2. ASSUME "NotificationCode" \in Panel
        PROVE  \E k \in 1..8 : pending' = <<Scenarios[k]>> /\ sent' = Scenarios[k].bytes
    <3>1. sent' = Head(Queue).bytes /\ pending' = <<Head(Queue)>>
      BY <1>5, <2>2 DEF Take, Inject, UseGenerated, SetPending
    <3>2. Head(Queue) \in AnyScenario
      BY QueueTyped DEF CountsAll
    <3> QED BY <3>1, <3>2 DEF AnyScenario
  <2> QED BY <2>1, <2>2
<1>6. CASE Written
  <2>1. /\ pc = "write" /\ pc' = "read" /\ UNCHANGED <<findings, pending, sent>>
    BY <1>6 DEF Written
  <2> QED BY <2>1, <1>k
<1>7. CASE ReadData \/ ReadNothing
  <2>1. /\ pc = "read" /\ pc' = IF findings' = <<>> THEN "send" ELSE "report"
        /\ message_history' = message_history
    BY <1>7 DEF ReadData, ReadNothing, Judge
  <2>2. ASSUME conforming
        PROVE  \A i \in DOMAIN findings' :
                 findings'[i].kind = "NotificationCode" =>
                   \/ Len(message_history') > 1
                   \/ exchanges'[Len(exchanges')].reply \in Announcements
    <3>1. message_history \in Seq(AnyMessage) /\ message_history # <<>>
      <4>1. message_history \in Seq(AnyMessage)
        BY <2>2, Zenon DEF ConformingInv
      <4>2. Unanswered \/ Answered
        BY <2>1, <2>2, Zenon DEF ConformingInv
      <4> QED BY <2>1, <4>1, <4>2 DEF Unanswered, Answered
    <3>2. CASE Len(message_history) = 1
      BY <1>7, <2>2, <3>2, FirstReadIsFair
    <3>3. CASE Len(message_history) # 1
      <4>1. Len(message_history) > 1
        <5>1. Len(message_history) \in Nat \ {0}
          BY <3>1, EmptySeq
        <5>2. \A n \in Nat \ {0} : n # 1 => n > 1
          OBVIOUS
        <5> QED BY <3>3, <5>1, <5>2, Zenon
      <4> QED BY <2>1, <4>1
    <3> QED BY <3>2, <3>3
  <2> QED BY <2>1, <2>2
<1>8. CASE Report \/ EndShrink
  <2>1. /\ pc \in {"report", "shrinking"} /\ findings' = Tail(findings)
        /\ pc' = IF findings' = <<>> THEN "send" ELSE "report"
        /\ UNCHANGED <<message_history, exchanges>>
    BY <1>8 DEF Report, EndShrink, File
  <2>2. findings \in Seq(CountedFinding(consecutive)) /\ findings # <<>>
    BY <2>1 DEF CountsAll, CountInv, FindingsInv
  <2>3. \A i \in DOMAIN findings' : i + 1 \in DOMAIN findings /\ findings'[i] = findings[i + 1]
    BY <2>1, <2>2
  <2> QED BY <2>1, <2>3
<1>9. CASE StartShrink \/ Panic
  BY <1>9 DEF StartShrink, Panic, SendPanics, RecvPanics, ShrinkPanics, Unwind,
              DropStream
<1>10. CASE Environment
  BY <1>10 DEF Environment, CtrlC, DurationPasses, Tick, PeerSends, PeerAnswers,
               PeerAnnounces, PeerLeaves, sessionVars
<1>11. CASE Done \/ UNCHANGED vars
  BY <1>11 DEF Done, vars
<1> QED BY <1>1, <1>2, <1>3, <1>4, <1>5, <1>6, <1>7, <1>8, <1>9, <1>10, <1>11
        DEF Next, Session, Panic

\* None of what a read may yield after the handshake is one of its replies.
LEMMA FairIsNoHandshakeReply ==
  ASSUME setup \in Setups, NEW m \in Fair, NEW k \in DOMAIN HandshakeReplies
  PROVE  m # HandshakeReplies[k]
<1>1. CASE m \in Announcements
  BY <1>1, FuzzSessionAssumption DEF Announcements
<1>2. k = 1 \/ k = 2
  BY DEF HandshakeReplies
<1>3. HandshakeReplies[k].type \in {"BgpOpen", "BgpKeepalive"}
  <2>1. HandshakeReplies[1].type = "BgpOpen" /\ HandshakeReplies[2].type = "BgpKeepalive"
    BY DEF HandshakeReplies, Plain, Message
  <2> QED BY <1>2, <2>1
<1>4. CASE m \in Verdicts
  <2>1. m.type = "BgpNotification"
    BY <1>4 DEF Verdicts, Notification, Message
  <2> QED BY <1>3, <2>1
<1>5. CASE m = NoReply
  <2>1. m.type = "Unknown"
    BY <1>5 DEF NoReply, Message
  <2> QED BY <1>3, <2>1
<1> QED BY <1>1, <1>4, <1>5 DEF Fair

LEMMA RepliesStep ==
  RepliesInv /\ ConformingInv /\ CountsAll /\ [Next]_vars => RepliesInv'
<1> SUFFICES ASSUME RepliesInv, ConformingInv, CountsAll, [Next]_vars
             PROVE  RepliesInv'
  OBVIOUS
<1>f. Fair' = Fair
  <2>1. setup' = setup
    BY SetupStep
  <2>2. Announcements' = Announcements
    BY <2>1 DEF Announcements
  <2>3. Verdicts' = Verdicts
    BY DEF Verdicts, Notification, Message, Scenarios, Scenario
  <2> QED BY <2>2, <2>3 DEF Fair
<1> SUFFICES ASSUME conforming
             PROVE  \A i \in DOMAIN exchanges' : exchanges'[i].reply \in Fair
  BY <1>f, ConformingStays DEF RepliesInv
<1>0. \A i \in DOMAIN exchanges : exchanges[i].reply \in Fair
  BY DEF RepliesInv
<1> USE DEF oracleVars, bugVars, ghostVars
<1>1. CASE Iterate \/ Finish \/ Connected \/ Refused \/ Take \/ Written
  BY <1>0, <1>1 DEF Iterate, Finish, Connected, Refused, Take, Written
<1>2. CASE ReadOpen \/ ReadKeepalive \/ EndSession \/ WriteFails
  BY <1>0, <1>2 DEF ReadOpen, ReadKeepalive, EndSession, WriteFails
<1>3. CASE ReadData \/ ReadNothing
  <2>1. PICK x \in Exchange : exchanges' = Append(exchanges, x) /\ x.reply \in Fair
    <3>1. CASE ReadData
      <4>1. /\ pc = "read" /\ inbox # <<>> /\ inbox \in Seq(AnyMessage)
            /\ sent \in AnyMessage
        BY <3>1 DEF ReadData, CountsAll, TrafficInv
      <4>2. 1 \in DOMAIN inbox /\ Head(inbox) = inbox[1] /\ inbox[1] \in AnyMessage
        BY <4>1
      <4>3. inbox[1] \in Announcements \cup Verdicts
        <5>1. Unanswered \/ Answered
          BY <4>1, Zenon DEF ConformingInv
        <5>2. CASE Unanswered
          BY <4>2, <5>2, Zenon DEF Unanswered
        <5>3. CASE Answered
          BY <4>2, <5>3, Zenon DEF Answered
        <5> QED BY <5>1, <5>2, <5>3
      <4>4. PICK n \in 1..Len(inbox) :
              exchanges' = Append(exchanges,
                                  [sent |-> sent, kind |-> "Data",
                                   reply |-> Head(inbox), alone |-> n = 1])
        BY <3>1 DEF ReadData, Judge
      <4> DEFINE y == [sent |-> sent, kind |-> "Data",
                       reply |-> inbox[1], alone |-> n = 1]
      <4>5. exchanges' = Append(exchanges, y)
        BY <4>2, <4>4
      <4>6. "Data" \in RecvKind /\ (n = 1) \in BOOLEAN
        BY DEF RecvKind
      <4>7. y \in Exchange /\ y.reply = inbox[1]
        BY <4>1, <4>2, <4>6 DEF Exchange
      <4>8. y.reply \in Fair
        BY <4>3, <4>7, Zenon DEF Fair
      <4> QED BY <4>5, <4>7, <4>8, Zenon
    <3>2. CASE ReadNothing
      <4>1. PICK kind \in RecvKind :
              exchanges' = Append(exchanges,
                                  [sent |-> sent, kind |-> kind,
                                   reply |-> NoReply, alone |-> TRUE])
        BY <3>2 DEF ReadNothing, Judge
      <4>2. NoReply \in AnyMessage /\ NoReply \in Fair
        BY Zenon DEF AnyMessage, Fair
      <4>3. sent \in AnyMessage
        BY DEF CountsAll, TrafficInv
      <4> DEFINE y == [sent |-> sent, kind |-> kind, reply |-> NoReply, alone |-> TRUE]
      <4>4. y \in Exchange /\ y.reply = NoReply
        BY <4>2, <4>3 DEF Exchange
      <4> QED BY <4>1, <4>2, <4>4, Zenon
    <3> QED BY <1>3, <3>1, <3>2
  <2>2. exchanges \in Seq(Exchange)
    BY DEF CountsAll, CountInv
  <2>3. /\ DOMAIN exchanges' = 1..(Len(exchanges) + 1)
        /\ DOMAIN exchanges = 1..Len(exchanges)
        /\ \A i \in 1..Len(exchanges) : exchanges'[i] = exchanges[i]
        /\ exchanges'[Len(exchanges) + 1] = x
    BY <2>1, <2>2, AppendProperties
  <2>4. \A i \in DOMAIN exchanges' : i \in DOMAIN exchanges \/ i = Len(exchanges) + 1
    BY <2>2, <2>3
  <2> QED BY <1>0, <2>1, <2>3, <2>4
<1>4. CASE Report \/ StartShrink \/ EndShrink \/ Panic
  BY <1>0, <1>4 DEF Report, StartShrink, EndShrink, Panic, SendPanics, RecvPanics,
                    ShrinkPanics
<1>5. CASE Environment
  BY <1>0, <1>5 DEF Environment, CtrlC, DurationPasses, Tick, PeerSends, PeerAnswers,
                    PeerAnnounces, PeerLeaves, sessionVars
<1>6. CASE Done \/ UNCHANGED vars
  BY <1>0, <1>6 DEF Done, vars
<1> QED BY <1>1, <1>2, <1>3, <1>4, <1>5, <1>6 DEF Next, Session, Panic

\* In runs of any length against a peer that answers correctly and in time, no
\* handshake reply is ever taken for the answer to a fuzz message; and the first
\* message of a connection blames the peer for its code only if something the
\* peer sent unasked was read in the answer's place.
THEOREM OnlyUnaskedEverMisleads == Spec => []OnlyUnaskedMisleads
<1> DEFINE Inv == ConformingInv /\ VerdictInv /\ RepliesInv /\ CountsAll
<1>1. Init => Inv
  <2> SUFFICES ASSUME Init PROVE Inv
    OBVIOUS
  <2>1. conforming => "NotificationCode" \in Panel
    BY DEF Init
  <2>2. ConformingInv
    BY <2>1 DEF Init, ConformingInv
  <2>3. VerdictInv /\ RepliesInv
    BY DEF Init, VerdictInv, RepliesInv
  <2> QED BY <2>2, <2>3, CountsInit
<1>2. Inv /\ [Next]_vars => Inv'
  BY ConformingStep, VerdictStep, RepliesStep, CountsStep DEF CountsAll
<1>3. Inv => OnlyUnaskedMisleads
  <2> SUFFICES ASSUME VerdictInv, RepliesInv, CountsAll, conforming
               PROVE  OnlyUnaskedMisleads
    BY DEF OnlyUnaskedMisleads
  <2>1. \A i \in DOMAIN exchanges, k \in DOMAIN HandshakeReplies :
          exchanges[i].reply # HandshakeReplies[k]
    BY FairIsNoHandshakeReply DEF RepliesInv, CountsAll, TrafficInv
  <2> QED BY <2>1 DEF VerdictInv, OnlyUnaskedMisleads
<1> QED BY <1>1, <1>2, <1>3, PTL DEF Spec

-----------------------------------------------------------------------------
(* The statistics.  A reset's finding heads the list of its exchange, so a *)
(* reset is either counted as a Critical bug or about to be.               *)

\* The exchanges of a sequence with this outcome.
Seen(e, kind) == {i \in DOMAIN e : e[i].kind = kind}

ResetUnreported == findings # <<>> /\ findings[1].kind = "PeerReset"

StatsInv ==
  /\ stats \in [DOMAIN NoStats -> Nat] /\ bugs \in Seq(BugReport)
  /\ clock \in Nat
  /\ stats.msgs_sent = Len(exchanges) + (IF pc = "read" THEN 1 ELSE 0)
  /\ stats.msgs_recv = Cardinality(Seen(exchanges, "Data"))
  /\ Len(event_log) = stats.msgs_sent + stats.msgs_recv
  /\ stats.bugs_critical + stats.bugs_high + stats.bugs_medium = Len(bugs)
  /\ "Crash" \in Panel =>
       stats.bugs_critical + (IF ResetUnreported THEN 1 ELSE 0)
         = Cardinality(Seen(exchanges, "ConnectionReset"))
  /\ \A i \in DOMAIN findings : i # 1 => findings[i].kind # "PeerReset"
  /\ report \in BugReport
  /\ pc = "shrinking" => report.severity = SeverityOf(Head(findings))

LEMMA SeenOneMore ==
  ASSUME NEW e \in Seq(Exchange), NEW x \in Exchange, NEW kind
  PROVE  /\ IsFiniteSet(Seen(e, kind)) /\ Cardinality(Seen(e, kind)) \in Nat
         /\ x.kind = kind =>
              Cardinality(Seen(Append(e, x), kind)) = Cardinality(Seen(e, kind)) + 1
         /\ x.kind # kind =>
              Cardinality(Seen(Append(e, x), kind)) = Cardinality(Seen(e, kind))
<1> DEFINE n == Len(e)
           f == Append(e, x)
<1>1. /\ n \in Nat /\ DOMAIN e = 1..n /\ DOMAIN f = 1..(n + 1)
      /\ \A k \in 1..n : f[k] = e[k]
      /\ f[n + 1] = x
  BY AppendProperties
<1>2. IsFiniteSet(Seen(e, kind))
  <2>1. IsFiniteSet(1..n)
    BY <1>1, FS_Interval
  <2> QED BY <1>1, <2>1, FS_Subset DEF Seen
<1>3. Cardinality(Seen(e, kind)) \in Nat
  BY <1>2, FS_CardinalityType
<1> HIDE DEF n, f
<1>4. ASSUME x.kind = kind
      PROVE  Cardinality(Seen(f, kind)) = Cardinality(Seen(e, kind)) + 1
  <2>1. Seen(f, kind) = Seen(e, kind) \cup {n + 1} /\ n + 1 \notin Seen(e, kind)
    BY <1>1, <1>4 DEF Seen
  <2> QED BY <1>2, <2>1, FS_AddElement
<1>5. ASSUME x.kind # kind
      PROVE  Seen(f, kind) = Seen(e, kind)
  BY <1>1, <1>5 DEF Seen
<1> QED BY <1>2, <1>3, <1>4, <1>5 DEF f

LEMMA OnlyResetsAreCritical ==
  ASSUME NEW f \in FindingRec
  PROVE  /\ SeverityOf(f) \in BugSeverity
         /\ (SeverityOf(f) = "Critical") <=> (f.kind = "PeerReset")
<1>1. f.kind \in FindingKind
  BY DEF FindingRec
<1>2. CASE f.kind = "PeerReset"
  BY <1>2 DEF SeverityOf, BugSeverity
<1>3. CASE f.kind \in {"PeerClosed", "IllegalAccepted", "AttributeEcho", "NotificationCode"}
  BY <1>3 DEF SeverityOf, BugSeverity
<1>4. CASE f.kind = "Timeout"
  BY <1>4 DEF SeverityOf, BugSeverity
<1>5. CASE f.kind \in {"LegalRejected", "AttributeMirror", "CapNegotiation", "LatencySpike"}
  BY <1>5 DEF SeverityOf, BugSeverity
<1> QED BY <1>1, <1>2, <1>3, <1>4, <1>5 DEF FindingKind

LEMMA OneBugMore ==
  ASSUME stats \in [DOMAIN NoStats -> Nat], NEW severity \in BugSeverity,
         stats' = CountedSeverity(severity)
  PROVE  /\ stats' \in [DOMAIN NoStats -> Nat]
         /\ stats'.msgs_sent = stats.msgs_sent /\ stats'.msgs_recv = stats.msgs_recv
         /\ stats'.bugs_critical + stats'.bugs_high + stats'.bugs_medium
              = stats.bugs_critical + stats.bugs_high + stats.bugs_medium + 1
         /\ stats'.bugs_critical =
              stats.bugs_critical + (IF severity = "Critical" THEN 1 ELSE 0)
<1>1. DOMAIN NoStats = {"connections", "msgs_sent", "msgs_recv",
                        "bugs_critical", "bugs_high", "bugs_medium"}
  BY DEF NoStats
<1>2. /\ stats.bugs_critical \in Nat /\ stats.bugs_high \in Nat
      /\ stats.bugs_medium \in Nat
  BY <1>1
<1> DEFINE C == IF severity = "Critical" THEN stats.bugs_critical + 1 ELSE stats.bugs_critical
           H == IF severity = "High" THEN stats.bugs_high + 1 ELSE stats.bugs_high
           M == IF severity = "Medium" THEN stats.bugs_medium + 1 ELSE stats.bugs_medium
<1>3. C \in Nat /\ H \in Nat /\ M \in Nat
  BY <1>2
<1>4. stats' = [stats EXCEPT !.bugs_critical = C, !.bugs_high = H, !.bugs_medium = M]
  BY <1>1 DEF CountedSeverity
<1>5. C + H + M = stats.bugs_critical + stats.bugs_high + stats.bugs_medium + 1
  BY <1>2 DEF BugSeverity
<1>6. C = stats.bugs_critical + (IF severity = "Critical" THEN 1 ELSE 0)
  BY <1>2
<1> HIDE DEF C, H, M
<1>7. /\ stats' \in [DOMAIN NoStats -> Nat]
      /\ stats'.msgs_sent = stats.msgs_sent /\ stats'.msgs_recv = stats.msgs_recv
      /\ stats'.bugs_critical = C /\ stats'.bugs_high = H /\ stats'.bugs_medium = M
  BY <1>1, <1>3, <1>4
<1> QED BY <1>5, <1>6, <1>7

\* A list of findings that reports a reset, if p, and reports it first.
ResetFirst(s, p) ==
  /\ s \in Seq(FindingRec)
  /\ \A i \in DOMAIN s : i # 1 => s[i].kind # "PeerReset"
  /\ (s # <<>> /\ s[1].kind = "PeerReset") <=> p

NoReset == Of(FindingKind \ {"PeerReset"})

LEMMA ResetStaysFirst ==
  ASSUME NEW s, NEW p \in BOOLEAN, ResetFirst(s, p), NEW t \in Seq(NoReset)
  PROVE  ResetFirst(s \o t, p)
<1> DEFINE u == s \o t
<1>1. s \in Seq(FindingRec) /\ t \in Seq(FindingRec)
  <2>1. NoReset \subseteq FindingRec
    BY DEF NoReset, Of
  <2> QED BY <2>1, SeqIn DEF ResetFirst
<1>2. \A i \in 1..Len(t) : t[i].kind # "PeerReset"
  BY DEF NoReset, Of
<1>3. /\ u \in Seq(FindingRec) /\ Len(u) = Len(s) + Len(t)
      /\ \A i \in 1..(Len(s) + Len(t)) :
           u[i] = IF i <= Len(s) THEN s[i] ELSE t[i - Len(s)]
  BY <1>1, ConcatProperties
<1>4. Len(s) \in Nat /\ Len(t) \in Nat /\ DOMAIN u = 1..(Len(s) + Len(t)) /\ DOMAIN s = 1..Len(s)
  BY <1>1, <1>3
<1> HIDE DEF u
<1>5. ASSUME NEW i \in DOMAIN u, i # 1 \/ Len(s) = 0 PROVE u[i].kind # "PeerReset"
  <2>1. CASE i <= Len(s)
    <3>1. i \in DOMAIN s /\ i # 1 /\ u[i] = s[i]
      BY <1>3, <1>4, <1>5, <2>1
    <3> QED BY <3>1 DEF ResetFirst
  <2>2. CASE ~(i <= Len(s))
    <3>1. i - Len(s) \in 1..Len(t) /\ u[i] = t[i - Len(s)]
      BY <1>3, <1>4, <2>2
    <3> QED BY <1>2, <3>1
  <2> QED BY <2>1, <2>2
<1>6. CASE s = <<>>
  <2>1. ~p /\ Len(s) = 0
    BY <1>6 DEF ResetFirst
  <2>2. u # <<>> => 1 \in DOMAIN u
    BY <1>3, EmptySeq
  <2> QED BY <1>3, <1>5, <2>1, <2>2 DEF ResetFirst, u
<1>7. CASE s # <<>>
  <2>1. Len(s) \in Nat \ {0}
    BY <1>1, <1>7, EmptySeq
  <2>2. 1 \in DOMAIN u /\ u[1] = s[1]
    BY <1>3, <1>4, <2>1
  <2>3. u # <<>>
    BY <2>2
  <2> QED BY <1>3, <1>5, <1>7, <2>2, <2>3 DEF ResetFirst, u
<1> QED BY <1>6, <1>7

LEMMA CrashFindsReset ==
  ASSUME NEW x
  PROVE  ResetFirst(CrashCheck(x), x.kind = "ConnectionReset")
<1> DEFINE r == Finding("PeerReset", 0)
           c == Finding("PeerClosed", 0)
<1>1. /\ r \in FindingRec /\ c \in FindingRec
      /\ r.kind = "PeerReset" /\ c.kind = "PeerClosed"
  BY DEF Finding, FindingRec, FindingKind
<1> HIDE DEF r, c
<1>2. CASE x.kind = "ConnectionReset"
  <2>1. CrashCheck(x) = <<r>> \o <<>>
    BY <1>2 DEF CrashCheck, When, r
  <2>2. <<r>> \o <<>> = <<r>>
    BY <1>1, ConcatEmptySeq
  <2>3. <<r>> \in Seq(FindingRec) /\ DOMAIN <<r>> = {1} /\ <<r>>[1] = r /\ <<r>> # <<>>
    BY <1>1
  <2> QED BY <1>1, <1>2, <2>1, <2>2, <2>3 DEF ResetFirst
<1>3. CASE x.kind = "PeerClosed"
  <2>1. CrashCheck(x) = <<>> \o <<c>>
    BY <1>3 DEF CrashCheck, When, c
  <2>2. <<>> \o <<c>> = <<c>>
    BY <1>1, ConcatEmptySeq
  <2>3. <<c>> \in Seq(FindingRec) /\ DOMAIN <<c>> = {1} /\ <<c>>[1] = c
    BY <1>1
  <2> QED BY <1>1, <1>3, <2>1, <2>2, <2>3 DEF ResetFirst
<1>4. CASE x.kind \notin {"ConnectionReset", "PeerClosed"}
  <2>1. CrashCheck(x) = <<>> \o <<>>
    BY <1>4 DEF CrashCheck, When
  <2>2. <<>> \in Seq(FindingRec)
    OBVIOUS
  <2>3. <<>> \o <<>> = <<>>
    BY <2>2, ConcatEmptySeq
  <2> QED BY <1>4, <2>1, <2>2, <2>3 DEF ResetFirst
<1> QED BY <1>2, <1>3, <1>4

LEMMA PanelFindsReset ==
  ASSUME NEW x \in Exchange, NEW last, NEW above \in BOOLEAN,
         last.state_after # "Established", consecutive \in Nat
  PROVE  ResetFirst(PanelFindings(x, last, above),
                    "Crash" \in Panel /\ x.kind = "ConnectionReset")
<1> DEFINE p == "Crash" \in Panel /\ x.kind = "ConnectionReset"
           f1 == Ask("Crash", CrashCheck(x))
           f2 == Ask("FsmConsistency", FsmCheck(x, last))
           f3 == Ask("Response", ResponseCheck(x, consecutive))
           f4 == Ask("AttributeEcho", EchoCheck(x, last, echo))
           f5 == Ask("Latency", LatencyCheck(x, samples, WindowSize, above))
           f6 == Ask("CapNegotiation", CapCheck(x))
           f7 == Ask("NotificationCode", NotificationCheck(x, pending))
<1>0. /\ <<>> \in Seq(NoReset) /\ <<>> \in Seq(FindingRec)
      /\ \A kinds : kinds \subseteq FindingKind \ {"PeerReset"} => Of(kinds) \subseteq NoReset
  BY DEF NoReset, Of
<1>1. ResetFirst(f1, p)
  <2>1. CASE "Crash" \in Panel
    BY <2>1, CrashFindsReset DEF Ask
  <2>2. CASE "Crash" \notin Panel
    BY <1>0, <2>2 DEF Ask, ResetFirst
  <2> QED BY <2>1, <2>2
<1>2. f2 \in Seq(NoReset)
  <2>1. {"IllegalAccepted", "LegalRejected"} \subseteq FindingKind \ {"PeerReset"}
    BY DEF FindingKind
  <2> QED BY <1>0, <2>1, FsmFinds, SeqIn DEF Ask
<1>3. f3 \in Seq(NoReset)
  <2>1. {"Timeout"} \subseteq FindingKind \ {"PeerReset"}
    BY DEF FindingKind
  <2> QED BY <1>0, <2>1, ResponseFinds, SeqIn DEF Ask
<1>4. f4 \in Seq(NoReset)
  <2>1. {"AttributeEcho", "AttributeMirror"} \subseteq FindingKind \ {"PeerReset"}
    BY DEF FindingKind
  <2> QED BY <1>0, <2>1, EchoFinds, SeqIn DEF Ask
<1>5. f5 \in Seq(NoReset)
  <2>1. {"LatencySpike"} \subseteq FindingKind \ {"PeerReset"}
    BY DEF FindingKind
  <2> QED BY <1>0, <2>1, LatencyFinds, SeqIn DEF Ask
<1>6. f6 \in Seq(NoReset)
  <2>1. {"CapNegotiation"} \subseteq FindingKind \ {"PeerReset"}
    BY DEF FindingKind
  <2> QED BY <1>0, <2>1, CapFinds, SeqIn DEF Ask
<1>7. f7 \in Seq(NoReset)
  <2>1. {"NotificationCode"} \subseteq FindingKind \ {"PeerReset"}
    BY DEF FindingKind
  <2> QED BY <1>0, <2>1, NotificationFinds, SeqIn DEF Ask
<1>8. PanelFindings(x, last, above) = f1 \o f2 \o f3 \o f4 \o f5 \o f6 \o f7
  BY DEF PanelFindings
<1>9. p \in BOOLEAN
  OBVIOUS
<1> HIDE DEF p, f1, f2, f3, f4, f5, f6, f7
<1>10. ResetFirst(f1 \o f2 \o f3 \o f4 \o f5 \o f6 \o f7, p)
  <2>1. ResetFirst(f1 \o f2, p)
    BY <1>1, <1>2, <1>9, ResetStaysFirst
  <2>2. ResetFirst(f1 \o f2 \o f3, p)
    BY <1>3, <1>9, <2>1, ResetStaysFirst
  <2>3. ResetFirst(f1 \o f2 \o f3 \o f4, p)
    BY <1>4, <1>9, <2>2, ResetStaysFirst
  <2>4. ResetFirst(f1 \o f2 \o f3 \o f4 \o f5, p)
    BY <1>5, <1>9, <2>3, ResetStaysFirst
  <2>5. ResetFirst(f1 \o f2 \o f3 \o f4 \o f5 \o f6, p)
    BY <1>6, <1>9, <2>4, ResetStaysFirst
  <2> QED BY <1>7, <1>9, <2>5, ResetStaysFirst
<1> QED BY <1>8, <1>10 DEF p

\* What a read amounts to for the statistics and the panel.
LEMMA ReadJudges ==
  ASSUME CountsAll, ReadData \/ ReadNothing
  PROVE  \E x \in Exchange, above \in BOOLEAN :
           LET last == event_log'[Len(event_log')]
           IN  /\ last.state_after # "Established"
               /\ findings' = PanelFindings(x, last, above)
               /\ exchanges' = Append(exchanges, x)
               /\ \/ /\ x.kind = "Data" /\ Len(event_log') = Len(event_log) + 1
                     /\ stats' = [stats EXCEPT !.msgs_recv = @ + 1]
                  \/ /\ x.kind # "Data" /\ event_log' = event_log /\ stats' = stats
<1> DEFINE last == event_log'[Len(event_log')]
<1>1. CASE ReadData
  <2>0. PICK n \in 1..Len(inbox) :
          Judge([sent |-> sent, kind |-> "Data", reply |-> Head(inbox),
                 alone |-> n = 1])
    BY <1>1 DEF ReadData
  <2> DEFINE x == [sent |-> sent, kind |-> "Data", reply |-> Head(inbox),
                   alone |-> n = 1]
  <2>1. Feed("Recv", ClassifyMessage(Head(inbox))) /\ Judge(x)
        /\ stats' = [stats EXCEPT !.msgs_recv = @ + 1]
    BY <1>1, <2>0 DEF ReadData, OnRecv
  <2>2. Head(inbox) \in AnyMessage
    BY <1>1 DEF ReadData, CountsAll, TrafficInv
  <2>3. /\ event_log' \in Seq(LogEntry) /\ event_log' # <<>>
        /\ Len(event_log') = Len(event_log) + 1
        /\ \A i \in DOMAIN event_log' : event_log'[i].state_after = "Idle"
    BY <2>1, <2>2, FeedStaysIdle DEF CountsAll
  <2>4. Len(event_log') \in DOMAIN event_log'
    BY <2>3
  <2>5. last.state_after # "Established"
    BY <2>3, <2>4
  <2>6. PICK above \in BOOLEAN : findings' = PanelFindings(x, last, above)
    BY <2>1 DEF Judge
  <2>7. x \in Exchange /\ x.kind = "Data" /\ exchanges' = Append(exchanges, x)
    BY <2>1, <2>2 DEF Judge, Exchange, RecvKind, CountsAll, TrafficInv
  <2> QED BY <2>1, <2>3, <2>5, <2>6, <2>7
<1>2. CASE ReadNothing
  <2>1. PICK kind \in RecvKind :
          /\ EmptyOutcome(kind) /\ UNCHANGED fsmVars
          /\ Judge([sent |-> sent, kind |-> kind, reply |-> NoReply, alone |-> TRUE])
    BY <1>2 DEF ReadNothing
  <2> DEFINE x == [sent |-> sent, kind |-> kind, reply |-> NoReply, alone |-> TRUE]
  <2>2. event_log' = event_log /\ stats' = stats /\ pc = "read"
    BY <1>2, <2>1 DEF ReadNothing, fsmVars
  <2>3. last.state_after # "Established"
    <3>1. Len(event_log) \in DOMAIN event_log
      BY <2>2 DEF CountsAll, IdleInv
    <3> QED BY <2>2, <3>1 DEF CountsAll, IdleInv
  <2>4. PICK above \in BOOLEAN : findings' = PanelFindings(x, last, above)
    BY <2>1 DEF Judge
  <2>5. x \in Exchange /\ x.kind # "Data" /\ exchanges' = Append(exchanges, x)
    <3>1. NoReply \in AnyMessage
      BY DEF AnyMessage
    <3>2. kind # "Data"
      BY <2>1 DEF EmptyOutcome
    <3> QED BY <2>1, <3>1, <3>2 DEF Judge, Exchange, CountsAll, TrafficInv
  <2> QED BY <2>2, <2>3, <2>4, <2>5
<1> QED BY <1>1, <1>2

\* A read adds one exchange, and its outcome to what has been seen.
LEMMA StatsRead ==
  ASSUME StatsInv, CountsAll, VerdictInv, [Next]_vars, ReadData \/ ReadNothing
  PROVE  StatsInv'
<1> DEFINE last == event_log'[Len(event_log')]
<1>0. /\ pc = "read" /\ pc' \in {"send", "report"} /\ Panel' = Panel
      /\ UNCHANGED <<bugs, report, clock>>
  BY SetupStep DEF ReadData, ReadNothing, Judge, Panel, flagVars
<1>1. PICK x \in Exchange, above \in BOOLEAN :
        /\ last.state_after # "Established"
        /\ findings' = PanelFindings(x, last, above)
        /\ exchanges' = Append(exchanges, x)
        /\ \/ /\ x.kind = "Data" /\ Len(event_log') = Len(event_log) + 1
              /\ stats' = [stats EXCEPT !.msgs_recv = @ + 1]
           \/ /\ x.kind # "Data" /\ event_log' = event_log /\ stats' = stats
  BY ReadJudges
<1>2. exchanges \in Seq(Exchange) /\ consecutive \in Nat /\ Len(exchanges) \in Nat
  BY DEF CountsAll, CountInv
<1>3. ResetFirst(findings', "Crash" \in Panel /\ x.kind = "ConnectionReset")
  BY <1>1, <1>2, PanelFindsReset
<1>4. ~ResetUnreported
  BY <1>0 DEF VerdictInv, ResetUnreported
<1>5. Len(exchanges') = Len(exchanges) + 1
  BY <1>1, <1>2, AppendProperties
<1>6. DOMAIN NoStats = {"connections", "msgs_sent", "msgs_recv",
                        "bugs_critical", "bugs_high", "bugs_medium"}
  BY DEF NoStats
<1>7. /\ stats' \in [DOMAIN NoStats -> Nat]
      /\ stats'.msgs_sent = stats.msgs_sent
      /\ stats'.msgs_recv = stats.msgs_recv + (IF x.kind = "Data" THEN 1 ELSE 0)
      /\ stats'.bugs_critical = stats.bugs_critical /\ stats'.bugs_high = stats.bugs_high
      /\ stats'.bugs_medium = stats.bugs_medium
      /\ Len(event_log') = Len(event_log) + (IF x.kind = "Data" THEN 1 ELSE 0)
      /\ stats.msgs_recv \in Nat /\ stats.msgs_sent \in Nat /\ stats.bugs_critical \in Nat
  <2>1. /\ stats \in [DOMAIN NoStats -> Nat] /\ Len(event_log) \in Nat
    BY DEF StatsInv, CountsAll, IdleInv
  <2>2. CASE x.kind = "Data"
    BY <1>1, <1>6, <2>1, <2>2
  <2>3. CASE x.kind # "Data"
    BY <1>1, <1>6, <2>1, <2>3
  <2> QED BY <2>2, <2>3
<1>8. stats'.msgs_sent = Len(exchanges')
  BY <1>0, <1>5, <1>7 DEF StatsInv
<1>9. stats'.msgs_recv = Cardinality(Seen(exchanges', "Data"))
  <2>1. CASE x.kind = "Data"
    BY <1>1, <1>2, <1>7, <2>1, SeenOneMore DEF StatsInv
  <2>2. CASE x.kind # "Data"
    BY <1>1, <1>2, <1>7, <2>2, SeenOneMore DEF StatsInv
  <2> QED BY <2>1, <2>2
<1>10. Len(event_log') = stats'.msgs_sent + stats'.msgs_recv
  <2> DEFINE d == IF x.kind = "Data" THEN 1 ELSE 0
             a == stats.msgs_sent
             b == stats.msgs_recv
  <2>1. d \in Nat /\ a \in Nat /\ b \in Nat
    BY <1>7
  <2>2. /\ Len(event_log) = a + b /\ Len(event_log') = Len(event_log) + d
        /\ stats'.msgs_sent = a /\ stats'.msgs_recv = b + d
    BY <1>7 DEF StatsInv
  <2> HIDE DEF a, b, d
  <2>3. (a + b) + d = a + (b + d)
    BY <2>1
  <2>4. Len(event_log') = (a + b) + d /\ stats'.msgs_sent + stats'.msgs_recv = a + (b + d)
    BY <2>2, Zenon
  <2> QED BY <2>3, <2>4, Zenon
<1>11. ASSUME "Crash" \in Panel
       PROVE  stats'.bugs_critical + (IF ResetUnreported' THEN 1 ELSE 0)
                = Cardinality(Seen(exchanges', "ConnectionReset"))
  <2>1. stats.bugs_critical = Cardinality(Seen(exchanges, "ConnectionReset"))
    BY <1>4, <1>7, <1>11 DEF StatsInv
  <2>2. ResetUnreported' <=> x.kind = "ConnectionReset"
    BY <1>3, <1>11 DEF ResetFirst, ResetUnreported
  <2>3. CASE x.kind = "ConnectionReset"
    BY <1>1, <1>2, <1>7, <2>1, <2>2, <2>3, SeenOneMore
  <2>4. CASE x.kind # "ConnectionReset"
    BY <1>1, <1>2, <1>7, <2>1, <2>2, <2>4, SeenOneMore
  <2> QED BY <2>3, <2>4
<1>12. /\ bugs' \in Seq(BugReport) /\ clock' \in Nat /\ report' \in BugReport
       /\ stats'.bugs_critical + stats'.bugs_high + stats'.bugs_medium = Len(bugs')
  BY <1>0, <1>7 DEF StatsInv
<1>13. \A i \in DOMAIN findings' : i # 1 => findings'[i].kind # "PeerReset"
  BY <1>3 DEF ResetFirst
<1>14. stats'.msgs_sent = Len(exchanges') + (IF pc' = "read" THEN 1 ELSE 0)
  BY <1>0, <1>5, <1>2, <1>8
<1>15. pc' # "shrinking"
  BY <1>0
<1> QED BY <1>0, <1>7, <1>9, <1>10, <1>11, <1>12, <1>13, <1>14, <1>15 DEF StatsInv

\* Filing a report settles the finding at the head of the list.
LEMMA StatsFile ==
  ASSUME StatsInv, CountsAll, NEW r \in BugReport, findings # <<>>,
         r.severity = SeverityOf(Head(findings)), File(r),
         UNCHANGED <<setup, clock, exchanges, event_log>>, pc # "read",
         report' \in BugReport
  PROVE  StatsInv'
<1>1. /\ findings \in Seq(FindingRec) /\ Head(findings) = findings[1]
      /\ findings' = Tail(findings) /\ pc' \in {"send", "report"}
      /\ stats' = CountedSeverity(r.severity) /\ bugs' = Append(bugs, r)
      /\ Panel' = Panel
  <2>1. CountedFinding(consecutive) \subseteq FindingRec
    BY DEF CountedFinding, FindingRec, CountsAll, CountInv
  <2>2. findings \in Seq(FindingRec)
    BY <2>1, SeqIn DEF CountsAll, CountInv
  <2> QED BY <2>2 DEF File, Panel
<1>2. /\ stats \in [DOMAIN NoStats -> Nat] /\ bugs \in Seq(BugReport)
      /\ stats.bugs_critical + stats.bugs_high + stats.bugs_medium = Len(bugs)
  BY DEF StatsInv
<1>3. r.severity \in BugSeverity
  BY DEF BugReport
<1>4. /\ stats' \in [DOMAIN NoStats -> Nat]
      /\ stats'.msgs_sent = stats.msgs_sent /\ stats'.msgs_recv = stats.msgs_recv
      /\ stats'.bugs_critical + stats'.bugs_high + stats'.bugs_medium = Len(bugs) + 1
      /\ stats'.bugs_critical =
           stats.bugs_critical + (IF r.severity = "Critical" THEN 1 ELSE 0)
  BY <1>1, <1>2, <1>3, OneBugMore
<1>5. bugs' \in Seq(BugReport) /\ Len(bugs') = Len(bugs) + 1
  BY <1>1, <1>2, AppendProperties
<1>6. \A i \in DOMAIN findings' :
        i + 1 \in DOMAIN findings /\ i + 1 # 1 /\ findings'[i] = findings[i + 1]
  BY <1>1
<1>7. \A i \in DOMAIN findings' : findings'[i].kind # "PeerReset"
  BY <1>6 DEF StatsInv
<1>8. ~ResetUnreported'
  <2>1. findings' # <<>> => 1 \in DOMAIN findings'
    BY <1>1
  <2> QED BY <1>7, <2>1 DEF ResetUnreported
<1>9. (r.severity = "Critical") <=> ResetUnreported
  <2>1. findings[1] \in FindingRec
    BY <1>1
  <2> QED BY <1>1, <2>1, OnlyResetsAreCritical DEF ResetUnreported
<1>10. "Crash" \in Panel =>
         stats'.bugs_critical + (IF ResetUnreported' THEN 1 ELSE 0)
           = Cardinality(Seen(exchanges', "ConnectionReset"))
  <2>1. stats'.bugs_critical + 0 = stats'.bugs_critical
    <3>1. stats'.bugs_critical \in Nat
      BY <1>4 DEF NoStats
    <3> QED BY <3>1
  <2>2. stats'.bugs_critical = stats.bugs_critical + (IF ResetUnreported THEN 1 ELSE 0)
    BY <1>4, <1>9
  <2> QED BY <1>8, <2>1, <2>2 DEF StatsInv
<1>11. clock' \in Nat /\ pc' # "shrinking" /\ pc' # "read"
  BY <1>1 DEF StatsInv
<1>12. /\ stats'.msgs_sent = Len(exchanges') + (IF pc' = "read" THEN 1 ELSE 0)
       /\ stats'.msgs_recv = Cardinality(Seen(exchanges', "Data"))
       /\ Len(event_log') = stats'.msgs_sent + stats'.msgs_recv
  BY <1>4, <1>11 DEF StatsInv
<1>13. "Crash" \in Panel' =>
         stats'.bugs_critical + (IF ResetUnreported' THEN 1 ELSE 0)
           = Cardinality(Seen(exchanges', "ConnectionReset"))
  BY <1>1, <1>10
<1>14. stats'.bugs_critical + stats'.bugs_high + stats'.bugs_medium = Len(bugs')
  BY <1>4, <1>5
<1>15. \A i \in DOMAIN findings' : i # 1 => findings'[i].kind # "PeerReset"
  BY <1>7
<1>16. stats' \in [DOMAIN NoStats -> Nat] /\ bugs' \in Seq(BugReport)
  BY <1>4, <1>5
<1> QED BY <1>11, <1>12, <1>13, <1>14, <1>15, <1>16 DEF StatsInv

LEMMA PanicEnds ==
  Panic => pc \in {"write", "read", "shrinking"} /\ pc' = "panicked"
BY DEF Panic, SendPanics, RecvPanics, ShrinkPanics, Unwind

LEMMA StatsStep ==
  StatsInv /\ VerdictInv /\ CountsAll /\ [Next]_vars /\ pc' # "panicked" => StatsInv'
<1> SUFFICES ASSUME StatsInv, VerdictInv, CountsAll, [Next]_vars, pc' # "panicked"
             PROVE  StatsInv'
  OBVIOUS
<1>0. Panel' = Panel
  BY SetupStep DEF Panel
<1>k. DOMAIN NoStats = {"connections", "msgs_sent", "msgs_recv",
                        "bugs_critical", "bugs_high", "bugs_medium"}
  BY DEF NoStats
<1>1. CASE Iterate \/ Finish \/ Refused
  BY <1>0, <1>1 DEF Iterate, Finish, Refused, StatsInv, ResetUnreported, bugVars,
       flagVars, fsmVars, ghostVars
<1>2. CASE Connected
  <2>1. /\ pc = "connecting" /\ pc' = "hs_open"
        /\ stats' = [stats EXCEPT !.connections = @ + 1]
        /\ UNCHANGED <<findings, report, bugs, clock, event_log, exchanges>>
    BY <1>2 DEF Connected, bugVars, flagVars, fsmVars, ghostVars
  <2>2. /\ stats' \in [DOMAIN NoStats -> Nat]
        /\ stats'.msgs_sent = stats.msgs_sent /\ stats'.msgs_recv = stats.msgs_recv
        /\ stats'.bugs_critical = stats.bugs_critical
        /\ stats'.bugs_high = stats.bugs_high /\ stats'.bugs_medium = stats.bugs_medium
    <3>1. stats \in [DOMAIN NoStats -> Nat]
      BY DEF StatsInv
    <3>2. stats' = [stats EXCEPT !.connections = @ + 1]
      BY <2>1
    <3> QED BY <1>k, <3>1, <3>2
  <2>3. ResetUnreported' <=> ResetUnreported
    BY <2>1 DEF ResetUnreported
  <2>4. /\ stats'.msgs_sent = Len(exchanges') + (IF pc' = "read" THEN 1 ELSE 0)
        /\ stats'.msgs_recv = Cardinality(Seen(exchanges', "Data"))
        /\ Len(event_log') = stats'.msgs_sent + stats'.msgs_recv
    BY <2>1, <2>2 DEF StatsInv
  <2>5. stats'.bugs_critical + stats'.bugs_high + stats'.bugs_medium = Len(bugs')
    BY <2>1, <2>2 DEF StatsInv
  <2>6. "Crash" \in Panel' =>
          stats'.bugs_critical + (IF ResetUnreported' THEN 1 ELSE 0)
            = Cardinality(Seen(exchanges', "ConnectionReset"))
    BY <1>0, <2>1, <2>2, <2>3 DEF StatsInv
  <2>7. /\ bugs' \in Seq(BugReport) /\ clock' \in Nat /\ report' \in BugReport
        /\ \A i \in DOMAIN findings' : i # 1 => findings'[i].kind # "PeerReset"
        /\ pc' # "shrinking"
    BY <2>1 DEF StatsInv
  <2> QED BY <2>2, <2>4, <2>5, <2>6, <2>7 DEF StatsInv
<1>3. CASE ReadOpen \/ ReadKeepalive
  BY <1>0, <1>3 DEF ReadOpen, ReadKeepalive, StatsInv, ResetUnreported, bugVars,
       flagVars, fsmVars, ghostVars
<1>4. CASE EndSession \/ WriteFails
  BY <1>0, <1>4 DEF EndSession, WriteFails, Disconnect, DropStream, StatsInv,
       ResetUnreported, bugVars, flagVars, fsmVars, ghostVars
<1>5. CASE Take
  BY <1>0, <1>5 DEF Take, StatsInv, ResetUnreported, bugVars, flagVars, fsmVars, ghostVars
<1>6. CASE Written
  <2>1. /\ pc = "write" /\ pc' = "read" /\ Feed("Sent", ClassifyMessage(sent))
        /\ stats' = [stats EXCEPT !.msgs_sent = @ + 1]
        /\ UNCHANGED <<findings, report, bugs, clock, exchanges>>
    BY <1>6 DEF Written, OnSend, bugVars, flagVars
  <2>2. Len(event_log') = Len(event_log) + 1
    BY <2>1, FeedStaysIdle DEF CountsAll, TrafficInv
  <2>3. /\ stats.msgs_sent \in Nat /\ stats.msgs_recv \in Nat /\ Len(exchanges) \in Nat
        /\ stats.msgs_sent = Len(exchanges) + 0
        /\ Len(event_log) = stats.msgs_sent + stats.msgs_recv
    BY <1>k, <2>1 DEF StatsInv, CountsAll, CountInv
  <2>4. /\ stats' \in [DOMAIN NoStats -> Nat]
        /\ stats'.msgs_sent = stats.msgs_sent + 1 /\ stats'.msgs_recv = stats.msgs_recv
        /\ stats'.bugs_critical = stats.bugs_critical
        /\ stats'.bugs_high = stats.bugs_high /\ stats'.bugs_medium = stats.bugs_medium
    <3>1. stats \in [DOMAIN NoStats -> Nat]
      BY DEF StatsInv
    <3>2. stats' = [stats EXCEPT !.msgs_sent = @ + 1]
      BY <2>1
    <3> QED BY <1>k, <3>1, <3>2
  <2>5. Len(event_log') = stats'.msgs_sent + stats'.msgs_recv
    <3> DEFINE l == Len(event_log) s == stats.msgs_sent r == stats.msgs_recv
    <3>1. s \in Nat /\ r \in Nat /\ l = s + r
      BY <2>3
    <3>2. /\ Len(event_log') = l + 1
          /\ stats'.msgs_sent = s + 1 /\ stats'.msgs_recv = r
      BY <2>2, <2>4
    <3> HIDE DEF l, s, r
    <3>3. Len(event_log') = (s + 1) + r
      BY <3>1, <3>2
    <3> QED BY <3>2, <3>3
  <2>6. stats'.msgs_sent = Len(exchanges') + (IF pc' = "read" THEN 1 ELSE 0)
    BY <2>1, <2>3, <2>4
  <2>7. ResetUnreported' <=> ResetUnreported
    BY <2>1 DEF ResetUnreported
  <2> QED BY <1>0, <2>1, <2>4, <2>5, <2>6, <2>7 DEF StatsInv
<1>7. CASE ReadData \/ ReadNothing
  BY <1>7, StatsRead
<1>8. CASE Report
  <2>1. Head(findings) \in FindingRec /\ findings # <<>>
    <3>1. CountedFinding(consecutive) \subseteq FindingRec
      BY DEF CountedFinding, FindingRec, CountsAll, CountInv
    <3>2. findings \in Seq(FindingRec) /\ findings # <<>>
      BY <1>8, <3>1, SeqIn DEF CountsAll, CountInv, FindingsInv, Report
    <3> QED BY <3>2
  <2>2. Format(Head(findings)) \in BugReport
    BY <2>1, OnlyResetsAreCritical DEF Format, BugReport, FindingRec, StatsInv
  <2>3. Format(Head(findings)).severity = SeverityOf(Head(findings))
    BY DEF Format
  <2>4. /\ File(Format(Head(findings))) /\ pc # "read" /\ report' \in BugReport
        /\ UNCHANGED <<setup, clock, exchanges, event_log>>
    BY <1>8 DEF Report, StatsInv, flagVars, fixedVars, fsmVars, ghostVars
  <2> QED BY <2>1, <2>2, <2>3, <2>4, StatsFile
<1>9. CASE StartShrink
  <2>1. /\ pc = "report" /\ pc' = "shrinking" /\ report' = Format(Head(findings))
        /\ UNCHANGED <<stats, findings, bugs, clock, event_log, exchanges>>
    BY <1>9 DEF StartShrink, flagVars, fsmVars, ghostVars
  <2>2. Head(findings) \in FindingRec
    <3>1. CountedFinding(consecutive) \subseteq FindingRec
      BY DEF CountedFinding, FindingRec, CountsAll, CountInv
    <3>2. findings \in Seq(FindingRec) /\ findings # <<>>
      BY <2>1, <3>1, SeqIn DEF CountsAll, CountInv, FindingsInv
    <3> QED BY <3>2
  <2>3. report' \in BugReport /\ report'.severity = SeverityOf(Head(findings'))
    BY <2>1, <2>2, OnlyResetsAreCritical DEF Format, BugReport, FindingRec, StatsInv
  <2>4. ResetUnreported' <=> ResetUnreported
    BY <2>1 DEF ResetUnreported
  <2> QED BY <1>0, <2>1, <2>3, <2>4 DEF StatsInv
<1>10. CASE EndShrink
  <2>1. /\ pc = "shrinking" /\ File(report) /\ report' = NoReport
        /\ UNCHANGED <<setup, clock, exchanges, event_log>>
    BY <1>10 DEF EndShrink, flagVars, fixedVars, fsmVars, ghostVars
  <2>2. NoReport \in BugReport
    BY DEF NoReport, BugReport, FindingKind, BugSeverity
  <2>3. findings # <<>>
    BY <2>1 DEF CountsAll, FindingsInv
  <2>4. report \in BugReport /\ report.severity = SeverityOf(Head(findings))
    BY <2>1 DEF StatsInv
  <2> QED BY <2>1, <2>2, <2>3, <2>4, StatsFile
<1>11. CASE Panic
  BY <1>11, PanicEnds
<1>12. CASE Tick
  <2>1. clock' \in Nat
    BY <1>12 DEF Tick, StatsInv
  <2> QED BY <1>0, <1>12, <2>1 DEF Tick, StatsInv, ResetUnreported, sessionVars,
            bugVars, fsmVars, ghostVars
<1>13. CASE CtrlC \/ DurationPasses \/ PeerSends \/ PeerAnswers \/ PeerAnnounces
             \/ PeerLeaves
  <2>1. UNCHANGED <<clock, sessionVars>>
    BY <1>13 DEF CtrlC, DurationPasses, PeerSends, PeerAnswers, PeerAnnounces,
                 PeerLeaves, flagVars
  <2> QED BY <1>0, <2>1 DEF StatsInv, ResetUnreported, sessionVars, bugVars, fsmVars,
            ghostVars
<1>14. CASE Done \/ UNCHANGED vars
  BY <1>0, <1>14 DEF Done, vars, StatsInv, ResetUnreported, bugVars, flagVars, fsmVars,
       ghostVars
<1> QED BY <1>1, <1>2, <1>3, <1>4, <1>5, <1>6, <1>7, <1>8, <1>9, <1>10, <1>11,
           <1>12, <1>13, <1>14 DEF Next, Session, Environment, Panic

\* The types alone outlive a panic, of which the statistics tell nothing.
StatsTyped ==
  /\ stats \in [DOMAIN NoStats -> Nat] /\ bugs \in Seq(BugReport)
  /\ clock \in Nat /\ report \in BugReport

AccountsInv == StatsTyped /\ (pc # "panicked" => StatsInv)

\* Nothing but a panic ends in one, and then only the environment is left.
LEMMA PanickedIsOver ==
  ASSUME [Next]_vars
  PROVE  /\ pc = "panicked" => \/ Environment
                               \/ Done \/ UNCHANGED vars
         /\ pc' = "panicked" /\ pc # "panicked" => Panic
<1>1. CASE Iterate \/ Finish \/ Connected \/ Refused
  BY <1>1 DEF Iterate, Finish, Connected, Refused
<1>2. CASE ReadOpen \/ ReadKeepalive \/ EndSession \/ WriteFails
  BY <1>2 DEF ReadOpen, ReadKeepalive, EndSession, WriteFails, Disconnect
<1>3. CASE Take \/ Written \/ ReadData \/ ReadNothing
  BY <1>3 DEF Take, Written, ReadData, ReadNothing, Judge
<1>4. CASE Report \/ StartShrink \/ EndShrink
  BY <1>4 DEF Report, StartShrink, EndShrink, File
<1>5. CASE Panic
  BY <1>5, PanicEnds
<1>6. CASE Environment
  BY <1>6 DEF Environment, CtrlC, DurationPasses, Tick, PeerSends, PeerAnswers,
              PeerAnnounces, PeerLeaves, sessionVars
<1>7. CASE Done \/ UNCHANGED vars
  BY <1>7 DEF Done, vars
<1> QED BY <1>1, <1>2, <1>3, <1>4, <1>5, <1>6, <1>7 DEF Next, Session, Panic

\* What the environment leaves of the report's variables.
LEMMA EnvironmentReports ==
  ASSUME Environment \/ Done \/ UNCHANGED vars, AccountsInv
  PROVE  UNCHANGED <<pc, stats, bugs, report>> /\ clock' \in Nat
<1>1. CASE Tick
  BY <1>1 DEF Tick, sessionVars, bugVars, AccountsInv, StatsTyped
<1>2. CASE CtrlC \/ DurationPasses \/ PeerSends \/ PeerAnswers \/ PeerAnnounces
            \/ PeerLeaves
  BY <1>2 DEF CtrlC, DurationPasses, PeerSends, PeerAnswers, PeerAnnounces, PeerLeaves,
              sessionVars, bugVars, flagVars, AccountsInv, StatsTyped
<1>3. CASE Done \/ UNCHANGED vars
  BY <1>3 DEF Done, vars, bugVars, flagVars, AccountsInv, StatsTyped
<1> QED BY <1>1, <1>2, <1>3 DEF Environment

LEMMA AccountsStep ==
  AccountsInv /\ VerdictInv /\ CountsAll /\ [Next]_vars => AccountsInv'
<1> SUFFICES ASSUME AccountsInv, VerdictInv, CountsAll, [Next]_vars
             PROVE  AccountsInv'
  OBVIOUS
<1>1. CASE pc' # "panicked"
  <2>1. StatsInv
    BY <1>1, PanickedIsOver, EnvironmentReports DEF AccountsInv
  <2>2. StatsInv'
    BY <1>1, <2>1, StatsStep
  <2> QED BY <2>2 DEF AccountsInv, StatsTyped, StatsInv
<1>2. CASE pc' = "panicked" /\ pc # "panicked"
  <2>1. Panic
    BY <1>2, PanickedIsOver
  <2>2. /\ UNCHANGED <<bugs, clock, report>>
        /\ stats' = stats \/ stats' = [stats EXCEPT !.msgs_recv = @ + 1]
    BY <2>1 DEF Panic, SendPanics, RecvPanics, ShrinkPanics, bugVars, flagVars
  <2>3. stats' \in [DOMAIN NoStats -> Nat]
    <3>1. DOMAIN NoStats = {"connections", "msgs_sent", "msgs_recv",
                            "bugs_critical", "bugs_high", "bugs_medium"}
      BY DEF NoStats
    <3>2. stats \in [DOMAIN NoStats -> Nat]
      BY DEF AccountsInv, StatsTyped
    <3> QED BY <2>2, <3>1, <3>2
  <2> QED BY <1>2, <2>2, <2>3 DEF AccountsInv, StatsTyped
<1>3. CASE pc' = "panicked" /\ pc = "panicked"
  <2>1. UNCHANGED <<stats, bugs, report>> /\ clock' \in Nat
    BY <1>3, PanickedIsOver, EnvironmentReports
  <2> QED BY <1>3, <2>1 DEF AccountsInv, StatsTyped
<1> QED BY <1>1, <1>2, <1>3

LEMMA StatsInit == Init => StatsInv
<1> SUFFICES ASSUME Init PROVE StatsInv
  OBVIOUS
<1>1. NoReport \in BugReport
  BY DEF NoReport, BugReport, FindingKind, BugSeverity
<1>2. /\ exchanges = <<>> /\ event_log = <<>> /\ findings = <<>> /\ bugs = <<>>
      /\ pc = "loop" /\ report = NoReport /\ clock = 0 /\ stats = NoStats
  BY DEF Init, DriverInit
<1>3. \A kind : Cardinality(Seen(exchanges, kind)) = 0
  <2>1. \A kind : Seen(exchanges, kind) = {}
    BY <1>2 DEF Seen
  <2> QED BY <2>1, FS_EmptySet
<1>4. NoStats \in [DOMAIN NoStats -> Nat]
  BY DEF NoStats
<1> QED BY <1>1, <1>2, <1>3, <1>4 DEF StatsInv, NoStats, ResetUnreported

\* In runs of any length, until something panics, the statistics, the bug list
\* and the FSM log agree with the exchanges: a reset that a read has seen is one
\* Critical bug, never two, never none.
THEOREM StatsAlwaysAccount == Spec => []StatsAccountForExchanges
<1> DEFINE Inv == ConformingInv /\ VerdictInv /\ CountsAll /\ AccountsInv
<1>1. Init => Inv
  <2> SUFFICES ASSUME Init PROVE Inv
    OBVIOUS
  <2>1. ConformingInv /\ VerdictInv
    BY DEF Init, ConformingInv, VerdictInv
  <2> QED BY <2>1, StatsInit, CountsInit DEF AccountsInv, StatsTyped, StatsInv
<1>2. Inv /\ [Next]_vars => Inv'
  BY ConformingStep, VerdictStep, CountsStep, AccountsStep DEF CountsAll
<1>3. Inv => StatsAccountForExchanges
  <2> SUFFICES ASSUME VerdictInv, StatsInv, pc # "panicked"
               PROVE  StatsAccountForExchanges
    BY DEF AccountsInv, StatsAccountForExchanges
  <2>1. ASSUME "Crash" \in Panel, pc \notin {"report", "shrinking"}
        PROVE  stats.bugs_critical = Cardinality(Seen(exchanges, "ConnectionReset"))
    <3>1. stats.bugs_critical \in Nat
      BY DEF StatsInv, NoStats
    <3>2. ~ResetUnreported
      BY <2>1 DEF VerdictInv, ResetUnreported
    <3> QED BY <2>1, <3>1, <3>2 DEF StatsInv
  <2> QED BY <2>1 DEF StatsInv, StatsAccountForExchanges, Seen
<1> QED BY <1>1, <1>2, <1>3, PTL DEF Spec

-----------------------------------------------------------------------------
(* The findings' way to the bug list.  Those of earlier exchanges are all   *)
(* filed when the next exchange is judged, and the report at the shrinker   *)
(* is that of the first which is not.                                       *)

\* Of all the findings made, b is what is filed and q what is still to be.
Filed(b, q, all) ==
  /\ Len(all) = Len(b) + Len(q)
  /\ \A i \in 1..Len(b) :
       b[i].kind = all[i].kind /\ b[i].severity = SeverityOf(all[i])
  /\ \A i \in 1..Len(q) : q[i] = all[Len(b) + i]

FiledInv ==
  /\ found \in Seq(FindingRec)
  /\ Filed(bugs, findings, found)
  /\ pc = "shrinking" =>
       /\ report.kind = Head(findings).kind
       /\ report.severity = SeverityOf(Head(findings))

\* An exchange's findings are added to those that are all filed.
LEMMA FoundMore ==
  ASSUME NEW b \in Seq(BugReport), NEW q \in Seq(FindingRec),
         NEW all \in Seq(FindingRec), Filed(b, <<>>, all)
  PROVE  all \o q \in Seq(FindingRec) /\ Filed(b, q, all \o q)
<1>1. /\ all \o q \in Seq(FindingRec)
      /\ Len(all \o q) = Len(all) + Len(q)
      /\ \A i \in 1..(Len(all) + Len(q)) :
           (all \o q)[i] = IF i <= Len(all) THEN all[i] ELSE q[i - Len(all)]
  BY ConcatProperties
<1>2. Len(all) = Len(b) /\ Len(b) \in Nat /\ Len(q) \in Nat
  BY DEF Filed
<1>3. \A i \in 1..Len(b) : (all \o q)[i] = all[i]
  <2> TAKE i \in 1..Len(b)
  <2>1. i \in 1..(Len(all) + Len(q)) /\ i <= Len(all)
    BY <1>2
  <2> QED BY <1>1, <2>1
<1>4. \A i \in 1..Len(q) : q[i] = (all \o q)[Len(b) + i]
  <2> TAKE i \in 1..Len(q)
  <2> DEFINE j == Len(b) + i
  <2>1. j \in 1..(Len(all) + Len(q)) /\ ~(j <= Len(all)) /\ j - Len(all) = i
    BY <1>2
  <2> HIDE DEF j
  <2>2. (all \o q)[j] = q[i]
    BY <1>1, <2>1
  <2> QED BY <2>2 DEF j
<1>5. \A i \in 1..Len(b) :
        b[i].kind = (all \o q)[i].kind /\ b[i].severity = SeverityOf((all \o q)[i])
  BY <1>3 DEF Filed
<1> QED BY <1>1, <1>2, <1>4, <1>5 DEF Filed

\* The first that is not filed is filed.
LEMMA FiledOne ==
  ASSUME NEW b \in Seq(BugReport), NEW q \in Seq(FindingRec), q # <<>>,
         NEW all \in Seq(FindingRec), Filed(b, q, all),
         NEW r \in BugReport, r.kind = Head(q).kind, r.severity = SeverityOf(Head(q))
  PROVE  Filed(Append(b, r), Tail(q), all)
<1>1. /\ Len(Append(b, r)) = Len(b) + 1
      /\ \A i \in 1..Len(b) : Append(b, r)[i] = b[i]
      /\ Append(b, r)[Len(b) + 1] = r
  BY AppendProperties
<1>2. /\ Len(Tail(q)) = Len(q) - 1
      /\ \A i \in 1..Len(Tail(q)) : Tail(q)[i] = q[i + 1]
  BY HeadTailProperties
<1>3. Len(b) \in Nat /\ Len(q) \in Nat \ {0} /\ Len(all) = Len(b) + Len(q)
  BY EmptySeq DEF Filed
<1>4. Head(q) = all[Len(b) + 1]
  <2>1. 1 \in 1..Len(q) /\ Head(q) = q[1]
    BY <1>3
  <2> QED BY <2>1 DEF Filed
<1>5. Len(all) = Len(Append(b, r)) + Len(Tail(q))
  BY <1>1, <1>2, <1>3
<1>6. ASSUME NEW i \in 1..Len(Append(b, r))
      PROVE  /\ Append(b, r)[i].kind = all[i].kind
             /\ Append(b, r)[i].severity = SeverityOf(all[i])
  <2>1. i \in 1..Len(b) \/ i = Len(b) + 1
    BY <1>1, <1>3
  <2>2. CASE i \in 1..Len(b)
    BY <1>1, <2>2, Zenon DEF Filed
  <2>3. CASE i = Len(b) + 1
    BY <1>1, <1>4, <2>3, Zenon
  <2> QED BY <2>1, <2>2, <2>3
<1>7. ASSUME NEW i \in 1..Len(Tail(q))
      PROVE  Tail(q)[i] = all[Len(Append(b, r)) + i]
  <2> DEFINE j == i + 1
  <2>1. /\ j \in 1..Len(q) /\ Len(b) + j = Len(Append(b, r)) + i
    BY <1>1, <1>2, <1>3
  <2>2. Tail(q)[i] = q[j]
    BY <1>2
  <2> HIDE DEF j
  <2>3. q[j] = all[Len(b) + j]
    BY <2>1, Zenon DEF Filed
  <2> QED BY <2>1, <2>2, <2>3, Zenon
<1> QED BY <1>5, <1>6, <1>7, Zenon DEF Filed

LEMMA FindingsAreRecords == CountsAll => findings \in Seq(FindingRec)
<1>1. CountedFinding(consecutive) \subseteq FindingRec
  BY DEF CountedFinding
<1> QED BY <1>1, SeqIn DEF CountsAll, CountInv

LEMMA FiledStep ==
  FiledInv /\ VerdictInv /\ CountsAll /\ AccountsInv /\ [Next]_vars => FiledInv'
<1> SUFFICES ASSUME FiledInv, VerdictInv, CountsAll, AccountsInv, [Next]_vars
             PROVE  FiledInv'
  OBVIOUS
<1>0. findings \in Seq(FindingRec) /\ (findings \in Seq(FindingRec))'
  <2>1. CountsAll' => (findings \in Seq(FindingRec))'
    BY FindingsAreRecords, PTL
  <2> QED BY <2>1, CountsStep, FindingsAreRecords
<1>k. UNCHANGED <<bugVars, found>> /\ pc' # "shrinking" => FiledInv'
  BY DEF FiledInv, Filed, bugVars
<1>1. CASE Iterate \/ Finish \/ Connected \/ Refused
  BY <1>k, <1>1 DEF Iterate, Finish, Connected, Refused, ghostVars
<1>2. CASE ReadOpen \/ ReadKeepalive \/ EndSession \/ WriteFails
  BY <1>k, <1>2 DEF ReadOpen, ReadKeepalive, EndSession, WriteFails, Disconnect,
                    DropStream, ghostVars
<1>3. CASE Take \/ Written
  BY <1>k, <1>3 DEF Take, Written, ghostVars
<1>4. CASE ReadData \/ ReadNothing
  <2>1. /\ pc = "read" /\ found' = found \o findings' /\ UNCHANGED bugs
        /\ pc' # "shrinking"
    BY <1>4 DEF ReadData, ReadNothing, Judge
  <2>2. findings = <<>>
    BY <2>1 DEF VerdictInv
  <2>3. Filed(bugs, <<>>, found) /\ found \in Seq(FindingRec)
    BY <2>2 DEF FiledInv
  <2>4. bugs \in Seq(BugReport)
    BY DEF AccountsInv, StatsTyped
  <2>5. found \o findings' \in Seq(FindingRec) /\ Filed(bugs, findings', found \o findings')
    BY <1>0, <2>3, <2>4, FoundMore
  <2>6. Filed(bugs', findings', found')
    BY <2>1, <2>5
  <2> QED BY <2>1, <2>5, <2>6 DEF FiledInv
<1>5. CASE Report \/ EndShrink
  <2>1. /\ findings # <<>> /\ findings' = Tail(findings) /\ UNCHANGED found
        /\ pc' # "shrinking"
    BY <1>5 DEF Report, EndShrink, File, CountsAll, FindingsInv, ghostVars
  <2>2. PICK r \in BugReport : /\ bugs' = Append(bugs, r)
                               /\ r.kind = Head(findings).kind
                               /\ r.severity = SeverityOf(Head(findings))
    <3>1. CASE Report
      <4>1. Head(findings) \in FindingRec /\ clock \in Nat
        BY <1>0, <2>1 DEF AccountsInv, StatsTyped
      <4> DEFINE r == Format(Head(findings))
      <4>2. r \in BugReport
        BY <4>1, OnlyResetsAreCritical DEF Format, BugReport, FindingRec
      <4>3. /\ r.kind = Head(findings).kind
            /\ r.severity = SeverityOf(Head(findings))
        BY DEF Format
      <4>4. bugs' = Append(bugs, r)
        BY <3>1 DEF Report, File
      <4> QED BY <4>2, <4>3, <4>4, Zenon
    <3>2. CASE EndShrink
      <4>1. report \in BugReport /\ bugs' = Append(bugs, report) /\ pc = "shrinking"
        BY <3>2 DEF EndShrink, File, AccountsInv, StatsTyped
      <4> QED BY <4>1 DEF FiledInv
    <3> QED BY <1>5, <3>1, <3>2
  <2>3. Filed(bugs, findings, found) /\ found \in Seq(FindingRec) /\ bugs \in Seq(BugReport)
    BY DEF FiledInv, AccountsInv, StatsTyped
  <2>4. Filed(Append(bugs, r), Tail(findings), found)
    BY <1>0, <2>1, <2>2, <2>3, FiledOne
  <2>5. Filed(bugs', findings', found')
    BY <2>1, <2>2, <2>4
  <2> QED BY <2>1, <2>3, <2>5 DEF FiledInv
<1>6. CASE StartShrink
  <2>1. /\ report' = Format(Head(findings)) /\ UNCHANGED <<findings, bugs, found>>
    BY <1>6 DEF StartShrink, ghostVars
  <2>2. /\ report'.kind = Head(findings).kind
        /\ report'.severity = SeverityOf(Head(findings))
    BY <2>1 DEF Format
  <2> QED BY <2>1, <2>2 DEF FiledInv, Filed
<1>7. CASE Panic
  BY <1>k, <1>7, PanicEnds DEF Panic, SendPanics, RecvPanics, ShrinkPanics, bugVars,
       ghostVars
<1>8. CASE Environment
  <2>1. UNCHANGED <<pc, bugVars, ghostVars>>
    BY <1>8 DEF Environment, CtrlC, DurationPasses, Tick, PeerSends, PeerAnswers,
                PeerAnnounces, PeerLeaves, sessionVars
  <2> QED BY <2>1 DEF FiledInv, Filed, bugVars, ghostVars
<1>9. CASE Done \/ UNCHANGED vars
  BY <1>9 DEF Done, vars, FiledInv, Filed, bugVars, ghostVars
<1> QED BY <1>1, <1>2, <1>3, <1>4, <1>5, <1>6, <1>7, <1>8, <1>9 DEF Next, Session, Panic

\* In runs of any length every finding becomes exactly one bug report, of its
\* kind and severity and in the order found, before the next message is sent:
\* only a panic leaves findings that are never filed.
THEOREM EveryFindingAlwaysFiled == Spec => []EveryFindingIsFiled
<1> DEFINE Inv == ConformingInv /\ VerdictInv /\ CountsAll /\ AccountsInv /\ FiledInv
<1>1. Init => Inv
  <2> SUFFICES ASSUME Init PROVE Inv
    OBVIOUS
  <2>1. ConformingInv /\ VerdictInv
    BY DEF Init, ConformingInv, VerdictInv
  <2>2. /\ found = <<>> /\ bugs = <<>> /\ findings = <<>> /\ pc = "loop"
        /\ Len(<<>>) = 0 /\ <<>> \in Seq(FindingRec)
    BY DEF Init
  <2>3. FiledInv
    BY <2>2 DEF FiledInv, Filed
  <2> QED BY <2>1, <2>3, StatsInit, CountsInit DEF AccountsInv, StatsTyped, StatsInv
<1>2. Inv /\ [Next]_vars => Inv'
  BY ConformingStep, VerdictStep, CountsStep, AccountsStep, FiledStep DEF CountsAll
<1>3. Inv => EveryFindingIsFiled
  <2> SUFFICES ASSUME VerdictInv, CountsAll, AccountsInv, FiledInv
               PROVE  EveryFindingIsFiled
    OBVIOUS
  <2>1. bugs \in Seq(BugReport) /\ DOMAIN bugs = 1..Len(bugs)
    BY DEF AccountsInv, StatsTyped
  <2>2. DOMAIN findings = 1..Len(findings)
    BY DEF CountsAll, CountInv
  <2> QED BY <2>1, <2>2 DEF FiledInv, Filed, VerdictInv, EveryFindingIsFiled
<1> QED BY <1>1, <1>2, <1>3, PTL DEF Spec

-----------------------------------------------------------------------------
(* The types.  What the invariants above leave open is the control, the     *)
(* bounds of the queues, and that no answer overfills the receive buffer.   *)

ControlInv ==
  /\ pc \in {"loop", "connecting", "hs_open", "hs_keepalive", "send", "write",
             "read", "report", "shrinking", "done", "panicked"}
  /\ attempt \in 0..(MaxAttempts - 1)
  /\ shutdown \in BOOLEAN /\ elapsed \in BOOLEAN /\ conforming \in BOOLEAN
  /\ clock \in 0..MaxClock

LEMMA ControlStep == ControlInv /\ TrafficInv /\ [Next]_vars => ControlInv'
<1> SUFFICES ASSUME ControlInv, TrafficInv, [Next]_vars PROVE ControlInv'
  OBVIOUS
<1>0. /\ setup' = setup /\ conforming' = conforming
      /\ MaxAttempts \in Nat \ {0} /\ MaxClock \in Nat /\ MaxClock' = MaxClock
  BY SetupStep, ConformingStays, FuzzSessionAssumption DEF MaxClock, TrafficInv
<1> USE <1>0 DEF ControlInv, flagVars, fixedVars
<1>1. CASE Iterate \/ Finish \/ Connected
  BY <1>1 DEF Iterate, Finish, Connected
<1>2. CASE Refused
  BY <1>2 DEF Refused
<1>3. CASE ReadOpen \/ ReadKeepalive \/ EndSession \/ WriteFails \/ Take
  BY <1>3 DEF ReadOpen, ReadKeepalive, EndSession, WriteFails, Disconnect, DropStream,
              Take
<1>4. CASE Written
  <2>1. pc' = "read" /\ UNCHANGED <<attempt, shutdown, elapsed, clock>>
    BY <1>4 DEF Written
  <2> QED BY <2>1
<1>5. CASE ReadData \/ ReadNothing
  <2>1. /\ pc' \in {"send", "report"}
        /\ UNCHANGED <<attempt, shutdown, elapsed, clock>>
    BY <1>5 DEF ReadData, ReadNothing, Judge
  <2> QED BY <2>1
<1>6. CASE Report \/ EndShrink
  <2>1. /\ pc' \in {"send", "report"}
        /\ UNCHANGED <<attempt, shutdown, elapsed, clock>>
    BY <1>6 DEF Report, EndShrink, File
  <2> QED BY <2>1
<1>7. CASE StartShrink \/ Panic
  BY <1>7 DEF StartShrink, Panic, SendPanics, RecvPanics, ShrinkPanics, Unwind
<1>8. CASE CtrlC \/ DurationPasses
  <2>1. /\ UNCHANGED <<pc, attempt, clock>>
        /\ shutdown' \in BOOLEAN /\ elapsed' \in BOOLEAN
    BY <1>8 DEF CtrlC, DurationPasses, sessionVars
  <2> QED BY <2>1
<1>9. CASE Tick
  <2>1. UNCHANGED <<pc, attempt, shutdown, elapsed>> /\ clock' \in 0..MaxClock
    BY <1>9 DEF Tick, sessionVars
  <2> QED BY <2>1
<1>10. CASE PeerSends \/ PeerAnswers \/ PeerAnnounces \/ PeerLeaves
  <2>1. UNCHANGED <<pc, attempt, shutdown, elapsed, clock>>
    BY <1>10 DEF PeerSends, PeerAnswers, PeerAnnounces, PeerLeaves, sessionVars
  <2> QED BY <2>1
<1>11. CASE Done \/ UNCHANGED vars
  BY <1>11 DEF Done, vars
<1> QED BY <1>1, <1>2, <1>3, <1>4, <1>5, <1>6, <1>7, <1>8, <1>9, <1>10, <1>11
        DEF Next, Session, Environment, Panic

\* run_session's batch and what the oracles keep.
QueuesInv ==
  /\ Len(batch) <= MaxBatch
  /\ Len(triggers) <= Len(Scenarios)
  /\ Len(pending) <= 1
  /\ samples \in 0..WindowSize

LEMMA QueuesStep == QueuesInv /\ TrafficInv /\ [Next]_vars => QueuesInv'
<1> SUFFICES ASSUME QueuesInv, TrafficInv, [Next]_vars PROVE QueuesInv'
  OBVIOUS
<1>0. /\ setup \in Setups /\ batch \in Seq(Generated) /\ triggers \in Seq(AnyScenario)
      /\ WindowSize \in Nat /\ MaxBatch \in Nat /\ Len(Scenarios) = 8 /\ Len(<<>>) = 0
  BY FuzzSessionAssumption, ScenariosTyped DEF TrafficInv
<1> USE <1>0 DEF QueuesInv, oracleVars
<1>1. CASE Iterate \/ Finish \/ Connected \/ Refused \/ ReadOpen
  BY <1>1 DEF Iterate, Finish, Connected, Refused, ReadOpen
<1>2. CASE ReadKeepalive
  <2>1. batch' \in setup.batches /\ UNCHANGED <<triggers, pending, samples>>
    BY <1>2 DEF ReadKeepalive, Batches
  <2>2. PICK n \in 1..MaxBatch : batch' = [k \in 1..n |-> batch'[k]]
    BY <2>1, FuzzSessionAssumption DEF IsBatch
  <2>3. Len(batch') = n
    BY <2>2
  <2> QED BY <2>1, <2>3
<1>3. CASE EndSession \/ WriteFails
  BY <1>3 DEF EndSession, WriteFails, Disconnect, DropStream
<1>4. CASE Take
  <2>1. batch' = Tail(batch) /\ batch # <<>> /\ samples' = samples
    BY <1>4 DEF Take, StopBatch
  <2>2. Len(batch') <= MaxBatch
    BY <2>1
  <2>3. CASE Inject
    <3>0. Queue = triggers \/ Queue = Scenarios
      BY Zenon DEF Queue
    <3>1. Queue \in Seq(AnyScenario) /\ Queue # <<>> /\ Len(Queue) <= 8
      <4>1. Len(triggers) <= 8 /\ 8 <= 8
        OBVIOUS
      <4> QED BY <1>0, <3>0, <4>1, QueueTyped, Zenon
    <3>2. pending' = <<Head(Queue)>> /\ triggers' = Tail(Queue)
      BY <2>3 DEF Inject, SetPending, PopTrigger
    <3>3. Len(triggers') <= 8 /\ Len(pending') = 1
      BY <3>1, <3>2
    <3> QED BY <2>1, <2>2, <3>3
  <2>4. CASE UseGenerated
    BY <2>1, <2>2, <2>4 DEF UseGenerated
  <2> QED BY <1>4, <2>3, <2>4 DEF Take
<1>5. CASE Written
  BY <1>5 DEF Written
<1>6. CASE ReadData \/ ReadNothing
  <2>1. PICK x, last : PanelUpdate(x, last)
    BY <1>6 DEF ReadData, ReadNothing, Judge
  <2>2. pending' = <<>> /\ triggers' = triggers /\ batch' = batch
    BY <1>6, <2>1 DEF PanelUpdate, ReadData, ReadNothing
  <2>3. samples' \in 0..WindowSize
    BY <2>1 DEF PanelUpdate, LatencyWindow
  <2> QED BY <2>2, <2>3
<1>7. CASE Report \/ StartShrink \/ EndShrink
  BY <1>7 DEF Report, StartShrink, EndShrink
<1>10. CASE Panic
  <2>1. batch' = <<>> /\ UNCHANGED <<triggers, pending, samples>>
    BY <1>10 DEF Panic, SendPanics, RecvPanics, ShrinkPanics, Unwind, DropStream
  <2> QED BY <2>1
<1>8. CASE Environment
  BY <1>8 DEF Environment, CtrlC, DurationPasses, Tick, PeerSends, PeerAnswers,
              PeerAnnounces, PeerLeaves, sessionVars
<1>9. CASE Done \/ UNCHANGED vars
  BY <1>9 DEF Done, vars
<1> QED BY <1>1, <1>2, <1>3, <1>4, <1>5, <1>6, <1>7, <1>8, <1>9, <1>10
        DEF Next, Session, Panic

\* The connection, the receive buffer and what has been put on the wire.
LinkInv ==
  /\ link \in {"none", "up", "fin", "rst", "lost"}
  /\ Len(inbox) <= MaxInbox + 1
  /\ wire \in Seq(AnyMessage)
  /\ answered \in 0..Len(wire)

\* A peer that conforms has room for its answer.
LEMMA AnswerFits ==
  ASSUME LinkInv, ConformingInv, TrafficInv, PeerAnswers, setup' = setup
  PROVE  Len(inbox') <= MaxInbox + 1
<1>0. /\ MaxInbox \in Nat \ {0} /\ inbox \in Seq(AnyMessage) /\ Len(inbox) \in Nat
      /\ conforming
  BY FuzzSessionAssumption DEF TrafficInv, PeerAnswers
<1>1. CASE Len(inbox') = 2
  BY <1>0, <1>1
<1>2. CASE inbox' = inbox
  BY <1>2 DEF LinkInv
<1>3. CASE Unanswered /\ \E i \in 1..8 :
                            inbox' = Append(inbox, Notification(Scenarios[i].expected))
  <2>1. Len(inbox) <= MaxInbox
    BY <1>3 DEF Unanswered
  <2>2. \A a : Len(Append(inbox, a)) = Len(inbox) + 1
    BY <1>0
  <2> QED BY <1>0, <1>3, <2>1, <2>2
<1> QED BY <1>0, <1>1, <1>2, <1>3, PeerComesToIt

LEMMA LinkStep ==
  LinkInv /\ ConformingInv /\ TrafficInv /\ [Next]_vars => LinkInv'
<1> SUFFICES ASSUME LinkInv, ConformingInv, TrafficInv, [Next]_vars
             PROVE  LinkInv'
  OBVIOUS
<1>0. /\ MaxInbox \in Nat \ {0} /\ inbox \in Seq(AnyMessage) /\ sent \in AnyMessage
      /\ HandshakeOpen \in AnyMessage /\ HandshakeKeepalive \in AnyMessage
      /\ Len(<<>>) = 0
  BY FuzzSessionAssumption DEF TrafficInv, AnyMessage
<1>h. ASSUME HandshakeRead PROVE Len(inbox') <= MaxInbox + 1
  <2>1. ASSUME NEW n \in 1..Len(inbox), ReadSome(n)
        PROVE  Len(inbox') <= Len(inbox)
    BY <1>0, <2>1 DEF ReadSome
  <2>2. Len(inbox') \in Nat
    BY TrafficStep DEF TrafficInv
  <2> QED BY <1>0, <1>h, <2>1, <2>2 DEF HandshakeRead, LinkInv
<1> USE <1>0 DEF LinkInv, peerVars
<1>1. CASE Iterate \/ Finish \/ Refused \/ Take
  BY <1>1 DEF Iterate, Finish, Refused, Take
<1>2. CASE Connected
  <2>1. link' = "up" /\ inbox' = <<>> /\ wire' = <<HandshakeOpen>> /\ answered' = 0
    BY <1>2 DEF Connected
  <2> QED BY <2>1
<1>3. CASE ReadOpen
  <2>1. /\ UNCHANGED <<link, answered>> /\ HandshakeRead
        /\ wire' = wire \/ wire' = Append(wire, HandshakeKeepalive)
    BY <1>3 DEF ReadOpen
  <2>2. wire' \in Seq(AnyMessage) /\ answered \in 0..Len(wire')
    BY <2>1
  <2> QED BY <1>h, <2>1, <2>2
<1>4. CASE ReadKeepalive
  BY <1>4, <1>h DEF ReadKeepalive
<1>5. CASE EndSession \/ WriteFails \/ Panic
  <2>1. link' = "none" /\ inbox' = <<>> /\ wire' = <<>> /\ answered' = 0
    BY <1>5 DEF EndSession, WriteFails, Disconnect, DropStream, Panic, SendPanics,
                RecvPanics, ShrinkPanics, Unwind
  <2>2. 0 <= MaxInbox + 1 /\ <<>> \in Seq(AnyMessage) /\ 0 \in 0..Len(<<>>)
    OBVIOUS
  <2> QED BY <2>1, <2>2
<1>6. CASE Written
  <2>1. UNCHANGED <<link, inbox, answered>> /\ wire' = Append(wire, sent)
    BY <1>6 DEF Written
  <2>2. wire' \in Seq(AnyMessage) /\ answered \in 0..Len(wire')
    BY <2>1
  <2> QED BY <2>1, <2>2
<1>7. CASE ReadData
  <2>1. HandshakeRead /\ UNCHANGED <<link, wire, answered>>
    BY <1>7 DEF ReadData, HandshakeRead
  <2> QED BY <1>h, <2>1
<1>8. CASE ReadNothing \/ Report \/ StartShrink \/ EndShrink
  BY <1>8 DEF ReadNothing, Report, StartShrink, EndShrink
<1>9. CASE CtrlC \/ DurationPasses \/ Tick
  BY <1>9 DEF CtrlC, DurationPasses, Tick
<1>10. CASE PeerSends \/ PeerAnnounces
  <2>1. PICK m : inbox' = Append(inbox, m) /\ Len(inbox) < MaxInbox
    BY <1>10 DEF PeerSends, PeerAnnounces
  <2>2. UNCHANGED <<link, wire, answered>>
    BY <1>10 DEF PeerSends, PeerAnnounces
  <2>3. Len(inbox') <= MaxInbox + 1
    BY <2>1
  <2> QED BY <2>2, <2>3
<1>11. CASE PeerAnswers
  <2>1. /\ answered < Len(wire) /\ answered' = answered + 1 /\ wire' = wire
        /\ link = "up" /\ link' \in {link, "fin"}
    BY <1>11 DEF PeerAnswers
  <2>2. answered' \in 0..Len(wire')
    BY <2>1
  <2>3. Len(inbox') <= MaxInbox + 1
    BY <1>11, SetupStep, AnswerFits
  <2> QED BY <2>1, <2>2, <2>3
<1>12. CASE PeerLeaves
  BY <1>12 DEF PeerLeaves
<1>13. CASE Done \/ UNCHANGED vars
  BY <1>13 DEF Done, vars
<1> QED BY <1>1, <1>2, <1>3, <1>4, <1>5, <1>6, <1>7, <1>8, <1>9, <1>10, <1>11,
           <1>12, <1>13 DEF Next, Session, Environment, Panic

\* Every variable keeps its type in runs of any length, against any peer: the
\* control is always at a named await, a list of findings holds findings only,
\* and the queues stay within their bounds.
THEOREM TypeCorrect == Spec => []TypeOK
<1> DEFINE Inv == /\ ConformingInv /\ VerdictInv /\ CountsAll /\ AccountsInv
                  /\ ControlInv /\ QueuesInv /\ LinkInv /\ LateInv
<1>1. Init => Inv
  <2> SUFFICES ASSUME Init PROVE Inv
    OBVIOUS
  <2>1. CountsAll
    BY CountsInit
  <2>2. MaxClock \in Nat /\ MaxAttempts \in Nat \ {0} /\ WindowSize \in Nat
        /\ MaxBatch \in Nat /\ MaxInbox \in Nat /\ Len(Scenarios) = 8 /\ Len(<<>>) = 0
    BY <2>1, FuzzSessionAssumption, ScenariosTyped DEF CountsAll, TrafficInv, MaxClock
  <2>3. ControlInv
    <3>1. 0 \in 0..(MaxAttempts - 1) /\ 0 \in 0..MaxClock /\ 0 \in Nat
      BY <2>2
    <3>2. /\ pc = "loop" /\ attempt = 0 /\ clock = 0
          /\ shutdown \in BOOLEAN /\ elapsed \in BOOLEAN /\ conforming \in BOOLEAN
      BY DEF Init
    <3> QED BY <3>1, <3>2 DEF ControlInv
  <2>4. QueuesInv
    BY <2>2 DEF Init, QueuesInv
  <2>5. LinkInv
    BY <2>2 DEF Init, LinkInv
  <2>6. ConformingInv /\ VerdictInv
    BY DEF Init, ConformingInv, VerdictInv
  <2>7. AccountsInv
    BY StatsInit DEF AccountsInv, StatsTyped, StatsInv
  <2>8. LateInv
    BY DEF Init, LateInv
  <2> QED BY <2>1, <2>3, <2>4, <2>5, <2>6, <2>7, <2>8
<1>2. Inv /\ [Next]_vars => Inv'
  BY ConformingStep, VerdictStep, CountsStep, AccountsStep, ControlStep, QueuesStep,
     LinkStep, LateStep DEF CountsAll
<1>3. Inv => TypeOK
  <2> SUFFICES ASSUME CountsAll, AccountsInv, ControlInv, QueuesInv, LinkInv, LateInv
               PROVE  TypeOK
    OBVIOUS
  <2>1. DriverTypeOK /\ Len(echo) <= 1
    BY DEF CountsAll, IdleInv, DriverTypeOK, State
  <2>2. setup \in Setups /\ IsMessage(sent)
    BY AnyIsMessage DEF CountsAll, TrafficInv
  <2>3. consecutive \in Nat /\ \A i \in DOMAIN findings : findings[i].kind \in FindingKind
    <3>1. /\ consecutive \in 0..Len(exchanges) /\ Len(exchanges) \in Nat
          /\ findings \in Seq(CountedFinding(consecutive))
      BY DEF CountsAll, CountInv
    <3>2. \A f \in CountedFinding(consecutive) : f.kind \in FindingKind
      BY DEF CountedFinding, FindingRec
    <3> QED BY <3>1, <3>2
  <2>4. /\ stats \in [DOMAIN NoStats -> Nat] /\ report \in BugReport
        /\ \A i \in DOMAIN bugs : bugs[i] \in BugReport
    BY DEF AccountsInv, StatsTyped
  <2>5. Len(late) <= 2
    <3>1. \A m, n : /\ Len(<<>>) <= 2 /\ Len(<<m>>) <= 2 /\ Len(<<m, n>>) <= 2
      OBVIOUS
    <3>2. \/ late = <<>> \/ late = <<HandshakeOpen, HandshakeKeepalive>>
          \/ \E m : late = <<m>>
      BY Zenon DEF LateInv
    <3> QED BY <3>1, <3>2, Zenon
  <2> QED BY <2>1, <2>2, <2>3, <2>4, <2>5 DEF TypeOK, ControlInv, QueuesInv, LinkInv
<1> QED BY <1>1, <1>2, <1>3, PTL DEF Spec
=============================================================================
