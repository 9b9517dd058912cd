----------------------------- MODULE MCShrinker -----------------------------
EXTENDS Shrinker

Plain(m) == Bytes(m, 0)

\* Attributes with the wrong flags, which re-encoding corrects.
Partial(a) == [a EXCEPT !.flags = @ \cup {"partial"}]
Extended(a) == [a EXCEPT !.flags = @ \cup {"extended"}]

RichUpdate ==
  Update(<<8>>, <<Attribute(MultiExitDisc, 4), Attribute(Origin, 1),
                  Attribute(MpUnreachNlri, 3), Partial(Attribute(AtomicAggregate, 0))>>, <<0, 8>>)

SmallUpdate == Update(<<>>, <<Attribute(AtomicAggregate, 0)>>, <<0>>)

\* Its value is refused by the decoder.
LongUpdate == Update(<<>>, <<Attribute(MpUnreachNlri, 256)>>, <<>>)

Params == <<[type |-> 2, size |-> 0], [type |-> 2, size |-> 1]>>

Alike(n) == [k \in 1..n |-> Plain(Keepalive)]

Recording(messages, flaky_target) == [messages |-> messages, flaky |-> flaky_target]

MCRecordings ==
  {Recording(Alike(n), f) : n \in 0..MaxMessages, f \in BOOLEAN} \cup
  {Recording(<<Plain(m)>>, TRUE) :
     m \in {RichUpdate, SmallUpdate, Open(Params), Notification(2), Raw(2)}} \cup
  {Recording(<<Bytes(Keepalive, 2), Plain(SmallUpdate)>>, TRUE)} \cup
  {Recording(<<Plain(m), Plain(RichUpdate), Bytes(Keepalive, 1)>>, FALSE) :
     m \in {SmallUpdate, Open(Params), Notification(2), RouteRefresh}} \cup
  {Recording(<<Plain(SmallUpdate), Plain(Update(<<>>, <<Extended(Attribute(AsPath, 6)),
                 Partial(Attribute(MpReachNlri, 5))>>, <<>>)), Plain(Notification(1))>>, FALSE),
   Recording(<<Plain(LongUpdate), Plain(Open(<<>>)), Plain(Update(<<>>, <<>>, <<>>))>>, FALSE)}
=============================================================================
