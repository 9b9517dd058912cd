---------------------------- MODULE MCGenerator ----------------------------
(* Boundary messages of the grammar, and lists of semantic mutators. *)
EXTENDS Generator

OpenMessages ==
  {Open(<<>>), Open(<<[type |-> 2, size |-> 0]>>),
   Open(<<[type |-> 2, size |-> 1], [type |-> 2, size |-> 8]>>),
   Open([k \in 1..4 |-> [type |-> 2, size |-> 15]])}

Mandatory == <<Attribute(Origin, 1), Attribute(AsPath, 6), Attribute(NextHop, 4)>>

\* Values of 255 and 256 octets, the longest ones, and one that is refused only
\* for its second length octet.
AttributeLists ==
  {Mandatory, Mandatory \o <<Attribute(AsPath, 152), Attribute(Aggregator, 6)>>,
   <<Attribute(MultiExitDisc, 4), Attribute(LocalPref, 4), Attribute(AtomicAggregate, 0)>>,
   [k \in 1..5 |-> Attribute(MpReachNlri, 401)]} \cup
  {<<Attribute(MpUnreachNlri, n)>> : n \in {3, 255, 256, 300}} \cup
  {<<Attribute(Origin, 1), Attribute(MpReachNlri, n)>> : n \in {5, 255, 256}}

RouteLists == {<<>>, <<0>>, <<8, 9>>, [k \in 1..4 |-> 255]}

UpdateMessages ==
  {Update(w, a, n) : w \in RouteLists, a \in AttributeLists,
                     n \in RouteLists \cup {[k \in 1..9 |-> 255]}}

MCGrammarMessages ==
  OpenMessages \cup UpdateMessages \cup {Keepalive} \cup {Notification(n) : n \in {0, 1, 63}}

MCMutatorLists ==
  {<<>>, <<<<"InjectAsLoop", 0>>>>,
   <<<<"ReorderAttributes", 0>>, <<"FlipAttrFlags", 1>>, <<"DuplicateAttribute", 2>>,
     <<"DropMandatory", 1>>, <<"CorruptNlriPrefixLen", 127>>,
     <<"CorruptNlriPrefixLen", -128>>, <<"SelfReferencingNextHop", 0>>,
     <<"TruncateCapParam", 2>>, <<"InjectAsLoop", 0>>>>}
=============================================================================
