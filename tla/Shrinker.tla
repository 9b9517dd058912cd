------------------------------ MODULE Shrinker ------------------------------
(***************************************************************************)
(* Shrinker::shrink of bgp-fuzz-driver: delta debugging of the recorded    *)
(* sequence (Ddmin), then message after message the removal of its         *)
(* structure and of its tail, every candidate replayed by the verifier     *)
(* with the messages already shrunk before it and the recorded ones after. *)
(*                                                                         *)
(* The bytes of a message are what they decode to, the bytes at the end    *)
(* that decoding loses, how many were cut off and whether the fixed fields *)
(* are the minimal message's.  An action is one call of verify, or the     *)
(* code between two loops.                                                 *)
(***************************************************************************)
EXTENDS Ddmin, Wire

CONSTANTS
  Recordings,    \* bound: the recordings and targets that are tried
  Needs          \* what the bug may need of the messages in core

VARIABLES
  recorded,   \* the bytes of each recorded message
  need,       \* what the bug needs of them
  at,         \* the loop shrink is in
  shrunk,     \* the messages done, by their place in best
  kept,       \* the bytes kept of the message at hand
  parsed,     \* the decoded message the structured passes work on
  j,          \* the attributes still to try
  overtime,   \* total_timeout has passed since shrink started
  accepted    \* history: the candidates of this message that still failed

messageVars == <<at, shrunk, kept, parsed, j, accepted>>
svars == <<vars, recorded, need, messageVars, overtime>>

Bytes(m, extra) == [msg |-> m, extra |-> extra, cut |-> 0, minimal |-> FALSE]
NoBytes == Bytes(Blank, 0)

BytesSize(b) == Size(b.msg) + b.extra - b.cut

Parameters == [type : Nat, size : Nat]

Attributes == [code : Nat, flags : SUBSET {"optional", "transitive", "partial", "extended"},
               size : Nat]

Messages ==
  [kind : {"OPEN", "UPDATE", "NOTIFICATION", "KEEPALIVE", "ROUTE-REFRESH", "RAW"},
   params : Seq(Parameters), withdrawn : Seq(Nat), attrs : Seq(Attributes),
   nlri : Seq(Nat), data : Nat]

\* Recorded bytes: what an encoder wrote, so that every attribute has the bytes its
\* type wants and every length field says what it should, and bytes behind it.  What
\* the decoder would misread without refusing it is left out: Decode is not defined
\* on it.
Recordable(b) ==
  /\ b = Bytes(b.msg, b.extra)
  /\ b.msg \in Messages /\ b.extra \in Nat
  /\ \A k \in DOMAIN b.msg.attrs : b.msg.attrs[k].size >= Least(b.msg.attrs[k])
  /\ \A field \in LengthFields(b.msg) : field[1] = field[2]
  /\ Garbled(b.msg) => Refused(b.msg)

ASSUME ShrinkerAssumption ==
  /\ Needs \subseteq {"presence", "values", "attributes", "all but one"}
  /\ \A r \in Recordings :
       /\ Len(r.messages) <= MaxMessages
       /\ r.flaky \in BOOLEAN
       /\ \A k \in DOMAIN r.messages : Recordable(r.messages[k])

-----------------------------------------------------------------------------
\* The message under the loop, and what was recorded after it.
Place == Len(shrunk) + 1
Current == recorded[best[Place]]
Suffix == [k \in 1..(Len(best) - Place) |-> recorded[best[Place + k]]]

-----------------------------------------------------------------------------
(* The target *)

\* What delta debugging left, as it was recorded.
RecordedSequence == [k \in DOMAIN best |-> recorded[best[k]]]

CodesOf(b) == {a.code : a \in ToSet(b.msg.attrs)}

\* Whether a target that always answers the same fails on seq, which has a
\* message for each place of best: the bug needs something of those in core.
Fails(seq) ==
  LET places == {k \in DOMAIN best : best[k] \in core}
  IN  CASE need = "presence" -> TRUE
        [] need = "values" -> \A k \in places : ~seq[k].minimal /\ seq[k].cut = 0
        [] need = "attributes" ->
             \A k \in places : CodesOf(RecordedSequence[k]) \ (0..13) \subseteq CodesOf(seq[k])
        [] need = "all but one" ->
             \A k, l \in places :
               seq[k] # RecordedSequence[k] /\ seq[l] # RecordedSequence[l] => k = l

StaleSequence(b) ==      \* slip: the recorded messages go before the candidate
  [k \in 1..(Place - 1) |-> recorded[best[k]]] \o <<b>> \o Suffix

\* test_candidate's sequence.
Sequence(b) == shrunk \o <<b>> \o Suffix

Answers(b) == IF flaky THEN BOOLEAN ELSE {Fails(Sequence(b))}

-----------------------------------------------------------------------------
(* Candidates *)

\* What encoding a decoded message gives.
Encoded(b) == Bytes(b.msg, 0)

\* msg without the last element of a list.
Pop(b, list) ==
  IF list = "data" THEN [b EXCEPT !.msg.data = @ - 1]
  ELSE [b EXCEPT !.msg[list] = Front(@)]

Empty(b, list) == IF list = "data" THEN b.msg.data = 0 ELSE b.msg[list] = <<>>

Reappended(b, place) ==       \* slip: the attribute is put back at the end
  [b EXCEPT !.msg.attrs = Append(RemoveAt(@, place), @[place])]

\* An attribute that must stay is put back where it was.
PutBack(b, place) == b

MinimalWithRoute ==           \* slip: the minimal UPDATE announces a route
  Update(<<>>, <<Attribute(Origin, 1), Attribute(AsPath, 0), Attribute(NextHop, 4)>>, <<8>>)

MinimalUpdate ==
  Update(<<>>, <<Attribute(Origin, 1), Attribute(AsPath, 0), Attribute(NextHop, 4)>>, <<>>)

MinimalOpen == Open(<<>>)

Minimal(b) ==
  [Bytes(IF b.msg.kind = "UPDATE" THEN MinimalUpdate ELSE MinimalOpen, 0)
     EXCEPT !.minimal = TRUE]

-----------------------------------------------------------------------------
ShrinkInit ==
  /\ Init
  /\ \E r \in Recordings :
       /\ recorded = r.messages
       /\ original = DOMAIN r.messages
       /\ flaky = r.flaky
  /\ need \in IF flaky THEN {"presence"} ELSE Needs
  /\ at = "ddmin"
  /\ shrunk = <<>> /\ kept = NoBytes /\ parsed = NoBytes /\ j = 0
  /\ accepted = {}
  /\ overtime = FALSE

\* delta_debug_sequence
DdminStep ==
  /\ at = "ddmin" /\ Loop
  /\ UNCHANGED <<recorded, need, messageVars, overtime>>

DdminReturns ==
  /\ at = "ddmin" /\ pc = "done"
  /\ at' = "next"
  /\ UNCHANGED <<vars, recorded, need, shrunk, kept, parsed, j, accepted, overtime>>

\* A message is tried only while there is time, and is kept as it is after.
KeepTheRest ==
  /\ at = "next" /\ Place <= Len(best) /\ overtime
  /\ shrunk' = Append(shrunk, Current)
  /\ UNCHANGED <<vars, recorded, need, at, kept, parsed, j, accepted, overtime>>

\* The pass a decoded message starts with.
FirstPass(m) ==
  CASE m.kind = "UPDATE" -> "attrs"
    [] m.kind = "OPEN" -> "params"
    [] m.kind = "NOTIFICATION" -> "data"
    [] OTHER -> "final"

\* shrink_message: the head of it, up to the pass for its kind.
BeginMessage ==
  /\ at = "next" /\ Place <= Len(best) /\ ~overtime
  /\ kept' = Current /\ accepted' = {}
  /\ IF Refused(Current.msg)
     THEN at' = "tail" /\ UNCHANGED <<parsed, j>>
     ELSE LET m == Decode(Current.msg, 0).message
          IN  /\ parsed' = Encoded([msg |-> m])
              /\ j' = Len(m.attrs)
              /\ at' = FirstPass(m)
  /\ UNCHANGED <<vars, recorded, need, shrunk, overtime>>

\* One test_candidate: b is the candidate, then what follows if it still fails
\* and if it does not.
Test(b, Then, Otherwise) ==
  \E answer \in Answers(b) :
    IF answer THEN Then /\ accepted' = accepted \cup {b}
              ELSE Otherwise /\ UNCHANGED accepted

\* shrink_update's first loop, from the last attribute to the first.
TryAttribute ==
  /\ at = "attrs" /\ j > 0
  /\ IF parsed.msg.attrs[j].code <= 3
     THEN UNCHANGED <<parsed, accepted>>
     ELSE LET without == [parsed EXCEPT !.msg.attrs = RemoveAt(@, j)]
          IN  Test(without, parsed' = without, parsed' = PutBack(parsed, j))
  /\ j' = j - 1
  /\ UNCHANGED <<vars, recorded, need, at, shrunk, kept, overtime>>

AttributesDone ==
  /\ at = "attrs" /\ j = 0
  /\ at' = "nlri"
  /\ UNCHANGED <<vars, recorded, need, shrunk, kept, parsed, j, accepted, overtime>>

\* The pass after the one that pops a list.
PassAfter(list) ==
  CASE list = "nlri" -> "withdrawn"
    [] list \in {"withdrawn", "params"} -> "minimal"
    [] list = "data" -> "final"

\* The while loops that pop: a list is shortened until that goes too far.
PopLast ==
  /\ at \in {"nlri", "withdrawn", "params", "data"}
  /\ IF Empty(parsed, at)
     THEN at' = PassAfter(at) /\ UNCHANGED <<parsed, accepted>>
     ELSE LET popped == Pop(parsed, at)
          IN  Test(popped, parsed' = popped /\ UNCHANGED at,
                           at' = PassAfter(at) /\ UNCHANGED parsed)
  /\ UNCHANGED <<vars, recorded, need, shrunk, kept, j, overtime>>

TryMinimal ==
  /\ at = "minimal"
  /\ Test(Minimal(parsed), parsed' = Minimal(parsed), UNCHANGED parsed)
  /\ at' = "final"
  /\ UNCHANGED <<vars, recorded, need, shrunk, kept, j, overtime>>

UntestedFinal ==        \* slip: the last encoding is taken as verified
  /\ at = "final"
  /\ kept' = parsed
  /\ at' = "tail"
  /\ UNCHANGED <<vars, recorded, need, shrunk, parsed, j, accepted, overtime>>

\* shrink_structured's end: the encoding of what is left is verified once more.
TryFinal ==
  /\ at = "final"
  /\ IF parsed = Current
     THEN UNCHANGED <<kept, accepted>>
     ELSE Test(parsed, kept' = parsed, UNCHANGED kept)
  /\ at' = "tail"
  /\ UNCHANGED <<vars, recorded, need, shrunk, parsed, j, overtime>>

\* shrink_bytes_tail
TryTail ==
  /\ at = "tail" /\ BytesSize(kept) > HeaderLen
  /\ LET shorter == [kept EXCEPT !.cut = @ + 1]
     IN  Test(shorter, kept' = shorter /\ UNCHANGED <<at, shrunk>>,
                       at' = "next" /\ shrunk' = Append(shrunk, kept) /\ UNCHANGED kept)
  /\ UNCHANGED <<vars, recorded, need, parsed, j, overtime>>

TailDone ==
  /\ at = "tail" /\ BytesSize(kept) <= HeaderLen
  /\ at' = "next" /\ shrunk' = Append(shrunk, kept)
  /\ UNCHANGED <<vars, recorded, need, kept, parsed, j, accepted, overtime>>

Return ==
  /\ at = "next" /\ Place > Len(best)
  /\ at' = "returned"
  /\ UNCHANGED <<vars, recorded, need, shrunk, kept, parsed, j, accepted, overtime>>

Shrink ==
  \/ DdminStep \/ DdminReturns \/ KeepTheRest \/ BeginMessage
  \/ TryAttribute \/ AttributesDone \/ PopLast \/ TryMinimal \/ TryFinal
  \/ TryTail \/ TailDone \/ Return

\* The clock of shrink starts before the one of delta debugging.
Overtime ==
  /\ ~overtime
  /\ overtime' = TRUE
  /\ UNCHANGED <<vars, recorded, need, messageVars>>

DdminTimeOut ==
  /\ overtime /\ at = "ddmin" /\ TimeOut
  /\ UNCHANGED <<recorded, need, messageVars, overtime>>

ShrinkNext == Shrink \/ Overtime \/ DdminTimeOut

\* verify returns, so the loops keep going; neither clock has to run out.
ShrinkSpec == ShrinkInit /\ [][ShrinkNext]_svars /\ WF_svars(Shrink)
-----------------------------------------------------------------------------
(* Properties *)

Passes == {"attrs", "nlri", "withdrawn", "params", "data", "minimal", "final"}

\* Only a whole number of messages is ever done, and none before delta debugging
\* is; the passes over a message are the ones of its kind.
ShrinkerTypeOK ==
  /\ TypeOK
  /\ at \in {"ddmin", "next", "tail", "returned"} \cup Passes
  /\ Len(shrunk) <= Len(best)
  /\ at = "ddmin" => shrunk = <<>>
  /\ at \in Passes => parsed.extra = 0 /\ parsed.cut = 0
  /\ at \in {"attrs", "nlri", "withdrawn"} => parsed.msg.kind = "UPDATE" /\ j <= Len(parsed.msg.attrs)
  /\ at = "params" => parsed.msg.kind = "OPEN"
  /\ at = "data" => parsed.msg.kind = "NOTIFICATION"
  /\ timed_out => overtime

\* If the target always answers the same, what shrink returns still fails: as a
\* whole, though each message was shrunk next to messages that changed since, and
\* also when the time ran out half-way.
ResultStillFails ==
  at = "returned" /\ ~flaky =>
    /\ Len(shrunk) = Len(best)
    /\ core \subseteq Positions(best)
    /\ Fails(shrunk)

\* However the target answers, a message goes into the result only as it was
\* recorded or as one of the very bytes the verifier was seen to accept in its
\* place: re-encoding alone already loses flags and trailing bytes.
VerifiedBeforeKept ==
  [][shrunk' # shrunk => shrunk'[Place] \in accepted \cup {Current}]_svars

\* Shrinking makes no message longer, except for an UPDATE that becomes the
\* minimal one, which has 37 bytes even if fewer were recorded.
GrowsOnlyToMinimal ==
  \A k \in DOMAIN shrunk :
    BytesSize(shrunk[k]) > BytesSize(RecordedSequence[k]) =>
      shrunk[k].minimal /\ BytesSize(shrunk[k]) <= 37

\* Removing attributes from the last to the first, putting back those that must
\* stay, keeps the recorded order and every ORIGIN, AS_PATH and NEXT_HOP: places
\* are those of the attributes left among all.
AttributesInOrder ==
  at \in Passes /\ parsed.msg.kind = "UPDATE" /\ ~parsed.minimal =>
    LET all == Decode(Current.msg, 0).message.attrs
        some == parsed.msg.attrs
    IN  \E places \in [DOMAIN some -> DOMAIN all] :
          /\ \A k, l \in DOMAIN some : k < l => places[k] < places[l]
          /\ \A k \in DOMAIN some : some[k] = all[places[k]]
          /\ \A l \in DOMAIN all : all[l].code <= 3 => \E k \in DOMAIN some : places[k] = l

\* shrink returns, whatever the target answers and even if total_timeout never
\* passes, unless delta debugging panics.
ShrinkEnds == <>(at = "returned" \/ pc = "panicked")
=============================================================================
