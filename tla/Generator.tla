----------------------------- MODULE Generator -----------------------------
(***************************************************************************)
(* bgp-fuzz-gen: one message of a batch, from the choice of a layer to the *)
(* bytes the session sends and what BgpMessage::decode, which the driver's *)
(* classify_message calls on them, does with them.                         *)
(***************************************************************************)
EXTENDS Wire

CONSTANTS
  GrammarMessages,   \* bound: the messages of the grammar that are tried
  RawSizes,          \* bound: the sizes of raw messages that are tried
  MutatorLists       \* bound: the values of GeneratorConfig::semantic_mutators

VARIABLES
  strategy,    \* --strategy of the command line
  mutators,    \* semantic_mutators
  stage,       \* "idle", "semantic", "bytes", "sent" or "classified"
  layer,       \* the layer that makes the message
  message,     \* the decoded message, or Opaque
  todo,        \* the semantic mutators still to apply
  size,        \* of the bytes
  left,        \* byte mutations still to apply
  outcome      \* of decoding the bytes

vars == <<strategy, mutators, stage, layer, message, todo, size, left, outcome>>

Opaque == [Blank EXCEPT !.kind = "opaque"]   \* bytes of unknown structure

Structured == message # Opaque

-----------------------------------------------------------------------------
(* The grammar: what each strategy can produce *)

PrefixStrategy == 0..255

\* The values of each attribute the grammar makes, by size: 1..4 path segments
\* (p[1]) of 1..9 ASes each (p[2] in all); a next hop of up to 99 octets and up to
\* 9 prefixes of up to 33 octets.
AttributeStrategy ==
  {Attribute(type, type.least) :
     type \in {Origin, NextHop, MultiExitDisc, LocalPref, AtomicAggregate, Aggregator}} \cup
  {Attribute(AsPath, 2 * p[1] + 4 * p[2]) :
     p \in {q \in (1..4) \X (1..36) : q[2] >= q[1] /\ q[2] <= 9 * q[1]}} \cup
  {Attribute(MpReachNlri, n) : n \in 5..(5 + 99 + 9 * 33)} \cup
  {Attribute(MpUnreachNlri, n) : n \in 3..(3 + 9 * 33)}

ParamStrategy == [type : 0..255, size : 0..15]

InGrammar(m) ==
  \/ /\ m = Open(m.params)
     /\ m.params \in Seq(ParamStrategy) /\ Len(m.params) <= 4
  \/ /\ m = Update(m.withdrawn, m.attrs, m.nlri)
     /\ m.withdrawn \in Seq(PrefixStrategy) /\ Len(m.withdrawn) <= 4
     /\ m.attrs \in Seq(AttributeStrategy) /\ Len(m.attrs) \in 1..5
     /\ m.nlri \in Seq(PrefixStrategy) /\ Len(m.nlri) <= 9
  \/ m = Keepalive
  \/ m = Notification(m.data) /\ m.data \in 0..63

-----------------------------------------------------------------------------
(* The semantic mutators (SelectInSeq is 0 when no element passes) *)

ReorderAttributes(m) ==
  IF Len(m.attrs) < 2 THEN m
  ELSE [m EXCEPT !.attrs = [@ EXCEPT ![1] = m.attrs[2], ![2] = m.attrs[1]]]

FlipAttrFlags(m, index) ==
  IF index \notin DOMAIN m.attrs THEN m
  ELSE [m EXCEPT !.attrs[index].flags = SymDiff(@, {"optional", "transitive"})]

CorruptNlriPrefixLen(m, delta) ==
  [m EXCEPT !.nlri = [k \in DOMAIN @ |-> Max({0, Min({255, @[k] + delta})})]]

InjectAsLoop(m) ==
  LET k == SelectInSeq(m.attrs, LAMBDA a : a.code = 2)
  IN  IF k = 0 THEN m ELSE [m EXCEPT !.attrs[k].size = @ + 6]

SelfReferencingNextHop(m) ==
  LET k == SelectInSeq(m.attrs, LAMBDA a : a.code = 3)
  IN  IF k = 0 THEN m ELSE [m EXCEPT !.attrs[k].size = 4]

DropMandatory(m, code) ==
  LET kept[n \in 0..Len(m.attrs)] ==
        IF n = 0 THEN <<>>
        ELSE IF m.attrs[n].code = code THEN kept[n - 1]
        ELSE Append(kept[n - 1], m.attrs[n])
  IN  [m EXCEPT !.attrs = kept[Len(m.attrs)]]

DuplicateAttribute(m, index) ==
  IF index \notin DOMAIN m.attrs THEN m
  ELSE [m EXCEPT !.attrs = Append(@, m.attrs[index])]

TruncateCapParam(m, code) ==
  LET k == SelectInSeq(m.params, LAMBDA p : p.type = code /\ p.size > 0)
  IN  IF k = 0 THEN m ELSE [m EXCEPT !.params[k].size = @ \div 2]

\* A mutator is its name and its argument (0 when it takes none; an index is
\* counted from 1 here).
SemanticMutators ==
  {"ReorderAttributes", "FlipAttrFlags", "CorruptNlriPrefixLen", "InjectAsLoop",
   "SelfReferencingNextHop", "DropMandatory", "DuplicateAttribute",
   "TruncateCapParam"} \X Int

\* On a message of another kind the lists are empty and every mutator leaves it
\* alone.
Apply(mutator, m) ==
  CASE mutator[1] = "ReorderAttributes" -> ReorderAttributes(m)
    [] mutator[1] = "FlipAttrFlags" -> FlipAttrFlags(m, mutator[2])
    [] mutator[1] = "CorruptNlriPrefixLen" -> CorruptNlriPrefixLen(m, mutator[2])
    [] mutator[1] = "InjectAsLoop" -> InjectAsLoop(m)
    [] mutator[1] = "SelfReferencingNextHop" -> SelfReferencingNextHop(m)
    [] mutator[1] = "DropMandatory" -> DropMandatory(m, mutator[2])
    [] mutator[1] = "DuplicateAttribute" -> DuplicateAttribute(m, mutator[2])
    [] mutator[1] = "TruncateCapParam" -> TruncateCapParam(m, mutator[2])

ASSUME GeneratorAssumption ==
  /\ \A m \in GrammarMessages : InGrammar(m)
  /\ RawSizes \subseteq 19..4096
  /\ MutatorLists \subseteq Seq(SemanticMutators)

-----------------------------------------------------------------------------
(* The layers *)

Strategies == {"grammar", "raw", "mutation", "all"}

\* generator_config_for_strategy: the weights are 1 and 0s, or the defaults.
Layers(s) == IF s = "all" THEN {"grammar", "raw", "mutation"} ELSE {s}

Init ==
  /\ strategy \in Strategies
  /\ mutators \in MutatorLists
  /\ stage = "idle" /\ layer = "none" /\ message = Opaque /\ outcome = "none"
  /\ todo = <<>> /\ size = 0 /\ left = 0

\* generate_grammar_message
GrammarMessage ==
  /\ stage = "idle" /\ "grammar" \in Layers(strategy)
  /\ message' \in GrammarMessages
  /\ size' = Size(message')
  /\ layer' = "grammar" /\ stage' = "sent"
  /\ UNCHANGED <<strategy, mutators, todo, left, outcome>>

\* generate_raw_message
RawMessage ==
  /\ stage = "idle" /\ "raw" \in Layers(strategy)
  /\ size' \in RawSizes
  /\ message' = Opaque
  /\ layer' = "raw" /\ stage' = "sent"
  /\ UNCHANGED <<strategy, mutators, todo, left, outcome>>

InclusiveCounts == 1..5           \* slip: the end of the range is included

\* mutation_count_range is (1, 5) and its end is excluded.
MutationCounts == 1..4

\* generate_mutation_message: two neighbours of the list are applied to the
\* decoded message, or the last one alone; with an empty list, or a message that
\* does not decode, the bytes are mutated as they are.
MutationMessage ==
  /\ stage = "idle" /\ "mutation" \in Layers(strategy)
  /\ \E base \in GrammarMessages :
       /\ size' = Size(base)
       /\ \/ /\ mutators = <<>> \/ Refused(base)
             /\ message' = base /\ todo' = <<>> /\ stage' = "bytes"
             /\ left' \in MutationCounts
          \/ /\ ~Refused(base)
             /\ \E pick \in DOMAIN mutators :
                  todo' = SubSeq(mutators, pick, Min({pick + 1, Len(mutators)}))
             /\ message' = Decode(base, 0).message /\ stage' = "semantic"
             /\ UNCHANGED left
  /\ layer' = "mutation"
  /\ UNCHANGED <<strategy, mutators, outcome>>

ApplyMutator ==
  /\ stage = "semantic" /\ todo # <<>>
  /\ message' = Apply(Head(todo), message)
  /\ todo' = Tail(todo)
  /\ UNCHANGED <<strategy, mutators, stage, layer, size, left, outcome>>

EncodeMutant ==
  /\ stage = "semantic" /\ todo = <<>>
  /\ size' = Size(message)
  /\ stage' = "bytes" /\ left' \in MutationCounts
  /\ UNCHANGED <<strategy, mutators, layer, message, todo, outcome>>

\* What ByteMutator::apply adds to the bytes: nothing when it flips, sets or swaps,
\* 1 when it inserts, 1..7 when it splices, and -1 when it deletes.
Growth == {0, -1} \cup 1..7

ByteMutation ==
  /\ stage = "bytes" /\ left > 0
  /\ \E growth \in Growth : size' = size + growth
  /\ message' = Opaque
  /\ left' = left - 1
  /\ stage' = IF left = 1 THEN "sent" ELSE "bytes"
  /\ UNCHANGED <<strategy, mutators, layer, todo, outcome>>

HeaderLengths == {0, 1, 2, 18, 19, 22, 23, 65535} \* bound: lengths of unknown bytes

\* classify_message on the bytes about to be sent.
Classify ==
  /\ stage = "sent"
  /\ \/ Structured /\ outcome' \in DecodeOutcomes(TypeCode(message), Length(message), size)
     \/ /\ ~Structured
        /\ \E code \in 0..5, length \in HeaderLengths :
             outcome' \in DecodeOutcomes(code, length, size)
  /\ stage' = "classified"
  /\ UNCHANGED <<strategy, mutators, layer, message, todo, size, left>>

\* The next message of the batch; a panic ends the program.
NextMessage ==
  /\ stage = "classified" /\ outcome # "panic"
  /\ stage' = "idle" /\ layer' = "none" /\ message' = Opaque /\ outcome' = "none"
  /\ size' = 0
  /\ UNCHANGED <<strategy, mutators, todo, left>>

Next ==
  \/ GrammarMessage \/ RawMessage \/ MutationMessage
  \/ ApplyMutator \/ EncodeMutant \/ ByteMutation \/ Classify \/ NextMessage

Spec == Init /\ [][Next]_vars
-----------------------------------------------------------------------------
(* Properties *)

\* Whatever layer makes it, a message is never empty and never longer than the
\* 4096 octets of a BGP message, and grammar and raw messages have a header.
TypeOK ==
  /\ strategy \in Strategies /\ mutators \in MutatorLists
  /\ stage \in {"idle", "semantic", "bytes", "sent", "classified"}
  /\ layer \in {"none"} \cup Layers(strategy)
  /\ left \in 0..4
  /\ stage # "idle" => size \in (IF layer = "mutation" THEN 15..4096 ELSE 19..4096)
  /\ outcome \in {"none", "decoded", "refused", "panic"}

\* No length field of an encoded message wraps, after the semantic mutators too:
\* each is the length of what it stands for.
LengthFieldsAgree ==
  Structured => \A f \in LengthFields(message) : f[1] = f[2]

\* Decoding gives back what was encoded and consumes exactly its bytes, unless an
\* attribute was written with two length octets its flags do not announce: then
\* the whole UPDATE is refused.
EncodedMessagesRoundTrip ==
  Structured /\ ~Refused(message) =>
    /\ ~Garbled(message)
    /\ SameMessage(Decode(message, 0).message, message)
    /\ Decode(message, 0).consumed = Size(message)

\* A KEEPALIVE that arrives in the same read changes nothing in the message
\* before it, although the routes of an UPDATE are read to the end of the buffer
\* and not of the message; only a NOTIFICATION takes it for data.
CoalescedKeepaliveIsHarmless ==
  Structured /\ ~Refused(message) /\ message.kind # "NOTIFICATION" =>
    Decode(message, 1) = Decode(message, 0)

\* Only bytes that were never encoded as a message, or were mutated since, can
\* make the decoder panic and end the run.
OnlyBrokenBytesPanic == outcome = "panic" => layer # "grammar"

\* "BgpMessage decode failed for {} bytes": the grammar's own test asserts that
\* every message it encodes decodes.
EveryGrammarMessageDecodes ==
  Structured /\ layer = "grammar" => ~Refused(message)
=============================================================================
