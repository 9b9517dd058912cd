# A TLA+ model of bgp-fuzz

bgp-fuzz is a fuzzer for BGP speakers. It connects to a target over TCP, walks
through the BGP handshake, sends generated or deliberately malformed messages,
and lets a panel of oracles judge what comes back. Findings become bug reports,
optionally shrunk by delta debugging against the live target.

This directory specifies it: the shadow FSM and its driver, the oracles, the
fuzz loop with its connections and its shutdown, the shrinker and the verifier
it replays candidates with, the generator and the wire codec. TLC checks the
modules on small instances; TLAPS proves the most important properties for
every value of the constants.

## 1. Inventory

| Component | State | Operations | Module |
|---|---|---|---|
| shadow FSM, `bgp-fsm` | current state, mutable transition table, three countdown timers | `step`, `tick_seconds`, `set_state`, `add_transition`, `remove_transition`, timer writes through `session_attrs_mut` | `FsmTable`, `ShadowFsm` |
| FSM driver, `bgp-fuzz-driver/fsm_driver.rs` | a shadow FSM and an event log | `on_send`, `on_recv`, `on_timer`, `tick_seconds` | `BgpMessage`, `FsmDriver` |
| oracles, `bgp-fuzz-oracle` | consecutive timeouts, pending echo, RTT window, trigger queue and pending check | `check`, `take_trigger`, `into_report` | `Oracles` |
| fuzz session, `session.rs`, `connection.rs` | shutdown flag, statistics, message history, bugs, connection | `run`, `run_session`, `send_and_recv`, `process_outcome`, `connect_with_retry`, `do_handshake` | `RunLoop`, `FuzzSession` |
| delta debugging, `shrink.rs` | best sequence, granularity, chunk index | `delta_debug_sequence` | `Ddmin` |
| per-message shrinking, `shrink.rs` | the messages done, the bytes kept, the decoded message edited | `shrink`, `shrink_message`, `shrink_structured`, `shrink_update`, `shrink_open`, `shrink_notification`, `shrink_bytes_tail` | `Shrinker` |
| replay verifier, `shrink.rs` | attempt, place in the candidate, connection | `verify`, `recv_with_timeout` | `TcpVerifier` |
| wire codec, `bgp-wire` | none | `encode`, `decode` of every message and attribute | `Wire`, abstracted in `BgpMessage` |
| generator, `bgp-fuzz-gen` | RNG | `generate_batch`, `generate_message`, semantic and byte mutators | `Generator` |
| reports, `report.rs` | files | `write_report` | not modelled |
| command line, `bgp-fuzz` | none | `fuzz`, `send`, `replay` | `fuzz`: the setups of `FuzzSession`, the layers of `Generator` |

How they interact. `main` builds a driver, seven oracles and a generator and
hands them to `FuzzSession::run`. One task runs the loop; another waits for
ctrl-c and sets a flag. Per connection the loop performs the handshake (which
neither the driver nor the history is told of), asks the generator for a batch,
and for each message of it asks the oracles for a trigger to send instead,
writes, tells the driver, reads once, tells the driver again, and hands the
outcome and the driver's log to every oracle in turn. Driver and oracles decode
the bytes with `bgp-wire`. Each finding is turned into a report, shrunk against
the target if so configured, written to disk and counted. The shrinker asks its
verifier about one candidate after the other; the verifier opens a connection
of its own per attempt, repeats the handshake and replays the candidate.

What is hard here:

- *Interleaving*: ctrl-c and the end of the duration come at any await; the
  peer sends, closes and resets at any time, answers late or twice, and TCP
  coalesces its messages; a slow target works through a connection that the
  verifier has already left.
- *State that outlives what it is about*: a pending check set before a write
  that fails, a timeout count and an FSM log that span connections, the
  history handed to the shrinker, candidates re-encoded from a message that is
  not byte for byte the one recorded.
- *Ordering*: one read per write means that one unread message shifts every
  later answer by one, and an established peer sends messages nobody asked for.
- *Partial failure*: a write that fails abandons the session in mid-exchange; the
  decoder panics on some of the bytes sent or read, the shrinker on some recordings.
- *Retries and timeouts*: a verdict takes several attempts with restarts of the
  target in between; the shrinker's time runs out between any two verdicts.
- *Numeric edges*: timers, rounded-up chunks, lengths in the codec.
- *Liveness*: the loop has to end although nothing bounds the number of
  connections; shrinking has to end although granularity goes up and down.

`PROJECT.json` lists every hazard at its line with the properties that cover it.

## 2. Modules and their correspondence to the code

**`FsmTable`** holds `default_transitions` row by row, as sets of rules, and the
lookup `step` performs (`StepEntry`). **`ShadowFsm`** has one action per public
method of the machine. The history variables `now` and `deadline` record when a
running timer was armed to expire. **`SessionLadder`** is the abstract
specification of the default table: Idle, Connect/Active, OpenSent, OpenConfirm
and Established are rungs, climbed one at a time and only left downwards to the
bottom two.

**`BgpMessage`** reduces a message to its type code, whether it decodes, and the
field an oracle looks at; `ClassifyMessage` is the driver's `classify_message`,
which panics on messages of the form "fatal" (`Panics`): a header length below 19
makes a slice end before it starts (lib.rs:75 and 81, notification.rs:84).
**`FsmDriver`** is the machine with its table unedited (nothing can edit it
through the driver) and the log. **`Oracles`** has one operator per `check`, the
updates of the oracles' state, the severities of `into_report` and the eight
scenarios of `NotificationCodeOracle`. They are shown the first message of a read;
`alone` says whether it was all that was read, which is what the mirror check of
`AttributeEchoOracle`, comparing whole buffers, needs to know.

**`FuzzSession`** is the loop. An action is the code between two awaits; `pc` is
the await the task is at. Code that runs without an await is one action, even
where it spans functions (`ReadData` is the end of `send_and_recv` and the
beginning of `process_outcome`). A *setup* is what `main` decides once: the
panel, `enable_shrink`, what the generator may yield, what an unconstrained
peer may send, and what a conforming one sends unasked. `link` and `inbox` are what the socket shows; `wire` and
`answered` exist so that a conforming peer can be specified. `SendPanics`,
`RecvPanics` and `ShrinkPanics` unwind `run` where `on_send`, `on_recv` and the
shrinker panic: the stream is dropped and the bugs are lost. The peer's
`PeerSends`, `PeerAnswers`, `PeerAnnounces`, `PeerLeaves`, the clock's `Tick`, and
`CtrlC` and `DurationPasses` are the environment. `conforming` is chosen initially:
an arbitrary peer sends any reply at any moment and may close, reset or vanish; a
conforming one answers in order, never lets a read time out, and closes after a
NOTIFICATION; but once the handshake's KEEPALIVE has established the session it also
sends its routes, an End-of-RIB and KEEPALIVEs of its own whenever it likes
(`PeerAnnounces`). `exchanges` (what was judged), `found` (every finding made) and
`late` (every message written after ctrl-c) are history variables.

**`RunLoop`** is the abstract specification of that loop: only the await, the
number of messages and findings left, and the two flags. Nothing bounds its
connections, so the questions whether a run ends are asked there (a panic ends it,
too), and
`FuzzSession` is shown to implement it (`ImplementsRunLoop`).

**`Ddmin`** is `delta_debug_sequence`; an action is the code between two calls of
`verify`. The target is either deterministic, failing exactly when a set `core`
of messages is present, or flaky, answering either way. **`Reducer`** is what a
shrinker promises: it only moves to a nonempty subset seen to trigger the bug.

**`Shrinker`** extends `Ddmin` with the rest of `shrink`: message after message,
the structured passes of its kind (`TryAttribute` from the last attribute to the
first, `PopLast` for routes, parameters and data, `TryMinimal`), the last
verification of the encoding (`TryFinal`) and the tail (`TryTail`). An action is
one call of `verify`, or the code between two loops. A message is what its bytes
decode to (a message of `Wire`) with the trailing bytes decoding loses, the
number of bytes cut off its end, and whether its fixed fields are the minimal
message's. What the bug needs of the messages in `core` is one of four things
(`need`): their presence, the values of their fields and all their bytes, their
optional attributes, or that at most one of them changes, which is what makes
the messages depend on one another. `overtime` and Ddmin's `timed_out` are the
two clocks; the first starts earlier. `accepted` is a history variable.

**`TcpVerifier`** is one call of `verify`: `Connect` and `Refused` are
`connect_with_retry`, `WriteHandshake` and `DrainHandshake` are `do_handshake`,
`WriteMessage`, `ReadMessage` and `ReplayOver` the replay, `NextAttempt` the
pause and the head of the retry loop; `See` is what one outcome does. The target
takes in what a connection brings it in order (`TakeIn`), crashes when it has
taken in all of `trigger` on one connection, hangs up on one message, and may
restart. A prompt target is done with a message before a read times out. A slow
one is not: reads time out before it answers, it gets to the messages of a
connection that is gone (`LateCrash`), and closing with messages unread makes it
send a reset.

**`Wire`** is the codec down to the lengths: what every encoder writes, with the
widths of the length fields, and what every decoder makes of a frame an encoder
wrote, alone or with KEEPALIVEs behind it in the buffer. `DecodeOutcomes` is what
decoding arbitrary bytes may end in. **`Generator`** is one message of a batch
from the choice of its layer to the driver's `classify_message` on its bytes.
Its semantic mutators are the code's, on the abstract message; byte mutations
leave bytes of unknown structure and known length. Random choices are
nondeterministic. `InGrammar` is what the grammar can produce; that the messages
tried are in it is an assumption TLC evaluates.

The modules `MC...` give the constants of an instance their values.
Definitions marked *slip* in a comment are plausible mistakes in the definition
that follows them; substituted for it, they make a property fail, which shows
that the property depends on the code.

## 3. What is checked

| Run | Checks |
|---|---|
| `ShadowFsm` | types; timers hold the time left to their deadline; expiry on the right tick; of an unedited machine: only legal events move it, ManualStop always stops it, it implements `SessionLadder` |
| `RunLoop` | a run ends after ctrl-c and after its duration, provided that writes and connects finish |
| `session` | the driver's machine never leaves Idle; the pending check is the one of the message just sent; the history is what was written on this connection; scenarios in order, the refill of their queue included; statistics, log and bug list agree with the exchanges; every finding becomes one bug before the next message; after ctrl-c one message at most is written, or the two of a handshake whose connection was still being made; a timeout is High exactly at three in a row; a conforming peer is never blamed for a reply to the handshake, and for its first answer only if something it sent unasked was read in its place; the session implements `RunLoop` |
| `shrinker` | what shrinking returns still fails, wherever the time ran out; it is a nonempty subsequence in which every message was verified in its place; it grows only by becoming the minimal UPDATE; attributes stay in order; the shrinker implements `Reducer`; it ends |
| `verifier` | a prompt target convicted of a reset crashes on this candidate, and one that crashes on it is convicted; every attempt replays the candidate from its beginning; `verify` returns |
| `generator` | sizes stay within a BGP message; no length field wraps, also after semantic mutation; what is encoded decodes to itself or is refused; a KEEPALIVE in the same read changes no message but a NOTIFICATION; only bytes that were never encoded, or were mutated since, make the decoder panic |

Six runs show where the code departs from what the repository says of it:

| Run | Disagreement |
|---|---|
| `ddmin_all_needed` | delta debugging should preserve a sequence all of which is needed; with five messages it panics |
| `generator_long_values` | every message of the grammar should decode; one with an attribute value of more than 255 octets is refused |
| `session_bug_ids` | report ids are documented as unique; two findings in one second share one |
| `session_injected` | the fuzz command should generate and send; with its panel only the eight scenarios are ever sent |
| `session_rejection` | a NOTIFICATION is a rejection; `FsmConsistencyOracle` counts it as acceptance |
| `session_blame` | a peer that answers correctly and closes is reported for a wrong code, because the session sends on |

### Bounds

- `ShadowFsm`: timers up to 2 s, ticks up to 2 s, 3 s in all: a timer can be
  missed, hit exactly, overshot and re-armed. The table is explored completely.
  Two edits at a key with and one without a default entry suffice for an edit to
  undo or extend another.
- `RunLoop`: three attempts, four messages, three findings; the number of connections
  is not bounded.
- `session`: `TwoConnections` has two connections of at most two messages, which
  carry pending checks, timeout counts and the trigger queue from one connection
  to the next and reach three timeouts in a row. `Refill` has nine messages on
  one connection, one more than there are scenarios. `Shrinking` has five
  messages, the shortest history on which the shrinker can panic, and one tick
  of the clock. `Panicking` sends and is sent bytes that do not survive the decoder,
  first or after an exchange. One unread message at a time lets answers come late,
  early and shifted; the handshake's two answers may be coalesced. `WindowSize` 1 fills the
  latency window with the first sample.
- `shrinker`: recordings of up to six KEEPALIVEs for delta debugging (five is the
  shortest on which a chunk starts past the end), and of up to three messages
  with something to remove for the rest: an UPDATE with all four kinds of
  things the passes remove, one shorter than the minimal UPDATE, one that does
  not decode, attributes with flags or length octets that re-encoding loses,
  trailing bytes, an OPEN, a NOTIFICATION, a ROUTE-REFRESH, an unknown message.
- `verifier`: three messages and two attempts: a crash can be due before the
  call, from the first attempt in the second, and on any set of the messages.
- `generator`: lists of zero, one and the grammar's longest, prefixes of 0, 8, 9
  and 255 bits, attribute values of the shortest, 255, 256 and the longest
  lengths, and a list with each semantic mutator in which neighbours are applied
  to the same message. Headers of mutated bytes get the boundary lengths.
- The proofs below cover every length.

### Fairness

The session's task is weakly fair: tokio polls it when what it awaits is ready,
every read has a timeout, and a write or connection attempt is assumed to end with
success or an error. The code does not enforce the latter: `write_all`
(session.rs:133, connection.rs:42 and 50, shrink.rs:123) and `TcpStream::connect`
have no timeout, and a peer that never reads can stall a write once the socket
buffers are full. `ShutdownEndsRun`, `DurationEndsRun` and `VerifyReturns` hold
under this assumption, for session and verifier alike. Nothing is assumed of an arbitrary peer, of ctrl-c or of the clock;
the steps of a conforming peer are weakly fair because such a peer answers, and
the model's reads from it do not time out. In `Shrinker` the loops are weakly
fair because `verify` returns, which is what `VerifyReturns` shows of
`TcpVerifier`; neither clock is assumed to run out. In `TcpVerifier` the verifier
is weakly fair, and so is a target's taking in of what it was sent, without
which a prompt target would not be one; a crashed target need never restart.

## 4. What is proved

| Theorem | Argument |
|---|---|
| `ShadowFsm_proofs!TypeCorrect`, `TimersAlwaysCountDown`, `ExpiryAlwaysOnTime` | types and "a running timer's deadline is now plus its value" are inductive together; the expiry property is a consequence of that invariant for one tick |
| `ShadowFsm_proofs!OnlyLegalAlways`, `TableClimbs` | while nothing was edited the table is the default one, so every step is a rule of `Rules`; the rules are checked one by one, and each climbs one rung or falls |
| `ShadowFsm_proofs!StopAlwaysWorks` | by the same invariant and the ManualStop rules of the table |
| `Shrinker_proofs!TypeCorrect`, `AlwaysASubsequence`, `NeverEmptiedAlways`, `DdminReduces` | the invariant adds to the three properties that `best` has two messages or more inside the for loop; then a chunk is at least one and at most all but one message long (`ChunkBounds`), and cutting it leaves an increasing, nonempty sequence (`CutProperties`) |
| `Shrinker_proofs!ShrinksASubsequence`, `ShrinkerReduces` | every step of the shrinker is a step of `Ddmin` or leaves its variables alone, so `Ddmin`'s invariant and its step lemma carry over |
| `Shrinker_proofs!ResultAlwaysFails` | the invariant: against a target that does not vary, the messages done, the bytes kept and the recorded rest fail together. Delta debugging establishes it, a message done as kept preserves it because the sequence is literally the same, and every change of what is kept follows a verification of exactly that sequence |
| `Shrinker_proofs!OnlyVerifiedKept` | the bytes kept are the recorded ones or in `accepted`, which grows by verified candidates only |
| `Shrinker_proofs!ShrinkerTypes`, `NothingGrows`, `OrderKept` | one invariant of the passes (`SizeInv`): the message at hand is of the kind its pass is for and no longer than the recorded one, or minimal; the bytes kept and the messages done are no longer either; the attributes left sit at increasing places of the recorded ones. Decoding never enlarges an attribute (`DecodedAttribute`), a list that loses an element has no larger sum (`TotalOfSome`), and removing by index shifts the places behind it by one (`RemovedAt`) |
| `Shrinker_proofs!DdminNearsItsEnd`, `ShrinkerNearsItsEnd` | four naturals, compared in this order, fall with every step of delta debugging: the messages left, the chunk size, the number of chunks, what is left of the round. That the code accepts a candidate equal to `best` (a chunk past the end is empty) does no harm, because the granularity then falls, and doubling it makes the chunks strictly smaller (`FinerChunks`). After it, the messages left, the passes left over the message at hand, what the pass can still try |
| `TcpVerifier_proofs!VerifierTypes`, `TrueIsTriggered`, `AlwaysAPrefix` | one invariant: the wire is a prefix of handshake and candidate as long as the place in the replay says, a crash done or due is a crash on that prefix or the leftover one, and (`Lockstep`) a prompt target is never behind by more than the message just written |
| `TcpVerifier_proofs!PromptAlwaysConvicted` | a prompt target has taken in everything when the next message is written, so the message that completes the trigger is the one whose read sees the reset: no attempt ever ends without conviction |
| `TcpVerifier_proofs!VerifierNearsItsVerdict` | one natural, the most steps this attempt and the ones after it can take, falls with every step of verify; nothing the target does raises it. At most two messages of the handshake are on the wire before the replay, so its five steps are counted from there |
| `FuzzSession_proofs!FewWritesAlways` | strengthened by where the task is: nothing is written late before a message past the check of the flag or while connecting, at most the OPEN before the handshake's first read |
| `FuzzSession_proofs!PendingAlwaysMatches` | strengthened to the await before the read: between taking a trigger and judging the outcome nothing replaces it |
| `FuzzSession_proofs!ShadowAlwaysIdle` | every message sent or read is one of a closed set, each of which is classified as a message event, and no message event has a rule out of Idle |
| `FuzzSession_proofs!HistoryAlwaysTheWire` | the wire starts with the handshake's messages, unless a write of the handshake was lost, and then the link is not writable again; so what follows the first two messages is what `send_and_recv` wrote |
| `FuzzSession_proofs!ScenariosAlwaysInOrder` | strengthened by where the queue stands: the scenario popped next follows the one taken last, and the one taken last is the last one written once it is written |
| `SessionFindings_proofs!EscalationAlwaysThreeInARow` | the count is the length of the longest run of timeouts at the end of the exchanges, and every Timeout finding carries it |
| `SessionFindings_proofs!SessionFollowsSkeleton` | each action is a step of `RunLoop` or a stutter; the panel has at most four findings about one exchange |
| `SessionFindings_proofs!OnlyUnaskedEverMisleads` | the peer answers the OPEN before the handshake's first read, so the two reads leave none of its replies; what is unread after them was sent unasked, until the answer to the first message is put behind it, on which the peer closes. So the first read yields something unasked or that answer, whose code is the one expected (`FirstReadIsFair`) |
| `SessionFindings_proofs!EveryFindingAlwaysFiled` | the findings of earlier exchanges are all filed when the next one is judged, and the report at the shrinker is that of the first which is not (`FiledInv`) |
| `SessionFindings_proofs!StatsAlwaysAccount` | a reset's finding is the head of the list of its exchange and no other finding is Critical, so a reset is counted or is the head of what is left to report |
| `SessionFindings_proofs!TypeCorrect` | by the invariants above and one about the link: a conforming peer answers into a receive buffer that holds at most what it left of the handshake |
| `Generator_proofs!GeneratorTypes`, `FieldsNeverWrap`, `RoundTrip`, `KeepaliveBehind`, `PanicsNeedBrokenBytes` | the invariant `GInv`: a structured message has the shape of the grammar, with at most one more attribute for each mutator already applied (`Shaped`), and mutated bytes leave room for the growth still to come. From the shape follow the sizes, 3287 octets at most (`ShapedSizes`), so that no field wraps; from the fields and the types, that what was encoded decodes to itself |
| `RunLoop_proofs!RunLoopTypes`, `StoppedRunNearsItsEnd` | findings are reported only while there are some; then a bound on the steps left (`StepsLeft`: a batch costs at most `MaxFindings + 4` steps per message) falls with every step of the task once it has been told to stop. Together with fairness this is why a run ends |

`Wire_proofs` holds the lemmas about `Total`, the sum over a list that every size is,
and about the decoders. `Total` is a recursive function: that it is what its equation
says follows from `WFMin` of the library's well-founded induction, and inductions over
lengths are made over a set of numbers that contains 0 and successors, which no prover
has to instantiate.

They assume only the named assumptions of the modules: the bounds are naturals,
the batches and replies of every setup are messages, the panels consist of known
oracles, recordings are no longer than `MaxMessages`; the generator's base messages
are messages of the grammar and its mutators those that exist; a recorded message is
what an encoder wrote, with length fields that fit and nothing in it that the decoder
would silently misread (`Recordable`), followed by any number of bytes.

Model-checked only: liveness (`ShutdownEndsRun`, `DurationEndsRun`, `ShrinkEnds`,
`VerifyReturns`), which needs fairness and ENABLED, out of the prover's reach, and
the fairness of `ImplementsRunLoop`. What makes the four true is proved, a measure that each step of the task
lowers (`StoppedRunNearsItsEnd`, `DdminNearsItsEnd`, `ShrinkerNearsItsEnd`,
`VerifierNearsItsVerdict`); what stays with TLC is that the task can always take a
step until then. Every other property of a passing run has a theorem. The
disagreements are counterexamples, which need no proof.

## 5. What is not modelled

- Texts and layout of reports, logging, and `write_report`'s files.
- A read that ends inside a message: messages are read whole, one or several at
  a time; the driver and the oracles see the first. What else of a longer read an
  oracle decodes is left to `Wire`, in which one KEEPALIVE behind a message is
  shown harmless; two of them, or a longer message, behind an UPDATE may be parsed
  as routes (`RoutesBehind`).
- Which bytes of a peer make the decoder panic: `RecvPanics` takes them for given.
  `OnlyBrokenBytesPanic` speaks of the bytes bgp-fuzz sends only.
- The rate limit: it only delays the next message (and panics at rate 0).
- `FsmDriver::on_timer` (no caller) and its timers (nothing arms them).
- The generator's weights, the distribution of its batch lengths and its
  timings, which the session is never given; that `apply_random_byte_mutations`
  draws from a deterministic runner, so that two messages of one length are
  mutated alike.
- The contents of attribute values, and `capability.rs`, which only the builder
  of OPENs in `bgp-wire` calls.
- The commands `send` and `replay`: one connection per message and a printout.
- The verifier with predicates for Data or Timeout outcomes: any target that
  answers, or is silent, satisfies them.

Some departures from what comments suggest are visible in the model without a
run of their own: the hold timer is not reset by a KEEPALIVE (machine.rs:211),
the rows "any message event in Connect is illegal" lack UPDATE and NOTIFICATION
(machine.rs:158), delta debugging's result need not be 1-minimal (shrink.rs:169),
a reset seen by a write instead of a read is never reported (session.rs:84), what an
established peer sends unasked is judged as the answer to the next fuzz message
(session.rs:146, because connection.rs:52 reads once whatever is still to come;
`OnlyUnaskedMisleads` says that nothing else misleads the first verdict),
`data_end` counts the header twice (notification.rs:83), a splice inserts up to
seven bytes and not eight (byte_mutators.rs:88), and a mutation count of five is
never drawn (generator.rs:256).

## 6. Plan

Done: the table and the machine; driver, oracles and session; the run loop;
delta debugging, per-message shrinking and the verifier; generator and codec.
Every one of them has its proofs: types and safety of the machine, the session, the
run loop, delta debugging, the shrinker, the verifier and the generator, and the
session and the shrinker as refinements of `RunLoop` and `Ddmin`, step by step.

What is left:

1. `LatencyWindow` with its samples and percentiles.
2. Reads that end inside a message.
