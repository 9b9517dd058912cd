---------------------------- MODULE TcpVerifier ----------------------------
(***************************************************************************)
(* TcpVerifier::verify of bgp-fuzz-driver: a candidate is replayed to the  *)
(* real target, on a new connection for each attempt, and the verdict is   *)
(* what kind of outcome some read or write had.                            *)
(*                                                                         *)
(* The messages of the candidate are numbered.  The target works through   *)
(* what a connection brings it in order; it crashes when it has taken in   *)
(* all of trigger on one connection, and may be set to answer hangup with  *)
(* a NOTIFICATION and a clean close.  A prompt target is done with what it *)
(* was sent before a read times out; a slow one need not be.               *)
(***************************************************************************)
EXTENDS Integers, Sequences, SequencesExt

CONSTANTS
  MaxLen,      \* bound: messages of a candidate
  MaxRetries   \* ShrinkConfig::max_retries

ASSUME VerifierAssumption == MaxLen \in Nat /\ MaxRetries \in Nat \ {0}

ConnectRetries == 3   \* CONNECT_RETRIES

VARIABLES
  candidate,   \* the number of messages replayed
  bug,         \* the kind of outcome that is the bug
  pc, attempt, verdict,
  refused,     \* connects refused in this attempt
  gave_up,     \* history: an attempt found no one to connect to
  next,        \* the message to write
  conn,        \* the connection: "none", "open", "reset" or "closed" by the target
  wire,        \* what was written to it
  trigger, hangup, slow,   \* the target, see above
  taken,       \* how much of wire the target has taken in
  unread,      \* there are answers to read
  up,          \* the target is running
  due,         \* a crash is due from a connection that is no longer there
  leftover     \* history: it was due already when verify was called

callerVars == <<candidate, bug>>
verifierVars == <<pc, attempt, verdict, refused, gave_up, next>>
targetVars == <<trigger, hangup, slow, leftover>>
vars == <<callerVars, verifierVars, conn, wire, targetVars, taken, unread, up, due>>

\* The OPEN and KEEPALIVE of do_handshake, numbered apart from the candidate's.
Handshake == <<-2, -1>>

Messages == 1..MaxLen

\* Whether seq, a part of what a connection brought, makes the target crash.
Crashes(seq) == trigger # {} /\ trigger \subseteq ToSet(seq)

Init ==
  /\ candidate \in 0..MaxLen
  /\ bug \in {"ConnectionReset", "PeerClosed", "Error"}
  /\ pc = "connect" /\ attempt = 1 /\ verdict = "none"
  /\ refused = 0 /\ gave_up = FALSE /\ next = 1
  /\ conn = "none" /\ wire = <<>> /\ taken = 0 /\ unread = FALSE
  /\ trigger \in SUBSET Messages
  /\ hangup \in 0..MaxLen
  /\ slow \in BOOLEAN
  /\ up \in BOOLEAN
  /\ leftover \in IF slow THEN BOOLEAN ELSE {FALSE}
  /\ due = leftover

-----------------------------------------------------------------------------
(* The target *)

\* What the target does with the next message of the connection.  Closing a socket
\* that holds messages nobody read sends a reset instead of an orderly end.
TakeIn ==
  /\ up /\ conn = "open" /\ taken < Len(wire)
  /\ taken' = taken + 1
  /\ \/ /\ Crashes(SubSeq(wire, 1, taken + 1))
        /\ conn' = "reset" /\ up' = FALSE
        /\ UNCHANGED unread
     \/ /\ ~Crashes(SubSeq(wire, 1, taken + 1))
        /\ wire[taken + 1] = hangup
        /\ conn' \in {"closed"} \cup (IF taken + 1 < Len(wire) THEN {"reset"} ELSE {})
        /\ unread' = TRUE
        /\ UNCHANGED up
     \/ /\ ~Crashes(SubSeq(wire, 1, taken + 1))
        /\ wire[taken + 1] # hangup
        /\ unread' \in {unread, TRUE}
        /\ UNCHANGED <<conn, up>>
  /\ UNCHANGED <<callerVars, verifierVars, wire, targetVars, due>>

\* It gets to the messages of a connection the verifier has left.
LateCrash ==
  /\ due /\ up
  /\ due' = FALSE /\ up' = FALSE
  /\ conn' = IF conn = "open" THEN "reset" ELSE conn
  /\ UNCHANGED <<callerVars, verifierVars, wire, targetVars, taken, unread>>

Restart ==
  /\ ~up /\ up' = TRUE
  /\ UNCHANGED <<callerVars, verifierVars, conn, wire, targetVars, taken, unread, due>>

\* A read times out only on a target that has nothing left to take in, or is slow.
Answered == slow \/ conn # "open" \/ taken = Len(wire)

-----------------------------------------------------------------------------
(* verify *)

Return(answer) == pc' = "returned" /\ verdict' = answer

ContinuesReplay ==     \* slip: a new attempt goes on where the last one broke off
  /\ pc = "connect" /\ up
  /\ conn' = "open" /\ wire' = <<>> /\ taken' = 0 /\ unread' = FALSE
  /\ pc' = "handshake"
  /\ UNCHANGED <<callerVars, attempt, verdict, refused, gave_up, next, targetVars, up, due>>

\* connect_with_retry reaches the target.
Connect ==
  /\ pc = "connect" /\ up
  /\ conn' = "open" /\ wire' = <<>> /\ taken' = 0 /\ unread' = FALSE
  /\ pc' = "handshake" /\ next' = 1
  /\ UNCHANGED <<callerVars, attempt, verdict, refused, gave_up, targetVars, up, due>>

KnockForever ==        \* slip: connects are not counted
  /\ pc = "connect" /\ ~up
  /\ UNCHANGED vars

\* It does not reach it: the last time, verify returns false and makes no other attempt.
Refused ==
  /\ pc = "connect" /\ ~up
  /\ refused' = refused + 1
  /\ IF refused' = ConnectRetries
     THEN Return("false") /\ gave_up' = TRUE
     ELSE UNCHANGED <<pc, verdict, gave_up>>
  /\ UNCHANGED <<callerVars, attempt, next, conn, wire, targetVars, taken, unread, up, due>>

Write(m) == wire' = IF conn = "open" THEN Append(wire, m) ELSE wire

\* do_handshake writes OPEN and KEEPALIVE, each followed by a read, and ignores
\* what comes of it.
WriteHandshake ==
  /\ pc = "handshake"
  /\ IF Len(wire) < Len(Handshake) /\ conn = "open"
     THEN Write(Handshake[Len(wire) + 1]) /\ pc' = "drain"
     ELSE pc' = "write" /\ UNCHANGED wire
  /\ UNCHANGED <<callerVars, attempt, verdict, refused, gave_up, next, conn, targetVars,
                 taken, unread, up, due>>

DrainHandshake ==
  /\ pc = "drain" /\ Answered
  /\ unread' = FALSE
  /\ pc' = "handshake"
  /\ UNCHANGED <<callerVars, attempt, verdict, refused, gave_up, next, conn, wire, targetVars,
                 taken, up, due>>

\* The attempt is over: the stream is dropped, with what the target has not taken
\* in yet still on its way.
Leave ==
  /\ due' = (due \/ (conn = "open" /\ Crashes(wire)))
  /\ conn' = "none"

AnyEndCounts(outcome) ==      \* slip: every end of the connection is the bug
  IF outcome \in {"Error", "PeerClosed", "ConnectionReset"}
  THEN Return("true") /\ Leave /\ UNCHANGED next
  ELSE pc' = "write" /\ next' = next + 1 /\ UNCHANGED <<verdict, conn, due>>

StopsAtSilence(outcome) ==    \* slip: a message without an answer ends the replay
  IF outcome = bug THEN Return("true") /\ Leave /\ UNCHANGED next
  ELSE IF outcome # "Data"
  THEN pc' = "sleep" /\ Leave /\ UNCHANGED <<verdict, next>>
  ELSE pc' = "write" /\ next' = next + 1 /\ UNCHANGED <<verdict, conn, due>>

\* What one outcome does to the replay.
See(outcome) ==
  IF outcome = bug THEN Return("true") /\ Leave /\ UNCHANGED next
  ELSE IF outcome \in {"Error", "PeerClosed", "ConnectionReset"}
  THEN pc' = "sleep" /\ Leave /\ UNCHANGED <<verdict, next>>
  ELSE pc' = "write" /\ next' = next + 1 /\ UNCHANGED <<verdict, conn, due>>

WriteMessage ==
  /\ pc = "write" /\ next <= candidate
  /\ IF conn = "reset"
     THEN See("Error") /\ UNCHANGED wire
     ELSE Write(next) /\ pc' = "read" /\ UNCHANGED <<verdict, next, conn, due>>
  /\ UNCHANGED <<callerVars, attempt, refused, gave_up, targetVars, taken, unread, up>>

\* recv_with_timeout: what is queued comes before the end of the connection.
Outcome ==
  IF unread THEN "Data"
  ELSE CASE conn = "reset" -> "ConnectionReset"
         [] conn = "closed" -> "PeerClosed"
         [] conn = "open" -> "Timeout"

ReadMessage ==
  /\ pc = "read" /\ (unread \/ Answered)
  /\ See(Outcome)
  /\ unread' = FALSE
  /\ UNCHANGED <<callerVars, attempt, refused, gave_up, wire, targetVars, taken, up>>

ReplayOver ==
  /\ pc = "write" /\ next > candidate
  /\ pc' = "sleep" /\ Leave
  /\ UNCHANGED <<callerVars, attempt, verdict, refused, gave_up, next, wire, targetVars,
                 taken, unread, up>>

OneAttemptMore ==             \* slip: the attempts are counted from 0 to max_retries
  /\ pc = "sleep"
  /\ refused' = 0
  /\ IF attempt <= MaxRetries
     THEN attempt' = attempt + 1 /\ pc' = "connect" /\ UNCHANGED verdict
     ELSE Return("false") /\ UNCHANGED attempt
  /\ UNCHANGED <<callerVars, gave_up, next, conn, wire, targetVars, taken, unread, up, due>>

\* The pause after an attempt, and the head of the for loop.
NextAttempt ==
  /\ pc = "sleep"
  /\ refused' = 0
  /\ IF attempt < MaxRetries
     THEN attempt' = attempt + 1 /\ pc' = "connect" /\ UNCHANGED verdict
     ELSE Return("false") /\ UNCHANGED attempt
  /\ UNCHANGED <<callerVars, gave_up, next, conn, wire, targetVars, taken, unread, up, due>>

Verify ==
  \/ Connect \/ Refused \/ WriteHandshake \/ DrainHandshake
  \/ WriteMessage \/ ReadMessage \/ ReplayOver \/ NextAttempt

Next == Verify \/ TakeIn \/ LateCrash \/ Restart

\* verify is one task whose awaits complete: reads by their timeouts, connects and
\* writes, which have none, by the assumption that RunLoop states for the session.
\* A prompt target gets to what it is sent.  Nothing makes a crashed one restart.
Spec == Init /\ [][Next]_vars /\ WF_vars(Verify) /\ WF_vars(TakeIn)
-----------------------------------------------------------------------------
(* Properties *)

\* The counters stay within the configured numbers of attempts and connects, and
\* there is a verdict exactly when verify has returned.
TypeOK ==
  /\ attempt \in 1..MaxRetries
  /\ refused \in 0..ConnectRetries
  /\ next \in 1..(candidate + 1)
  /\ taken \in 0..Len(wire)
  /\ conn \in {"none", "open", "reset", "closed"}
  /\ pc \in {"connect", "handshake", "drain", "write", "read", "sleep", "returned"}
  /\ (pc = "returned") = (verdict # "none")

CandidateCrashes == trigger # {} /\ trigger \subseteq 1..candidate

\* The predicate knows the kind of outcome only.  Still, a prompt target convicted
\* of a reset crashes on this very candidate; a slow one may have owed the crash
\* to an earlier candidate, or have hung up with messages unread.
TrueOnlyIfTriggered ==
  verdict = "true" =>
    IF bug = "PeerClosed" THEN hangup \in 1..candidate
    ELSE CandidateCrashes \/ leftover \/ (slow /\ hangup \in 1..candidate)

\* "Verifies whether a message sequence still triggers a bug": a prompt target
\* that crashes on the candidate, does not hang up first and can be reached is
\* always convicted of the reset.
PromptTargetIsConvicted ==
  /\ verdict = "false" /\ bug = "ConnectionReset"
  /\ CandidateCrashes /\ ~slow /\ hangup = 0
  => gave_up

\* Every connection brings the target the handshake and then the candidate from
\* its first message on, none left out and none twice.
ReplayIsAPrefix ==
  wire # <<>> => IsPrefix(wire, Handshake \o [k \in 1..candidate |-> k])

\* verify returns, even if the target is slow, crashes and never comes back, as
\* long as writes and connects finish.
VerifyReturns == <>(pc = "returned")
=============================================================================
