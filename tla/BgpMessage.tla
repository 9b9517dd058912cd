----------------------------- MODULE BgpMessage -----------------------------
(***************************************************************************)
(* BGP messages, reduced to what the driver and the oracles tell apart:    *)
(* the type code, whether BgpMessage::decode accepts the bytes, and the    *)
(* one body field each oracle looks at.  name tells apart byte strings     *)
(* that agree on all of these.                                             *)
(*                                                                         *)
(* form is "whole"   decode succeeds,                                      *)
(*         "damaged" the 19-byte header is there but the body does not     *)
(*                   decode,                                               *)
(*         "stub"    fewer than 19 bytes,                                  *)
(*         "fatal"   decode panics: the length in the header is below 19   *)
(*                   (below 2 for a NOTIFICATION), so that a slice of the  *)
(*                   body would end before it starts.                      *)
(***************************************************************************)
EXTENDS FsmTable

MessageType == {"BgpOpen", "BgpUpdate", "BgpNotification", "BgpKeepalive",
                "BgpRouteRefresh", "Unknown"}

Form == {"whole", "damaged", "stub", "fatal"}

\* The capabilities of an OPEN: no code twice and none above 128 ("plain"),
\* some code twice ("duplicate"), none twice but one above 128 ("high").
Caps == {"plain", "duplicate", "high"}

\* A NOTIFICATION's code and subcode.
ErrorCode == (0..6) \X (0..11)

NoCode == <<0, 0>>

\* A message as the driver sees it.
Message(name, type, form, code, caps, nlri) ==
  [name |-> name, type |-> type, form |-> form, code |-> code, caps |-> caps, nlri |-> nlri]

\* A well-formed message with an unremarkable body.
Plain(name, type) == Message(name, type, "whole", NoCode, "plain", {})

Notification(code) ==
  Message("notification", "BgpNotification", "whole", code, "plain", {})

IsMessage(m) ==
  /\ DOMAIN m = {"name", "type", "form", "code", "caps", "nlri"}
  /\ m.type \in MessageType
  /\ m.form \in Form
  /\ m.code \in ErrorCode
  /\ m.caps \in Caps
  /\ m.form = "fatal" => m.type \in {"Unknown", "BgpRouteRefresh", "BgpNotification"}

\* BgpMessage::decode panics on these bytes; the decoders of the other types
\* take their slices from the body's own lengths and check them.
Panics(m) == m.form = "fatal"

\* matches!(BgpMessage::decode(bytes), Ok((type(_), _)))
DecodesAs(m, type) == m.form = "whole" /\ m.type = type

TypeByteOnly(m) == m.type          \* slip: malformed messages keep their type

\* classify_message of bytes that do not make it panic: the decoded variant if
\* the bytes decode; otherwise the header's type byte, where ROUTE-REFRESH and
\* unknown codes, like stubs and Raw messages, count as malformed.
ClassifyMessage(m) ==
  IF \/ m.form = "stub"
     \/ m.type = "Unknown"
     \/ m.form = "damaged" /\ m.type = "BgpRouteRefresh"
  THEN "BgpMsgError"
  ELSE m.type
=============================================================================
