------------------------------ MODULE FsmTable ------------------------------
(***************************************************************************)
(* The constant part of the shadow FSM of bgp-fsm: states, events, the     *)
(* default RFC 4271 transition table and the lookup `step` performs on a   *)
(* table.  Everything here is a constant operator, so the module can be    *)
(* extended by any component that steps a BGP FSM.                         *)
(***************************************************************************)
EXTENDS Integers, Sequences

State == {"Idle", "Connect", "Active", "OpenSent", "OpenConfirm", "Established"}

AdminEvent == {"ManualStart", "ManualStop", "AutomaticStart"}

TimerEvent == {"ConnectRetryTimerExpires", "HoldTimerExpires",
               "KeepaliveTimerExpires"}

TcpEvent == {"TcpConnectionConfirmed", "TcpConnectionFails"}

\* The event types FsmDriver's classification can produce from bytes.
WireEvent == {"BgpOpen", "BgpKeepalive", "BgpUpdate", "BgpNotification",
              "BgpRouteRefresh", "BgpMsgError"}

MessageEvent == WireEvent \cup {"BgpOpenVersionError"}

EventType == AdminEvent \cup TimerEvent \cup TcpEvent \cup MessageEvent

Legality == {"Legal", "Illegal", "Unspecified"}

TransitionKey == State \X EventType

TransitionEntry == [to : State, legality : Legality]

-----------------------------------------------------------------------------
(* The default table, one set of <<from, event, to>> per legality. *)

LegalRules ==
  { <<"Idle", "ManualStart", "Connect">>,
    <<"Idle", "ManualStop", "Idle">>,
    <<"Idle", "AutomaticStart", "Connect">>,
    <<"Idle", "TcpConnectionFails", "Idle">>,
    <<"Connect", "TcpConnectionConfirmed", "OpenSent">>,
    <<"Connect", "TcpConnectionFails", "Active">>,
    <<"Connect", "ConnectRetryTimerExpires", "Connect">>,
    <<"Connect", "ManualStop", "Idle">>,
    <<"Active", "TcpConnectionConfirmed", "OpenSent">>,
    <<"Active", "TcpConnectionFails", "Idle">>,
    <<"Active", "ConnectRetryTimerExpires", "Connect">>,
    <<"Active", "ManualStop", "Idle">>,
    <<"OpenSent", "BgpOpen", "OpenConfirm">>,
    <<"OpenSent", "BgpOpenVersionError", "Idle">>,
    <<"OpenSent", "BgpMsgError", "Idle">>,
    <<"OpenSent", "TcpConnectionFails", "Active">>,
    <<"OpenSent", "HoldTimerExpires", "Idle">>,
    <<"OpenSent", "ManualStop", "Idle">>,
    <<"OpenConfirm", "BgpKeepalive", "Established">>,
    <<"OpenConfirm", "TcpConnectionFails", "Active">>,
    <<"OpenConfirm", "HoldTimerExpires", "Idle">>,
    <<"OpenConfirm", "KeepaliveTimerExpires", "OpenConfirm">>,
    <<"OpenConfirm", "BgpNotification", "Idle">>,
    <<"OpenConfirm", "BgpMsgError", "Idle">>,
    <<"OpenConfirm", "ManualStop", "Idle">>,
    <<"Established", "BgpUpdate", "Established">>,
    <<"Established", "BgpKeepalive", "Established">>,
    <<"Established", "BgpRouteRefresh", "Established">>,
    <<"Established", "KeepaliveTimerExpires", "Established">>,
    <<"Established", "BgpNotification", "Idle">>,
    <<"Established", "BgpMsgError", "Idle">>,
    <<"Established", "HoldTimerExpires", "Idle">>,
    <<"Established", "TcpConnectionFails", "Active">>,
    <<"Established", "ManualStop", "Idle">> }

\* The keys the table forbids; each of these entries is a self-loop.
IllegalKeys ==
  ({"Idle"} \X {"BgpOpen", "BgpKeepalive", "BgpUpdate", "BgpNotification",
                "BgpRouteRefresh", "TcpConnectionConfirmed"})
  \cup ({"Connect"} \X {"BgpOpen", "BgpKeepalive", "BgpRouteRefresh"})
  \cup ({"Active"} \X {"BgpOpen", "BgpRouteRefresh"})
  \cup ({"OpenSent"} \X {"BgpKeepalive", "BgpUpdate", "BgpNotification",
                         "BgpRouteRefresh"})
  \cup ({"OpenConfirm"} \X {"BgpOpen", "BgpUpdate", "BgpRouteRefresh"})
  \cup {<<"Established", "BgpOpen">>}

Rules ==
  { <<r[1], r[2], r[3], "Legal">> : r \in LegalRules }
  \cup { <<k[1], k[2], k[1], "Illegal">> : k \in IllegalKeys }
  \cup { <<"Connect", "AutomaticStart", "Connect", "Unspecified">> }

\* Plausible slips in the table, each used to show that a property notices.
SlipIdleOpen ==          \* an OPEN in Idle starts the handshake
  (Rules \ {<<"Idle", "BgpOpen", "Idle", "Illegal">>})
  \cup {<<"Idle", "BgpOpen", "OpenSent", "Legal">>}

SlipEarlyKeepalive ==    \* a KEEPALIVE in OpenSent establishes the session
  (Rules \ {<<"OpenSent", "BgpKeepalive", "OpenSent", "Illegal">>})
  \cup {<<"OpenSent", "BgpKeepalive", "Established", "Legal">>}

SlipIllegalMoves ==      \* an UPDATE in OpenConfirm is illegal and resets
  (Rules \ {<<"OpenConfirm", "BgpUpdate", "OpenConfirm", "Illegal">>})
  \cup {<<"OpenConfirm", "BgpUpdate", "Idle", "Illegal">>}

SlipStopForgotten ==     \* the ManualStop row of Active is missing
  Rules \ {<<"Active", "ManualStop", "Idle", "Legal">>}

TableRules == Rules

DefaultTransitions ==
  LET Row(k) == CHOOSE r \in TableRules : r[1] = k[1] /\ r[2] = k[2]
  IN  [k \in { <<r[1], r[2]>> : r \in TableRules } |->
         [to |-> Row(k)[3], legality |-> Row(k)[4]]]

-----------------------------------------------------------------------------
(* What `step` computes from a table: the entry of the key, or "stay where *)
(* you are, unspecified" when the table has none.                          *)

StepEntry(table, s, event) ==
  IF <<s, event>> \in DOMAIN table
  THEN table[<<s, event>>]
  ELSE [to |-> s, legality |-> "Unspecified"]
=============================================================================
