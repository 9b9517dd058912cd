-------------------------------- MODULE Wire --------------------------------
(***************************************************************************)
(* bgp-wire: what the encoders write and what the decoders make of it,     *)
(* down to the lengths of the fields.                                      *)
(*                                                                         *)
(* A message is its kind and the sizes of its variable parts: the type and *)
(* value size of each optional parameter, the prefix length in bits of     *)
(* each route, the code, flags and value size of each path attribute, the  *)
(* bytes of data.  Fields of fixed size are left out.  Decoding is defined *)
(* on what an encoder wrote, alone or with KEEPALIVEs right behind it.     *)
(***************************************************************************)
EXTENDS Integers, SequencesExt

HeaderLen == 19

U8(n) == n % 2^8
U16(n) == n % 2^16

Blank == [kind |-> "KEEPALIVE", params |-> <<>>, withdrawn |-> <<>>,
          attrs |-> <<>>, nlri |-> <<>>, data |-> 0]

Open(params) == [Blank EXCEPT !.kind = "OPEN", !.params = params]
Update(withdrawn, attrs, nlri) ==
  [Blank EXCEPT !.kind = "UPDATE", !.withdrawn = withdrawn, !.attrs = attrs, !.nlri = nlri]
Notification(data) == [Blank EXCEPT !.kind = "NOTIFICATION", !.data = data]
Keepalive == Blank
RouteRefresh == [Blank EXCEPT !.kind = "ROUTE-REFRESH"]
Raw(data) == [Blank EXCEPT !.kind = "RAW", !.data = data]

Total(sizes) ==
  LET total[n \in 0..Len(sizes)] == IF n = 0 THEN 0 ELSE total[n - 1] + sizes[n]
  IN  total[Len(sizes)]

-----------------------------------------------------------------------------
(* Path attributes.  A type has its code and flags; decode_value wants at  *)
(* least so many bytes and keeps either the whole value or just these.     *)

Type(code, flags, least, whole) ==
  [code |-> code, flags |-> flags, least |-> least, whole |-> whole]

Origin          == Type(1, {"transitive"}, 1, FALSE)
AsPath          == Type(2, {"transitive"}, 0, TRUE)
NextHop         == Type(3, {"transitive"}, 4, FALSE)
MultiExitDisc   == Type(4, {"optional"}, 4, FALSE)
LocalPref       == Type(5, {"transitive"}, 4, FALSE)
AtomicAggregate == Type(6, {"transitive"}, 0, FALSE)
Aggregator      == Type(7, {"optional", "transitive"}, 6, FALSE)
MpReachNlri     == Type(14, {"optional"}, 5, TRUE)
MpUnreachNlri   == Type(15, {"optional"}, 3, TRUE)

Types == {Origin, AsPath, NextHop, MultiExitDisc, LocalPref, AtomicAggregate,
          Aggregator, MpReachNlri, MpUnreachNlri}

Attribute(type, size) == [code |-> type.code, flags |-> type.flags, size |-> size]

\* A typed attribute has the flags of its type, whatever was on the wire; an
\* attribute of another type is kept raw.
DecodeAttribute(a) ==
  IF \E type \in Types : type.code = a.code
  THEN LET type == CHOOSE type \in Types : type.code = a.code
       IN  Attribute(type, IF type.whole THEN a.size ELSE type.least)
  ELSE a

Least(a) ==
  IF \E type \in Types : type.code = a.code
  THEN (CHOOSE type \in Types : type.code = a.code).least ELSE 0

ExtendedByFlag(a) == "extended" \in a.flags

\* The encoder writes two length octets for a long value, whatever the flags.
TwoOctetLength(a) == a.size > 255 \/ ExtendedByFlag(a)

AttributeSize(a) == (IF TwoOctetLength(a) THEN 4 ELSE 3) + a.size

\* The decoder goes by the flag alone: it takes the high octet for the length.
Misread(a) == TwoOctetLength(a) /\ ~ExtendedByFlag(a)

-----------------------------------------------------------------------------
(* Encoders: what they write, and the length fields in it *)

PrefixSize(bits) == 1 + (bits + 7) \div 8

ParamSize(p) == 2 + p.size

WithdrawnSize(m) == Total([k \in DOMAIN m.withdrawn |-> PrefixSize(m.withdrawn[k])])
AttributesSize(m) == Total([k \in DOMAIN m.attrs |-> AttributeSize(m.attrs[k])])
NlriSize(m) == Total([k \in DOMAIN m.nlri |-> PrefixSize(m.nlri[k])])
ParamsSize(m) == Total([k \in DOMAIN m.params |-> ParamSize(m.params[k])])

OpenSize(m) == HeaderLen + 10 + ParamsSize(m)
UpdateSize(m) ==
  HeaderLen + 2 + WithdrawnSize(m) + 2 + AttributesSize(m) + NlriSize(m)
NotificationSize(m) == HeaderLen + 2 + m.data
KeepaliveSize == HeaderLen
RouteRefreshSize == HeaderLen + 4
RawSize(m) == HeaderLen + m.data

Size(m) ==
  CASE m.kind = "OPEN" -> OpenSize(m)
    [] m.kind = "UPDATE" -> UpdateSize(m)
    [] m.kind = "NOTIFICATION" -> NotificationSize(m)
    [] m.kind = "KEEPALIVE" -> KeepaliveSize
    [] m.kind = "ROUTE-REFRESH" -> RouteRefreshSize
    [] m.kind = "RAW" -> RawSize(m)

BodyLength(m) == U16(Size(m) - HeaderLen)   \* slip: the header is not counted

LengthLeftOut(m) == 0                       \* slip: the length is not filled in

\* The length in the header.
Length(m) == U16(Size(m))

\* Every length field of the frame, with what it is the length of.
LengthFields(m) ==
  {<<Length(m), Size(m)>>,
   <<U8(ParamsSize(m)), ParamsSize(m)>>,
   <<U16(WithdrawnSize(m)), WithdrawnSize(m)>>,
   <<U16(AttributesSize(m)), AttributesSize(m)>>} \cup
  {<<IF TwoOctetLength(a) THEN U16(a.size) ELSE U8(a.size), a.size>> : a \in ToSet(m.attrs)}

-----------------------------------------------------------------------------
(* Decoders.  behind is the number of KEEPALIVEs that follow the frame in  *)
(* the buffer.                                                             *)

SkipsBadAttributes(m) == FALSE    \* slip: an attribute's error is swallowed

\* An UPDATE is refused when one of its attributes is.
Refused(m) == \E a \in ToSet(m.attrs) : Misread(a) /\ a.size \div 256 < Least(a)

Garbled(m) == \E a \in ToSet(m.attrs) : Misread(a)

BufferLen(m, behind) == Size(m) + behind * KeepaliveSize

LooseRoutes(behind) ==      \* slip: a prefix cut short is taken as it is
  IF behind >= 1 THEN <<255>> ELSE <<>>

\* The routes run to the end of the buffer.  A marker reads as a /255 prefix,
\* 33 octets that one KEEPALIVE does not have but two do.
RoutesBehind(behind) == IF behind >= 2 THEN <<255>> ELSE <<>>

DecodeUpdate(m, behind) ==
  [message  |-> [m EXCEPT !.attrs = [k \in DOMAIN @ |-> DecodeAttribute(@[k])],
                          !.nlri = @ \o RoutesBehind(behind)],
   consumed |-> Min({Length(m), BufferLen(m, behind)})]

\* data_end counts the header twice.
DecodeNotification(m, behind) ==
  LET data_end == Min({HeaderLen + Length(m), BufferLen(m, behind)})
  IN  [message |-> [m EXCEPT !.data = data_end - 21], consumed |-> data_end]

DecodeKeepalive(m) == [message |-> m, consumed |-> Length(m)]

DecodeFixed(m, behind) ==
  [message |-> m, consumed |-> Min({Length(m), BufferLen(m, behind)})]

Decode(m, behind) ==
  CASE m.kind = "UPDATE" -> DecodeUpdate(m, behind)
    [] m.kind = "NOTIFICATION" -> DecodeNotification(m, behind)
    [] m.kind = "KEEPALIVE" -> DecodeKeepalive(m)
    [] OTHER -> DecodeFixed(m, behind)

\* PartialEq: attributes are equal if their codes and values are.
SameAttribute(a, b) == a.code = b.code /\ a.size = b.size
SameMessage(m, n) ==
  /\ [m EXCEPT !.attrs = <<>>] = [n EXCEPT !.attrs = <<>>]
  /\ Len(m.attrs) = Len(n.attrs)
  /\ \A k \in DOMAIN m.attrs : SameAttribute(m.attrs[k], n.attrs[k])

\* What BgpMessage::decode may do with any bytes, seen from the header: the type
\* code (0 for one it does not know), the header's length and the buffer's.
DecodeOutcomes(code, length, buf) ==
  LET RawSlice == IF Min({length, buf}) < HeaderLen THEN {"panic"} ELSE {"decoded"}
  IN  CASE buf < HeaderLen -> {"refused"}
        [] buf >= HeaderLen /\ code = 1 -> IF buf < 29 THEN {"refused"} ELSE {"decoded"}
        [] buf >= HeaderLen /\ code = 2 ->
             IF buf < 23 THEN {"refused"} ELSE {"decoded", "refused"}
        [] buf >= HeaderLen /\ code = 3 ->
             IF buf < 21 THEN {"refused"}
             ELSE IF length < 2 THEN {"panic"} ELSE {"decoded"}
        [] buf >= HeaderLen /\ code = 4 -> {"decoded"}
        [] buf >= HeaderLen /\ code = 5 ->
             IF length >= 23 /\ buf >= 23 THEN {"decoded"} ELSE RawSlice
        [] OTHER -> RawSlice

TypeCode(m) ==
  CASE m.kind = "OPEN" -> 1 [] m.kind = "UPDATE" -> 2 [] m.kind = "NOTIFICATION" -> 3
    [] m.kind = "KEEPALIVE" -> 4 [] m.kind = "ROUTE-REFRESH" -> 5 [] OTHER -> 0
=============================================================================
