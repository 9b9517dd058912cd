-------------------------- MODULE Generator_proofs --------------------------
(* Theorems about Generator, for every message of the grammar, every list of *)
(* semantic mutators and every raw size.                                     *)
EXTENDS Generator, Wire_proofs

-----------------------------------------------------------------------------
(* The shape of a message: what the grammar yields, and what is left of it   *)
(* after n semantic mutators.  A value has the size its decoder keeps, and   *)
(* only the two types that carry prefixes can exceed one length octet.       *)

Shapes(n) ==
  {a \in [code : 1..15, flags : SUBSET {"optional", "transitive"}, size : 0..401] :
     /\ DecodeAttribute(a).size = a.size
     /\ a.code = 2 => a.size <= 152 + 6 * n
     /\ a.size > 255 => a.code \in {14, 15}}

Shaped(m, n) ==
  \/ /\ m = Open(m.params)
     /\ m.params \in Seq(ParamStrategy) /\ Len(m.params) <= 4
  \/ /\ m = Update(m.withdrawn, m.attrs, m.nlri)
     /\ m.withdrawn \in Seq(PrefixStrategy) /\ Len(m.withdrawn) <= 4
     /\ m.attrs \in Seq(Shapes(n)) /\ Len(m.attrs) <= 5 + n
     /\ m.nlri \in Seq(PrefixStrategy) /\ Len(m.nlri) <= 9
  \/ m = Keepalive
  \/ m = Notification(m.data) /\ m.data \in 0..63

LEMMA ShapeFacts ==
  ASSUME NEW n \in Nat, NEW a \in Shapes(n)
  PROVE  /\ a = [code |-> a.code, flags |-> a.flags, size |-> a.size]
         /\ a.code \in 1..15 /\ a.size \in 0..401
         /\ a.flags \in SUBSET {"optional", "transitive"}
         /\ DecodeAttribute(a).size = a.size
         /\ a.code = 2 => a.size <= 152 + 6 * n
         /\ a.size > 255 => a.code \in {14, 15}
<1>1. a \in [code : 1..15, flags : SUBSET {"optional", "transitive"}, size : 0..401]
  BY DEF Shapes
<1>2. /\ DecodeAttribute(a).size = a.size
      /\ a.code = 2 => a.size <= 152 + 6 * n
      /\ a.size > 255 => a.code \in {14, 15}
  BY DEF Shapes
<1> QED BY <1>1, <1>2

\* A type's value of a size its decoder takes has a shape.
LEMMA TypedShape ==
  ASSUME NEW type \in Types, NEW bytes \in 0..401, NEW n \in Nat,
         type.whole \/ bytes = type.least,
         type.code = 2 => bytes <= 152 + 6 * n,
         bytes > 255 => type.code \in {14, 15}
  PROVE  Attribute(type, bytes) \in Shapes(n)
<1> DEFINE a == Attribute(type, bytes)
<1>1. a.code = type.code /\ a.size = bytes /\ a.flags = type.flags
  BY DEF Attribute
<1>2. type.code \in 1..15
  BY TypeCodes DEF Types
<1>3. type.flags \in SUBSET {"optional", "transitive"}
  BY DEF Types, Type, Origin, AsPath, NextHop, MultiExitDisc, LocalPref,
         AtomicAggregate, Aggregator, MpReachNlri, MpUnreachNlri
<1>4. DecodeAttribute(a) = Attribute(type, IF type.whole THEN a.size ELSE type.least)
  <2> HIDE DEF a
  <2> QED BY <1>1, DecodedSize
<1>5. DecodeAttribute(a).size = a.size
  BY <1>1, <1>4 DEF Attribute
<1>6. a \in [code : 1..15, flags : SUBSET {"optional", "transitive"}, size : 0..401]
  BY <1>2, <1>3 DEF Attribute
<1> HIDE DEF a
<1> QED BY <1>1, <1>5, <1>6 DEF Shapes, a

LEMMA GrammarShapes == AttributeStrategy \subseteq Shapes(0)
<1> SUFFICES ASSUME NEW a \in AttributeStrategy PROVE a \in Shapes(0)
  OBVIOUS
<1>0. /\ Origin.least = 1 /\ NextHop.least = 4 /\ MultiExitDisc.least = 4
      /\ LocalPref.least = 4 /\ AtomicAggregate.least = 0 /\ Aggregator.least = 6
      /\ AsPath.whole /\ MpReachNlri.whole /\ MpUnreachNlri.whole
  BY DEF Type, Origin, AsPath, NextHop, MultiExitDisc, LocalPref,
         AtomicAggregate, Aggregator, MpReachNlri, MpUnreachNlri
<1>1. CASE \E type \in {Origin, NextHop, MultiExitDisc, LocalPref, AtomicAggregate,
                        Aggregator} : a = Attribute(type, type.least)
  <2>1. PICK type \in {Origin, NextHop, MultiExitDisc, LocalPref, AtomicAggregate,
                       Aggregator} : a = Attribute(type, type.least)
    BY <1>1
  <2>2. type \in Types /\ type.least \in 0..6 /\ type.code # 2
    BY <1>0, TypeCodes DEF Types
  <2>3. type.least \in 0..401 /\ ~(type.least > 255)
    BY <2>2
  <2> QED BY <2>1, <2>2, <2>3, TypedShape
<1>2. CASE \E p \in (1..4) \X (1..36) : a = Attribute(AsPath, 2 * p[1] + 4 * p[2])
  <2>1. PICK p \in (1..4) \X (1..36) : a = Attribute(AsPath, 2 * p[1] + 4 * p[2])
    BY <1>2
  <2> DEFINE bytes == 2 * p[1] + 4 * p[2]
  <2>2. p[1] \in 1..4 /\ p[2] \in 1..36
    OBVIOUS
  <2>3. bytes \in 0..401 /\ bytes <= 152 + 6 * 0 /\ ~(bytes > 255)
    BY <2>2
  <2> HIDE DEF bytes
  <2>4. AsPath \in Types
    BY DEF Types
  <2>5. /\ 0 \in Nat /\ (AsPath.whole \/ bytes = AsPath.least)
        /\ AsPath.code = 2 => bytes <= 152 + 6 * 0
        /\ bytes > 255 => AsPath.code \in {14, 15}
    BY <1>0, <2>3
  <2>6. Attribute(AsPath, bytes) \in Shapes(0)
    BY <2>3, <2>4, <2>5, TypedShape, Zenon
  <2> QED BY <2>1, <2>6 DEF bytes
<1>3. CASE \E n \in 3..401 : a \in {Attribute(MpReachNlri, n), Attribute(MpUnreachNlri, n)}
  <2>1. PICK n \in 3..401 : a \in {Attribute(MpReachNlri, n), Attribute(MpUnreachNlri, n)}
    BY <1>3
  <2>2. MpReachNlri \in Types /\ MpUnreachNlri \in Types
    BY DEF Types
  <2>3. n \in 0..401 /\ 0 \in Nat
    OBVIOUS
  <2>4. Attribute(MpReachNlri, n) \in Shapes(0)
    <3>1. /\ MpReachNlri.whole \/ n = MpReachNlri.least
          /\ MpReachNlri.code = 2 => n <= 152 + 6 * 0
          /\ n > 255 => MpReachNlri.code \in {14, 15}
      BY <1>0, TypeCodes
    <3> QED BY <2>2, <2>3, <3>1, TypedShape, Zenon
  <2>5. Attribute(MpUnreachNlri, n) \in Shapes(0)
    <3>1. /\ MpUnreachNlri.whole \/ n = MpUnreachNlri.least
          /\ MpUnreachNlri.code = 2 => n <= 152 + 6 * 0
          /\ n > 255 => MpUnreachNlri.code \in {14, 15}
      BY <1>0, TypeCodes
    <3> QED BY <2>2, <2>3, <3>1, TypedShape, Zenon
  <2> QED BY <2>1, <2>4, <2>5
<1>4. 5 + 99 + 9 * 33 = 401 /\ 3 + 9 * 33 <= 401
  OBVIOUS
<1> QED BY <1>1, <1>2, <1>3, <1>4 DEF AttributeStrategy

\* The kind of a message says which of the shapes it has.
LEMMA KindOf ==
  ASSUME NEW m
  PROVE  /\ m = Open(m.params) => m.kind = "OPEN"
         /\ m = Update(m.withdrawn, m.attrs, m.nlri) => m.kind = "UPDATE"
         /\ m = Keepalive => m.kind = "KEEPALIVE"
         /\ m = Notification(m.data) => m.kind = "NOTIFICATION"
<1>1. ASSUME m = Open(m.params) PROVE m.kind = "OPEN"
  <2>1. Open(m.params).kind = "OPEN"
    BY DEF Open, Blank
  <2> QED BY <1>1, <2>1, Zenon
<1>2. ASSUME m = Update(m.withdrawn, m.attrs, m.nlri) PROVE m.kind = "UPDATE"
  <2>1. Update(m.withdrawn, m.attrs, m.nlri).kind = "UPDATE"
    BY DEF Update, Blank
  <2> QED BY <1>2, <2>1, Zenon
<1>3. ASSUME m = Keepalive PROVE m.kind = "KEEPALIVE"
  BY <1>3 DEF Keepalive, Blank
<1>4. ASSUME m = Notification(m.data) PROVE m.kind = "NOTIFICATION"
  <2>1. Notification(m.data).kind = "NOTIFICATION"
    BY DEF Notification, Blank
  <2> QED BY <1>4, <2>1, Zenon
<1> QED BY <1>1, <1>2, <1>3, <1>4

LEMMA ShapedParts ==
  ASSUME NEW m, NEW n \in Nat, Shaped(m, n)
  PROVE  /\ m.kind \in {"OPEN", "UPDATE", "KEEPALIVE", "NOTIFICATION"}
         /\ m.params \in Seq(ParamStrategy) /\ Len(m.params) <= 4
         /\ m.withdrawn \in Seq(PrefixStrategy) /\ Len(m.withdrawn) <= 4
         /\ m.attrs \in Seq(Shapes(n)) /\ Len(m.attrs) <= 5 + n
         /\ m.nlri \in Seq(PrefixStrategy) /\ Len(m.nlri) <= 9
         /\ m.data \in 0..63
         /\ m.kind # "UPDATE" => m.attrs = <<>> /\ m.nlri = <<>>
         /\ m.kind # "OPEN" => m.params = <<>>
<1>0. /\ <<>> \in Seq(ParamStrategy) /\ <<>> \in Seq(PrefixStrategy)
      /\ <<>> \in Seq(Shapes(n)) /\ Len(<<>>) = 0
  OBVIOUS
<1>1. CASE m = Open(m.params) /\ m.params \in Seq(ParamStrategy) /\ Len(m.params) <= 4
  <2>1. /\ m.kind = "OPEN" /\ m.withdrawn = <<>> /\ m.attrs = <<>>
        /\ m.nlri = <<>> /\ m.data = 0
    BY <1>1 DEF Open, Blank
  <2> QED BY <1>0, <1>1, <2>1
<1>2. CASE /\ m = Update(m.withdrawn, m.attrs, m.nlri)
           /\ m.withdrawn \in Seq(PrefixStrategy) /\ Len(m.withdrawn) <= 4
           /\ m.attrs \in Seq(Shapes(n)) /\ Len(m.attrs) <= 5 + n
           /\ m.nlri \in Seq(PrefixStrategy) /\ Len(m.nlri) <= 9
  <2>1. m.kind = "UPDATE" /\ m.params = <<>> /\ m.data = 0
    BY <1>2 DEF Update, Blank
  <2> QED BY <1>0, <1>2, <2>1
<1>3. CASE m = Keepalive
  <2>1. /\ m.kind = "KEEPALIVE" /\ m.params = <<>> /\ m.withdrawn = <<>>
        /\ m.attrs = <<>> /\ m.nlri = <<>> /\ m.data = 0
    BY <1>3 DEF Keepalive, Blank
  <2> QED BY <1>0, <2>1
<1>4. CASE m = Notification(m.data) /\ m.data \in 0..63
  <2>1. /\ m.kind = "NOTIFICATION" /\ m.params = <<>> /\ m.withdrawn = <<>>
        /\ m.attrs = <<>> /\ m.nlri = <<>>
    BY <1>4 DEF Notification, Blank
  <2> QED BY <1>0, <1>4, <2>1
<1> QED BY <1>1, <1>2, <1>3, <1>4 DEF Shaped

-----------------------------------------------------------------------------
(* Sizes *)

LEMMA PrefixSizeBound == \A bits \in PrefixStrategy : PrefixSize(bits) \in 0..33
BY DEF PrefixSize, PrefixStrategy

LEMMA RoutesTotal ==
  ASSUME NEW r \in Seq(PrefixStrategy), NEW n \in Nat, Len(r) <= n
  PROVE  Total([k \in DOMAIN r |-> PrefixSize(r[k])]) \in 0..(33 * n)
<1> DEFINE t == [k \in DOMAIN r |-> PrefixSize(r[k])]
<1>1. ASSUME NEW k \in DOMAIN r PROVE t[k] \in 0..33
  <2>1. r[k] \in PrefixStrategy
    OBVIOUS
  <2>2. t[k] = PrefixSize(r[k])
    OBVIOUS
  <2> DEFINE bits == r[k]
  <2> HIDE DEF bits, t
  <2>3. PrefixSize(bits) \in 0..33
    BY <2>1, PrefixSizeBound DEF bits
  <2> QED BY <2>2, <2>3 DEF bits
<1>2. DOMAIN t = DOMAIN r /\ t = [k \in DOMAIN r |-> t[k]]
  OBVIOUS
<1> HIDE DEF t
<1>3. Total(t) \in 0..(33 * n)
  BY <1>1, <1>2, TotalOver
<1> QED BY <1>3 DEF t

LEMMA ParamsTotal ==
  ASSUME NEW r \in Seq(ParamStrategy), NEW n \in Nat, Len(r) <= n
  PROVE  Total([k \in DOMAIN r |-> ParamSize(r[k])]) \in 0..(17 * n)
<1> DEFINE t == [k \in DOMAIN r |-> ParamSize(r[k])]
<1>1. ASSUME NEW k \in DOMAIN r PROVE t[k] \in 0..17
  <2>1. r[k] \in ParamStrategy
    OBVIOUS
  <2>2. r[k].size \in 0..15
    BY <2>1 DEF ParamStrategy
  <2> DEFINE l == r[k].size
  <2>3. t[k] = 2 + l
    BY DEF ParamSize
  <2>4. l \in 0..15
    BY <2>2
  <2> HIDE DEF l, t
  <2>5. 2 + l \in 0..17
    BY <2>4
  <2> QED BY <2>3, <2>5
<1>2. DOMAIN t = DOMAIN r /\ t = [k \in DOMAIN r |-> t[k]]
  OBVIOUS
<1> HIDE DEF t
<1>3. Total(t) \in 0..(17 * n)
  BY <1>1, <1>2, TotalOver
<1> QED BY <1>3 DEF t

\* What the largest attribute takes, its header included.
MaxAttribute == 405

LEMMA AttributesTotal ==
  ASSUME NEW i \in Nat, NEW r \in Seq(Shapes(i)), NEW n \in Nat, Len(r) <= n
  PROVE  Total([k \in DOMAIN r |-> AttributeSize(r[k])]) \in 0..(MaxAttribute * n)
<1> DEFINE t == [k \in DOMAIN r |-> AttributeSize(r[k])]
<1>1. ASSUME NEW k \in DOMAIN r PROVE t[k] \in 0..MaxAttribute
  <2>1. r[k] \in Shapes(i)
    OBVIOUS
  <2> DEFINE a == r[k]
  <2>2. a \in Shapes(i)
    BY <2>1
  <2>3. t[k] = AttributeSize(a)
    OBVIOUS
  <2> HIDE DEF a, t
  <2>4. a.size \in 0..401
    BY <2>2, ShapeFacts
  <2>5. AttributeSize(a) \in 0..MaxAttribute
    <3> DEFINE l == a.size
               x == AttributeSize(a)
    <3>1. (x = 3 + l \/ x = 4 + l) /\ l \in 0..401
      BY <2>4 DEF AttributeSize
    <3> HIDE DEF l, x
    <3>2. l \in Int /\ 0 <= l /\ l <= 401
      BY <3>1
    <3>3. x \in Int /\ 0 <= x /\ x <= 405
      BY <3>1, <3>2
    <3>4. x \in 0..MaxAttribute
      BY <3>3 DEF MaxAttribute
    <3> QED BY <3>4 DEF x
  <2> QED BY <2>3, <2>5, Zenon
<1>2. DOMAIN t = DOMAIN r /\ t = [k \in DOMAIN r |-> t[k]]
  OBVIOUS
<1> DEFINE S == Shapes(i)
           b == MaxAttribute
<1>3. r \in Seq(S) /\ b \in Nat /\ \A k \in DOMAIN r : t[k] \in 0..b
  <2>1. MaxAttribute \in Nat
    BY DEF MaxAttribute
  <2> QED BY <1>1, <2>1
<1> HIDE DEF t, S, b
<1>4. Total(t) \in 0..(b * n)
  BY <1>2, <1>3, TotalOver, Zenon
<1> QED BY <1>4 DEF t, b

\* No part of a message outgrows its length field, and no message the protocol's
\* limit.
LEMMA ShapedSizes ==
  ASSUME NEW m, NEW n \in 0..2, Shaped(m, n)
  PROVE  /\ ParamsSize(m) \in 0..68 /\ WithdrawnSize(m) \in 0..132
         /\ AttributesSize(m) \in 0..2835 /\ NlriSize(m) \in 0..297
         /\ Size(m) \in 19..3287
         /\ m.kind = "NOTIFICATION" => Size(m) = 21 + m.data
         /\ m.kind = "KEEPALIVE" => Size(m) = 19
<1>0. /\ m.kind \in {"OPEN", "UPDATE", "KEEPALIVE", "NOTIFICATION"}
      /\ m.params \in Seq(ParamStrategy) /\ Len(m.params) <= 4
      /\ m.withdrawn \in Seq(PrefixStrategy) /\ Len(m.withdrawn) <= 4
      /\ m.attrs \in Seq(Shapes(n)) /\ Len(m.attrs) <= 7
      /\ m.nlri \in Seq(PrefixStrategy) /\ Len(m.nlri) <= 9
      /\ m.data \in 0..63
  <2>1. /\ m.kind \in {"OPEN", "UPDATE", "KEEPALIVE", "NOTIFICATION"}
        /\ m.params \in Seq(ParamStrategy) /\ Len(m.params) <= 4
        /\ m.withdrawn \in Seq(PrefixStrategy) /\ Len(m.withdrawn) <= 4
        /\ m.attrs \in Seq(Shapes(n)) /\ Len(m.attrs) <= 5 + n
        /\ m.nlri \in Seq(PrefixStrategy) /\ Len(m.nlri) <= 9
        /\ m.data \in 0..63
    <3>1. n \in Nat
      OBVIOUS
    <3> QED BY <3>1, ShapedParts, Zenon
  <2> DEFINE l == Len(m.attrs)
  <2>2. l \in Nat /\ l <= 5 + n
    BY <2>1
  <2> HIDE DEF l
  <2>3. l <= 7
    BY <2>2
  <2>4. Len(m.attrs) <= 7
    BY <2>3 DEF l
  <2> QED BY <2>1, <2>4, Zenon
<1>1. ParamsSize(m) \in 0..68
  <2>1. ParamsSize(m) \in 0..(17 * 4)
    BY <1>0, ParamsTotal, Zenon DEF ParamsSize
  <2> QED BY <2>1
<1>2. WithdrawnSize(m) \in 0..132
  <2>1. WithdrawnSize(m) \in 0..(33 * 4)
    BY <1>0, RoutesTotal, Zenon DEF WithdrawnSize
  <2> QED BY <2>1
<1>3. AttributesSize(m) \in 0..2835
  <2>1. n \in Nat
    OBVIOUS
  <2> DEFINE r == m.attrs
  <2>2. r \in Seq(Shapes(n)) /\ Len(r) <= 7
    BY <1>0
  <2> DEFINE x == Total([k \in DOMAIN r |-> AttributeSize(r[k])])
  <2>3. AttributesSize(m) = x
    BY DEF AttributesSize
  <2> HIDE DEF r
  <2> DEFINE seven == 7
  <2>4. seven \in Nat /\ Len(r) <= seven
    BY <2>2
  <2> HIDE DEF seven
  <2>5. x \in 0..(MaxAttribute * seven)
    BY <2>1, <2>2, <2>4, AttributesTotal, Zenon
  <2> HIDE DEF x
  <2>6. MaxAttribute * seven = 2835
    BY DEF MaxAttribute, seven
  <2> QED BY <2>3, <2>5, <2>6
<1>4. NlriSize(m) \in 0..297
  <2>1. NlriSize(m) \in 0..(33 * 9)
    BY <1>0, RoutesTotal, Zenon DEF NlriSize
  <2> QED BY <2>1
<1>5. CASE m.kind = "OPEN"
  <2>1. Size(m) = 29 + ParamsSize(m)
    BY <1>1, <1>5 DEF Size, OpenSize, HeaderLen
  <2>2. Size(m) \in 19..3287
    BY <1>1, <2>1
  <2> QED BY <1>1, <1>2, <1>3, <1>4, <1>5, <2>2
<1>6. CASE m.kind = "UPDATE"
  <2>1. Size(m) = 23 + WithdrawnSize(m) + AttributesSize(m) + NlriSize(m)
    BY <1>2, <1>3, <1>4, <1>6 DEF Size, UpdateSize, HeaderLen
  <2> DEFINE w == WithdrawnSize(m) a == AttributesSize(m) r == NlriSize(m)
  <2>2. Size(m) \in 19..3287
    <3>1. w \in 0..132 /\ a \in 0..2835 /\ r \in 0..297 /\ Size(m) = 23 + w + a + r
      BY <1>2, <1>3, <1>4, <2>1
    <3> HIDE DEF w, a, r
    <3> QED BY <3>1
  <2> QED BY <1>1, <1>2, <1>3, <1>4, <1>6, <2>2
<1>7. CASE m.kind = "KEEPALIVE"
  <2>1. Size(m) = 19
    BY <1>7 DEF Size, KeepaliveSize, HeaderLen
  <2> QED BY <1>1, <1>2, <1>3, <1>4, <1>7, <2>1
<1>8. CASE m.kind = "NOTIFICATION"
  <2>1. Size(m) = 21 + m.data
    BY <1>0, <1>8 DEF Size, NotificationSize, HeaderLen
  <2> DEFINE x == Size(m)
             d == m.data
  <2>2. x = 21 + d /\ d \in 0..63
    BY <1>0, <2>1
  <2> HIDE DEF x, d
  <2>3. x \in 19..3287
    BY <2>2
  <2>4. Size(m) \in 19..3287 /\ m.kind # "KEEPALIVE"
    BY <1>8, <2>3 DEF x
  <2> HIDE DEF ParamsSize, WithdrawnSize, AttributesSize, NlriSize
  <2> QED BY <1>1, <1>2, <1>3, <1>4, <2>1, <2>4
<1> QED BY <1>0, <1>5, <1>6, <1>7, <1>8

-----------------------------------------------------------------------------
(* Length fields *)

LEMMA Fits ==
  /\ \A k \in Nat : k < 256 => U8(k) = k
  /\ \A k \in Nat : k < 4096 => U16(k) = k
BY DEF U8, U16

LEMMA ShapedLength ==
  ASSUME NEW m, NEW n \in 0..2, Shaped(m, n)
  PROVE  Length(m) = Size(m)
<1> DEFINE k == Size(m)
<1>1. k \in 19..3287
  BY ShapedSizes
<1> HIDE DEF k
<1>2. k \in Nat /\ k < 4096
  BY <1>1
<1>3. U16(k) = k
  BY <1>2, Fits
<1> QED BY <1>3 DEF Length, k

\* The length octets of an attribute hold its length.
LEMMA ShapedAttributeLength ==
  ASSUME NEW n \in Nat, NEW a \in Shapes(n)
  PROVE  (IF TwoOctetLength(a) THEN U16(a.size) ELSE U8(a.size)) = a.size
<1>1. a.size \in 0..401
  BY ShapeFacts
<1>2. CASE TwoOctetLength(a)
  <2>1. a.size \in Nat /\ a.size < 4096
    BY <1>1
  <2> QED BY <1>2, <2>1, Fits
<1>3. CASE ~TwoOctetLength(a)
  <2>1. a.size \in Nat /\ a.size < 256
    BY <1>1, <1>3 DEF TwoOctetLength
  <2> QED BY <1>3, <2>1, Fits
<1> QED BY <1>2, <1>3

LEMMA FieldsAgree ==
  ASSUME NEW m, NEW n \in 0..2, Shaped(m, n)
  PROVE  \A f \in LengthFields(m) : f[1] = f[2]
<1>1. Length(m) = Size(m)
  BY ShapedLength
<1>2. U8(ParamsSize(m)) = ParamsSize(m)
  <2> DEFINE k == ParamsSize(m)
  <2>1. k \in 0..68
    BY ShapedSizes
  <2> HIDE DEF k
  <2>2. k \in Nat /\ k < 256
    BY <2>1
  <2>3. U8(k) = k
    BY <2>2, Fits
  <2> QED BY <2>3 DEF k
<1>3. U16(WithdrawnSize(m)) = WithdrawnSize(m)
  <2> DEFINE k == WithdrawnSize(m)
  <2>1. k \in 0..132
    BY ShapedSizes, SMTT(20)
  <2> HIDE DEF k
  <2>2. k \in Nat /\ k < 4096
    BY <2>1
  <2>3. U16(k) = k
    BY <2>2, Fits
  <2> QED BY <2>3 DEF k
<1>4. U16(AttributesSize(m)) = AttributesSize(m)
  <2> DEFINE k == AttributesSize(m)
  <2>1. k \in 0..2835
    BY ShapedSizes
  <2> HIDE DEF k
  <2>2. k \in Nat /\ k < 4096
    BY <2>1
  <2>3. U16(k) = k
    BY <2>2, Fits
  <2> QED BY <2>3 DEF k
<1>5. ASSUME NEW a \in ToSet(m.attrs)
      PROVE  (IF TwoOctetLength(a) THEN U16(a.size) ELSE U8(a.size)) = a.size
  <2>1. m.attrs \in Seq(Shapes(n)) /\ n \in Nat
    BY ShapedParts
  <2>2. a \in Shapes(n)
    BY <2>1 DEF ToSet
  <2> QED BY <2>1, <2>2, ShapedAttributeLength
<1>6. SUFFICES ASSUME NEW f \in LengthFields(m) PROVE f[1] = f[2]
  OBVIOUS
<1> DEFINE octets(a) == IF TwoOctetLength(a) THEN U16(a.size) ELSE U8(a.size)
<1>7. CASE f \in {<<octets(a), a.size>> : a \in ToSet(m.attrs)}
  <2>1. PICK a \in ToSet(m.attrs) : f = <<octets(a), a.size>>
    BY <1>7
  <2>2. octets(a) = a.size
    BY <1>5
  <2> HIDE DEF octets
  <2> QED BY <2>1, <2>2
<1>8. CASE f \in {<<Length(m), Size(m)>>,
                   <<U8(ParamsSize(m)), ParamsSize(m)>>,
                   <<U16(WithdrawnSize(m)), WithdrawnSize(m)>>,
                   <<U16(AttributesSize(m)), AttributesSize(m)>>}
  BY <1>1, <1>2, <1>3, <1>4, <1>8
<1> QED BY <1>6, <1>7, <1>8 DEF LengthFields

-----------------------------------------------------------------------------
(* Decoding what was encoded *)

\* An attribute with two length octets its flags do not announce holds more than
\* 255 octets, so it is one that carries prefixes, and the high octet, which is
\* taken for the length, is 1: too short a value for those.
LEMMA MisreadIsRefused ==
  ASSUME NEW n \in Nat, NEW a \in Shapes(n), Misread(a)
  PROVE  a.size \div 256 < Least(a)
<1>1. a.size \in 0..401 /\ a.size > 255 /\ a.code \in {14, 15}
  <2>1. a.size > 255
    BY DEF Misread, TwoOctetLength
  <2> QED BY <2>1, ShapeFacts
<1>2. a.size \div 256 = 1
  BY <1>1
<1>3. Least(a) \in {3, 5}
  <2>1. /\ MpReachNlri \in Types /\ MpUnreachNlri \in Types
        /\ MpReachNlri.least = 5 /\ MpUnreachNlri.least = 3
    BY DEF Types, MpReachNlri, MpUnreachNlri, Type
  <2>2. CASE a.code = 14
    <3>1. Least(a) = MpReachNlri.least
      BY <2>1, <2>2, TypeCodes, DecodedSize
    <3> QED BY <2>1, <3>1
  <2>3. CASE a.code = 15
    <3>1. Least(a) = MpUnreachNlri.least
      BY <2>1, <2>3, TypeCodes, DecodedSize
    <3> QED BY <2>1, <3>1
  <2> QED BY <1>1, <2>2, <2>3
<1> QED BY <1>2, <1>3

LEMMA NotRefusedNotGarbled ==
  ASSUME NEW m, NEW n \in Nat, Shaped(m, n), ~Refused(m)
  PROVE  ~Garbled(m)
<1>1. ASSUME NEW a \in ToSet(m.attrs) PROVE a \in Shapes(n)
  <2>1. m.attrs \in Seq(Shapes(n))
    BY ShapedParts
  <2> QED BY <2>1 DEF ToSet
<1> QED BY <1>1, MisreadIsRefused DEF Refused, Garbled

LEMMA DecodedSame ==
  ASSUME NEW n \in Nat, NEW a \in Shapes(n)
  PROVE  SameAttribute(DecodeAttribute(a), a)
<1>1. DecodeAttribute(a).size = a.size
  BY ShapeFacts
<1>2. DecodeAttribute(a).code = a.code
  <2>1. CASE \E type \in Types : type.code = a.code
    <3>1. PICK type \in Types : type.code = a.code
      BY <2>1
    <3>2. DecodeAttribute(a) =
            Attribute(type, IF type.whole THEN a.size ELSE type.least)
      BY <3>1, DecodedSize
    <3> QED BY <3>1, <3>2 DEF Attribute
  <2>2. CASE ~\E type \in Types : type.code = a.code
    BY <2>2, DecodedRaw
  <2> QED BY <2>1, <2>2
<1> QED BY <1>1, <1>2 DEF SameAttribute

\* Decoding stops at the end of the message, with or without a KEEPALIVE behind.
LEMMA ConsumedIsSize ==
  ASSUME NEW m, NEW n \in 0..2, Shaped(m, n), NEW behind \in 0..1
  PROVE  Min({Length(m), BufferLen(m, behind)}) = Size(m)
<1> DEFINE k == Size(m)
           b == BufferLen(m, behind)
<1>1. k \in 19..3287
  BY ShapedSizes
<1>2. b = k + behind * 19
  BY DEF BufferLen, KeepaliveSize, HeaderLen
<1>3. Length(m) = k
  BY ShapedLength
<1> HIDE DEF k, b
<1>4. k \in Int /\ b \in Int /\ k <= b
  BY <1>1, <1>2
<1>5. Min({k, b}) = k
  BY <1>4, MinOfTwo
<1> QED BY <1>3, <1>5, SMTT(20) DEF k, b

\* What an encoded message decodes to, kind by kind.
LEMMA UpdateDecoded ==
  ASSUME NEW m, NEW n \in 0..2, Shaped(m, n), m.kind = "UPDATE",
         NEW behind \in 0..1
  PROVE  /\ Decode(m, behind) =
              [message  |-> [m EXCEPT !.attrs = [k \in DOMAIN m.attrs |->
                                                  DecodeAttribute(m.attrs[k])]],
               consumed |-> Size(m)]
         /\ SameMessage(Decode(m, behind).message, m)
<1> DEFINE A == [k \in DOMAIN m.attrs |-> DecodeAttribute(m.attrs[k])]
<1>0. n \in Nat
  OBVIOUS
<1>1. /\ m = Update(m.withdrawn, m.attrs, m.nlri)
      /\ m.attrs \in Seq(Shapes(n)) /\ m.nlri \in Seq(PrefixStrategy)
  <2>1. m # Keepalive /\ m # Open(m.params) /\ m # Notification(m.data)
    BY KindOf
  <2> QED BY <2>1 DEF Shaped
<1>2. RoutesBehind(behind) = <<>> /\ m.nlri \o <<>> = m.nlri
  BY <1>1 DEF RoutesBehind
<1>3. Min({Length(m), BufferLen(m, behind)}) = Size(m)
  BY ConsumedIsSize
<1>4. [m EXCEPT !.attrs = A, !.nlri = m.nlri \o RoutesBehind(behind)]
        = [m EXCEPT !.attrs = A]
  <2> HIDE DEF A
  <2> QED BY <1>1, <1>2 DEF Update, Blank
<1>5. Decode(m, behind) = [message |-> [m EXCEPT !.attrs = A], consumed |-> Size(m)]
  <2>1. Decode(m, behind) = DecodeUpdate(m, behind)
    BY DEF Decode
  <2>2. DecodeUpdate(m, behind) =
          [message  |-> [m EXCEPT !.attrs = A, !.nlri = m.nlri \o RoutesBehind(behind)],
           consumed |-> Min({Length(m), BufferLen(m, behind)})]
    BY DEF DecodeUpdate
  <2> HIDE DEF A
  <2> QED BY <2>1, <2>2, <1>3, <1>4, Zenon
<1>6. SameMessage([m EXCEPT !.attrs = A], m)
  <2>1. DOMAIN m.attrs = 1..Len(m.attrs) /\ Len(m.attrs) \in Nat
    BY <1>1
  <2>2. Len(A) = Len(m.attrs) /\ DOMAIN A = DOMAIN m.attrs
    BY <2>1
  <2>3. \A k \in DOMAIN m.attrs : SameAttribute(A[k], m.attrs[k])
    <3> TAKE k \in DOMAIN m.attrs
    <3>1. m.attrs[k] \in Shapes(n)
      BY <1>1
    <3> QED BY <1>0, <3>1, DecodedSame
  <2> HIDE DEF A
  <2> DEFINE d == [m EXCEPT !.attrs = A]
  <2>4. d.attrs = A /\ [d EXCEPT !.attrs = <<>>] = [m EXCEPT !.attrs = <<>>]
    BY <1>1 DEF Update, Blank
  <2> HIDE DEF d
  <2>5. SameMessage(d, m)
    BY <2>2, <2>3, <2>4 DEF SameMessage
  <2> QED BY <2>5 DEF d
<1> QED BY <1>5, <1>6

LEMMA OtherDecoded ==
  ASSUME NEW m, NEW n \in 0..2, Shaped(m, n), m.kind # "UPDATE",
         NEW behind \in 0..1,
         m.kind # "NOTIFICATION" \/ behind = 0
  PROVE  Decode(m, behind) = [message |-> m, consumed |-> Size(m)]
<1>1. Min({Length(m), BufferLen(m, behind)}) = Size(m) /\ Length(m) = Size(m)
  BY ConsumedIsSize, ShapedLength
<1>2. m.kind \in {"OPEN", "KEEPALIVE", "NOTIFICATION"}
  <2>1. n \in Nat
    OBVIOUS
  <2>2. m.kind \in {"OPEN", "UPDATE", "KEEPALIVE", "NOTIFICATION"}
    BY <2>1, ShapedParts
  <2> QED BY <2>2
<1>3. CASE m.kind = "OPEN"
  <2>1. Decode(m, behind) = DecodeFixed(m, behind)
    BY <1>3 DEF Decode
  <2> QED BY <1>1, <2>1 DEF DecodeFixed
<1>4. CASE m.kind = "KEEPALIVE"
  <2>1. Decode(m, behind) = DecodeKeepalive(m)
    BY <1>4 DEF Decode
  <2> QED BY <1>1, <2>1 DEF DecodeKeepalive
<1>5. CASE m.kind = "NOTIFICATION" /\ behind = 0
  <2> DEFINE e == Min({HeaderLen + Length(m), BufferLen(m, behind)})
  <2>1. Size(m) = 21 + m.data /\ m.data \in 0..63
    <3>1. n \in Nat
      OBVIOUS
    <3>2. m.data \in 0..63
      BY <3>1, ShapedParts
    <3> QED BY <1>5, <3>2, ShapedSizes
  <2>2. e = Size(m)
    <3> DEFINE k == Size(m)
               l == HeaderLen + Length(m)
               b == BufferLen(m, behind)
    <3>1. k \in 21..84
      BY <2>1
    <3>2. b = k /\ l = 19 + k
      BY <1>1, <1>5, <3>1 DEF BufferLen, KeepaliveSize, HeaderLen
    <3> HIDE DEF k, l, b
    <3>3. l \in Int /\ b \in Int /\ b <= l
      BY <3>1, <3>2
    <3>4. Min({b, l}) = b
      BY <3>3, MinOfTwo
    <3>5. {b, l} = {l, b}
      OBVIOUS
    <3> QED BY <3>2, <3>4, <3>5 DEF k, l, b
  <2>3. [m EXCEPT !.data = e - 21] = m
    <3>1. e - 21 = m.data
      BY <2>1, <2>2
    <3>2. m = Notification(m.data)
      <4>1. m # Keepalive /\ m # Open(m.params) /\ m # Update(m.withdrawn, m.attrs, m.nlri)
        BY <1>5, KindOf
      <4> QED BY <4>1 DEF Shaped
    <3> HIDE DEF e
    <3> QED BY <3>1, <3>2 DEF Notification, Blank
  <2>4. Decode(m, behind) = [message |-> [m EXCEPT !.data = e - 21], consumed |-> e]
    BY <1>5 DEF Decode, DecodeNotification
  <2> HIDE DEF e
  <2> QED BY <2>2, <2>3, <2>4, SMTT(20)
<1> QED BY <1>2, <1>3, <1>4, <1>5

-----------------------------------------------------------------------------
(* What the decoder and the semantic mutators make of a shape *)

LEMMA DecodedShape ==
  ASSUME NEW n \in Nat, NEW a \in Shapes(n)
  PROVE  DecodeAttribute(a) \in Shapes(n)
<1>1. /\ a.code \in 1..15 /\ a.size \in 0..401
      /\ DecodeAttribute(a).size = a.size
      /\ a.code = 2 => a.size <= 152 + 6 * n
      /\ a.size > 255 => a.code \in {14, 15}
  BY ShapeFacts
<1>2. CASE \E type \in Types : type.code = a.code
  <2>1. PICK type \in Types : type.code = a.code
    BY <1>2
  <2> DEFINE bytes == IF type.whole THEN a.size ELSE type.least
  <2>2. DecodeAttribute(a) = Attribute(type, bytes)
    BY <2>1, DecodedSize
  <2>3. bytes = a.size
    BY <1>1, <2>2 DEF Attribute
  <2>a. type.whole \/ bytes = type.least
    OBVIOUS
  <2> HIDE DEF bytes
  <2>4. /\ bytes \in 0..401
        /\ type.code = 2 => bytes <= 152 + 6 * n
        /\ bytes > 255 => type.code \in {14, 15}
    BY <1>1, <2>1, <2>3
  <2>5. Attribute(type, bytes) \in Shapes(n)
    BY <2>a, <2>4, TypedShape, Zenon
  <2> QED BY <2>2, <2>5
<1>3. CASE ~\E type \in Types : type.code = a.code
  BY <1>3, DecodedRaw
<1> QED BY <1>2, <1>3

LEMMA ShapesGrow ==
  ASSUME NEW n \in Nat
  PROVE  Shapes(n) \subseteq Shapes(n + 1)
<1> SUFFICES ASSUME NEW a \in Shapes(n) PROVE a \in Shapes(n + 1)
  OBVIOUS
<1>1. a.code = 2 => a.size <= 152 + 6 * (n + 1)
  BY ShapeFacts
<1> QED BY <1>1 DEF Shapes

\* Replacing the lists of an UPDATE by others of the right shape.
LEMMA NewLists ==
  ASSUME NEW m, NEW n \in Nat, Shaped(m, n), NEW i \in Nat,
         NEW A \in Seq(Shapes(i)), Len(A) <= 5 + i,
         NEW r \in Seq(PrefixStrategy), Len(r) <= 9,
         m.kind # "UPDATE" => A = m.attrs /\ r = m.nlri
  PROVE  Shaped([m EXCEPT !.attrs = A, !.nlri = r], i)
<1>1. CASE m.kind = "UPDATE"
  <2>1. /\ m = Update(m.withdrawn, m.attrs, m.nlri)
        /\ m.withdrawn \in Seq(PrefixStrategy) /\ Len(m.withdrawn) <= 4
    <3>1. m # Keepalive /\ m # Open(m.params) /\ m # Notification(m.data)
      BY <1>1, KindOf
    <3> QED BY <3>1 DEF Shaped
  <2> DEFINE d == [m EXCEPT !.attrs = A, !.nlri = r]
  <2>2. d = Update(m.withdrawn, A, r)
    BY <2>1 DEF Update, Blank
  <2>3. d.withdrawn = m.withdrawn /\ d.attrs = A /\ d.nlri = r
    BY <2>2 DEF Update, Blank
  <2> HIDE DEF d
  <2>4. Shaped(d, i)
    BY <2>1, <2>2, <2>3 DEF Shaped
  <2> QED BY <2>4 DEF d
<1>2. CASE m.kind # "UPDATE"
  <2>1. /\ m # Update(m.withdrawn, m.attrs, m.nlri)
        /\ \/ m = Open(m.params) /\ m.params \in Seq(ParamStrategy) /\ Len(m.params) <= 4
           \/ m = Keepalive
           \/ m = Notification(m.data) /\ m.data \in 0..63
    BY <1>2, KindOf DEF Shaped
  <2>2. [m EXCEPT !.attrs = m.attrs, !.nlri = m.nlri] = m
    BY <2>1 DEF Open, Keepalive, Notification, Blank
  <2>3. Shaped(m, i)
    BY <2>1 DEF Shaped
  <2> QED BY <1>2, <2>2, <2>3, Zenon
<1> QED BY <1>1, <1>2

LEMMA NewAttributes ==
  ASSUME NEW m, NEW n \in Nat, Shaped(m, n), NEW i \in Nat,
         NEW A \in Seq(Shapes(i)), Len(A) <= 5 + i,
         m.kind # "UPDATE" => A = m.attrs
  PROVE  Shaped([m EXCEPT !.attrs = A], i)
<1>1. m.nlri \in Seq(PrefixStrategy) /\ Len(m.nlri) <= 9
  BY ShapedParts
<1>2. Shaped([m EXCEPT !.attrs = A, !.nlri = m.nlri], i)
  BY <1>1, NewLists
<1>3. [m EXCEPT !.attrs = A, !.nlri = m.nlri] = [m EXCEPT !.attrs = A]
  <2>1. \/ m = Open(m.params) \/ m = Update(m.withdrawn, m.attrs, m.nlri)
        \/ m = Keepalive \/ m = Notification(m.data)
    BY DEF Shaped
  <2> QED BY <2>1 DEF Open, Update, Keepalive, Notification, Blank
<1> QED BY <1>2, <1>3

LEMMA ShapedGrows ==
  ASSUME NEW m, NEW n \in Nat, Shaped(m, n)
  PROVE  Shaped(m, n + 1)
<1>1. m.attrs \in Seq(Shapes(n)) /\ Len(m.attrs) <= 5 + n
  BY ShapedParts
<1>2. m.attrs \in Seq(Shapes(n + 1))
  BY <1>1, ShapesGrow
<1> QED BY <1>1, <1>2 DEF Shaped

\* What SelectInSeq gives is one of the indices at which its test holds, or 0.
LEMMA Selected ==
  ASSUME NEW I \in SUBSET Nat, NEW k, k = IF I # {} THEN Min(I) ELSE 0
  PROVE  k = 0 \/ k \in I
<1>1. CASE I # {}
  <2>1. PICK i \in I : \A j \in I : i <= j
    BY <1>1, LeastElement
  <2>2. Min(I) \in I
    BY <2>1 DEF Min
  <2> QED BY <1>1, <2>2
<1>2. CASE I = {}
  BY <1>2
<1> QED BY <1>1, <1>2

\* A new size for an attribute of a known type.
LEMMA ResizedShape ==
  ASSUME NEW n \in Nat, NEW a \in Shapes(n), NEW i \in Nat, NEW bytes \in 0..255,
         NEW type \in Types, a.code = type.code, type.whole \/ bytes = type.least,
         a.code = 2 => bytes <= 152 + 6 * i
  PROVE  [a EXCEPT !.size = bytes] \in Shapes(i)
<1> DEFINE b == [a EXCEPT !.size = bytes]
<1>1. b = [code |-> a.code, flags |-> a.flags, size |-> bytes]
  <2>1. a = [code |-> a.code, flags |-> a.flags, size |-> a.size]
    BY ShapeFacts
  <2> QED BY <2>1
<1>2. b.code = a.code /\ b.flags = a.flags /\ b.size = bytes
  BY <1>1
<1>3. b \in [code : 1..15, flags : SUBSET {"optional", "transitive"}, size : 0..401]
  <2>1. a.code \in 1..15 /\ a.flags \in SUBSET {"optional", "transitive"}
    BY ShapeFacts
  <2>2. bytes \in 0..401
    OBVIOUS
  <2> QED BY <1>1, <2>1, <2>2
<1> HIDE DEF b
<1>4. DecodeAttribute(b) = Attribute(type, IF type.whole THEN b.size ELSE type.least)
  BY <1>2, DecodedSize
<1>5. DecodeAttribute(b).size = b.size
  BY <1>2, <1>4 DEF Attribute
<1>6. ~(b.size > 255)
  BY <1>2
<1>7. b.code = 2 => b.size <= 152 + 6 * i
  BY <1>2
<1> QED BY <1>3, <1>5, <1>6, <1>7 DEF Shapes, b

\* The attributes of a message, seen as what the next mutator may leave.
LEMMA AttributesAfter ==
  ASSUME NEW m, NEW n \in Nat, Shaped(m, n)
  PROVE  /\ m.attrs \in Seq(Shapes(n)) /\ m.attrs \in Seq(Shapes(n + 1))
         /\ Len(m.attrs) \in Nat /\ Len(m.attrs) <= 5 + n
         /\ DOMAIN m.attrs = 1..Len(m.attrs)
         /\ \A k \in DOMAIN m.attrs : m.attrs[k] \in Shapes(n) /\ m.attrs[k] \in Shapes(n + 1)
         /\ m.kind # "UPDATE" => m.attrs = <<>> /\ Len(m.attrs) = 0 /\ DOMAIN m.attrs = {}
<1>1. /\ m.attrs \in Seq(Shapes(n)) /\ Len(m.attrs) <= 5 + n
      /\ m.kind # "UPDATE" => m.attrs = <<>>
  BY ShapedParts
<1>2. m.attrs \in Seq(Shapes(n + 1))
  BY <1>1, ShapesGrow
<1>3. Len(m.attrs) \in Nat /\ DOMAIN m.attrs = 1..Len(m.attrs)
  BY <1>1
<1>4. \A k \in DOMAIN m.attrs : m.attrs[k] \in Shapes(n) /\ m.attrs[k] \in Shapes(n + 1)
  BY <1>1, <1>2
<1>5. m.kind # "UPDATE" => Len(m.attrs) = 0 /\ DOMAIN m.attrs = {}
  BY <1>1
<1> QED BY <1>1, <1>2, <1>3, <1>4, <1>5

LEMMA ReorderShaped ==
  ASSUME NEW m, NEW n \in Nat, Shaped(m, n)
  PROVE  Shaped(ReorderAttributes(m), n + 1)
<1> DEFINE A == [m.attrs EXCEPT ![1] = m.attrs[2], ![2] = m.attrs[1]]
<1>1. CASE Len(m.attrs) < 2
  BY <1>1, ShapedGrows DEF ReorderAttributes
<1>2. CASE ~(Len(m.attrs) < 2)
  <2>1. /\ m.attrs \in Seq(Shapes(n + 1)) /\ Len(m.attrs) \in Nat
        /\ Len(m.attrs) <= 5 + n /\ DOMAIN m.attrs = 1..Len(m.attrs)
        /\ m.kind # "UPDATE" => Len(m.attrs) = 0
    BY AttributesAfter
  <2>2. 1 \in DOMAIN m.attrs /\ 2 \in DOMAIN m.attrs
    BY <1>2, <2>1
  <2>3. A \in Seq(Shapes(n + 1)) /\ Len(A) = Len(m.attrs)
    BY <2>1, <2>2
  <2>4. Len(A) <= 5 + (n + 1) /\ n + 1 \in Nat /\ m.kind = "UPDATE"
    BY <1>2, <2>1, <2>3
  <2>5. ReorderAttributes(m) = [m EXCEPT !.attrs = A]
    BY <1>2 DEF ReorderAttributes
  <2> HIDE DEF A
  <2> QED BY <2>3, <2>4, <2>5, NewAttributes
<1> QED BY <1>1, <1>2

LEMMA FlipShaped ==
  ASSUME NEW m, NEW n \in Nat, Shaped(m, n), NEW index
  PROVE  Shaped(FlipAttrFlags(m, index), n + 1)
<1> DEFINE a == m.attrs[index]
           b == [a EXCEPT !.flags = SymDiff(a.flags, {"optional", "transitive"})]
           A == [m.attrs EXCEPT ![index] = b]
<1>1. CASE index \notin DOMAIN m.attrs
  BY <1>1, ShapedGrows DEF FlipAttrFlags
<1>2. CASE index \in DOMAIN m.attrs
  <2>1. /\ m.attrs \in Seq(Shapes(n + 1)) /\ Len(m.attrs) \in Nat
        /\ Len(m.attrs) <= 5 + n /\ DOMAIN m.attrs = 1..Len(m.attrs)
        /\ m.kind # "UPDATE" => DOMAIN m.attrs = {}
        /\ a \in Shapes(n + 1)
    BY <1>2, AttributesAfter
  <2>2. b \in Shapes(n + 1)
    <3> HIDE DEF a
    <3>0. n + 1 \in Nat
      OBVIOUS
    <3>1. /\ a = [code |-> a.code, flags |-> a.flags, size |-> a.size]
          /\ a.code \in 1..15 /\ a.size \in 0..401
          /\ a.flags \in SUBSET {"optional", "transitive"}
          /\ DecodeAttribute(a).size = a.size
          /\ a.code = 2 => a.size <= 152 + 6 * (n + 1)
          /\ a.size > 255 => a.code \in {14, 15}
      BY <2>1, <3>0, ShapeFacts
    <3>2. b = [code |-> a.code, flags |-> b.flags, size |-> a.size]
      BY <3>1
    <3>3. b.flags \in SUBSET {"optional", "transitive"}
      BY <3>1 DEF SymDiff
    <3>4. b.code = a.code /\ b.size = a.size
      BY <3>2
    <3> HIDE DEF b
    <3>5. b \in [code : 1..15, flags : SUBSET {"optional", "transitive"}, size : 0..401]
      BY <3>1, <3>2, <3>3
    <3>6. DecodeAttribute(b).size = b.size
      <4>1. CASE \E type \in Types : type.code = a.code
        <5>1. PICK type \in Types : type.code = a.code
          BY <4>1
        <5>2. /\ DecodeAttribute(a) = Attribute(type, IF type.whole THEN a.size ELSE type.least)
              /\ DecodeAttribute(b) = Attribute(type, IF type.whole THEN b.size ELSE type.least)
          BY <3>4, <5>1, DecodedSize
        <5> QED BY <3>1, <3>4, <5>2
      <4>2. CASE ~\E type \in Types : type.code = a.code
        BY <3>4, <4>2, DecodedRaw
      <4> QED BY <4>1, <4>2
    <3>7. b.code = 2 => b.size <= 152 + 6 * (n + 1)
      BY <3>1, <3>4
    <3>8. b.size > 255 => b.code \in {14, 15}
      BY <3>1, <3>4
    <3> QED BY <3>5, <3>6, <3>7, <3>8 DEF Shapes
  <2>3. FlipAttrFlags(m, index) = [m EXCEPT !.attrs = A]
    BY <1>2 DEF FlipAttrFlags
  <2> HIDE DEF b
  <2>4. A \in Seq(Shapes(n + 1)) /\ Len(A) = Len(m.attrs)
    BY <1>2, <2>1, <2>2
  <2>5. Len(A) <= 5 + (n + 1) /\ n + 1 \in Nat /\ m.kind = "UPDATE"
    BY <1>2, <2>1, <2>4
  <2> HIDE DEF A
  <2> QED BY <2>3, <2>4, <2>5, NewAttributes
<1> QED BY <1>1, <1>2

LEMMA DuplicateShaped ==
  ASSUME NEW m, NEW n \in Nat, Shaped(m, n), NEW index
  PROVE  Shaped(DuplicateAttribute(m, index), n + 1)
<1> DEFINE A == Append(m.attrs, m.attrs[index])
<1>1. CASE index \notin DOMAIN m.attrs
  BY <1>1, ShapedGrows DEF DuplicateAttribute
<1>2. CASE index \in DOMAIN m.attrs
  <2>1. /\ m.attrs \in Seq(Shapes(n + 1)) /\ Len(m.attrs) \in Nat
        /\ Len(m.attrs) <= 5 + n
        /\ m.kind # "UPDATE" => DOMAIN m.attrs = {}
        /\ m.attrs[index] \in Shapes(n + 1)
    BY <1>2, AttributesAfter
  <2>2. A \in Seq(Shapes(n + 1)) /\ Len(A) = Len(m.attrs) + 1
    BY <2>1
  <2>3. Len(A) <= 5 + (n + 1) /\ n + 1 \in Nat /\ m.kind = "UPDATE"
    BY <1>2, <2>1, <2>2
  <2>4. DuplicateAttribute(m, index) = [m EXCEPT !.attrs = A]
    BY <1>2 DEF DuplicateAttribute
  <2> HIDE DEF A
  <2> QED BY <2>2, <2>3, <2>4, NewAttributes
<1> QED BY <1>1, <1>2

LEMMA CorruptShaped ==
  ASSUME NEW m, NEW n \in Nat, Shaped(m, n), NEW delta \in Int
  PROVE  Shaped(CorruptNlriPrefixLen(m, delta), n + 1)
<1> DEFINE r == [k \in DOMAIN m.nlri |-> Max({0, Min({255, m.nlri[k] + delta})})]
<1>1. /\ m.nlri \in Seq(PrefixStrategy) /\ Len(m.nlri) <= 9
      /\ m.attrs \in Seq(Shapes(n)) /\ Len(m.attrs) <= 5 + n
      /\ m.kind # "UPDATE" => m.nlri = <<>>
  BY ShapedParts
<1>2. Len(m.nlri) \in Nat /\ DOMAIN m.nlri = 1..Len(m.nlri)
  BY <1>1
<1>3. ASSUME NEW k \in DOMAIN m.nlri PROVE r[k] \in PrefixStrategy
  <2>1. m.nlri[k] \in PrefixStrategy
    BY <1>1
  <2>2. m.nlri[k] + delta \in Int
    BY <2>1 DEF PrefixStrategy
  <2> DEFINE x == m.nlri[k] + delta
  <2>3. Max({0, Min({255, x})}) \in 0..255
    <3> DEFINE low == 0 high == 255
    <3>1. x \in Int /\ low \in Int /\ high \in Int /\ low <= high
      BY <2>2
    <3> HIDE DEF x, low, high
    <3>2. Max({low, Min({high, x})}) \in low..high
      BY <3>1, Clamped, Zenon
    <3> QED BY <3>2 DEF low, high
  <2> QED BY <2>3, Zenon DEF PrefixStrategy
<1>4. r \in Seq(PrefixStrategy) /\ Len(r) = Len(m.nlri)
  <2>1. DOMAIN r = 1..Len(m.nlri)
    BY <1>2
  <2>2. r \in [1..Len(m.nlri) -> PrefixStrategy]
    BY <1>2, <1>3
  <2> HIDE DEF r
  <2> QED BY <1>2, <2>1, <2>2
<1>5. m.kind # "UPDATE" => r = m.nlri
  BY <1>1
<1>6. [m EXCEPT !.nlri = r] = [m EXCEPT !.attrs = m.attrs, !.nlri = r]
  <2> HIDE DEF r
  <2>1. \/ m = Open(m.params) \/ m = Update(m.withdrawn, m.attrs, m.nlri)
        \/ m = Keepalive \/ m = Notification(m.data)
    BY DEF Shaped
  <2> QED BY <2>1 DEF Open, Update, Keepalive, Notification, Blank
<1>7. CorruptNlriPrefixLen(m, delta) = [m EXCEPT !.nlri = r]
  BY DEF CorruptNlriPrefixLen
<1> HIDE DEF r
<1>8. Shaped([m EXCEPT !.attrs = m.attrs, !.nlri = r], n)
  BY <1>1, <1>4, <1>5, NewLists
<1>9. Shaped(CorruptNlriPrefixLen(m, delta), n)
  BY <1>6, <1>7, <1>8
<1> QED BY <1>9, ShapedGrows

\* Setting the size of an attribute of a known type.
LEMMA ResizeShaped ==
  ASSUME NEW m, NEW n \in Nat, Shaped(m, n), NEW k \in DOMAIN m.attrs,
         NEW bytes \in 0..255, NEW type \in Types, m.attrs[k].code = type.code,
         type.whole \/ bytes = type.least,
         type.code = 2 => bytes <= 152 + 6 * (n + 1)
  PROVE  Shaped([m EXCEPT !.attrs[k].size = bytes], n + 1)
<1> DEFINE a == m.attrs[k]
           b == [a EXCEPT !.size = bytes]
           A == [m.attrs EXCEPT ![k] = b]
<1>1. /\ m.attrs \in Seq(Shapes(n + 1)) /\ Len(m.attrs) \in Nat
      /\ Len(m.attrs) <= 5 + n
      /\ m.kind # "UPDATE" => DOMAIN m.attrs = {}
      /\ a \in Shapes(n)
  BY AttributesAfter, Zenon
<1>2. b \in Shapes(n + 1)
  <2>1. n + 1 \in Nat /\ a.code = type.code
    OBVIOUS
  <2>2. a.code = 2 => bytes <= 152 + 6 * (n + 1)
    OBVIOUS
  <2> HIDE DEF a
  <2> QED BY <1>1, <2>1, <2>2, ResizedShape, Zenon
<1>3. [m EXCEPT !.attrs[k].size = bytes] = [m EXCEPT !.attrs = A]
  OBVIOUS
<1> HIDE DEF b
<1>4. A \in Seq(Shapes(n + 1)) /\ Len(A) = Len(m.attrs)
  BY <1>1, <1>2
<1>5. Len(A) <= 5 + (n + 1) /\ n + 1 \in Nat /\ m.kind = "UPDATE"
  BY <1>1, <1>4
<1> HIDE DEF A
<1> QED BY <1>3, <1>4, <1>5, NewAttributes

LEMMA LoopShaped ==
  ASSUME NEW m, NEW n \in 0..1, Shaped(m, n)
  PROVE  Shaped(InjectAsLoop(m), n + 1)
<1> DEFINE k == SelectInSeq(m.attrs, LAMBDA a : a.code = 2)
           I == {i \in 1..Len(m.attrs) : m.attrs[i].code = 2}
<1>0. n \in Nat /\ 2 \in Nat
  OBVIOUS
<1>1. InjectAsLoop(m) = IF k = 0 THEN m ELSE [m EXCEPT !.attrs[k].size = m.attrs[k].size + 6]
  BY DEF InjectAsLoop
<1>2. k = 0 \/ (k \in DOMAIN m.attrs /\ m.attrs[k].code = 2 /\ m.attrs[k] \in Shapes(n))
  <2>1. k = IF I # {} THEN Min(I) ELSE 0
    BY DEF SelectInSeq
  <2>2. I \in SUBSET Nat
    OBVIOUS
  <2>3. /\ DOMAIN m.attrs = 1..Len(m.attrs)
        /\ \A i \in DOMAIN m.attrs : m.attrs[i] \in Shapes(n)
    BY <1>0, AttributesAfter
  <2>4. k = 0 \/ k \in I
    <3> HIDE DEF k, I
    <3> QED BY <2>1, <2>2, Selected
  <2> HIDE DEF k
  <2> QED BY <2>3, <2>4
<1> HIDE DEF k
<1>3. CASE k = 0
  BY <1>0, <1>1, <1>3, ShapedGrows
<1>4. CASE k # 0
  <2>1. k \in DOMAIN m.attrs /\ m.attrs[k].code = 2 /\ m.attrs[k] \in Shapes(n)
    BY <1>2, <1>4
  <2> DEFINE bytes == m.attrs[k].size + 6
  <2>2. m.attrs[k].size \in 0..401 /\ m.attrs[k].size <= 152 + 6 * n
    BY <1>0, <2>1, ShapeFacts
  <2>3. bytes \in 0..255 /\ bytes <= 152 + 6 * (n + 1)
    <3> DEFINE x == m.attrs[k].size
    <3>1. x \in 0..401 /\ x <= 152 + 6 * n /\ bytes = x + 6
      BY <2>2
    <3> HIDE DEF x, bytes
    <3>2. x \in Int /\ 0 <= x /\ n \in Int /\ n <= 1
      BY <3>1
    <3> QED BY <3>1, <3>2
  <2>4. AsPath \in Types /\ AsPath.code = 2 /\ AsPath.whole
    BY TypeCodes DEF Types, AsPath, Type
  <2>5. InjectAsLoop(m) = [m EXCEPT !.attrs[k].size = bytes]
    BY <1>1, <1>4
  <2> HIDE DEF bytes
  <2>6. Shaped([m EXCEPT !.attrs[k].size = bytes], n + 1)
    <3>1. m.attrs[k].code = AsPath.code /\ (AsPath.whole \/ bytes = AsPath.least)
      BY <2>1, <2>4
    <3>2. AsPath.code = 2 => bytes <= 152 + 6 * (n + 1)
      BY <2>3
    <3> QED BY <1>0, <2>1, <2>3, <2>4, <3>1, <3>2, ResizeShaped, Zenon
  <2> QED BY <2>5, <2>6
<1> QED BY <1>3, <1>4

LEMMA NextHopShaped ==
  ASSUME NEW m, NEW n \in Nat, Shaped(m, n)
  PROVE  Shaped(SelfReferencingNextHop(m), n + 1)
<1> DEFINE k == SelectInSeq(m.attrs, LAMBDA a : a.code = 3)
           I == {i \in 1..Len(m.attrs) : m.attrs[i].code = 3}
<1>1. SelfReferencingNextHop(m) = IF k = 0 THEN m ELSE [m EXCEPT !.attrs[k].size = 4]
  BY DEF SelfReferencingNextHop
<1>2. k = 0 \/ (k \in DOMAIN m.attrs /\ m.attrs[k].code = 3)
  <2>1. k = IF I # {} THEN Min(I) ELSE 0
    BY DEF SelectInSeq
  <2>2. I \in SUBSET Nat
    OBVIOUS
  <2>3. DOMAIN m.attrs = 1..Len(m.attrs)
    BY AttributesAfter
  <2>4. k = 0 \/ k \in I
    <3> HIDE DEF k, I
    <3> QED BY <2>1, <2>2, Selected
  <2> HIDE DEF k
  <2> QED BY <2>3, <2>4
<1> HIDE DEF k
<1>3. CASE k = 0
  BY <1>1, <1>3, ShapedGrows
<1>4. CASE k # 0
  <2>1. k \in DOMAIN m.attrs /\ m.attrs[k].code = 3
    BY <1>2, <1>4
  <2>2. NextHop \in Types /\ NextHop.code = 3 /\ NextHop.least = 4
    BY TypeCodes DEF Types, NextHop, Type
  <2>3. 4 \in 0..255 /\ NextHop.code # 2
    BY <2>2
  <2>4. m.attrs[k].code = NextHop.code /\ 4 = NextHop.least
    BY <2>1, <2>2
  <2>5. Shaped([m EXCEPT !.attrs[k].size = 4], n + 1)
    BY <2>1, <2>2, <2>3, <2>4, ResizeShaped, Zenon
  <2> QED BY <1>1, <1>4, <2>5
<1> QED BY <1>3, <1>4

\* Halving an optional parameter.
LEMMA TruncateShaped ==
  ASSUME NEW m, NEW n \in Nat, Shaped(m, n), NEW c
  PROVE  Shaped(TruncateCapParam(m, c), n + 1)
<1> DEFINE k == SelectInSeq(m.params, LAMBDA p : p.type = c /\ p.size > 0)
           I == {i \in 1..Len(m.params) : m.params[i].type = c /\ m.params[i].size > 0}
<1>0. /\ m.params \in Seq(ParamStrategy) /\ Len(m.params) <= 4
      /\ m.kind # "OPEN" => m.params = <<>>
  BY ShapedParts
<1>1. TruncateCapParam(m, c) =
        IF k = 0 THEN m ELSE [m EXCEPT !.params[k].size = m.params[k].size \div 2]
  BY DEF TruncateCapParam
<1>2. k = IF I # {} THEN Min(I) ELSE 0
  BY DEF SelectInSeq
<1>4. k = 0 \/ k \in 1..Len(m.params)
  <2>1. I \in SUBSET Nat
    OBVIOUS
  <2>2. k = 0 \/ k \in I
    <3> HIDE DEF k, I
    <3> QED BY <1>2, <2>1, Selected
  <2> QED BY <2>2
<1> HIDE DEF k
<1>5. CASE k = 0
  BY <1>1, <1>5, ShapedGrows
<1>6. CASE k # 0
  <2>1. k \in DOMAIN m.params /\ m.params[k] \in ParamStrategy
    BY <1>0, <1>4, <1>6
  <2> DEFINE q == m.params[k]
             h == q.size \div 2
             r == [q EXCEPT !.size = h]
             P == [m.params EXCEPT ![k] = r]
             d == [m EXCEPT !.params = P]
  <2>2. m = Open(m.params)
    <3>1. m.kind = "OPEN"
      BY <1>0, <2>1
    <3>2. /\ m # Keepalive /\ m # Update(m.withdrawn, m.attrs, m.nlri)
          /\ m # Notification(m.data)
      BY <3>1, KindOf
    <3> QED BY <3>2 DEF Shaped
  <2>3. r \in ParamStrategy
    <3>1. q \in [type : 0..255, size : 0..15]
      BY <2>1 DEF ParamStrategy
    <3>2. h \in 0..15
      BY <3>1
    <3> HIDE DEF q, h
    <3>3. r \in [type : 0..255, size : 0..15]
      BY <3>1, <3>2
    <3> QED BY <3>3 DEF ParamStrategy
  <2>4. [m EXCEPT !.params[k].size = q.size \div 2] = d
    OBVIOUS
  <2> HIDE DEF r
  <2>5. P \in Seq(ParamStrategy) /\ Len(P) <= 4
    BY <1>0, <2>1, <2>3
  <2> HIDE DEF P
  <2>6. d = Open(P) /\ d.params = P
    BY <2>2 DEF Open, Blank
  <2> HIDE DEF d
  <2>7. Shaped(d, n + 1)
    BY <2>5, <2>6 DEF Shaped
  <2>8. TruncateCapParam(m, c) = d
    BY <1>1, <1>6, <2>4
  <2> QED BY <2>7, <2>8
<1> QED BY <1>5, <1>6

LEMMA DropShaped ==
  ASSUME NEW m, NEW n \in Nat, Shaped(m, n), NEW c
  PROVE  Shaped(DropMandatory(m, c), n + 1)
<1> DEFINE s == m.attrs
           l == Len(s)
           S == Seq(Shapes(n + 1))
           step == [k \in 1..l |->
                      [x \in S |-> IF s[k].code = c THEN x ELSE Append(x, s[k])]]
           Body(h) == [k \in 0..l |-> IF k = 0 THEN <<>>
                                      ELSE IF s[k].code = c THEN h[k - 1]
                                      ELSE Append(h[k - 1], s[k])]
           kept == CHOOSE h : h = Body(h)
<1>1. /\ s \in S /\ l \in Nat /\ l <= 5 + n
      /\ \A k \in 1..l : s[k] \in Shapes(n + 1)
      /\ m.kind # "UPDATE" => s = <<>> /\ l = 0
  BY AttributesAfter
<1>2. DropMandatory(m, c) = [m EXCEPT !.attrs = kept[l]]
  BY DEF DropMandatory
<1> HIDE DEF s, l
<1>3. <<>> \in S /\ \A k \in 1..l, x \in S : Append(x, s[k]) \in S
  BY <1>1
<1>4. PICK f : Recursion(S, l, <<>>, step, f)
  <2>1. step \in Steps(S, l)
    BY <1>3 DEF Steps
  <2> HIDE DEF step, S
  <2> QED BY <2>1, <1>1, <1>3, RecursiveFunction
<1>5. f = Body(f)
  <2>1. f \in [0..l -> S] /\ f[0] = <<>>
    BY <1>4 DEF Recursion
  <2>2. ASSUME NEW k \in 1..l
        PROVE  f[k] = IF s[k].code = c THEN f[k - 1] ELSE Append(f[k - 1], s[k])
    <3>1. k - 1 \in 0..l
      BY <1>1
    <3>2. f[k - 1] \in S
      BY <2>1, <3>1
    <3>3. f[k] = step[k][f[k - 1]]
      BY <1>4 DEF Recursion
    <3> HIDE DEF S
    <3> QED BY <3>2, <3>3
  <2> HIDE DEF S, step
  <2>3. \A k \in 0..l : k = 0 \/ k \in 1..l
    BY <1>1
  <2>4. \A k \in 0..l : f[k] = Body(f)[k]
    BY <2>1, <2>2, <2>3, Zenon
  <2> QED BY <2>1, <2>4
<1>6. kept = Body(kept)
  BY <1>5, Zenon
<1> HIDE DEF kept, step
<1>7. /\ kept[0] = <<>>
      /\ \A k \in 1..l : kept[k] = IF s[k].code = c THEN kept[k - 1]
                                   ELSE Append(kept[k - 1], s[k])
  <2>1. kept[0] = Body(kept)[0] /\ \A k \in 1..l : kept[k] = Body(kept)[k]
    BY <1>6
  <2>2. 0 \in 0..l /\ \A k \in 1..l : k \in 0..l /\ k # 0
    BY <1>1
  <2> QED BY <2>1, <2>2
<1> DEFINE T == {i \in Nat : i <= l => kept[i] \in S /\ Len(kept[i]) <= i}
<1>8. 0 \in T
  <2>1. Len(<<>>) = 0 /\ 0 \in Nat
    OBVIOUS
  <2> HIDE DEF S
  <2> QED BY <1>3, <1>7, <2>1
<1>9. ASSUME NEW i \in T PROVE i + 1 \in T
  <2>1. SUFFICES ASSUME i + 1 <= l PROVE kept[i + 1] \in S /\ Len(kept[i + 1]) <= i + 1
    OBVIOUS
  <2>2. i \in Nat /\ i + 1 \in 1..l /\ i + 1 - 1 = i
    BY <1>1, <2>1
  <2>3. kept[i] \in S /\ Len(kept[i]) <= i
    BY <1>1, <2>1
  <2>4. s[i + 1] \in Shapes(n + 1)
    BY <1>1, <2>2
  <2>5. kept[i + 1] = IF s[i + 1].code = c THEN kept[i] ELSE Append(kept[i], s[i + 1])
    BY <1>7, <2>2
  <2>6. Append(kept[i], s[i + 1]) \in S /\ Len(Append(kept[i], s[i + 1])) = Len(kept[i]) + 1
    BY <2>3, <2>4
  <2>7. Len(kept[i]) \in Nat
    BY <2>3
  <2> HIDE DEF S
  <2> QED BY <2>2, <2>3, <2>5, <2>6, <2>7
<1>10. kept[l] \in S /\ Len(kept[l]) <= l
  <2>1. T = Nat
    <3> HIDE DEF T
    <3>1. T \in SUBSET Nat
      BY DEF T
    <3> QED BY <3>1, <1>8, <1>9, SetInduction
  <2>2. l \in T
    BY <1>1, <2>1, Zenon
  <2> QED BY <1>1, <2>2
<1> DEFINE A == kept[l]
<1>11. m.kind # "UPDATE" => A = m.attrs
  <2>1. m.kind # "UPDATE" => A = <<>>
    BY <1>1, <1>7
  <2> QED BY <1>1, <2>1 DEF s
<1>12. A \in Seq(Shapes(n + 1)) /\ Len(A) <= 5 + (n + 1) /\ n + 1 \in Nat
  BY <1>1, <1>10
<1>13. DropMandatory(m, c) = [m EXCEPT !.attrs = A]
  BY <1>2
<1> HIDE DEF A
<1> QED BY <1>11, <1>12, <1>13, NewAttributes

\* A message with n mutators behind it has a shape, whatever the next one is.
LEMMA ApplyShaped ==
  ASSUME NEW m, NEW n \in 0..1, Shaped(m, n), NEW mutator \in SemanticMutators
  PROVE  Shaped(Apply(mutator, m), n + 1)
<1>1. n \in Nat /\ mutator[2] \in Int
  BY DEF SemanticMutators
<1>2. CASE mutator[1] = "ReorderAttributes"
  BY <1>1, <1>2, ReorderShaped DEF Apply
<1>3. CASE mutator[1] = "FlipAttrFlags"
  BY <1>1, <1>3, FlipShaped DEF Apply
<1>4. CASE mutator[1] = "CorruptNlriPrefixLen"
  BY <1>1, <1>4, CorruptShaped DEF Apply
<1>5. CASE mutator[1] = "InjectAsLoop"
  BY <1>5, LoopShaped DEF Apply
<1>6. CASE mutator[1] = "SelfReferencingNextHop"
  BY <1>1, <1>6, NextHopShaped DEF Apply
<1>7. CASE mutator[1] = "DropMandatory"
  BY <1>1, <1>7, DropShaped DEF Apply
<1>8. CASE mutator[1] = "DuplicateAttribute"
  BY <1>1, <1>8, DuplicateShaped DEF Apply
<1>9. CASE mutator[1] = "TruncateCapParam"
  BY <1>1, <1>9, TruncateShaped DEF Apply
<1> QED BY <1>2, <1>3, <1>4, <1>5, <1>6, <1>7, <1>8, <1>9 DEF SemanticMutators

-----------------------------------------------------------------------------
(* The state machine                                                         *)

\* The sizes of encoded messages, and the sizes the bytes can have when l byte
\* mutations are still to come: each deletes one byte or adds up to seven.
MessageSizes == 19..3287
Room(l) == (15 + l)..(4096 - 7 * l)

\* What holds of the message at every stage: its shape, by the number of mutators
\* still to come, and how far the byte mutations can have moved its size.
GInv ==
  /\ TypeOK
  /\ todo \in Seq(SemanticMutators) /\ Len(todo) <= 2
  /\ Structured => Shaped(message, 2 - Len(todo))
  /\ stage = "idle" => ~Structured
  /\ stage = "semantic" => Structured /\ layer = "mutation"
  /\ stage # "semantic" => todo = <<>>
  /\ stage # "classified" => outcome = "none"
  /\ stage # "bytes" => left = 0
  /\ stage = "bytes" =>
       layer = "mutation" /\ left \in 1..4 /\ size \in Room(left)
  /\ layer = "grammar" /\ stage \in {"sent", "classified"} =>
       Structured /\ size = Size(message)
  /\ outcome = "panic" => layer # "grammar"

LEMMA GrammarShaped ==
  ASSUME NEW m, InGrammar(m)
  PROVE  Shaped(m, 0) /\ Shaped(m, 2)
<1>1. Shaped(m, 0)
  <2>1. CASE /\ m = Update(m.withdrawn, m.attrs, m.nlri)
             /\ m.withdrawn \in Seq(PrefixStrategy) /\ Len(m.withdrawn) <= 4
             /\ m.attrs \in Seq(AttributeStrategy) /\ Len(m.attrs) \in 1..5
             /\ m.nlri \in Seq(PrefixStrategy) /\ Len(m.nlri) <= 9
    <3>1. m.attrs \in Seq(Shapes(0))
      BY <2>1, GrammarShapes
    <3>2. Len(m.attrs) <= 5 + 0
      <4> DEFINE l == Len(m.attrs)
      <4>1. l \in 1..5
        BY <2>1
      <4> HIDE DEF l
      <4>2. l <= 5 + 0
        BY <4>1
      <4> QED BY <4>2 DEF l
    <3> QED BY <2>1, <3>1, <3>2 DEF Shaped
  <2>2. CASE ~/\ m = Update(m.withdrawn, m.attrs, m.nlri)
              /\ m.withdrawn \in Seq(PrefixStrategy) /\ Len(m.withdrawn) <= 4
              /\ m.attrs \in Seq(AttributeStrategy) /\ Len(m.attrs) \in 1..5
              /\ m.nlri \in Seq(PrefixStrategy) /\ Len(m.nlri) <= 9
    BY <2>2, Zenon DEF InGrammar, Shaped
  <2> QED BY <2>1, <2>2
<1>2. Shaped(m, 0 + 1)
  BY <1>1, ShapedGrows
<1>3. Shaped(m, 1 + 1)
  BY <1>2, ShapedGrows
<1> QED BY <1>1, <1>3

LEMMA DecodedMessage ==
  ASSUME NEW m, Shaped(m, 0)
  PROVE  Shaped(Decode(m, 0).message, 0)
<1>0. 0 \in 0..2 /\ 0 \in 0..1 /\ 0 \in Nat
  OBVIOUS
<1>1. CASE m.kind = "UPDATE"
  <2> DEFINE A == [k \in DOMAIN m.attrs |-> DecodeAttribute(m.attrs[k])]
  <2>1. Decode(m, 0).message = [m EXCEPT !.attrs = A]
    BY <1>0, <1>1, UpdateDecoded
  <2>2. /\ m.attrs \in Seq(Shapes(0)) /\ Len(m.attrs) \in Nat /\ Len(m.attrs) <= 5 + 0
        /\ DOMAIN m.attrs = 1..Len(m.attrs)
        /\ \A k \in DOMAIN m.attrs : m.attrs[k] \in Shapes(0)
    BY <1>0, AttributesAfter
  <2>3. \A k \in DOMAIN m.attrs : DecodeAttribute(m.attrs[k]) \in Shapes(0)
    BY <1>0, <2>2, DecodedShape
  <2>4. A \in [1..Len(m.attrs) -> Shapes(0)]
    BY <2>2, <2>3
  <2> HIDE DEF A
  <2>5. A \in Seq(Shapes(0)) /\ Len(A) = Len(m.attrs)
    BY <2>2, <2>4
  <2>6. Shaped([m EXCEPT !.attrs = A], 0)
    BY <1>0, <1>1, <2>2, <2>5, NewAttributes
  <2> QED BY <2>1, <2>6
<1>2. CASE m.kind # "UPDATE"
  BY <1>0, <1>2, OtherDecoded
<1> QED BY <1>1, <1>2

LEMMA ShapedIsStructured ==
  ASSUME NEW m, NEW n \in Nat, Shaped(m, n)
  PROVE  m # Opaque
<1>1. m.kind \in {"OPEN", "UPDATE", "KEEPALIVE", "NOTIFICATION"}
  BY ShapedParts
<1>2. Opaque.kind = "opaque"
  BY DEF Opaque, Blank
<1> QED BY <1>1, <1>2

\* A message the grammar encodes, with the length its header has, makes no decoder
\* panic.
LEMMA GrammarDecodes ==
  ASSUME NEW m, Shaped(m, 2)
  PROVE  "panic" \notin DecodeOutcomes(TypeCode(m), Length(m), Size(m))
<1> DEFINE k == Size(m)
<1>0. 2 \in 0..2 /\ 2 \in Nat
  OBVIOUS
<1>1. k \in 19..3287 /\ Length(m) = k
  BY <1>0, ShapedSizes, ShapedLength
<1>2. TypeCode(m) \in 1..4
  <2>1. m.kind \in {"OPEN", "UPDATE", "KEEPALIVE", "NOTIFICATION"}
    BY <1>0, ShapedParts
  <2> QED BY <2>1 DEF TypeCode
<1> DEFINE c == TypeCode(m)
<1> HIDE DEF k, c
<1>3. k \in Int /\ k >= 19
  BY <1>1
<1>4. "panic" \notin DecodeOutcomes(c, k, k)
  <2>1. CASE c = 1
    BY <1>3, <2>1 DEF DecodeOutcomes, HeaderLen
  <2>2. CASE c = 2
    BY <1>3, <2>2 DEF DecodeOutcomes, HeaderLen
  <2>3. CASE c = 3
    BY <1>3, <2>3 DEF DecodeOutcomes, HeaderLen
  <2>4. CASE c = 4
    BY <1>3, <2>4 DEF DecodeOutcomes, HeaderLen
  <2> QED BY <1>2, <2>1, <2>2, <2>3, <2>4 DEF c
<1> QED BY <1>1, <1>4 DEF k, c

\* The invariant.
LEMMA GInvInit == Init => GInv
<1> SUFFICES ASSUME Init PROVE GInv
  OBVIOUS
<1>1. /\ strategy \in Strategies /\ mutators \in MutatorLists /\ stage = "idle"
      /\ layer = "none" /\ message = Opaque /\ outcome = "none" /\ todo = <<>>
      /\ left = 0
  BY DEF Init
<1>2. TypeOK
  BY <1>1 DEF TypeOK
<1>3. <<>> \in Seq(SemanticMutators) /\ Len(<<>>) <= 2
  OBVIOUS
<1> QED BY <1>1, <1>2, <1>3, Zenon DEF GInv, Structured

LEMMA AtMostTwo ==
  ASSUME NEW S, NEW s \in Seq(S), Len(s) <= 2
  PROVE  Len(s) \in 0..2 /\ 2 - Len(s) \in 0..2 /\ 2 - Len(s) \in Nat
<1> DEFINE l == Len(s)
<1>1. l \in Nat /\ l <= 2
  OBVIOUS
<1> HIDE DEF l
<1>2. l \in 0..2 /\ 2 - l \in 0..2 /\ 2 - l \in Nat
  BY <1>1
<1> QED BY <1>2 DEF l

\* The facts of the invariant that every step uses.
LEMMA GInvFacts ==
  ASSUME GInv
  PROVE  /\ strategy \in Strategies /\ mutators \in MutatorLists
         /\ mutators \in Seq(SemanticMutators)
         /\ layer \in {"none"} \cup Layers(strategy)
         /\ stage # "idle" => size \in 15..4096
         /\ todo \in Seq(SemanticMutators) /\ Len(todo) \in 0..2
         /\ 2 - Len(todo) \in 0..2 /\ 2 - Len(todo) \in Nat
<1>1. mutators \in MutatorLists
  BY DEF GInv, TypeOK
<1>2. mutators \in Seq(SemanticMutators)
  BY <1>1, GeneratorAssumption
<1>3. stage # "idle" => size \in 15..4096
  BY DEF GInv, TypeOK
<1>4. todo \in Seq(SemanticMutators) /\ Len(todo) <= 2
  BY DEF GInv
<1>5. Len(todo) \in 0..2 /\ 2 - Len(todo) \in 0..2 /\ 2 - Len(todo) \in Nat
  BY <1>4, AtMostTwo
<1> QED BY <1>1, <1>2, <1>3, <1>4, <1>5 DEF GInv, TypeOK

LEMMA NoneLeft == <<>> \in Seq(SemanticMutators) /\ Len(<<>>) = 0 /\ 2 - Len(<<>>) = 2
  OBVIOUS

LEMMA GrammarMessageKeeps ==
  ASSUME GInv, GrammarMessage
  PROVE  GInv'
<1>1. /\ stage = "idle" /\ message' \in GrammarMessages /\ size' = Size(message')
      /\ layer' = "grammar" /\ stage' = "sent" /\ "grammar" \in Layers(strategy)
      /\ strategy' = strategy /\ mutators' = mutators /\ todo' = todo
      /\ left' = left /\ outcome' = outcome
  BY DEF GrammarMessage
<1>2. /\ todo = <<>> /\ outcome = "none" /\ left = 0
      /\ strategy \in Strategies /\ mutators \in MutatorLists
  BY <1>1 DEF GInv, TypeOK
<1>3. Shaped(message', 2)
  <2>1. InGrammar(message')
    BY <1>1, GeneratorAssumption
  <2> QED BY <2>1, GrammarShaped
<1>4. message' # Opaque
  <2>1. 2 \in Nat
    OBVIOUS
  <2> QED BY <1>3, <2>1, ShapedIsStructured
<1>5. size' \in 19..4096
  <2> DEFINE k == Size(message')
  <2>1. 2 \in 0..2
    BY SMTT(20)
  <2>2. k \in 19..3287
    BY <1>3, <2>1, ShapedSizes
  <2> HIDE DEF k
  <2>3. k \in 19..4096
    BY <2>2
  <2> QED BY <1>1, <2>3 DEF k
<1>6. TypeOK'
  BY <1>1, <1>2, <1>5 DEF TypeOK
<1>7. Shaped(message', 2 - Len(todo'))
  BY <1>1, <1>2, <1>3, NoneLeft
<1>8. todo' \in Seq(SemanticMutators) /\ Len(todo') <= 2
  BY <1>1, <1>2
<1> QED BY <1>1, <1>2, <1>4, <1>6, <1>7, <1>8 DEF GInv, Structured

LEMMA RawMessageKeeps ==
  ASSUME GInv, RawMessage
  PROVE  GInv'
<1>1. /\ stage = "idle" /\ message' = Opaque /\ size' \in RawSizes
      /\ layer' = "raw" /\ stage' = "sent" /\ "raw" \in Layers(strategy)
      /\ strategy' = strategy /\ mutators' = mutators /\ todo' = todo
      /\ left' = left /\ outcome' = outcome
  BY DEF RawMessage
<1>2. /\ todo = <<>> /\ outcome = "none" /\ left = 0
      /\ strategy \in Strategies /\ mutators \in MutatorLists
  BY <1>1 DEF GInv, TypeOK
<1>3. size' \in 19..4096
  BY <1>1, GeneratorAssumption
<1>4. TypeOK'
  BY <1>1, <1>2, <1>3 DEF TypeOK
<1>5. todo' \in Seq(SemanticMutators) /\ Len(todo') <= 2
  BY <1>1, <1>2
<1> QED BY <1>1, <1>2, <1>4, <1>5 DEF GInv, Structured

\* The bounds of the first byte mutation.
LEMMA RoomForMutations ==
  ASSUME NEW k \in MessageSizes, NEW l \in MutationCounts
  PROVE  k \in 15..4096 /\ l \in 1..4 /\ l \in 0..4 /\ k \in Room(l)
<1> USE DEF MessageSizes, Room
<1>1. l \in Int /\ 1 <= l /\ l <= 4
  BY DEF MutationCounts
<1>2. k \in Int /\ 19 <= k /\ k <= 3287
  OBVIOUS
<1>3. 15 + l <= k /\ 15 + l \in Int
  BY <1>1, <1>2
<1>4. k <= 4096 - 7 * l /\ 4096 - 7 * l \in Int
  BY <1>1, <1>2
<1>5. l \in 0..4 /\ l \in 1..4 /\ k \in 15..4096
  BY <1>1, <1>2
<1>6. k \in (15 + l)..(4096 - 7 * l)
  BY <1>2, <1>3, <1>4
<1> QED BY <1>5, <1>6

LEMMA MutationMessageKeeps ==
  ASSUME GInv, MutationMessage
  PROVE  GInv'
<1>1. /\ stage = "idle" /\ "mutation" \in Layers(strategy) /\ layer' = "mutation"
      /\ strategy' = strategy /\ mutators' = mutators /\ outcome' = outcome
  BY DEF MutationMessage
<1>2. /\ todo = <<>> /\ outcome = "none" /\ left = 0
      /\ strategy \in Strategies /\ mutators \in MutatorLists
  BY <1>1 DEF GInv, TypeOK
<1>3. PICK base \in GrammarMessages :
        /\ size' = Size(base)
        /\ \/ message' = base /\ todo' = <<>> /\ stage' = "bytes" /\ left' \in MutationCounts
           \/ /\ \E pick \in DOMAIN mutators :
                   todo' = SubSeq(mutators, pick, Min({pick + 1, Len(mutators)}))
              /\ message' = Decode(base, 0).message /\ stage' = "semantic"
              /\ left' = left
  BY DEF MutationMessage
<1>4. Shaped(base, 0) /\ Shaped(base, 2)
  BY GeneratorAssumption, GrammarShaped
<1>5. 0 \in 0..2 /\ 2 \in 0..2 /\ 0 \in Nat /\ 2 \in Nat
  BY SMTT(20)
<1>6. Size(base) \in 19..3287
  BY <1>4, <1>5, ShapedSizes
<1>7. CASE message' = base /\ todo' = <<>> /\ stage' = "bytes" /\ left' \in MutationCounts
  <2>1. /\ size' \in 15..4096 /\ left' \in 1..4 /\ left' \in 0..4
        /\ size' \in Room(left')
    <3>1. size' \in MessageSizes /\ left' \in MutationCounts
      BY <1>3, <1>6, <1>7 DEF MessageSizes
    <3> QED BY <3>1, RoomForMutations
  <2>2. TypeOK'
    BY <1>1, <1>2, <1>7, <2>1 DEF TypeOK
  <2>3. Shaped(message', 2 - Len(todo'))
    BY <1>4, <1>7, NoneLeft
  <2>4. todo' \in Seq(SemanticMutators) /\ Len(todo') <= 2
    BY <1>7
  <2>5. message' # Opaque
    BY <1>4, <1>5, <1>7, ShapedIsStructured
  <2>6. stage' = "bytes" /\ layer' = "mutation" /\ todo' = <<>> /\ outcome' = "none"
    BY <1>1, <1>2, <1>7
  <2> QED BY <2>1, <2>2, <2>3, <2>4, <2>5, <2>6 DEF GInv, Structured
<1>8. CASE /\ \E pick \in DOMAIN mutators :
                todo' = SubSeq(mutators, pick, Min({pick + 1, Len(mutators)}))
           /\ message' = Decode(base, 0).message /\ stage' = "semantic"
           /\ left' = left
  <2>1. PICK pick \in DOMAIN mutators :
          todo' = SubSeq(mutators, pick, Min({pick + 1, Len(mutators)}))
    BY <1>8
  <2>2. mutators \in Seq(SemanticMutators)
    BY GInvFacts
  <2>3. pick \in 1..Len(mutators) /\ Len(mutators) \in Nat
    BY <2>2
  <2> DEFINE last == Min({pick + 1, Len(mutators)})
  <2>4. last \in pick..Len(mutators) /\ last <= pick + 1
    <3> DEFINE l == Len(mutators)
    <3>1. pick \in Int /\ pick + 1 \in Int /\ l \in Int /\ 1 <= pick /\ pick <= l
      BY <2>3
    <3> HIDE DEF l
    <3>2. CASE pick + 1 <= l
      <4>1. Min({pick + 1, l}) = pick + 1
        BY <3>1, <3>2, MinOfTwo
      <4> QED BY <3>1, <3>2, <4>1 DEF l
    <3>3. CASE l <= pick + 1
      <4>1. Min({l, pick + 1}) = l /\ {l, pick + 1} = {pick + 1, l}
        BY <3>1, <3>3, MinOfTwo
      <4>2. Min({pick + 1, l}) = l
        BY <4>1
      <4> QED BY <3>1, <3>3, <4>2 DEF l
    <3> QED BY <3>1, <3>2, <3>3
  <2>5. todo' \in Seq(SemanticMutators) /\ Len(todo') \in 1..2
    <3> HIDE DEF last
    <3>1. last \in Int /\ pick \in Int /\ 1 <= pick /\ pick <= last
          /\ last <= Len(mutators) /\ last <= pick + 1
      BY <2>3, <2>4
    <3>2. /\ SubSeq(mutators, pick, last) \in Seq(SemanticMutators)
          /\ Len(SubSeq(mutators, pick, last)) = last - pick + 1
      BY <2>2, <2>3, <3>1, SubSeqProperties
    <3> DEFINE l == last - pick + 1
    <3>3. l \in 1..2
      BY <3>1
    <3> HIDE DEF l
    <3> QED BY <2>1, <3>2, <3>3, Zenon DEF last, l
  <2>6. Shaped(message', 0)
    BY <1>4, <1>8, DecodedMessage
  <2>7. message' # Opaque
    BY <1>5, <2>6, ShapedIsStructured
  <2>8. Shaped(message', 2 - Len(todo'))
    <3>1. CASE Len(todo') = 2
      BY <2>6, <3>1
    <3>2. CASE Len(todo') = 1
      <4>1. Shaped(message', 0 + 1)
        BY <1>5, <2>6, ShapedGrows
      <4> QED BY <3>2, <4>1
    <3> QED BY <2>5, <3>1, <3>2
  <2>9. size' \in 15..4096
    <3> DEFINE k == Size(base)
    <3> HIDE DEF k
    <3>1. k \in 15..4096
      BY <1>6 DEF k
    <3> QED BY <1>3, <3>1 DEF k
  <2>10. TypeOK'
    BY <1>1, <1>2, <1>8, <2>9 DEF TypeOK
  <2>11. Len(todo') <= 2
    <3> DEFINE l == Len(todo')
    <3> HIDE DEF l
    <3>1. l \in 1..2
      BY <2>5 DEF l
    <3>2. l <= 2
      BY <3>1
    <3> QED BY <3>2 DEF l
  <2> QED BY <1>1, <1>2, <1>8, <2>5, <2>7, <2>8, <2>10, <2>11 DEF GInv, Structured
<1> QED BY <1>3, <1>7, <1>8

LEMMA ApplyMutatorKeeps ==
  ASSUME GInv, ApplyMutator
  PROVE  GInv'
<1>1. /\ stage = "semantic" /\ todo # <<>> /\ message' = Apply(Head(todo), message)
      /\ todo' = Tail(todo) /\ strategy' = strategy /\ mutators' = mutators
      /\ stage' = stage /\ layer' = layer /\ size' = size /\ left' = left
      /\ outcome' = outcome
  BY DEF ApplyMutator
<1>2. /\ Structured /\ Shaped(message, 2 - Len(todo)) /\ layer = "mutation"
      /\ left = 0 /\ outcome = "none"
  BY <1>1 DEF GInv
<1>3. todo \in Seq(SemanticMutators) /\ Len(todo) \in 0..2
  BY GInvFacts
<1>4. /\ Head(todo) \in SemanticMutators /\ Tail(todo) \in Seq(SemanticMutators)
      /\ Len(Tail(todo)) = Len(todo) - 1 /\ Len(todo) # 0
  BY <1>1, <1>3
<1> DEFINE n == 2 - Len(todo)
<1>5. n \in 0..1 /\ n + 1 = 2 - Len(todo') /\ Len(todo') <= 2 /\ n + 1 \in Nat
  <2> DEFINE l == Len(todo)
             k == Len(todo')
  <2>1. l \in 0..2 /\ l # 0 /\ k = l - 1
    BY <1>1, <1>3, <1>4
  <2>2. n = 2 - l
    OBVIOUS
  <2> HIDE DEF l, k, n
  <2>3. n \in 0..1 /\ n + 1 = 2 - k /\ k <= 2 /\ n + 1 \in Nat
    BY <2>1, <2>2
  <2> QED BY <2>3 DEF k
<1>6. Shaped(message', n + 1)
  <2> HIDE DEF n
  <2> QED BY <1>1, <1>2, <1>4, <1>5, ApplyShaped DEF n
<1>7. message' # Opaque
  <2> HIDE DEF n
  <2> QED BY <1>5, <1>6, ShapedIsStructured
<1>8. Shaped(message', 2 - Len(todo'))
  BY <1>5, <1>6
<1>9. TypeOK'
  BY <1>1 DEF GInv, TypeOK
<1> HIDE DEF n
<1> QED BY <1>1, <1>2, <1>4, <1>5, <1>7, <1>8, <1>9 DEF GInv, Structured

LEMMA EncodeMutantKeeps ==
  ASSUME GInv, EncodeMutant
  PROVE  GInv'
<1>1. /\ stage = "semantic" /\ todo = <<>> /\ size' = Size(message)
      /\ stage' = "bytes" /\ left' \in MutationCounts
      /\ strategy' = strategy /\ mutators' = mutators /\ layer' = layer
      /\ message' = message /\ todo' = todo /\ outcome' = outcome
  BY DEF EncodeMutant
<1>2. /\ Structured /\ Shaped(message, 2 - Len(todo)) /\ layer = "mutation"
      /\ outcome = "none"
  BY <1>1 DEF GInv
<1>3. Shaped(message, 2)
  BY <1>1, <1>2, NoneLeft
<1>4. size' \in MessageSizes
  <2>1. 2 \in 0..2
    OBVIOUS
  <2> DEFINE k == Size(message)
  <2>2. k \in 19..3287
    BY <1>3, <2>1, ShapedSizes
  <2> HIDE DEF k
  <2>3. k \in MessageSizes
    BY <2>2 DEF MessageSizes
  <2> QED BY <1>1, <2>3, SMTT(20) DEF k
<1>5. /\ size' \in 15..4096 /\ left' \in 1..4 /\ left' \in 0..4 /\ size' \in Room(left')
  BY <1>1, <1>4, RoomForMutations
<1>6. TypeOK'
  BY <1>1, <1>2, <1>5 DEF GInv, TypeOK
<1>7. Structured'
  BY <1>1, <1>2 DEF Structured
<1>8. todo' \in Seq(SemanticMutators) /\ Len(todo') <= 2
  BY <1>1
<1>9. Shaped(message', 2 - Len(todo'))
  BY <1>1, <1>2
<1> QED BY <1>1, <1>2, <1>5, <1>6, <1>7, <1>8, <1>9 DEF GInv

\* One byte mutation uses up the room that was left for it.
LEMMA RoomAfterMutation ==
  ASSUME NEW l \in 1..4, NEW k \in Room(l), NEW growth \in Growth
  PROVE  /\ k + growth \in 15..4096 /\ l - 1 \in 0..4
         /\ l = 1 => l - 1 = 0
         /\ l # 1 => l - 1 \in 1..4 /\ k + growth \in Room(l - 1)
<1>1. l \in Int /\ 1 <= l /\ l <= 4
  OBVIOUS
<1>2. k \in Int /\ 15 + l <= k /\ k <= 4096 - 7 * l
  BY <1>1 DEF Room
<1>3. growth \in Int /\ -1 <= growth /\ growth <= 7
  BY DEF Growth
<1> DEFINE q == k + growth
<1>4. q \in Int /\ 15 + (l - 1) <= q /\ q <= 4096 - 7 * (l - 1)
  BY <1>1, <1>2, <1>3
<1> HIDE DEF q
<1>5. q \in Room(l - 1)
  BY <1>1, <1>4 DEF Room
<1>6. q \in 15..4096
  BY <1>1, <1>4
<1>7. l - 1 \in 0..4 /\ (l = 1 => l - 1 = 0) /\ (l # 1 => l - 1 \in 1..4)
  BY <1>1
<1> QED BY <1>5, <1>6, <1>7 DEF q

LEMMA ByteMutationKeeps ==
  ASSUME GInv, ByteMutation
  PROVE  GInv'
<1>1. /\ stage = "bytes" /\ left > 0 /\ message' = Opaque /\ left' = left - 1
      /\ stage' = (IF left = 1 THEN "sent" ELSE "bytes")
      /\ strategy' = strategy /\ mutators' = mutators /\ layer' = layer
      /\ todo' = todo /\ outcome' = outcome
  BY DEF ByteMutation
<1>2. PICK growth \in Growth : size' = size + growth
  BY DEF ByteMutation
<1>3. /\ layer = "mutation" /\ left \in 1..4 /\ size \in Room(left)
      /\ todo = <<>> /\ outcome = "none"
  BY <1>1 DEF GInv
<1>4. /\ size' \in 15..4096 /\ left' \in 0..4
      /\ left = 1 => left' = 0
      /\ left # 1 => left' \in 1..4 /\ size' \in Room(left')
  <2>1. /\ size + growth \in 15..4096 /\ left - 1 \in 0..4
        /\ left = 1 => left - 1 = 0
        /\ left # 1 => left - 1 \in 1..4 /\ size + growth \in Room(left - 1)
    <3> DEFINE k == size
               l == left
    <3>1. l \in 1..4 /\ k \in Room(l) /\ growth \in Growth
      BY <1>3
    <3> HIDE DEF k, l
    <3>2. /\ k + growth \in 15..4096 /\ l - 1 \in 0..4
          /\ l = 1 => l - 1 = 0
          /\ l # 1 => l - 1 \in 1..4 /\ k + growth \in Room(l - 1)
      BY <3>1, RoomAfterMutation
    <3> QED BY <3>2 DEF k, l
  <2> DEFINE q == size + growth
             r == left - 1
  <2>2. size' = q /\ left' = r
    BY <1>1, <1>2
  <2>3. /\ q \in 15..4096 /\ r \in 0..4
        /\ left = 1 => r = 0
        /\ left # 1 => r \in 1..4 /\ q \in Room(r)
    BY <2>1
  <2> HIDE DEF q, r
  <2> QED BY <2>2, <2>3
<1>5. TypeOK'
  BY <1>1, <1>3, <1>4 DEF GInv, TypeOK
<1>6. todo' \in Seq(SemanticMutators) /\ Len(todo') <= 2 /\ todo' = <<>>
  BY <1>1, <1>3
<1>7. ~Structured'
  BY <1>1 DEF Structured
<1> QED BY <1>1, <1>3, <1>4, <1>5, <1>6, <1>7 DEF GInv

LEMMA OutcomeNames ==
  ASSUME NEW code, NEW length, NEW buf
  PROVE  DecodeOutcomes(code, length, buf) \subseteq {"decoded", "refused", "panic"}
BY DEF DecodeOutcomes

LEMMA ClassifyKeeps ==
  ASSUME GInv, Classify
  PROVE  GInv'
<1>1. /\ stage = "sent" /\ stage' = "classified"
      /\ strategy' = strategy /\ mutators' = mutators /\ layer' = layer
      /\ message' = message /\ todo' = todo /\ size' = size /\ left' = left
  BY DEF Classify
<1>2. todo = <<>> /\ left = 0
  BY <1>1 DEF GInv
<1>3. outcome' \in {"decoded", "refused", "panic"}
  BY OutcomeNames DEF Classify
<1>4. ASSUME layer = "grammar" PROVE outcome' # "panic"
  <2>1. Structured /\ size = Size(message) /\ Shaped(message, 2 - Len(todo))
    BY <1>1, <1>4 DEF GInv
  <2>2. Shaped(message, 2)
    BY <1>2, <2>1, NoneLeft
  <2>3. outcome' \in DecodeOutcomes(TypeCode(message), Length(message), Size(message))
    BY <2>1 DEF Classify
  <2> QED BY <2>2, <2>3, GrammarDecodes
<1>5. TypeOK'
  BY <1>1, <1>3 DEF GInv, TypeOK
<1>6. (Structured => Shaped(message, 2 - Len(todo)))'
  BY <1>1 DEF GInv, Structured
<1>7. todo' \in Seq(SemanticMutators) /\ Len(todo') <= 2 /\ todo' = <<>> /\ left' = 0
  BY <1>1, <1>2
<1>8. layer' = "grammar" => Structured' /\ size' = Size(message')
  BY <1>1 DEF GInv, Structured
<1>9. outcome' = "panic" => layer' # "grammar"
  BY <1>1, <1>4
<1> QED BY <1>1, <1>5, <1>6, <1>7, <1>8, <1>9 DEF GInv

LEMMA NextMessageKeeps ==
  ASSUME GInv, NextMessage
  PROVE  GInv'
<1>1. /\ stage = "classified" /\ stage' = "idle" /\ layer' = "none"
      /\ message' = Opaque /\ outcome' = "none" /\ size' = 0
      /\ strategy' = strategy /\ mutators' = mutators /\ todo' = todo /\ left' = left
  BY DEF NextMessage
<1>2. todo = <<>> /\ left = 0
  BY <1>1 DEF GInv
<1>3. TypeOK'
  BY <1>1 DEF GInv, TypeOK
<1>4. todo' \in Seq(SemanticMutators) /\ Len(todo') <= 2 /\ todo' = <<>> /\ left' = 0
  BY <1>1, <1>2
<1>5. ~Structured'
  BY <1>1 DEF Structured
<1> QED BY <1>1, <1>3, <1>4, <1>5 DEF GInv

LEMMA GInvNext == GInv /\ [Next]_vars => GInv'
<1> SUFFICES ASSUME GInv, [Next]_vars PROVE GInv'
  OBVIOUS
<1>1. CASE Next
  BY <1>1, GrammarMessageKeeps, RawMessageKeeps, MutationMessageKeeps,
     ApplyMutatorKeeps, EncodeMutantKeeps, ByteMutationKeeps, ClassifyKeeps,
     NextMessageKeeps DEF Next
<1>2. CASE UNCHANGED vars
  BY <1>2 DEF vars, GInv, TypeOK, Structured
<1> QED BY <1>1, <1>2

\* The invariant holds in every state the generator reaches.
THEOREM GInvAlways == Spec => []GInv
BY GInvInit, GInvNext, PTL DEF Spec

\* Whatever layer makes a message, and whatever mutators it passes, it is never
\* empty and never longer than 4096 octets, and the state has its types.
THEOREM GeneratorTypes == Spec => []TypeOK
BY GInvAlways, PTL DEF GInv

\* No length field of a message the generator encodes, mutated or not, wraps.
THEOREM FieldsNeverWrap == Spec => []LengthFieldsAgree
<1>1. GInv => LengthFieldsAgree
  <2> SUFFICES ASSUME GInv, Structured
               PROVE  \A f \in LengthFields(message) : f[1] = f[2]
    BY DEF LengthFieldsAgree
  <2>1. Shaped(message, 2 - Len(todo)) /\ 2 - Len(todo) \in 0..2
    BY GInvFacts DEF GInv
  <2> QED BY <2>1, FieldsAgree
<1> QED BY <1>1, GInvAlways, PTL

LEMMA DecodesToItself ==
  ASSUME NEW m, NEW n \in 0..2, Shaped(m, n)
  PROVE  SameMessage(Decode(m, 0).message, m) /\ Decode(m, 0).consumed = Size(m)
<1>1. CASE m.kind = "UPDATE"
  BY <1>1, UpdateDecoded
<1>2. CASE m.kind # "UPDATE"
  <2>1. Decode(m, 0) = [message |-> m, consumed |-> Size(m)]
    BY <1>2, OtherDecoded
  <2>2. SameMessage(m, m)
    BY DEF SameMessage, SameAttribute
  <2> QED BY <2>1, <2>2
<1> QED BY <1>1, <1>2

\* What was encoded decodes to itself and leaves no byte behind, unless it is
\* refused.
THEOREM RoundTrip == Spec => []EncodedMessagesRoundTrip
<1>1. GInv => EncodedMessagesRoundTrip
  <2> SUFFICES ASSUME GInv, Structured, ~Refused(message)
               PROVE  /\ ~Garbled(message)
                      /\ SameMessage(Decode(message, 0).message, message)
                      /\ Decode(message, 0).consumed = Size(message)
    BY DEF EncodedMessagesRoundTrip
  <2>1. /\ Shaped(message, 2 - Len(todo)) /\ 2 - Len(todo) \in 0..2
        /\ 2 - Len(todo) \in Nat
    BY GInvFacts DEF GInv
  <2>2. ~Garbled(message)
    BY <2>1, NotRefusedNotGarbled
  <2> QED BY <2>1, <2>2, DecodesToItself
<1> QED BY <1>1, GInvAlways, PTL

\* A KEEPALIVE that arrives in the same read does not change what a message other
\* than a NOTIFICATION decodes to.
THEOREM KeepaliveBehind == Spec => []CoalescedKeepaliveIsHarmless
<1>1. GInv => CoalescedKeepaliveIsHarmless
  <2> SUFFICES ASSUME GInv, Structured, message.kind # "NOTIFICATION"
               PROVE  Decode(message, 1) = Decode(message, 0)
    BY DEF CoalescedKeepaliveIsHarmless
  <2>1. Shaped(message, 2 - Len(todo)) /\ 2 - Len(todo) \in 0..2
    BY GInvFacts DEF GInv
  <2>2. 0 \in 0..1 /\ 1 \in 0..1
    OBVIOUS
  <2>3. CASE message.kind = "UPDATE"
    BY <2>1, <2>2, <2>3, UpdateDecoded
  <2>4. CASE message.kind # "UPDATE"
    BY <2>1, <2>2, <2>4, OtherDecoded
  <2> QED BY <2>3, <2>4
<1> QED BY <1>1, GInvAlways, PTL

\* No message of the grammar makes the decoder panic on the program's own bytes.
THEOREM PanicsNeedBrokenBytes == Spec => []OnlyBrokenBytesPanic
BY GInvAlways, PTL DEF GInv, OnlyBrokenBytesPanic
=============================================================================
