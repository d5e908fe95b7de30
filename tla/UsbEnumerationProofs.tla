-------------------------- MODULE UsbEnumerationProofs --------------------------
(***************************************************************************)
(* Proofs about what the host puts together from the device's descriptors  *)
(* in an enumeration: that the tables of usbdrv.c, the options of          *)
(* usbconfig.h and the report descriptor of USBPort.cpp fit each other.    *)
(***************************************************************************)
EXTENDS UsbSessionProofs, FiniteSetTheorems, WellFoundedInduction

-----------------------------------------------------------------------------
(* The parts of a table, from the first to the end. *)

\* The parts of a table whose first bytes are their lengths, and the items of a
\* report descriptor.
PartsOf(s) == Starts(s, LAMBDA p : s[p])
ItemsOf(s) == Starts(s, LAMBDA k : ItemSize(s[k]))

\* The places of s are walked through in the steps that f tells.
Stops(s, f, p) == p > Len(s) \/ f[p] = 0 \/ p + f[p] > Len(s) + 1
Walks(at, s, f, m) ==
  \A p \in m .. Len(s) + 1 :
    at[p] = IF Stops(s, f, p) THEN {p} ELSE {p} \cup at[p + f[p]]

\* Induction over the natural numbers, from the library's minimal elements.
LEMMA SetInduction ==
  ASSUME NEW S, 0 \in S, \A n \in Nat : n \in S => n + 1 \in S
  PROVE  Nat \subseteq S
<1> DEFINE R == {p \in Nat \X Nat : p[1] < p[2]}
           T == Nat \ S
<1>1. IsWellFoundedOn(R, Nat)
  BY NatLessThanWellFounded, Zenon DEF OpToRel
<1>2. SUFFICES ASSUME T # {} PROVE FALSE
  OBVIOUS
<1>3. PICK x \in T : \A y \in T : ~ (<<y, x>> \in R)
  BY <1>1, <1>2, WFMin, Zenon
<1>4. x # 0
  OBVIOUS
<1>5. x - 1 \in Nat /\ <<x - 1, x>> \in R
  BY <1>4
<1>6. x - 1 \in S
  BY <1>3, <1>5
<1> QED
  BY <1>5, <1>6

\* Such a walk exists, for it only goes forward.
LEMMA WalkExists ==
  ASSUME NEW s \in Seq(Byte), NEW f \in [1 .. Len(s) -> Nat]
  PROVE  \E at : Walks(at, s, f, 1)
<1> DEFINE len == Len(s)
           from(n) == len + 1 - n
           S == {n \in Nat : n <= len => \E at : Walks(at, s, f, from(n))}
<1>0. len \in Nat
  BY LenProperties
<1>1. 0 \in S
  <2> DEFINE at == [p \in from(0) .. len + 1 |-> {p}]
  <2>1. \A p \in from(0) .. len + 1 : at[p] = {p} /\ Stops(s, f, p)
    BY <1>0 DEF Stops
  <2>2. Walks(at, s, f, from(0))
    BY <2>1 DEF Walks
  <2> QED
    BY <2>2
<1>2. ASSUME NEW n \in Nat, n \in S PROVE n + 1 \in S
  <2>1. SUFFICES ASSUME n + 1 <= len PROVE \E at : Walks(at, s, f, from(n + 1))
    OBVIOUS
  <2>2. PICK h : Walks(h, s, f, from(n))
    BY <1>0, <1>2, <2>1
  <2> DEFINE q  == from(n + 1)
             at == [p \in q .. len + 1 |->
                      IF p # q THEN h[p] ELSE IF Stops(s, f, q) THEN {q}
                                              ELSE {q} \cup h[q + f[q]]]
  <2>3. q \in 1 .. len /\ from(n) = q + 1
    BY <1>0, <2>1
  <2>4. ASSUME NEW p \in q .. len + 1
        PROVE  at[p] = IF Stops(s, f, p) THEN {p} ELSE {p} \cup at[p + f[p]]
    <3>1. p \in 1 .. len => f[p] \in Nat
      OBVIOUS
    <3>2. ~Stops(s, f, p) => /\ f[p] \in Nat /\ f[p] # 0 /\ p + f[p] \in q + 1 .. len + 1
                             /\ at[p + f[p]] = h[p + f[p]]
      BY <1>0, <2>3, <3>1 DEF Stops
    <3>3. CASE p = q
      BY <3>2, <3>3
    <3>4. CASE p # q
      <4>1. p \in from(n) .. len + 1
        BY <1>0, <2>3, <3>4
      <4>2. h[p] = IF Stops(s, f, p) THEN {p} ELSE {p} \cup h[p + f[p]]
        BY <2>2, <4>1 DEF Walks
      <4> QED
        BY <3>2, <3>4, <4>2
    <3> QED
      BY <3>3, <3>4
  <2>5. Walks(at, s, f, q)
    <3> HIDE DEF at, q
    <3> QED
      BY <2>4 DEF Walks
  <2> QED
    BY <2>5
<1>3. len \in S
  <2> HIDE DEF S
  <2>1. Nat \subseteq S
    BY <1>1, <1>2, SetInduction
  <2> QED
    BY <1>0, <2>1
<1>4. from(len) = 1
  BY <1>0
<1> QED
  BY <1>3, <1>4

\* The next place of a walk.
NextStop(s, f, p, q) == p \in 1 .. Len(s) /\ q \in p + 1 .. Len(s) + 1 /\ f[p] = q - p

GoesOn(at, s, f) ==
  /\ \A p, q : NextStop(s, f, p, q) => at[p] = {p} \cup at[q]
  /\ at[Len(s) + 1] = {Len(s) + 1}

LEMMA WalkSteps ==
  ASSUME NEW s \in Seq(Byte), NEW f, NEW at, Walks(at, s, f, 1)
  PROVE  GoesOn(at, s, f)
<1>0. Len(s) \in Nat
  BY LenProperties
<1>1. ASSUME NEW p, NEW q, NextStop(s, f, p, q) PROVE at[p] = {p} \cup at[q]
  <2>1. p \in 1 .. Len(s) + 1 /\ ~Stops(s, f, p) /\ p + f[p] = q
    BY <1>0, <1>1 DEF Stops, NextStop
  <2>2. at[p] = {p} \cup at[p + f[p]]
    BY <2>1, Zenon DEF Walks
  <2> QED
    BY <2>1, <2>2, Zenon
<1>2. at[Len(s) + 1] = {Len(s) + 1}
  <2> DEFINE p == Len(s) + 1
  <2>1. p \in 1 .. Len(s) + 1 /\ Stops(s, f, p)
    BY <1>0 DEF Stops
  <2> HIDE DEF p
  <2>2. at[p] = {p}
    BY <2>1, Zenon DEF Walks
  <2> QED
    BY <2>2 DEF p
<1> QED
  BY <1>1, <1>2, Zenon DEF GoesOn

\* The parts of a table whose first bytes are their lengths.
LEMMA PartsWalk ==
  ASSUME NEW s \in Seq(Byte)
  PROVE  \E at : Walks(at, s, s, 1) /\ PartsOf(s) = at[1]
<1> DEFINE def(h) == [p \in 1 .. Len(s) + 1 |->
                        IF p > Len(s) \/ s[p] = 0 \/ p + s[p] > Len(s) + 1 THEN {p}
                        ELSE {p} \cup h[p + s[p]]]
           at == CHOOSE h : h = def(h)
<1>0. Len(s) \in Nat
  BY LenProperties
<1>1. s \in [1 .. Len(s) -> Nat]
  <2>1. s \in [1 .. Len(s) -> Byte]
    BY LenProperties, Zenon
  <2>2. Byte \subseteq Nat
    BY DEF Byte
  <2> QED
    BY <2>1, <2>2
<1>2. PICK h : Walks(h, s, s, 1)
  BY <1>1, WalkExists
<1> DEFINE g == [p \in 1 .. Len(s) + 1 |-> h[p]]
<1>3. ASSUME NEW p \in 1 .. Len(s) + 1 PROVE g[p] = def(g)[p]
  <2>1. ~Stops(s, s, p) => p + s[p] \in 1 .. Len(s) + 1
    BY <1>0, <1>1 DEF Stops
  <2> QED
    BY <1>2, <2>1 DEF Walks, Stops
<1>4. g = def(g)
  BY <1>3
<1>5. at = def(at)
  <2> HIDE DEF g, def
  <2> QED
    BY <1>4
<1>6. PartsOf(s) = at[1]
  BY DEF PartsOf, Starts
<1> HIDE DEF at
<1>7. Walks(at, s, s, 1)
  BY <1>5 DEF Walks, Stops
<1> QED
  BY <1>6, <1>7

\* The items of a report descriptor, by their prefixes.
Sizes(s) == [k \in 1 .. Len(s) |-> ItemSize(s[k])]

LEMMA ItemsWalk ==
  ASSUME NEW s \in Seq(Byte)
  PROVE  \E at : Walks(at, s, Sizes(s), 1) /\ ItemsOf(s) = at[1]
<1> DEFINE def(h) == [p \in 1 .. Len(s) + 1 |->
                        IF p > Len(s) \/ ItemSize(s[p]) = 0 \/ p + ItemSize(s[p]) > Len(s) + 1
                        THEN {p} ELSE {p} \cup h[p + ItemSize(s[p])]]
           at == CHOOSE h : h = def(h)
<1>0. Len(s) \in Nat
  BY LenProperties
<1>1. \A k \in 1 .. Len(s) : ItemSize(s[k]) \in Nat /\ Sizes(s)[k] = ItemSize(s[k])
  <2>1. \A b \in Byte : ItemSize(b) \in Nat
    BY DEF Byte, ItemSize
  <2> QED
    BY <2>1 DEF Sizes
<1>2. Sizes(s) \in [1 .. Len(s) -> Nat]
  BY <1>1 DEF Sizes
<1>3. PICK h : Walks(h, s, Sizes(s), 1)
  BY <1>2, WalkExists
<1> DEFINE g == [p \in 1 .. Len(s) + 1 |-> h[p]]
<1>4. \A p \in 1 .. Len(s) + 1 :
        Stops(s, Sizes(s), p) <=>
          p > Len(s) \/ ItemSize(s[p]) = 0 \/ p + ItemSize(s[p]) > Len(s) + 1
  BY <1>0, <1>1 DEF Stops
<1>5. \A p \in 1 .. Len(s) + 1 :
        ~Stops(s, Sizes(s), p) => /\ Sizes(s)[p] = ItemSize(s[p])
                                  /\ p + ItemSize(s[p]) \in 1 .. Len(s) + 1
  BY <1>0, <1>1 DEF Stops
<1>6. ASSUME NEW p \in 1 .. Len(s) + 1 PROVE g[p] = def(g)[p]
  BY <1>3, <1>4, <1>5 DEF Walks
<1>7. g = def(g)
  BY <1>6
<1>8. at = def(at)
  <2> HIDE DEF g, def
  <2> QED
    BY <1>7
<1>9. ItemsOf(s) = at[1]
  BY DEF ItemsOf, Starts
<1> HIDE DEF at
<1>10. Walks(at, s, Sizes(s), 1)
  BY <1>4, <1>5, <1>8 DEF Walks
<1> QED
  BY <1>9, <1>10

-----------------------------------------------------------------------------
(* The bytes of the tables that the host computes with. *)

\* Where the bytes of a table put together from two come from.
LEMMA BytesOfTwo ==
  ASSUME NEW m \in Nat, NEW n \in Nat, NEW s \in Table(m), NEW t \in Table(n)
  PROVE  /\ s \o t \in Table(m + n)
         /\ \A k \in 1 .. m : (s \o t)[k] = s[k]
         /\ \A k \in m + 1 .. m + n : (s \o t)[k] = t[k - m]
<1>1. s \in Seq(Byte) /\ t \in Seq(Byte) /\ Len(s) = m /\ Len(t) = n
  BY DEF Table
<1>2. \A k \in 1 .. Len(s) + Len(t) :
        (s \o t)[k] = IF k <= Len(s) THEN s[k] ELSE t[k - Len(s)]
  BY <1>1, ConcatProperties, Zenon
<1> DEFINE st == s \o t
<1> HIDE DEF st
<1>3. \A k \in 1 .. m + n : st[k] = IF k <= m THEN s[k] ELSE t[k - m]
  BY <1>1, <1>2 DEF st
<1>4. ASSUME NEW k \in 1 .. m PROVE st[k] = s[k]
  BY <1>3
<1>5. ASSUME NEW k \in m + 1 .. m + n PROVE st[k] = t[k - m]
  BY <1>3
<1> QED
  BY <1>4, <1>5, TableOfTwo DEF st

\* The configuration, part by part: its own, the interface's, the HID part and
\* the endpoint's.
ConfigurationPart(s) ==
  s[1] = 9 /\ s[2] = DescriptorTypes.CONFIG /\ s[3] = 34 /\ s[4] = 0 /\ s[5] = 1
InterfacePart(s) == s[10] = 9 /\ s[11] = DescriptorTypes.INTERFACE /\ s[14] = 1
HidBytes(s) == s[19] = 9 /\ s[20] = DescriptorTypes.HID /\ s[26] = 22 /\ s[27] = 0
EndpointBytes(s) == s[28] = 7 /\ s[29] = DescriptorTypes.ENDPOINT

\* A part that is added leaves those before it as they are.
LEMMA PartsBefore ==
  ASSUME NEW m \in Nat, NEW n \in Nat, NEW s \in Table(m), NEW t \in Table(n)
  PROVE  /\ m >= 9 /\ ConfigurationPart(s) => ConfigurationPart(s \o t)
         /\ m >= 14 /\ InterfacePart(s) => InterfacePart(s \o t)
         /\ m >= 27 /\ HidBytes(s) => HidBytes(s \o t)
         /\ m >= 34 /\ EndpointBytes(s) => EndpointBytes(s \o t)
<1> DEFINE st == s \o t
<1>1. \A k \in 1 .. m : st[k] = s[k]
  BY BytesOfTwo
<1> HIDE DEF st
<1>2. m >= 9 /\ ConfigurationPart(s) => ConfigurationPart(st)
  BY <1>1 DEF ConfigurationPart
<1>3. m >= 14 /\ InterfacePart(s) => InterfacePart(st)
  BY <1>1 DEF InterfacePart
<1>4. m >= 27 /\ HidBytes(s) => HidBytes(st)
  BY <1>1 DEF HidBytes
<1>5. m >= 34 /\ EndpointBytes(s) => EndpointBytes(st)
  BY <1>1 DEF EndpointBytes
<1> QED
  BY <1>2, <1>3, <1>4, <1>5 DEF st

\* usbDescriptorConfiguration, where the host reads it.
LEMMA ConfigurationBytes ==
  /\ ConfigurationPart(usbDescriptorConfiguration)
  /\ InterfacePart(usbDescriptorConfiguration)
  /\ HidBytes(usbDescriptorConfiguration)
  /\ EndpointBytes(usbDescriptorConfiguration)
<1> DEFINE head  == << 9, DescriptorTypes.CONFIG, TotalLength, 0, 1, 1, 0,
                       128 + 64 * Options.IS_SELF_POWERED, Options.MAX_BUS_POWER \div 2 >>
           inter == << 9, DescriptorTypes.INTERFACE, 0, 0,
                       Options.HAVE_INTRIN_ENDPOINT + Options.HAVE_INTRIN_ENDPOINT3 >>
           class == Identity.INTERFACE_CLASS
           none  == <<0>>
           ep1   == EndpointPart(Options.HAVE_INTRIN_ENDPOINT, 1)
           ep3   == EndpointPart(Options.HAVE_INTRIN_ENDPOINT3, Options.EP3_NUMBER)
           one   == head \o inter
           two   == one \o class
           three == two \o none
           four  == three \o HidPart
           five  == four \o ep1
<1>1. TotalLength = 34
  BY DEF TotalLength, Options, PROPS_HID, PROPS_HID_REPORT, Identity
<1>2. head \in Table(9) /\ ConfigurationPart(head)
  BY <1>1 DEF DescriptorTypes, Options, Byte, Table, ConfigurationPart
<1>3. /\ inter \in Table(5)
      /\ inter[1] = 9 /\ inter[2] = DescriptorTypes.INTERFACE /\ inter[5] = 1
  BY DEF DescriptorTypes, Options, Byte, Table
<1>4. class \in Table(3) /\ none \in Table(1)
  BY DEF Identity, Byte, Table
<1>5. /\ HidPart \in Table(9)
      /\ HidPart[1] = 9 /\ HidPart[2] = DescriptorTypes.HID
      /\ HidPart[8] = 22 /\ HidPart[9] = 0
  BY DEF HidPart, PROPS_HID, PROPS_HID_REPORT, Identity, DescriptorTypes, Byte, Table
<1>6. ep1 \in Table(7) /\ ep1[1] = 7 /\ ep1[2] = DescriptorTypes.ENDPOINT
  BY DEF EndpointPart, Options, DescriptorTypes, Byte, Table
<1>7. ep3 \in Table(0)
  BY DEF EndpointPart, Options, Table
<1>8. usbDescriptorConfiguration = five \o ep3
  BY DEF usbDescriptorConfiguration
<1> HIDE DEF head, inter, class, none, ep1, ep3
<1>9. one \in Table(14) /\ ConfigurationPart(one)
  BY <1>2, <1>3, BytesOfTwo, PartsBefore
<1>10. InterfacePart(one)
  <2>1. \A k \in 9 + 1 .. 9 + 5 : one[k] = inter[k - 9]
    <3>1. 9 \in Nat /\ 5 \in Nat
      OBVIOUS
    <3> QED
      BY <1>2, <1>3, <3>1, BytesOfTwo, Zenon
  <2> HIDE DEF one
  <2>2. one[10] = inter[1] /\ one[11] = inter[2] /\ one[14] = inter[5]
    BY <2>1
  <2> QED
    BY <1>3, <2>2 DEF InterfacePart
<1> HIDE DEF one
<1>11. two \in Table(17) /\ ConfigurationPart(two) /\ InterfacePart(two)
  <2>1. two \in Table(14 + 3)
    BY <1>4, <1>9, TableOfTwo
  <2>2. ConfigurationPart(two) /\ InterfacePart(two)
    BY <1>4, <1>9, <1>10, PartsBefore
  <2> QED
    BY <2>1, <2>2
<1> HIDE DEF two
<1>12. three \in Table(18) /\ ConfigurationPart(three) /\ InterfacePart(three)
  BY <1>4, <1>11, BytesOfTwo, PartsBefore
<1> HIDE DEF three
<1>13. four \in Table(27) /\ ConfigurationPart(four) /\ InterfacePart(four)
  BY <1>5, <1>12, BytesOfTwo, PartsBefore
<1>14. HidBytes(four)
  <2>1. \A k \in 18 + 1 .. 18 + 9 : four[k] = HidPart[k - 18]
    <3>1. 18 \in Nat /\ 9 \in Nat
      OBVIOUS
    <3> QED
      BY <1>12, <1>5, <3>1, BytesOfTwo, Zenon
  <2> HIDE DEF four
  <2>2. /\ four[19] = HidPart[1] /\ four[20] = HidPart[2]
        /\ four[26] = HidPart[8] /\ four[27] = HidPart[9]
    BY <2>1
  <2> QED
    BY <1>5, <2>2 DEF HidBytes
<1> HIDE DEF four
<1>15. /\ five \in Table(34) /\ ConfigurationPart(five) /\ InterfacePart(five)
       /\ HidBytes(five)
  BY <1>6, <1>13, <1>14, BytesOfTwo, PartsBefore
<1>16. EndpointBytes(five)
  <2>1. \A k \in 27 + 1 .. 27 + 7 : five[k] = ep1[k - 27]
    <3>1. 27 \in Nat /\ 7 \in Nat
      OBVIOUS
    <3> QED
      BY <1>13, <1>6, <3>1, BytesOfTwo, Zenon
  <2> HIDE DEF five
  <2>2. five[28] = ep1[1] /\ five[29] = ep1[2]
    BY <2>1
  <2> QED
    BY <1>6, <2>2 DEF EndpointBytes
<1> HIDE DEF five
<1>17. /\ ConfigurationPart(five \o ep3) /\ InterfacePart(five \o ep3)
       /\ HidBytes(five \o ep3) /\ EndpointBytes(five \o ep3)
  BY <1>7, <1>15, <1>16, PartsBefore
<1> QED
  BY <1>8, <1>17

\* The lengths written in usbconfig.h are those of the names.
LEMMA StringLengths ==
  /\ usbDescriptorStringVendor \in Table(24) /\ usbDescriptorStringVendor[1] = 24
  /\ usbDescriptorStringDevice \in Table(22) /\ usbDescriptorStringDevice[1] = 22
<1> DEFINE chars(n) == [k \in 1 .. 2 * n |-> Char]
           head(n) == USB_STRING_DESCRIPTOR_HEADER(n)
<1>1. ASSUME NEW n \in 0 .. 126
      PROVE  head(n) \o chars(n) \in Table(2 + 2 * n) /\ (head(n) \o chars(n))[1] = 2 * n + 2
  <2>1. chars(n) \in Table(2 * n)
    <3>1. chars(n) \in [1 .. 2 * n -> Byte] /\ 2 * n \in Nat
      BY DEF Char, Byte
    <3> HIDE DEF chars
    <3> QED
      BY <3>1, FunctionIsTable DEF Table
  <2>2. head(n) \in Table(2) /\ head(n)[1] = 2 * n + 2
    BY DEF USB_STRING_DESCRIPTOR_HEADER, Byte, Table
  <2>3. 2 \in Nat /\ 2 * n \in Nat
    OBVIOUS
  <2> DEFINE both == head(n) \o chars(n)
             h == head(n)
  <2> HIDE DEF chars, head
  <2>4. both \in Table(2 + 2 * n) /\ \A k \in 1 .. 2 : both[k] = h[k]
    BY <2>1, <2>2, <2>3, BytesOfTwo, Zenon
  <2>5. h[1] = 2 * n + 2
    BY <2>2
  <2> HIDE DEF both, h
  <2>6. both[1] = 2 * n + 2
    BY <2>4, <2>5
  <2> QED
    BY <2>4, <2>6 DEF both
<1>2. /\ Identity.VENDOR_NAME = 11 /\ Identity.VENDOR_NAME_LEN = 11
      /\ Identity.DEVICE_NAME = 10 /\ Identity.DEVICE_NAME_LEN = 10
  BY DEF Identity
<1>3. /\ usbDescriptorStringVendor = head(11) \o chars(11)
      /\ usbDescriptorStringDevice = head(10) \o chars(10)
  BY <1>2 DEF usbDescriptorStringVendor, usbDescriptorStringDevice
<1> HIDE DEF chars, head
<1>4. 11 \in 0 .. 126 /\ 10 \in 0 .. 126
  OBVIOUS
<1> DEFINE vendor == head(11) \o chars(11)
           name   == head(10) \o chars(10)
<1>5. /\ vendor \in Table(2 + 2 * 11) /\ vendor[1] = 2 * 11 + 2
      /\ name \in Table(2 + 2 * 10) /\ name[1] = 2 * 10 + 2
  BY <1>1, <1>4, Zenon
<1>6. usbDescriptorStringVendor = vendor /\ usbDescriptorStringDevice = name
  BY <1>3
<1> HIDE DEF vendor, name
<1> QED
  BY <1>5, <1>6

\* usbDescriptorDevice, where the host reads it: its length, the packet size of
\* endpoint 0 and the indexes of the two names.
LEMMA DeviceBytes ==
  /\ usbDescriptorDevice[1] = 18 /\ usbDescriptorDevice[8] = 8
  /\ usbDescriptorDevice[15] = 1 /\ usbDescriptorDevice[16] = 2
<1> DEFINE head  == <<18, DescriptorTypes.DEVICE, 16, 1>>
           class == Identity.DEVICE_CLASS
           ep0   == <<0, 8>>
           vend  == Identity.VENDOR_ID
           devi  == Identity.DEVICE_ID
           vers  == Identity.DEVICE_VERSION
           names == << IndexOf(usbDescriptorStringVendor, 1),
                       IndexOf(usbDescriptorStringDevice, 2),
                       IndexOf(usbDescriptorStringSerialNumber, 3), 1 >>
           one   == head \o class
           two   == one \o ep0
           three == two \o vend
           four  == three \o devi
           five  == four \o vers
<1>1. head \in Table(4) /\ head[1] = 18
  BY DEF DescriptorTypes, Byte, Table
<1>2. class \in Table(2) /\ ep0 \in Table(2) /\ ep0[2] = 8
  BY DEF Identity, Byte, Table
<1>3. vend \in Table(2) /\ devi \in Table(2) /\ vers \in Table(2)
  BY DEF Identity, Byte, Table
<1>4. names \in Table(4) /\ names[1] = 1 /\ names[2] = 2
  <2>1. /\ IndexOf(usbDescriptorStringVendor, 1) = 1
        /\ IndexOf(usbDescriptorStringDevice, 2) = 2
        /\ IndexOf(usbDescriptorStringSerialNumber, 3) \in Byte
    <3>1. ASSUME NEW n \in Nat, NEW s \in Table(n), n > 0, NEW k PROVE IndexOf(s, k) = k
      <4>1. s # <<>>
        BY <3>1 DEF Table
      <4> QED
        BY <4>1 DEF IndexOf
    <3>2. 24 \in Nat /\ 22 \in Nat /\ 24 > 0 /\ 22 > 0
      OBVIOUS
    <3> QED
      BY <3>1, <3>2, StringLengths DEF IndexOf, usbDescriptorStringSerialNumber, Byte
  <2> QED
    BY <2>1 DEF Table, Byte
<1>5. usbDescriptorDevice = five \o names
  BY DEF usbDescriptorDevice
<1> HIDE DEF head, class, ep0, vend, devi, vers, names
<1>6. one \in Table(6) /\ one[1] = 18
  <2>1. one \in Table(4 + 2) /\ \A k \in 1 .. 4 : one[k] = head[k]
    <3>1. 4 \in Nat /\ 2 \in Nat
      OBVIOUS
    <3> QED
      BY <1>1, <1>2, <3>1, BytesOfTwo, Zenon
  <2> HIDE DEF one
  <2> QED
    BY <1>1, <2>1
<1> HIDE DEF one
<1>7. two \in Table(8) /\ two[1] = 18 /\ two[8] = 8
  <2>1. /\ two \in Table(6 + 2)
        /\ \A k \in 1 .. 6 : two[k] = one[k]
        /\ \A k \in 6 + 1 .. 6 + 2 : two[k] = ep0[k - 6]
    <3>1. 6 \in Nat /\ 2 \in Nat
      OBVIOUS
    <3> QED
      BY <1>2, <1>6, <3>1, BytesOfTwo, Zenon
  <2> HIDE DEF two
  <2> QED
    BY <1>2, <1>6, <2>1
<1> HIDE DEF two
<1>8. three \in Table(10) /\ three[1] = 18 /\ three[8] = 8
  <2>1. three \in Table(8 + 2) /\ \A k \in 1 .. 8 : three[k] = two[k]
    <3>1. 8 \in Nat /\ 2 \in Nat
      OBVIOUS
    <3> QED
      BY <1>3, <1>7, <3>1, BytesOfTwo, Zenon
  <2> HIDE DEF three
  <2> QED
    BY <1>7, <2>1
<1> HIDE DEF three
<1>9. four \in Table(12) /\ four[1] = 18 /\ four[8] = 8
  <2>1. four \in Table(10 + 2) /\ \A k \in 1 .. 10 : four[k] = three[k]
    <3>1. 10 \in Nat /\ 2 \in Nat
      OBVIOUS
    <3> QED
      BY <1>3, <1>8, <3>1, BytesOfTwo, Zenon
  <2> HIDE DEF four
  <2> QED
    BY <1>8, <2>1
<1> HIDE DEF four
<1>10. five \in Table(14) /\ five[1] = 18 /\ five[8] = 8
  <2>1. five \in Table(12 + 2) /\ \A k \in 1 .. 12 : five[k] = four[k]
    <3>1. 12 \in Nat /\ 2 \in Nat
      OBVIOUS
    <3> QED
      BY <1>3, <1>9, <3>1, BytesOfTwo, Zenon
  <2> HIDE DEF five
  <2> QED
    BY <1>9, <2>1
<1> DEFINE all == five \o names
<1> HIDE DEF five
<1>11. /\ \A k \in 1 .. 14 : all[k] = five[k]
       /\ \A k \in 14 + 1 .. 14 + 4 : all[k] = names[k - 14]
  <2>1. 14 \in Nat /\ 4 \in Nat
    OBVIOUS
  <2> QED
    BY <1>4, <1>10, <2>1, BytesOfTwo, Zenon
<1>12. usbDescriptorDevice = all
  BY <1>5
<1> HIDE DEF all
<1> QED
  BY <1>4, <1>10, <1>11, <1>12

\* A part of a table.
LEMMA PartOfTable ==
  ASSUME NEW s \in Seq(Byte), NEW m \in 1 .. Len(s), NEW n \in m .. Len(s)
  PROVE  /\ SubSeq(s, m, n) \in Table(n - m + 1)
         /\ \A k \in 1 .. n - m + 1 : SubSeq(s, m, n)[k] = s[m + k - 1]
<1>1. Len(s) \in Nat /\ m \in Int /\ n \in Int /\ m <= n
  BY LenProperties
<1>2. ASSUME NEW k \in m .. n PROVE s[k] \in Byte
  <2>1. k \in 1 .. Len(s)
    BY <1>1
  <2> QED
    BY <2>1, ElementOfSeq
<1>3. /\ SubSeq(s, m, n) \in Seq(Byte)
      /\ Len(SubSeq(s, m, n)) = IF m <= n THEN n - m + 1 ELSE 0
      /\ \A k \in 1 .. n - m + 1 : SubSeq(s, m, n)[k] = s[m + k - 1]
  BY <1>1, <1>2, SubSeqProperties
<1> QED
  BY <1>1, <1>3 DEF Table

\* The HID part is the same in the configuration and on its own.
LEMMA HidIsPart ==
  /\ DescriptorOf(DescriptorTypes.HID, 0) \in Table(9)
  /\ \A k \in 1 .. 9 :
       DescriptorOf(DescriptorTypes.HID, 0)[k] = usbDescriptorConfiguration[18 + k]
<1> DEFINE conf == usbDescriptorConfiguration
           part == SubSeq(conf, 19, 34)
           hid  == DescriptorOf(DescriptorTypes.HID, 0)
<1>1. conf \in Seq(Byte) /\ Len(conf) = 34
  BY ConfigurationTable DEF Table
<1>2. hid \in Seq(Byte) /\ Len(hid) = 9
  BY HidTable
<1>3. hid = FromTable(9, part)
  <2>1. PROPS_HID = 9
    BY DEF PROPS_HID, PROPS_HID_REPORT, Identity
  <2> QED
    BY <1>1, <2>1 DEF DescriptorOf, DescriptorTypes
<1>4. \A k \in 1 .. 34 - 19 + 1 : part[k] = conf[19 + k - 1]
  <2>1. 19 \in 1 .. Len(conf) /\ 34 \in 19 .. Len(conf)
    BY <1>1
  <2> HIDE DEF conf
  <2> QED
    BY <1>1, <2>1, PartOfTable
<1> HIDE DEF hid, part, conf
<1>5. ASSUME NEW k \in 1 .. 9 PROVE hid[k] = conf[18 + k]
  <2>1. hid[k] = part[k]
    BY <1>3 DEF FromTable
  <2>2. k \in 1 .. 34 - 19 + 1 /\ 19 + k - 1 = 18 + k
    OBVIOUS
  <2> QED
    BY <1>4, <2>1, <2>2
<1> QED
  BY <1>2, <1>5 DEF hid, conf, Table

\* A table that is sent with its own length is sent whole.
LEMMA WholeIsWhole == \A s \in Seq(Byte) : FromTable(Len(s), s) = s
<1>1. SUFFICES ASSUME NEW s \in Seq(Byte) PROVE FromTable(Len(s), s) = s
  OBVIOUS
<1>2. Len(s) \in 0 .. Len(s)
  BY LenProperties
<1>3. /\ FromTable(Len(s), s) \in Seq(Byte) /\ Len(FromTable(Len(s), s)) = Len(s)
      /\ \A k \in 1 .. Len(s) : FromTable(Len(s), s)[k] = s[k]
  BY <1>2, PartIsTable
<1> QED
  BY <1>3, SeqEqual, Zenon

\* usbDriverDescriptor: which table is which.
LEMMA DescriptorsAre ==
  /\ DescriptorOf(DescriptorTypes.DEVICE, 0) = usbDescriptorDevice
  /\ DescriptorOf(DescriptorTypes.CONFIG, 0) = usbDescriptorConfiguration
  /\ DescriptorOf(DescriptorTypes.STRING, 0) = usbDescriptorString0
  /\ DescriptorOf(DescriptorTypes.STRING, 1) = usbDescriptorStringVendor
  /\ DescriptorOf(DescriptorTypes.STRING, 2) = usbDescriptorStringDevice
  /\ DescriptorOf(DescriptorTypes.HID_REPORT, 0) = usbHidReportDescriptor
<1>1. /\ usbDescriptorDevice \in Seq(Byte) /\ usbDescriptorConfiguration \in Seq(Byte)
      /\ usbDescriptorStringVendor \in Seq(Byte) /\ usbDescriptorStringDevice \in Seq(Byte)
  BY DeviceTable, ConfigurationTable, StringTables DEF Table
<1>2. usbDescriptorString0 \in Seq(Byte)
  BY DEF usbDescriptorString0, Byte
<1>3. FromTable(PROPS_HID_REPORT, usbHidReportDescriptor) = usbHidReportDescriptor
  <2>1. PROPS_HID_REPORT = Len(usbHidReportDescriptor)
    BY ReportTable DEF PROPS_HID_REPORT, Identity
  <2> QED
    BY <2>1, ReportTable, WholeIsWhole, Zenon
<1>4. /\ WholeTable(usbDescriptorDevice) = usbDescriptorDevice
      /\ WholeTable(usbDescriptorConfiguration) = usbDescriptorConfiguration
      /\ WholeTable(usbDescriptorString0) = usbDescriptorString0
      /\ WholeTable(usbDescriptorStringVendor) = usbDescriptorStringVendor
      /\ WholeTable(usbDescriptorStringDevice) = usbDescriptorStringDevice
  BY <1>1, <1>2, WholeIsWhole, Zenon DEF WholeTable
<1>5. /\ DescriptorOf(DescriptorTypes.DEVICE, 0) = WholeTable(usbDescriptorDevice)
      /\ DescriptorOf(DescriptorTypes.CONFIG, 0) = WholeTable(usbDescriptorConfiguration)
      /\ DescriptorOf(DescriptorTypes.STRING, 0) = WholeTable(usbDescriptorString0)
      /\ DescriptorOf(DescriptorTypes.STRING, 1) = WholeTable(usbDescriptorStringVendor)
      /\ DescriptorOf(DescriptorTypes.STRING, 2) = WholeTable(usbDescriptorStringDevice)
      /\ DescriptorOf(DescriptorTypes.HID_REPORT, 0)
           = FromTable(PROPS_HID_REPORT, usbHidReportDescriptor)
  BY DEF DescriptorOf, DescriptorTypes
<1> QED
  BY <1>3, <1>4, <1>5, Zenon

-----------------------------------------------------------------------------
(* What the host knows, byte by byte. *)

\* The k-th reply of an enumeration is a table of the source, whole; the first
\* may be cut off.
Exact(k, s) ==
  /\ k = 1 => \E n \in FirstLens : s = Limited(usbDescriptorDevice, n)
  /\ k = 3 => s = usbDescriptorDevice
  /\ k = 5 => s = usbDescriptorConfiguration
  /\ k = 6 => s = usbDescriptorString0
  /\ k = 7 => s = usbDescriptorStringVendor
  /\ k = 8 => s = usbDescriptorStringDevice
  /\ k = 11 => s = DescriptorOf(DescriptorTypes.HID, 0)
  /\ k = 12 => s = usbHidReportDescriptor

KnownExact == \A k \in 1 .. Told : Exact(k, known[k])

\* A wLength that is enough leaves a reply whole.
LEMMA EnoughAsked ==
  ASSUME NEW m \in Nat, NEW s \in Table(m), NEW n \in Nat, m <= n
  PROVE  Limited(s, n) = s
BY DEF Limited, Table

\* A GET_DESCRIPTOR is answered from the tables.
LEMMA DescriptorReply ==
  \A t, x, n : Reply(GetDescriptor(t, x, n)) = Limited(DescriptorOf(t, x), n)
BY DEF Reply, GetDescriptor, Request, usbDriverSetup

\* The answer to what the host asks next is exact, if those it computes the
\* request from are.
LEMMA TurnExact ==
  ASSUME Types, RepliesSuffice, KnownExact, Told # 12, NEW rq \in Agenda
  PROVE  Exact(Told + 1, Reply(rq))
<1>0. Told \in 0 .. 12
  BY DEF Types
<1>1. /\ Told >= 3 => known[3] = usbDescriptorDevice
      /\ Told >= 11 => known[11] = DescriptorOf(DescriptorTypes.HID, 0)
  <2>1. /\ Told >= 3 => Exact(3, known[3])
        /\ Told >= 11 => Exact(11, known[11])
    BY <1>0 DEF KnownExact
  <2> QED
    BY <2>1 DEF Exact
<1> DEFINE Tables(n) ==
      /\ Reply(GetDescriptor(DescriptorTypes.STRING, 0, n)) = Limited(usbDescriptorString0, n)
      /\ Reply(GetDescriptor(DescriptorTypes.STRING, 1, n))
           = Limited(usbDescriptorStringVendor, n)
      /\ Reply(GetDescriptor(DescriptorTypes.STRING, 2, n))
           = Limited(usbDescriptorStringDevice, n)
      /\ Reply(GetDescriptor(DescriptorTypes.HID, 0, n))
           = Limited(DescriptorOf(DescriptorTypes.HID, 0), n)
<1>2. \A n : Tables(n)
  BY DescriptorReply, DescriptorsAre, Zenon
<1>3. Tables(255)
  BY <1>2
<1>4. CASE Told = 0
  <2>1. PICK n \in FirstLens : rq = GetDescriptor(DescriptorTypes.DEVICE, 0, n)
    BY <1>4 DEF Agenda, Told
  <2>2. Reply(rq) = Limited(usbDescriptorDevice, n)
    BY <2>1, DescriptorReply, DescriptorsAre, Zenon
  <2> QED
    BY <1>4, <2>2 DEF Exact
<1>5. CASE Told = 2
  <2>1. rq = GetDescriptor(DescriptorTypes.DEVICE, 0, 18)
    BY <1>5 DEF Agenda, Told
  <2>2. Reply(rq) = Limited(usbDescriptorDevice, 18)
    BY <2>1, DescriptorReply, DescriptorsAre, Zenon
  <2>3. Limited(usbDescriptorDevice, 18) = usbDescriptorDevice
    BY DeviceTable, EnoughAsked
  <2> QED
    BY <1>5, <2>2, <2>3 DEF Exact
<1>6. CASE Told = 4
  <2>1. PICK n \in WholeLength : rq = GetDescriptor(DescriptorTypes.CONFIG, 0, n)
    <3>1. rq \in Now
      BY DEF Now
    <3> QED
      BY <1>6, <3>1, NowSane
  <2>2. Reply(rq) = Limited(usbDescriptorConfiguration, n)
    BY <2>1, DescriptorReply, DescriptorsAre, Zenon
  <2>3. Limited(usbDescriptorConfiguration, n) = usbDescriptorConfiguration
    BY ConfigurationTable, EnoughAsked DEF WholeLength
  <2> QED
    BY <1>6, <2>2, <2>3 DEF Exact
<1>7. CASE Told = 5
  <2>1. rq = GetDescriptor(DescriptorTypes.STRING, 0, 255)
    BY <1>7 DEF Agenda, Told
  <2>2. Reply(rq) = Limited(usbDescriptorString0, 255)
    BY <1>3, <2>1
  <2>3. usbDescriptorString0 \in Table(4)
    BY DEF usbDescriptorString0, Table, Byte
  <2>4. Limited(usbDescriptorString0, 255) = usbDescriptorString0
    BY <2>3, EnoughAsked
  <2> QED
    BY <1>7, <2>2, <2>4 DEF Exact
<1>8. CASE Told = 6
  <2>1. rq = GetDescriptor(DescriptorTypes.STRING, 1, 255)
    <3>1. rq = GetDescriptor(DescriptorTypes.STRING, known[3][15], 255)
      BY <1>8 DEF Agenda, Told
    <3> QED
      BY <1>1, <1>8, <3>1, DeviceBytes
  <2>2. Reply(rq) = Limited(usbDescriptorStringVendor, 255)
    BY <1>3, <2>1
  <2>3. Limited(usbDescriptorStringVendor, 255) = usbDescriptorStringVendor
    BY StringLengths, EnoughAsked
  <2> QED
    BY <1>8, <2>2, <2>3 DEF Exact
<1>9. CASE Told = 7
  <2>1. rq = GetDescriptor(DescriptorTypes.STRING, 2, 255)
    <3>1. rq = GetDescriptor(DescriptorTypes.STRING, known[3][16], 255)
      BY <1>9 DEF Agenda, Told
    <3> QED
      BY <1>1, <1>9, <3>1, DeviceBytes
  <2>2. Reply(rq) = Limited(usbDescriptorStringDevice, 255)
    BY <1>3, <2>1
  <2>3. Limited(usbDescriptorStringDevice, 255) = usbDescriptorStringDevice
    BY StringLengths, EnoughAsked
  <2> QED
    BY <1>9, <2>2, <2>3 DEF Exact
<1>10. CASE Told = 10
  <2>1. rq = GetDescriptor(DescriptorTypes.HID, 0, 255)
    BY <1>10 DEF Agenda, Told
  <2>2. Reply(rq) = Limited(DescriptorOf(DescriptorTypes.HID, 0), 255)
    BY <1>3, <2>1
  <2>3. Limited(DescriptorOf(DescriptorTypes.HID, 0), 255)
          = DescriptorOf(DescriptorTypes.HID, 0)
    BY HidIsPart, EnoughAsked
  <2> QED
    BY <1>10, <2>2, <2>3 DEF Exact
<1>11. CASE Told = 11
  <2>1. rq = GetDescriptor(DescriptorTypes.HID_REPORT, 0, Uint16(known[11], 8))
    BY <1>11 DEF Agenda, Told
  <2>2. Uint16(known[11], 8) = 22
    <3> DEFINE hid == DescriptorOf(DescriptorTypes.HID, 0)
    <3>1. hid[8] = usbDescriptorConfiguration[26] /\ hid[9] = usbDescriptorConfiguration[27]
      BY HidIsPart
    <3>2. hid[8] = 22 /\ hid[9] = 0
      BY <3>1, ConfigurationBytes DEF HidBytes
    <3>3. known[11] = hid
      BY <1>1, <1>11
    <3> HIDE DEF hid
    <3> QED
      BY <3>2, <3>3 DEF Uint16
  <2>3. Reply(rq) = Limited(usbHidReportDescriptor, 22)
    BY <2>1, <2>2, DescriptorReply, DescriptorsAre, Zenon
  <2>4. Limited(usbHidReportDescriptor, 22) = usbHidReportDescriptor
    <3>1. usbHidReportDescriptor \in Table(22)
      BY ReportTable DEF Table
    <3> QED
      BY <3>1, EnoughAsked
  <2> QED
    BY <1>11, <2>3, <2>4 DEF Exact
<1>12. CASE Told \in {1, 3, 8, 9}
  BY <1>12 DEF Exact
<1> QED
  BY <1>0, <1>4, <1>5, <1>6, <1>7, <1>8, <1>9, <1>10, <1>11, <1>12

\* Only the end of a request adds to what the host knows.
LEMMA KnownSteps ==
  ASSUME IInv, [Next]_vars
  PROVE  \/ known' \in {known, <<>>}
         \/ \E rq \in Agenda : Told # 12 /\ known' = Append(known, Reply(rq))
<1>1. CASE HostFinish
  <2>1. /\ hst = "waits" /\ rx = {} /\ msg # {}
        /\ \E reply \in msg : known' = IF Configured THEN known ELSE Append(known, reply)
    BY <1>1 DEF HostFinish
  <2>2. PICK rq \in Now : ask = {rq}
    BY <2>1 DEF IInv, RequestStored
  <2>3. msg = {Reply(rq)}
    BY <2>1, <2>2 DEF IInv, RequestDone
  <2>4. CASE Told = 12
    BY <2>1, <2>4 DEF Configured, Told
  <2>5. CASE Told # 12
    <3>1. rq \in Agenda
      BY <2>2, <2>5 DEF Now
    <3>2. known' = Append(known, Reply(rq))
      BY <2>1, <2>3, <2>5 DEF Configured, Told
    <3> QED
      BY <2>5, <3>1, <3>2
  <2> QED
    BY <2>4, <2>5
<1>2. CASE Device \/ Restart \/ Hang \/ EndReset \/ EndResetMissed \/ Enumerate \/ AskRoutine
  BY <1>2 DEF Device, UsbInit, Disconnect, FakeDisconnect, Connect, Poll, WatchdogRestarts,
              StartOver, Restart, Hang, EndReset, EndResetMissed, Enumerate, AskRoutine,
              HostAsk, host
<1>3. CASE Notice \/ Attach \/ HostReset \/ GiveUp
  BY <1>3 DEF Notice, Attach, HostReset, GiveUp, BeginReset
<1>4. CASE UNCHANGED vars
  BY <1>4 DEF vars, host
<1> QED
  BY <1>1, <1>2, <1>3, <1>4 DEF Next, HostGoesOn

\* What the host knows stays exact.
LEMMA KnownExactPreserves == IInv /\ KnownExact /\ [Next]_vars => KnownExact'
<1>1. SUFFICES ASSUME IInv, KnownExact, [Next]_vars PROVE KnownExact'
  OBVIOUS
<1>2. Types /\ RepliesSuffice
  BY <1>1 DEF IInv
<1>3. CASE known' = <<>>
  <2>1. Told' = 0
    BY <1>3, TellsAgain
  <2> QED
    BY <2>1 DEF KnownExact
<1>4. CASE known' = known
  BY <1>1, <1>4, NothingTold DEF KnownExact
<1>5. ASSUME NEW rq \in Agenda, Told # 12, known' = Append(known, Reply(rq)) PROVE KnownExact'
  <2>1. Exact(Told + 1, Reply(rq))
    BY <1>1, <1>2, <1>5, TurnExact
  <2>2. known \in Seq(Seq(Byte)) /\ Told \in 0 .. 12
    BY <1>2 DEF Types
  <2>3. Reply(rq) \in Seq(Byte)
    <3>1. rq \in Now
      BY <1>5 DEF Now
    <3>2. Sane(rq)
      BY <1>2, <3>1, NowSane
    <3> QED
      BY <1>2, <3>2, ReplyFits DEF Types
  <2>4. /\ Told' = Told + 1
        /\ \A k \in 1 .. Told : known'[k] = known[k]
        /\ known'[Told + 1] = Reply(rq)
    <3> DEFINE ap == Append(known, Reply(rq))
    <3>1. /\ Len(ap) = Len(known) + 1
          /\ \A k \in 1 .. Len(known) : ap[k] = known[k]
          /\ ap[Len(known) + 1] = Reply(rq)
      BY <2>2, <2>3, AppendProperties
    <3>2. known' = ap
      BY <1>5
    <3> HIDE DEF ap
    <3> QED
      BY <3>1, <3>2, Zenon DEF Told
  <2>5. SUFFICES ASSUME NEW k \in 1 .. Told' PROVE Exact(k, known'[k])
    BY DEF KnownExact, Exact
  <2>6. CASE k = Told + 1
    BY <2>1, <2>4, <2>6
  <2>7. CASE k # Told + 1
    <3>1. k \in 1 .. Told
      BY <2>2, <2>4, <2>7
    <3>2. known'[k] = known[k] /\ Exact(k, known[k])
      BY <1>1, <2>4, <3>1 DEF KnownExact
    <3> QED
      BY <3>2
  <2> QED
    BY <2>6, <2>7
<1> QED
  BY <1>1, <1>3, <1>4, <1>5, KnownSteps

\* The replies that the host keeps are exactly the tables of the source, whatever
\* lengths it asked for and however its enumeration was interrupted.
THEOREM KnownIsExact == Spec => []KnownExact
<1>1. Init => KnownExact
  BY TellsAgain DEF Init, KnownExact
<1>2. IInv /\ KnownExact /\ [Next]_vars => KnownExact'
  BY KnownExactPreserves
<1> QED
  BY <1>1, <1>2, Invariance, PTL DEF Spec

-----------------------------------------------------------------------------
(* What follows from it. *)

\* The four parts of the configuration fill it.
LEMMA PartsOfConfiguration ==
  ASSUME NEW s, s = usbDescriptorConfiguration
  PROVE  PartsOf(s) = {1, 10, 19, 28, 35}
<1>1. s \in Seq(Byte) /\ Len(s) = 34
  BY ConfigurationTable DEF Table
<1>2. s[1] = 9 /\ s[10] = 9 /\ s[19] = 9 /\ s[28] = 7
  BY ConfigurationBytes DEF ConfigurationPart, InterfacePart, HidBytes, EndpointBytes
<1>3. PICK at : Walks(at, s, s, 1) /\ PartsOf(s) = at[1]
  BY <1>1, PartsWalk
<1>4. GoesOn(at, s, s)
  BY <1>1, <1>3, WalkSteps
<1>5. /\ NextStop(s, s, 1, 10) /\ NextStop(s, s, 10, 19)
      /\ NextStop(s, s, 19, 28) /\ NextStop(s, s, 28, 35)
  BY <1>1, <1>2 DEF NextStop
<1>6. /\ at[1] = {1} \cup at[10] /\ at[10] = {10} \cup at[19]
      /\ at[19] = {19} \cup at[28] /\ at[28] = {28} \cup at[35]
  BY <1>4, <1>5 DEF GoesOn
<1>7. at[35] = {35}
  BY <1>1, <1>4 DEF GoesOn
<1> QED
  BY <1>3, <1>6, <1>7

\* The ten items of the report descriptor fill it, and say 128 times 8 bits.
LEMMA ItemsOfReport ==
  ASSUME NEW s, s = usbHidReportDescriptor
  PROVE  /\ Len(s) + 1 \in ItemsOf(s)
         /\ Item(s, 117) = {8} /\ Item(s, 149) = {128}
<1>1. s \in Seq(Byte) /\ Len(s) = 22
  BY ReportTable
<1>2. /\ s[1] = 6 /\ s[4] = 9 /\ s[6] = 161 /\ s[8] = 21 /\ s[10] = 38 /\ s[13] = 117
      /\ s[14] = 8 /\ s[15] = 149 /\ s[16] = 128 /\ s[17] = 9 /\ s[19] = 178 /\ s[22] = 192
  BY DEF usbHidReportDescriptor
<1>3. PICK at : Walks(at, s, Sizes(s), 1) /\ ItemsOf(s) = at[1]
  BY <1>1, ItemsWalk
<1> DEFINE sizes == Sizes(s)
<1>4. GoesOn(at, s, sizes)
  BY <1>1, <1>3, WalkSteps
<1>5. /\ sizes[1] = 3 /\ sizes[4] = 2 /\ sizes[6] = 2 /\ sizes[8] = 2 /\ sizes[10] = 3
      /\ sizes[13] = 2 /\ sizes[15] = 2 /\ sizes[17] = 2 /\ sizes[19] = 3 /\ sizes[22] = 1
  BY <1>1, <1>2 DEF Sizes, ItemSize
<1> HIDE DEF sizes
<1>6. /\ NextStop(s, sizes, 1, 4) /\ NextStop(s, sizes, 4, 6) /\ NextStop(s, sizes, 6, 8)
      /\ NextStop(s, sizes, 8, 10) /\ NextStop(s, sizes, 10, 13) /\ NextStop(s, sizes, 13, 15)
      /\ NextStop(s, sizes, 15, 17) /\ NextStop(s, sizes, 17, 19) /\ NextStop(s, sizes, 19, 22)
      /\ NextStop(s, sizes, 22, 23)
  BY <1>1, <1>5 DEF NextStop
<1>7. /\ at[1] = {1} \cup at[4] /\ at[4] = {4} \cup at[6] /\ at[6] = {6} \cup at[8]
      /\ at[8] = {8} \cup at[10] /\ at[10] = {10} \cup at[13] /\ at[13] = {13} \cup at[15]
      /\ at[15] = {15} \cup at[17] /\ at[17] = {17} \cup at[19] /\ at[19] = {19} \cup at[22]
      /\ at[22] = {22} \cup at[23]
  BY <1>4, <1>6 DEF GoesOn
<1>8. at[23] = {23}
  BY <1>1, <1>4 DEF GoesOn
<1>9. ItemsOf(s) = {1, 4, 6, 8, 10, 13, 15, 17, 19, 22, 23}
  BY <1>3, <1>7, <1>8
<1>10. \A prefix :
         Item(s, prefix) = {s[p + 1] : p \in {q \in ItemsOf(s) \ {23} : s[q] = prefix}}
  BY <1>1 DEF Item, ItemsOf
<1>11. {q \in ItemsOf(s) \ {23} : s[q] = 117} = {13}
  BY <1>2, <1>9
<1>12. {q \in ItemsOf(s) \ {23} : s[q] = 149} = {15}
  BY <1>2, <1>9
<1>13. Item(s, 117) = {8} /\ Item(s, 149) = {128}
  BY <1>2, <1>10, <1>11, <1>12
<1>14. Len(s) + 1 \in ItemsOf(s)
  BY <1>1, <1>9
<1> QED
  BY <1>13, <1>14

\* A first reply is the beginning of the device descriptor.
LEMMA FirstIsPrefix ==
  ASSUME NEW n \in FirstLens, NEW s, s = Limited(usbDescriptorDevice, n)
  PROVE  s = SubSeq(usbDescriptorDevice, 1, Len(s))
<1>1. usbDescriptorDevice \in Seq(Byte) /\ Len(usbDescriptorDevice) = 18 /\ n \in 8 .. 255
  BY DeviceTable, Ranges DEF Table
<1>2. CASE n < 18
  <2>1. s = SubSeq(usbDescriptorDevice, 1, n)
    BY <1>1, <1>2 DEF Limited
  <2>2. Len(s) = n
    BY <1>1, <1>2, <2>1
  <2> QED
    BY <2>1, <2>2
<1>3. CASE n >= 18
  <2> DEFINE d == usbDescriptorDevice
             part == SubSeq(d, 1, 18)
  <2>1. s = d
    BY <1>1, <1>3 DEF Limited
  <2> HIDE DEF d
  <2>2. d \in Seq(Byte) /\ Len(d) = 18
    BY <1>1 DEF d
  <2>3. part \in Seq(Byte) /\ Len(part) = 18 /\ \A k \in 1 .. 18 : part[k] = d[k]
    <3>1. 1 \in 1 .. Len(d) /\ 18 \in 1 .. Len(d)
      BY <2>2
    <3>2. part \in Table(18 - 1 + 1) /\ \A k \in 1 .. 18 - 1 + 1 : part[k] = d[1 + k - 1]
      BY <2>2, <3>1, PartOfTable, Zenon
    <3> HIDE DEF part
    <3> QED
      BY <3>2 DEF Table
  <2> HIDE DEF part
  <2>4. part = d
    BY <2>2, <2>3, SeqEqual
  <2> QED
    BY <2>1, <2>2, <2>4 DEF part, d
<1> QED
  BY <1>1, <1>2, <1>3

\* The tables that the device sends agree with each other: usbdrv.c's lengths and
\* counts with the parts, usbconfig.h's lengths with the names and with the
\* report descriptor of USBPort.cpp.
THEOREM DescriptorsConsistent == Spec => []DescriptorsAgree
<1>1. IInv /\ KnownExact => DescriptorsAgree
  <2>1. SUFFICES ASSUME IInv, KnownExact, Configured PROVE DescriptorsAgree
    BY DEF DescriptorsAgree
  <2> DEFINE conf   == known[5]
             report == known[12]
             parts  == PartsOf(conf)
             Of(t)  == {p \in parts \ {Len(conf) + 1} : conf[p + 1] = t}
  <2>2. /\ \E n \in FirstLens : known[1] = Limited(usbDescriptorDevice, n)
        /\ known[3] = usbDescriptorDevice
        /\ known[5] = usbDescriptorConfiguration
        /\ known[6] = usbDescriptorString0
        /\ known[7] = usbDescriptorStringVendor
        /\ known[8] = usbDescriptorStringDevice
        /\ known[11] = DescriptorOf(DescriptorTypes.HID, 0)
        /\ known[12] = usbHidReportDescriptor
    <3>1. Told = 12
      BY <2>1 DEF Configured, Told
    <3>2. \A k \in 1 .. 12 : Exact(k, known[k])
      BY <2>1, <3>1 DEF KnownExact
    <3> QED
      BY <3>2 DEF Exact
  <2>3. /\ Len(known[3]) = known[3][1] /\ known[1] = SubSeq(known[3], 1, Len(known[1]))
        /\ known[3][8] = 8
    <3>1. known[1] = SubSeq(usbDescriptorDevice, 1, Len(known[1]))
      BY <2>2, FirstIsPrefix
    <3> QED
      BY <2>2, <3>1, DeviceBytes, DeviceTable DEF Table
  <2>4. parts = {1, 10, 19, 28, 35}
    BY <2>2, PartsOfConfiguration
  <2>5. /\ Len(conf) = 34 /\ conf[2] = 2 /\ conf[3] = 34 /\ conf[4] = 0 /\ conf[5] = 1
        /\ conf[11] = 4 /\ conf[14] = 1 /\ conf[19] = 9 /\ conf[20] = 33
        /\ conf[26] = 22 /\ conf[27] = 0 /\ conf[29] = 5
    BY <2>2, ConfigurationTable, ConfigurationBytes
       DEF Table, ConfigurationPart, InterfacePart, HidBytes, EndpointBytes, DescriptorTypes
  <2> HIDE DEF conf, parts
  <2>6. Of(4) = {10} /\ Of(33) = {19} /\ Of(5) = {28}
    BY <2>4, <2>5
  <2> HIDE DEF Of
  <2>7. Len(conf) = Uint16(conf, 3) /\ Len(conf) + 1 \in parts
    BY <2>4, <2>5 DEF Uint16
  <2>8. Cardinality(Of(DescriptorTypes.INTERFACE)) = conf[5]
    BY <2>5, <2>6, FS_Singleton DEF DescriptorTypes
  <2>9. \A p \in Of(DescriptorTypes.INTERFACE) :
          Cardinality(Of(DescriptorTypes.ENDPOINT)) = conf[p + 4]
    BY <2>5, <2>6, FS_Singleton DEF DescriptorTypes
  <2>10. \A p \in Of(DescriptorTypes.HID) :
           /\ known[11] = SubSeq(conf, p, p + conf[p] - 1)
           /\ Len(report) = Uint16(conf, p + 7)
    <3> DEFINE hid  == known[11]
               part == SubSeq(conf, 19, 27)
    <3>1. hid \in Seq(Byte) /\ Len(hid) = 9 /\ \A k \in 1 .. 9 : hid[k] = conf[18 + k]
      BY <2>2, HidIsPart DEF Table, conf
    <3>2. conf \in Seq(Byte)
      BY <2>2, ConfigurationTable DEF Table, conf
    <3> HIDE DEF hid
    <3>3. part \in Seq(Byte) /\ Len(part) = 9 /\ \A k \in 1 .. 9 : part[k] = conf[18 + k]
      <4>1. 19 \in 1 .. Len(conf) /\ 27 \in 19 .. Len(conf)
        BY <2>5
      <4>2. /\ part \in Table(27 - 19 + 1)
            /\ \A k \in 1 .. 27 - 19 + 1 : part[k] = conf[19 + k - 1]
        BY <3>2, <4>1, PartOfTable, Zenon
      <4> HIDE DEF part
      <4> QED
        BY <4>2 DEF Table
    <3> HIDE DEF part
    <3>4. hid = part
      <4>1. Len(hid) = Len(part) /\ \A k \in 1 .. Len(hid) : hid[k] = part[k]
        BY <3>1, <3>3
      <4> QED
        BY <3>1, <3>3, <4>1, SeqEqual, Zenon
    <3>5. Len(report) = 22
      BY <2>2, ReportTable
    <3> QED
      BY <2>5, <2>6, <3>4, <3>5 DEF Uint16, DescriptorTypes, hid, part
  <2>11. \A k \in 6 .. 8 : Len(known[k]) = known[k][1]
    <3>1. Len(known[6]) = known[6][1]
      BY <2>2 DEF usbDescriptorString0
    <3>2. Len(known[7]) = known[7][1] /\ Len(known[8]) = known[8][1]
      BY <2>2, StringLengths DEF Table
    <3>3. \A k \in 6 .. 8 : k = 6 \/ k = 7 \/ k = 8
      OBVIOUS
    <3> QED
      BY <3>1, <3>2, <3>3
  <2>12. /\ Len(report) + 1 \in ItemsOf(report)
         /\ Item(report, 117) = {8} /\ Item(report, 149) = {ReportBytes}
    BY <2>2, ItemsOfReport DEF ReportBytes
  <2> QED
    BY <2>3, <2>7, <2>8, <2>9, <2>10, <2>11, <2>12
       DEF DescriptorsAgree, PartsOf, ItemsOf, conf, parts, Of
<1> QED
  BY <1>1, Invariance, KnownIsExact, PTL

=============================================================================
