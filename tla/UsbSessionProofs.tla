--------------------------- MODULE UsbSessionProofs ---------------------------
(***************************************************************************)
(* Proofs about a session of the USB device with its host, for every width *)
(* of the countdown, every time a host takes to notice a disconnect, every *)
(* length and address it asks for, and any number of troubles.             *)
(***************************************************************************)
EXTENDS UsbSession, SequenceTheorems, TLAPS

Byte == 0 .. 255

\* The lengths that reach past the configuration's parts.
WholeLength == {n \in Nat : n >= 34}

\* How many replies the host has got.
Told == Len(known)

-----------------------------------------------------------------------------
(* The parts of the inductive invariant. *)

\* What the device relies on in a request, of this enumeration or left over.
Sane(rq) ==
  /\ rq.type \in {"STANDARD", "CLASS"}
  /\ rq.type = "STANDARD" => rq.bRequest \in StandardRequests
  /\ rq.bRequest = "SET_ADDRESS" => rq.value \in Addrs
  /\ rq.bRequest = "SET_CONFIGURATION" => rq.value \in Byte
  /\ rq.wLength \in Nat

Types ==
  /\ dev \in {"boot", "init", "low", "on", "hung"}
  /\ hst \in {"detached", "reset", "asks", "waits"}
  /\ i \in 0 .. CountMod - 1
  /\ usbDeviceAddr \in {0} \cup Addrs /\ usbNewDeviceAddr \in {0} \cup Addrs
  /\ hostAddr \in {0} \cup Addrs
  /\ usbConfiguration \in Byte
  /\ \A rq \in rx : Sane(rq)
  /\ \A q, r \in rx : q = r
  /\ \A rq \in ask : Sane(rq)
  /\ known \in Seq(Seq(Byte)) /\ Told \in 0 .. 12
  /\ seen \in BOOLEAN /\ trouble \in 0 .. MaxTrouble

\* The replies that the host computes its next requests from are long enough.
RepliesSuffice ==
  /\ Told >= 4 => Len(known[4]) >= 4 /\ Uint16(known[4], 3) = 34
  /\ Told >= 5 => Len(known[5]) >= 6
  /\ Told >= 11 => Len(known[11]) >= 9

\* The request under way is stored or done, whatever was left over from before;
\* the reply to it is prepared together with what it sets.
RequestDone ==
  hst = "waits" /\ rx = {} /\ msg # {} =>
    \A rq \in ask :
      /\ msg = {Reply(rq)}
      /\ rq.bRequest = "SET_ADDRESS" => usbNewDeviceAddr = rq.value
      /\ rq.bRequest = "SET_CONFIGURATION" => usbConfiguration = rq.value

\* What the host asks now.
Now == Agenda \cup {rq \in Routine : Told = 12}

RequestStored ==
  /\ hst # "waits" => ask = {}
  /\ hst = "waits" => \E rq \in Now : ask = {rq}
  /\ hst = "waits" /\ rx # {} => rx = ask
  /\ hst = "asks" /\ known # <<>> => rx = {}
  /\ hst \in {"detached", "reset"} => known = <<>>

\* A running device has what the host gave it in this enumeration.
DeviceFollows ==
  dev = "on" /\ hst \in {"asks", "waits"} =>
    /\ Told >= 2 => usbDeviceAddr = hostAddr /\ usbNewDeviceAddr = hostAddr
    /\ Told >= 9 => usbConfiguration = known[5][6]

IInv ==
  /\ Types /\ RepliesSuffice /\ RequestStored /\ RequestDone /\ DeviceFollows

-----------------------------------------------------------------------------
(* Lemmas about the tables and the replies. *)

\* The ranges of the constants.
LEMMA Ranges ==
  /\ CountMod \in Nat /\ CountMod >= 2 /\ Noticed \in 1 .. CountMod - 1
  /\ \A n \in FirstLens : n \in 8 .. 255
  /\ \A a \in Addrs : a \in 1 .. 127
  /\ MaxTrouble \in Nat
<1>1. CountMod \in Nat /\ Noticed \in 1 .. CountMod - 1 /\ MaxTrouble \in Nat
  BY SessionAssumption
<1>2. /\ \A n \in FirstLens : n \in 8 .. 255
      /\ \A a \in Addrs : a \in 1 .. 127
  BY SessionAssumption
<1>3. CountMod >= 2
  BY <1>1
<1> QED
  BY <1>1, <1>2, <1>3, Zenon

\* The lengths that the host asks of the device descriptor first.
LEMMA FirstLengths == \A n \in FirstLens : n \in Nat
BY SessionAssumption

\* The lengths that the host asks of the configuration.
LEMMA ConfigurationLengths == \A n \in ConfLens : n = 0 \/ n \in WholeLength
BY SessionAssumption DEF WholeLength

\* Tables of n bytes; and what the host reads in the configuration's header.
Table(n) == {s \in Seq(Byte) : Len(s) = n}
Header(s) == s[3] = 34 /\ s[4] = 0

\* A table put together from two.
LEMMA TableOfTwo ==
  ASSUME NEW m \in Nat, NEW n \in Nat, NEW s \in Table(m), NEW t \in Table(n)
  PROVE  /\ s \o t \in Table(m + n)
         /\ m >= 4 /\ Header(s) => Header(s \o t)
<1>1. s \in Seq(Byte) /\ t \in Seq(Byte) /\ Len(s) = m /\ Len(t) = n
  BY DEF Table
<1>2. /\ s \o t \in Seq(Byte)
      /\ Len(s \o t) = Len(s) + Len(t)
      /\ \A k \in 1 .. Len(s) + Len(t) :
           (s \o t)[k] = IF k <= Len(s) THEN s[k] ELSE t[k - Len(s)]
  BY <1>1, ConcatProperties, Zenon
<1> DEFINE st == s \o t
<1>3. st \in Seq(Byte) /\ Len(st) = m + n
  BY <1>1, <1>2
<1>4. m >= 4 => st[3] = s[3] /\ st[4] = s[4]
  BY <1>1, <1>2
<1> HIDE DEF st
<1>5. st \in Table(m + n) /\ (m >= 4 /\ Header(s) => Header(st))
  BY <1>3, <1>4 DEF Table, Header
<1> QED
  BY <1>5 DEF st

\* A function on 1 .. n is a sequence.
LEMMA FunctionIsTable ==
  ASSUME NEW n \in Nat, NEW f \in [1 .. n -> Byte]
  PROVE  f \in Seq(Byte) /\ Len(f) = n
<1>1. f \in Seq(Byte)
  BY SeqDef, Zenon
<1>2. DOMAIN f = 1 .. n
  OBVIOUS
<1>3. Len(f) \in Nat /\ DOMAIN f = 1 .. Len(f)
  BY <1>1, LenProperties, Zenon
<1>4. 1 .. n = 1 .. Len(f)
  BY <1>2, <1>3, Zenon
<1>5. Len(f) = n
  BY <1>3, <1>4
<1> QED
  BY <1>1, <1>5

\* The part of a table that is sent.
LEMMA PartIsTable ==
  ASSUME NEW s \in Seq(Byte), NEW n \in 0 .. Len(s)
  PROVE  /\ FromTable(n, s) \in Seq(Byte) /\ Len(FromTable(n, s)) = n
         /\ \A k \in 1 .. n : FromTable(n, s)[k] = s[k]
<1>1. n \in Nat /\ 1 .. n \subseteq 1 .. Len(s)
  BY LenProperties
<1>2. FromTable(n, s) \in [1 .. n -> Byte]
  BY <1>1, ElementOfSeq DEF FromTable
<1>3. \A k \in 1 .. n : FromTable(n, s)[k] = s[k]
  BY DEF FromTable
<1> QED
  BY <1>1, <1>2, <1>3, FunctionIsTable

\* What a wLength of one byte leaves of a reply.
LEMMA LimitedIsTable ==
  ASSUME NEW s \in Seq(Byte), Len(s) <= 255, NEW n \in Nat
  PROVE  /\ Limited(s, n) \in Seq(Byte)
         /\ Len(Limited(s, n)) = IF Len(s) <= n THEN Len(s) ELSE n
         /\ \A k \in 1 .. Len(Limited(s, n)) : Limited(s, n)[k] = s[k]
<1>1. Len(s) \in Nat
  BY LenProperties
<1>2. CASE n < 256 /\ Len(s) > n
  <2>1. Limited(s, n) = SubSeq(s, 1, n)
    BY <1>2 DEF Limited
  <2>2. /\ SubSeq(s, 1, n) \in Seq(Byte)
        /\ Len(SubSeq(s, 1, n)) = n
        /\ \A k \in 1 .. n : SubSeq(s, 1, n)[k] = s[k]
    BY <1>1, <1>2
  <2> QED
    BY <1>1, <1>2, <2>1, <2>2
<1>3. CASE ~(n < 256 /\ Len(s) > n)
  <2>1. Limited(s, n) = s
    BY <1>3 DEF Limited
  <2> QED
    BY <1>1, <1>3, <2>1
<1> QED
  BY <1>2, <1>3

\* The same of a table of m bytes.
LEMMA LimitedTable ==
  ASSUME NEW m \in 0 .. 255, NEW s \in Table(m), NEW n \in Nat
  PROVE  /\ m <= n => Limited(s, n) \in Table(m)
         /\ n < m => Limited(s, n) \in Table(n)
         /\ \A k \in 1 .. m : k <= n => Limited(s, n)[k] = s[k]
<1>1. s \in Seq(Byte) /\ Len(s) = m /\ Len(s) <= 255
  BY DEF Table
<1>2. /\ Limited(s, n) \in Seq(Byte)
      /\ Len(Limited(s, n)) = IF m <= n THEN m ELSE n
      /\ \A k \in 1 .. Len(Limited(s, n)) : Limited(s, n)[k] = s[k]
  BY <1>1, LimitedIsTable
<1>3. \A k \in 1 .. m : k <= n => Limited(s, n)[k] = s[k]
  BY <1>2
<1> QED
  BY <1>2, <1>3 DEF Table

\* usbDescriptorConfiguration: its parts add up to the length in its header.
LEMMA ConfigurationTable ==
  usbDescriptorConfiguration \in Table(34) /\ Header(usbDescriptorConfiguration)
<1> DEFINE head  == << 9, DescriptorTypes.CONFIG, TotalLength, 0, 1, 1, 0,
                       128 + 64 * Options.IS_SELF_POWERED, Options.MAX_BUS_POWER \div 2 >>
           inter == << 9, DescriptorTypes.INTERFACE, 0, 0,
                       Options.HAVE_INTRIN_ENDPOINT + Options.HAVE_INTRIN_ENDPOINT3 >>
           class == Identity.INTERFACE_CLASS
           none  == <<0>>
           ep1   == EndpointPart(Options.HAVE_INTRIN_ENDPOINT, 1)
           ep3   == EndpointPart(Options.HAVE_INTRIN_ENDPOINT3, Options.EP3_NUMBER)
           one   == head \o inter
           two   == one \o class
           three == two \o none
           four  == three \o HidPart
           five  == four \o ep1
<1>1. TotalLength = 34
  BY DEF TotalLength, Options, PROPS_HID, PROPS_HID_REPORT, Identity
<1>2. head \in Table(9) /\ Header(head)
  BY <1>1 DEF DescriptorTypes, Options, Byte, Table, Header
<1>3. inter \in Table(5)
  BY DEF DescriptorTypes, Options, Byte, Table
<1>4. class \in Table(3) /\ none \in Table(1)
  BY DEF Identity, Byte, Table
<1>5. HidPart \in Table(9)
  BY DEF HidPart, PROPS_HID, PROPS_HID_REPORT, Identity, DescriptorTypes, Byte, Table
<1>6. ep1 \in Table(7)
  BY DEF EndpointPart, Options, DescriptorTypes, Byte, Table
<1>7. ep3 \in Table(0)
  BY DEF EndpointPart, Options, Table
<1>8. usbDescriptorConfiguration = five \o ep3
  BY DEF usbDescriptorConfiguration
<1> HIDE DEF head, inter, class, none, ep1, ep3
<1>9. one \in Table(9 + 5) /\ Header(one)
  BY <1>2, <1>3, TableOfTwo
<1> HIDE DEF one
<1>10. two \in Table(14 + 3) /\ Header(two)
  BY <1>4, <1>9, TableOfTwo
<1> HIDE DEF two
<1>11. three \in Table(17 + 1) /\ Header(three)
  BY <1>4, <1>10, TableOfTwo
<1> HIDE DEF three
<1>12. four \in Table(18 + 9) /\ Header(four)
  BY <1>5, <1>11, TableOfTwo
<1> HIDE DEF four
<1>13. five \in Table(27 + 7) /\ Header(five)
  BY <1>6, <1>12, TableOfTwo
<1> HIDE DEF five
<1>14. five \o ep3 \in Table(34 + 0) /\ Header(five \o ep3)
  BY <1>7, <1>13, TableOfTwo
<1> QED
  BY <1>8, <1>14

\* A string's table is a header and two bytes for each character.
LEMMA StringTables ==
  /\ \E n \in 0 .. 255 : usbDescriptorStringVendor \in Table(n)
  /\ \E n \in 0 .. 255 : usbDescriptorStringDevice \in Table(n)
<1> DEFINE chars(n) == [k \in 1 .. 2 * n |-> Char]
<1>1. /\ Identity.VENDOR_NAME \in 0 .. 126 /\ Identity.DEVICE_NAME \in 0 .. 126
  BY DEF Identity
<1>2. ASSUME NEW n \in 0 .. 126 PROVE chars(n) \in Table(2 * n)
  <2>1. Char \in Byte
    BY DEF Char, Byte
  <2>2. 2 * n \in Nat
    OBVIOUS
  <2>3. chars(n) \in [1 .. 2 * n -> Byte]
    BY <2>1
  <2> HIDE DEF chars
  <2> QED
    BY <2>2, <2>3, FunctionIsTable DEF Table
<1>3. /\ USB_STRING_DESCRIPTOR_HEADER(Identity.VENDOR_NAME_LEN) \in Table(2)
      /\ USB_STRING_DESCRIPTOR_HEADER(Identity.DEVICE_NAME_LEN) \in Table(2)
  <2>1. Identity.VENDOR_NAME_LEN = 11 /\ Identity.DEVICE_NAME_LEN = 10
    BY DEF Identity
  <2> QED
    BY <2>1 DEF USB_STRING_DESCRIPTOR_HEADER, Byte, Table
<1>4. /\ usbDescriptorStringVendor =
           USB_STRING_DESCRIPTOR_HEADER(Identity.VENDOR_NAME_LEN) \o chars(Identity.VENDOR_NAME)
      /\ usbDescriptorStringDevice =
           USB_STRING_DESCRIPTOR_HEADER(Identity.DEVICE_NAME_LEN) \o chars(Identity.DEVICE_NAME)
  BY DEF usbDescriptorStringVendor, usbDescriptorStringDevice
<1> HIDE DEF chars
<1>5. /\ chars(Identity.VENDOR_NAME) \in Table(2 * Identity.VENDOR_NAME)
      /\ chars(Identity.DEVICE_NAME) \in Table(2 * Identity.DEVICE_NAME)
  BY <1>1, <1>2
<1>6. /\ 2 * Identity.VENDOR_NAME \in Nat /\ 2 * Identity.DEVICE_NAME \in Nat
      /\ 2 + 2 * Identity.VENDOR_NAME \in 0 .. 255
      /\ 2 + 2 * Identity.DEVICE_NAME \in 0 .. 255
  BY <1>1
<1>7. /\ usbDescriptorStringVendor \in Table(2 + 2 * Identity.VENDOR_NAME)
      /\ usbDescriptorStringDevice \in Table(2 + 2 * Identity.DEVICE_NAME)
  BY <1>3, <1>4, <1>5, <1>6, TableOfTwo
<1> QED
  BY <1>6, <1>7

\* The device descriptor has 18 bytes.
LEMMA DeviceTable == usbDescriptorDevice \in Table(18)
<1> DEFINE head  == <<18, DescriptorTypes.DEVICE, 16, 1>>
           class == Identity.DEVICE_CLASS
           ep0   == <<0, 8>>
           vend  == Identity.VENDOR_ID
           devi  == Identity.DEVICE_ID
           vers  == Identity.DEVICE_VERSION
           names == << IndexOf(usbDescriptorStringVendor, 1),
                       IndexOf(usbDescriptorStringDevice, 2),
                       IndexOf(usbDescriptorStringSerialNumber, 3), 1 >>
           one   == head \o class
           two   == one \o ep0
           three == two \o vend
           four  == three \o devi
           five  == four \o vers
<1>1. head \in Table(4)
  BY DEF DescriptorTypes, Byte, Table
<1>2. class \in Table(2) /\ ep0 \in Table(2)
  BY DEF Identity, Byte, Table
<1>3. vend \in Table(2) /\ devi \in Table(2) /\ vers \in Table(2)
  BY DEF Identity, Byte, Table
<1>4. names \in Table(4)
  <2>1. /\ IndexOf(usbDescriptorStringVendor, 1) \in Byte
        /\ IndexOf(usbDescriptorStringDevice, 2) \in Byte
        /\ IndexOf(usbDescriptorStringSerialNumber, 3) \in Byte
        /\ 1 \in Byte
    BY DEF IndexOf, Byte
  <2> QED
    BY <2>1 DEF Table
<1>5. usbDescriptorDevice = five \o names
  BY DEF usbDescriptorDevice
<1> HIDE DEF head, class, ep0, vend, devi, vers, names
<1>6. one \in Table(4 + 2)
  BY <1>1, <1>2, TableOfTwo
<1> HIDE DEF one
<1>7. two \in Table(6 + 2)
  BY <1>2, <1>6, TableOfTwo
<1> HIDE DEF two
<1>8. three \in Table(8 + 2)
  BY <1>3, <1>7, TableOfTwo
<1> HIDE DEF three
<1>9. four \in Table(10 + 2)
  BY <1>3, <1>8, TableOfTwo
<1> HIDE DEF four
<1>10. five \in Table(12 + 2)
  BY <1>3, <1>9, TableOfTwo
<1> HIDE DEF five
<1>11. five \o names \in Table(14 + 4)
  BY <1>4, <1>10, TableOfTwo
<1> QED
  BY <1>5, <1>11

\* The report descriptor has the length that usbconfig.h says.
LEMMA ReportTable ==
  usbHidReportDescriptor \in Seq(Byte) /\ Len(usbHidReportDescriptor) = 22
BY DEF usbHidReportDescriptor, Byte

\* The HID part of the configuration: from its 19th byte on.
LEMMA HidTable ==
  /\ DescriptorOf(DescriptorTypes.HID, 0) \in Seq(Byte)
  /\ Len(DescriptorOf(DescriptorTypes.HID, 0)) = 9
  /\ \A index : DescriptorOf(DescriptorTypes.HID, index)
                  = DescriptorOf(DescriptorTypes.HID, 0)
<1> DEFINE part == SubSeq(usbDescriptorConfiguration, 19, Len(usbDescriptorConfiguration))
<1>1. part \in Seq(Byte) /\ Len(part) = 16
  <2>1. /\ usbDescriptorConfiguration \in Seq(Byte)
        /\ Len(usbDescriptorConfiguration) = 34
    BY ConfigurationTable DEF Table
  <2>2. \A k \in 19 .. 34 : usbDescriptorConfiguration[k] \in Byte
    <3>1. SUFFICES ASSUME NEW k \in 19 .. 34 PROVE usbDescriptorConfiguration[k] \in Byte
      OBVIOUS
    <3>2. k \in 1 .. Len(usbDescriptorConfiguration)
      BY <2>1
    <3> QED
      BY <2>1, <3>2, ElementOfSeq, Zenon
  <2> QED
    BY <2>1, <2>2, SubSeqProperties
<1>2. PROPS_HID = 9
  BY DEF PROPS_HID, PROPS_HID_REPORT, Identity
<1>3. \A index : DescriptorOf(DescriptorTypes.HID, index) = FromTable(9, part)
  BY <1>2 DEF DescriptorOf, DescriptorTypes
<1> HIDE DEF part
<1>4. 9 \in 0 .. Len(part)
  BY <1>1
<1>5. FromTable(9, part) \in Seq(Byte) /\ Len(FromTable(9, part)) = 9
  BY <1>1, <1>4, PartIsTable
<1> QED
  BY <1>3, <1>5

\* usbDriverDescriptor: whatever is asked for, a table of less than 256 bytes.
LEMMA DescriptorIsTable ==
  ASSUME NEW type, NEW index
  PROVE  DescriptorOf(type, index) \in Seq(Byte) /\ Len(DescriptorOf(type, index)) <= 255
<1>1. \A s \in Seq(Byte) : WholeTable(s) \in Seq(Byte) /\ Len(WholeTable(s)) = Len(s)
  <2>1. SUFFICES ASSUME NEW s \in Seq(Byte)
                 PROVE  WholeTable(s) \in Seq(Byte) /\ Len(WholeTable(s)) = Len(s)
    OBVIOUS
  <2>2. Len(s) \in 0 .. Len(s)
    BY LenProperties
  <2> QED
    BY <2>2, PartIsTable DEF WholeTable
<1>2. PROPS_HID_REPORT = 22
  BY DEF PROPS_HID_REPORT, Identity
<1>3. /\ FromTable(PROPS_HID_REPORT, usbHidReportDescriptor) \in Seq(Byte)
      /\ Len(FromTable(PROPS_HID_REPORT, usbHidReportDescriptor)) = 22
  BY <1>2, ReportTable, PartIsTable
<1>4. <<>> \in Seq(Byte) /\ Len(<<>>) = 0
  OBVIOUS
<1>5. usbDescriptorString0 \in Seq(Byte) /\ Len(usbDescriptorString0) = 4
  BY DEF usbDescriptorString0, Byte
<1>6. usbDescriptorStringSerialNumber \in Seq(Byte) /\ Len(usbDescriptorStringSerialNumber) = 0
  BY DEF usbDescriptorStringSerialNumber
<1> DEFINE fits(s) == s \in Seq(Byte) /\ Len(s) <= 255
<1>7. /\ fits(WholeTable(usbDescriptorDevice))
      /\ fits(WholeTable(usbDescriptorConfiguration))
      /\ fits(WholeTable(usbDescriptorString0))
      /\ fits(WholeTable(usbDescriptorStringVendor))
      /\ fits(WholeTable(usbDescriptorStringDevice))
      /\ fits(WholeTable(usbDescriptorStringSerialNumber))
  <2>1. ASSUME NEW n \in 0 .. 255, NEW t \in Table(n) PROVE fits(WholeTable(t))
    BY <1>1 DEF Table
  <2>2. /\ usbDescriptorString0 \in Table(4)
        /\ usbDescriptorStringSerialNumber \in Table(0)
    BY <1>5, <1>6 DEF Table
  <2>3. 0 \in 0 .. 255 /\ 4 \in 0 .. 255 /\ 18 \in 0 .. 255 /\ 34 \in 0 .. 255
    OBVIOUS
  <2> HIDE DEF fits
  <2> QED
    BY <2>1, <2>2, <2>3, ConfigurationTable, StringTables, DeviceTable
<1>8. /\ fits(DescriptorOf(DescriptorTypes.HID, 0))
      /\ fits(FromTable(PROPS_HID_REPORT, usbHidReportDescriptor))
      /\ fits(<<>>)
  <2>1. fits(DescriptorOf(DescriptorTypes.HID, 0))
    <3> DEFINE hid == DescriptorOf(DescriptorTypes.HID, 0)
    <3>1. hid \in Seq(Byte) /\ Len(hid) = 9
      BY HidTable, Zenon
    <3> HIDE DEF hid
    <3>2. Len(hid) <= 255
      BY <3>1
    <3> QED
      BY <3>1, <3>2 DEF hid
  <2>2. fits(FromTable(PROPS_HID_REPORT, usbHidReportDescriptor))
    BY <1>3
  <2>3. fits(<<>>)
    BY <1>4
  <2> QED
    BY <2>1, <2>2, <2>3
<1> HIDE DEF fits
<1>9. fits(DescriptorOf(type, index))
  <2>1. CASE type = DescriptorTypes.HID
    BY <1>8, <2>1, HidTable
  <2>2. CASE type # DescriptorTypes.HID
    BY <1>7, <1>8, <2>2 DEF DescriptorOf, DescriptorTypes
  <2> QED
    BY <2>1, <2>2
<1> QED
  BY <1>9 DEF fits

\* A reply has bytes, and not more than were asked for.
LEMMA ReplyFits ==
  ASSUME NEW rq, Sane(rq), usbConfiguration \in Byte
  PROVE  Reply(rq) \in Seq(Byte) /\ Len(Reply(rq)) <= rq.wLength
<1>1. /\ usbDriverSetup(rq) \in Seq(Byte) /\ Len(usbDriverSetup(rq)) <= 255
  <2>1. DescriptorOf(rq.descr, rq.value) \in Seq(Byte)
        /\ Len(DescriptorOf(rq.descr, rq.value)) <= 255
    BY DescriptorIsTable
  <2>2. /\ <<Options.IS_SELF_POWERED, 0>> \in Seq(Byte)
        /\ Len(<<Options.IS_SELF_POWERED, 0>>) = 2
        /\ <<0>> \in Seq(Byte) /\ Len(<<0>>) = 1
        /\ <<>> \in Seq(Byte) /\ Len(<<>>) = 0
    BY DEF Options, Byte
  <2>3. <<usbConfiguration>> \in Seq(Byte) /\ Len(<<usbConfiguration>>) = 1
    OBVIOUS
  <2> QED
    BY <2>1, <2>2, <2>3 DEF usbDriverSetup
<1>2. usbFunctionSetup(rq) \in Seq(Byte) /\ Len(usbFunctionSetup(rq)) <= 255
  BY DEF usbFunctionSetup
<1>3. PICK s \in Seq(Byte) : Len(s) <= 255 /\ Reply(rq) = Limited(s, rq.wLength)
  BY <1>1, <1>2 DEF Reply
<1>4. rq.wLength \in Nat
  BY DEF Sane
<1>5. /\ Limited(s, rq.wLength) \in Seq(Byte)
      /\ Len(Limited(s, rq.wLength)) = IF Len(s) <= rq.wLength THEN Len(s) ELSE rq.wLength
  BY <1>3, <1>4, LimitedIsTable
<1> QED
  BY <1>3, <1>4, <1>5, LenProperties

-----------------------------------------------------------------------------
(* Lemmas about what the host asks. *)

\* The requests of the enumeration and of the routine are sane, and where the
\* address and the configuration are set is known.
LEMMA NowSane ==
  ASSUME Types, RepliesSuffice, NEW rq \in Now
  PROVE  /\ Sane(rq)
         /\ rq.bRequest = "SET_ADDRESS" <=> Told = 1
         /\ rq.bRequest = "SET_CONFIGURATION" => Told = 8 /\ rq.value = known[5][6]
         /\ Told = 3 => rq = GetDescriptor(DescriptorTypes.CONFIG, 0, 9)
         /\ Told = 4 => \E n \in WholeLength :
                                rq = GetDescriptor(DescriptorTypes.CONFIG, 0, n)
         /\ Told = 8 => rq.bRequest = "SET_CONFIGURATION"
         /\ Told = 10 => rq = GetDescriptor(DescriptorTypes.HID, 0, 255)
<1>0. Told \in 0 .. 12
  BY DEF Types
<1>1. \A k \in 1 .. Told :
        /\ known[k] \in Seq(Byte)
        /\ \A j \in 1 .. Len(known[k]) : known[k][j] \in Byte
  <2>1. SUFFICES ASSUME NEW k \in 1 .. Told
                 PROVE  /\ known[k] \in Seq(Byte)
                        /\ \A j \in 1 .. Len(known[k]) : known[k][j] \in Byte
    OBVIOUS
  <2>2. known \in Seq(Seq(Byte)) /\ k \in 1 .. Len(known)
    BY DEF Types, Told
  <2>3. known[k] \in Seq(Byte)
    BY <2>2, ElementOfSeq
  <2> QED
    BY <2>3, ElementOfSeq
<1>2. CASE Told = 0
  <2>1. PICK n \in FirstLens : rq = GetDescriptor(DescriptorTypes.DEVICE, 0, n)
    BY <1>2 DEF Now, Agenda, Told
  <2>2. n \in Nat
    BY <2>1, FirstLengths, Zenon
  <2> QED
    BY <1>2, <2>1, <2>2 DEF Sane, GetDescriptor, Request, StandardRequests
<1>3. CASE Told = 1
  <2>1. PICK a \in Addrs : rq = Standard("SET_ADDRESS", a, 0)
    BY <1>3 DEF Now, Agenda, Told
  <2> QED
    BY <1>3, <2>1 DEF Sane, Standard, Request, StandardRequests
<1>4. CASE Told = 2
  <2>1. rq = GetDescriptor(DescriptorTypes.DEVICE, 0, 18)
    BY <1>4 DEF Now, Agenda, Told
  <2> QED
    BY <1>4, <2>1 DEF Sane, GetDescriptor, Request, StandardRequests
<1>5. CASE Told = 3
  <2>1. rq = GetDescriptor(DescriptorTypes.CONFIG, 0, 9)
    BY <1>5 DEF Now, Agenda, Told
  <2> QED
    BY <1>5, <2>1 DEF Sane, GetDescriptor, Request, StandardRequests
<1>6. CASE Told = 4
  <2>1. PICK n \in ConfLens : rq = GetDescriptor(DescriptorTypes.CONFIG, 0,
                                     IF n = 0 THEN Uint16(known[4], 3) ELSE n)
    BY <1>6 DEF Now, Agenda, Told
  <2>2. PICK m \in WholeLength : rq = GetDescriptor(DescriptorTypes.CONFIG, 0, m)
    <3>1. CASE n = 0
      <4>1. Uint16(known[4], 3) = 34
        BY <1>6 DEF RepliesSuffice
      <4>2. rq = GetDescriptor(DescriptorTypes.CONFIG, 0, 34)
        BY <2>1, <3>1, <4>1
      <4>3. 34 \in WholeLength
        BY DEF WholeLength
      <4> QED
        BY <4>2, <4>3, Zenon
    <3>2. CASE n # 0
      BY <2>1, <3>2, ConfigurationLengths
    <3> QED
      BY <3>1, <3>2
  <2>3. m \in Nat
    BY DEF WholeLength
  <2>4. Sane(rq) /\ rq.bRequest = "GET_DESCRIPTOR"
    BY <2>2, <2>3 DEF Sane, GetDescriptor, Request, StandardRequests
  <2>5. \E k \in WholeLength : rq = GetDescriptor(DescriptorTypes.CONFIG, 0, k)
    BY <2>2, Zenon
  <2>6. /\ rq.bRequest # "SET_ADDRESS" /\ rq.bRequest # "SET_CONFIGURATION"
        /\ Told # 1 /\ Told # 3 /\ Told # 8 /\ Told # 10
    BY <1>6, <2>4
  <2> QED
    BY <2>4, <2>5, <2>6, Zenon
<1>7. CASE Told = 5
  <2>1. rq = GetDescriptor(DescriptorTypes.STRING, 0, 255)
    BY <1>7 DEF Now, Agenda, Told
  <2> QED
    BY <1>7, <2>1 DEF Sane, GetDescriptor, Request, StandardRequests
<1>8. CASE Told = 6
  <2>1. rq = GetDescriptor(DescriptorTypes.STRING, known[3][15], 255)
    BY <1>8 DEF Now, Agenda, Told
  <2> QED
    BY <1>8, <2>1 DEF Sane, GetDescriptor, Request, StandardRequests
<1>9. CASE Told = 7
  <2>1. rq = GetDescriptor(DescriptorTypes.STRING, known[3][16], 255)
    BY <1>9 DEF Now, Agenda, Told
  <2> QED
    BY <1>9, <2>1 DEF Sane, GetDescriptor, Request, StandardRequests
<1>10. CASE Told = 8
  <2>1. rq = Standard("SET_CONFIGURATION", known[5][6], 0)
    BY <1>10 DEF Now, Agenda, Told
  <2>2. known[5][6] \in Byte
    <3>1. 5 \in 1 .. Told /\ 6 \in 1 .. Len(known[5])
      <4>1. 5 \in 1 .. Told
        BY <1>10
      <4>2. Len(known[5]) \in Nat
        BY <1>1, <4>1, LenProperties
      <4> QED
        BY <1>10, <4>1, <4>2 DEF RepliesSuffice
    <3> QED
      BY <1>1, <3>1
  <2> QED
    BY <1>10, <2>1, <2>2 DEF Sane, Standard, Request, StandardRequests
<1>11. CASE Told = 9
  <2>1. rq = Request("CLASS", "SET_IDLE", 0, 0, 0)
    BY <1>11 DEF Now, Agenda, Told
  <2> QED
    BY <1>11, <2>1 DEF Sane, Request
<1>12. CASE Told = 10
  <2>1. rq = GetDescriptor(DescriptorTypes.HID, 0, 255)
    BY <1>12 DEF Now, Agenda, Told
  <2> QED
    BY <1>12, <2>1 DEF Sane, GetDescriptor, Request, StandardRequests
<1>13. CASE Told = 11
  <2>1. rq = GetDescriptor(DescriptorTypes.HID_REPORT, 0, Uint16(known[11], 8))
    BY <1>13 DEF Now, Agenda, Told
  <2>2. Uint16(known[11], 8) \in Nat
    <3>1. 11 \in 1 .. Told /\ 8 \in 1 .. Len(known[11]) /\ 9 \in 1 .. Len(known[11])
      <4>1. 11 \in 1 .. Told
        BY <1>13
      <4>2. Len(known[11]) \in Nat
        BY <1>1, <4>1, LenProperties
      <4> QED
        BY <1>13, <4>1, <4>2 DEF RepliesSuffice
    <3>2. known[11][8] \in Byte /\ known[11][9] \in Byte
      BY <1>1, <3>1
    <3>3. \A a, b \in Byte : a + 256 * b \in Nat
      BY DEF Byte
    <3>4. known[11][8] + 256 * known[11][9] \in Nat
      BY <3>2, <3>3, Zenon
    <3> QED
      BY <3>4 DEF Uint16
  <2> QED
    BY <1>13, <2>1, <2>2 DEF Sane, GetDescriptor, Request, StandardRequests
<1>14. CASE Told = 12
  <2>1. rq \in Routine
    BY <1>14 DEF Now, Agenda, Told
  <2> QED
    BY <1>14, <2>1 DEF Routine, Sane, Standard, Request, StandardRequests
<1>15. \/ Told = 0 \/ Told = 1 \/ Told = 2 \/ Told = 3 \/ Told = 4 \/ Told = 5 \/ Told = 6
       \/ Told = 7 \/ Told = 8 \/ Told = 9 \/ Told = 10 \/ Told = 11 \/ Told = 12
  BY <1>0
<1> QED
  BY <1>2, <1>3, <1>4, <1>5, <1>6, <1>7, <1>8, <1>9, <1>10, <1>11, <1>12, <1>13, <1>14,
     <1>15, Zenon

\* A reply depends on the state only if it is the configuration.
LEMMA ReplyStays ==
  ASSUME NEW rq,
         usbConfiguration' = usbConfiguration \/ rq.bRequest = "SET_CONFIGURATION"
  PROVE  Reply(rq)' = Reply(rq)
BY DEF Reply, usbDriverSetup, usbFunctionSetup

\* What the host asks depends on what it was told.
LEMMA NothingTold == known' = known => Told' = Told /\ Now' = Now
BY DEF Told, Now, Agenda

\* A host that starts from nothing.
LEMMA TellsAgain ==
  /\ known = <<>> => Told = 0
  /\ known' = <<>> => Told' = 0
<1>1. Len(<<>>) = 0
  OBVIOUS
<1> QED
  BY <1>1 DEF Told

-----------------------------------------------------------------------------
(* The invariant is inductive. *)

\* The state before the device is plugged in.
LEMMA InitInv == Init => IInv
<1>1. SUFFICES ASSUME Init PROVE IInv
  OBVIOUS
<1>2. <<>> \in Seq(Seq(Byte)) /\ Told = 0
  BY <1>1, TellsAgain DEF Init
<1>3. Types
  <2>1. 0 \in 0 .. CountMod - 1 /\ 0 \in 0 .. MaxTrouble /\ 0 \in Byte /\ 0 \in 0 .. 12
    BY Ranges DEF Byte
  <2> QED
    BY <1>1, <1>2, <2>1 DEF Init, Types
<1>4. RepliesSuffice
  BY <1>1, <1>2 DEF Init, RepliesSuffice
<1>5. RequestStored /\ RequestDone /\ DeviceFollows
  BY <1>1 DEF Init, RequestStored, RequestDone, DeviceFollows
<1> QED
  BY <1>3, <1>4, <1>5 DEF IInv

\* The countdown stays a byte, and can only reach zero from one.
LEMMA CountdownSteps ==
  \A n \in 0 .. CountMod - 1 : /\ Decrement(n) \in 0 .. CountMod - 1
                               /\ Decrement(n) = 0 => n = 1
                               /\ (InitialCount - 1) % CountMod = CountMod - 1
<1>1. CountMod \in Nat /\ CountMod >= 2
  BY Ranges
<1>2. \A n \in 1 .. CountMod - 1 : (n - 1) % CountMod = n - 1
  BY <1>1
<1>3. (0 - 1) % CountMod = CountMod - 1
  BY <1>1
<1> QED
  BY <1>1, <1>2, <1>3 DEF Decrement, InitialCount

\* A device connects only after the host has noticed that it was gone.
LEMMA ConnectsUnnoticed == IInv /\ Connect => hst = "detached"
<1>1. SUFFICES ASSUME IInv, Connect PROVE hst = "detached"
  OBVIOUS
<1>2. i = 1
  BY <1>1, CountdownSteps DEF IInv, Types, Connect
<1>3. Elapsed = CountMod - 1
  BY <1>1, <1>2, CountdownSteps DEF IInv, Types, Elapsed
<1>4. ~(Elapsed < Noticed)
  BY <1>3, Ranges
<1> QED
  BY <1>1, <1>4 DEF Connect, TimeAllows

\* A device that starts up, waits or hangs does nothing that the host has asked for.
LEMMA StartPreserves ==
  IInv /\ (UsbInit \/ Disconnect \/ FakeDisconnect \/ Connect \/ Hang) => IInv'
<1>1. SUFFICES ASSUME IInv, UsbInit \/ Disconnect \/ FakeDisconnect \/ Connect \/ Hang
               PROVE  IInv'
  OBVIOUS
<1>2. /\ UNCHANGED <<usbDeviceAddr, usbNewDeviceAddr, usbConfiguration, rx, msg, host>>
      /\ trouble' \in 0 .. MaxTrouble
      /\ dev' \in {"init", "low", "hung"} \/ (dev' = "on" /\ hst = "detached")
  BY <1>1, ConnectsUnnoticed, Ranges
     DEF UsbInit, Disconnect, FakeDisconnect, Connect, Hang, IInv, Types
<1>3. i' \in 0 .. CountMod - 1
  <2>1. i \in 0 .. CountMod - 1 /\ 0 \in 0 .. CountMod - 1
    BY <1>1, Ranges DEF IInv, Types
  <2> QED
    BY <1>1, <2>1, CountdownSteps
       DEF UsbInit, Disconnect, FakeDisconnect, Connect, Hang, InitialCount
<1>4. Types'
  BY <1>1, <1>2, <1>3, NothingTold DEF IInv, Types, Sane, host
<1>5. RepliesSuffice'
  BY <1>1, <1>2, NothingTold DEF IInv, RepliesSuffice, host
<1>6. RequestStored'
  BY <1>1, <1>2, NothingTold DEF IInv, RequestStored, host
<1>7. RequestDone'
  <2>1. \A rq : Reply(rq)' = Reply(rq)
    BY <1>2, ReplyStays
  <2> QED
    BY <1>1, <1>2, <2>1 DEF IInv, RequestDone, host
<1>8. DeviceFollows'
  BY <1>1, <1>2 DEF DeviceFollows, host
<1> QED
  BY <1>4, <1>5, <1>6, <1>7, <1>8 DEF IInv

\* What the stored request makes of the address and the configuration.
LEMMA AssignedValue ==
  ASSUME Types, NEW b, NEW old
  PROVE  /\ rx = {} => Assigned(b, old) = old
         /\ \A rq \in rx : Assigned(b, old) = IF rq.bRequest = b THEN rq.value ELSE old
<1>1. rx = {} => Assigned(b, old) = old
  BY DEF Assigned
<1>2. ASSUME NEW rq \in rx
      PROVE  Assigned(b, old) = IF rq.bRequest = b THEN rq.value ELSE old
  <2>1. (CHOOSE r \in rx : TRUE) = rq
    BY DEF Types
  <2>2. (\E r \in rx : r.bRequest = b) <=> rq.bRequest = b
    BY DEF Types
  <2> QED
    BY <2>1, <2>2 DEF Assigned
<1> QED
  BY <1>1, <1>2

\* usbPoll does what the stored request asks, and only that.
LEMMA PollPreserves == IInv /\ Poll => IInv'
<1>1. SUFFICES ASSUME IInv, Poll PROVE IInv'
  OBVIOUS
<1>2. /\ UNCHANGED <<dev, i, hst, ask, known, hostAddr, trouble>> /\ rx' = {} /\ dev = "on"
      /\ seen' \in {seen, TRUE}
  BY <1>1 DEF Poll
<1>3. /\ usbConfiguration' = Assigned("SET_CONFIGURATION", usbConfiguration)
      /\ hst = "reset" => usbNewDeviceAddr' = 0 /\ usbDeviceAddr' = 0
      /\ hst # "reset" => /\ usbNewDeviceAddr' = Assigned("SET_ADDRESS", usbNewDeviceAddr)
                          /\ usbDeviceAddr' = usbDeviceAddr
  BY <1>1 DEF Poll, AfterReset
<1>4. Types /\ RepliesSuffice /\ RequestStored /\ RequestDone /\ DeviceFollows
  BY <1>1 DEF IInv
<1>5. Told' = Told /\ Now' = Now
  BY <1>2, NothingTold
<1>6. RepliesSuffice' /\ RequestStored'
  BY <1>2, <1>4, <1>5 DEF RepliesSuffice, RequestStored
<1>7. CASE rx = {}
  <2>1. msg' = msg /\ usbConfiguration' = usbConfiguration
    BY <1>1, <1>3, <1>4, <1>7, AssignedValue DEF Poll
  <2>2. hst # "reset" => usbNewDeviceAddr' = usbNewDeviceAddr /\ usbDeviceAddr' = usbDeviceAddr
    BY <1>3, <1>4, <1>7, AssignedValue
  <2>3. Types'
    BY <1>2, <1>3, <1>4, <1>5, <2>1, <2>2 DEF Types, Sane
  <2>4. RequestDone'
    <3>1. \A rq : Reply(rq)' = Reply(rq)
      BY <2>1, ReplyStays
    <3> QED
      BY <1>2, <1>4, <1>7, <2>1, <2>2, <3>1 DEF RequestDone
  <2>5. DeviceFollows'
    BY <1>2, <1>4, <1>5, <2>1, <2>2 DEF DeviceFollows
  <2> QED
    BY <1>6, <2>3, <2>4, <2>5 DEF IInv
<1>8. CASE rx # {}
  <2>1. PICK rq \in rx : TRUE
    BY <1>8
  <2>2. rx = {rq} /\ Sane(rq)
    BY <1>4, <2>1 DEF Types
  <2>3. /\ usbConfiguration' = IF rq.bRequest = "SET_CONFIGURATION" THEN rq.value
                               ELSE usbConfiguration
        /\ hst # "reset" => usbNewDeviceAddr' = IF rq.bRequest = "SET_ADDRESS" THEN rq.value
                                                ELSE usbNewDeviceAddr
    BY <1>3, <1>4, <2>1, AssignedValue
  <2>4. msg' = {Reply(rq)}
    BY <1>1, <1>8, <2>2 DEF Poll
  <2>5. Types'
    <3>1. /\ usbConfiguration' \in Byte
          /\ usbNewDeviceAddr' \in {0} \cup Addrs /\ usbDeviceAddr' \in {0} \cup Addrs
      BY <1>3, <1>4, <2>2, <2>3 DEF Types, Sane
    <3> QED
      BY <1>2, <1>4, <1>5, <3>1 DEF Types, Sane
  <2>6. RequestDone'
    <3>1. SUFFICES ASSUME hst = "waits", NEW r \in ask
                   PROVE  /\ msg' = {Reply(r)'}
                          /\ r.bRequest = "SET_ADDRESS" => usbNewDeviceAddr' = r.value
                          /\ r.bRequest = "SET_CONFIGURATION" => usbConfiguration' = r.value
      BY <1>2 DEF RequestDone
    <3>2. r = rq
      BY <1>4, <1>8, <2>2, <3>1 DEF RequestStored
    <3>3. Reply(rq)' = Reply(rq)
      BY <2>3, ReplyStays
    <3> QED
      BY <2>3, <2>4, <3>1, <3>2, <3>3
  <2>7. DeviceFollows'
    <3>1. CASE hst \notin {"asks", "waits"}
      BY <1>2, <3>1 DEF DeviceFollows
    <3>2. CASE hst = "asks"
      <4>1. known = <<>>
        BY <1>4, <1>8, <3>2 DEF RequestStored
      <4>2. Told' = 0
        BY <1>2, <4>1, TellsAgain
      <4> QED
        BY <1>2, <4>2 DEF DeviceFollows
    <3>3. CASE hst = "waits"
      <4>1. rq \in Now
        BY <1>4, <1>8, <2>2, <3>3 DEF RequestStored
      <4>2. /\ Told >= 2 => rq.bRequest # "SET_ADDRESS"
            /\ Told >= 9 => rq.bRequest # "SET_CONFIGURATION"
        <5>1. /\ rq.bRequest = "SET_ADDRESS" => Told = 1
              /\ rq.bRequest = "SET_CONFIGURATION" => Told = 8
          BY <1>4, <4>1, NowSane
        <5>2. Told \in 0 .. 12
          BY <1>4 DEF Types
        <5> QED
          BY <5>1, <5>2
      <4> QED
        BY <1>2, <1>3, <1>4, <1>5, <2>3, <3>3, <4>2 DEF DeviceFollows
    <3> QED
      BY <3>1, <3>2, <3>3
  <2> QED
    BY <1>6, <2>5, <2>6, <2>7 DEF IInv
<1> QED
  BY <1>7, <1>8

\* A restart forgets every request.
LEMMA RestartPreserves == IInv /\ (Restart \/ WatchdogRestarts) => IInv'
<1>1. SUFFICES ASSUME IInv, Restart \/ WatchdogRestarts PROVE IInv'
  OBVIOUS
<1>2. /\ UNCHANGED <<hst, ask, known, hostAddr, seen>>
      /\ dev' = "boot" /\ i' = 0 /\ rx' = {} /\ msg' = {}
      /\ usbDeviceAddr' = 0 /\ usbNewDeviceAddr' = 0 /\ usbConfiguration' = 0
  BY <1>1 DEF Restart, WatchdogRestarts, StartOver, host
<1>3. Types'
  <2>1. trouble' \in 0 .. MaxTrouble
    BY <1>1, Ranges DEF IInv, Types, Restart, WatchdogRestarts
  <2>2. 0 \in 0 .. CountMod - 1 /\ 0 \in Byte
    BY Ranges DEF Byte
  <2> QED
    BY <1>1, <1>2, <2>1, <2>2, NothingTold DEF IInv, Types
<1>4. RepliesSuffice'
  BY <1>1, <1>2, NothingTold DEF IInv, RepliesSuffice
<1>5. RequestStored'
  BY <1>1, <1>2, NothingTold DEF IInv, RequestStored
<1>6. RequestDone' /\ DeviceFollows'
  BY <1>2 DEF RequestDone, DeviceFollows
<1> QED
  BY <1>3, <1>4, <1>5, <1>6 DEF IInv

\* A host that notices a disconnect or resets the bus starts from nothing.
LEMMA ResetPreserves == IInv /\ (Notice \/ Attach \/ HostReset \/ GiveUp) => IInv'
<1>1. SUFFICES ASSUME IInv, Notice \/ Attach \/ HostReset \/ GiveUp PROVE IInv'
  OBVIOUS
<1>2. /\ UNCHANGED device /\ hst' \in {"detached", "reset"}
      /\ ask' = {} /\ known' = <<>> /\ hostAddr' = 0 /\ seen' = FALSE
  BY <1>1 DEF Notice, Attach, HostReset, GiveUp, BeginReset
<1>3. trouble' \in 0 .. MaxTrouble
  BY <1>1, Ranges DEF IInv, Types, Notice, Attach, HostReset, GiveUp
<1>4. known' \in Seq(Seq(Byte)) /\ Told' = 0
  BY <1>2, TellsAgain
<1>5. Types'
  <2>1. Types /\ Told' \in 0 .. 12
    BY <1>1, <1>4 DEF IInv
  <2> QED
    BY <1>2, <1>3, <1>4, <2>1 DEF Types, device
<1>6. RepliesSuffice'
  BY <1>2, <1>4 DEF RepliesSuffice
<1>7. RequestStored' /\ RequestDone' /\ DeviceFollows'
  BY <1>2 DEF RequestStored, RequestDone, DeviceFollows
<1> QED
  BY <1>5, <1>6, <1>7 DEF IInv

\* At the end of a bus reset the host has asked for nothing yet, whether the
\* device saw the reset or not.
LEMMA EndResetPreserves == IInv /\ (EndReset \/ EndResetMissed) => IInv'
<1>1. SUFFICES ASSUME IInv, EndReset \/ EndResetMissed PROVE IInv'
  OBVIOUS
<1>2. UNCHANGED <<device, ask, known, hostAddr, seen>> /\ hst = "reset" /\ hst' = "asks"
  BY <1>1 DEF EndReset, EndResetMissed
<1>3. trouble' \in 0 .. MaxTrouble
  BY <1>1, Ranges DEF IInv, Types, EndReset, EndResetMissed
<1>4. known = <<>> /\ ask = {}
  BY <1>1, <1>2 DEF IInv, RequestStored
<1>5. Told = 0 /\ Told' = 0
  BY <1>2, <1>4, TellsAgain
<1>6. Types'
  BY <1>1, <1>2, <1>3, <1>5 DEF IInv, Types, device
<1>7. RepliesSuffice'
  BY <1>2, <1>5 DEF RepliesSuffice
<1>8. RequestStored' /\ RequestDone'
  BY <1>2, <1>4 DEF RequestStored, RequestDone
<1>9. DeviceFollows'
  BY <1>2, <1>5 DEF DeviceFollows
<1> QED
  BY <1>6, <1>7, <1>8, <1>9 DEF IInv

\* The host asks only what is its turn, and waits for it.
LEMMA AskPreserves == IInv /\ (Enumerate \/ AskRoutine) => IInv'
<1>1. SUFFICES ASSUME IInv, Enumerate \/ AskRoutine PROVE IInv'
  OBVIOUS
<1>2. PICK rq \in Now : HostAsk(rq)
  BY <1>1 DEF Enumerate, AskRoutine, Now, Configured, Told
<1>3. /\ UNCHANGED <<dev, i, usbDeviceAddr, usbNewDeviceAddr, usbConfiguration, msg,
                     known, hostAddr, seen, trouble>>
      /\ hst = "asks" /\ hst' = "waits" /\ rx' = {rq} /\ ask' = {rq}
  BY <1>2 DEF HostAsk
<1>4. Types /\ RepliesSuffice /\ RequestStored /\ RequestDone /\ DeviceFollows
  BY <1>1 DEF IInv
<1>5. Sane(rq)
  BY <1>4, NowSane
<1>6. Types'
  BY <1>3, <1>4, <1>5, NothingTold DEF Types, Sane
<1>7. RepliesSuffice'
  BY <1>3, <1>4, NothingTold DEF RepliesSuffice
<1>8. RequestStored'
  <2>1. rq \in Now'
    BY <1>3, NothingTold
  <2> QED
    BY <1>3, <2>1 DEF RequestStored
<1>9. RequestDone'
  BY <1>3 DEF RequestDone
<1>10. DeviceFollows'
  BY <1>3, <1>4, NothingTold DEF DeviceFollows
<1> QED
  BY <1>6, <1>7, <1>8, <1>9, <1>10 DEF IInv

\* The replies that later requests are computed from.
LEMMA RepliesTold ==
  /\ Len(Reply(GetDescriptor(DescriptorTypes.CONFIG, 0, 9))) >= 4
  /\ Uint16(Reply(GetDescriptor(DescriptorTypes.CONFIG, 0, 9)), 3) = 34
  /\ \A n \in WholeLength :
       Len(Reply(GetDescriptor(DescriptorTypes.CONFIG, 0, n))) >= 6
  /\ Len(Reply(GetDescriptor(DescriptorTypes.HID, 0, 255))) >= 9
<1> DEFINE conf == usbDescriptorConfiguration
           hid  == DescriptorOf(DescriptorTypes.HID, 0)
<1>1. conf \in Seq(Byte) /\ Len(conf) = 34 /\ conf[3] = 34 /\ conf[4] = 0
  BY ConfigurationTable DEF Table, Header
<1>2. /\ WholeTable(conf) \in Seq(Byte) /\ Len(WholeTable(conf)) = 34
      /\ WholeTable(conf)[3] = 34 /\ WholeTable(conf)[4] = 0
  <2> HIDE DEF conf
  <2>1. Len(conf) \in 0 .. Len(conf) /\ 3 \in 1 .. Len(conf) /\ 4 \in 1 .. Len(conf)
    BY <1>1
  <2>2. /\ FromTable(Len(conf), conf) \in Seq(Byte)
        /\ Len(FromTable(Len(conf), conf)) = Len(conf)
        /\ \A k \in 1 .. Len(conf) : FromTable(Len(conf), conf)[k] = conf[k]
    BY <1>1, <2>1, PartIsTable, Zenon
  <2> QED
    BY <1>1, <2>1, <2>2 DEF WholeTable
<1>3. \A n : Reply(GetDescriptor(DescriptorTypes.CONFIG, 0, n)) = Limited(WholeTable(conf), n)
  BY DEF Reply, GetDescriptor, Request, usbDriverSetup, DescriptorOf, DescriptorTypes
<1>4. \A n : Reply(GetDescriptor(DescriptorTypes.HID, 0, n)) = Limited(hid, n)
  BY DEF Reply, GetDescriptor, Request, usbDriverSetup
<1> DEFINE whole == WholeTable(conf)
<1> HIDE DEF conf, hid
<1>5. hid \in Seq(Byte) /\ Len(hid) = 9
  BY HidTable DEF hid
<1>6. Len(Limited(whole, 9)) >= 4 /\ Uint16(Limited(whole, 9), 3) = 34
  <2>1. whole \in Seq(Byte) /\ Len(whole) = 34 /\ whole[3] = 34 /\ whole[4] = 0
    BY <1>2
  <2> HIDE DEF whole
  <2>2. /\ Limited(whole, 9) \in Table(9)
        /\ \A k \in 1 .. 9 : Limited(whole, 9)[k] = whole[k]
    <3>1. whole \in Table(34)
      BY <2>1 DEF Table
    <3>2. 34 \in 0 .. 255 /\ 9 \in Nat /\ 9 < 34
      OBVIOUS
    <3>3. \A k \in 1 .. 9 : k \in 1 .. 34 /\ k <= 9
      OBVIOUS
    <3> QED
      BY <3>1, <3>2, <3>3, LimitedTable, Zenon
  <2>3. Limited(whole, 9)[3] = 34 /\ Limited(whole, 9)[4] = 0
    BY <2>1, <2>2
  <2> QED
    BY <2>2, <2>3 DEF Uint16, Table
<1>7. ASSUME NEW n \in WholeLength PROVE Len(Limited(whole, n)) >= 6
  <2>1. whole \in Table(34) /\ n \in Nat /\ n >= 34
    BY <1>2 DEF Table, WholeLength
  <2> HIDE DEF whole
  <2>2. Limited(whole, n) \in Table(34)
    <3>1. 34 \in 0 .. 255 /\ 34 <= n
      BY <2>1
    <3> QED
      BY <2>1, <3>1, LimitedTable, Zenon
  <2>3. Len(Limited(whole, n)) = 34 /\ 34 >= 6
    BY <2>2 DEF Table
  <2> QED
    BY <2>3, Zenon
<1>8. Len(Limited(hid, 255)) >= 9
  <2>1. hid \in Table(9)
    BY <1>5 DEF Table
  <2>2. Limited(hid, 255) \in Table(9)
    <3>1. 9 \in 0 .. 255 /\ 255 \in Nat /\ 9 <= 255
      OBVIOUS
    <3> QED
      BY <2>1, <3>1, LimitedTable, Zenon
  <2>3. Len(Limited(hid, 255)) = 9 /\ 9 >= 9
    BY <2>2 DEF Table
  <2> QED
    BY <2>3, Zenon
<1> HIDE DEF whole
<1>9. /\ Reply(GetDescriptor(DescriptorTypes.CONFIG, 0, 9)) = Limited(whole, 9)
      /\ \A n : Reply(GetDescriptor(DescriptorTypes.CONFIG, 0, n)) = Limited(whole, n)
      /\ Reply(GetDescriptor(DescriptorTypes.HID, 0, 255)) = Limited(hid, 255)
  BY <1>3, <1>4 DEF whole
<1> QED
  <2>1. /\ Len(Reply(GetDescriptor(DescriptorTypes.CONFIG, 0, 9))) >= 4
        /\ Uint16(Reply(GetDescriptor(DescriptorTypes.CONFIG, 0, 9)), 3) = 34
    BY <1>6, <1>9, Zenon
  <2>2. ASSUME NEW n \in WholeLength
        PROVE  Len(Reply(GetDescriptor(DescriptorTypes.CONFIG, 0, n))) >= 6
    BY <1>7, <1>9, Zenon
  <2>3. Len(Reply(GetDescriptor(DescriptorTypes.HID, 0, 255))) >= 9
    BY <1>8, <1>9, Zenon
  <2> QED
    BY <2>1, <2>2, <2>3, Zenon

\* The end of a request: what it was to set is set, and what it told is kept.
LEMMA FinishPreserves == IInv /\ HostFinish => IInv'
<1>1. SUFFICES ASSUME IInv, HostFinish PROVE IInv'
  OBVIOUS
<1>2. Types /\ RepliesSuffice /\ RequestStored /\ RequestDone /\ DeviceFollows
  BY <1>1 DEF IInv
<1>3. /\ hst = "waits" /\ dev = "on" /\ usbDeviceAddr = hostAddr /\ rx = {}
      /\ usbDeviceAddr' = usbNewDeviceAddr /\ msg' = {} /\ ask' = {} /\ hst' = "asks"
      /\ UNCHANGED <<dev, i, usbNewDeviceAddr, usbConfiguration, rx, seen, trouble>>
  BY <1>1 DEF HostFinish
<1>4. PICK reply \in msg, rq \in ask :
        /\ known' = IF Configured THEN known ELSE Append(known, reply)
        /\ hostAddr' = IF rq.bRequest = "SET_ADDRESS" THEN rq.value ELSE hostAddr
  BY <1>1 DEF HostFinish
<1>5. rq \in Now
  BY <1>2, <1>3 DEF RequestStored
<1>6. /\ reply = Reply(rq)
      /\ rq.bRequest = "SET_ADDRESS" => usbNewDeviceAddr = rq.value
      /\ rq.bRequest = "SET_CONFIGURATION" => usbConfiguration = rq.value
  BY <1>2, <1>3, <1>4 DEF RequestDone
<1>7. /\ Sane(rq)
      /\ rq.bRequest = "SET_ADDRESS" <=> Told = 1
      /\ rq.bRequest = "SET_CONFIGURATION" => Told = 8 /\ rq.value = known[5][6]
      /\ Told = 3 => rq = GetDescriptor(DescriptorTypes.CONFIG, 0, 9)
      /\ Told = 4 => \E n \in WholeLength :
                             rq = GetDescriptor(DescriptorTypes.CONFIG, 0, n)
      /\ Told = 8 => rq.bRequest = "SET_CONFIGURATION"
      /\ Told = 10 => rq = GetDescriptor(DescriptorTypes.HID, 0, 255)
  BY <1>2, <1>5, NowSane
<1>8. known \in Seq(Seq(Byte)) /\ Told \in 0 .. 12
  BY <1>2 DEF Types
<1>9. hostAddr' \in {0} \cup Addrs
  BY <1>2, <1>4, <1>7 DEF Types, Sane
<1>10. known' \in Seq(Seq(Byte)) /\ Told' \in 0 .. 12 => Types'
  BY <1>2, <1>3, <1>9 DEF Types
<1>11. known' # <<>> \/ known' = <<>> => RequestStored' /\ RequestDone'
  BY <1>3 DEF RequestStored, RequestDone
<1>12. CASE Told = 12
  <2>1. known' = known /\ Told' = Told
    BY <1>3, <1>4, <1>12 DEF Configured, Told
  <2>2. RepliesSuffice'
    BY <1>2, <2>1 DEF RepliesSuffice
  <2>3. hostAddr' = hostAddr
    BY <1>4, <1>7, <1>12
  <2>4. DeviceFollows'
    BY <1>2, <1>3, <1>12, <2>1, <2>3 DEF DeviceFollows
  <2> QED
    BY <1>8, <1>10, <1>11, <2>1, <2>2, <2>4 DEF IInv
<1>13. CASE Told # 12
  <2>1. known' = Append(known, reply)
    BY <1>4, <1>13 DEF Configured, Told
  <2>2. reply \in Seq(Byte)
    BY <1>2, <1>6, <1>7, ReplyFits DEF Types
  <2>3. /\ known' \in Seq(Seq(Byte)) /\ Told' = Told + 1
        /\ \A k \in 1 .. Told : known'[k] = known[k]
        /\ known'[Told + 1] = reply
    <3> DEFINE ap == Append(known, reply)
    <3>1. /\ ap \in Seq(Seq(Byte)) /\ Len(ap) = Len(known) + 1
          /\ \A k \in 1 .. Len(known) : ap[k] = known[k]
          /\ ap[Len(known) + 1] = reply
      BY <1>8, <2>2, AppendProperties
    <3>2. known' = ap
      BY <2>1
    <3> HIDE DEF ap
    <3> QED
      BY <3>1, <3>2, Zenon DEF Told
  <2>4. Told' \in 0 .. 12
    BY <1>8, <1>13, <2>3
  <2>5. RepliesSuffice'
    <3>1. ASSUME Told' >= 4
          PROVE  Len(known'[4]) >= 4 /\ Uint16(known'[4], 3) = 34
      <4>1. CASE Told = 3
        <5>1. known'[4] = Reply(rq)
          BY <1>6, <2>3, <4>1
        <5> QED
          BY <1>7, <4>1, <5>1, RepliesTold, Zenon
      <4>2. CASE Told # 3
        <5>1. Told >= 4
          <6>1. Told \in 0 .. 12 /\ Told' = Told + 1 /\ Told' >= 4 /\ Told # 3
            BY <1>8, <2>3, <3>1, <4>2, Zenon
          <6> QED
            BY <6>1
        <5>2. known'[4] = known[4]
          <6>1. 4 \in 1 .. Told
            BY <1>8, <5>1
          <6> QED
            BY <2>3, <6>1, Zenon
        <5> QED
          BY <1>2, <5>1, <5>2 DEF RepliesSuffice
      <4> QED
        BY <4>1, <4>2
    <3>2. ASSUME Told' >= 5 PROVE Len(known'[5]) >= 6
      <4>1. CASE Told = 4
        <5>1. known'[5] = Reply(rq)
          BY <1>6, <2>3, <4>1
        <5> QED
          BY <1>7, <4>1, <5>1, RepliesTold, Zenon
      <4>2. CASE Told # 4
        <5>1. Told >= 5
          <6>1. Told \in 0 .. 12 /\ Told' = Told + 1 /\ Told' >= 5 /\ Told # 4
            BY <1>8, <2>3, <3>2, <4>2, Zenon
          <6> QED
            BY <6>1
        <5>2. known'[5] = known[5]
          <6>1. 5 \in 1 .. Told
            BY <1>8, <5>1
          <6> QED
            BY <2>3, <6>1, Zenon
        <5> QED
          BY <1>2, <5>1, <5>2 DEF RepliesSuffice
      <4> QED
        BY <4>1, <4>2
    <3>3. ASSUME Told' >= 11 PROVE Len(known'[11]) >= 9
      <4>1. CASE Told = 10
        <5>1. known'[11] = Reply(rq)
          BY <1>6, <2>3, <4>1
        <5> QED
          BY <1>7, <4>1, <5>1, RepliesTold, Zenon
      <4>2. CASE Told # 10
        <5>1. Told >= 11
          <6>1. Told \in 0 .. 12 /\ Told' = Told + 1 /\ Told' >= 11 /\ Told # 10
            BY <1>8, <2>3, <3>3, <4>2, Zenon
          <6> QED
            BY <6>1
        <5>2. known'[11] = known[11]
          <6>1. 11 \in 1 .. Told
            BY <1>8, <5>1
          <6> QED
            BY <2>3, <6>1, Zenon
        <5> QED
          BY <1>2, <5>1, <5>2 DEF RepliesSuffice
      <4> QED
        BY <4>1, <4>2
    <3> QED
      BY <3>1, <3>2, <3>3 DEF RepliesSuffice
  <2>6. DeviceFollows'
    <3>1. ASSUME Told' >= 2
          PROVE  usbDeviceAddr' = hostAddr' /\ usbNewDeviceAddr' = hostAddr'
      <4>1. CASE Told = 1
        BY <1>3, <1>4, <1>6, <1>7, <4>1
      <4>2. CASE Told # 1
        <5>1. Told >= 2
          BY <1>8, <2>3, <3>1, <4>2
        <5> QED
          BY <1>2, <1>3, <1>4, <1>7, <4>2, <5>1 DEF DeviceFollows
      <4> QED
        BY <4>1, <4>2
    <3>2. ASSUME Told' >= 9 PROVE usbConfiguration' = known'[5][6]
      <4>1. Told >= 8 /\ known'[5] = known[5]
        <5>1. Told >= 8
          BY <1>8, <2>3, <3>2
        <5>2. 5 \in 1 .. Told
          BY <1>8, <5>1
        <5> QED
          BY <2>3, <5>1, <5>2, Zenon
      <4>2. CASE Told = 8
        BY <1>3, <1>6, <1>7, <4>1, <4>2
      <4>3. CASE Told # 8
        <5>1. Told >= 9
          BY <1>8, <4>1, <4>3
        <5> QED
          BY <1>2, <1>3, <4>1, <5>1 DEF DeviceFollows
      <4> QED
        BY <4>2, <4>3
    <3> QED
      BY <3>1, <3>2 DEF DeviceFollows
  <2> QED
    BY <1>10, <1>11, <2>3, <2>4, <2>5, <2>6 DEF IInv
<1> QED
  BY <1>12, <1>13

\* Every step of the device and its host preserves the invariant.
LEMMA StepPreserves == IInv /\ [Next]_vars => IInv'
<1>1. SUFFICES ASSUME IInv, [Next]_vars PROVE IInv'
  OBVIOUS
<1>2. CASE UNCHANGED vars
  <2>1. UNCHANGED <<device, host, trouble>>
    BY <1>2 DEF vars
  <2>2. \A rq : Reply(rq)' = Reply(rq)
    BY <2>1, ReplyStays DEF device
  <2> QED
    BY <1>1, <2>1, <2>2, NothingTold
       DEF device, host, IInv, Types, Sane, RepliesSuffice, RequestStored, RequestDone,
           DeviceFollows
<1> QED
  BY <1>1, <1>2, StartPreserves, PollPreserves, RestartPreserves, ResetPreserves,
     EndResetPreserves, AskPreserves, FinishPreserves
     DEF Next, Device, HostGoesOn

\* The invariant holds in every state of a session.
THEOREM Invariance == Spec => []IInv
<1>1. Init => IInv
  BY InitInv
<1>2. IInv /\ [Next]_vars => IInv'
  BY StepPreserves
<1> QED
  BY <1>1, <1>2, PTL DEF Spec

-----------------------------------------------------------------------------
(* What follows from it. *)

\* The device's variables keep their types, and no reply of usbDriverSetup and
\* usbPoll is longer than the request's wLength.
THEOREM TypeCorrectness == Spec => []TypeOK
<1>1. IInv => TypeOK
  <2>1. SUFFICES ASSUME IInv PROVE TypeOK
    OBVIOUS
  <2>2. Types /\ RequestStored /\ RequestDone
    BY <2>1 DEF IInv
  <2>3. ASSUME NEW reply \in msg, NEW rq \in ask, rx = {} PROVE Len(reply) <= rq.wLength
    <3>1. hst = "waits"
      BY <2>2, <2>3 DEF RequestStored
    <3>2. reply = Reply(rq)
      BY <2>2, <2>3, <3>1 DEF RequestDone
    <3> QED
      BY <2>2, <3>2, ReplyFits DEF Types
  <2>4. {usbDeviceAddr, usbNewDeviceAddr, hostAddr} \subseteq {0} \cup Addrs
    BY <2>2 DEF Types
  <2>5. \A rq \in rx \cup ask : rq.type = "STANDARD" => rq.bRequest \in StandardRequests
    BY <2>2 DEF Types, Sane
  <2>6. Len(known) <= 12
    <3>1. Told <= 12
      BY <2>2 DEF Types
    <3> QED
      BY <3>1, Zenon DEF Told
  <2> QED
    BY <2>2, <2>3, <2>4, <2>5, <2>6 DEF TypeOK, Types, Byte
<1> QED
  BY <1>1, Invariance, PTL

\* A running device that the host takes for configured is: it has the address
\* and the configuration that usbDriverSetup was given, and says so.  Restarts
\* and bus resets, seen or missed, may happen at any moment; it is the length of
\* the faked disconnect in USBPort::begin that a host must notice.
THEOREM ConfiguredAgrees == Spec => []SessionAgrees
<1>1. IInv => SessionAgrees
  <2>1. SUFFICES ASSUME IInv, Configured, dev = "on"
                 PROVE  /\ usbDeviceAddr = hostAddr /\ usbNewDeviceAddr = hostAddr
                        /\ usbConfiguration = Chosen
                        /\ \A rq \in ask, reply \in msg :
                             rq.bRequest = "GET_CONFIGURATION" /\ rx = {} =>
                               reply = <<Chosen>>
    BY DEF SessionAgrees
  <2>2. Types /\ RepliesSuffice /\ RequestStored /\ RequestDone /\ DeviceFollows
    BY <2>1 DEF IInv
  <2>3. /\ usbDeviceAddr = hostAddr /\ usbNewDeviceAddr = hostAddr
        /\ usbConfiguration = Chosen
    <3>1. Told = 12 /\ hst \in {"asks", "waits"}
      BY <2>1 DEF Configured, Told
    <3> QED
      BY <2>1, <2>2, <3>1 DEF DeviceFollows, Chosen
  <2>4. ASSUME NEW rq \in ask, NEW reply \in msg, rq.bRequest = "GET_CONFIGURATION", rx = {}
        PROVE  reply = <<Chosen>>
    <3>1. hst = "waits" /\ rq \in Now
      BY <2>2, <2>4 DEF RequestStored
    <3>2. rq \in Routine
      BY <2>1, <3>1 DEF Now, Agenda, Configured, Told
    <3>3. rq = Standard("GET_CONFIGURATION", 0, 1)
      BY <2>4, <3>2 DEF Routine, Standard, Request
    <3>4. Reply(rq) = Limited(<<usbConfiguration>>, 1)
      BY <3>3 DEF Reply, Standard, Request, usbDriverSetup
    <3>5. Limited(<<usbConfiguration>>, 1) = <<usbConfiguration>>
      BY DEF Limited
    <3>6. reply = Reply(rq)
      BY <2>2, <2>4, <3>1 DEF RequestDone
    <3> QED
      BY <2>3, <3>4, <3>5, <3>6
  <2> QED
    BY <2>3, <2>4
<1> QED
  BY <1>1, Invariance, PTL

-----------------------------------------------------------------------------
(* How far a session is from its end. *)

\* A reset that the device saw has left nothing over; the host starts at
\* address 0.
ResetClears ==
  /\ hst \in {"detached", "reset"} => hostAddr = 0
  /\ dev = "on" /\ hst = "reset" /\ seen =>
       rx = {} /\ usbDeviceAddr = 0 /\ usbNewDeviceAddr = 0

\* Only usbPoll says that it saw the reset, and it clears both addresses.
LEMMA ResetClearsPreserves == IInv /\ ResetClears /\ [Next]_vars => ResetClears'
<1>1. SUFFICES ASSUME IInv, ResetClears, [Next]_vars PROVE ResetClears'
  OBVIOUS
<1>2. CASE Poll
  <2>1. /\ UNCHANGED <<dev, hst, hostAddr>> /\ rx' = {}
        /\ hst = "reset" => usbNewDeviceAddr' = 0 /\ usbDeviceAddr' = 0
    BY <1>2 DEF Poll, AfterReset
  <2> QED
    BY <1>1, <2>1 DEF ResetClears
<1>3. CASE UsbInit \/ Disconnect \/ FakeDisconnect \/ Hang
  <2>1. dev' # "on" /\ UNCHANGED <<hst, hostAddr>>
    BY <1>3 DEF UsbInit, Disconnect, FakeDisconnect, Hang, host
  <2> QED
    BY <1>1, <2>1 DEF ResetClears
<1>4. CASE Connect
  <2>1. UNCHANGED <<hst, hostAddr>> /\ hst = "detached"
    BY <1>1, <1>4, ConnectsUnnoticed DEF Connect, host
  <2> QED
    BY <1>1, <2>1 DEF ResetClears
<1>5. CASE Restart \/ WatchdogRestarts
  BY <1>1, <1>5 DEF Restart, WatchdogRestarts, StartOver, host, ResetClears
<1>6. CASE Notice \/ Attach \/ HostReset \/ GiveUp
  BY <1>6 DEF Notice, Attach, HostReset, GiveUp, BeginReset, ResetClears
<1>7. CASE EndReset \/ EndResetMissed
  BY <1>7 DEF EndReset, EndResetMissed, ResetClears
<1>8. CASE Enumerate \/ AskRoutine
  BY <1>8 DEF Enumerate, AskRoutine, HostAsk, ResetClears
<1>9. CASE HostFinish
  BY <1>9 DEF HostFinish, ResetClears
<1>10. CASE UNCHANGED vars
  BY <1>1, <1>10 DEF vars, device, host, ResetClears
<1> QED
  BY <1>1, <1>2, <1>3, <1>4, <1>5, <1>6, <1>7, <1>8, <1>9, <1>10
     DEF Next, Device, HostGoesOn

\* The distance in each state of the device and the host.
Far == 2 * CountMod + 200
Replies == 3 * (12 - Told)

\* The cases of the distance, one by one.
LEMMA DistanceIs ==
  /\ dev = "hung" => Distance = 4 * Far + Count(hst # "detached")
  /\ dev = "boot" => Distance = 3 * Far + HostToGo
  /\ dev = "init" => Distance = 2 * Far + HostToGo
  /\ dev = "low" => Distance = 200 + 2 * Decrement(i) + Count(hst # "detached")
  /\ dev = "on" /\ hst = "detached" => Distance = 56 + Count(rx # {})
  /\ dev = "on" /\ hst = "reset" => Distance = 52 + Count(~seen) + Count(rx # {})
  /\ dev = "on" /\ hst \in {"asks", "waits"} =>
       Distance = IF InStep THEN ToGo ELSE 100 + ToGo
<1>1. "boot" # "init" /\ "boot" # "low" /\ "boot" # "on" /\ "init" # "low" /\ "init" # "on"
      /\ "low" # "on" /\ "hung" # "boot" /\ "hung" # "init" /\ "hung" # "low" /\ "hung" # "on"
      /\ "detached" # "reset" /\ "detached" # "asks" /\ "detached" # "waits"
      /\ "reset" # "asks" /\ "reset" # "waits"
  OBVIOUS
<1> QED
  BY <1>1 DEF Distance, Far

\* What is counted of a state.
LEMMA Counts ==
  /\ hst = "detached" => Count(hst # "detached") = 0
  /\ hst # "detached" => Count(hst # "detached") = 1
  /\ hst = "asks" => Count(hst = "asks") = 1
  /\ hst # "asks" => Count(hst = "asks") = 0
  /\ rx = {} => Count(rx # {}) = 0
  /\ rx # {} => Count(rx # {}) = 1
  /\ seen => Count(~seen) = 0
  /\ ~seen => Count(~seen) = 1
BY DEF Count

\* What is to go of the enumeration, in each state of a request.
LEMMA ToGoIs ==
  Types => /\ Replies \in 0 .. 36
           /\ hst = "asks" /\ rx = {} => ToGo = Replies + 2
           /\ hst = "asks" /\ rx # {} => ToGo = Replies + 3
           /\ hst = "waits" /\ rx = {} => ToGo = Replies
           /\ hst = "waits" /\ rx # {} => ToGo = Replies + 1
<1>1. SUFFICES ASSUME Types
               PROVE  /\ Replies \in 0 .. 36
                      /\ hst = "asks" /\ rx = {} => ToGo = Replies + 2
                      /\ hst = "asks" /\ rx # {} => ToGo = Replies + 3
                      /\ hst = "waits" /\ rx = {} => ToGo = Replies
                      /\ hst = "waits" /\ rx # {} => ToGo = Replies + 1
  OBVIOUS
<1>2. Told \in 0 .. 12
  BY <1>1 DEF Types
<1>3. Replies \in 0 .. 36
  BY <1>2 DEF Replies
<1>4. ToGo = Replies + 2 * Count(hst = "asks") + Count(rx # {})
  BY Zenon DEF ToGo, Replies, Told
<1> QED
  BY <1>3, <1>4, Counts

\* The same after a step.
LEMMA ToGoNext ==
  Types' => /\ hst' = "asks" /\ rx' = {} => ToGo' = Replies' + 2
            /\ hst' = "waits" /\ rx' = {} => ToGo' = Replies'
            /\ hst' = "waits" /\ rx' # {} => ToGo' = Replies' + 1
<1>1. (Types => /\ Replies \in 0 .. 36
                /\ hst = "asks" /\ rx = {} => ToGo = Replies + 2
                /\ hst = "asks" /\ rx # {} => ToGo = Replies + 3
                /\ hst = "waits" /\ rx = {} => ToGo = Replies
                /\ hst = "waits" /\ rx # {} => ToGo = Replies + 1)'
  BY ToGoIs, PTL
<1> QED
  BY <1>1

\* On the bus the distance is a number, and a session in step is nearer.
LEMMA DistanceOnBus ==
  Types /\ dev = "on" /\ hst \in {"asks", "waits"} =>
    /\ ToGo \in 0 .. 39
    /\ InStep => Distance = ToGo
    /\ ~InStep => Distance = 100 + ToGo
<1>1. SUFFICES ASSUME Types, dev = "on", hst \in {"asks", "waits"}
               PROVE  /\ ToGo \in 0 .. 39
                      /\ InStep => Distance = ToGo
                      /\ ~InStep => Distance = 100 + ToGo
  OBVIOUS
<1>2. ToGo \in 0 .. 39
  BY <1>1, ToGoIs
<1>3. Distance = IF InStep THEN ToGo ELSE 100 + ToGo
  BY <1>1, DistanceIs, Zenon
<1> QED
  BY <1>2, <1>3

\* The step reaches a distance between zero and this one's.
Closer == Distance' \in 0 .. Distance - 1

\* On the bus, a step that goes on in the enumeration and keeps in step.
LEMMA AheadIsCloser ==
  ASSUME Types, Types', dev = "on", dev' = "on",
         hst \in {"asks", "waits"}, hst' \in {"asks", "waits"},
         ToGo' < ToGo, InStep => InStep'
  PROVE  Closer
<1>1. /\ ToGo \in 0 .. 39
      /\ InStep => Distance = ToGo
      /\ ~InStep => Distance = 100 + ToGo
  BY DistanceOnBus, Zenon
<1>2. /\ ToGo' \in 0 .. 39
      /\ InStep' => Distance' = ToGo'
      /\ ~InStep' => Distance' = 100 + ToGo'
  <2>1. (Types /\ dev = "on" /\ hst \in {"asks", "waits"} =>
           /\ ToGo \in 0 .. 39
           /\ InStep => Distance = ToGo
           /\ ~InStep => Distance = 100 + ToGo)'
    BY DistanceOnBus, PTL
  <2> QED
    BY <2>1
<1>3. CASE InStep
  <2>1. Distance = ToGo /\ Distance' = ToGo'
    BY <1>1, <1>2, <1>3, Zenon
  <2> QED
    BY <1>1, <1>2, <2>1 DEF Closer
<1>4. CASE ~InStep
  <2>1. Distance = 100 + ToGo /\ (Distance' = ToGo' \/ Distance' = 100 + ToGo')
    BY <1>1, <1>2, <1>4, Zenon
  <2> QED
    BY <1>1, <1>2, <2>1 DEF Closer
<1> QED
  BY <1>3, <1>4

\* The distance after a step is that of the state it reaches.
LEMMA DistanceNext ==
  /\ dev' = "hung" => Distance' = 4 * Far + Count(hst # "detached")'
  /\ dev' = "boot" => Distance' = 3 * Far + HostToGo'
  /\ dev' = "init" => Distance' = 2 * Far + HostToGo'
  /\ dev' = "low" => Distance' = 200 + 2 * Decrement(i)' + Count(hst # "detached")'
  /\ dev' = "on" /\ hst' = "detached" => Distance' = 56 + Count(rx # {})'
  /\ dev' = "on" /\ hst' = "reset" => Distance' = 52 + Count(~seen)' + Count(rx # {})'
<1>1. (/\ dev = "hung" => Distance = 4 * Far + Count(hst # "detached")
       /\ dev = "boot" => Distance = 3 * Far + HostToGo
       /\ dev = "init" => Distance = 2 * Far + HostToGo
       /\ dev = "low" => Distance = 200 + 2 * Decrement(i) + Count(hst # "detached")
       /\ dev = "on" /\ hst = "detached" => Distance = 56 + Count(rx # {})
       /\ dev = "on" /\ hst = "reset" => Distance = 52 + Count(~seen) + Count(rx # {}))'
  <2>1. /\ dev = "hung" => Distance = 4 * Far + Count(hst # "detached")
        /\ dev = "boot" => Distance = 3 * Far + HostToGo
        /\ dev = "init" => Distance = 2 * Far + HostToGo
        /\ dev = "low" => Distance = 200 + 2 * Decrement(i) + Count(hst # "detached")
        /\ dev = "on" /\ hst = "detached" => Distance = 56 + Count(rx # {})
        /\ dev = "on" /\ hst = "reset" => Distance = 52 + Count(~seen) + Count(rx # {})
    BY DistanceIs, Zenon
  <2> QED
    BY <2>1, PTL
<1>2. Far' = Far
  BY DEF Far
<1> QED
  BY <1>1, <1>2

\* A device that the watchdog restarts comes nearer.
LEMMA WatchdogIsCloser == WatchdogRestarts => Closer
<1>1. SUFFICES ASSUME WatchdogRestarts PROVE Closer
  OBVIOUS
<1>2. dev = "hung" /\ dev' = "boot" /\ hst = "detached" /\ hst' = "detached"
  BY <1>1 DEF WatchdogRestarts, StartOver, host
<1>3. HostToGo' = 3 /\ Count(hst # "detached") = 0
  BY <1>2 DEF HostToGo, Count
<1>4. Distance = 4 * Far + Count(hst # "detached") /\ Distance' = 3 * Far + HostToGo'
  BY <1>2, DistanceIs, DistanceNext
<1>5. Far \in Nat /\ Far >= 200
  BY Ranges DEF Far
<1> QED
  BY <1>3, <1>4, <1>5 DEF Closer

\* A device that starts up comes nearer.
LEMMA StartIsCloser ==
  IInv /\ (UsbInit \/ Disconnect \/ FakeDisconnect \/ Connect) => Closer
<1>1. SUFFICES ASSUME IInv, UsbInit \/ Disconnect \/ FakeDisconnect \/ Connect PROVE Closer
  OBVIOUS
<1>2. hst' = hst /\ rx' = rx /\ i \in 0 .. CountMod - 1
  BY <1>1 DEF UsbInit, Disconnect, FakeDisconnect, Connect, host, IInv, Types
<1>3. /\ HostToGo \in 0 .. 3 /\ HostToGo' = HostToGo
      /\ Count(hst # "detached") \in 0 .. 1 /\ Count(rx # {}) \in 0 .. 1
      /\ Count(hst # "detached")' = Count(hst # "detached") /\ Count(rx # {})' = Count(rx # {})
  BY <1>2 DEF HostToGo, Count
<1>4. Far \in Nat /\ Far = 2 * CountMod + 200 /\ CountMod \in Nat /\ CountMod >= 2
  BY Ranges DEF Far
<1>5. CASE UsbInit
  <2>1. Distance = 3 * Far + HostToGo /\ Distance' = 2 * Far + HostToGo
    BY <1>3, <1>5, DistanceIs, DistanceNext DEF UsbInit
  <2> QED
    BY <1>3, <1>4, <2>1 DEF Closer
<1>6. CASE Disconnect
  <2>1. /\ Distance = 2 * Far + HostToGo
        /\ Distance' = 200 + 2 * Decrement(i)' + Count(hst # "detached")
    BY <1>3, <1>6, DistanceIs, DistanceNext DEF Disconnect
  <2>2. Decrement(i)' = Decrement(0)
    BY <1>6 DEF Disconnect, InitialCount, Decrement
  <2>3. Decrement(0) \in 0 .. CountMod - 1
    BY <1>4, CountdownSteps
  <2> QED
    BY <1>3, <1>4, <2>1, <2>2, <2>3 DEF Closer
<1>7. CASE FakeDisconnect
  <2>1. /\ Distance = 200 + 2 * Decrement(i) + Count(hst # "detached")
        /\ Distance' = 200 + 2 * Decrement(i)' + Count(hst # "detached")
    BY <1>3, <1>7, DistanceIs, DistanceNext DEF FakeDisconnect
  <2>2. Decrement(i)' = Decrement(Decrement(i)) /\ Decrement(i) # 0
    BY <1>7 DEF FakeDisconnect, Decrement
  <2>3. Decrement(i) \in 1 .. CountMod - 1
    BY <1>2, <2>2, CountdownSteps
  <2>4. Decrement(Decrement(i)) = Decrement(i) - 1
    <3>1. \A n \in 1 .. CountMod - 1 : (n - 1) % CountMod = n - 1
      BY <1>4
    <3>2. \A n \in 1 .. CountMod - 1 : Decrement(n) = n - 1
      BY <3>1 DEF Decrement
    <3> QED
      BY <2>3, <3>2
  <2> QED
    BY <1>3, <2>1, <2>2, <2>3, <2>4 DEF Closer
<1>8. CASE Connect
  <2>1. hst = "detached" /\ Decrement(i) = 0
    BY <1>1, <1>8, ConnectsUnnoticed DEF Connect
  <2>2. /\ Distance = 200 + 2 * Decrement(i) + Count(hst # "detached")
        /\ Distance' = 56 + Count(rx # {})
    BY <1>2, <1>3, <1>8, <2>1, DistanceIs, DistanceNext DEF Connect
  <2> QED
    BY <1>3, <2>1, <2>2 DEF Closer
<1> QED
  BY <1>1, <1>5, <1>6, <1>7, <1>8

\* The host comes nearer by noticing that the device is gone, and by resetting
\* the bus of one that came back or does not answer.
LEMMA ResetIsCloser == IInv /\ (Notice \/ Attach \/ GiveUp) => Closer
<1>1. SUFFICES ASSUME IInv, Notice \/ Attach \/ GiveUp PROVE Closer
  OBVIOUS
<1>2. UNCHANGED device /\ Types
  BY <1>1 DEF Notice, Attach, GiveUp, IInv
<1>3. UNCHANGED <<dev, i, rx>>
  BY <1>2 DEF device
<1>4. Count(rx # {})' = Count(rx # {}) /\ Count(rx # {}) \in 0 .. 1 /\ Far \in Nat
  BY <1>3, Ranges DEF Count, Far
<1>5. CASE Notice
  <2>1. dev \in {"low", "hung"} /\ hst # "detached" /\ hst' = "detached"
    BY <1>5 DEF Notice, LineLow
  <2>2. Count(hst # "detached") = 1 /\ Count(hst # "detached")' = 0
    BY <2>1 DEF Count
  <2>3. CASE dev = "low"
    <3>1. /\ Distance = 200 + 2 * Decrement(i) + Count(hst # "detached")
          /\ Distance' = 200 + 2 * Decrement(i)' + Count(hst # "detached")'
      BY <1>3, <2>3, DistanceIs, DistanceNext
    <3>2. Decrement(i)' = Decrement(i) /\ Decrement(i) \in 0 .. CountMod - 1
      BY <1>2, <1>3, CountdownSteps DEF Decrement, Types
    <3> QED
      BY <2>2, <3>1, <3>2, Ranges DEF Closer
  <2>4. CASE dev = "hung"
    <3>1. Distance = 4 * Far + 1 /\ Distance' = 4 * Far + 0
      BY <1>3, <2>2, <2>4, DistanceIs, DistanceNext
    <3> QED
      BY <1>4, <3>1 DEF Closer
  <2> QED
    BY <2>1, <2>3, <2>4
<1>6. CASE Attach
  <2>1. dev \notin {"low", "hung"} /\ hst = "detached" /\ hst' = "reset" /\ seen' = FALSE
    BY <1>6 DEF Attach, BeginReset, LineLow
  <2>2. HostToGo = 3 /\ HostToGo' = 2 /\ Count(~seen)' = 1
    BY <2>1 DEF HostToGo, Count
  <2>3. CASE dev = "boot"
    <3>1. Distance = 3 * Far + 3 /\ Distance' = 3 * Far + 2
      BY <1>3, <2>2, <2>3, DistanceIs, DistanceNext
    <3> QED
      BY <1>4, <3>1 DEF Closer
  <2>4. CASE dev = "init"
    <3>1. Distance = 2 * Far + 3 /\ Distance' = 2 * Far + 2
      BY <1>3, <2>2, <2>4, DistanceIs, DistanceNext
    <3> QED
      BY <1>4, <3>1 DEF Closer
  <2>5. CASE dev = "on"
    <3>1. Distance = 56 + Count(rx # {}) /\ Distance' = 52 + 1 + Count(rx # {})
      BY <1>3, <1>4, <2>1, <2>2, <2>5, DistanceIs, DistanceNext
    <3> QED
      BY <1>4, <3>1 DEF Closer
  <2> QED
    BY <1>2, <2>1, <2>3, <2>4, <2>5 DEF Types
<1>7. CASE GiveUp
  <2>1. /\ dev = "on" /\ hst \in {"asks", "waits"} /\ NoAnswer
        /\ hst' = "reset" /\ seen' = FALSE
    BY <1>7 DEF GiveUp, BeginReset
  <2>2. ~InStep
    BY <2>1 DEF NoAnswer, InStep
  <2>3. ToGo \in 0 .. 39 /\ Distance = 100 + ToGo
    BY <1>2, <2>1, <2>2, DistanceOnBus
  <2>4. Distance' = 52 + 1 + Count(rx # {})
    <3>1. Count(~seen)' = 1
      BY <2>1 DEF Count
    <3> QED
      BY <1>3, <1>4, <2>1, <3>1, DistanceNext
  <2> QED
    BY <1>4, <2>3, <2>4 DEF Closer
<1> QED
  BY <1>1, <1>5, <1>6, <1>7

\* The end of a reset that the device saw finds both at address 0.
LEMMA EndResetIsCloser == IInv /\ IInv' /\ ResetClears /\ EndReset => Closer
<1>1. SUFFICES ASSUME IInv, IInv', ResetClears, EndReset PROVE Closer
  OBVIOUS
<1>2. /\ hst = "reset" /\ hst' = "asks" /\ dev \notin {"low", "hung"} /\ (seen \/ dev # "on")
      /\ UNCHANGED <<device, ask, known, hostAddr, seen>>
  BY <1>1 DEF EndReset, LineLow
<1>3. UNCHANGED <<dev, usbDeviceAddr, usbNewDeviceAddr, rx>> /\ Types
  BY <1>1, <1>2 DEF device, IInv
<1>4. HostToGo = 2 /\ HostToGo' = 1 /\ Far \in Nat
  BY <1>2, Ranges DEF HostToGo, Far
<1>5. CASE dev = "boot"
  <2>1. Distance = 3 * Far + 2 /\ Distance' = 3 * Far + 1
    BY <1>3, <1>4, <1>5, DistanceIs, DistanceNext
  <2> QED
    BY <1>4, <2>1 DEF Closer
<1>6. CASE dev = "init"
  <2>1. Distance = 2 * Far + 2 /\ Distance' = 2 * Far + 1
    BY <1>3, <1>4, <1>6, DistanceIs, DistanceNext
  <2> QED
    BY <1>4, <2>1 DEF Closer
<1>7. CASE dev = "on"
  <2>1. rx = {} /\ usbDeviceAddr = 0 /\ usbNewDeviceAddr = 0 /\ hostAddr = 0
    BY <1>1, <1>2, <1>7 DEF ResetClears
  <2>2. InStep'
    BY <1>2, <1>3, <2>1 DEF InStep
  <2>3. Distance' = ToGo' /\ ToGo' \in 0 .. 39
    <3>1. (Types /\ dev = "on" /\ hst \in {"asks", "waits"} =>
             /\ ToGo \in 0 .. 39
             /\ InStep => Distance = ToGo
             /\ ~InStep => Distance = 100 + ToGo)'
      BY DistanceOnBus, PTL
    <3>2. Types' /\ dev' = "on" /\ hst' = "asks"
      BY <1>1, <1>2, <1>3, <1>7 DEF IInv
    <3> QED
      BY <2>2, <3>1, <3>2
  <2>4. Distance = 52 + Count(~seen) + Count(rx # {}) /\ Count(~seen) = 0 /\ Count(rx # {}) = 0
    BY <1>2, <1>7, <2>1, DistanceIs, Counts
  <2>5. Distance = 52
    BY <2>4
  <2> QED
    BY <2>3, <2>5 DEF Closer
<1> QED
  BY <1>2, <1>3, <1>5, <1>6, <1>7 DEF Types

\* A request of the host is a step ahead.
LEMMA AskIsCloser == IInv /\ IInv' /\ (Enumerate \/ AskRoutine) => Closer
<1>1. SUFFICES ASSUME IInv, IInv', Enumerate \/ AskRoutine PROVE Closer
  OBVIOUS
<1>2. PICK rq : HostAsk(rq)
  BY <1>1 DEF Enumerate, AskRoutine
<1>3. /\ hst = "asks" /\ hst' = "waits" /\ dev \in {"init", "on"} /\ rx = {} /\ rx' = {rq}
      /\ usbDeviceAddr = hostAddr
      /\ UNCHANGED <<dev, usbDeviceAddr, usbNewDeviceAddr, known, hostAddr>>
  BY <1>2 DEF HostAsk
<1>4. Types /\ Types'
  BY <1>1 DEF IInv
<1>5. CASE dev = "init"
  <2>1. HostToGo = 1 /\ HostToGo' = 0 /\ Far \in Nat
    BY <1>3, Ranges DEF HostToGo, Far
  <2>2. Distance = 2 * Far + 1 /\ Distance' = 2 * Far + 0
    BY <1>3, <1>5, <2>1, DistanceIs, DistanceNext
  <2> QED
    BY <2>1, <2>2 DEF Closer
<1>6. CASE dev = "on"
  <2>1. InStep => InStep'
    BY <1>3 DEF InStep
  <2>2. ToGo' < ToGo
    <3>1. Replies' = Replies
      BY <1>3, NothingTold DEF Replies
    <3>2. ToGo = Replies + 2 /\ Replies \in 0 .. 36
      BY <1>3, <1>4, ToGoIs
    <3>3. ToGo' = Replies' + 1
      BY <1>3, <1>4, ToGoNext
    <3> QED
      BY <3>1, <3>2, <3>3
  <2> QED
    BY <1>3, <1>4, <1>6, <2>1, <2>2, AheadIsCloser
<1> QED
  BY <1>3, <1>5, <1>6

\* The end of a request is a reply more.
LEMMA FinishIsCloser ==
  IInv /\ IInv' /\ HostFinish /\ ~(Configured /\ dev = "on") => Closer
<1>1. SUFFICES ASSUME IInv, IInv', HostFinish, ~(Configured /\ dev = "on") PROVE Closer
  OBVIOUS
<1>2. /\ hst = "waits" /\ dev = "on" /\ usbDeviceAddr = hostAddr /\ rx = {}
      /\ usbDeviceAddr' = usbNewDeviceAddr /\ hst' = "asks"
      /\ UNCHANGED <<dev, usbNewDeviceAddr, rx>>
  BY <1>1 DEF HostFinish
<1>3. PICK reply \in msg, rq \in ask :
        /\ known' = IF Configured THEN known ELSE Append(known, reply)
        /\ hostAddr' = IF rq.bRequest = "SET_ADDRESS" THEN rq.value ELSE hostAddr
  BY <1>1 DEF HostFinish
<1>4. Types /\ Types'
  BY <1>1 DEF IInv
<1>5. InStep => InStep'
  <2>1. SUFFICES ASSUME InStep PROVE InStep'
    OBVIOUS
  <2>2. usbNewDeviceAddr = hostAddr'
    BY <1>2, <1>3, <2>1 DEF InStep
  <2> QED
    BY <1>2, <2>2 DEF InStep
<1>6. ToGo' < ToGo
  <2>1. Told' = Told + 1
    <3>1. known' = Append(known, reply)
      BY <1>1, <1>2, <1>3
    <3>2. known \in Seq(Seq(Byte))
      BY <1>4 DEF Types
    <3>3. Len(Append(known, reply)) = Len(known) + 1
      BY <3>2
    <3> QED
      BY <3>1, <3>3, Zenon DEF Told
  <2>2. Told \in 0 .. 12
    BY <1>4 DEF Types
  <2>3. Replies' = Replies - 3
    <3>1. Replies' = 3 * (12 - Told')
      BY DEF Replies
    <3> QED
      BY <2>1, <2>2, <3>1 DEF Replies
  <2>4. ToGo = Replies /\ Replies \in 0 .. 36
    BY <1>2, <1>4, ToGoIs
  <2>5. ToGo' = Replies' + 2
    BY <1>2, <1>4, ToGoNext
  <2> QED
    BY <2>3, <2>4, <2>5
<1> QED
  BY <1>2, <1>4, <1>5, <1>6, AheadIsCloser

\* usbPoll with nothing to do changes nothing; else it goes ahead.
LEMMA PollIsCloser ==
  IInv /\ IInv' /\ ResetClears /\ Poll /\ trouble' = trouble => Closer \/ UNCHANGED vars
<1>1. SUFFICES ASSUME IInv, IInv', ResetClears, Poll PROVE Closer \/ UNCHANGED vars
  OBVIOUS
<1>2. /\ UNCHANGED <<dev, i, hst, ask, known, hostAddr, trouble>> /\ rx' = {} /\ dev = "on"
      /\ msg' = IF rx = {} THEN msg ELSE {Reply(rq) : rq \in rx}
      /\ usbConfiguration' = Assigned("SET_CONFIGURATION", usbConfiguration)
      /\ hst = "reset" => usbNewDeviceAddr' = 0 /\ usbDeviceAddr' = 0 /\ seen'
      /\ hst # "reset" => /\ usbNewDeviceAddr' = Assigned("SET_ADDRESS", usbNewDeviceAddr)
                          /\ usbDeviceAddr' = usbDeviceAddr /\ seen' = seen
  BY <1>1 DEF Poll, AfterReset
<1>3. Types /\ Types' /\ RequestStored
  BY <1>1 DEF IInv
<1>4. CASE hst = "reset"
  <2>1. seen' = TRUE
    BY <1>1, <1>4 DEF Poll
  <2>2. /\ Distance = 52 + Count(~seen) + Count(rx # {})
        /\ Distance' = 52 + Count(~seen)' + Count(rx # {})'
        /\ Count(~seen)' = 0 /\ Count(rx # {})' = 0
    BY <1>2, <1>4, <2>1, DistanceIs, DistanceNext DEF Count
  <2>3. CASE seen /\ rx = {}
    <3>1. usbNewDeviceAddr = 0 /\ usbDeviceAddr = 0
      BY <1>1, <1>2, <1>4, <2>3 DEF ResetClears
    <3>2. usbConfiguration' = usbConfiguration /\ seen' = seen
      BY <1>2, <1>3, <2>1, <2>3, AssignedValue DEF Types
    <3> QED
      BY <1>2, <1>4, <2>3, <3>1, <3>2 DEF vars, device, host
  <2>4. CASE ~seen \/ rx # {}
    <3>1. Count(~seen) + Count(rx # {}) \in 1 .. 2
      BY <2>4 DEF Count
    <3>2. Count(~seen) \in {0, 1} /\ Count(rx # {}) \in {0, 1}
      BY DEF Count
    <3> QED
      BY <2>2, <3>1, <3>2 DEF Closer
  <2> QED
    BY <2>3, <2>4
<1>5. CASE hst # "reset" /\ rx = {}
  <2>1. usbConfiguration' = usbConfiguration /\ usbNewDeviceAddr' = usbNewDeviceAddr
    BY <1>2, <1>3, <1>5, AssignedValue
  <2> QED
    BY <1>2, <1>5, <2>1 DEF vars, device, host
<1>6. CASE hst = "detached" /\ rx # {}
  <2>1. /\ Distance = 56 + Count(rx # {}) /\ Distance' = 56 + Count(rx # {})'
        /\ Count(rx # {}) = 1 /\ Count(rx # {})' = 0
    BY <1>2, <1>6, DistanceIs, DistanceNext DEF Count
  <2> QED
    BY <2>1 DEF Closer
<1>7. CASE hst \in {"asks", "waits"} /\ rx # {}
  <2>1. PICK rq \in rx : TRUE
    BY <1>7
  <2>2. usbNewDeviceAddr' = IF rq.bRequest = "SET_ADDRESS" THEN rq.value ELSE usbNewDeviceAddr
    BY <1>2, <1>3, <1>7, <2>1, AssignedValue
  <2>3. msg' # {}
    BY <1>2, <1>7
  <2>4. hst = "waits" => ask = {rq}
    BY <1>3, <1>7, <2>1 DEF RequestStored
  <2>5. InStep => InStep'
    BY <1>2, <1>7, <2>1, <2>2, <2>3, <2>4 DEF InStep
  <2>6. ToGo' < ToGo
    <3>1. Replies' = Replies
      BY <1>2, NothingTold DEF Replies
    <3>2. /\ Replies \in 0 .. 36
          /\ hst = "asks" => ToGo = Replies + 3
          /\ hst = "waits" => ToGo = Replies + 1
      BY <1>3, <1>7, ToGoIs
    <3>3. /\ hst = "asks" => ToGo' = Replies' + 2
          /\ hst = "waits" => ToGo' = Replies'
      BY <1>2, <1>3, ToGoNext
    <3> QED
      BY <1>7, <3>1, <3>2, <3>3
  <2> QED
    BY <1>2, <1>3, <1>7, <2>5, <2>6, AheadIsCloser
<1> QED
  BY <1>3, <1>4, <1>5, <1>6, <1>7 DEF Types

\* Until the device is configured, every step of the device or the host but a new
\* trouble brings the session nearer to it, by a count that cannot fall below
\* zero: no order of their steps goes round in circles.  What is left of the
\* liveness of the session is that such a step is taken.
THEOREM StepsLeadOn == Spec => EveryStepCloser
<1>1. IInv /\ IInv' /\ ResetClears /\ [Next]_vars
        => [trouble' = trouble /\ ~(Configured /\ dev = "on")
              => Distance' \in 0 .. Distance - 1]_vars
  <2>1. SUFFICES ASSUME IInv, IInv', ResetClears, Next, trouble' = trouble,
                        ~(Configured /\ dev = "on")
                 PROVE  Closer \/ UNCHANGED vars
    BY DEF Closer
  <2>2. trouble \in Nat
    BY <2>1, Ranges DEF IInv, Types
  <2>3. ~Restart /\ ~Hang /\ ~HostReset /\ ~EndResetMissed
    BY <2>1, <2>2 DEF Restart, Hang, HostReset, EndResetMissed
  <2> QED
    BY <2>1, <2>3, WatchdogIsCloser, StartIsCloser, ResetIsCloser, EndResetIsCloser,
       AskIsCloser, FinishIsCloser, PollIsCloser
       DEF Next, Device, HostGoesOn
<1>2. Init => ResetClears
  BY DEF Init, ResetClears
<1>3. IInv /\ ResetClears /\ [Next]_vars => ResetClears'
  BY ResetClearsPreserves
<1>4. Spec => []ResetClears
  BY <1>2, <1>3, Invariance, PTL DEF Spec
<1> QED
  BY <1>1, <1>4, Invariance, PTL DEF Spec, EveryStepCloser

=============================================================================
