--------------------------- MODULE UsbDriverProofs ---------------------------
(***************************************************************************)
(* Proofs about the USB driver and its report handlers, for every packet   *)
(* size, length, address and version of the report.                        *)
(***************************************************************************)
EXTENDS UsbDriver, SequenceTheorems, TLAPS

Stages == {"idle", "setup", "retry", "in", "out", "outData", "statusIn", "statusOut",
           "statusData", "reset"}
Byte   == Int \X Int
Packet == [len : 0 .. 8, rq : Requests \cup {NoRequest}, bytes : Seq(Byte)]
Block  == [pid : {"DATA0", "DATA1"}, bytes : Seq(Byte)]

\* TypeOK with the types of what it leaves open.
Types ==
  /\ TypeOK
  /\ usbRxBuf \in [{0, 1} -> Packet] /\ usbTxBuf \in Block
  /\ eeprom \in [Place -> Byte] /\ may \in [Place -> SUBSET Versions]
  /\ hst \in Stages /\ req \in Requests \cup {NoRequest}
  /\ got \in Seq(Byte) /\ sent \in Nat
  /\ expect \in {"DATA0", "DATA1"} /\ hostAddr \in {0} \cup Addrs

\* TypeOK in three parts: the received packet with the addresses and where
\* usbPoll is, the block to send, and the reply it is taken from.
ReceiverTypes ==
  /\ usbRxLen \in {0} \cup 4 .. 11
  /\ usbRxToken \in {"none", "SETUP", "OUT"} /\ usbCurrentTok \in {"none", "SETUP", "OUT"}
  /\ usbInputBufOffset \in {0, 1} /\ DOMAIN usbRxBuf = {0, 1}
  /\ usbDeviceAddr \in {0} \cup Addrs /\ usbNewDeviceAddr \in {0} \cup Addrs
  /\ pc \in {"poll", "process", "setup", "release", "tx", "build", "commit", "line", "reset"}
  /\ line \in {"idle", "se0", "polled", "seen"}
SenderTypes ==
  /\ usbTxLen \in {USBPID_NAK} \cup 4 .. PacketSize + 4
  /\ usbTxBuf.pid \in {"DATA0", "DATA1"} /\ Len(usbTxBuf.bytes) <= PacketSize
ReplyTypes ==
  /\ usbMsgLen \in 0 .. NoMsg /\ usbMsgFlags \in {"RAM", "ROM", "USE_USER_RW"}
  /\ usbMsgPtr \in 0 .. DescrLen
  /\ currentAddress \in 0 .. ReportLen /\ bytesRemaining \in 0 .. ReportLen
  /\ currentAddress + bytesRemaining \in {0, ReportLen}

\* The three parts are the whole.
LEMMA TypesInParts == TypeOK <=> ReceiverTypes /\ SenderTypes /\ ReplyTypes
BY DEF TypeOK, ReceiverTypes, SenderTypes, ReplyTypes

-----------------------------------------------------------------------------
(* The parts of the inductive invariant. *)

\* A packet that usbPoll has not processed yet.
Holds(token) == usbRxLen # 0 /\ usbRxToken = token /\ pc # "release"

\* What the parts of usbPoll leave for each other while the interrupt routine
\* runs in between.
PollConsistent ==
  /\ pc \in {"process", "setup", "release"} => usbRxLen # 0
  /\ usbRxLen # 0 => usbRxToken # "none"
  /\ pc = "setup" => /\ usbRxToken = "SETUP"
                     /\ usbTxLen = USBPID_NAK /\ usbTxBuf.pid = "DATA0"
  /\ pc \in {"build", "commit"} => usbTxLen = USBPID_NAK
  /\ pc = "build" => usbMsgLen # NoMsg
  /\ usbMsgFlags # "USE_USER_RW" /\ usbMsgLen # NoMsg => usbMsgPtr + usbMsgLen <= DescrLen
  /\ Holds("SETUP") => data.len = 8 /\ data.rq \in Requests

\* The token last heard is the one of the host's stage, or is forgotten.
TokenHeard ==
  /\ hst = "setup" => usbCurrentTok # "OUT"
  /\ hst \in {"outData", "statusData"} => usbCurrentTok # "SETUP"

\* A write's packet goes where its bytes belong, also after the host gave up.
WriteInPlace ==
  Holds("OUT") =>
    /\ usbMsgFlags = "USE_USER_RW" /\ usbMsgLen = NoMsg /\ bytesRemaining > 0
    /\ data.len = Len(data.bytes)
    /\ currentAddress + data.len <= ReportLen
    /\ \A i \in 1 .. data.len :
         data.bytes[i] \in {currentAddress + i - 1} \X may[currentAddress + i - 1]

\* A SET_ADDRESS is prepared only while its own host waits for it, and a bus
\* reset takes back first the prepared address and then the device's.
AddressPrepared ==
  /\ AddressAgrees
  /\ hst = "reset" <=> line # "idle"
  /\ hst = "reset" => hostAddr = 0
  /\ pc = "reset" => usbNewDeviceAddr = 0 /\ hostAddr = 0
  /\ hst # "reset" =>
       IF hst = "statusIn" /\ req.bRequest = "SET_ADDRESS" /\ ~Holds("SETUP")
       THEN usbNewDeviceAddr = req.value
       ELSE /\ usbNewDeviceAddr = usbDeviceAddr
            /\ Holds("SETUP") /\ data.rq.bRequest = "SET_ADDRESS" =>
                 hst = "statusIn" /\ req = data.rq
  /\ line = "polled" => pc # "poll" /\ (pc \in {"tx", "build", "commit", "line", "reset"}
                                          => usbRxLen = 0)
  /\ line = "seen" => usbRxLen = 0 /\ usbNewDeviceAddr = 0 /\ usbDeviceAddr = 0

\* The request that each stage of the host belongs to.
StageOfRequest ==
  /\ hst \in {"idle", "reset"} <=> req = NoRequest
  /\ hst \in {"in", "statusOut", "statusData"} =>
       req.bRequest \in ReadRequests
  /\ hst \in {"out", "outData"} => req.bRequest = "SET_REPORT" /\ sent < req.wLength
  /\ hst = "statusIn" =>
       /\ req.bRequest \notin ReadRequests
       /\ req.bRequest = "SET_REPORT" => sent = req.wLength
  /\ hst # "in" /\ req.bRequest \notin ReadRequests => got = <<>>
  /\ hst \in {"idle", "setup", "retry", "reset"} => got = <<>> /\ sent = 0
  /\ hst \in {"idle", "setup", "retry", "reset", "statusIn", "out", "outData"} =>
       expect = "DATA1"

Reads == req.bRequest # "SET_REPORT"

\* How far the reply has been put into blocks, and how long it will be.
Pos   == IF req.bRequest = "GET_REPORT" THEN currentAddress ELSE usbMsgPtr
Total == IF req.bRequest = "GET_REPORT" THEN Least(ReplyLen(req), ReportLen)
         ELSE ReplyLen(req)
Content(k) == IF req.bRequest = "GET_REPORT" THEN eeprom[k] ELSE ByteAt(k, ReplyFlags(req))

\* A block that is built goes on where the host stopped, under the data token
\* that the host expects.
ReadBlock ==
  IF Ready
  THEN /\ usbTxBuf.pid = expect
       /\ Pos = Len(got) + Len(usbTxBuf.bytes)
       /\ \A i \in 1 .. Len(usbTxBuf.bytes) : usbTxBuf.bytes[i] = Content(Len(got) + i - 1)
       /\ IF Len(usbTxBuf.bytes) < PacketSize THEN Pos = Total
          ELSE usbMsgLen = ReplyLen(req) - Pos
  ELSE /\ usbTxBuf.pid # expect
       /\ Pos = Len(got)
       /\ usbMsgLen = ReplyLen(req) - Pos

ReadServed ==
  hst \in {"in", "statusIn"} /\ Reads =>
    IF Holds("SETUP")
    THEN data.rq = req /\ got = <<>> /\ expect = "DATA1"
    ELSE /\ ~Holds("OUT")
         /\ usbMsgFlags = ReplyFlags(req)
         /\ UsesUserRW(req) => currentAddress + bytesRemaining = ReportLen
         /\ ReadBlock /\ Pos <= Total

Delivered ==
  /\ hst \in {"in", "statusOut", "statusData"} =>
       \A k \in 1 .. Len(got) : got[k] = Content(k - 1)
  /\ hst \in {"statusOut", "statusData"} => Len(got) = Total /\ usbRxLen = 0

\* The answer to a write is built when the last byte of the report is written.
WriteServed ==
  hst \in {"out", "outData", "statusIn"} /\ ~Reads =>
    /\ \A k \in 0 .. sent - 1 : req.value \in may[k]
    /\ IF Holds("SETUP")
       THEN data.rq = req /\ sent = 0
       ELSE /\ usbMsgFlags = "USE_USER_RW"
            /\ currentAddress + bytesRemaining = ReportLen
            /\ \A k \in 0 .. currentAddress - 1 : eeprom[k] = <<k, req.value>>
            /\ IF Holds("OUT")
               THEN /\ currentAddress + data.len = sent
                    /\ \A i \in 1 .. data.len :
                         data.bytes[i] = <<currentAddress + i - 1, req.value>>
               ELSE currentAddress = sent
            /\ IF Ready
               THEN /\ usbTxBuf.pid = "DATA1" /\ usbTxBuf.bytes = <<>>
                    /\ bytesRemaining = 0
               ELSE /\ usbTxBuf.pid = "DATA0"
                    /\ usbMsgLen = (IF bytesRemaining = 0 THEN 0 ELSE NoMsg)

\* A patient host finds the receive buffer free.
PatientHost ==
  Patient =>
    /\ hst \in {"idle", "setup", "statusOut", "statusData", "reset"} => usbRxLen = 0
    /\ hst # "retry"
    /\ hst = "setup" => usbCurrentTok = "SETUP"

IInv ==
  /\ Types /\ PollConsistent /\ TokenHeard /\ WriteInPlace /\ AddressPrepared
  /\ StageOfRequest /\ ReadServed /\ Delivered /\ WriteServed /\ ReportMatches
  /\ PatientHost

-----------------------------------------------------------------------------
(* Lemmas about lengths and packets. *)

\* A handshake token and the length of a block are told apart by one bit.
LEMMA HandshakeOrBlock ==
  ASSUME NEW len \in {USBPID_NAK} \cup 4 .. PacketSize + 4
  PROVE  Handshake(len) <=> len = USBPID_NAK
BY UsbAssumption DEF Handshake, USBPID_NAK

\* The members of the constant sets are numbers.
LEMMA ConstantTypes ==
  /\ \A n \in ReadLens : n \in Nat \ {0}
  /\ \A n \in DescrLens \cup RamLens : n \in Nat \ {0}
  /\ \A n \in WriteLens : n \in 1 .. ReportLen
  /\ \A v \in Versions : v \in Nat
  /\ \A a \in Addrs : a \in Nat
  /\ PacketSize \in Nat /\ ReportLen \in Nat /\ DescrLen \in Nat /\ NoMsg \in Nat
<1>1. \A n \in ReadLens : n \in Nat \ {0}
  BY UsbAssumption
<1>2. \A n \in DescrLens \cup RamLens : n \in Nat \ {0}
  BY UsbAssumption
<1>3. \A n \in WriteLens : n \in 1 .. ReportLen
  BY UsbAssumption
<1>4. \A v \in Versions : v \in Nat
  BY UsbAssumption
<1>5. \A a \in Addrs : a \in Nat
  BY UsbAssumption
<1>6. PacketSize \in Nat /\ ReportLen \in Nat /\ DescrLen \in Nat /\ NoMsg \in Nat
  BY UsbAssumption
<1> QED
  BY <1>1, <1>2, <1>3, <1>4, <1>5, <1>6

\* The requests that read are none of the others.
LEMMA ReadKinds ==
  /\ {"GET_REPORT", "GET_DESCRIPTOR"} \subseteq ReadRequests
  /\ RamReads \subseteq ReadRequests
  /\ \A b \in ReadRequests :
       b \notin {"SET_REPORT", "SET_ADDRESS", "SET_CONFIGURATION", "none"}
  /\ \A b \in RamReads : b \in {"GET_STATUS", "GET_CONFIGURATION", "GET_INTERFACE"}
BY UsbAssumption DEF ReadRequests

\* The length of a reply fits its variable, and is never more than asked for.
LEMMA ReplyLenFits ==
  ASSUME NEW rq \in Requests
  PROVE  /\ ReplyLen(rq) \in 0 .. NoMsg
         /\ rq.bRequest # "SET_REPORT" => ReplyLen(rq) <= rq.wLength
         /\ rq.bRequest = "GET_REPORT" /\ rq.wLength <= NoMsg => ReplyLen(rq) = rq.wLength
         /\ rq.bRequest \notin {"GET_REPORT", "SET_REPORT"} =>
              ReplyLen(rq) <= DescrLen /\ ReplyLen(rq) # NoMsg
         /\ rq.bRequest \in ReadRequests \ {"GET_REPORT"} =>
              ReplyLen(rq) = Least(rq.wLength, Available(rq))
         /\ rq.bRequest = "SET_REPORT" => ReplyLen(rq) = NoMsg
         /\ rq.bRequest \in {"SET_ADDRESS", "SET_CONFIGURATION"} => ReplyLen(rq) = 0
<1>0. rq.wLength \in ReadLens \cup WriteLens \cup DescrLens \cup RamLens \cup {0}
  BY DEF Requests
<1>1. rq.wLength \in Nat
  BY <1>0, ConstantTypes
<1>2. /\ usbDriverSetup(rq) \in 0 .. DescrLen
      /\ DescrLen \in Nat /\ DescrLen < NoMsg /\ NoMsg \in Nat
  BY UsbAssumption DEF usbDriverSetup
<1>3. /\ Limited(usbDriverSetup(rq), rq) \in 0 .. DescrLen
      /\ Limited(usbDriverSetup(rq), rq) <= rq.wLength
      /\ Limited(usbDriverSetup(rq), rq) = Least(rq.wLength, usbDriverSetup(rq))
  BY <1>1, <1>2 DEF Limited, Least
<1>4. rq.bRequest \in ReadRequests \ {"GET_REPORT"} => usbDriverSetup(rq) = Available(rq)
  BY UsbAssumption DEF usbDriverSetup, Available, ReadRequests
<1>5. rq.bRequest \in {"SET_ADDRESS", "SET_CONFIGURATION"} => usbDriverSetup(rq) = 0
  BY DEF usbDriverSetup
<1>6. rq.bRequest \notin {"GET_REPORT", "SET_REPORT"} =>
        ReplyLen(rq) = Limited(usbDriverSetup(rq), rq)
  BY DEF ReplyLen
<1>7. /\ rq.bRequest = "SET_REPORT" => ReplyLen(rq) = NoMsg
      /\ rq.bRequest = "GET_REPORT" => ReplyLen(rq) = rq.wLength % (NoMsg + 1)
  BY DEF ReplyLen
<1>8. rq.bRequest \in ReadRequests => rq.bRequest # "SET_REPORT"
  BY UsbAssumption DEF ReadRequests
<1> QED
  BY <1>1, <1>2, <1>3, <1>4, <1>5, <1>6, <1>7, <1>8 DEF Least

\* A function on 1 .. n is a sequence of length n.
LEMMA FunctionSeq ==
  ASSUME NEW S, NEW n \in Nat, NEW f \in [1 .. n -> S]
  PROVE  f \in Seq(S) /\ Len(f) = n
<1>1. f \in Seq(S)
  BY SeqDef, Zenon
<1>2. DOMAIN f = 1 .. n
  OBVIOUS
<1>3. Len(f) \in Nat /\ DOMAIN f = 1 .. Len(f)
  BY <1>1, LenProperties, Zenon
<1>4. 1 .. n = 1 .. Len(f)
  BY <1>2, <1>3, Zenon
<1>5. Len(f) = n
  BY <1>3, <1>4
<1> QED
  BY <1>1, <1>5

\* The packets that a host sends.
LEMMA PacketTypes ==
  /\ Token \in Packet
  /\ \A rq \in Requests : SetupPacket(rq) \in Packet
  /\ \A bytes \in Seq(Byte) : Len(bytes) <= 8 => DataPacket(bytes) \in Packet
<1>1. ASSUME NEW bytes \in Seq(Byte), Len(bytes) <= 8 PROVE DataPacket(bytes) \in Packet
  <2>1. \A n \in Nat : n <= 8 => n \in 0 .. 8
    OBVIOUS
  <2>2. Len(bytes) \in 0 .. 8
    BY <1>1, <2>1, LenProperties, Zenon
  <2> QED
    BY <2>2 DEF DataPacket, Packet
<1>2. <<>> \in Seq(Byte) /\ Len(<<>>) = 0
  BY EmptySeq
<1>3. Token \in Packet
  BY <1>2 DEF Token, DataPacket, Packet
<1>4. \A rq \in Requests : SetupPacket(rq) \in Packet
  BY <1>2 DEF SetupPacket, Packet
<1> QED
  BY <1>1, <1>3, <1>4

\* The fields of a packet in the receive buffer.
LEMMA PacketFields ==
  ASSUME NEW p \in Packet
  PROVE  p.len \in 0 .. 8 /\ p.rq \in Requests \cup {NoRequest} /\ p.bytes \in Seq(Byte)
BY DEF Packet

\* The fields of the block in the transmit buffer.
LEMMA BlockFields ==
  ASSUME NEW b \in Block
  PROVE  b.pid \in {"DATA0", "DATA1"} /\ b.bytes \in Seq(Byte) /\ Len(b.bytes) \in Nat
BY LenProperties DEF Block

\* The packet being processed and the one being received are in different
\* halves of the buffer.
LEMMA OtherHalf ==
  ASSUME Types
  PROVE  /\ usbInputBufOffset \in {0, 1} /\ 1 - usbInputBufOffset \in {0, 1}
         /\ 1 - usbInputBufOffset # usbInputBufOffset
         /\ 1 - (1 - usbInputBufOffset) = usbInputBufOffset
         /\ data \in Packet
BY DEF Types, TypeOK, data

\* Receiving a packet leaves the one being processed, and turning the buffer over
\* makes the received one the one to process.
LEMMA ReceiveKeepsData ==
  ASSUME Types, NEW p \in Packet, Receive(p)
  PROVE  /\ usbRxBuf' \in [{0, 1} -> Packet] /\ DOMAIN usbRxBuf' = {0, 1}
         /\ usbRxBuf'[usbInputBufOffset] = p
         /\ usbRxBuf'[1 - usbInputBufOffset] = data
         /\ usbInputBufOffset' = usbInputBufOffset => data' = data
         /\ usbInputBufOffset' = 1 - usbInputBufOffset => data' = p
BY OtherHalf DEF Types, Receive, data

\* The fields of a request, and of the packet that carries it.
LEMMA RequestFields ==
  ASSUME NEW rq \in Requests
  PROVE  /\ rq.wLength \in Nat
         /\ rq.bRequest \in ReadRequests \cup {"SET_REPORT", "SET_ADDRESS",
                                             "SET_CONFIGURATION"}
         /\ rq.bRequest \in ReadRequests => rq.wLength > 0
         /\ rq.bRequest = "SET_REPORT" =>
              rq.wLength \in 1 .. ReportLen /\ rq.value \in Versions
         /\ rq.bRequest = "SET_ADDRESS" => rq.value \in Addrs
         /\ rq # NoRequest
         /\ SetupPacket(rq).len = 8 /\ SetupPacket(rq).rq = rq
<1>1. SetupPacket(rq).len = 8 /\ SetupPacket(rq).rq = rq
  BY DEF SetupPacket
<1>2. rq # NoRequest
  BY ReadKinds DEF Requests, NoRequest
<1>3. rq.wLength \in ReadLens \cup WriteLens \cup DescrLens \cup RamLens \cup {0}
  BY DEF Requests
<1>4. rq.wLength \in Nat
  BY <1>3, ConstantTypes
<1>8. rq.bRequest \in ReadRequests => rq.wLength \in ReadLens \cup DescrLens \cup RamLens
  BY UsbAssumption DEF Requests, ReadRequests
<1>9. rq.bRequest \in ReadRequests => rq.wLength > 0
  BY <1>8, ConstantTypes
<1>5. rq.bRequest = "SET_REPORT" => rq.wLength \in 1 .. ReportLen /\ rq.value \in Versions
  BY UsbAssumption DEF Requests
<1>6. rq.bRequest = "SET_ADDRESS" => rq.value \in Addrs
  BY ReadKinds DEF Requests
<1>7. rq.bRequest \in ReadRequests \cup {"SET_REPORT", "SET_ADDRESS", "SET_CONFIGURATION"}
  BY DEF Requests, ReadRequests
<1> QED
  BY <1>1, <1>2, <1>3, <1>4, <1>5, <1>6, <1>7, <1>9

\* A packet is acknowledged when the buffer is free; it is stored unless empty.
LEMMA DataReceived ==
  ASSUME Types, NEW p \in Packet, HandleData(p), pc' = pc
  PROVE  /\ usbRxBuf' \in [{0, 1} -> Packet] /\ DOMAIN usbRxBuf' = {0, 1}
         /\ usbInputBufOffset' \in {0, 1} /\ usbCurrentTok' = usbCurrentTok
         /\ Answer = "ACK" <=> usbRxLen = 0 /\ usbCurrentTok # "none"
         /\ \/ /\ Answer = "ACK" /\ p.len > 0
               /\ usbRxLen' = p.len + 3 /\ usbRxLen' \in 4 .. 11
               /\ usbRxToken' = usbCurrentTok /\ data' = p
            \/ /\ Answer # "ACK" \/ p.len = 0
               /\ usbRxLen' = usbRxLen /\ usbRxToken' = usbRxToken /\ data' = data
               /\ Holds("SETUP")' <=> Holds("SETUP")
               /\ Holds("OUT")' <=> Holds("OUT")
<1>1. /\ usbRxBuf' \in [{0, 1} -> Packet] /\ DOMAIN usbRxBuf' = {0, 1}
      /\ usbInputBufOffset' = usbInputBufOffset => data' = data
      /\ usbInputBufOffset' = 1 - usbInputBufOffset => data' = p
  BY ReceiveKeepsData DEF HandleData
<1>2. Answer = "ACK" <=> usbRxLen = 0 /\ usbCurrentTok # "none"
  BY DEF Answer
<1>3. p.len \in 0 .. 8
  BY PacketFields
<1>4. CASE Stored(p)
  <2>1. Answer = "ACK" /\ p.len > 0 /\ p.len + 3 \in 4 .. 11
    BY <1>3, <1>4 DEF Stored
  <2> QED
    BY <1>1, <1>2, <1>4, <2>1, OtherHalf DEF HandleData
<1>5. CASE ~Stored(p)
  <2>1. Answer # "ACK" \/ p.len = 0
    BY <1>3, <1>5 DEF Stored
  <2>2. /\ usbInputBufOffset' = usbInputBufOffset
        /\ usbRxLen' = usbRxLen /\ usbRxToken' = usbRxToken
    BY <1>5 DEF HandleData
  <2> QED
    BY <1>1, <1>2, <2>1, <2>2, OtherHalf DEF HandleData, Holds
<1> QED
  BY <1>4, <1>5

\* Tokens and packets for others change nothing that usbPoll works on.
LEMMA TokenReceived ==
  ASSUME Types, Receive(Token), UNCHANGED <<usbRxLen, usbRxToken, usbInputBufOffset, pc>>
  PROVE  /\ usbRxBuf' \in [{0, 1} -> Packet] /\ DOMAIN usbRxBuf' = {0, 1}
         /\ data' = data
         /\ Holds("SETUP")' <=> Holds("SETUP")
         /\ Holds("OUT")' <=> Holds("OUT")
BY ReceiveKeepsData, PacketTypes DEF Holds

-----------------------------------------------------------------------------
(* Each step of usbPoll preserves the invariant. *)

\* usbPoll finds a packet, or none.
LEMMA PollRxPreserves == IInv /\ PollRx => IInv'
<1>0. SUFFICES ASSUME IInv, PollRx PROVE IInv'
  OBVIOUS
<1> USE DEF IInv, PollRx, rxvars, txvars, addrs, msg, report, stage, host
<1>1. Types'
  BY <1>0 DEF Types, TypeOK
<1>2. PollConsistent'
  BY <1>0 DEF PollConsistent, Holds, data
<1>3. TokenHeard' /\ WriteInPlace'
  BY <1>0 DEF TokenHeard, WriteInPlace, Holds, data
<1>4. AddressPrepared'
  BY <1>0 DEF AddressPrepared, AddressAgrees, Holds, data, PollConsistent, Types, TypeOK
<1>5. StageOfRequest'
  BY <1>0 DEF StageOfRequest
<1>6. ReadServed' /\ Delivered' /\ WriteServed'
  BY <1>0 DEF ReadServed, ReadBlock, Holds, data, Ready, Reads, Pos, Total,
              Content, Delivered, WriteServed
<1>7. ReportMatches' /\ PatientHost'
  BY <1>0 DEF ReportMatches, PatientHost
<1> QED
  BY <1>1, <1>2, <1>3, <1>4, <1>5, <1>6, <1>7

\* usbProcessRx drops the block of an earlier request: from here on none is ready.
LEMMA BeginSetupPreserves == IInv /\ BeginSetup => IInv'
<1>0. SUFFICES ASSUME IInv, BeginSetup PROVE IInv'
  OBVIOUS
<1> USE DEF IInv, BeginSetup, rxvars, txvars, addrs, msg, report, stage, host
<1>a. data.len = 8 /\ pc' = "setup" /\ data' = data /\ Holds("SETUP") /\ ~Holds("OUT")
  BY <1>0 DEF PollConsistent, Holds, data
<1>b. /\ usbTxBuf' \in Block /\ usbTxBuf'.pid = "DATA0" /\ usbTxBuf'.bytes = usbTxBuf.bytes
      /\ usbTxLen' = USBPID_NAK
  BY <1>0, <1>a DEF Types, Block
<1>c. Holds("SETUP")' /\ ~Holds("OUT")'
  BY <1>0, <1>a DEF Holds
<1>1. Types'
  BY <1>0, <1>a, <1>b DEF Types, TypeOK
<1>2. PollConsistent'
  BY <1>0, <1>a, <1>b DEF PollConsistent, Holds
<1>3. TokenHeard'
  BY <1>0 DEF TokenHeard
<1>4. WriteInPlace'
  BY <1>0 DEF WriteInPlace, Holds, data
<1>5. AddressPrepared'
  BY <1>0, <1>a, <1>c DEF AddressPrepared, AddressAgrees, PollConsistent, Types, TypeOK
<1>6. StageOfRequest'
  BY <1>0 DEF StageOfRequest
<1>7. ReadServed'
  BY <1>0, <1>a, <1>c DEF ReadServed, Reads
<1>8. Delivered'
  BY <1>0 DEF Delivered, Pos, Total, Content
<1>9. WriteServed'
  BY <1>0, <1>a, <1>c DEF WriteServed, Reads
<1>10. ReportMatches' /\ PatientHost'
  BY <1>0 DEF ReportMatches, PatientHost
<1> QED
  BY <1>1, <1>2, <1>3, <1>4, <1>5, <1>6, <1>7, <1>8, <1>9, <1>10

\* The reply to a request starts at its first byte, and its own host waits for it.
LEMMA ProcessSetupPreserves == IInv /\ ProcessSetup => IInv'
<1>0. SUFFICES ASSUME IInv, ProcessSetup PROVE IInv'
  OBVIOUS
<1> USE DEF IInv, ProcessSetup, rxvars, txvars, addrs, msg, report, stage, host
<1>a. /\ data.rq \in Requests /\ usbRxLen # 0 /\ usbRxToken = "SETUP" /\ Holds("SETUP")
      /\ data' = data /\ ~Holds("SETUP")' /\ ~Holds("OUT")'
  BY <1>0 DEF PollConsistent, Holds, data
<1>b. /\ hst \in {"in", "out", "outData", "statusIn"} => data.rq = req
      /\ hst \in {"in", "statusIn"} /\ Reads => data.rq = req /\ got = <<>> /\ expect = "DATA1"
      /\ hst \in {"out", "outData", "statusIn"} /\ ~Reads => data.rq = req /\ sent = 0
  BY <1>0, <1>a, ReadKinds DEF ReadServed, WriteServed, StageOfRequest, Reads
<1>c. /\ ReplyLen(data.rq) \in 0 .. NoMsg
      /\ ~UsesUserRW(data.rq) => ReplyLen(data.rq) <= DescrLen
      /\ data.rq.bRequest = "SET_ADDRESS" => data.rq.value \in Addrs
  BY <1>0, <1>a, RequestFields, ReplyLenFits DEF UsesUserRW
<1>1. Types'
  <2>1. TypeOK
    BY <1>0 DEF Types
  <2>2. /\ usbMsgLen' \in 0 .. NoMsg /\ usbMsgFlags' \in {"RAM", "ROM", "USE_USER_RW"}
        /\ usbNewDeviceAddr' \in {0} \cup Addrs /\ usbMsgPtr' \in 0 .. DescrLen
    BY <1>0, <1>a, <1>c, <2>1, UsbAssumption DEF TypeOK, ReplyFlags
  <2>3. /\ currentAddress' \in 0 .. ReportLen /\ bytesRemaining' \in 0 .. ReportLen
        /\ currentAddress' + bytesRemaining' \in {0, ReportLen}
    BY <1>0, <2>1, UsbAssumption DEF TypeOK
  <2>4. TypeOK'
    <3>1. ReceiverTypes'
      BY <1>0, <2>1, <2>2, TypesInParts DEF ReceiverTypes
    <3>2. SenderTypes'
      BY <1>0, <2>1, TypesInParts DEF SenderTypes
    <3>3. ReplyTypes'
      BY <2>2, <2>3 DEF ReplyTypes
    <3> QED
      BY <3>1, <3>2, <3>3, TypesInParts, PTL
  <2> QED
    BY <1>0, <2>4 DEF Types
<1>2. PollConsistent'
  BY <1>0, <1>a, <1>c DEF PollConsistent, Holds, ReplyFlags
<1>3. TokenHeard'
  BY <1>0 DEF TokenHeard
<1>4. WriteInPlace'
  BY <1>0 DEF WriteInPlace, Holds, data
<1>5. AddressPrepared'
  BY <1>0, <1>a, <1>b DEF AddressPrepared, AddressAgrees, Holds
<1>6. StageOfRequest'
  BY <1>0 DEF StageOfRequest
<1>7. ReadServed'
  <2> SUFFICES ASSUME hst \in {"in", "statusIn"}, Reads PROVE ReadServed'
    BY <1>0 DEF ReadServed, Reads
  <2>1. /\ data.rq = req /\ req' = req /\ got' = <<>> /\ expect' = "DATA1" /\ Len(<<>>) = 0
    BY <1>0, <1>b, EmptySeq
  <2>2. ~Ready' /\ usbTxBuf'.pid # expect'
    BY <1>0, <2>1 DEF PollConsistent, Ready
  <2>3. Pos' = 0 /\ usbMsgLen' = ReplyLen(req') /\ Pos' <= Total'
    BY <1>0, <2>1, <1>c, UsbAssumption DEF Pos, Total, UsesUserRW, Least, Reads
  <2>4. ReadBlock'
    BY <1>0, <2>1, <2>2, <2>3, <1>c DEF ReadBlock
  <2>5. currentAddress' + bytesRemaining' = ReportLen \/ ~UsesUserRW(req')
    BY <1>0, <2>1, UsbAssumption
  <2> QED
    BY <1>0, <1>a, <2>1, <2>3, <2>4, <2>5 DEF ReadServed
<1>8. Delivered'
  BY <1>0 DEF Delivered, Pos, Total, Content
<1>9. WriteServed'
  <2> SUFFICES ASSUME hst \in {"out", "outData", "statusIn"}, ~Reads PROVE WriteServed'
    BY <1>0 DEF WriteServed, Reads
  <2>1. data.rq = req /\ sent' = 0 /\ UsesUserRW(req) /\ ReplyLen(req) = NoMsg /\ req' = req
    BY <1>0, <1>a, <1>b, ReplyLenFits DEF UsesUserRW, Reads
  <2>2. ~Ready' /\ usbTxBuf'.pid = "DATA0"
    BY <1>0 DEF PollConsistent, Ready
  <2> QED
    BY <1>0, <1>a, <2>1, <2>2, UsbAssumption DEF WriteServed, ReplyFlags
<1>10. ReportMatches' /\ PatientHost'
  BY <1>0 DEF ReportMatches, PatientHost
<1> QED
  BY <1>1, <1>2, <1>3, <1>4, <1>5, <1>6, <1>7, <1>8, <1>9, <1>10

\* A write's bytes land where they belong, and the last ones call for the answer.
LEMMA ProcessOutPreserves == IInv /\ ProcessOut => IInv'
<1>0. SUFFICES ASSUME IInv, ProcessOut PROVE IInv'
  OBVIOUS
<1> USE DEF IInv, ProcessOut, rxvars, txvars, addrs, msg, report, stage, host
<1>a. /\ usbRxLen # 0 /\ Holds("OUT") /\ usbMsgFlags = "USE_USER_RW" /\ bytesRemaining > 0
      /\ data' = data /\ ~Holds("SETUP")' /\ ~Holds("OUT")' /\ ~Holds("SETUP")
      /\ data.len \in 0 .. 8 /\ currentAddress + data.len <= ReportLen
      /\ \A i \in 1 .. data.len :
           data.bytes[i] \in {currentAddress + i - 1} \X may[currentAddress + i - 1]
  BY <1>0, OtherHalf, PacketFields DEF PollConsistent, WriteInPlace, Holds, data
<1>b. /\ currentAddress \in Nat /\ bytesRemaining \in Nat /\ ReportLen \in Nat
      /\ currentAddress + bytesRemaining = ReportLen
      /\ Least(data.len, bytesRemaining) = data.len
  <2>1. /\ currentAddress \in Nat /\ bytesRemaining \in Nat /\ ReportLen \in Nat
        /\ currentAddress + bytesRemaining \in {0, ReportLen}
    BY <1>0, UsbAssumption DEF Types, TypeOK
  <2>2. currentAddress + bytesRemaining = ReportLen
    BY <1>0, <1>a, <2>1
  <2>3. data.len \in Nat /\ data.len <= bytesRemaining
    BY <1>0, <1>a, <2>1, <2>2
  <2> QED
    BY <1>0, <2>1, <2>2, <2>3 DEF Least
<1>c. /\ eeprom' = [k \in Place |->
                      IF k \in currentAddress .. currentAddress + data.len - 1
                      THEN data.bytes[k - currentAddress + 1] ELSE eeprom[k]]
      /\ currentAddress' = currentAddress + data.len
      /\ bytesRemaining' = bytesRemaining - data.len
      /\ usbMsgLen' = IF bytesRemaining = data.len THEN 0 ELSE usbMsgLen
  BY <1>0, <1>a, <1>b DEF AddressPlus, LastChunk
<1>d. ASSUME NEW k \in Place, k \in currentAddress .. currentAddress + data.len - 1
      PROVE  \E i \in 1 .. data.len : /\ i = k - currentAddress + 1
                                      /\ eeprom'[k] = data.bytes[i]
                                      /\ k = currentAddress + i - 1
  <2>1. k - currentAddress + 1 \in 1 .. data.len
    BY <1>a, <1>b, <1>d DEF Place
  <2>2. eeprom'[k] = data.bytes[k - currentAddress + 1]
    BY <1>0, <1>c, <1>d
  <2>3. k = currentAddress + (k - currentAddress + 1) - 1
    BY <1>b DEF Place
  <2> QED
    BY <1>0, <2>1, <2>2, <2>3
<1>e. ASSUME NEW k \in Place, k \notin currentAddress .. currentAddress + data.len - 1
      PROVE  eeprom'[k] = eeprom[k]
  BY <1>0, <1>c, <1>e
<1>f. ReportMatches'
  BY <1>0, <1>a, <1>d, <1>e DEF ReportMatches
<1>1. Types'
  <2>1. eeprom' \in [Place -> Byte]
    <3> SUFFICES ASSUME NEW k \in Place PROVE eeprom'[k] \in Byte
      BY <1>0, <1>c
    <3>1. eeprom'[k] \in {k} \X may[k] /\ may[k] \in SUBSET Versions
      BY <1>0, <1>f DEF ReportMatches, Types
    <3>2. k \in Int
      BY DEF Place
    <3>3. \A v \in may[k] : v \in Int
      BY <3>1, ConstantTypes
    <3> QED
      BY <3>1, <3>2, <3>3 DEF Byte
  <2>2. TypeOK
    BY <1>0 DEF Types
  <2>3. /\ currentAddress' \in 0 .. ReportLen /\ bytesRemaining' \in 0 .. ReportLen
        /\ currentAddress' + bytesRemaining' = ReportLen
    BY <1>a, <1>b, <1>c
  <2>4. usbMsgLen' \in 0 .. NoMsg
    BY <1>c, <2>2, UsbAssumption DEF TypeOK
  <2>5. TypeOK'
    BY <1>0, <2>2, <2>3, <2>4, <1>a DEF TypeOK
  <2> QED
    BY <1>0, <2>1, <2>5 DEF Types
<1>2. PollConsistent'
  BY <1>0 DEF PollConsistent, Holds, data
<1>3. TokenHeard'
  BY <1>0 DEF TokenHeard
<1>4. WriteInPlace'
  BY <1>0 DEF WriteInPlace, Holds, data
<1>5. AddressPrepared'
  BY <1>0 DEF AddressPrepared, AddressAgrees, Holds, data
<1>6. StageOfRequest'
  BY <1>0 DEF StageOfRequest
<1>7. ReadServed'
  BY <1>0, <1>a DEF ReadServed, Reads
<1>8. Delivered'
  <2>1. hst \notin {"in", "statusOut", "statusData"}
    BY <1>0, <1>a, ReadKinds DEF Delivered, ReadServed, StageOfRequest, Reads, PatientHost
  <2> QED
    BY <1>0, <2>1 DEF Delivered
<1>9. WriteServed'
  <2> SUFFICES ASSUME hst \in {"out", "outData", "statusIn"}, ~Reads PROVE WriteServed'
    BY <1>0 DEF WriteServed, Reads
  <2>1. /\ currentAddress + data.len = sent
        /\ \A i \in 1 .. data.len : data.bytes[i] = <<currentAddress + i - 1, req.value>>
        /\ \A k \in 0 .. currentAddress - 1 : eeprom[k] = <<k, req.value>>
        /\ \A k \in 0 .. sent - 1 : req.value \in may[k]
        /\ ~Ready /\ usbTxBuf.pid = "DATA0" /\ usbMsgLen = NoMsg
    BY <1>0, <1>a DEF WriteServed
  <2>2. \A k \in 0 .. currentAddress' - 1 : eeprom'[k] = <<k, req.value>>
    <3> SUFFICES ASSUME NEW k \in 0 .. currentAddress' - 1 PROVE eeprom'[k] = <<k, req.value>>
      OBVIOUS
    <3>1. /\ currentAddress' = currentAddress + data.len
          /\ currentAddress + data.len \in 0 .. ReportLen
      BY <1>a, <1>b, <1>c
    <3>2. k \in Place /\ k < currentAddress + data.len
      BY <1>b, <3>1 DEF Place
    <3>3. CASE k < currentAddress
      <4>1. /\ k \notin currentAddress .. currentAddress + data.len - 1
            /\ k \in 0 .. currentAddress - 1
        BY <1>b, <3>3
      <4> QED
        BY <1>e, <2>1, <3>2, <4>1
    <3>4. CASE k >= currentAddress
      <4>1. k \in currentAddress .. currentAddress + data.len - 1
        BY <1>a, <1>b, <3>2, <3>4
      <4>2. PICK i \in 1 .. data.len : eeprom'[k] = data.bytes[i] /\ k = currentAddress + i - 1
        BY <1>d, <3>2, <4>1
      <4> QED
        BY <2>1, <4>2
    <3> QED
      BY <1>b, <3>3, <3>4
  <2>3. ~Ready' /\ bytesRemaining' = IF bytesRemaining = data.len THEN 0 ELSE bytesRemaining'
    BY <1>0, <1>a, <1>b, <1>c, <2>1 DEF Ready
  <2> QED
    BY <1>0, <1>a, <1>b, <1>c, <2>1, <2>2, <2>3 DEF WriteServed, Reads
<1>10. ReportMatches'
  BY <1>f
<1>11. PatientHost'
  BY <1>0 DEF PatientHost
<1> QED
  BY <1>1, <1>2, <1>3, <1>4, <1>5, <1>6, <1>7, <1>8, <1>9, <1>10, <1>11

\* The buffer is given back after its packet has been worked off.
LEMMA ReleasePreserves == IInv /\ Release => IInv'
<1>0. SUFFICES ASSUME IInv, Release PROVE IInv'
  OBVIOUS
<1> USE DEF IInv, Release, rxvars, txvars, addrs, msg, report, stage, host
<1>1. Types'
  BY <1>0 DEF Types, TypeOK
<1>2. PollConsistent'
  BY <1>0 DEF PollConsistent, Holds, data
<1>3. TokenHeard' /\ WriteInPlace'
  BY <1>0 DEF TokenHeard, WriteInPlace, Holds, data
<1>4. AddressPrepared'
  BY <1>0 DEF AddressPrepared, AddressAgrees, Holds, data
<1>5. StageOfRequest'
  BY <1>0 DEF StageOfRequest
<1>6. ReadServed'
  BY <1>0 DEF ReadServed, ReadBlock, Holds, data, Ready, Reads, Pos, Total, Content
<1>7. Delivered'
  BY <1>0 DEF Delivered, Pos, Total, Content
<1>8. WriteServed'
  BY <1>0 DEF WriteServed, Holds, data, Ready, Reads
<1>9. ReportMatches' /\ PatientHost'
  BY <1>0 DEF ReportMatches, PatientHost
<1> QED
  BY <1>1, <1>2, <1>3, <1>4, <1>5, <1>6, <1>7, <1>8, <1>9

\* A block is built only if none is ready and the reply goes on.
LEMMA TxCheckPreserves == IInv /\ TxCheck => IInv'
<1>0. SUFFICES ASSUME IInv, TxCheck PROVE IInv'
  OBVIOUS
<1> USE DEF IInv, TxCheck, rxvars, txvars, addrs, msg, report, stage, host
<1>1. Types'
  BY <1>0 DEF Types, TypeOK
<1>2. PollConsistent'
  <2>1. Handshake(usbTxLen) <=> usbTxLen = USBPID_NAK
    BY <1>0, HandshakeOrBlock DEF Types, TypeOK
  <2> QED
    BY <1>0, <2>1 DEF PollConsistent, Holds, data
<1>3. TokenHeard' /\ WriteInPlace'
  BY <1>0 DEF TokenHeard, WriteInPlace, Holds, data
<1>4. AddressPrepared'
  BY <1>0 DEF AddressPrepared, AddressAgrees, Holds, data
<1>5. StageOfRequest'
  BY <1>0 DEF StageOfRequest
<1>6. ReadServed'
  BY <1>0 DEF ReadServed, ReadBlock, Holds, data, Ready, Reads, Pos, Total, Content
<1>7. Delivered'
  BY <1>0 DEF Delivered, Pos, Total, Content
<1>8. WriteServed'
  BY <1>0 DEF WriteServed, Holds, data, Ready, Reads
<1>9. ReportMatches' /\ PatientHost'
  BY <1>0 DEF ReportMatches, PatientHost
<1> QED
  BY <1>1, <1>2, <1>3, <1>4, <1>5, <1>6, <1>7, <1>8, <1>9

\* The block built goes on where the last one stopped, within the reply and its
\* source, and the token alternates.
LEMMA BuildTxBlockPreserves == IInv /\ BuildTxBlock => IInv'
<1>0. SUFFICES ASSUME IInv, BuildTxBlock PROVE IInv'
  OBVIOUS
<1> USE DEF IInv, rxvars, txvars, addrs, msg, report, stage, host
<1> DEFINE user  == usbMsgFlags = "USE_USER_RW"
           len   == IF user THEN usbFunctionRead(WantLen) ELSE WantLen
           bytes == [i \in 1 .. len |-> IF user THEN eeprom[currentAddress + i - 1]
                                        ELSE ByteAt(usbMsgPtr + i - 1, usbMsgFlags)]
<1>a. /\ usbTxLen = USBPID_NAK /\ usbMsgLen # NoMsg /\ ~Ready /\ Ready' /\ data' = data
      /\ Holds("SETUP")' <=> Holds("SETUP")
      /\ ~Holds("OUT") /\ ~Holds("OUT")' /\ usbMsgLen \in Nat
  <2>1. usbTxLen = USBPID_NAK /\ usbMsgLen # NoMsg /\ ~Holds("OUT")
    BY <1>0 DEF BuildTxBlock, PollConsistent, WriteInPlace
  <2>2. usbMsgLen \in Nat
    BY <1>0, UsbAssumption DEF Types, TypeOK
  <2> QED
    BY <1>0, <2>1, <2>2 DEF BuildTxBlock, Ready, Holds, data
<1>b. /\ currentAddress \in Nat /\ bytesRemaining \in Nat /\ usbMsgPtr \in Nat
      /\ currentAddress + bytesRemaining \in {0, ReportLen}
      /\ PacketSize \in 1 .. 8 /\ ReportLen \in Nat \ {0} /\ DescrLen \in Nat /\ NoMsg \in Nat
      /\ ~user => usbMsgPtr + usbMsgLen <= DescrLen
  <2>1. ~user => usbMsgPtr + usbMsgLen <= DescrLen
    BY <1>0, <1>a DEF PollConsistent, Types, TypeOK
  <2> QED
    BY <1>0, <2>1, UsbAssumption DEF Types, TypeOK
<1>c. /\ WantLen \in Nat /\ WantLen <= PacketSize /\ WantLen <= usbMsgLen
      /\ WantLen = usbMsgLen \/ WantLen = PacketSize
  BY <1>a, <1>b DEF WantLen, Least
<1>d. /\ len \in Nat /\ len <= WantLen
      /\ user => len <= bytesRemaining
      /\ len = WantLen \/ (user /\ len = bytesRemaining)
      /\ ~user => len = WantLen
  BY <1>b, <1>c DEF usbFunctionRead, Least
<1>e. bytes \in Seq(Byte) /\ Len(bytes) = len
  <2>1. ASSUME NEW i \in 1 .. len PROVE bytes[i] \in Byte
    <3>1. CASE user
      <4>1. currentAddress + i - 1 \in Place
        BY <1>b, <1>d, <2>1, <3>1 DEF Place
      <4> QED
        BY <1>0, <2>1, <3>1, <4>1 DEF Types
    <3>2. CASE ~user
      <4>1. usbMsgPtr + i - 1 \in Int
        BY <1>b, <1>d, <2>1
      <4> QED
        BY <2>1, <3>2, <4>1 DEF Byte, ByteAt, Rom, Ram
    <3> QED
      BY <3>1, <3>2
  <2>2. bytes \in [1 .. len -> Byte]
    BY <2>1
  <2>3. len \in Nat
    BY <1>d
  <2> HIDE DEF user, len, bytes
  <2> QED
    BY <2>2, <2>3, FunctionSeq, Zenon
<1>f. /\ usbTxBuf' = [pid |-> Other(usbTxBuf.pid), bytes |-> bytes]
      /\ usbTxBuf'.pid = Other(usbTxBuf.pid) /\ usbTxBuf'.bytes = bytes
      /\ usbMsgLen' = IF len < PacketSize THEN NoMsg ELSE usbMsgLen - WantLen
      /\ pc = "build" /\ pc' = "commit" /\ usbMsgFlags' = usbMsgFlags /\ eeprom' = eeprom
      /\ UNCHANGED <<rxvars, usbTxLen, addrs, host, line>>
  BY <1>0 DEF BuildTxBlock
<1>g. /\ user => /\ currentAddress' = currentAddress + len
                 /\ bytesRemaining' = bytesRemaining - len /\ usbMsgPtr' = usbMsgPtr
      /\ ~user => /\ usbMsgPtr' = usbMsgPtr + len
                  /\ currentAddress' = currentAddress /\ bytesRemaining' = bytesRemaining
  BY <1>0 DEF BuildTxBlock
<1> HIDE DEF user, len, bytes
<1>1. Types'
  <2>1. TypeOK /\ usbTxBuf \in Block
    BY <1>0 DEF Types
  <2>2. usbTxBuf' \in Block /\ Len(usbTxBuf'.bytes) <= PacketSize
    <3>1. Other(usbTxBuf.pid) \in {"DATA0", "DATA1"}
      BY DEF Other
    <3>2. Len(bytes) <= PacketSize
      BY <1>b, <1>c, <1>d, <1>e
    <3> QED
      BY <1>e, <1>f, <3>1, <3>2 DEF Block
  <2>3. usbTxBuf'.pid \in {"DATA0", "DATA1"}
    BY <2>2, BlockFields
  <2>4. usbMsgLen' \in 0 .. NoMsg
    BY <1>0, <1>a, <1>b, <1>c, <1>d, <1>f, <2>1 DEF TypeOK
  <2>5. usbMsgPtr' \in 0 .. DescrLen
    BY <1>b, <1>c, <1>d, <1>g, <1>a, <2>1 DEF TypeOK
  <2>6. /\ currentAddress' \in 0 .. ReportLen /\ bytesRemaining' \in 0 .. ReportLen
        /\ currentAddress' + bytesRemaining' \in {0, ReportLen}
    BY <1>b, <1>d, <1>g, <2>1 DEF TypeOK
  <2>7. TypeOK'
    <3>1. /\ UNCHANGED <<usbRxLen, usbRxToken, usbCurrentTok, usbInputBufOffset, usbRxBuf>>
          /\ UNCHANGED <<usbTxLen, usbDeviceAddr, usbNewDeviceAddr, usbMsgFlags, line>>
          /\ pc' = "commit" /\ Len(usbTxBuf'.bytes) <= PacketSize
      BY <1>f, <2>2
    <3>2. ReceiverTypes'
      BY <2>1, <3>1, TypesInParts DEF ReceiverTypes
    <3>3. SenderTypes'
      BY <2>1, <2>3, <3>1, TypesInParts DEF SenderTypes
    <3>4. ReplyTypes'
      BY <2>1, <2>4, <2>5, <2>6, <3>1, TypesInParts DEF ReplyTypes
    <3> QED
      BY <3>2, <3>3, <3>4, TypesInParts, PTL
  <2> QED
    BY <1>0, <1>f, <2>2, <2>7 DEF Types
<1>2. PollConsistent'
  <2>1. usbMsgFlags' # "USE_USER_RW" /\ usbMsgLen' # NoMsg => usbMsgPtr' + usbMsgLen' <= DescrLen
    <3> SUFFICES ASSUME usbMsgFlags' # "USE_USER_RW", usbMsgLen' # NoMsg
                 PROVE  usbMsgPtr' + usbMsgLen' <= DescrLen
      OBVIOUS
    <3>1. ~user
      BY <1>f DEF user
    <3>2. usbMsgLen' = usbMsgLen - len /\ usbMsgPtr' = usbMsgPtr + len
      BY <1>d, <1>f, <1>g, <3>1
    <3> QED
      BY <1>a, <1>b, <1>d, <3>1, <3>2
  <2> QED
    BY <1>0, <1>a, <1>f, <2>1 DEF PollConsistent
<1>3. TokenHeard'
  BY <1>0, <1>f DEF TokenHeard
<1>4. WriteInPlace'
  BY <1>a DEF WriteInPlace
<1>5. AddressPrepared'
  BY <1>0, <1>a, <1>f DEF AddressPrepared, AddressAgrees
<1>6. StageOfRequest'
  BY <1>0, <1>f DEF StageOfRequest
<1>7. ReadServed'
  <2> SUFFICES ASSUME hst \in {"in", "statusIn"}, Reads PROVE ReadServed'
    BY <1>f DEF ReadServed, Reads
  <2>1. CASE Holds("SETUP")
    BY <1>0, <1>a, <1>f, <2>1 DEF ReadServed
  <2>2. CASE ~Holds("SETUP")
    <3>1. /\ user <=> req.bRequest = "GET_REPORT"
          /\ user <=> UsesUserRW(req)
          /\ usbTxBuf.pid # expect /\ Pos = Len(got) /\ usbMsgLen = ReplyLen(req) - Pos
          /\ usbMsgFlags = ReplyFlags(req)
          /\ UsesUserRW(req) => currentAddress + bytesRemaining = ReportLen
      BY <1>0, <1>a, <2>2 DEF ReadServed, ReadBlock, user, Reads, UsesUserRW, ReplyFlags
    <3>2. usbTxBuf'.pid = expect'
      BY <1>0, <1>f, <3>1, BlockFields DEF Other, Types
    <3>3. Pos' = Pos + len /\ Pos' = Len(got') + Len(usbTxBuf'.bytes)
      BY <1>e, <1>f, <1>g, <3>1 DEF Pos
    <3>4. \A i \in 1 .. Len(usbTxBuf'.bytes) :
            usbTxBuf'.bytes[i] = Content(Len(got) + i - 1)'
      <4> SUFFICES ASSUME NEW i \in 1 .. len PROVE bytes[i] = Content(Len(got) + i - 1)'
        BY <1>e, <1>f
      <4> QED
        BY <1>f, <3>1 DEF bytes, Content, Pos
    <3>5. ReplyLen(req) \in Nat
      BY <1>0, ReplyLenFits, UsbAssumption DEF StageOfRequest, Types
    <3>6. Pos \in Nat
      BY <1>b DEF Pos
    <3>7. /\ len < PacketSize => Pos' = Total'
          /\ ~(len < PacketSize) => usbMsgLen' = ReplyLen(req') - Pos'
          /\ Pos' <= Total'
      <4>1. CASE user
        <5>1. Total' = Least(ReplyLen(req), ReportLen) /\ Pos = currentAddress
          BY <1>f, <3>1, <4>1 DEF Total, Pos
        <5>2. len = Least(Least(ReplyLen(req) - Pos, PacketSize), ReportLen - Pos)
          BY <1>a, <1>b, <3>1, <4>1, <5>1 DEF len, usbFunctionRead, WantLen
        <5>3. /\ len < PacketSize => Pos + len = Least(ReplyLen(req), ReportLen)
              /\ Pos + len <= Least(ReplyLen(req), ReportLen)
          BY <1>b, <1>d, <3>1, <3>5, <3>6, <5>1, <5>2, <4>1 DEF Least
        <5>4. ~(len < PacketSize) => WantLen = len /\ usbMsgLen' = usbMsgLen - len
          BY <1>b, <1>c, <1>d, <1>f
        <5> QED
          BY <1>b, <1>d, <1>f, <3>1, <3>3, <3>5, <3>6, <5>1, <5>3, <5>4
      <4>2. CASE ~user
        <5>1. Total' = ReplyLen(req)
          BY <1>f, <3>1, <4>2 DEF Total
        <5> QED
          <6>1. len = WantLen /\ usbMsgLen = ReplyLen(req) - Pos
            BY <1>d, <3>1, <4>2
          <6>2. /\ len < PacketSize => len = ReplyLen(req) - Pos
                /\ ~(len < PacketSize) => usbMsgLen - WantLen = ReplyLen(req) - (Pos + len)
                /\ Pos + len <= ReplyLen(req)
            BY <1>a, <1>b, <1>c, <1>d, <3>5, <3>6, <6>1
          <6>3. Pos' = Pos + len /\ req' = req
            BY <1>f, <3>3
          <6> QED
            BY <1>d, <1>f, <3>5, <3>6, <5>1, <6>2, <6>3
      <4> QED
        BY <4>1, <4>2
    <3>8. ReadBlock'
      BY <1>a, <1>e, <1>f, <3>2, <3>3, <3>4, <3>7 DEF ReadBlock
    <3>9. UsesUserRW(req') => currentAddress' + bytesRemaining' = ReportLen
      BY <1>b, <1>d, <1>f, <1>g, <3>1
    <3> QED
      BY <1>a, <1>f, <2>2, <3>1, <3>7, <3>8, <3>9 DEF ReadServed
  <2> QED
    BY <2>1, <2>2
<1>8. Delivered'
  BY <1>0, <1>f DEF Delivered, Total, Content
<1>9. WriteServed'
  <2> SUFFICES ASSUME hst \in {"out", "outData", "statusIn"}, ~Reads PROVE WriteServed'
    BY <1>f DEF WriteServed, Reads
  <2>1. CASE Holds("SETUP")
    BY <1>0, <1>a, <1>f, <2>1 DEF WriteServed
  <2>2. CASE ~Holds("SETUP")
    <3>1. usbTxBuf.pid = "DATA0" /\ usbMsgLen = 0 /\ bytesRemaining = 0 /\ user
      BY <1>0, <1>a, <2>2 DEF WriteServed, user
    <3>2. len = 0
      BY <1>c, <1>d, <3>1
    <3>3. bytes = <<>>
      BY <1>e, <3>2, EmptySeq
    <3> QED
      BY <1>0, <1>a, <1>b, <1>f, <1>g, <2>2, <3>1, <3>2, <3>3 DEF WriteServed, Other
  <2> QED
    BY <2>1, <2>2
<1>10. ReportMatches' /\ PatientHost'
  BY <1>0, <1>f DEF ReportMatches, PatientHost
<1> QED
  BY <1>1, <1>2, <1>3, <1>4, <1>5, <1>6, <1>7, <1>8, <1>9, <1>10

\* The length makes the block visible to the interrupt routine.
LEMMA CommitTxBlockPreserves == IInv /\ CommitTxBlock => IInv'
<1>0. SUFFICES ASSUME IInv, CommitTxBlock PROVE IInv'
  OBVIOUS
<1> USE DEF IInv, CommitTxBlock, rxvars, txvars, addrs, msg, report, stage, host
<1>a. /\ usbTxLen = USBPID_NAK /\ usbTxLen' = Len(usbTxBuf.bytes) + 4 /\ usbTxBuf' = usbTxBuf
      /\ usbTxLen' \in 4 .. PacketSize + 4 /\ usbTxLen' # USBPID_NAK /\ Ready /\ Ready'
      /\ data' = data /\ UNCHANGED <<rxvars, addrs, msg, report, host, line>>
      /\ Holds("SETUP")' <=> Holds("SETUP")
      /\ Holds("OUT")' <=> Holds("OUT")
  <2>1. usbTxLen = USBPID_NAK
    BY <1>0 DEF PollConsistent
  <2>2. Len(usbTxBuf.bytes) \in Nat /\ Len(usbTxBuf.bytes) <= PacketSize
    BY <1>0, BlockFields DEF Types, TypeOK
  <2>3. usbTxLen' \in 4 .. PacketSize + 4 /\ usbTxLen' # USBPID_NAK
    BY <1>0, <2>2, UsbAssumption DEF USBPID_NAK
  <2> QED
    BY <1>0, <2>1, <2>3 DEF Holds, data, Ready
<1>1. Types'
  <2>1. TypeOK'
    BY <1>0, <1>a DEF Types, TypeOK
  <2> QED
    BY <1>0, <1>a, <2>1 DEF Types
<1>2. PollConsistent'
  BY <1>0, <1>a DEF PollConsistent
<1>3. TokenHeard'
  BY <1>0 DEF TokenHeard
<1>4. WriteInPlace'
  BY <1>0 DEF WriteInPlace, Holds, data
<1>5. AddressPrepared'
  BY <1>0 DEF AddressPrepared, AddressAgrees, Holds, data
<1>6. StageOfRequest'
  BY <1>0 DEF StageOfRequest
<1>7. ReadServed'
  BY <1>0, <1>a DEF ReadServed, ReadBlock, Reads, Pos, Total, Content
<1>8. Delivered'
  BY <1>0 DEF Delivered, Pos, Total, Content
<1>9. WriteServed'
  BY <1>0, <1>a DEF WriteServed, Reads
<1>10. ReportMatches'
  BY <1>0 DEF ReportMatches
<1>11. PatientHost'
  BY <1>0 DEF PatientHost
<1> QED
  BY <1>1, <1>2, <1>3, <1>4, <1>5, <1>6, <1>7, <1>8, <1>9, <1>10, <1>11

\* A bus reset first takes back the address that is prepared.
LEMMA LineCheckPreserves == IInv /\ LineCheck => IInv'
<1>0. SUFFICES ASSUME IInv, LineCheck PROVE IInv'
  OBVIOUS
<1> USE DEF IInv, LineCheck, rxvars, txvars, addrs, msg, report, stage, host
<1>a. /\ data' = data /\ usbNewDeviceAddr' \in {0} \cup Addrs
      /\ Holds("SETUP")' <=> Holds("SETUP")
      /\ Holds("OUT")' <=> Holds("OUT")
  BY <1>0 DEF Holds, data, ResetNewAddr, Types, TypeOK
<1>1. Types'
  <2>1. TypeOK'
    BY <1>0, <1>a DEF Types, TypeOK
  <2> QED
    BY <1>0, <2>1 DEF Types
<1>2. PollConsistent'
  BY <1>0 DEF PollConsistent, Holds, data
<1>3. TokenHeard'
  BY <1>0 DEF TokenHeard
<1>4. WriteInPlace'
  BY <1>0 DEF WriteInPlace, Holds, data
<1>5. AddressPrepared'
  BY <1>0, <1>a DEF AddressPrepared, AddressAgrees, ResetNewAddr, PollConsistent, Types, TypeOK
<1>6. StageOfRequest'
  BY <1>0 DEF StageOfRequest
<1>7. ReadServed'
  BY <1>0 DEF ReadServed, ReadBlock, Holds, data, Ready, Reads, Pos, Total, Content
<1>8. Delivered'
  BY <1>0 DEF Delivered, Pos, Total, Content
<1>9. WriteServed'
  BY <1>0 DEF WriteServed, Holds, data, Ready, Reads
<1>10. ReportMatches'
  BY <1>0 DEF ReportMatches
<1>11. PatientHost'
  BY <1>0 DEF PatientHost
<1> QED
  BY <1>1, <1>2, <1>3, <1>4, <1>5, <1>6, <1>7, <1>8, <1>9, <1>10, <1>11

\* A bus reset takes back the device's address.
LEMMA ResetAddressPreserves == IInv /\ ResetAddress => IInv'
<1>0. SUFFICES ASSUME IInv, ResetAddress PROVE IInv'
  OBVIOUS
<1> USE DEF IInv, ResetAddress, rxvars, txvars, addrs, msg, report, stage, host
<1>1. Types'
  <2>1. TypeOK'
    BY <1>0 DEF Types, TypeOK
  <2> QED
    BY <1>0, <2>1 DEF Types
<1>2. PollConsistent'
  BY <1>0 DEF PollConsistent, Holds, data
<1>3. TokenHeard'
  BY <1>0 DEF TokenHeard
<1>4. WriteInPlace'
  BY <1>0 DEF WriteInPlace, Holds, data
<1>5. AddressPrepared'
  BY <1>0 DEF AddressPrepared, AddressAgrees, Holds, data
<1>6. StageOfRequest'
  BY <1>0 DEF StageOfRequest
<1>7. ReadServed'
  BY <1>0 DEF ReadServed, ReadBlock, Holds, data, Ready, Reads, Pos, Total, Content
<1>8. Delivered'
  BY <1>0 DEF Delivered, Pos, Total, Content
<1>9. WriteServed'
  BY <1>0 DEF WriteServed, Holds, data, Ready, Reads
<1>10. ReportMatches'
  BY <1>0 DEF ReportMatches
<1>11. PatientHost'
  BY <1>0 DEF PatientHost
<1> QED
  BY <1>1, <1>2, <1>3, <1>4, <1>5, <1>6, <1>7, <1>8, <1>9, <1>10, <1>11

-----------------------------------------------------------------------------
(* Each step of the host, and what the interrupt routine does about it. *)

\* A bus reset begins.
LEMMA HostResetPreserves == IInv /\ HostReset => IInv'
<1>0. SUFFICES ASSUME IInv, HostReset PROVE IInv'
  OBVIOUS
<1> USE DEF IInv, HostReset, rxvars, txvars, addrs, msg, report, stage, host
<1>1. Types'
  <2>1. /\ TypeOK' /\ hst' \in Stages /\ got' \in Seq(Byte) /\ sent' \in Nat
        /\ req' \in Requests \cup {NoRequest} /\ hostAddr' \in {0} \cup Addrs
    BY <1>0, EmptySeq DEF Types, TypeOK, Stages
  <2> QED
    BY <1>0, <2>1 DEF Types
<1>2. PollConsistent'
  BY <1>0 DEF PollConsistent, Holds, data
<1>3. TokenHeard'
  BY <1>0 DEF TokenHeard
<1>4. WriteInPlace'
  BY <1>0 DEF WriteInPlace, Holds, data
<1>5. AddressPrepared'
  BY <1>0 DEF AddressPrepared, AddressAgrees, Holds, data
<1>6. StageOfRequest'
  BY <1>0 DEF StageOfRequest
<1>7. ReadServed'
  BY <1>0 DEF ReadServed, ReadBlock, Holds, data, Ready, Reads, Pos, Total, Content
<1>8. Delivered'
  BY <1>0 DEF Delivered, Pos, Total, Content
<1>9. WriteServed'
  BY <1>0 DEF WriteServed, Holds, data, Ready, Reads
<1>10. ReportMatches'
  BY <1>0 DEF ReportMatches
<1>11. PatientHost'
  BY <1>0 DEF PatientHost
<1> QED
  BY <1>1, <1>2, <1>3, <1>4, <1>5, <1>6, <1>7, <1>8, <1>9, <1>10, <1>11

\* A bus reset ends after usbPoll has seen it through.
LEMMA HostResetEndsPreserves == IInv /\ HostResetEnds => IInv'
<1>0. SUFFICES ASSUME IInv, HostResetEnds PROVE IInv'
  OBVIOUS
<1> USE DEF IInv, HostResetEnds, rxvars, txvars, addrs, msg, report, stage, host
<1>1. Types'
  <2>1. TypeOK' /\ hst' \in Stages
    BY <1>0 DEF Types, TypeOK, Stages
  <2> QED
    BY <1>0, <2>1 DEF Types
<1>2. PollConsistent'
  BY <1>0 DEF PollConsistent, Holds, data
<1>3. TokenHeard'
  BY <1>0 DEF TokenHeard
<1>4. WriteInPlace'
  BY <1>0 DEF WriteInPlace, Holds, data
<1>5. AddressPrepared'
  BY <1>0 DEF AddressPrepared, AddressAgrees, Holds, data
<1>6. StageOfRequest'
  BY <1>0 DEF StageOfRequest
<1>7. ReadServed'
  BY <1>0 DEF ReadServed, ReadBlock, Holds, data, Ready, Reads, Pos, Total, Content
<1>8. Delivered'
  BY <1>0 DEF Delivered, Pos, Total, Content
<1>9. WriteServed'
  BY <1>0 DEF WriteServed, Holds, data, Ready, Reads
<1>10. ReportMatches'
  BY <1>0 DEF ReportMatches
<1>11. PatientHost'
  BY <1>0 DEF PatientHost
<1> QED
  BY <1>1, <1>2, <1>3, <1>4, <1>5, <1>6, <1>7, <1>8, <1>9, <1>10, <1>11

\* A packet for another device or endpoint.
LEMMA OtherPacketPreserves == IInv /\ OtherPacket => IInv'
<1>0. SUFFICES ASSUME IInv, OtherPacket PROVE IInv'
  OBVIOUS
<1> USE DEF IInv, OtherPacket, rxvars, txvars, addrs, msg, report, stage, host
<1>a. /\ usbRxBuf' \in [{0, 1} -> Packet] /\ DOMAIN usbRxBuf' = {0, 1}
      /\ data' = data
      /\ Holds("SETUP")' <=> Holds("SETUP")
      /\ Holds("OUT")' <=> Holds("OUT")
  BY <1>0, TokenReceived
<1>1. Types'
  <2>1. TypeOK'
    BY <1>0, <1>a DEF Types, TypeOK
  <2> QED
    BY <1>0, <1>a, <2>1 DEF Types
<1>2. PollConsistent'
  BY <1>0, <1>a DEF PollConsistent
<1>3. TokenHeard'
  BY <1>0 DEF TokenHeard, Between
<1>4. WriteInPlace'
  BY <1>0, <1>a DEF WriteInPlace
<1>5. AddressPrepared'
  BY <1>0, <1>a DEF AddressPrepared, AddressAgrees
<1>6. StageOfRequest'
  BY <1>0 DEF StageOfRequest
<1>7. ReadServed'
  BY <1>0, <1>a DEF ReadServed, ReadBlock, Ready, Reads, Pos, Total, Content
<1>8. Delivered'
  BY <1>0 DEF Delivered, Pos, Total, Content
<1>9. WriteServed'
  BY <1>0, <1>a DEF WriteServed, Ready, Reads
<1>10. ReportMatches'
  BY <1>0 DEF ReportMatches
<1>11. PatientHost'
  BY <1>0 DEF PatientHost, Between
<1> QED
  BY <1>1, <1>2, <1>3, <1>4, <1>5, <1>6, <1>7, <1>8, <1>9, <1>10, <1>11

\* The token of a SETUP, also from a host that gave up on what came before.
LEMMA HostSetupPreserves == IInv /\ HostSetup => IInv'
<1>0. SUFFICES ASSUME IInv, HostSetup PROVE IInv'
  OBVIOUS
<1> USE DEF IInv, HostSetup, rxvars, txvars, addrs, msg, report, stage, host
<1>a. /\ usbRxBuf' \in [{0, 1} -> Packet] /\ DOMAIN usbRxBuf' = {0, 1}
      /\ data' = data
      /\ Holds("SETUP")' <=> Holds("SETUP")
      /\ Holds("OUT")' <=> Holds("OUT")
  BY <1>0, TokenReceived DEF HandleToken
<1>b. /\ req' \in Requests /\ hst' = "setup" /\ got' = <<>> /\ sent' = 0 /\ expect' = "DATA1"
      /\ hst \in {"idle", "retry"} \/ (Between /\ ~Patient /\ req.bRequest # "SET_ADDRESS")
      /\ hst # "reset" /\ (Patient => hst = "idle")
      /\ usbCurrentTok' \in {"none", "SETUP"}
      /\ UNCHANGED <<usbRxLen, usbRxToken, usbInputBufOffset, txvars, addrs, pc, msg, report,
                     hostAddr, may, line>>
  <2>1. hst = "retry" => req \in Requests
    BY <1>0 DEF StageOfRequest, Types
  <2> QED
    BY <1>0, <2>1 DEF MayBegin, Between, HandleToken, PatientHost
<1>c. Addressed => usbCurrentTok' = "SETUP"
  BY <1>0 DEF HandleToken
<1>1. Types'
  <2>1. TypeOK'
    BY <1>0, <1>a, <1>b DEF Types, TypeOK
  <2>2. hst' \in Stages /\ got' \in Seq(Byte) /\ sent' \in Nat
    BY <1>b, EmptySeq DEF Stages
  <2> QED
    BY <1>0, <1>a, <1>b, <2>1, <2>2 DEF Types
<1>2. PollConsistent'
  BY <1>0, <1>a, <1>b DEF PollConsistent
<1>3. TokenHeard'
  BY <1>b DEF TokenHeard
<1>4. WriteInPlace'
  BY <1>0, <1>a DEF WriteInPlace
<1>5. AddressPrepared'
  <2>1. usbNewDeviceAddr = usbDeviceAddr
    BY <1>0, <1>b DEF AddressPrepared, Between
  <2>2. ~(Holds("SETUP") /\ data.rq.bRequest = "SET_ADDRESS")
    BY <1>0, <1>b DEF AddressPrepared, Between
  <2> QED
    BY <1>0, <1>a, <1>b, <2>1, <2>2 DEF AddressPrepared, AddressAgrees
<1>6. StageOfRequest'
  <2>1. req' # NoRequest
    BY <1>b, RequestFields
  <2> QED
    BY <1>b, <2>1 DEF StageOfRequest
<1>7. ReadServed'
  BY <1>b DEF ReadServed
<1>8. Delivered'
  BY <1>b DEF Delivered
<1>9. WriteServed'
  BY <1>b DEF WriteServed
<1>10. ReportMatches'
  BY <1>0, <1>b DEF ReportMatches
<1>11. PatientHost'
  BY <1>0, <1>b, <1>c DEF PatientHost, AddressPrepared, AddressAgrees, Addressed
<1> QED
  BY <1>1, <1>2, <1>3, <1>4, <1>5, <1>6, <1>7, <1>8, <1>9, <1>10, <1>11

\* The token of an OUT.
LEMMA HostOutPreserves == IInv /\ HostOut => IInv'
<1>0. SUFFICES ASSUME IInv, HostOut PROVE IInv'
  OBVIOUS
<1> USE DEF IInv, HostOut, rxvars, txvars, addrs, msg, report, stage, host
<1>a. /\ usbRxBuf' \in [{0, 1} -> Packet] /\ DOMAIN usbRxBuf' = {0, 1}
      /\ data' = data
      /\ Holds("SETUP")' <=> Holds("SETUP")
      /\ Holds("OUT")' <=> Holds("OUT")
  BY <1>0, TokenReceived DEF HandleToken
<1>b. /\ hst \in {"out", "statusOut"}
      /\ hst' = IF hst = "out" THEN "outData" ELSE "statusData"
      /\ usbCurrentTok' \in {"none", "OUT"}
      /\ UNCHANGED <<usbRxLen, usbRxToken, usbInputBufOffset, txvars, addrs, pc, msg, report,
                     req, got, sent, expect, hostAddr, may, line>>
  BY <1>0 DEF HandleToken
<1>1. Types'
  <2>1. TypeOK'
    BY <1>0, <1>a, <1>b DEF Types, TypeOK
  <2>2. hst' \in Stages
    BY <1>b DEF Stages
  <2> QED
    BY <1>0, <1>a, <1>b, <2>1, <2>2 DEF Types
<1>2. PollConsistent'
  BY <1>0, <1>a, <1>b DEF PollConsistent
<1>3. TokenHeard'
  BY <1>b DEF TokenHeard
<1>4. WriteInPlace'
  BY <1>0, <1>a DEF WriteInPlace
<1>5. AddressPrepared'
  BY <1>0, <1>a, <1>b DEF AddressPrepared, AddressAgrees
<1>6. StageOfRequest'
  BY <1>0, <1>b DEF StageOfRequest
<1>7. ReadServed'
  BY <1>b DEF ReadServed
<1>8. Delivered'
  BY <1>0, <1>b DEF Delivered, Total, Content
<1>9. WriteServed'
  BY <1>0, <1>a, <1>b DEF WriteServed, Reads, Ready
<1>10. ReportMatches'
  BY <1>0, <1>b DEF ReportMatches
<1>11. PatientHost'
  BY <1>0, <1>b DEF PatientHost
<1> QED
  BY <1>1, <1>2, <1>3, <1>4, <1>5, <1>6, <1>7, <1>8, <1>9, <1>10, <1>11

\* The request itself: it is stored, or refused and nothing changes.
LEMMA HostSetupDataPreserves == IInv /\ HostSetupData => IInv'
<1>0. SUFFICES ASSUME IInv, HostSetupData PROVE IInv'
  OBVIOUS
<1> USE DEF IInv, HostSetupData, rxvars, txvars, addrs, msg, report, stage, host
<1>a. /\ req \in Requests /\ SetupPacket(req) \in Packet
      /\ got = <<>> /\ sent = 0 /\ expect = "DATA1"
  BY <1>0, PacketTypes DEF StageOfRequest, Types
<1>b. /\ HandleData(SetupPacket(req)) /\ hst = "setup"
      /\ hst' = IF Answer = "ACK" THEN FirstStage ELSE "retry"
      /\ UNCHANGED <<txvars, addrs, pc, msg, report, req, got, sent, expect, hostAddr,
                     may, line>>
  BY <1>0
<1>c. /\ usbRxBuf' \in [{0, 1} -> Packet] /\ DOMAIN usbRxBuf' = {0, 1}
      /\ usbInputBufOffset' \in {0, 1} /\ usbCurrentTok' = usbCurrentTok
      /\ \/ /\ Answer = "ACK" /\ usbRxLen = 0 /\ usbCurrentTok = "SETUP"
            /\ usbRxLen' \in 4 .. 11 /\ usbRxLen' # 0 /\ usbRxToken' = "SETUP"
            /\ data' = SetupPacket(req) /\ data'.len = 8 /\ data'.rq = req
            /\ pc # "release" /\ Holds("SETUP")' /\ ~Holds("OUT")'
            /\ ~Holds("SETUP") /\ ~Holds("OUT") /\ hst' = FirstStage
         \/ /\ Answer # "ACK" /\ ~(usbRxLen = 0 /\ usbCurrentTok # "none") /\ hst' = "retry"
            /\ usbRxLen' = usbRxLen /\ usbRxToken' = usbRxToken /\ data' = data
            /\ Holds("SETUP")' <=> Holds("SETUP")
            /\ Holds("OUT")' <=> Holds("OUT")
  <2>1. SetupPacket(req).len = 8 /\ SetupPacket(req).rq = req
    BY <1>a, RequestFields
  <2>2. usbCurrentTok \in {"none", "SETUP"}
    BY <1>0, <1>b DEF TokenHeard, Types, TypeOK
  <2>3. usbRxLen = 0 => pc # "release"
    BY <1>0 DEF PollConsistent
  <2>4. pc' = pc /\ Types
    BY <1>0, <1>b
  <2>5. /\ usbRxBuf' \in [{0, 1} -> Packet] /\ DOMAIN usbRxBuf' = {0, 1}
        /\ usbInputBufOffset' \in {0, 1} /\ usbCurrentTok' = usbCurrentTok
        /\ Answer = "ACK" <=> usbRxLen = 0 /\ usbCurrentTok # "none"
        /\ \/ /\ Answer = "ACK" /\ usbRxLen' \in 4 .. 11
              /\ usbRxToken' = usbCurrentTok /\ data' = SetupPacket(req)
           \/ /\ Answer # "ACK"
              /\ usbRxLen' = usbRxLen /\ usbRxToken' = usbRxToken /\ data' = data
              /\ Holds("SETUP")' <=> Holds("SETUP")
              /\ Holds("OUT")' <=> Holds("OUT")
    BY <1>a, <1>b, <2>1, <2>4, DataReceived
  <2> QED
    BY <1>b, <2>1, <2>2, <2>3, <2>4, <2>5 DEF Holds
<1>d. /\ FirstStage \in {"in", "out", "statusIn"}
      /\ FirstStage = "in" <=> req.bRequest \in ReadRequests
      /\ FirstStage = "out" <=> req.bRequest = "SET_REPORT"
  BY ReadKinds DEF FirstStage
<1>1. Types'
  <2>1. TypeOK'
    BY <1>0, <1>b, <1>c DEF Types, TypeOK
  <2>2. hst' \in Stages
    BY <1>c, <1>d DEF Stages
  <2> QED
    BY <1>0, <1>b, <1>c, <2>1, <2>2 DEF Types
<1>2. PollConsistent'
  BY <1>0, <1>a, <1>b, <1>c DEF PollConsistent
<1>3. TokenHeard'
  BY <1>c, <1>d DEF TokenHeard
<1>4. WriteInPlace'
  BY <1>0, <1>b, <1>c DEF WriteInPlace
<1>5. AddressPrepared'
  BY <1>0, <1>b, <1>c, <1>d, ReadKinds DEF AddressPrepared, AddressAgrees
<1>6. StageOfRequest'
  <2>1. req # NoRequest /\ req.bRequest = "SET_REPORT" => sent < req.wLength
    BY <1>a, RequestFields
  <2> QED
    BY <1>0, <1>a, <1>b, <1>c, <1>d, <2>1, RequestFields DEF StageOfRequest
<1>7. ReadServed'
  BY <1>a, <1>b, <1>c, <1>d DEF ReadServed
<1>8. Delivered'
  <2>1. Len(got') = 0
    BY <1>a, <1>b, EmptySeq
  <2> QED
    BY <1>c, <1>d, <2>1 DEF Delivered
<1>9. WriteServed'
  BY <1>a, <1>b, <1>c, <1>d DEF WriteServed
<1>10. ReportMatches'
  BY <1>0, <1>b DEF ReportMatches
<1>11. PatientHost'
  BY <1>0, <1>b, <1>c, <1>d DEF PatientHost
<1> QED
  BY <1>1, <1>2, <1>3, <1>4, <1>5, <1>6, <1>7, <1>8, <1>9, <1>10, <1>11

\* The next bytes of a write: they go to where usbPoll has come.
LEMMA HostOutDataPreserves == IInv /\ HostOutData => IInv'
<1>0. SUFFICES ASSUME IInv, HostOutData PROVE IInv'
  OBVIOUS
<1> USE DEF IInv, HostOutData, rxvars, txvars, addrs, msg, report, stage, host
<1> DEFINE n     == Least(PacketSize, req.wLength - sent)
           bytes == [i \in 1 .. n |-> <<sent + i - 1, req.value>>]
<1>a. /\ req \in Requests /\ req.bRequest = "SET_REPORT" /\ req.wLength \in 1 .. ReportLen
      /\ req.value \in Versions /\ req.value \in Nat /\ sent \in Nat /\ sent < req.wLength
      /\ n \in 1 .. 8 /\ n <= PacketSize /\ sent + n <= req.wLength
  <2>1. req \in Requests /\ req.bRequest = "SET_REPORT" /\ sent \in Nat /\ sent < req.wLength
    BY <1>0 DEF StageOfRequest, Types
  <2>2. req.wLength \in 1 .. ReportLen /\ req.value \in Versions
    BY <2>1, RequestFields
  <2>3. PacketSize \in 1 .. 8 /\ ReportLen \in Nat /\ req.wLength - sent \in Nat \ {0}
    BY <2>1, <2>2, UsbAssumption
  <2>4. n \in 1 .. 8 /\ n <= PacketSize /\ sent + n <= req.wLength
    BY <2>1, <2>2, <2>3 DEF Least
  <2> QED
    BY <2>1, <2>2, <2>4, ConstantTypes
<1>b. /\ DataPacket(bytes) \in Packet /\ DataPacket(bytes).len = n
      /\ DataPacket(bytes).bytes = bytes
  <2>1. bytes \in [1 .. n -> Byte]
    BY <1>a DEF Byte
  <2>2. n \in Nat /\ n <= 8
    BY <1>a
  <2> HIDE DEF n, bytes
  <2>3. bytes \in Seq(Byte) /\ Len(bytes) = n
    BY <2>1, <2>2, FunctionSeq, Zenon
  <2> QED
    BY <2>2, <2>3, PacketTypes DEF DataPacket
<1>c. /\ HandleData(DataPacket(bytes)) /\ hst = "outData"
      /\ may' = [k \in Place |-> IF k \in sent .. sent + n - 1
                                 THEN may[k] \cup {req.value} ELSE may[k]]
      /\ Answer = "ACK" => /\ sent' = sent + n
                           /\ hst' = IF sent + n = req.wLength THEN "statusIn" ELSE "out"
      /\ Answer # "ACK" => hst' = "out" /\ sent' = sent
      /\ UNCHANGED <<txvars, addrs, pc, msg, report, req, got, expect, hostAddr, line>>
  BY <1>0
<1>d. /\ usbRxBuf' \in [{0, 1} -> Packet] /\ DOMAIN usbRxBuf' = {0, 1}
      /\ usbInputBufOffset' \in {0, 1} /\ usbCurrentTok' = usbCurrentTok
      /\ \/ /\ Answer = "ACK" /\ usbRxLen = 0 /\ usbCurrentTok = "OUT"
            /\ usbRxLen' \in 4 .. 11 /\ usbRxLen' # 0 /\ usbRxToken' = "OUT"
            /\ data' = DataPacket(bytes) /\ pc # "release" /\ ~Holds("SETUP")' /\ Holds("OUT")'
            /\ ~Holds("SETUP") /\ ~Holds("OUT")
         \/ /\ Answer # "ACK"
            /\ usbRxLen' = usbRxLen /\ usbRxToken' = usbRxToken /\ data' = data
            /\ Holds("SETUP")' <=> Holds("SETUP")
            /\ Holds("OUT")' <=> Holds("OUT")
  <2>1. usbCurrentTok \in {"none", "OUT"}
    BY <1>0, <1>c DEF TokenHeard, Types, TypeOK
  <2>2. usbRxLen = 0 => pc # "release"
    BY <1>0 DEF PollConsistent
  <2>3. pc' = pc /\ Types /\ DataPacket(bytes).len > 0
    BY <1>0, <1>a, <1>b, <1>c
  <2>4. /\ usbRxBuf' \in [{0, 1} -> Packet] /\ DOMAIN usbRxBuf' = {0, 1}
        /\ usbInputBufOffset' \in {0, 1} /\ usbCurrentTok' = usbCurrentTok
        /\ Answer = "ACK" <=> usbRxLen = 0 /\ usbCurrentTok # "none"
        /\ \/ /\ Answer = "ACK" /\ usbRxLen' \in 4 .. 11
              /\ usbRxToken' = usbCurrentTok /\ data' = DataPacket(bytes)
           \/ /\ Answer # "ACK"
              /\ usbRxLen' = usbRxLen /\ usbRxToken' = usbRxToken /\ data' = data
              /\ Holds("SETUP")' <=> Holds("SETUP")
              /\ Holds("OUT")' <=> Holds("OUT")
    BY <1>b, <1>c, <2>3, DataReceived
  <2> QED
    BY <2>1, <2>2, <2>3, <2>4 DEF Holds
<1>e. /\ may' \in [Place -> SUBSET Versions]
      /\ \A k \in Place : may[k] \subseteq may'[k]
      /\ \A k \in Place : k \in sent .. sent + n - 1 => req.value \in may'[k]
  BY <1>0, <1>a, <1>c DEF Types
\* The data stage has come to where usbPoll is.
<1>f. ~Holds("SETUP") /\ ~Holds("OUT") =>
        /\ usbMsgFlags = "USE_USER_RW" /\ currentAddress = sent /\ ~Ready
        /\ bytesRemaining > 0 /\ usbMsgLen = NoMsg /\ usbTxBuf.pid = "DATA0"
        /\ currentAddress + bytesRemaining = ReportLen
  <2> SUFFICES ASSUME ~Holds("SETUP"), ~Holds("OUT")
               PROVE  /\ usbMsgFlags = "USE_USER_RW" /\ currentAddress = sent /\ ~Ready
                      /\ bytesRemaining > 0 /\ usbMsgLen = NoMsg /\ usbTxBuf.pid = "DATA0"
                      /\ currentAddress + bytesRemaining = ReportLen
    OBVIOUS
  <2>1. /\ usbMsgFlags = "USE_USER_RW" /\ currentAddress = sent
        /\ currentAddress + bytesRemaining = ReportLen
        /\ Ready => bytesRemaining = 0
        /\ ~Ready => /\ usbTxBuf.pid = "DATA0"
                     /\ usbMsgLen = (IF bytesRemaining = 0 THEN 0 ELSE NoMsg)
    BY <1>0, <1>a, <1>c DEF WriteServed, Reads
  <2>2. bytesRemaining \in Nat /\ ReportLen \in Nat
    BY <1>0, UsbAssumption DEF Types, TypeOK
  <2>3. bytesRemaining > 0
    BY <1>a, <2>1, <2>2
  <2> QED
    BY <2>1, <2>2, <2>3
<1> HIDE DEF n, bytes
<1>1. Types'
  <2>1. TypeOK'
    <3>1. TypeOK
      BY <1>0 DEF Types
    <3>2. ReceiverTypes'
      BY <1>c, <1>d, <3>1, TypesInParts DEF ReceiverTypes
    <3>3. SenderTypes'
      BY <1>c, <3>1, TypesInParts DEF SenderTypes
    <3>4. ReplyTypes'
      BY <1>c, <3>1, TypesInParts DEF ReplyTypes
    <3> QED
      BY <3>2, <3>3, <3>4, TypesInParts, PTL
  <2>2. hst' \in Stages /\ sent' \in Nat
    BY <1>a, <1>c, <1>d DEF Stages
  <2> QED
    BY <1>0, <1>c, <1>d, <1>e, <2>1, <2>2 DEF Types
<1>2. PollConsistent'
  <2>1. usbRxLen = 0 => pc \notin {"process", "setup", "release"}
    BY <1>0 DEF PollConsistent
  <2> QED
    BY <1>0, <1>c, <1>d, <2>1 DEF PollConsistent
<1>3. TokenHeard'
  BY <1>c, <1>d, <1>0 DEF TokenHeard
<1>4. WriteInPlace'
  <2>1. CASE Answer = "ACK"
    <3>1. data' = DataPacket(bytes) /\ data'.len = n /\ data'.bytes = bytes
      BY <1>b, <1>d, <2>1
    <3>2. Len(bytes) = n /\ \A i \in 1 .. n : bytes[i] = <<sent + i - 1, req.value>>
      BY <1>b DEF DataPacket, bytes
    <3>3. ASSUME NEW i \in 1 .. n
          PROVE  bytes[i] \in {sent + i - 1} \X may'[sent + i - 1]
      <4>1. sent + i - 1 \in Place /\ sent + i - 1 \in sent .. sent + n - 1
        BY <1>a, UsbAssumption, <3>3 DEF Place
      <4>2. req.value \in may'[sent + i - 1]
        BY <1>e, <4>1
      <4>3. bytes[i] = <<sent + i - 1, req.value>>
        BY <3>2, <3>3
      <4> QED
        BY <4>2, <4>3
    <3>4. sent + n <= ReportLen
      BY <1>a, UsbAssumption
    <3> QED
      BY <1>c, <1>d, <1>f, <2>1, <3>1, <3>2, <3>3, <3>4 DEF WriteInPlace
  <2>2. CASE Answer # "ACK"
    <3> SUFFICES ASSUME Holds("OUT") PROVE WriteInPlace'
      BY <1>d, <2>2 DEF WriteInPlace
    <3>1. data' = data /\ data.len \in Nat /\ currentAddress \in Nat
          /\ currentAddress + data.len <= ReportLen
      BY <1>0, <1>d, <2>2, OtherHalf, PacketFields DEF WriteInPlace, Types, TypeOK
    <3>2. ASSUME NEW i \in 1 .. data.len
          PROVE  data.bytes[i] \in {currentAddress + i - 1} \X may'[currentAddress + i - 1]
      <4>1. currentAddress + i - 1 \in Place
        BY <3>1, <3>2, UsbAssumption DEF Place
      <4> QED
        BY <1>0, <1>e, <3>2, <4>1 DEF WriteInPlace
    <3> QED
      BY <1>0, <1>c, <3>1, <3>2 DEF WriteInPlace
  <2> QED
    BY <2>1, <2>2
<1>5. AddressPrepared'
  <2>1. hst' \in {"out", "statusIn"}
    BY <1>c, <1>d
  <2>2. line' = line /\ (line = "idle") /\ usbNewDeviceAddr' = usbDeviceAddr'
        /\ usbDeviceAddr' = hostAddr'
    BY <1>0, <1>c DEF AddressPrepared, AddressAgrees
  <2>3. ~(Holds("SETUP")' /\ data'.rq.bRequest = "SET_ADDRESS")
    BY <1>0, <1>c, <1>d DEF AddressPrepared
  <2> QED
    BY <1>0, <1>a, <1>c, <2>1, <2>2, <2>3 DEF AddressPrepared, AddressAgrees
<1>6. StageOfRequest'
  <2>1. /\ got = <<>> /\ expect = "DATA1" /\ req # NoRequest
        /\ sent + n # req.wLength => sent + n < req.wLength
    BY <1>0, <1>a, <1>c, RequestFields, ReadKinds DEF StageOfRequest
  <2>2. hst' \in {"out", "statusIn"} /\ req' = req /\ got' = got /\ expect' = expect
    BY <1>c, <1>d
  <2>3. /\ hst' = "out" => sent' < req.wLength
        /\ hst' = "statusIn" => sent' = req.wLength
    BY <1>a, <1>c, <2>1
  <2> QED
    BY <1>a, <2>1, <2>2, <2>3, ReadKinds DEF StageOfRequest
<1>7. ReadServed'
  BY <1>a, <1>c DEF ReadServed, Reads
<1>8. Delivered'
  BY <1>c, <1>d DEF Delivered
<1>9. WriteServed'
  <2>1. ASSUME NEW k \in 0 .. sent' - 1 PROVE req.value \in may'[k]
    <3>1. k \in Place
      BY <1>a, <1>c, UsbAssumption DEF Place
    <3>2. CASE k < sent
      <4>1. \A j \in 0 .. sent - 1 : req.value \in may[j]
        BY <1>0, <1>a, <1>c DEF WriteServed, Reads
      <4>2. k \in 0 .. sent - 1
        BY <1>a, <3>2
      <4>3. req.value \in may[k] /\ may[k] \subseteq may'[k]
        BY <1>e, <3>1, <4>1, <4>2
      <4> QED
        BY <4>3
    <3>3. CASE k >= sent
      BY <1>a, <1>c, <1>e, <2>1, <3>1, <3>3
    <3> QED
      BY <1>a, <3>1, <3>2, <3>3 DEF Place
  <2>2. req' = req /\ Ready' = Ready
    BY <1>c DEF Ready
  <2>3. /\ Holds("SETUP") => data.rq = req /\ sent = 0
        /\ ~Holds("SETUP") =>
             /\ usbMsgFlags = "USE_USER_RW"
             /\ currentAddress + bytesRemaining = ReportLen
             /\ \A k \in 0 .. currentAddress - 1 : eeprom[k] = <<k, req.value>>
             /\ IF Holds("OUT")
                THEN /\ currentAddress + data.len = sent
                     /\ \A i \in 1 .. data.len :
                          data.bytes[i] = <<currentAddress + i - 1, req.value>>
                ELSE currentAddress = sent
             /\ IF Ready
                THEN /\ usbTxBuf.pid = "DATA1" /\ usbTxBuf.bytes = <<>>
                     /\ bytesRemaining = 0
                ELSE /\ usbTxBuf.pid = "DATA0"
                     /\ usbMsgLen = (IF bytesRemaining = 0 THEN 0 ELSE NoMsg)
    BY <1>0, <1>a, <1>c DEF WriteServed, Reads
  <2>4. CASE Answer = "ACK"
    <3>1. data' = DataPacket(bytes) /\ data'.len = n /\ data'.bytes = bytes
      BY <1>b, <1>d, <2>4
    <3>2. \A i \in 1 .. n : bytes[i] = <<sent + i - 1, req.value>>
      BY DEF bytes
    <3>3. currentAddress + data'.len = sent'
      BY <1>c, <1>d, <1>f, <2>4, <3>1
    <3> QED
      BY <1>c, <1>d, <1>f, <2>1, <2>2, <2>3, <2>4, <3>1, <3>2, <3>3 DEF WriteServed
  <2>5. CASE Answer # "ACK"
    BY <1>c, <1>d, <2>1, <2>2, <2>3, <2>5 DEF WriteServed
  <2> QED
    BY <2>4, <2>5
<1>10. ReportMatches'
  BY <1>0, <1>c, <1>e DEF ReportMatches
<1>11. PatientHost'
  BY <1>0, <1>c, <1>d DEF PatientHost
<1> QED
  BY <1>1, <1>2, <1>3, <1>4, <1>5, <1>6, <1>7, <1>8, <1>9, <1>10, <1>11

\* The empty packet that ends a read is never stored.
LEMMA HostStatusDataPreserves == IInv /\ HostStatusData => IInv'
<1>0. SUFFICES ASSUME IInv, HostStatusData PROVE IInv'
  OBVIOUS
<1> USE DEF IInv, HostStatusData, rxvars, txvars, addrs, msg, report, stage, host
<1>a. /\ hst = "statusData" /\ usbRxLen = 0 /\ req.bRequest \in ReadRequests
      /\ HandleData(DataPacket(<<>>)) /\ DataPacket(<<>>) \in Packet
      /\ DataPacket(<<>>).len = 0
      /\ UNCHANGED <<txvars, addrs, pc, msg, report, line>>
  BY <1>0, PacketTypes, EmptySeq DEF StageOfRequest, Delivered, Token, DataPacket
<1>b. /\ usbRxBuf' \in [{0, 1} -> Packet] /\ DOMAIN usbRxBuf' = {0, 1}
      /\ usbInputBufOffset' \in {0, 1} /\ usbCurrentTok' = usbCurrentTok
      /\ usbRxLen' = usbRxLen /\ usbRxToken' = usbRxToken /\ data' = data
      /\ ~Holds("SETUP")' /\ ~Holds("OUT")'
  <2>1. Types /\ pc' = pc
    BY <1>0, <1>a
  <2>2. /\ usbRxBuf' \in [{0, 1} -> Packet] /\ DOMAIN usbRxBuf' = {0, 1}
        /\ usbInputBufOffset' \in {0, 1} /\ usbCurrentTok' = usbCurrentTok
        /\ usbRxLen' = usbRxLen /\ usbRxToken' = usbRxToken /\ data' = data
    BY <1>a, <2>1, DataReceived
  <2> QED
    BY <1>a, <2>2 DEF Holds
<1>c. hostAddr' = hostAddr /\ may' = may
  BY <1>0, <1>a, ReadKinds DEF Done, Types
<1>d. \/ /\ hst' = "idle" /\ req' = NoRequest /\ got' = <<>> /\ sent' = 0 /\ expect' = "DATA1"
      \/ hst' = "statusOut" /\ UNCHANGED <<req, got, sent, expect>>
  BY <1>0 DEF Done
<1>1. Types'
  <2>1. TypeOK'
    BY <1>0, <1>a, <1>b DEF Types, TypeOK
  <2>2. /\ hst' \in Stages /\ req' \in Requests \cup {NoRequest} /\ got' \in Seq(Byte)
        /\ sent' \in Nat /\ expect' \in {"DATA0", "DATA1"}
    <3>1. <<>> \in Seq(Byte)
      BY EmptySeq
    <3>2. /\ req \in Requests \cup {NoRequest} /\ got \in Seq(Byte) /\ sent \in Nat
          /\ expect \in {"DATA0", "DATA1"}
      BY <1>0 DEF Types
    <3>3. got' \in Seq(Byte)
      BY <1>d, <3>1, <3>2, Zenon
    <3>4. expect' \in {"DATA0", "DATA1"} /\ sent' \in Nat
      BY <1>d, <3>2
    <3>5. hst' \in Stages /\ req' \in Requests \cup {NoRequest}
      BY <1>d, <3>2 DEF Stages
    <3> QED
      BY <3>3, <3>4, <3>5
  <2> QED
    BY <1>0, <1>a, <1>b, <1>c, <2>1, <2>2 DEF Types
<1>2. PollConsistent'
  BY <1>0, <1>a, <1>b DEF PollConsistent
<1>3. TokenHeard'
  BY <1>d DEF TokenHeard
<1>4. WriteInPlace'
  BY <1>b DEF WriteInPlace
<1>5. AddressPrepared'
  BY <1>0, <1>a, <1>b, <1>c, <1>d DEF AddressPrepared, AddressAgrees
<1>6. StageOfRequest'
  BY <1>0, <1>a, <1>d DEF StageOfRequest, NoRequest
<1>7. ReadServed'
  BY <1>d DEF ReadServed
<1>8. Delivered'
  BY <1>0, <1>a, <1>b, <1>d DEF Delivered, Total, Content
<1>9. WriteServed'
  BY <1>d DEF WriteServed
<1>10. ReportMatches'
  BY <1>0, <1>a, <1>c DEF ReportMatches
<1>11. PatientHost'
  BY <1>0, <1>a, <1>b, <1>d DEF PatientHost
<1> QED
  BY <1>1, <1>2, <1>3, <1>4, <1>5, <1>6, <1>7, <1>8, <1>9, <1>10, <1>11

\* What reaches the host when data is sent: a block of the reply, that goes on
\* where the host stopped, or the empty answer that ends the transfer.
LEMMA DataSent ==
  ASSUME IInv, HostIn, SendsData
  PROVE  /\ usbRxLen = 0 /\ Ready /\ ~Ready' /\ usbTxBuf.pid = expect
         /\ Len(usbTxBuf.bytes) \in Nat /\ usbDeviceAddr' = usbNewDeviceAddr
         /\ pc \notin {"process", "setup", "release", "build", "commit"}
         /\ usbTxLen' = USBPID_NAK
         /\ \/ /\ hst = "in" /\ req.bRequest \in ReadRequests
               /\ got' = got \o usbTxBuf.bytes /\ got' \in Seq(Byte) /\ Len(got') = Pos
               /\ \A k \in 1 .. Len(got') : got'[k] = Content(k - 1)
               /\ expect' = Other(expect)
               /\ hst' = IF \/ Len(got') >= req.wLength
                            \/ Len(usbTxBuf.bytes) < PacketSize
                         THEN "statusOut" ELSE "in"
               /\ hst' = "statusOut" => Len(got') = Total
               /\ hst' = "in" => usbMsgLen = ReplyLen(req) - Pos
               /\ Pos <= Total
               /\ usbMsgFlags = ReplyFlags(req)
               /\ UsesUserRW(req) => currentAddress + bytesRemaining = ReportLen
               /\ UNCHANGED <<req, sent, hostAddr, may>>
            \/ /\ hst = "statusIn" /\ usbTxBuf.bytes = <<>> /\ Done
               /\ req.bRequest \notin ReadRequests /\ got = <<>>
               /\ req.bRequest = "SET_ADDRESS" => usbNewDeviceAddr = req.value
               /\ req.bRequest # "SET_ADDRESS" => usbNewDeviceAddr = usbDeviceAddr
               /\ req.bRequest = "SET_REPORT" =>
                    /\ req.wLength = ReportLen
                    /\ \A k \in Place : eeprom[k] = <<k, req.value>>
<1> USE DEF IInv, rxvars, txvars, addrs, msg, report, stage, host
<1>1. /\ usbRxLen = 0 /\ ~Holds("SETUP") /\ ~Holds("OUT") /\ usbTxLen # USBPID_NAK
      /\ usbTxLen' = USBPID_NAK /\ usbDeviceAddr' = usbNewDeviceAddr
      /\ Accept(usbTxBuf) /\ pc' = pc /\ usbTxBuf' = usbTxBuf /\ hst \in {"in", "statusIn"}
      /\ usbTxBuf.bytes \in Seq(Byte) /\ Len(usbTxBuf.bytes) \in Nat
      /\ usbTxBuf.pid \in {"DATA0", "DATA1"}
  <2>1. usbTxLen # USBPID_NAK
    BY HandshakeOrBlock DEF SendsData, Types, TypeOK
  <2>2. usbRxLen = 0
    BY DEF SendsData, Types, TypeOK
  <2>3. /\ usbTxBuf.bytes \in Seq(Byte) /\ Len(usbTxBuf.bytes) \in Nat
        /\ usbTxBuf.pid \in {"DATA0", "DATA1"}
    BY BlockFields DEF Types
  <2> QED
    BY <2>1, <2>2, <2>3 DEF HostIn, HandleIn, AddressAfterData, Holds
<1>2. Ready /\ ~Ready' /\ pc \notin {"process", "setup", "release", "build", "commit"}
  BY <1>1 DEF Ready, PollConsistent
<1>3. CASE hst = "in"
  <2>1. /\ req.bRequest \in ReadRequests /\ req \in Requests
        /\ got \in Seq(Byte) /\ Len(got) \in Nat
    BY <1>3, LenProperties DEF StageOfRequest, Types
  <2>2. /\ usbTxBuf.pid = expect
        /\ Pos = Len(got) + Len(usbTxBuf.bytes)
        /\ \A i \in 1 .. Len(usbTxBuf.bytes) : usbTxBuf.bytes[i] = Content(Len(got) + i - 1)
        /\ IF Len(usbTxBuf.bytes) < PacketSize THEN Pos = Total
           ELSE usbMsgLen = ReplyLen(req) - Pos
        /\ Pos <= Total
        /\ usbMsgFlags = ReplyFlags(req)
        /\ UsesUserRW(req) => currentAddress + bytesRemaining = ReportLen
    BY <1>1, <1>2, <1>3, <2>1, ReadKinds DEF ReadServed, ReadBlock, Reads
  <2>3. /\ got' = got \o usbTxBuf.bytes /\ expect' = Other(expect)
        /\ hst' = IF \/ Len(got') >= req.wLength
                     \/ Len(usbTxBuf.bytes) < PacketSize
                  THEN "statusOut" ELSE "in"
        /\ UNCHANGED <<req, sent, hostAddr, may>>
    BY <1>1, <1>3, <2>2 DEF Accept
  <2>4. /\ got' \in Seq(Byte) /\ Len(got') = Len(got) + Len(usbTxBuf.bytes)
        /\ \A i \in 1 .. Len(got') :
             got'[i] = IF i <= Len(got) THEN got[i] ELSE usbTxBuf.bytes[i - Len(got)]
    BY <1>1, <2>1, <2>3, ConcatProperties
  <2>5. ASSUME NEW k \in 1 .. Len(got') PROVE got'[k] = Content(k - 1)
    <3>1. CASE k <= Len(got)
      <4>1. k \in 1 .. Len(got)
        BY <2>1, <2>5, <3>1
      <4> QED
        BY <1>3, <2>4, <2>5, <3>1, <4>1 DEF Delivered
    <3>2. CASE ~(k <= Len(got))
      <4>1. k - Len(got) \in 1 .. Len(usbTxBuf.bytes)
        BY <1>1, <2>1, <2>4, <2>5, <3>2
      <4>2. got'[k] = Content(Len(got) + (k - Len(got)) - 1)
        BY <2>2, <2>4, <2>5, <3>2, <4>1
      <4>3. Len(got) + (k - Len(got)) - 1 = k - 1
        BY <2>1
      <4> QED
        BY <4>2, <4>3
    <3> QED
      BY <3>1, <3>2
  <2>6. Total \in Int /\ Total <= req.wLength /\ req.wLength \in Nat
    <3>1. ReplyLen(req) \in Nat /\ ReplyLen(req) <= req.wLength /\ req.wLength \in Nat
      BY <2>1, ReplyLenFits, RequestFields, UsbAssumption, ReadKinds
    <3> QED
      BY <3>1, UsbAssumption DEF Total, Least
  <2>7. hst' = "statusOut" => Len(got') = Total
    BY <1>1, <2>1, <2>2, <2>3, <2>4, <2>6
  <2> QED
    BY <1>1, <1>2, <1>3, <2>1, <2>2, <2>3, <2>4, <2>5, <2>7
<1>4. CASE hst = "statusIn"
  <2>1. /\ req \in Requests /\ req.bRequest \notin ReadRequests
        /\ got = <<>> /\ expect = "DATA1" /\ Len(got) = 0
        /\ req.bRequest = "SET_REPORT" => sent = req.wLength
    BY <1>4, EmptySeq DEF StageOfRequest, Types
  <2>2. usbTxBuf.pid = expect /\ usbTxBuf.bytes = <<>>
    <3>1. CASE Reads
      <4>1. usbTxBuf.pid = expect /\ Pos = Len(usbTxBuf.bytes) /\ Pos <= Total
        BY <1>1, <1>2, <1>4, <2>1, <3>1 DEF ReadServed, ReadBlock
      <4>2. Total = 0
        BY <2>1, <3>1, ReplyLenFits, RequestFields DEF Total, Reads
      <4> QED
        BY <1>1, <4>1, <4>2, EmptySeq
    <3>2. CASE ~Reads
      BY <1>1, <1>2, <1>4, <2>1, <3>2 DEF WriteServed
    <3> QED
      BY <3>1, <3>2
  <2>3. Done
    BY <1>1, <1>4, <2>2 DEF Accept
  <2>4. /\ req.bRequest = "SET_ADDRESS" => usbNewDeviceAddr = req.value
        /\ req.bRequest # "SET_ADDRESS" => usbNewDeviceAddr = usbDeviceAddr
    BY <1>1, <1>4 DEF AddressPrepared
  <2>5. ASSUME req.bRequest = "SET_REPORT"
        PROVE  req.wLength = ReportLen /\ \A k \in Place : eeprom[k] = <<k, req.value>>
    <3>1. /\ currentAddress + bytesRemaining = ReportLen /\ bytesRemaining = 0
          /\ currentAddress = sent
          /\ \A k \in 0 .. currentAddress - 1 : eeprom[k] = <<k, req.value>>
      BY <1>1, <1>2, <1>4, <2>5 DEF WriteServed, Reads
    <3>2. currentAddress = ReportLen
      BY <3>1, UsbAssumption DEF Types, TypeOK
    <3> QED
      BY <2>1, <2>5, <3>1, <3>2 DEF Place
  <2> QED
    BY <1>1, <1>2, <1>4, <2>1, <2>2, <2>3, <2>4, <2>5
<1> QED
  BY <1>1, <1>3, <1>4

\* The block is sent and counts as sent at once, or nothing is.
LEMMA HostInPreserves == IInv /\ HostIn => IInv'
<1>0. SUFFICES ASSUME IInv, HostIn PROVE IInv'
  OBVIOUS
<1> USE DEF IInv, rxvars, txvars, addrs, msg, report, stage, host
<1>a. /\ usbRxBuf' \in [{0, 1} -> Packet] /\ DOMAIN usbRxBuf' = {0, 1}
      /\ data' = data
      /\ Holds("SETUP")' <=> Holds("SETUP")
      /\ Holds("OUT")' <=> Holds("OUT")
      /\ UNCHANGED <<usbRxLen, usbRxToken, usbInputBufOffset, usbTxBuf, usbNewDeviceAddr, pc,
                     msg, report, line>>
  BY <1>0, TokenReceived DEF HostIn, HandleIn
<1>b. CASE ~SendsData
  <2>1. UNCHANGED <<usbTxLen, usbDeviceAddr, host>>
    BY <1>0, <1>b DEF HostIn, HandleIn
  <2>9. usbCurrentTok' \in {usbCurrentTok, "none"} /\ hst \in {"in", "statusIn"}
    BY <1>0, <1>b DEF HostIn, HandleIn
  <2>2. TypeOK'
    BY <1>0, <1>a, <2>1, <2>9 DEF Types, TypeOK
  <2>3. Types'
    BY <1>0, <1>a, <2>1, <2>2 DEF Types
  <2>4. PollConsistent' /\ TokenHeard' /\ WriteInPlace'
    BY <1>0, <1>a, <2>1, <2>9 DEF PollConsistent, TokenHeard, WriteInPlace
  <2>5. AddressPrepared' /\ StageOfRequest'
    BY <1>0, <1>a, <2>1 DEF AddressPrepared, AddressAgrees, StageOfRequest
  <2>6. ReadServed'
    BY <1>0, <1>a, <2>1 DEF ReadServed, ReadBlock, Ready, Reads, Pos, Total, Content
  <2>7. Delivered' /\ ReportMatches' /\ PatientHost'
    BY <1>0, <1>a, <2>1, <2>9 DEF Delivered, Total, Content, ReportMatches, PatientHost
  <2>8. WriteServed'
    BY <1>0, <1>a, <2>1 DEF WriteServed, Ready, Reads
  <2> QED
    BY <2>3, <2>4, <2>5, <2>6, <2>7, <2>8
<1>c. CASE SendsData
  <2>a. /\ usbRxLen = 0 /\ Ready /\ ~Ready' /\ usbTxBuf.pid = expect
        /\ usbDeviceAddr' = usbNewDeviceAddr /\ usbTxLen' = USBPID_NAK
        /\ pc \notin {"process", "setup", "release", "build", "commit"}
        /\ Len(usbTxBuf.bytes) \in Nat
    BY <1>0, <1>c, DataSent
  <2>b. usbCurrentTok' = "none" /\ ~Holds("SETUP")' /\ ~Holds("OUT")'
    BY <1>0, <1>a, <1>c, <2>a DEF HostIn, HandleIn, Holds
  <2>c. TypeOK'
    BY <1>0, <1>a, <2>a, <2>b DEF Types, TypeOK
  <2>d. PollConsistent' /\ WriteInPlace' /\ TokenHeard'
    BY <1>0, <1>a, <2>a, <2>b DEF PollConsistent, WriteInPlace, TokenHeard
  <2>e. hst # "reset" /\ line = "idle" /\ usbDeviceAddr = hostAddr
    <3>1. hst # "reset"
      BY <1>0 DEF HostIn
    <3> QED
      BY <1>0, <3>1 DEF AddressPrepared, AddressAgrees
  <2>1. CASE hst = "in"
    <3>1. /\ req.bRequest \in ReadRequests
          /\ got' \in Seq(Byte) /\ Len(got') = Pos
          /\ \A k \in 1 .. Len(got') : got'[k] = Content(k - 1)
          /\ expect' = Other(expect) /\ hst' \in {"statusOut", "in"}
          /\ hst' = "statusOut" => Len(got') = Total
          /\ hst' = "in" => usbMsgLen = ReplyLen(req) - Pos
          /\ Pos <= Total
          /\ usbMsgFlags = ReplyFlags(req)
          /\ UsesUserRW(req) => currentAddress + bytesRemaining = ReportLen
          /\ UNCHANGED <<req, sent, hostAddr, may>>
      BY <1>0, <1>c, <2>1, DataSent
    <3>2. usbNewDeviceAddr = usbDeviceAddr
      BY <1>0, <2>1 DEF AddressPrepared
    <3>3. /\ Pos' = Pos /\ Total' = Total /\ \A k : Content(k)' = Content(k)
      BY <1>a, <3>1 DEF Pos, Total, Content
    <3>4. Types'
      BY <1>0, <1>a, <2>c, <3>1 DEF Types, Stages, Other
    <3>5. AddressPrepared'
      BY <1>0, <1>a, <2>a, <2>b, <2>e, <3>1, <3>2 DEF AddressPrepared, AddressAgrees
    <3>6. StageOfRequest'
      BY <1>0, <2>1, <3>1 DEF StageOfRequest
    <3>7. ReadServed'
      <4> SUFFICES ASSUME hst' = "in" PROVE ReadServed'
        BY <3>1 DEF ReadServed
      <4>1. usbTxBuf'.pid # expect'
        BY <1>0, <1>a, <2>a, <3>1 DEF Other, Types
      <4> QED
        BY <1>a, <2>a, <2>b, <3>1, <3>3, <4>1 DEF ReadServed, ReadBlock
    <3>8. Delivered'
      BY <1>a, <2>a, <3>1, <3>3 DEF Delivered
    <3>9. WriteServed' /\ ReportMatches'
      BY <1>0, <1>a, <3>1 DEF WriteServed, ReportMatches
    <3>10. PatientHost'
      BY <1>a, <2>a, <3>1 DEF PatientHost
    <3> QED
      BY <2>d, <3>4, <3>5, <3>6, <3>7, <3>8, <3>9, <3>10
  <2>2. CASE hst = "statusIn"
    <3>1. /\ Done
          /\ req.bRequest = "SET_ADDRESS" => usbNewDeviceAddr = req.value
          /\ req.bRequest # "SET_ADDRESS" => usbNewDeviceAddr = usbDeviceAddr
          /\ req.bRequest = "SET_REPORT" =>
                /\ req.wLength = ReportLen
                /\ \A k \in Place : eeprom[k] = <<k, req.value>>
      BY <1>0, <1>c, <2>2, DataSent
    <3>2. /\ hst' = "idle" /\ req' = NoRequest /\ got' = <<>> /\ sent' = 0 /\ expect' = "DATA1"
          /\ hostAddr' = usbNewDeviceAddr
      BY <2>e, <3>1 DEF Done
    <3>3. /\ may' \in [Place -> SUBSET Versions] /\ ReportMatches'
      <4>1. req \in Requests
        BY <1>0, <2>2 DEF StageOfRequest, Types
      <4>2. CASE req.bRequest = "SET_REPORT"
        <5>1. \A k \in Place : k < req.wLength
          BY <3>1, <4>2, UsbAssumption DEF Place
        <5>2. may' = [k \in Place |-> {req.value}]
          BY <3>1, <4>2, <5>1 DEF Done
        <5>3. req.value \in Versions
          BY <4>1, <4>2, RequestFields
        <5> QED
          BY <1>a, <3>1, <4>2, <5>2, <5>3 DEF ReportMatches
      <4>3. CASE req.bRequest # "SET_REPORT"
        <5>1. may' = may
          BY <1>0, <3>1, <4>3 DEF Done, Types
        <5> QED
          BY <1>0, <1>a, <5>1 DEF ReportMatches, Types
      <4> QED
        BY <4>2, <4>3
    <3>4. Types'
      <4>1. <<>> \in Seq(Byte)
        BY EmptySeq
      <4>2. usbNewDeviceAddr \in {0} \cup Addrs
        BY <1>0 DEF Types, TypeOK
      <4>3. /\ usbTxBuf' \in Block /\ eeprom' \in [Place -> Byte]
        BY <1>0, <1>a DEF Types
      <4>4. hst' \in Stages /\ req' \in Requests \cup {NoRequest} /\ got' \in Seq(Byte)
            /\ sent' \in Nat /\ expect' \in {"DATA0", "DATA1"} /\ hostAddr' \in {0} \cup Addrs
        BY <3>2, <4>1, <4>2 DEF Stages
      <4> QED
        BY <1>a, <2>c, <3>3, <4>3, <4>4 DEF Types
    <3>5. AddressPrepared'
      BY <1>0, <1>a, <2>a, <2>b, <2>e, <3>2 DEF AddressPrepared, AddressAgrees
    <3>6. StageOfRequest'
      BY <3>2 DEF StageOfRequest, NoRequest
    <3>7. ReadServed' /\ Delivered' /\ WriteServed'
      BY <3>2 DEF ReadServed, Delivered, WriteServed
    <3>8. PatientHost'
      BY <1>a, <2>a, <3>2 DEF PatientHost
    <3> QED
      BY <2>d, <3>3, <3>4, <3>5, <3>6, <3>7, <3>8
  <2> QED
    BY <1>0, <2>1, <2>2 DEF HostIn
<1> QED
  BY <1>b, <1>c

\* The data packet of a write.
LEMMA OutPacket ==
  ASSUME IInv, hst = "outData"
  PROVE  LET n == Least(PacketSize, req.wLength - sent)
         IN  DataPacket([i \in 1 .. n |-> <<sent + i - 1, req.value>>]) \in Packet
<1> DEFINE n     == Least(PacketSize, req.wLength - sent)
           bytes == [i \in 1 .. n |-> <<sent + i - 1, req.value>>]
<1>1. req \in Requests /\ req.bRequest = "SET_REPORT" /\ sent \in Nat /\ sent < req.wLength
  BY DEF IInv, StageOfRequest, Types
<1>2. req.wLength \in 1 .. ReportLen /\ req.value \in Nat
  BY <1>1, RequestFields, ConstantTypes
<1>3. n \in Nat /\ n <= 8
  BY <1>1, <1>2, UsbAssumption DEF Least
<1>4. bytes \in [1 .. n -> Byte]
  BY <1>1, <1>2, <1>3 DEF Byte
<1> HIDE DEF n, bytes
<1>5. bytes \in Seq(Byte) /\ Len(bytes) = n
  BY <1>3, <1>4, FunctionSeq, Zenon
<1>6. DataPacket(bytes) \in Packet
  BY <1>3, <1>5, PacketTypes
<1> QED
  BY <1>6 DEF n, bytes

-----------------------------------------------------------------------------
(* The invariant. *)

\* The invariant holds when the device starts.
LEMMA InitIInv == Init => IInv
<1> SUFFICES ASSUME Init PROVE IInv
  OBVIOUS
<1> USE DEF Init
<1>1. PICK v \in Versions : /\ eeprom = [k \in Place |-> <<k, v>>]
                            /\ may = [k \in Place |-> {v}]
  OBVIOUS
<1>2. <<>> \in Seq(Byte) /\ Len(<<>>) = 0
  BY EmptySeq
<1>3. v \in Nat /\ \A k \in Place : k \in Nat
  BY ConstantTypes DEF Place
<1>4. /\ usbRxBuf \in [{0, 1} -> Packet] /\ usbTxBuf \in Block /\ Len(usbTxBuf.bytes) = 0
      /\ usbTxBuf.pid = "DATA0"
  BY <1>2, PacketTypes DEF Block
<1>5. Types
  <2>1. TypeOK
    BY <1>4, UsbAssumption DEF TypeOK
  <2>2. eeprom \in [Place -> Byte] /\ may \in [Place -> SUBSET Versions]
    BY <1>1, <1>3 DEF Byte
  <2>3. hst \in Stages /\ expect \in {"DATA0", "DATA1"} /\ got \in Seq(Byte) /\ sent \in Nat
    BY <1>2 DEF Stages
  <2> QED
    BY <1>4, <2>1, <2>2, <2>3 DEF Types
<1>6. PollConsistent /\ TokenHeard /\ WriteInPlace
  BY DEF PollConsistent, TokenHeard, WriteInPlace, Holds
<1>7. AddressPrepared /\ StageOfRequest
  BY DEF AddressPrepared, AddressAgrees, StageOfRequest, NoRequest, Holds
<1>8. ReadServed /\ Delivered /\ WriteServed /\ PatientHost
  BY DEF ReadServed, Delivered, WriteServed, PatientHost
<1>9. ReportMatches
  BY <1>1 DEF ReportMatches
<1> QED
  BY <1>5, <1>6, <1>7, <1>8, <1>9 DEF IInv

\* Every step of usbPoll and of the interrupt routine preserves it.
LEMMA NextIInv == IInv /\ [Next]_vars => IInv'
<1> SUFFICES ASSUME IInv, [Next]_vars PROVE IInv'
  OBVIOUS
<1>1. CASE UsbPoll
  BY <1>1, PollRxPreserves, BeginSetupPreserves, ProcessSetupPreserves, ProcessOutPreserves,
     ReleasePreserves, TxCheckPreserves, BuildTxBlockPreserves, CommitTxBlockPreserves,
     LineCheckPreserves, ResetAddressPreserves DEF UsbPoll
<1>2. CASE Host
  BY <1>2, HostSetupPreserves, HostSetupDataPreserves, HostInPreserves, HostOutPreserves,
     HostOutDataPreserves, HostStatusDataPreserves, HostResetEndsPreserves,
     OtherPacketPreserves, HostResetPreserves DEF Host, HostGoesOn
<1>3. CASE UNCHANGED vars
  <2> USE <1>3 DEF vars, rxvars, txvars, addrs, msg, report, stage, host, IInv
  <2>0. Types'
    BY DEF Types, TypeOK
  <2>1. PollConsistent' /\ TokenHeard' /\ WriteInPlace'
    BY DEF PollConsistent, TokenHeard, WriteInPlace, Holds, data
  <2>2. AddressPrepared' /\ StageOfRequest'
    BY DEF AddressPrepared, AddressAgrees, StageOfRequest, Holds, data
  <2>3. ReadServed' /\ Delivered'
    BY DEF ReadServed, ReadBlock, Delivered, Ready, Reads, Pos, Total, Content, Holds, data
  <2>4. WriteServed' /\ ReportMatches' /\ PatientHost'
    BY DEF WriteServed, ReportMatches, PatientHost, Ready, Reads, Holds, data
  <2> QED
    BY <2>0, <2>1, <2>2, <2>3, <2>4
<1> QED
  BY <1>1, <1>2, <1>3 DEF Next

\* So it holds in every reachable state.
THEOREM Invariance == Spec => []IInv
BY InitIInv, NextIInv, PTL DEF Spec

-----------------------------------------------------------------------------
(* What the host and usbPoll rely on. *)

\* Every variable keeps its type: no length leaves its 8 bits, no index its
\* buffer, whatever the host does and wherever it interrupts usbPoll.
THEOREM TypeCorrectness == Spec => []TypeOK
<1>1. IInv => TypeOK
  BY DEF IInv, Types
<1> QED
  BY <1>1, Invariance, PTL

\* A packet that usbPoll is working on is never overwritten.
THEOREM PacketNotOverwritten == Spec => RxStable
<1>1. IInv /\ [Next]_vars
        => [usbRxLen # 0 /\ usbRxLen' # 0 => /\ data' = data
                                             /\ usbRxToken' = usbRxToken]_vars
  <2> SUFFICES ASSUME IInv, Next, usbRxLen # 0, usbRxLen' # 0
               PROVE  data' = data /\ usbRxToken' = usbRxToken
    OBVIOUS
  <2> USE DEF rxvars
  <2>1. Types
    BY DEF IInv
  <2>2. ASSUME NEW p \in Packet, HandleData(p) PROVE data' = data /\ usbRxToken' = usbRxToken
    <3>1. ~Stored(p)
      BY DEF Stored, Answer
    <3>2. Receive(p) /\ usbInputBufOffset' = usbInputBufOffset /\ usbRxToken' = usbRxToken
      BY <2>2, <3>1 DEF HandleData
    <3> QED
      BY <2>1, <3>2, ReceiveKeepsData
  <2>3. ASSUME Receive(Token), usbInputBufOffset' = usbInputBufOffset PROVE data' = data
    BY <2>1, <2>3, PacketTypes, ReceiveKeepsData
  <2>4. CASE UsbPoll
    BY <2>4 DEF UsbPoll, PollRx, BeginSetup, ProcessSetup, ProcessOut, Release, TxCheck,
                BuildTxBlock, CommitTxBlock, LineCheck, ResetAddress, data
  <2>5. CASE HostSetup \/ HostOut
    BY <2>3, <2>5 DEF HostSetup, HostOut, HandleToken
  <2>6. CASE HostIn
    BY <2>3, <2>6 DEF HostIn, HandleIn
  <2>7. CASE OtherPacket
    BY <2>3, <2>7 DEF OtherPacket
  <2>8. CASE HostSetupData
    <3>1. SetupPacket(req) \in Packet
      BY <2>8, PacketTypes DEF HostSetupData, IInv, StageOfRequest, Types
    <3> QED
      BY <2>2, <2>8, <3>1 DEF HostSetupData
  <2>9. CASE HostOutData
    <3>1. PICK p \in Packet : HandleData(p)
      BY <2>9, OutPacket DEF HostOutData
    <3> QED
      BY <2>2, <3>1
  <2>10. CASE HostStatusData
    BY <2>2, <2>10, PacketTypes DEF HostStatusData, Token
  <2>11. CASE HostReset \/ HostResetEnds
    BY <2>11 DEF HostReset, HostResetEnds, data
  <2> QED
    BY <2>4, <2>5, <2>6, <2>7, <2>8, <2>9, <2>10, <2>11 DEF Next, Host, HostGoesOn
<1> QED
  BY <1>1, Invariance, PTL DEF Spec, RxStable

\* The device answers at the host's address, with no moment between the status
\* stage of SET_ADDRESS and the change.
THEOREM AddressChangesWithStatus == Spec => []AddressAgrees
<1>1. IInv => AddressAgrees
  BY DEF IInv, AddressPrepared
<1> QED
  BY <1>1, Invariance, PTL

\* The report in the EEPROM has no byte that the host did not write there, also
\* after transfers that it gave up.
THEOREM ReportIntact == Spec => []ReportMatches
<1>1. IInv => ReportMatches
  BY DEF IInv
<1> QED
  BY <1>1, Invariance, PTL

\* The length of what the host has of a reply is within the reply.
LEMMA GotWithinReply ==
  ASSUME IInv
  PROVE  /\ Len(got) \in Nat /\ DOMAIN got = 1 .. Len(got)
         /\ got # <<>> => /\ req \in Requests
                          /\ req.bRequest \in ReadRequests
                          /\ hst \in {"in", "statusOut", "statusData"}
                          /\ Len(got) <= Total
<1> USE DEF IInv
<1>1. got \in Seq(Byte) /\ Len(got) \in Nat /\ DOMAIN got = 1 .. Len(got)
  BY LenProperties DEF Types
<1>2. ASSUME got # <<>>
      PROVE  /\ req \in Requests /\ req.bRequest \in ReadRequests
             /\ hst \in {"in", "statusOut", "statusData"}
  <2>1. hst \notin {"idle", "setup", "retry", "reset", "out", "outData", "statusIn"}
    BY <1>2, ReadKinds DEF StageOfRequest
  <2>2. hst \in {"in", "statusOut", "statusData"}
    BY <2>1 DEF Types, Stages
  <2> QED
    BY <2>2 DEF StageOfRequest, Types
<1>3. ASSUME got # <<>> PROVE Len(got) <= Total
  <2>1. CASE hst \in {"statusOut", "statusData"}
    BY <1>1, <2>1 DEF Delivered
  <2>2. CASE hst = "in"
    <3>1. Pos <= Total /\ ReadBlock
      BY <1>2, <1>3, <2>2, ReadKinds DEF ReadServed, Reads
    <3>2. Len(usbTxBuf.bytes) \in Nat
      BY BlockFields DEF Types
    <3>3. ReplyLen(req) \in Nat
      BY <1>2, <1>3, ReplyLenFits, UsbAssumption
    <3>4. Total \in Int /\ Pos \in Int
      BY <3>3, UsbAssumption DEF Total, Least, Pos, Types, TypeOK
    <3>5. Pos = Len(got) + Len(usbTxBuf.bytes) \/ Pos = Len(got)
      BY <3>1, Zenon DEF ReadBlock
    <3>6. \A n, m \in Nat, p, t \in Int : p <= t /\ (p = n + m \/ p = n) => n <= t
      OBVIOUS
    <3> QED
      BY <1>1, <3>1, <3>2, <3>4, <3>5, <3>6, Zenon
  <2> QED
    BY <1>2, <1>3, <2>1, <2>2
<1> QED
  BY <1>1, <1>2, <1>3

\* The bytes that the host receives are those of what it asked for, in order,
\* also when it gave up an earlier transfer with a block ready.
THEOREM ReadsInOrder == Spec => []RepliesInOrder
<1>1. IInv => RepliesInOrder
  <2> SUFFICES ASSUME IInv, NEW k \in DOMAIN got
               PROVE  got[k] \in
                        IF req.bRequest = "GET_REPORT" THEN {k - 1} \X may[k - 1]
                        ELSE IF req.bRequest = "GET_DESCRIPTOR" THEN {<<k - 1, Rom>>}
                        ELSE IF req.bRequest \in RamReads THEN {<<k - 1, Ram>>} ELSE {}
    BY DEF RepliesInOrder
  <2>1. Len(got) \in Nat /\ k \in 1 .. Len(got) /\ got # <<>>
    BY GotWithinReply, EmptySeq
  <2>2. /\ req \in Requests /\ req.bRequest \in ReadRequests
        /\ hst \in {"in", "statusOut", "statusData"} /\ Len(got) <= Total
    BY <2>1, GotWithinReply
  <2>3. got[k] = Content(k - 1)
    BY <2>1, <2>2 DEF IInv, Delivered
  <2>4. CASE req.bRequest \in ReadRequests \ {"GET_REPORT"}
    BY <2>3, <2>4, UsbAssumption DEF Content, ReadRequests, ByteAt, ReplyFlags, UsesUserRW
  <2>5. CASE req.bRequest = "GET_REPORT"
    <3>1. ReplyLen(req) \in Nat
      BY <2>2, ReplyLenFits, UsbAssumption
    <3>2. k - 1 \in Place
      BY <2>1, <2>2, <2>5, <3>1, UsbAssumption DEF Total, Least, Place
    <3>3. eeprom[k - 1] \in {k - 1} \X may[k - 1]
      BY <3>2 DEF IInv, ReportMatches
    <3> QED
      BY <2>3, <2>5, <3>3 DEF Content
  <2> QED
    BY <2>2, <2>4, <2>5
<1> QED
  BY <1>1, Invariance, PTL

\* How much a reply has when the host asks for no more than an unsigned char
\* counts.
LEMMA TotalIsOwed ==
  ASSUME NEW rq \in Requests, ReadLens \subseteq 1 .. NoMsg, req = rq,
         rq.bRequest \in ReadRequests
  PROVE  Total = Least(rq.wLength, Available(rq))
<1>1. CASE rq.bRequest = "GET_REPORT"
  <2>1. rq.wLength \in ReadLens
    BY <1>1, ReadKinds DEF Requests
  <2>2. rq.wLength \in 1 .. NoMsg
    BY <2>1, Zenon
  <2>3. rq.wLength <= NoMsg
    BY <2>2, UsbAssumption
  <2> QED
    BY <1>1, <2>3, ReplyLenFits DEF Total, Available
<1>2. CASE rq.bRequest # "GET_REPORT"
  BY <1>2, ReplyLenFits DEF Total
<1> QED
  BY <1>1, <1>2

\* A data stage that the device ended has all there is of what was asked for, if
\* the host asks for at most NoMsg bytes, the limit of the driver's lengths.
THEOREM ReadsComplete ==
  ASSUME ReadLens \subseteq 1 .. NoMsg
  PROVE  Spec => []RepliesComplete
<1>1. IInv => RepliesComplete
  <2> SUFFICES ASSUME IInv PROVE RepliesComplete
    OBVIOUS
  <2>1. CASE got = <<>> /\ hst \notin {"statusOut", "statusData"}
    <3>1. req.wLength \in Nat
      BY RequestFields DEF IInv, Types, NoRequest
    <3> QED
      BY <2>1, <3>1, EmptySeq DEF RepliesComplete
  <2>2. CASE got # <<>> \/ hst \in {"statusOut", "statusData"}
    <3>1. /\ req \in Requests /\ req.bRequest \in ReadRequests
          /\ Len(got) \in Nat /\ Len(got) <= Total
      <4>1. CASE got # <<>>
        BY <4>1, GotWithinReply
      <4>2. CASE hst \in {"statusOut", "statusData"}
        BY <4>2, GotWithinReply DEF IInv, StageOfRequest, Types, Delivered
      <4> QED
        BY <2>2, <4>1, <4>2
    <3>2. Total = Least(req.wLength, Available(req)) /\ Available(req) \in Nat
      BY <3>1, TotalIsOwed, UsbAssumption DEF Available
    <3>3. req.wLength \in Nat
      BY <3>1, RequestFields
    <3>4. Len(got) <= req.wLength
      BY <3>1, <3>2, <3>3, UsbAssumption DEF Least
    <3>5. hst \in {"statusOut", "statusData"} => Len(got) = Total
      BY DEF IInv, Delivered
    <3> QED
      BY <3>2, <3>4, <3>5 DEF RepliesComplete
  <2> QED
    BY <2>1, <2>2
<1> QED
  BY <1>1, Invariance, PTL

\* A host that finishes what it begins never has a SETUP refused: the condition
\* under which handleData may answer NAK cannot hold.
THEOREM SetupAccepted ==
  ASSUME Patient
  PROVE  Spec => []SetupNeverRefused
<1>1. IInv => SetupNeverRefused
  BY DEF IInv, PatientHost, SetupNeverRefused
<1> QED
  BY <1>1, Invariance, PTL

-----------------------------------------------------------------------------
(* Neither of the two waits for the other. *)

\* The device listens to the data packet of the stage that the host is in.
Listens ==
  /\ hst = "setup" => usbCurrentTok = "SETUP"
  /\ hst \in {"outData", "statusData"} => usbCurrentTok = "OUT"

\* Only a token, a block sent and a packet for another device change it, and
\* the host sends a token to the address that the device has.
LEMMA ListensPreserves == IInv /\ Listens /\ [Next]_vars => Listens'
<1>1. SUFFICES ASSUME IInv, Listens, [Next]_vars PROVE Listens'
  OBVIOUS
<1>2. CASE UsbPoll
  <2>1. UNCHANGED <<hst, usbCurrentTok>>
    BY <1>2 DEF UsbPoll, PollRx, BeginSetup, ProcessSetup, ProcessOut, Release, TxCheck,
                BuildTxBlock, CommitTxBlock, LineCheck, ResetAddress, rxvars, host, stage
  <2> QED
    BY <1>1, <2>1 DEF Listens
<1>3. CASE HostSetup \/ HostOut
  <2>1. hst # "reset"
    BY <1>3 DEF HostSetup, HostOut, MayBegin, Between
  <2>2. Addressed
    BY <1>1, <2>1 DEF IInv, AddressPrepared, AddressAgrees, Addressed
  <2> QED
    BY <1>3, <2>2 DEF HostSetup, HostOut, HandleToken, Listens
<1>4. CASE HostSetupData \/ HostOutData
  BY <1>4 DEF HostSetupData, HostOutData, FirstStage, Listens
<1>5. CASE HostIn
  <2>1. hst' \notin {"setup", "outData", "statusData"}
    BY <1>5 DEF HostIn, Accept, Done, host, stage
  <2> QED
    BY <2>1 DEF Listens
<1>6. CASE HostStatusData
  BY <1>6 DEF HostStatusData, Done, Listens
<1>7. CASE OtherPacket
  BY <1>7 DEF OtherPacket, Between, host, stage, Listens
<1>8. CASE HostReset \/ HostResetEnds
  BY <1>8 DEF HostReset, HostResetEnds, Listens
<1>9. CASE UNCHANGED vars
  BY <1>1, <1>9 DEF vars, rxvars, host, stage, Listens
<1> QED
  BY <1>1, <1>2, <1>3, <1>4, <1>5, <1>6, <1>7, <1>8, <1>9 DEF Next, Host, HostGoesOn

\* No reply's length is the one that means no message, if the host asks for less.
LEMMA ReplyIsMessage ==
  ASSUME NEW rq \in Requests, ReadLens \subseteq 1 .. NoMsg - 1, rq.bRequest # "SET_REPORT"
  PROVE  ReplyLen(rq) \in 0 .. NoMsg - 1
<1>1. CASE rq.bRequest = "GET_REPORT"
  <2>1. rq.wLength \in ReadLens
    BY <1>1, ReadKinds DEF Requests
  <2>2. rq.wLength \in 1 .. NoMsg - 1
    BY <2>1, Zenon
  <2> QED
    BY <1>1, <2>2, ReplyLenFits, UsbAssumption
<1>2. CASE rq.bRequest # "GET_REPORT"
  BY <1>2, ReplyLenFits, UsbAssumption
<1> QED
  BY <1>1, <1>2

\* A host that waits for the device, while usbPoll has no packet of its to
\* process, has its answer built or about to be.
LEMMA AnswerThere ==
  ASSUME IInv, ReadLens \subseteq 1 .. NoMsg - 1, WriteLens \subseteq {ReportLen},
         hst \in {"in", "statusIn"}, usbRxLen = 0
  PROVE  \/ Ready /\ usbTxBuf.pid = expect
         \/ ~Ready /\ usbMsgLen # NoMsg /\ Other(usbTxBuf.pid) = expect
<1>1. ~Holds("SETUP") /\ ~Holds("OUT")
  BY DEF Holds
<1>2. req \in Requests
  BY DEF IInv, Types, StageOfRequest
<1>3. usbTxBuf.pid \in {"DATA0", "DATA1"} /\ expect \in {"DATA0", "DATA1"}
  BY DEF IInv, Types, TypeOK
<1>4. CASE Reads
  <2>1. ReadBlock
    BY <1>1, <1>4 DEF IInv, ReadServed
  <2>2. CASE Ready
    BY <2>1, <2>2 DEF ReadBlock
  <2>3. CASE ~Ready
    <3>1. usbTxBuf.pid # expect /\ Pos = Len(got) /\ usbMsgLen = ReplyLen(req) - Pos
      BY <2>1, <2>3 DEF ReadBlock
    <3>2. Len(got) \in Nat
      BY LenProperties DEF IInv, Types
    <3>3. ReplyLen(req) \in 0 .. NoMsg - 1
      BY <1>2, <1>4, ReplyIsMessage DEF Reads
    <3>4. usbMsgLen # NoMsg
      BY <3>1, <3>2, <3>3, UsbAssumption
    <3> QED
      BY <1>3, <2>3, <3>1, <3>4 DEF Other
  <2> QED
    BY <2>2, <2>3
<1>5. CASE ~Reads
  <2>1. hst = "statusIn" /\ sent = req.wLength /\ expect = "DATA1"
    BY <1>5, ReadKinds DEF IInv, StageOfRequest, Reads
  <2>2. req.wLength = ReportLen
    <3>1. req.wLength \in WriteLens
      BY <1>2, <1>5, ReadKinds DEF Reads, Requests
    <3> QED
      BY <3>1
  <2>3. /\ currentAddress + bytesRemaining = ReportLen /\ currentAddress = sent
        /\ IF Ready THEN usbTxBuf.pid = "DATA1"
           ELSE /\ usbTxBuf.pid = "DATA0"
                /\ usbMsgLen = (IF bytesRemaining = 0 THEN 0 ELSE NoMsg)
    BY <1>1, <1>5, <2>1 DEF IInv, WriteServed
  <2>4. bytesRemaining = 0
    <3>1. bytesRemaining \in Int /\ ReportLen \in Nat
      BY UsbAssumption DEF IInv, Types, TypeOK
    <3> QED
      BY <2>1, <2>2, <2>3, <3>1
  <2>5. NoMsg # 0
    BY UsbAssumption
  <2> QED
    BY <2>1, <2>3, <2>4, <2>5 DEF Other
<1> QED
  BY <1>4, <1>5

\* Whatever the host waits for is built, or usbPoll has what it needs to get
\* there, and no data packet meets silence: also after transfers that were given
\* up and after bus resets, for hosts that ask for less than NoMsg bytes
\* (usbdrv.h:157) and write whole reports.
THEOREM NeverWaitsInVain ==
  ASSUME ReadLens \subseteq 1 .. NoMsg - 1, WriteLens \subseteq {ReportLen}
  PROVE  Spec => []AnswerOnItsWay
<1>1. Init => Listens
  BY DEF Init, Listens
<1>2. Spec => []Listens
  BY <1>1, ListensPreserves, Invariance, PTL DEF Spec
<1>3. IInv /\ Listens => AnswerOnItsWay
  <2>1. Listens => (hst \in {"setup", "outData", "statusData"} => Answer # "silence")
    BY DEF Listens, Answer
  <2> QED
    BY <2>1, AnswerThere DEF AnswerOnItsWay
<1> QED
  BY <1>2, <1>3, Invariance, PTL

-----------------------------------------------------------------------------
(* The driver implements the pipe, step by step.  Most steps change nothing *)
(* of it: those in which a packet travels and those that prepare a block.   *)

\* What has been received of a reply is its first bytes.
LEMMA GotIsFirst ==
  ASSUME req.bRequest \in ReadRequests,
         NEW s \in Seq(Byte), \A k \in 1 .. Len(s) : s[k] = Content(k - 1)
  PROVE  s = Pipe!First(Len(s))
<1>1. Len(s) \in Nat /\ s = [k \in 1 .. Len(s) |-> s[k]]
  BY LenProperties
<1>2. Pipe!First(Len(s)) = [k \in 1 .. Len(s) |-> Content(k - 1)]
  BY ReadKinds DEF Pipe!First, Content, ByteAt, ReplyFlags, UsesUserRW
<1> QED
  BY <1>1, <1>2

\* The length of the whole reply is the one that the pipe owes.
LEMMA OwedIsTotal ==
  ASSUME req \in Requests, ReadLens \subseteq 1 .. NoMsg
  PROVE  /\ req.bRequest \in ReadRequests => Pipe!Owed = Total
         /\ req.bRequest \notin ReadRequests => Pipe!Owed = 0
<1>1. CASE req.bRequest \in ReadRequests
  <2>1. Pipe!Available = Available(req)
    BY <1>1, UsbAssumption DEF Pipe!Available, Available, ReadRequests
  <2> QED
    BY <1>1, <2>1, TotalIsOwed, ReadKinds DEF Pipe!Owed, Least
<1>2. CASE req.bRequest \notin ReadRequests
  <2>1. req.wLength \in Nat
    BY RequestFields
  <2> QED
    <3>1. Pipe!Available = 0
      BY <1>2, UsbAssumption, RequestFields DEF Pipe!Available
    <3> QED
      BY <1>2, <2>1, <3>1, ReadKinds DEF Pipe!Owed
<1> QED
  BY <1>1, <1>2

\* The pipe starts as the driver does.
LEMMA PipeInit == Init => Pipe!Init
BY DEF Init, Pipe!Init, Pipe!Filled, Pipe!Place, Place

\* A write's packet makes the stored report grow.
LEMMA ProcessOutStores ==
  ASSUME IInv, Patient, ProcessOut
  PROVE  [Pipe!Next]_Pipe!vars
<1> USE DEF IInv, rxvars, txvars, addrs, msg, report, stage, host
<1>1. /\ Holds("OUT") /\ ~Holds("SETUP") /\ usbRxLen # 0
      /\ UNCHANGED <<req, got, usbDeviceAddr>>
  BY DEF ProcessOut, PollConsistent, Holds
<1>2. hst \in {"out", "outData", "statusIn"} /\ ~Reads
  <2>1. hst \in {"in", "out", "outData", "statusIn"}
    BY <1>1 DEF PatientHost, Types, Stages
  <2>2. hst = "in" => Reads
    BY ReadKinds DEF StageOfRequest, Reads
  <2>3. ~(hst \in {"in", "statusIn"} /\ Reads)
    BY <1>1 DEF ReadServed
  <2>4. hst \in {"out", "outData"} => ~Reads
    BY DEF StageOfRequest, Reads
  <2> QED
    BY <2>1, <2>2, <2>3, <2>4
<1>3. /\ req \in Requests /\ req.bRequest = "SET_REPORT" /\ req.wLength \in Nat
      /\ sent \in Nat /\ sent <= req.wLength
  <2>1. req \in Requests /\ req.bRequest = "SET_REPORT" /\ sent \in Nat
    BY <1>2 DEF StageOfRequest, Types, Reads
  <2>2. req.wLength \in Nat
    BY <2>1, RequestFields
  <2> QED
    BY <1>2, <2>1, <2>2 DEF StageOfRequest
<1>4. /\ currentAddress + data.len = sent /\ currentAddress + bytesRemaining = ReportLen
      /\ \A i \in 1 .. data.len : data.bytes[i] = <<currentAddress + i - 1, req.value>>
      /\ \A k \in 0 .. currentAddress - 1 : eeprom[k] = <<k, req.value>>
      /\ usbMsgFlags = "USE_USER_RW"
  BY <1>1, <1>2 DEF WriteServed
<1>5. currentAddress \in Nat /\ data.len \in Nat /\ currentAddress + data.len <= ReportLen
      /\ bytesRemaining \in Nat /\ ReportLen \in Nat
  BY <1>1, OtherHalf, PacketFields, UsbAssumption DEF WriteInPlace, Types, TypeOK
<1>6. Least(data.len, bytesRemaining) = data.len
  BY <1>4, <1>5 DEF Least
<1>7. eeprom' = [k \in Place |-> IF k \in currentAddress .. currentAddress + data.len - 1
                                 THEN data.bytes[k - currentAddress + 1] ELSE eeprom[k]]
  BY <1>4, <1>6 DEF ProcessOut
<1>8. eeprom' = [k \in Place |-> IF k < sent THEN <<k, req.value>> ELSE eeprom[k]]
  <2>1. ASSUME NEW k \in Place
        PROVE  (IF k \in currentAddress .. currentAddress + data.len - 1
                THEN data.bytes[k - currentAddress + 1] ELSE eeprom[k])
             = (IF k < sent THEN <<k, req.value>> ELSE eeprom[k])
    <3>1. CASE k < currentAddress
      <4>1. k \in 0 .. currentAddress - 1 /\ k < sent
            /\ k \notin currentAddress .. currentAddress + data.len - 1
        BY <1>4, <1>5, <3>1 DEF Place
      <4> QED
        BY <1>4, <4>1
    <3>2. CASE k >= currentAddress /\ k < sent
      <4>1. /\ k \in currentAddress .. currentAddress + data.len - 1
            /\ k - currentAddress + 1 \in 1 .. data.len
            /\ currentAddress + (k - currentAddress + 1) - 1 = k
        BY <1>4, <1>5, <3>2 DEF Place
      <4>2. data.bytes[k - currentAddress + 1] =
              <<currentAddress + (k - currentAddress + 1) - 1, req.value>>
        BY <1>4, <4>1
      <4> QED
        BY <3>2, <4>1, <4>2
    <3>3. CASE k >= sent
      BY <1>4, <1>5, <1>3, <3>3 DEF Place
    <3> QED
      BY <1>3, <1>5, <3>1, <3>2, <3>3 DEF Place
  <2> QED
    BY <1>7, <2>1
<1>9. CASE sent = 0
  <2>1. \A k \in Place : ~(k < sent)
    BY <1>9 DEF Place
  <2>2. eeprom' = eeprom
    BY <1>8, <2>1 DEF Types
  <2> QED
    BY <1>1, <2>2 DEF Pipe!vars
<1>10. CASE sent # 0
  <2>1. sent \in 1 .. req.wLength
    BY <1>3, <1>10
  <2>2. Pipe!Store
    BY <1>1, <1>3, <1>8, <2>1 DEF Pipe!Store, Pipe!Place, Place
  <2> QED
    BY <2>2 DEF Pipe!Next
<1> QED
  BY <1>9, <1>10

\* A block delivers a part of the reply; the empty one ends the transfer.
LEMMA HostInDelivers ==
  ASSUME IInv, HostIn, ReadLens \subseteq 1 .. NoMsg
  PROVE  [Pipe!Next]_Pipe!vars
<1> USE DEF IInv, rxvars, txvars, addrs, msg, report, stage, host
<1>1. CASE ~SendsData
  BY <1>1 DEF HostIn, HandleIn, Pipe!vars
<1>2. CASE SendsData /\ hst = "in"
  <2>1. /\ req.bRequest \in ReadRequests /\ req \in Requests
        /\ got' = got \o usbTxBuf.bytes /\ got' \in Seq(Byte) /\ Len(got') = Pos
        /\ \A k \in 1 .. Len(got') : got'[k] = Content(k - 1)
        /\ Pos <= Total /\ req' = req
        /\ eeprom' = eeprom
    BY <1>2, DataSent DEF StageOfRequest, Types, HostIn
  <2>2. usbDeviceAddr' = usbDeviceAddr
    BY <1>2, DataSent DEF AddressPrepared
  <2>3. got \in Seq(Byte) /\ usbTxBuf.bytes \in Seq(Byte)
    BY BlockFields DEF Types
  <2>4. CASE usbTxBuf.bytes = <<>>
    <3>1. got' = got
      BY <2>1, <2>3, <2>4, ConcatEmptySeq
    <3> QED
      BY <2>1, <2>2, <3>1 DEF Pipe!vars
  <2>5. CASE usbTxBuf.bytes # <<>>
    <3>1. Len(got) \in Nat /\ Len(got') \in Nat /\ Len(got') > Len(got)
      <4>1. Len(got) \in Nat /\ Len(usbTxBuf.bytes) \in Nat \ {0}
        BY <2>3, <2>5, EmptySeq, LenProperties
      <4>2. Len(got') = Len(got) + Len(usbTxBuf.bytes)
        BY <2>1, <2>3, ConcatProperties
      <4> QED
        BY <4>1, <4>2
    <3>2. Pipe!Owed = Total
      BY <2>1, OwedIsTotal
    <3>3. ReplyLen(req) \in Nat
      BY <2>1, ReplyLenFits, UsbAssumption
    <3>4. Len(got') \in Len(got) + 1 .. Pipe!Owed
      BY <2>1, <3>1, <3>2, <3>3, UsbAssumption DEF Total, Least
    <3>5. got' = Pipe!First(Len(got'))
      BY <2>1, GotIsFirst
    <3>6. Pipe!Deliver
      BY <2>1, <2>2, <3>4, <3>5 DEF Pipe!Deliver
    <3> QED
      BY <3>6 DEF Pipe!Next
  <2> QED
    BY <2>4, <2>5
<1>3. CASE SendsData /\ hst # "in"
  <2>1. /\ Done /\ got = <<>> /\ eeprom' = eeprom
        /\ req.bRequest \notin ReadRequests
        /\ usbDeviceAddr' = usbNewDeviceAddr
        /\ req.bRequest = "SET_ADDRESS" => usbNewDeviceAddr = req.value
        /\ req.bRequest # "SET_ADDRESS" => usbNewDeviceAddr = usbDeviceAddr
        /\ req.bRequest = "SET_REPORT" =>
              /\ req.wLength = ReportLen
              /\ \A k \in Place : eeprom[k] = <<k, req.value>>
    BY <1>3, DataSent DEF HostIn
  <2>2. req \in Requests /\ req # NoRequest
    BY <1>3, RequestFields DEF HostIn, StageOfRequest, Types
  <2>3. Len(got) = Pipe!Owed
    BY <2>1, <2>2, OwedIsTotal, EmptySeq
  <2>4. req.bRequest = "SET_REPORT" => \A k \in 0 .. req.wLength - 1 : eeprom[k][2] = req.value
    BY <2>1 DEF Place
  <2>5. Pipe!Finish
    BY <2>1, <2>2, <2>3, <2>4 DEF Pipe!Finish, Done
  <2> QED
    BY <2>5 DEF Pipe!Next
<1> QED
  BY <1>1, <1>2, <1>3

\* The host's own status stage ends a read that gave all that was owed.
LEMMA HostStatusFinishes ==
  ASSUME IInv, HostStatusData, ReadLens \subseteq 1 .. NoMsg
  PROVE  [Pipe!Next]_Pipe!vars
<1> USE DEF IInv, rxvars, txvars, addrs, msg, report, stage, host
<1>1. UNCHANGED <<eeprom, usbDeviceAddr>>
  BY DEF HostStatusData
<1>2. CASE Answer = "ACK"
  <2>1. /\ req \in Requests /\ req.bRequest \in ReadRequests
        /\ Len(got) = Total /\ Done
    BY <1>2 DEF HostStatusData, StageOfRequest, Types, Delivered
  <2>2. req # NoRequest
    BY <2>1, RequestFields
  <2>3. Pipe!Finish
    BY <1>1, <2>1, <2>2, OwedIsTotal, ReadKinds DEF Pipe!Finish, Done
  <2> QED
    BY <2>3 DEF Pipe!Next
<1>3. CASE Answer # "ACK"
  BY <1>1, <1>3 DEF HostStatusData, Pipe!vars
<1> QED
  BY <1>2, <1>3

\* A bus reset takes the address back when no request is served.
LEMMA ResetAddressResets ==
  ASSUME IInv, ResetAddress
  PROVE  [Pipe!Next]_Pipe!vars
<1> USE DEF IInv, ResetAddress, rxvars, txvars, addrs, msg, report, stage, host
<1>1. CASE hst = "reset"
  <2>1. req = NoRequest
    BY <1>1 DEF StageOfRequest
  <2>2. Pipe!Reset
    BY <2>1 DEF Pipe!Reset
  <2> QED
    BY <2>2 DEF Pipe!Next
<1>2. CASE hst # "reset"
  <2>1. usbDeviceAddr = 0
    BY <1>2 DEF AddressPrepared, AddressAgrees
  <2> QED
    BY <2>1 DEF Pipe!vars
<1> QED
  BY <1>1, <1>2

\* The host's steps that begin a transfer or reset the bus.
LEMMA HostBegins ==
  ASSUME IInv, Patient, HostSetup \/ HostReset
  PROVE  [Pipe!Next]_Pipe!vars
<1> USE DEF IInv, rxvars, txvars, addrs, msg, report, stage, host
<1>1. hst = "idle" /\ req = NoRequest /\ got = <<>>
  <2>1. hst = "idle"
    BY DEF HostSetup, MayBegin, HostReset, PatientHost
  <2> QED
    BY <2>1 DEF StageOfRequest
<1>2. CASE HostSetup
  <2>1. Pipe!Begin
    BY <1>1, <1>2 DEF HostSetup, Pipe!Begin
  <2> QED
    BY <2>1 DEF Pipe!Next
<1>3. CASE HostReset
  BY <1>1, <1>3 DEF HostReset, Pipe!vars
<1> QED
  BY <1>2, <1>3

\* To a patient host that asks for at most NoMsg bytes the driver is the pipe:
\* every step of usbPoll, of the interrupt routine and of the host is a step of
\* the pipe or leaves it as it is.
THEOREM DriverImplementsPipe ==
  ASSUME Patient, ReadLens \subseteq 1 .. NoMsg
  PROVE  Spec => ImplementsControlPipe
<1>1. IInv /\ [Next]_vars => [Pipe!Next]_Pipe!vars
  <2> SUFFICES ASSUME IInv, [Next]_vars PROVE [Pipe!Next]_Pipe!vars
    OBVIOUS
  <2> USE DEF rxvars, txvars, addrs, msg, report, stage, host
  <2>1. CASE PollRx \/ BeginSetup \/ ProcessSetup \/ Release \/ TxCheck \/ BuildTxBlock
             \/ CommitTxBlock \/ LineCheck
    BY <2>1 DEF PollRx, BeginSetup, ProcessSetup, Release, TxCheck, BuildTxBlock,
                CommitTxBlock, LineCheck, Pipe!vars
  <2>2. CASE ProcessOut
    BY <2>2, ProcessOutStores
  <2>3. CASE ResetAddress
    BY <2>3, ResetAddressResets
  <2>4. CASE HostSetup \/ HostReset
    BY <2>4, HostBegins
  <2>5. CASE HostIn
    BY <2>5, HostInDelivers
  <2>6. CASE HostStatusData
    BY <2>6, HostStatusFinishes
  <2>7. CASE HostSetupData \/ HostOut \/ HostOutData \/ OtherPacket \/ HostResetEnds
    BY <2>7 DEF HostSetupData, HostOut, HostOutData, OtherPacket, HostResetEnds, Pipe!vars
  <2>8. CASE UNCHANGED vars
    BY <2>8 DEF vars, Pipe!vars
  <2> QED
    BY <2>1, <2>2, <2>3, <2>4, <2>5, <2>6, <2>7, <2>8 DEF Next, UsbPoll, Host, HostGoesOn
<1> QED
  BY <1>1, PipeInit, Invariance, PTL DEF Spec, ImplementsControlPipe, Pipe!Spec

=============================================================================
