------------------------------ MODULE UsbDriver ------------------------------
(***************************************************************************)
(* The USB HID port: the V-USB driver's interrupt routine (asmcommon.inc,  *)
(* usbdrvasm16.inc) and its C part usbPoll (usbdrv.c), which the main loop *)
(* calls and the interrupt routine preempts anywhere, with the feature     *)
(* report handlers of USBPort.cpp.  The host that drives control transfers *)
(* on endpoint 0 is the environment.                                       *)
(*                                                                         *)
(* A packet of the host and what the interrupt routine does about it is    *)
(* one step; usbPoll is cut at every access to what the two share.  The    *)
(* bus loses and garbles nothing: "the rest of the driver assumes          *)
(* error-free transfers anyway" (asmcommon.inc).  A byte is a pair of its  *)
(* place in the report or reply and the version that was written.          *)
(***************************************************************************)
EXTENDS Integers, Sequences

CONSTANTS
  PacketSize,   \* most bytes in a data packet (8 on the device)
  ReportLen,    \* bytes of the feature report (128)
  DescrLen,     \* bytes of a descriptor
  NoMsg,        \* USB_NO_MSG, the largest usbMsgLen_t (255)
  Versions,     \* what the host writes into the report
  Addrs,        \* addresses the host assigns
  RamReads,     \* standard requests of the host that are answered from RAM
  ReadLens, WriteLens, DescrLens, RamLens,  \* wLength of the requests
  Patient       \* the host never gives up on a transfer

ASSUME UsbAssumption ==
  /\ PacketSize \in 1 .. 8 /\ ReportLen \in Nat \ {0} /\ DescrLen \in Nat \ {0, 1}
  /\ NoMsg \in Nat /\ ReportLen < NoMsg /\ DescrLen < NoMsg
  /\ Versions \subseteq Nat /\ Versions # {}
  /\ Addrs \subseteq Nat
  /\ ReadLens \subseteq Nat \ {0} /\ DescrLens \subseteq Nat \ {0}
  /\ RamLens \subseteq Nat \ {0}
  /\ RamReads \subseteq {"GET_STATUS", "GET_CONFIGURATION", "GET_INTERFACE"}
  /\ WriteLens \subseteq 1 .. ReportLen
  /\ Patient \in BOOLEAN

VARIABLES
  (* Shared by the interrupt routine and usbPoll. *)
  usbRxLen,          \* 0: the receive buffer is free; else payload + 3
  usbRxToken,        \* the token that preceded the stored packet
  usbCurrentTok,     \* the token last heard; "none" ignores the next data
  usbInputBufOffset, \* which half of usbRxBuf the next packet goes to
  usbRxBuf,
  usbTxLen,          \* a handshake token, or the length of the block to send
  usbTxBuf,
  usbDeviceAddr, usbNewDeviceAddr,
  (* usbPoll and the report handlers. *)
  pc,
  usbMsgLen,         \* bytes left to send, or NoMsg
  usbMsgFlags,       \* where they come from
  usbMsgPtr,
  currentAddress, bytesRemaining,
  eeprom,
  (* The host and the bus. *)
  hst,               \* the host's place in the transfer
  req,               \* its request
  got,               \* bytes received in the data stage
  sent,              \* bytes of the data stage acknowledged by the device
  expect,            \* the data token the host expects
  hostAddr,          \* the address the host uses for the device
  may,               \* the versions that each byte of the report may have
  line               \* "idle", or how much of a bus reset usbPoll has seen

rxvars == <<usbRxLen, usbRxToken, usbCurrentTok, usbInputBufOffset, usbRxBuf>>
txvars == <<usbTxLen, usbTxBuf>>
addrs  == <<usbDeviceAddr, usbNewDeviceAddr>>
msg    == <<usbMsgLen, usbMsgFlags, usbMsgPtr>>
report == <<currentAddress, bytesRemaining, eeprom>>
stage  == <<hst, req, got, sent, expect>>
host   == <<stage, hostAddr, may>>
vars   == <<rxvars, txvars, addrs, pc, msg, report, host, line>>

-----------------------------------------------------------------------------
(* Packets and requests. *)

USBPID_NAK == 90
Handshake(len) == (len \div 16) % 2 = 1
Other(pid) == IF pid = "DATA0" THEN "DATA1" ELSE "DATA0"
Least(a, b) == IF a < b THEN a ELSE b

\* The versions of the bytes that no request writes.
Rom == -1
Ram == -2
Place == 0 .. ReportLen - 1

NoRequest == [bRequest |-> "none", wLength |-> 0, value |-> 0]

ReadRequests == {"GET_REPORT", "GET_DESCRIPTOR"} \cup RamReads

\* value is the address in SET_ADDRESS; in SET_REPORT it stands for the data
\* that the host is going to write and the device does not look at it.
Requests ==
       [bRequest : {"GET_REPORT"}, wLength : ReadLens, value : {0}]
  \cup [bRequest : {"SET_REPORT"}, wLength : WriteLens, value : Versions]
  \cup [bRequest : {"GET_DESCRIPTOR"}, wLength : DescrLens, value : {0}]
  \cup [bRequest : RamReads, wLength : RamLens, value : {0}]
  \cup [bRequest : {"SET_ADDRESS"}, wLength : {0}, value : Addrs]
  \cup [bRequest : {"SET_CONFIGURATION"}, wLength : {0}, value : {0}]

UsesUserRW(rq) == rq.bRequest \in {"GET_REPORT", "SET_REPORT"}

SetupPacket(rq) == [len |-> 8, rq |-> rq, bytes |-> <<>>]
DataPacket(bytes) == [len |-> Len(bytes), rq |-> NoRequest, bytes |-> bytes]
Token == DataPacket(<<>>)

Init ==
  /\ usbRxLen = 0 /\ usbRxToken = "none" /\ usbCurrentTok = "none"
  /\ usbInputBufOffset = 0 /\ usbRxBuf = [b \in {0, 1} |-> Token]
  /\ usbTxLen = USBPID_NAK /\ usbTxBuf = [pid |-> "DATA0", bytes |-> <<>>]
  /\ usbDeviceAddr = 0 /\ usbNewDeviceAddr = 0
  /\ pc = "poll"
  /\ usbMsgLen = NoMsg /\ usbMsgFlags = "RAM" /\ usbMsgPtr = 0
  /\ currentAddress = 0 /\ bytesRemaining = 0
  /\ \E v \in Versions : /\ eeprom = [k \in Place |-> <<k, v>>]
                         /\ may = [k \in Place |-> {v}]
  /\ hst = "idle" /\ req = NoRequest /\ got = <<>> /\ sent = 0
  /\ expect = "DATA1" /\ hostAddr = 0
  /\ line = "idle"

-----------------------------------------------------------------------------
(* The interrupt routine. *)

\* Every packet goes to the half of the buffer that usbInputBufOffset says.
Receive(p) == usbRxBuf' = [usbRxBuf EXCEPT ![usbInputBufOffset] = p]

\* The address in the token is compared with the device's.
Addressed == usbDeviceAddr = hostAddr

\* SETUP and OUT are remembered for the data packet that follows them; any
\* other packet that is not data, and a token for another device, forgets.
HandleToken(tok) ==
  /\ Receive(Token)
  /\ usbCurrentTok' = IF Addressed THEN tok ELSE "none"

\* handleData: the answer to a data packet.
AnswerAnyTime == IF usbCurrentTok = "none" THEN "silence" ELSE "ACK" \* mutant
Answer ==
  CASE usbCurrentTok = "none" -> "silence"
    [] usbCurrentTok # "none" /\ usbRxLen # 0 -> "NAK"
    [] OTHER -> "ACK"

\* Packets of less than 4 bytes, empty ones, are acknowledged and dropped.
StoredToo(p) == Answer = "ACK" \* mutant: the fix of 2006-03-11 undone
Stored(p) == Answer = "ACK" /\ p.len + 3 >= 4

HandleData(p) ==
  /\ Receive(p)
  /\ IF Stored(p)
     THEN /\ usbRxLen' = p.len + 3
          /\ usbRxToken' = usbCurrentTok
          /\ usbInputBufOffset' = 1 - usbInputBufOffset
     ELSE UNCHANGED <<usbRxLen, usbRxToken, usbInputBufOffset>>
  /\ UNCHANGED usbCurrentTok

\* handleIn: no data goes out while a received packet is unprocessed.
SendsUnprocessed == Addressed /\ ~Handshake(usbTxLen) \* mutant
SendsData == Addressed /\ usbRxLen < 1 /\ ~Handshake(usbTxLen)

\* Only a data packet, and no handshake, makes the new address the device's.
AddressAfterData == usbDeviceAddr' = usbNewDeviceAddr

\* The block counts as sent at once, and the host's ACK of it is a packet that
\* the device ignores, as it does a token for another address.
HandleIn ==
  /\ Receive(Token)
  /\ IF SendsData THEN usbTxLen' = USBPID_NAK /\ AddressAfterData
     ELSE UNCHANGED <<usbTxLen, usbDeviceAddr>>
  /\ usbCurrentTok' = IF Addressed /\ ~SendsData THEN usbCurrentTok ELSE "none"
  /\ UNCHANGED <<usbRxLen, usbRxToken, usbInputBufOffset, usbTxBuf, usbNewDeviceAddr>>

-----------------------------------------------------------------------------
(* usbPoll. *)

\* The packet being processed is in the other half of the buffer.
data == usbRxBuf[1 - usbInputBufOffset]

PollRx ==
  /\ pc = "poll"
  /\ pc' = IF usbRxLen - 3 >= 0 THEN "process" ELSE "tx"
  /\ line' = IF line = "se0" THEN "polled" ELSE line
  /\ UNCHANGED <<rxvars, txvars, addrs, msg, report, host>>

\* usbProcessRx: a SETUP of the wrong size is ignored; a good one aborts the
\* pending transmission first.
BeginSetup ==
  /\ pc = "process" /\ usbRxToken = "SETUP"
  /\ IF data.len = 8
     THEN /\ pc' = "setup"
          /\ usbTxBuf' = [usbTxBuf EXCEPT !.pid = "DATA0"]
          /\ usbTxLen' = USBPID_NAK
     ELSE pc' = "release" /\ UNCHANGED txvars
  /\ UNCHANGED <<rxvars, addrs, msg, report, host, line>>

Limited(len, rq) == IF rq.wLength <= NoMsg /\ len > rq.wLength THEN rq.wLength ELSE len

\* The length that usbDriverSetup returns.
usbDriverSetup(rq) ==
  CASE rq.bRequest = "GET_DESCRIPTOR" -> DescrLen
    [] rq.bRequest = "GET_STATUS" -> 2
    [] rq.bRequest \in {"GET_CONFIGURATION", "GET_INTERFACE"} -> 1
    [] OTHER -> 0

\* What usbProcessRx makes of it and of usbFunctionSetup's: the low byte of
\* wLength if usbFunctionRead is to be used.
ReplyLenUnlimited(rq) == \* mutant: the reply is not cut to wLength
  CASE rq.bRequest = "GET_REPORT" -> rq.wLength % (NoMsg + 1)
    [] rq.bRequest = "SET_REPORT" -> NoMsg
    [] OTHER -> usbDriverSetup(rq)
ReplyLen(rq) ==
  CASE rq.bRequest = "GET_REPORT" -> rq.wLength % (NoMsg + 1)
    [] rq.bRequest = "SET_REPORT" -> NoMsg
    [] OTHER -> Limited(usbDriverSetup(rq), rq)

\* Where the reply comes from.
ReplyFlags(rq) ==
  IF UsesUserRW(rq) THEN "USE_USER_RW"
  ELSE IF rq.bRequest = "GET_DESCRIPTOR" THEN "ROM" ELSE "RAM"

ProcessSetup ==
  /\ pc = "setup"
  /\ pc' = "release"
  /\ usbMsgLen' = ReplyLen(data.rq)
  /\ usbMsgFlags' = ReplyFlags(data.rq)
  /\ IF UsesUserRW(data.rq)
     THEN /\ bytesRemaining' = ReportLen /\ currentAddress' = 0
          /\ UNCHANGED usbMsgPtr
     ELSE /\ usbMsgPtr' = 0
          /\ UNCHANGED <<bytesRemaining, currentAddress>>
  /\ usbNewDeviceAddr' = IF data.rq.bRequest = "SET_ADDRESS" THEN data.rq.value
                         ELSE usbNewDeviceAddr
  /\ UNCHANGED <<rxvars, txvars, usbDeviceAddr, eeprom, host, line>>

\* usbFunctionWrite of the data stage's next packet; 1 from it makes an empty
\* packet the answer.
LastChunkMissed(n) == FALSE \* mutant: bytesRemaining compared before it is reduced
LastChunk(n) == bytesRemaining = n

AdvanceForgotten(n) == currentAddress \* mutant
AddressPlus(n) == currentAddress + n

ProcessOut ==
  /\ pc = "process" /\ usbRxToken = "OUT"
  /\ pc' = "release"
  /\ LET n == Least(data.len, bytesRemaining) IN
     IF usbMsgFlags = "USE_USER_RW"
     THEN /\ eeprom' = [k \in Place |->
                          IF k \in currentAddress .. currentAddress + n - 1
                          THEN data.bytes[k - currentAddress + 1] ELSE eeprom[k]]
          /\ currentAddress' = AddressPlus(n)
          /\ bytesRemaining' = bytesRemaining - n
          /\ usbMsgLen' = IF LastChunk(n) THEN 0 ELSE usbMsgLen
     ELSE UNCHANGED <<report, usbMsgLen>>
  /\ UNCHANGED <<rxvars, txvars, addrs, usbMsgFlags, usbMsgPtr, host, line>>

Release ==
  /\ pc = "release"
  /\ pc' = "tx"
  /\ usbRxLen' = 0
  /\ UNCHANGED <<usbRxToken, usbCurrentTok, usbInputBufOffset, usbRxBuf, txvars,
                 addrs, msg, report, host, line>>

TxCheck ==
  /\ pc = "tx"
  /\ pc' = IF Handshake(usbTxLen) /\ usbMsgLen # NoMsg THEN "build" ELSE "line"
  /\ UNCHANGED <<rxvars, txvars, addrs, msg, report, host, line>>

\* usbBuildTxBlock up to its last line, with usbDeviceRead and usbFunctionRead.
WantAll == usbMsgLen \* mutant: the block is not cut to a packet
WantLen == Least(usbMsgLen, PacketSize)

\* A byte of a reply that is not the report's.
ByteAt(k, flags) == <<k, IF flags = "ROM" THEN Rom ELSE Ram>>

\* usbFunctionRead gives no more than what remains.
usbFunctionRead(len) == Least(len, bytesRemaining)

BuildTxBlock ==
  /\ pc = "build"
  /\ pc' = "commit"
  /\ LET user  == usbMsgFlags = "USE_USER_RW"
         len   == IF user THEN usbFunctionRead(WantLen) ELSE WantLen
         bytes == [i \in 1 .. len |-> IF user THEN eeprom[currentAddress + i - 1]
                                      ELSE ByteAt(usbMsgPtr + i - 1, usbMsgFlags)]
     IN /\ usbTxBuf' = [pid |-> Other(usbTxBuf.pid), bytes |-> bytes]
        /\ usbMsgLen' = IF len < PacketSize THEN NoMsg ELSE usbMsgLen - WantLen
        /\ IF user
           THEN /\ currentAddress' = currentAddress + len
                /\ bytesRemaining' = bytesRemaining - len
                /\ UNCHANGED usbMsgPtr
           ELSE /\ usbMsgPtr' = usbMsgPtr + len
                /\ UNCHANGED <<currentAddress, bytesRemaining>>
  /\ UNCHANGED <<rxvars, usbTxLen, addrs, usbMsgFlags, eeprom, host, line>>

CommitTxBlock ==
  /\ pc = "commit"
  /\ pc' = "line"
  /\ usbTxLen' = Len(usbTxBuf.bytes) + 4
  /\ UNCHANGED <<rxvars, usbTxBuf, addrs, msg, report, host, line>>

\* A line that stays SE0 is a bus reset.
KeepNewAddr == usbNewDeviceAddr \* mutant: only usbDeviceAddr is zeroed
ResetNewAddr == 0

LineCheck ==
  /\ pc = "line"
  /\ IF line = "idle"
     THEN pc' = "poll" /\ UNCHANGED usbNewDeviceAddr
     ELSE pc' = "reset" /\ usbNewDeviceAddr' = ResetNewAddr
  /\ UNCHANGED <<rxvars, txvars, usbDeviceAddr, msg, report, host, line>>

ResetAddress ==
  /\ pc = "reset"
  /\ pc' = "poll"
  /\ usbDeviceAddr' = 0
  /\ line' = IF line = "polled" THEN "seen" ELSE line
  /\ UNCHANGED <<rxvars, txvars, usbNewDeviceAddr, msg, report, host>>

UsbPoll ==
  \/ PollRx \/ BeginSetup \/ ProcessSetup \/ ProcessOut \/ Release
  \/ TxCheck \/ BuildTxBlock \/ CommitTxBlock \/ LineCheck \/ ResetAddress

-----------------------------------------------------------------------------
(* The host. *)

Between == hst \in {"idle", "retry", "in", "out", "statusIn", "statusOut"}

\* A host that gives up on SET_ADDRESS resets the bus: it cannot know which
\* address the device has.
MayBegin ==
  \/ hst = "idle"
  \/ ~Patient /\ Between /\ req.bRequest # "SET_ADDRESS"

HostSetup ==
  /\ \/ /\ MayBegin
        /\ req' \in Requests
     \/ hst = "retry" /\ UNCHANGED req
  /\ hst' = "setup"
  /\ got' = <<>> /\ sent' = 0 /\ expect' = "DATA1"
  /\ HandleToken("SETUP")
  /\ UNCHANGED <<usbRxLen, usbRxToken, usbInputBufOffset, txvars, addrs, pc, msg, report,
                 hostAddr, may, line>>

FirstStage ==
  CASE req.bRequest \in ReadRequests -> "in"
    [] req.bRequest = "SET_REPORT" -> "out"
    [] OTHER -> "statusIn"

HostSetupData ==
  /\ hst = "setup"
  /\ HandleData(SetupPacket(req))
  /\ hst' = IF Answer = "ACK" THEN FirstStage ELSE "retry"
  /\ UNCHANGED <<txvars, addrs, pc, msg, report, req, got, sent, expect, hostAddr, may, line>>

\* The transfer is over and the host takes it for done.
Done ==
  /\ hst' = "idle" /\ req' = NoRequest /\ got' = <<>> /\ sent' = 0 /\ expect' = "DATA1"
  /\ hostAddr' = IF req.bRequest = "SET_ADDRESS" THEN req.value ELSE hostAddr
  /\ may' = [k \in Place |-> IF req.bRequest = "SET_REPORT" /\ k < req.wLength
                             THEN {req.value} ELSE may[k]]

\* Data whose token is not the expected one is taken for a repetition.
Accept(block) ==
  \/ /\ block.pid # expect
     /\ UNCHANGED host
  \/ /\ block.pid = expect
     /\ hst = "statusIn" /\ block.bytes = <<>>
     /\ Done
  \/ /\ block.pid = expect
     /\ hst = "in" \/ block.bytes # <<>>
     /\ got' = got \o block.bytes
     /\ expect' = Other(expect)
     /\ hst' = IF hst = "in" /\ (\/ Len(got') >= req.wLength
                                 \/ Len(block.bytes) < PacketSize)
               THEN "statusOut" ELSE hst
     /\ UNCHANGED <<req, sent, hostAddr, may>>

HostIn ==
  /\ hst \in {"in", "statusIn"}
  /\ HandleIn
  /\ IF SendsData THEN Accept(usbTxBuf) ELSE UNCHANGED host
  /\ UNCHANGED <<pc, msg, report, line>>

HostOut ==
  /\ \/ hst = "out" /\ hst' = "outData"
     \/ hst = "statusOut" /\ hst' = "statusData"
  /\ HandleToken("OUT")
  /\ UNCHANGED <<usbRxLen, usbRxToken, usbInputBufOffset, txvars, addrs, pc, msg, report,
                 req, got, sent, expect, hostAddr, may, line>>

HostOutData ==
  /\ hst = "outData"
  /\ LET n == Least(PacketSize, req.wLength - sent)
         bytes == [i \in 1 .. n |-> <<sent + i - 1, req.value>>]
     IN /\ HandleData(DataPacket(bytes))
        /\ may' = [k \in Place |-> IF k \in sent .. sent + n - 1
                                   THEN may[k] \cup {req.value} ELSE may[k]]
        /\ IF Answer = "ACK"
           THEN sent' = sent + n /\ hst' = IF sent + n = req.wLength THEN "statusIn" ELSE "out"
           ELSE hst' = "out" /\ UNCHANGED sent
  /\ UNCHANGED <<txvars, addrs, pc, msg, report, req, got, expect, hostAddr, line>>

HostStatusData ==
  /\ hst = "statusData"
  /\ HandleData(DataPacket(<<>>))
  /\ IF Answer = "ACK" THEN Done
     ELSE hst' = "statusOut" /\ UNCHANGED <<req, got, sent, expect, hostAddr, may>>
  /\ UNCHANGED <<txvars, addrs, pc, msg, report, line>>

\* A packet for another device, or (without its answer, always NAK) the poll
\* of the interrupt endpoint, that no data is ever given to.
OtherPacket ==
  /\ Between
  /\ Receive(Token)
  /\ usbCurrentTok' \in {usbCurrentTok, "none"}
  /\ UNCHANGED <<usbRxLen, usbRxToken, usbInputBufOffset, txvars, addrs, pc, msg, report,
                 host, line>>

\* A bus reset lasts until one whole call of usbPoll has run under it.
HostReset ==
  /\ Between /\ line = "idle"
  /\ hst = "idle" \/ ~Patient
  /\ hst' = "reset" /\ req' = NoRequest /\ got' = <<>> /\ sent' = 0 /\ expect' = "DATA1"
  /\ hostAddr' = 0
  /\ line' = "se0"
  /\ UNCHANGED <<rxvars, txvars, addrs, pc, msg, report, may>>

HostResetEnds ==
  /\ hst = "reset" /\ line = "seen"
  /\ hst' = "idle"
  /\ line' = "idle"
  /\ UNCHANGED <<rxvars, txvars, addrs, pc, msg, report, req, got, sent, expect, hostAddr, may>>

HostGoesOn ==
  \/ hst = "retry" /\ HostSetup
  \/ HostSetupData \/ HostIn \/ HostOut \/ HostOutData \/ HostStatusData
  \/ HostResetEnds

Host == HostSetup \/ HostGoesOn \/ OtherPacket \/ HostReset

Next == UsbPoll \/ Host

Spec == Init /\ [][Next]_vars

\* The main loop calls usbPoll again and again, and the host goes on with a
\* transfer that it began.
FairSpec == Spec /\ WF_vars(UsbPoll) /\ WF_vars(HostGoesOn)

-----------------------------------------------------------------------------
(* Properties. *)

\* Types, and the lengths that 8-bit variables and 11-byte buffers can hold.
TypeOK ==
  /\ usbRxLen \in {0} \cup 4 .. 11
  /\ usbRxToken \in {"none", "SETUP", "OUT"} /\ usbCurrentTok \in {"none", "SETUP", "OUT"}
  /\ usbInputBufOffset \in {0, 1} /\ DOMAIN usbRxBuf = {0, 1}
  /\ usbTxLen \in {USBPID_NAK} \cup 4 .. PacketSize + 4
  /\ usbTxBuf.pid \in {"DATA0", "DATA1"} /\ Len(usbTxBuf.bytes) <= PacketSize
  /\ usbDeviceAddr \in {0} \cup Addrs /\ usbNewDeviceAddr \in {0} \cup Addrs
  /\ pc \in {"poll", "process", "setup", "release", "tx", "build", "commit", "line", "reset"}
  /\ usbMsgLen \in 0 .. NoMsg /\ usbMsgFlags \in {"RAM", "ROM", "USE_USER_RW"}
  /\ usbMsgPtr \in 0 .. DescrLen
  /\ currentAddress \in 0 .. ReportLen /\ bytesRemaining \in 0 .. ReportLen
  /\ currentAddress + bytesRemaining \in {0, ReportLen}
  /\ line \in {"idle", "se0", "polled", "seen"}

\* What the host receives in the data stage are the bytes of the report, the
\* descriptor or the status it asked for, from the first one on and in order, whatever
\* transfer it gave up before and wherever the interrupt hits usbPoll: no block
\* of an earlier request is ever sent ("we don't send any data as long as the C
\* code has not processed the current input data", handleIn).
RepliesInOrder ==
  \A k \in DOMAIN got :
    got[k] \in IF req.bRequest = "GET_REPORT" THEN {k - 1} \X may[k - 1]
               ELSE IF req.bRequest = "GET_DESCRIPTOR" THEN {<<k - 1, Rom>>}
               ELSE IF req.bRequest \in RamReads THEN {<<k - 1, Ram>>} ELSE {}

\* The bytes that there are.
Available(rq) == IF rq.bRequest = "GET_REPORT" THEN ReportLen
                 ELSE IF rq.bRequest = "GET_DESCRIPTOR" THEN DescrLen
                 ELSE IF rq.bRequest = "GET_STATUS" THEN 2 ELSE 1

\* A data stage that the device ended has all that was asked for or all there
\* is, and never more than asked for.
RepliesComplete ==
  /\ Len(got) <= req.wLength
  /\ hst \in {"statusOut", "statusData"} => Len(got) = Least(req.wLength, Available(req))

\* The EEPROM holds, at each place, a byte written for that place: the one of
\* the last write that the host saw completed, or of one begun after it
\* (usbFunctionWrite).
ReportMatches == \A k \in Place : eeprom[k] \in {k} \X may[k]

\* The device answers at the address the host uses: it changes with the status
\* stage of SET_ADDRESS ("only after data packet was sent, not after
\* handshake", usbdrvasm16.inc), and a bus reset leaves nothing of it.
AddressAgrees == hst # "reset" => usbDeviceAddr = hostAddr

\* usbPoll and the interrupt routine share the receive buffer without a lock:
\* a stored packet does not change until usbPoll has released it.
RxStable == [][usbRxLen # 0 /\ usbRxLen' # 0 => /\ data' = data
                                               /\ usbRxToken' = usbRxToken]_vars

\* "We must not NAK next SETUP" (handleData): the buffer is free when the data
\* packet of a SETUP arrives, if the host finishes what it begins.
SetupNeverRefused == hst = "setup" => usbRxLen = 0 /\ usbCurrentTok = "SETUP"

\* The device and the host never wait for each other.  A host that waits for data
\* or for the status of a request has its answer built, under the data token it
\* takes, or on its way: usbPoll still has a packet of its to process, or has the
\* message to build the answer from.  No data packet finds a device that does not
\* listen, so that it is taken or refused until it is.  (If the host asks for less
\* than NoMsg bytes and writes whole reports.)
Ready == usbTxLen # USBPID_NAK \/ pc = "commit"
AnswerOnItsWay ==
  /\ hst \in {"in", "statusIn"} =>
       \/ usbRxLen # 0
       \/ Ready /\ usbTxBuf.pid = expect
       \/ ~Ready /\ usbMsgLen # NoMsg /\ Other(usbTxBuf.pid) = expect
  /\ hst \in {"setup", "outData", "statusData"} => Answer # "silence"

\* Every transfer that the host begins ends, if it writes whole reports and asks
\* for less than NoMsg bytes: no NAK is for ever, because usbPoll always gets to
\* release the buffer and to build what the host waits for.
TransfersEnd == hst # "idle" ~> hst = "idle"

\* To a host that finishes what it begins, the two halves of the driver with
\* their shared buffers are one pipe that serves a request at a time: reads are
\* exact, a write is in the EEPROM before it is confirmed, and nothing else
\* touches the EEPROM or the address (module ControlPipe).
Pipe == INSTANCE ControlPipe WITH stored <- eeprom, address <- usbDeviceAddr
ImplementsControlPipe == Pipe!Spec

=============================================================================
