------------------------------ MODULE UsbSession ------------------------------
(***************************************************************************)
(* A session of the USB device with its host: start-up with the faked      *)
(* disconnect (USBPort::begin), enumeration, and the restarts and bus      *)
(* resets that interrupt it.  A control transfer, whose packets are module *)
(* UsbDriver's, is here a request that the device stores, a call of        *)
(* usbPoll that prepares the reply, and the host's taking the reply.       *)
(*                                                                         *)
(* A restart (watchdog or reset button) clears the memory of the device    *)
(* while its pull-up keeps it attached to the bus: the host does not know. *)
(* A bus reset may be missed, when no usbPoll runs under it.  And the      *)
(* interrupt routine may hang while the line is held low, until the        *)
(* watchdog restarts the device.                                           *)
(***************************************************************************)
EXTENDS UsbDescriptors, FiniteSets

CONSTANTS
  CountMod,    \* the countdown's 8-bit variable (256)
  Noticed,     \* ms in which a host notices a disconnect (250)
  FirstLens,   \* wLength of the first GET_DESCRIPTOR (8 or 64)
  ConfLens,    \* wLength of the one that fetches the configuration, 0: its length
  Addrs,       \* addresses the host assigns
  MaxTrouble   \* restarts, hangs, resets and missed resets in a behaviour

ASSUME SessionAssumption ==
  /\ CountMod \in Nat /\ Noticed \in 1 .. CountMod - 1
  /\ FirstLens \subseteq 8 .. 255
  /\ \A n \in ConfLens : n \in Nat /\ (n = 0 \/ n >= 34)
  /\ Addrs \subseteq 1 .. 127
  /\ MaxTrouble \in Nat

VARIABLES
  dev,       \* "boot", "init" after usbInit, "low" while disconnected, "on";
             \* "hung" when the interrupt routine does not come back
  i,         \* begin's countdown
  usbDeviceAddr, usbNewDeviceAddr, usbConfiguration,
  rx,        \* the stored request, {} if none
  msg,       \* the reply, {} if none was prepared
  hst,       \* the host: "detached", "reset", "asks", "waits"
  ask,       \* {} or the request it waits for
  known,     \* the replies it got in the enumeration, in the order of Agenda
  hostAddr,  \* the address it uses
  seen,      \* usbPoll ran under the bus reset
  trouble

device == <<dev, i, usbDeviceAddr, usbNewDeviceAddr, usbConfiguration, rx, msg>>
host   == <<hst, ask, known, hostAddr, seen>>
vars   == <<device, host, trouble>>

-----------------------------------------------------------------------------
(* Requests, and the device's replies. *)

Request(type, bRequest, descr, value, wLength) ==
  [type |-> type, bRequest |-> bRequest, descr |-> descr, value |-> value,
   wLength |-> wLength]

Standard(bRequest, value, wLength) == Request("STANDARD", bRequest, 0, value, wLength)
GetDescriptor(descr, index, wLength) ==
  Request("STANDARD", "GET_DESCRIPTOR", descr, index, wLength)

StandardRequests == {"GET_STATUS", "CLEAR_FEATURE", "SET_FEATURE", "SET_ADDRESS",
  "GET_DESCRIPTOR", "SET_DESCRIPTOR", "GET_CONFIGURATION", "SET_CONFIGURATION",
  "GET_INTERFACE", "SET_INTERFACE", "SYNCH_FRAME"}

\* Only a wLength of one byte limits the reply.
Limited(s, wLength) == IF wLength < 256 /\ Len(s) > wLength THEN SubSeq(s, 1, wLength)
                       ELSE s

\* usbDriverSetup: a reply of one byte 0 and of no bytes are told apart.
usbDriverSetup(rq) ==
  CASE rq.bRequest = "GET_STATUS" -> <<Options.IS_SELF_POWERED, 0>>
    [] rq.bRequest = "GET_DESCRIPTOR" -> DescriptorOf(rq.descr, rq.value)
    [] rq.bRequest = "GET_CONFIGURATION" -> <<usbConfiguration>>
    [] rq.bRequest = "GET_INTERFACE" -> <<0>>
    [] OTHER -> <<>>

\* A class request that is not for the report: usbFunctionSetup returns 0.
usbFunctionSetup(rq) == <<>>

Reply(rq) == Limited(IF rq.type = "STANDARD" THEN usbDriverSetup(rq)
                     ELSE usbFunctionSetup(rq), rq.wLength)

-----------------------------------------------------------------------------
(* The enumeration: what the host asks when it has the replies of known.     *)

Uint16(s, k) == s[k] + 256 * s[k + 1]

Agenda ==
  CASE Len(known) = 0 -> {GetDescriptor(DescriptorTypes.DEVICE, 0, n) : n \in FirstLens}
    [] Len(known) = 1 -> {Standard("SET_ADDRESS", a, 0) : a \in Addrs}
    [] Len(known) = 2 -> {GetDescriptor(DescriptorTypes.DEVICE, 0, 18)}
    [] Len(known) = 3 -> {GetDescriptor(DescriptorTypes.CONFIG, 0, 9)}
    [] Len(known) = 4 -> {GetDescriptor(DescriptorTypes.CONFIG, 0,
                                        IF n = 0 THEN Uint16(known[4], 3) ELSE n) :
                            n \in ConfLens}
    [] Len(known) = 5 -> {GetDescriptor(DescriptorTypes.STRING, 0, 255)}
    [] Len(known) = 6 -> {GetDescriptor(DescriptorTypes.STRING, known[3][15], 255)}
    [] Len(known) = 7 -> {GetDescriptor(DescriptorTypes.STRING, known[3][16], 255)}
    [] Len(known) = 8 -> {Standard("SET_CONFIGURATION", known[5][6], 0)}
    [] Len(known) = 9 -> {Request("CLASS", "SET_IDLE", 0, 0, 0)}
    [] Len(known) = 10 -> {GetDescriptor(DescriptorTypes.HID, 0, 255)}
    [] Len(known) = 11 -> {GetDescriptor(DescriptorTypes.HID_REPORT, 0,
                                         Uint16(known[11], 8))}
    [] OTHER -> {}

Configured == hst \in {"asks", "waits"} /\ Len(known) = 12
Chosen == known[5][6]

Routine == { Standard("GET_STATUS", 0, 2), Standard("GET_CONFIGURATION", 0, 1),
             Standard("GET_INTERFACE", 0, 1), Standard("SET_INTERFACE", 0, 0) }

-----------------------------------------------------------------------------
\* The countdown's start.
InitialCountShort == Noticed - 1 \* mutant: no full turn of the counter
InitialCount == 0

DecrementInt(n) == n - 1 \* mutant: not an unsigned byte
Decrement(n) == (n - 1) % CountMod

Init ==
  /\ dev = "boot" /\ i = 0
  /\ usbDeviceAddr = 0 /\ usbNewDeviceAddr = 0 /\ usbConfiguration = 0
  /\ rx = {} /\ msg = {}
  /\ hst = "detached" /\ ask = {} /\ known = <<>> /\ hostAddr = 0 /\ seen = FALSE
  /\ trouble = 0

-----------------------------------------------------------------------------
(* The device. *)

\* usbInit enables the interrupt, and the Arduino core has enabled interrupts.
UsbInit ==
  /\ dev = "boot" /\ dev' = "init"
  /\ UNCHANGED <<i, usbDeviceAddr, usbNewDeviceAddr, usbConfiguration, rx, msg, host, trouble>>

\* usbDeviceDisconnect pulls D- low, with the interrupt enabled.
Disconnect ==
  /\ dev = "init" /\ dev' = "low"
  /\ i' = InitialCount
  /\ UNCHANGED <<usbDeviceAddr, usbNewDeviceAddr, usbConfiguration, rx, msg, host, trouble>>

\* One turn of the loop is 1 ms, and Noticed of them are noticed.
Elapsed == (InitialCount - i) % CountMod
TimeAllows == Elapsed < Noticed \/ hst = "detached"

FakeDisconnect ==
  /\ dev = "low" /\ Decrement(i) # 0 /\ TimeAllows
  /\ i' = Decrement(i)
  /\ UNCHANGED <<dev, usbDeviceAddr, usbNewDeviceAddr, usbConfiguration, rx, msg, host,
                 trouble>>

Connect ==
  /\ dev = "low" /\ Decrement(i) = 0 /\ TimeAllows
  /\ dev' = "on" /\ i' = 0
  /\ UNCHANGED <<usbDeviceAddr, usbNewDeviceAddr, usbConfiguration, rx, msg, host, trouble>>

\* The addresses after a usbPoll under a bus reset.
AfterResetKept(a) == a \* mutant
AfterReset(a) == 0

\* What the stored request makes of a variable that only bRequest sets.
Assigned(bRequest, old) ==
  IF \E rq \in rx : rq.bRequest = bRequest THEN (CHOOSE rq \in rx : TRUE).value ELSE old

\* usbPoll: the stored request first, then the line.
Poll ==
  /\ dev = "on"
  /\ rx' = {}
  /\ msg' = IF rx = {} THEN msg ELSE {Reply(rq) : rq \in rx}
  /\ LET new == Assigned("SET_ADDRESS", usbNewDeviceAddr)
     IN IF hst = "reset"
        THEN /\ usbNewDeviceAddr' = AfterReset(new)
             /\ usbDeviceAddr' = 0
             /\ seen' = TRUE
        ELSE /\ usbNewDeviceAddr' = new
             /\ UNCHANGED <<usbDeviceAddr, seen>>
  /\ usbConfiguration' = Assigned("SET_CONFIGURATION", usbConfiguration)
  /\ UNCHANGED <<dev, i, hst, ask, known, hostAddr, trouble>>

LineLow == dev \in {"low", "hung"}

\* usbInit has enabled the interrupt, and nothing disables it again.
InterruptEnabled == dev # "boot"

\* The interrupt is that of D+, which the packets of a host move.
PacketInterrupts == InterruptEnabled /\ hst \in {"asks", "waits"}

\* Behind a D- that is held low the routine finds no sync pattern.  It may return,
\* which leaves nothing, or not: "the interrupt handler will hang" (usbdrv.h).
Hang ==
  /\ trouble < MaxTrouble /\ trouble' = trouble + 1
  /\ dev = "low" /\ PacketInterrupts
  /\ dev' = "hung"
  /\ UNCHANGED <<i, usbDeviceAddr, usbNewDeviceAddr, usbConfiguration, rx, msg, host>>

StartOver ==
  /\ dev' = "boot" /\ i' = 0
  /\ usbDeviceAddr' = 0 /\ usbNewDeviceAddr' = 0 /\ usbConfiguration' = 0
  /\ rx' = {} /\ msg' = {}

\* The watchdog's second, of which a host needs Noticed ms.
WatchdogRestarts ==
  /\ dev = "hung" /\ hst = "detached"
  /\ StartOver
  /\ UNCHANGED <<host, trouble>>

Device ==
  UsbInit \/ Disconnect \/ FakeDisconnect \/ Connect \/ Poll \/ WatchdogRestarts

\* The watchdog, or the reset button: the host is not told.
Restart ==
  /\ trouble < MaxTrouble /\ trouble' = trouble + 1
  /\ StartOver
  /\ UNCHANGED host

-----------------------------------------------------------------------------
(* The host. *)

Notice ==
  /\ LineLow /\ hst # "detached"
  /\ hst' = "detached" /\ ask' = {} /\ known' = <<>> /\ hostAddr' = 0 /\ seen' = FALSE
  /\ UNCHANGED <<device, trouble>>

BeginReset == hst' = "reset" /\ ask' = {} /\ known' = <<>> /\ hostAddr' = 0 /\ seen' = FALSE

\* The pull-up is there unless the device pulls the line low.
Attach ==
  /\ hst = "detached" /\ ~LineLow
  /\ BeginReset
  /\ UNCHANGED <<device, trouble>>

HostReset ==
  /\ trouble < MaxTrouble /\ trouble' = trouble + 1
  /\ hst \in {"asks", "waits"}
  /\ BeginReset
  /\ UNCHANGED device

\* The device does not listen to hostAddr, or has forgotten the request.
NoAnswer == usbDeviceAddr # hostAddr \/ (hst = "waits" /\ rx = {} /\ msg = {})

\* A device that does not answer is reset again.
GiveUp ==
  /\ hst \in {"asks", "waits"} /\ dev = "on" /\ NoAnswer
  /\ BeginReset
  /\ UNCHANGED <<device, trouble>>

\* A starting device has no address to forget.
EndReset ==
  /\ hst = "reset" /\ ~LineLow
  /\ seen \/ dev # "on"
  /\ hst' = "asks"
  /\ UNCHANGED <<device, ask, known, hostAddr, seen, trouble>>

\* No usbPoll ran: the device was busy for longer than the reset.
EndResetMissed ==
  /\ trouble < MaxTrouble /\ trouble' = trouble + 1
  /\ hst = "reset" /\ dev = "on" /\ ~seen
  /\ hst' = "asks"
  /\ UNCHANGED <<device, ask, known, hostAddr, seen>>

\* A SETUP that the device's interrupt routine hears, finds room for and stores.
HostAsk(rq) ==
  /\ hst = "asks" /\ dev \in {"init", "on"} /\ usbDeviceAddr = hostAddr /\ rx = {}
  /\ rx' = {rq}
  /\ ask' = {rq} /\ hst' = "waits"
  /\ UNCHANGED <<dev, i, usbDeviceAddr, usbNewDeviceAddr, usbConfiguration, msg,
                 known, hostAddr, seen, trouble>>

\* The device's data packet changes its address; no packet goes out while a
\* request waits for usbPoll.
HostFinish ==
  /\ hst = "waits" /\ dev = "on" /\ usbDeviceAddr = hostAddr /\ rx = {}
  /\ \E reply \in msg, rq \in ask :
       /\ known' = IF Configured THEN known ELSE Append(known, reply)
       /\ hostAddr' = IF rq.bRequest = "SET_ADDRESS" THEN rq.value ELSE hostAddr
  /\ usbDeviceAddr' = usbNewDeviceAddr
  /\ msg' = {} /\ ask' = {} /\ hst' = "asks"
  /\ UNCHANGED <<dev, i, usbNewDeviceAddr, usbConfiguration, rx, seen, trouble>>

Enumerate == \E rq \in Agenda : HostAsk(rq)
AskRoutine == Configured /\ \E rq \in Routine : HostAsk(rq)

HostGoesOn == Notice \/ Attach \/ GiveUp \/ EndReset \/ Enumerate \/ HostFinish

Next == Device \/ Restart \/ Hang \/ HostGoesOn \/ HostReset \/ EndResetMissed \/ AskRoutine

Spec == Init /\ [][Next]_vars

\* The main loop runs and calls usbPoll, the watchdog restarts a device that
\* hangs, and a host goes on with what it began and tries again when a device
\* does not answer.
FairSpec == Spec /\ WF_vars(Device) /\ WF_vars(HostGoesOn)

-----------------------------------------------------------------------------
(* Properties. *)

\* Types: i is a byte, and no reply is longer than wLength.
TypeOK ==
  /\ dev \in {"boot", "init", "low", "on", "hung"}
  /\ hst \in {"detached", "reset", "asks", "waits"}
  /\ i \in 0 .. CountMod - 1
  /\ {usbDeviceAddr, usbNewDeviceAddr, hostAddr} \subseteq {0} \cup Addrs
  /\ usbConfiguration \in 0 .. 255
  /\ \A rq \in rx \cup ask : rq.type = "STANDARD" => rq.bRequest \in StandardRequests
  /\ \A reply \in msg, rq \in ask : rx = {} => Len(reply) <= rq.wLength
  /\ Len(known) <= 12 /\ seen \in BOOLEAN /\ trouble \in 0 .. MaxTrouble

\* While the host takes the device for configured, the running device is: it
\* has the host's address and configuration, and says so when asked
\* (GET_CONFIGURATION).  A restart forgets both behind the host's back; the
\* faked disconnect of "> 250 ms" (USBPort.cpp:112) is what makes the host start
\* again, and the bus reset, a missed one too, must not leave half of them.
SessionAgrees ==
  Configured /\ dev = "on" =>
    /\ usbDeviceAddr = hostAddr /\ usbNewDeviceAddr = hostAddr
    /\ usbConfiguration = Chosen
    /\ \A rq \in ask, reply \in msg :
         rq.bRequest = "GET_CONFIGURATION" /\ rx = {} => reply = <<Chosen>>

\* Places in s at which a part begins, if size(p) is the length of the part at p.
Starts(s, size(_)) ==
  LET at[p \in 1 .. Len(s) + 1] ==
        IF p > Len(s) \/ size(p) = 0 \/ p + size(p) > Len(s) + 1 THEN {p}
        ELSE {p} \cup at[p + size(p)]
  IN  at[1]

\* The bytes after an item's prefix: 0, 1, 2 or 4.
ItemSize(prefix) == 1 + (IF prefix % 4 = 3 THEN 4 ELSE prefix % 4)

Item(report, prefix) ==
  {report[p + 1] : p \in {q \in Starts(report, LAMBDA k : ItemSize(report[k])) \
                                  {Len(report) + 1} : report[q] = prefix}}

\* What the host put together from the replies is consistent: the parts of the
\* configuration fill its total length exactly, and are as many as it says, the
\* HID part is the HID descriptor and tells the length of the report's, which
\* describes one report of the 128 bytes that usbFunctionSetup counts; strings
\* have the length they say.  Lengths, indexes and counts are written by hand in
\* three files.
ReportBytes == 128
DescriptorsAgree ==
  Configured =>
    LET conf   == known[5]
        parts  == Starts(conf, LAMBDA p : conf[p])
        Of(t)  == {p \in parts \ {Len(conf) + 1} : conf[p + 1] = t}
        report == known[12]
    IN /\ Len(known[3]) = known[3][1] /\ known[1] = SubSeq(known[3], 1, Len(known[1]))
       /\ known[3][8] = 8
       /\ Len(conf) = Uint16(conf, 3) /\ Len(conf) + 1 \in parts
       /\ Cardinality(Of(DescriptorTypes.INTERFACE)) = conf[5]
       /\ \A p \in Of(DescriptorTypes.INTERFACE) :
            Cardinality(Of(DescriptorTypes.ENDPOINT)) = conf[p + 4]
       /\ \A p \in Of(DescriptorTypes.HID) :
            /\ known[11] = SubSeq(conf, p, p + conf[p] - 1)
            /\ Len(report) = Uint16(conf, p + 7)
       /\ \A k \in 6 .. 8 : Len(known[k]) = known[k][1]
       /\ Len(report) + 1 \in Starts(report, LAMBDA k : ItemSize(report[k]))
       /\ Item(report, 117) = {8} /\ Item(report, 149) = {ReportBytes}

\* A bound of the steps that are left until the device is configured.  The host
\* and the device are in step when the device has the address that the host uses,
\* and the request stored or done sets no other; a session that is not in step has
\* a bus reset still before it.
Count(b) == IF b THEN 1 ELSE 0

InStep ==
  /\ usbDeviceAddr = hostAddr
  /\ hst = "asks" \/ rx # {} => usbNewDeviceAddr = hostAddr
  /\ hst = "asks" => \A rq \in rx : rq.bRequest # "SET_ADDRESS"
  /\ hst = "waits" /\ rx = {} =>
       /\ msg # {}
       /\ \A rq \in ask : usbNewDeviceAddr = IF rq.bRequest = "SET_ADDRESS" THEN rq.value
                                              ELSE hostAddr

\* A reply that is still to be told takes a request, a usbPoll and the end of the
\* request.
ToGo == 3 * (12 - Len(known)) + 2 * Count(hst = "asks") + Count(rx # {})

HostToGo == CASE hst = "detached" -> 3 [] hst = "reset" -> 2
              [] hst = "asks" -> 1 [] OTHER -> 0

\* Each state leaves room for the longest way through the states after it.
Distance ==
  CASE dev = "hung" -> 4 * (2 * CountMod + 200) + Count(hst # "detached")
    [] dev = "boot" -> 3 * (2 * CountMod + 200) + HostToGo
    [] dev = "init" -> 2 * (2 * CountMod + 200) + HostToGo
    [] dev = "low" -> 200 + 2 * Decrement(i) + Count(hst # "detached")
    [] dev = "on" /\ hst = "detached" -> 56 + Count(rx # {})
    [] dev = "on" /\ hst = "reset" -> 52 + Count(~seen) + Count(rx # {})
    [] dev = "on" /\ hst \in {"asks", "waits"} -> IF InStep THEN ToGo ELSE 100 + ToGo

\* No order of the device's and the host's steps goes round in circles: until the
\* device is configured, every one but a new trouble brings that nearer, whatever
\* requests, replies and addresses the restarts and resets before have left over.
EveryStepCloser ==
  [][ trouble' = trouble /\ ~(Configured /\ dev = "on")
        => Distance' \in 0 .. Distance - 1 ]_vars

\* However often the device restarts, hangs while it is disconnected and the bus
\* is reset, and whether the device sees the resets or not, in the end the device
\* is configured again.  (If these come to an end: of a begin that hung there is
\* no more to say than that the next one may not.)
Recovers == <>[](Configured /\ dev = "on")

=============================================================================
