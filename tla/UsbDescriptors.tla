---------------------------- MODULE UsbDescriptors ----------------------------
(***************************************************************************)
(* What the USB device says of itself: the options of usbconfig.h, the     *)
(* tables of usbdrv.c and the report descriptor of USBPort.cpp, byte by    *)
(* byte where the host computes with the byte, and usbDriverDescriptor,    *)
(* which picks one of them for a GET_DESCRIPTOR.  The tables are evaluated *)
(* as the compiler does: each refers to lengths that are kept in step with *)
(* the data by hand.                                                       *)
(***************************************************************************)
EXTENDS Integers, Sequences

(* usbdrv.h: descriptor types. *)
DescriptorTypes == [ DEVICE |-> 1, CONFIG |-> 2, STRING |-> 3, INTERFACE |-> 4,
                     ENDPOINT |-> 5, HID |-> 33, HID_REPORT |-> 34 ]

(* usbconfig.h: the options that the tables depend on. *)
Options ==
  [ HAVE_INTRIN_ENDPOINT |-> 1, HAVE_INTRIN_ENDPOINT3 |-> 0, EP3_NUMBER |-> 3,
    INTR_POLL_INTERVAL |-> 100, IS_SELF_POWERED |-> 0, MAX_BUS_POWER |-> 400 ]

\* A name is its declared length and the number of characters it really has.
Identity ==
  [ VENDOR_ID |-> <<192, 22>>, DEVICE_ID |-> <<223, 5>>, DEVICE_VERSION |-> <<0, 1>>,
    VENDOR_NAME_LEN |-> 11,
    VENDOR_NAME |-> Len(<<"b", "a", "c", "k", "d", "o", "r", "r", ".", "t", "k">>),
    DEVICE_NAME_LEN |-> 10,
    DEVICE_NAME |-> Len(<<"A", "Q", "I", "M", "o", "n", "i", "t", "o", "r">>),
    DEVICE_CLASS |-> <<0, 0>>, INTERFACE_CLASS |-> <<3, 0, 0>>,
    HID_REPORT_DESCRIPTOR_LENGTH |-> 22 ]

-----------------------------------------------------------------------------
(* The strings.  Their characters are not told apart. *)

Char == 0

USB_STRING_DESCRIPTOR_HEADER(stringLength) == <<2 * stringLength + 2, 3>>

usbDescriptorString0 == <<4, 3, 9, 4>>

usbDescriptorStringVendor ==
  USB_STRING_DESCRIPTOR_HEADER(Identity.VENDOR_NAME_LEN)
    \o [k \in 1 .. 2 * Identity.VENDOR_NAME |-> Char]

usbDescriptorStringDevice ==
  USB_STRING_DESCRIPTOR_HEADER(Identity.DEVICE_NAME_LEN)
    \o [k \in 1 .. 2 * Identity.DEVICE_NAME |-> Char]

\* USB_CFG_SERIAL_NUMBER is not defined.
usbDescriptorStringSerialNumber == <<>>

-----------------------------------------------------------------------------
(* The device, the configuration and the report. *)

IndexOf(string, n) == IF string # <<>> THEN n ELSE 0

usbDescriptorDevice ==
  <<18, DescriptorTypes.DEVICE, 16, 1>> \o Identity.DEVICE_CLASS \o <<0, 8>>
    \o Identity.VENDOR_ID \o Identity.DEVICE_ID \o Identity.DEVICE_VERSION
    \o << IndexOf(usbDescriptorStringVendor, 1), IndexOf(usbDescriptorStringDevice, 2),
          IndexOf(usbDescriptorStringSerialNumber, 3), 1 >>

\* usbdrv.h's default, and the length that usbdrv.c then gives the HID part.
PROPS_HID_REPORT == Identity.HID_REPORT_DESCRIPTOR_LENGTH
PROPS_HID == IF PROPS_HID_REPORT # 0 THEN 9 ELSE 0

TotalLengthNoHid == 18 + 7 * Options.HAVE_INTRIN_ENDPOINT \* mutant
                       + 7 * Options.HAVE_INTRIN_ENDPOINT3
TotalLength == 18 + 7 * Options.HAVE_INTRIN_ENDPOINT + 7 * Options.HAVE_INTRIN_ENDPOINT3
                  + PROPS_HID

HidPart == IF PROPS_HID = 0 THEN <<>>
           ELSE << 9, DescriptorTypes.HID, 1, 1, 0, 1, 34,
                   Identity.HID_REPORT_DESCRIPTOR_LENGTH, 0 >>

EndpointPart(have, number) ==
  IF have = 0 THEN <<>>
  ELSE << 7, DescriptorTypes.ENDPOINT, 128 + number, 3, 8, 0, Options.INTR_POLL_INTERVAL >>

usbDescriptorConfiguration ==
  << 9, DescriptorTypes.CONFIG, TotalLength, 0, 1, 1, 0,
     128 + 64 * Options.IS_SELF_POWERED, Options.MAX_BUS_POWER \div 2 >>
  \o << 9, DescriptorTypes.INTERFACE, 0, 0,
        Options.HAVE_INTRIN_ENDPOINT + Options.HAVE_INTRIN_ENDPOINT3 >>
  \o Identity.INTERFACE_CLASS \o <<0>>
  \o HidPart
  \o EndpointPart(Options.HAVE_INTRIN_ENDPOINT, 1)
  \o EndpointPart(Options.HAVE_INTRIN_ENDPOINT3, Options.EP3_NUMBER)

\* Items of a prefix byte, whose low two bits count the data bytes after it:
\* 128 (REPORT_COUNT) values of 8 bits (REPORT_SIZE).
usbHidReportDescriptor ==
  << 6, 0, 255,  9, 1,  161, 1,  21, 0,  38, 255, 0,  117, 8,  149, 128,
     9, 0,  178, 2, 1,  192 >>

-----------------------------------------------------------------------------
\* GET_DESCRIPTOR: the length is the property's, 0 means that there is none.
FromTable(prop, table) == [k \in 1 .. prop |-> table[k]]
WholeTable(table) == FromTable(Len(table), table)

\* usbDriverDescriptor, by the high and the low byte of wValue.
DescriptorOf(type, index) ==
  CASE type = DescriptorTypes.DEVICE -> WholeTable(usbDescriptorDevice)
    [] type = DescriptorTypes.CONFIG -> WholeTable(usbDescriptorConfiguration)
    [] type = DescriptorTypes.STRING /\ index = 0 -> WholeTable(usbDescriptorString0)
    [] type = DescriptorTypes.STRING /\ index = 1 -> WholeTable(usbDescriptorStringVendor)
    [] type = DescriptorTypes.STRING /\ index = 2 -> WholeTable(usbDescriptorStringDevice)
    [] type = DescriptorTypes.STRING /\ index = 3 ->
         WholeTable(usbDescriptorStringSerialNumber)
    [] type = DescriptorTypes.HID ->
         FromTable(PROPS_HID, SubSeq(usbDescriptorConfiguration, 19,
                                     Len(usbDescriptorConfiguration)))
    [] type = DescriptorTypes.HID_REPORT ->
         FromTable(PROPS_HID_REPORT, usbHidReportDescriptor)
    [] OTHER -> <<>>

=============================================================================
