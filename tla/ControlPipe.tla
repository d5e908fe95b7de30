------------------------------ MODULE ControlPipe ------------------------------
(***************************************************************************)
(* What the USB driver and the report handlers promise to a host that      *)
(* finishes the control transfers it begins: one request at a time, a read *)
(* that gives the bytes asked for and no others, a write that is stored    *)
(* whole before it is confirmed, and an address that changes when it is    *)
(* confirmed.  There are no packets, buffers or tokens here.               *)
(***************************************************************************)
EXTENDS Integers, Sequences

CONSTANTS
  Requests, NoRequest,
  ReportLen,   \* bytes of the report that is stored
  DescrLen,    \* bytes of a descriptor
  Rom, Ram,    \* the versions of a descriptor's bytes and of the other replies'
  Versions

VARIABLES
  req,      \* the request being served, or NoRequest
  got,      \* what the host has received for it
  stored,   \* the report: at each place, the place and the version written
  address

vars == <<req, got, stored, address>>

Place == 0 .. ReportLen - 1
Filled(v) == [k \in Place |-> <<k, v>>]

Init == /\ req = NoRequest /\ got = <<>>
        /\ \E v \in Versions : stored = Filled(v)
        /\ address = 0

Available == CASE req.bRequest = "GET_REPORT" -> ReportLen
               [] req.bRequest = "GET_DESCRIPTOR" -> DescrLen
               [] req.bRequest = "GET_STATUS" -> 2
               [] req.bRequest \in {"GET_CONFIGURATION", "GET_INTERFACE"} -> 1
               [] OTHER -> 0
Owed == IF req.wLength < Available THEN req.wLength ELSE Available

\* The first n bytes of what is asked for.
First(n) == [k \in 1 .. n |-> IF req.bRequest = "GET_REPORT" THEN stored[k - 1]
                              ELSE <<k - 1, IF req.bRequest = "GET_DESCRIPTOR" THEN Rom
                                            ELSE Ram>>]

Begin == /\ req = NoRequest
         /\ req' \in Requests
         /\ UNCHANGED <<got, stored, address>>

Deliver == /\ \E n \in Len(got) + 1 .. Owed : got' = First(n)
           /\ UNCHANGED <<req, stored, address>>

\* A write grows from the beginning of the report.
Store == /\ req.bRequest = "SET_REPORT"
         /\ \E n \in 1 .. req.wLength :
              stored' = [k \in Place |-> IF k < n THEN <<k, req.value>> ELSE stored[k]]
         /\ UNCHANGED <<req, got, address>>

Finish ==
  /\ req # NoRequest
  /\ Len(got) = Owed
  /\ req.bRequest = "SET_REPORT" => \A k \in 0 .. req.wLength - 1 : stored[k][2] = req.value
  /\ address' = IF req.bRequest = "SET_ADDRESS" THEN req.value ELSE address
  /\ req' = NoRequest /\ got' = <<>>
  /\ UNCHANGED stored

Reset == /\ req = NoRequest
         /\ address' = 0
         /\ UNCHANGED <<req, got, stored>>

Next == Begin \/ Deliver \/ Store \/ Finish \/ Reset

Spec == Init /\ [][Next]_vars

=============================================================================
