----------------------------- MODULE InetAddress -----------------------------
(***************************************************************************)
(* yut::net::InetAddress (net/inet_address.cc): an address as text and     *)
(* port, and as the sockaddr of the system.  Whichever was set last is     *)
(* converted to the other when that is asked for, and both are kept, under *)
(* two flags.                                                              *)
(*                                                                         *)
(* A port only goes along with its text, so a text stands for both.  What  *)
(* is kept under a flag that is off is never read, and left out here:      *)
(* has_native_addr_ is native # NoNative.                                  *)
(***************************************************************************)
CONSTANTS
  Texts4, Texts6,   \* texts that inet_pton() takes for IPv4, for IPv6
  TextsDotted6,     \* IPv6 texts with a '.', such as ::ffff:1.2.3.4
  TextsBad,         \* host names and the like
  NoText            \* the empty text, and port 0

Texts == Texts4 \cup Texts6 \cup TextsDotted6 \cup TextsBad

UNKNOWN == "UNKNOWN"
IP_V4   == "IP_V4"
IP_V6   == "IP_V6"

(* A sockaddr is known by the text that inet_ntop() gives for it.          *)
Natives == [family : {IP_V4}, text : Texts4]
             \cup [family : {IP_V6}, text : Texts6 \cup TextsDotted6]
NoNative == [family |-> UNKNOWN, text |-> NoText]

ASSUME AddressAssumption == Texts \cap Natives = {} /\ NoText \notin Texts \cup Natives

VARIABLES
  address,   \* the InetAddress: [ip, has_addr, native]
  said       \* history: what it was set to last, a text or a sockaddr

addressVars == <<address, said>>

AddressInit ==
  /\ address = [ip |-> NoText, has_addr |-> FALSE, native |-> NoNative]
  /\ said = NoText

-----------------------------------------------------------------------------
(* convertNativeAddressToAddress(), if it is needed                        *)
WithAddress(a) ==
  IF ~a.has_addr /\ a.native # NoNative
  THEN [a EXCEPT !.ip = a.native.text, !.has_addr = TRUE] ELSE a

(* inet_pton(), with the family that a '.' or else a ':' in the text tells.*)
PtoN(text) ==
  IF text \in Texts4 THEN [family |-> IP_V4, text |-> text]
  ELSE IF text \in Texts6 THEN [family |-> IP_V6, text |-> text]
  ELSE NoNative

(* convertAddressToNativeAddress(), if it is needed                        *)
WithNative(a) ==
  IF a.has_addr /\ a.native = NoNative THEN [a EXCEPT !.native = PtoN(a.ip)] ELSE a

(* InetAddress(ip, port): has_addr_ is left false.                         *)
Construct(text) ==
  /\ address' = [ip |-> text, has_addr |-> FALSE, native |-> NoNative]
  /\ said' = NoText

(* A plausible bug, used by no definition: the sockaddr stays.             *)
MutSetAddress(text) ==
  /\ address' = [address EXCEPT !.ip = text, !.has_addr = TRUE]
  /\ said' = text

SetAddress(text) ==
  /\ address' = [ip |-> text, has_addr |-> TRUE, native |-> NoNative]
  /\ said' = text

(* setNativeAddress(); with a family of another kind it returns false.     *)
SetNativeAddress(native) ==
  /\ address' = [ip |-> NoText, has_addr |-> FALSE, native |-> native]
  /\ said' = native

(* getIp() and getPort()                                                   *)
GetIp == address' = WithAddress(address) /\ UNCHANGED said

(* getProtocol(), getNativeAddress() and getNativeAddressSize()            *)
GetNativeAddress == address' = WithNative(address) /\ UNCHANGED said

AddressStep ==
  \/ \E text \in Texts : Construct(text) \/ SetAddress(text)
  \/ \E native \in Natives : SetNativeAddress(native)
  \/ GetIp \/ GetNativeAddress

-----------------------------------------------------------------------------
(* What the getters return.                                                *)
Ip     == WithAddress(address).ip
Native == WithNative(address).native

(* Once the address was set, every getter answers for what was said last,  *)
(* whatever was asked and converted before: no representation of an        *)
(* earlier address survives (inet_address.cc:67-207).                      *)
CacheCoherent ==
  /\ said \in Texts => Ip = said /\ Native = PtoN(said)
  /\ said \in Natives => Ip = said.text /\ Native = said
=============================================================================
