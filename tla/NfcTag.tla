------------------------------- MODULE NfcTag -------------------------------
(***************************************************************************)
(* The walk over the memory of an NFC tag (flipper/wfr_nfc.c): the TLVs of *)
(* the tag, the NDEF records of a message, the WSC attributes of a record. *)
(* A stretch of memory is the sequence of its bytes, and going on in it is *)
(* going on with the rest of the sequence.  Sums are those of the code as  *)
(* long as no record claims 2^31 bytes or more, which four bytes can say:  *)
(* then the code's wrap at 2^32.  LengthsFit says that no record does.     *)
(***************************************************************************)
EXTENDS Bits, Sequences, FiniteSetsExt

CONSTANTS
  SsidMax,   \* WFR_SSID_MAX_LEN
  PassMax    \* WFR_PASS_MAX_LEN

\* WSC_ATTR_*
ATTR_CREDENTIAL == 4110   \* 0x100E
ATTR_SSID       == 4165   \* 0x1045
ATTR_AUTH_TYPE  == 4099   \* 0x1003
ATTR_NET_KEY    == 4135   \* 0x1027

\* WSC_AUTH_*
AUTH_OPEN   == 1
AUTH_SHARED == 4

\* NDEF_TLV_*, NDEF_TNF_MEDIA_TYPE, NDEF_CC_MAGIC
TLV_NULL       == 0
TLV_NDEF_MSG   == 3
TLV_TERMINATOR == 254
TNF_MEDIA_TYPE == 2
CC_MAGIC       == 225

\* wifi_ndef_type: "application/vnd.wfa.wsc"
WifiType == <<97, 112, 112, 108, 105, 99, 97, 116, 105, 111, 110, 47,
              118, 110, 100, 46, 119, 102, 97, 46, 119, 115, 99>>

\* A big-endian number of two bytes, and of four.
Number(high, low) == 256 * high + low
Number4(d, i) == Number(Number(Number(d[i], d[i + 1]), d[i + 2]), d[i + 3])

Flag(byte, weight) == Bit(byte, weight) = 1

\* The memory from its n-th byte on.
From(s, n) == SubSeq(s, n, Len(s))

\* The C string in a buffer ends at its first NUL.
CString(bytes) ==
  SubSeq(bytes, 1, Min({ i \in 1 .. Len(bytes) + 1 : i \leq Len(bytes) => bytes[i] = 0 }) - 1)

-----------------------------------------------------------------------------
(* WSC attributes.  What is found so far is a record.                      *)

\* The WfrWifiCreds being filled, whose buffers hold max characters, and found_ssid.
CStrings(max) == { s \in Seq(1 .. 255) : Len(s) \leq max }
Found == [ssid : CStrings(SsidMax), password : CStrings(PassMax),
          security : {"OPEN", "WPA", "WEP"}, found : BOOLEAN]

\* What memset and found_ssid = false leave.
NothingFound == [ssid |-> <<>>, password |-> <<>>, security |-> "OPEN", found |-> FALSE]

AuthType(auth) ==
  CASE auth = AUTH_OPEN   -> "OPEN"
    [] auth = AUTH_SHARED -> "WEP"
    [] OTHER              -> "WPA"

\* Mutant of SimpleAttribute: the first SSID is kept.
FirstSsidKept(id, value, r) ==
  CASE id = ATTR_SSID /\ Len(value) \in 1 .. SsidMax /\ ~r.found ->
         [r EXCEPT !.ssid = CString(value), !.found = TRUE]
    [] id = ATTR_AUTH_TYPE /\ Len(value) = 2 ->
         [r EXCEPT !.security = AuthType(Number(value[1], value[2]))]
    [] id = ATTR_NET_KEY /\ Len(value) \in 1 .. PassMax ->
         [r EXCEPT !.password = CString(value)]
    [] OTHER -> r

\* An attribute that is no container: a later one replaces an earlier one.
SimpleAttribute(id, value, r) ==
  CASE id = ATTR_SSID /\ Len(value) \in 1 .. SsidMax ->
         [r EXCEPT !.ssid = CString(value), !.found = TRUE]
    [] id = ATTR_AUTH_TYPE /\ Len(value) = 2 ->
         [r EXCEPT !.security = AuthType(Number(value[1], value[2]))]
    [] id = ATTR_NET_KEY /\ Len(value) \in 1 .. PassMax ->
         [r EXCEPT !.password = CString(value)]
    [] OTHER -> r

\* parse_wsc_attributes: the attributes in d, and in the containers in it.
Attributes[d \in Seq(Byte)] ==
  [r \in Found |->
     LET id == Number(d[1], d[2])
         n  == Number(d[3], d[4])
         value == SubSeq(d, 5, 4 + n)
     IN IF Len(d) < 4 \/ 4 + n > Len(d) THEN r
        ELSE Attributes[From(d, 5 + n)]
               [IF id = ATTR_CREDENTIAL THEN Attributes[value][r]
                                        ELSE SimpleAttribute(id, value, r)]]

-----------------------------------------------------------------------------
(* NDEF records.                                                           *)

\* Mutant of Header: the length of the ID is not counted.
HeaderWithoutId(d) ==
  LET width == IF Flag(d[1], 16) THEN 1 ELSE 4
  IN [tnf  |-> d[1] % 8,
      last |-> Flag(d[1], 64),
      type |-> d[2],
      size |-> 2 + width,
      id   |-> 0,
      payload |-> IF Flag(d[1], 16) THEN d[3] ELSE Number4(d, 3)]

\* The header of the record that d begins with, which has to be whole: flags,
\* length of the type, of the payload (one byte if SR, else four), of the ID
\* (if IL); size is the header's own.
Header(d) ==
  LET width == IF Flag(d[1], 16) THEN 1 ELSE 4
      has_id == Flag(d[1], 8)
  IN [tnf  |-> d[1] % 8,
      last |-> Flag(d[1], 64),
      type |-> d[2],
      size |-> 2 + width + (IF has_id THEN 1 ELSE 0),
      id   |-> IF has_id THEN d[3 + width] ELSE 0,
      payload |-> IF Flag(d[1], 16) THEN d[3] ELSE Number4(d, 3)]

HeaderIsWhole(d) ==
  /\ Len(d) \geq 3
  /\ LET width == IF Flag(d[1], 16) THEN 1 ELSE 4
     IN Len(d) \geq 2 + width + (IF Flag(d[1], 8) THEN 1 ELSE 0)

\* record_total, if the sum of 32 bits that the code takes does not wrap.
Total(h) == h.size + h.type + h.id + h.payload

\* parse_ndef_record, of a record that is whole.
Record(d) ==
  LET h == Header(d) IN
  IF h.tnf # TNF_MEDIA_TYPE \/ SubSeq(d, h.size + 1, h.size + h.type) # WifiType
  THEN NothingFound
  ELSE Attributes[SubSeq(d, h.size + h.type + h.id + 1, Total(h))][NothingFound]

\* parse_ndef_message: the first record with an SSID, up to the last record.
Message[d \in Seq(Byte)] ==
  IF ~HeaderIsWhole(d) \/ Total(Header(d)) > Len(d) THEN NothingFound
  ELSE IF Record(d).found THEN Record(d)
  ELSE IF Header(d).last THEN NothingFound
  ELSE Message[From(d, Total(Header(d)) + 1)]

-----------------------------------------------------------------------------
(* TLVs.                                                                   *)

\* The length of the TLV that a begins with: one byte, or two after 0xFF; and
\* where its value begins.
LongLength(a) == Len(a) \geq 2 /\ a[2] = 255
LengthIsWhole(a) == Len(a) \geq 2 /\ (LongLength(a) => Len(a) \geq 4)
TlvLength(a) == IF LongLength(a) THEN Number(a[3], a[4]) ELSE a[2]
ValueAt(a) == IF LongLength(a) THEN 5 ELSE 3

TlvIsWhole(a) == LengthIsWhole(a) /\ ValueAt(a) - 1 + TlvLength(a) \leq Len(a)

\* The loop of wfr_nfc_parse_wifi_tag over the data area.
Area[a \in Seq(Byte)] ==
  IF a = <<>> THEN NothingFound
  ELSE IF a[1] = TLV_NULL THEN Area[From(a, 2)]
  ELSE IF a[1] = TLV_TERMINATOR \/ ~TlvIsWhole(a) THEN NothingFound
  ELSE LET value == SubSeq(a, ValueAt(a), ValueAt(a) - 1 + TlvLength(a))
       IN IF a[1] = TLV_NDEF_MSG /\ Message[value].found THEN Message[value]
          ELSE Area[From(a, ValueAt(a) + TlvLength(a))]

\* wfr_nfc_parse_wifi_tag: the pages that were read, of four bytes each.
parse_wifi_tag(memory) ==
  IF Len(memory) < 5 * 4 \/ memory[3 * 4 + 1] # CC_MAGIC THEN NothingFound
  ELSE Area[From(memory, 4 * 4 + 1)]

-----------------------------------------------------------------------------
(* Where the sums above are those of the code.                             *)

\* No record that the walk over a message comes to claims 2^31 bytes or more.
MessageLengths[d \in Seq(Byte)] ==
  HeaderIsWhole(d) =>
    /\ Total(Header(d)) \leq 2147483647
    /\ Total(Header(d)) \leq Len(d) /\ ~Record(d).found /\ ~Header(d).last =>
         MessageLengths[From(d, Total(Header(d)) + 1)]

\* Nor does one in a message that the walk over an area comes to.
AreaLengths[a \in Seq(Byte)] ==
  a # <<>> /\ a[1] # TLV_TERMINATOR =>
    LET value == SubSeq(a, ValueAt(a), ValueAt(a) - 1 + TlvLength(a))
    IN IF a[1] = TLV_NULL THEN AreaLengths[From(a, 2)]
       ELSE TlvIsWhole(a) =>
              /\ a[1] = TLV_NDEF_MSG => MessageLengths[value]
              /\ ~(a[1] = TLV_NDEF_MSG /\ Message[value].found) =>
                   AreaLengths[From(a, ValueAt(a) + TlvLength(a))]

LengthsFit(memory) ==
  Len(memory) \geq 5 * 4 /\ memory[3 * 4 + 1] = CC_MAGIC => AreaLengths[From(memory, 4 * 4 + 1)]
=============================================================================
