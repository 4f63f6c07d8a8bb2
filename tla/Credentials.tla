---------------------------- MODULE Credentials -----------------------------
(***************************************************************************)
(* Credentials on their way to the daemon: typed, or read from an NFC tag, *)
(* then built into a WiFi string and parsed again.  A tag is given by the  *)
(* credentials that were written to it and the layout they were written    *)
(* in; a reader may have got only its first pages.                         *)
(***************************************************************************)
EXTENDS WifiString

INSTANCE NfcTag

CONSTANTS
  Tags,       \* the tags held to the Flipper: [nets, layout]
  CharOf      \* the characters of WifiString that bytes of a tag stand for

ASSUME CharAssumption == CharOf \in [1 .. 255 -> Alphabet]

VARIABLES
  tag,        \* the tag that the credentials come from, or NoTag
  pages       \* pages_read

tagVars == <<tag, pages>>

NoTag == [nets |-> <<>>]
NoCreds == [ssid |-> <<>>, password |-> <<>>, security |-> "OPEN", hidden |-> FALSE]

-----------------------------------------------------------------------------
(* The tag as it is written: WSC in NDEF in the TLVs of a Type 2 tag.      *)

U16(n) == <<(n \div 256) % 256, n % 256>>
WscAttribute(id, value) == U16(id) \o U16(Len(value)) \o value

\* The attributes of a network: one without a key has no key attribute, and
\* "mac" is an attribute that the reader ignores.
Networks == [ssid : Seq(Byte), key : Seq(Byte), auth : Word]
AttributeNames == {"ssid", "auth", "key", "mac"}

Attribute(net, name) ==
  CASE name = "ssid" -> WscAttribute(ATTR_SSID, net.ssid)
    [] name = "auth" -> WscAttribute(ATTR_AUTH_TYPE, U16(net.auth))
    [] name = "key"  -> IF net.key = <<>> THEN <<>> ELSE WscAttribute(ATTR_NET_KEY, net.key)
    [] name = "mac"  -> WscAttribute(4128, <<1, 2, 3, 4, 5, 6>>)

\* A Credential with its attributes in a given order.
Credential(net, order) ==
  WscAttribute(ATTR_CREDENTIAL, FlattenSeq([i \in DOMAIN order |-> Attribute(net, order[i])]))

NdefHeader(last, short, id, type, payload) ==
  LET flags == TNF_MEDIA_TYPE + (IF id # <<>> THEN 8 ELSE 0)
               + (IF short THEN 16 ELSE 0) + (IF last THEN 64 ELSE 0)
  IN <<flags, Len(type)>>
     \o (IF short THEN <<Len(payload)>> ELSE <<0, 0>> \o U16(Len(payload)))
     \o (IF id # <<>> THEN <<Len(id)>> ELSE <<>>)

NdefRecord(last, short, id, type, payload) ==
  NdefHeader(last, short, id, type, payload) \o type \o id \o payload

\* Version, then one Credential for each network.
WscPayload(nets, order) ==
  WscAttribute(4170, <<16>>) \o FlattenSeq([i \in DOMAIN nets |-> Credential(nets[i], order)])

\* The record that names the networks, behind another one.
WscMessage(t) ==
  LET l == t.layout
  IN (IF l.first = <<>> THEN <<>> ELSE NdefRecord(FALSE, TRUE, <<>>, l.first, <<7>>))
     \o NdefRecord(TRUE, l.short, l.id, WifiType, WscPayload(t.nets, l.order))

Tlv(type, long, value) ==
  <<type>> \o (IF long \/ Len(value) > 254 THEN <<255>> \o U16(Len(value))
                                           ELSE <<Len(value)>>) \o value

\* A TLV before that of the message; NULL has neither length nor value.
Leading(tlv) == IF tlv.type = TLV_NULL THEN <<TLV_NULL>> ELSE Tlv(tlv.type, FALSE, tlv.value)

WrittenArea(t) ==
  FlattenSeq([i \in DOMAIN t.layout.lead |-> Leading(t.layout.lead[i])])
    \o Tlv(TLV_NDEF_MSG, t.layout.long, WscMessage(t)) \o <<TLV_TERMINATOR>>

\* Whole pages: the capability container in the last of the first four, then
\* the area, filled up.
Written(t) ==
  LET fill == [i \in 1 .. ((4 - (Len(WrittenArea(t)) % 4)) % 4) |-> 0]
  IN <<0, 0, 0, 0, 0, 0, 0, 0, 0, 0, 0, 0, CC_MAGIC, 16, 18, 0>> \o WrittenArea(t) \o fill

\* What a layout may be: no message TLV but an empty one before that of the
\* message, and everything in a Credential that the network has.
Layout(l) ==
  /\ l.lead \in Seq([type : Byte \ {TLV_TERMINATOR}, value : Seq(Byte)])
  /\ \A i \in DOMAIN l.lead :
       /\ Len(l.lead[i].value) \in Word
       /\ l.lead[i].type = TLV_NDEF_MSG => l.lead[i].value = <<>>
  /\ l.long \in BOOLEAN /\ l.short \in BOOLEAN
  /\ l.id \in Seq(Byte) /\ Len(l.id) \in Byte /\ l.first \in Seq(Byte) /\ Len(l.first) \in Byte
  /\ l.order \in Seq(AttributeNames)
  /\ \A name \in {"ssid", "auth", "key"} : \E i \in DOMAIN l.order : l.order[i] = name

\* Any networks and keys, in any layout, as long as the lengths written fit.
ASSUME TagAssumption ==
  \A t \in Tags :
    /\ t.nets \in Seq(Networks) /\ t.nets # <<>>
    /\ Layout(t.layout)
    /\ Len(WscMessage(t)) \in Word
    /\ t.layout.short => Len(WscPayload(t.nets, t.layout.order)) \in Byte

\* The bytes of every tag, and how many pages they are.
Memory == [t \in Tags |-> Written(t)]
PagesOf(t) == Len(Memory[t]) \div 4

-----------------------------------------------------------------------------
TypedInit == Init /\ tag = NoTag /\ pages = 0

TagInit ==
  /\ tag \in Tags /\ pages \in 4 .. PagesOf(tag)
  /\ creds = NoCreds /\ size = 256
  /\ wire = <<>> /\ parsed = Failed /\ phase = "scanning"

\* The bytes of a name or key, as the characters of WifiString.
Text(bytes) == [i \in DOMAIN bytes |-> CharOf[bytes[i]]]

\* The poller's callback, and the report that a WiFi tag was found or not.
Scan ==
  /\ phase = "scanning"
  /\ LET read == parse_wifi_tag(SubSeq(Memory[tag], 1, 4 * pages))
     IN IF read.found
        THEN /\ creds' = [ssid |-> Text(read.ssid), password |-> Text(read.password),
                          security |-> read.security, hidden |-> FALSE]
             /\ phase' = "entered"
        ELSE phase' = "no_wifi" /\ UNCHANGED creds
  /\ UNCHANGED <<size, wire, parsed, tagVars>>

\* A tag may hold an SSID that begins with NUL, an empty name in C: it is
\* shown, and refused when it is sent.
Send ==
  /\ IF creds.ssid # <<>> THEN Transmit
     ELSE phase = "entered" /\ phase' = "send_failed" /\ UNCHANGED <<creds, size, wire, parsed>>
  /\ UNCHANGED tagVars

ScanInit == TypedInit \/ TagInit
ScanNext == Scan \/ Send \/ (Receive /\ UNCHANGED tagVars)

ScanSpec == ScanInit /\ [][ScanNext]_<<vars, tagVars>>

-----------------------------------------------------------------------------
\* What the app should make of a network on a tag: a name or key that is too
\* long for it is left out, never cut.
Fits(bytes, max) == IF Len(bytes) \leq max THEN CString(bytes) ELSE <<>>

NetCreds(net) ==
  [ssid |-> Text(Fits(net.ssid, SsidMax)), password |-> Text(Fits(net.key, PassMax)),
   security |-> AuthType(net.auth), hidden |-> FALSE]

\* An open network has no key that would be used.
Names(c, net) ==
  /\ c.ssid = NetCreds(net).ssid /\ c.security = NetCreds(net).security
  /\ c.security # "OPEN" => c.password = NetCreds(net).password

\* A network that the app has room for, with a key if it takes one.
Complete(net) ==
  Len(net.ssid) \in 1 .. SsidMax /\ (Len(net.key) \in 1 .. PassMax \/ net.auth = AUTH_OPEN)

\* Of however many pages of a tag, whatever the order of attributes and records:
\* credentials that are accepted are all of one network on the tag, never a
\* name with the key of another or one whose key was not read.  Attributes of
\* several networks fill one struct, so that this takes a tag with one network
\* or one that ends with a network whose attributes all replace earlier ones.
FromOneNetwork ==
  /\ tag # NoTag /\ phase \in {"entered", "built", "parsed"}
  /\ Len(tag.nets) = 1 \/ Complete(tag.nets[Len(tag.nets)])
  => \E i \in DOMAIN tag.nets : Names(creds, tag.nets[i])

\* A tag that was read to its end is not refused, if some name on it fits.
WholeTagAccepted ==
  phase = "no_wifi" /\ pages = PagesOf(tag) =>
    \A i \in DOMAIN tag.nets : Len(tag.nets[i].ssid) \notin 1 .. SsidMax
=============================================================================
