----------------------------- MODULE WifiString -----------------------------
(***************************************************************************)
(* The payload: a WiFi QR string built by the Flipper from the credentials *)
(* and parsed again by the daemon (flipper/protocol/wfr_protocol.c, which  *)
(* both sides compile).  Strings are sequences of characters, without the  *)
(* final NUL of C; a return value of 0 or false is Failed.                 *)
(***************************************************************************)
EXTENDS Naturals, Sequences, FiniteSets, SequencesExt

CONSTANTS
  Alphabet,   \* characters that occur in names and passwords
  SsidMax,    \* WFR_SSID_MAX_LEN
  PassMax,    \* WFR_PASS_MAX_LEN
  OutSizes    \* sizes of the buffer that the string is built in

\* Nothing is asked of the characters: a name may hold every separator.
ASSUME WifiAssumption ==
  /\ SsidMax \in Nat /\ PassMax \in Nat
  /\ OutSizes \subseteq Nat

VARIABLES
  creds,   \* WfrWifiCreds
  size,    \* out_size
  wire,    \* the string built
  parsed,  \* the credentials parsed from it
  phase    \* "entered", "built", "parsed"

vars == <<creds, size, wire, parsed, phase>>

Failed == <<>>

Securities == {"OPEN", "WPA", "WEP", "SAE"}
Creds == [ssid : BoundedSeq(Alphabet, SsidMax), password : BoundedSeq(Alphabet, PassMax),
          security : Securities, hidden : BOOLEAN]

-----------------------------------------------------------------------------
(* Building.                                                               *)

\* Mutant of NeedsEscape: the colon is forgotten.
EscapesNoColon(c) == c \in {"\\", ";", "\"", ","}

NeedsEscape(c) == c \in {"\\", ";", ":", "\"", ","}

Escape(c) == IF NeedsEscape(c) THEN <<"\\", c>> ELSE <<c>>

\* wfr_escape_append: stops for good at the first character without room.
EscapeAppend(out, max, s) ==
  LET write[i \in 0 .. Len(s)] ==   \* once s[i] has been looked at
        IF i = 0 THEN [out |-> out, stopped |-> FALSE]
        ELSE LET w == write[i - 1] IN
             IF ~w.stopped /\ Len(w.out) + Len(Escape(s[i])) \leq max - 1
             THEN [w EXCEPT !.out = @ \o Escape(s[i])]
             ELSE [w EXCEPT !.stopped = TRUE]
  IN write[Len(s)].out

TypeName(security) ==
  CASE security = "WPA" -> <<"W", "P", "A">>
    [] security = "WEP" -> <<"W", "E", "P">>
    [] security = "SAE" -> <<"S", "A", "E">>
    [] OTHER            -> <<"n", "o", "p", "a", "s", "s">>

HiddenName(hidden) ==
  IF hidden THEN <<"t", "r", "u", "e">> ELSE <<"f", "a", "l", "s", "e">>

Prefix == <<"W", "I", "F", "I", ":", "T", ":">>
Ending(hidden) == <<";", "H", ":">> \o HiddenName(hidden) \o <<";", ";">>

\* Mutant of Build: one byte of the buffer is not used.
BuildShort(c, max) ==
  LET head == Prefix \o TypeName(c.security) \o <<";", "S", ":">>
      name == EscapeAppend(head, max, c.ssid)
      pass == EscapeAppend(name \o <<";", "P", ":">>, max, c.password)
  IN IF \/ max < 16 \/ Len(head) \geq max
        \/ Len(name) + 3 \geq max
        \/ Len(pass) + Len(Ending(c.hidden)) + 1 \geq max
     THEN Failed ELSE pass \o Ending(c.hidden)

\* wfr_build_wifi_string into a buffer of max bytes.
Build(c, max) ==
  LET head == Prefix \o TypeName(c.security) \o <<";", "S", ":">>
      name == EscapeAppend(head, max, c.ssid)
      pass == EscapeAppend(name \o <<";", "P", ":">>, max, c.password)
  IN IF \/ max < 16 \/ Len(head) \geq max
        \/ Len(name) + 3 \geq max
        \/ Len(pass) + Len(Ending(c.hidden)) \geq max
     THEN Failed ELSE pass \o Ending(c.hidden)

-----------------------------------------------------------------------------
(* Parsing.                                                                *)

\* The value from a place on, unescaped, up to an unescaped ';' or room characters.
Value(s, from, room) ==
  LET read[k \in 0 .. room] ==   \* p and out, once round the loop k times
        IF k = 0 THEN [at |-> from, out |-> <<>>]
        ELSE LET r == read[k - 1] IN
             IF r.at > Len(s) \/ s[r.at] = ";" THEN r
             ELSE IF s[r.at] = "\\" /\ r.at < Len(s)
                  THEN [at |-> r.at + 2, out |-> Append(r.out, s[r.at + 1])]
                  ELSE [at |-> r.at + 1, out |-> Append(r.out, s[r.at])]
  IN read[room].out

\* wfr_extract_field: the first place where the key stands, wherever it is.
Places(s, key) ==
  { i \in 1 .. Len(s) + 1 - Len(key) : SubSeq(s, i, i + Len(key) - 1) = key }

Field(s, key, room) ==
  LET i == CHOOSE i \in Places(s, key) : \A j \in Places(s, key) : i \leq j
  IN Value(s, i + Len(key), room)

\* wfr_parse_wifi_string.
Security(name) ==
  IF \E s \in Securities \ {"OPEN"} : TypeName(s) = name
  THEN CHOOSE s \in Securities \ {"OPEN"} : TypeName(s) = name
  ELSE "OPEN"

Parse(s) ==
  LET has(key) == Places(s, key) # {}
      S == <<"S", ":">>  P == <<"P", ":">>  H == <<"H", ":">>  T == <<"T", ":">>
  IN IF SubSeq(s, 1, 5) # SubSeq(Prefix, 1, 5) \/ ~has(T) \/ ~has(S) THEN Failed
     ELSE IF Field(s, S, SsidMax) = <<>> THEN Failed
     ELSE [ssid     |-> Field(s, S, SsidMax),
           password |-> IF has(P) THEN Field(s, P, PassMax) ELSE <<>>,
           security |-> Security(Field(s, T, 15)),
           hidden   |-> has(H) /\ Field(s, H, 7) = HiddenName(TRUE)]

-----------------------------------------------------------------------------
\* The Flipper refuses an empty name before it builds anything.
Init ==
  /\ creds \in { c \in Creds : c.ssid # <<>> } /\ size \in OutSizes
  /\ wire = <<>> /\ parsed = Failed /\ phase = "entered"

Transmit ==
  /\ phase = "entered" /\ phase' = "built"
  /\ wire' = Build(creds, size)
  /\ UNCHANGED <<creds, size, parsed>>

Receive ==
  /\ phase = "built" /\ wire # Failed /\ phase' = "parsed"
  /\ parsed' = Parse(wire)
  /\ UNCHANGED <<creds, size, wire>>

Next == Transmit \/ Receive

Spec == Init /\ [][Next]_vars

-----------------------------------------------------------------------------
\* The daemon parses exactly the credentials that the Flipper was given: no
\* character of a name or a password is taken for the end of its field or for
\* the key of another, and a buffer too small never sends a shortened one.
RoundTrip == phase = "parsed" => parsed = creds

\* A string is built whenever it fits, and only then: its length is that of
\* the fixed parts and of every character, twice if it has to be escaped.
Escaped(s) == Len(s) + Cardinality({ i \in DOMAIN s : NeedsEscape(s[i]) })

BuiltIffFits ==
  phase \in {"built", "parsed"} =>
    (wire # Failed <=>
       13 + Len(TypeName(creds.security)) + Escaped(creds.ssid) + Escaped(creds.password)
          + Len(HiddenName(creds.hidden)) + 5 < size)
=============================================================================
