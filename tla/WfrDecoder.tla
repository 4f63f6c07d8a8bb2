----------------------------- MODULE WfrDecoder -----------------------------
(***************************************************************************)
(* The frame reassembler: wfr_decode_feed_scancode of the daemon           *)
(* (daemon/wfr_decode.c) and wfr_ack_decode_feed of the Flipper            *)
(* (flipper/wfr_decode.c), which are the same machine.  The operators say  *)
(* what one frame does to a decoder; the modules that EXTEND this one say  *)
(* who feeds it.                                                           *)
(*                                                                         *)
(* A decoder is a record: open is in_transmission, len is expected_len and *)
(* buf is the prefix of payload_buf written since write_cursor was last 0, *)
(* so that Len(buf) is write_cursor.  The bytes beyond the cursor are      *)
(* never read: the CRC and the copy out need write_cursor = expected_len.  *)
(* start_time is kept by the user of the module as an age.                 *)
(***************************************************************************)
EXTENDS Naturals, Sequences

CONSTANTS
  Crc(_),   \* wfr_crc8: the check byte of a sequence of bytes
  Timeout   \* WFR_TIMEOUT_SEC, in the ticks of the clock of the model

ASSUME TimeoutAssumption == Timeout \in Nat \ {0}

\* The range of a frame's command byte (uint8_t).
Byte == 0 .. 255

\* What memset(dec, 0, sizeof) leaves: no transmission, nothing received.
Idle == [open |-> FALSE, len |-> 0, buf |-> <<>>]

Decoder == [open : BOOLEAN, len : Byte, buf : Seq(Byte)]

\* check_timeout: an open transmission whose START is Timeout or more old.
Expired(d, age) == d.open /\ age >= Timeout

\* Mutant of AfterStart: a START is ignored while a transmission is open.
StartIgnored(d, n) ==
  IF n = 0 \/ d.open THEN d ELSE [open |-> TRUE, len |-> n, buf |-> <<>>]

\* Mutant of AfterStart: a START of the length already expected does not reset
\* the cursor.
StartKeepsCursor(d, n) ==
  IF n = 0 \/ (d.open /\ d.len = n) THEN d ELSE [open |-> TRUE, len |-> n, buf |-> <<>>]

\* START with length n.  A zero length is refused and leaves the decoder as
\* it was; a START of the length already expected resets only the cursor,
\* any other resets everything: the same decoder in this representation.
AfterStart(d, n) ==
  IF n = 0 THEN d ELSE [open |-> TRUE, len |-> n, buf |-> <<>>]

\* DATA with byte b: stored at the cursor, ignored when the decoder is closed
\* or has all the bytes it expects.
Accepts(d) == d.open /\ Len(d.buf) < d.len
AfterData(d, b) == IF Accepts(d) THEN [d EXCEPT !.buf = Append(@, b)] ELSE d

\* END with check byte c: complete only when every byte is in and the CRC
\* agrees.  A wrong CRC rewinds the cursor and keeps the transmission open,
\* a missing byte changes nothing; both wait for another pass.
Full(d) == d.open /\ Len(d.buf) = d.len
\* Mutant of Completes: END is trusted, whatever came before it.
CompletesAtEnd(d, c) == d.open /\ d.buf # <<>> /\ c = c

Completes(d, c) == Full(d) /\ Crc(d.buf) = c
\* Mutant of AfterEnd: a complete transmission is not reset.
EndLeavesOpen(d, c) ==
  IF Completes(d, c) THEN d
  ELSE IF Full(d) THEN [d EXCEPT !.buf = <<>>]
  ELSE d

AfterEnd(d, c) ==
  IF Completes(d, c) THEN Idle
  ELSE IF Full(d) THEN [d EXCEPT !.buf = <<>>]
  ELSE d
=============================================================================
