-------------------------------- MODULE Bits --------------------------------
(***************************************************************************)
(* Bytes as the code handles them in wfr_crc8 and in wfr_evdev.c: uint8_t, *)
(* with the operators of C on their bits.  A bit is named by its weight.   *)
(***************************************************************************)
EXTENDS Naturals

Byte == 0 .. 255

\* uint16_t.
Word == { n \in Nat : n < 65536 }

Bit(b, w) == (b \div w) % 2

\* a ^ b and a & b.
Xor(a, b) ==
  LET at(w) == w * ((Bit(a, w) + Bit(b, w)) % 2)
  IN at(1) + at(2) + at(4) + at(8) + at(16) + at(32) + at(64) + at(128)

And(a, b) ==
  LET at(w) == w * Bit(a, w) * Bit(b, w)
  IN at(1) + at(2) + at(4) + at(8) + at(16) + at(32) + at(64) + at(128)
=============================================================================
