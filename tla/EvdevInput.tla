----------------------------- MODULE EvdevInput -----------------------------
(***************************************************************************)
(* The input of receivers without LIRC (daemon/wfr_evdev.c): the driver    *)
(* reports a NEC message as one 32-bit raw value, in which every byte has  *)
(* its bits in reverse order.  A raw value is the sequence of its four     *)
(* bytes, from the highest: address, its complement, command, its          *)
(* complement.                                                             *)
(***************************************************************************)
EXTENDS Bits

-----------------------------------------------------------------------------
(* The driver.                                                             *)

\* The bits of a byte from the other end.
Mirror(b) ==
  128 * Bit(b, 1) + 64 * Bit(b, 2) + 32 * Bit(b, 4) + 16 * Bit(b, 8)
    + 8 * Bit(b, 16) + 4 * Bit(b, 32) + 2 * Bit(b, 64) + Bit(b, 128)

\* What the driver reports for a message with this address and command.
Report(address, command) ==
  <<Mirror(address), Mirror(255 - address), Mirror(command), Mirror(255 - command)>>

-----------------------------------------------------------------------------
(* The reader.                                                             *)

\* Exchange the bits under mask high with those w times lower, under low.
Exchange(b, high, low, w) == And(b, high) \div w + And(b, low) * w

\* Mutant of reverse_bits: the last of the three exchanges is forgotten.
ReversedTwice(b) == Exchange(Exchange(b, 240, 15, 16), 204, 51, 4)

\* reverse_bits: nibbles, then pairs, then neighbours.
reverse_bits(b) == Exchange(Exchange(Exchange(b, 240, 15, 16), 204, 51, 4), 170, 85, 2)

Reversed == [b \in Byte |-> reverse_bits(b)]

\* Mutant of Valid: the complement of the command is not compared.
ValidAddress(raw) == Xor(Reversed[raw[1]], Reversed[raw[2]]) = 255

\* Both complements must fit; a message that does not pass is skipped.
Valid(raw) ==
  /\ Xor(Reversed[raw[1]], Reversed[raw[2]]) = 255
  /\ Xor(Reversed[raw[3]], Reversed[raw[4]]) = 255

\* What wfr_evdev_read_scancode returns for a valid message.
Scancode(raw) == [address |-> Reversed[raw[1]], command |-> Reversed[raw[3]]]
=============================================================================
