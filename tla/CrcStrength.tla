---------------------------- MODULE CrcStrength -----------------------------
(***************************************************************************)
(* What the checks on single messages and the check byte are worth         *)
(* together.  The bytes of a payload, of any length, go one message each   *)
(* through the evdev input, which one of the messages may reach damaged.   *)
(* wfr_crc8 runs over the payload as sent and, next to it, over the        *)
(* payload as received.                                                    *)
(***************************************************************************)
EXTENDS EvdevInput, Crc8, FiniteSets

CONSTANTS
  Bytes,    \* the bytes that are sent
  Slips     \* changes to one byte of a raw value alone, or to two differently

\* Nothing is asked of the damage.
ASSUME CrcAssumption ==
  /\ Bytes \subseteq Byte
  /\ Slips \subseteq [1 .. 4 -> Byte]

VARIABLES
  good,     \* the CRC of the payload as sent
  bad,      \* the CRC of the payload as received
  struck,   \* the two payloads differ, in one byte
  hits,     \* how many bytes of the last raw value were damaged
  got       \* the last message: "sent", "another", "skipped"

vars == <<good, bad, struck, hits, got>>

DATA == 164   \* WFR_FRAME_MAGIC with WFR_FRAME_TYPE_DATA

\* The decoder looks at the magic and the type; the two lowest bits, the pass, are masked.
IsData(address) == address \div 4 = DATA \div 4

\* The damage to a raw value: a mask for each of its bytes.  Both bytes of the
\* command may be changed to fit each other again.
NoDamage == <<0, 0, 0, 0>>
Masks == {NoDamage} \cup Slips \cup { <<0, 0, m, m>> : m \in Byte \ {0} }

\* What the reader makes of a byte's message: its scancode, or nothing.
Unread == [address |-> 0, command |-> 0]
Damaged(raw, mask) == [i \in 1 .. 4 |-> Xor(raw[i], mask[i])]
Received ==
  [b \in Bytes |-> [mask \in Masks |->
     LET raw == Damaged(Report(DATA, b), mask)
     IN IF Valid(raw) THEN Scancode(raw) ELSE Unread]]

DamagedBytes(mask) == Cardinality({ i \in 1 .. 4 : mask[i] # 0 })

Init ==
  good = 0 /\ bad = 0 /\ struck = FALSE /\ hits = 0 /\ got = "sent"

\* A byte is sent, and its message is read.
Read(b, mask) ==
  LET byte == Received[b][mask].command IN
  /\ IsData(Received[b][mask].address)
  /\ good' = Turn(good, b) /\ bad' = Turn(bad, byte)
  /\ got' = IF byte = b THEN "sent" ELSE "another"
  /\ struck' = (struck \/ byte # b)
  /\ hits' = DamagedBytes(mask)

\* Its message is skipped, or is no DATA any more.  With a byte missing the END
\* completes nothing, and the payload starts again with the next transmission.
Miss(b, mask) ==
  /\ ~IsData(Received[b][mask].address)
  /\ good' = 0 /\ bad' = 0 /\ struck' = FALSE
  /\ got' = IF Received[b][mask] = Unread THEN "skipped" ELSE "another"
  /\ hits' = DamagedBytes(mask)

Next ==
  \E b \in Bytes, mask \in IF struck THEN {NoDamage} ELSE Masks :
    Read(b, mask) \/ Miss(b, mask)

Spec == Init /\ [][Next]_vars

-----------------------------------------------------------------------------
\* A payload with one byte changed, or with one message of two neighbours lost
\* and the other repeated, never passes the check in END: however long it is,
\* and whatever follows the changed byte.
OneByteDetected == struck => good # bad

\* An undamaged message is read as it was sent, bit order and all, and a
\* message with one damaged byte, whatever the damage, is never read.
OnlyWholeMessages ==
  /\ hits = 0 => got = "sent"
  /\ hits = 1 => got = "skipped"

\* The table and the loop compute CRC-8/CCITT, polynomial x^8 + x^2 + x + 1 and
\* initial value 0, as the header says: the CRC after a byte is the remainder
\* of (crc xor byte) * x^8, taken bit by bit with no table.
Shift(r) == IF r < 128 THEN 2 * r ELSE Xor(2 * r - 256, 7)
FourShifts(r) == Shift(Shift(Shift(Shift(r))))
Remainder == [x \in Byte |-> FourShifts(FourShifts(x))]
IsRemainder ==
  [][~struck' =>
       \A b \in Bytes : Read(b, NoDamage) => good' = Remainder[Xor(good, b)]]_vars
=============================================================================
