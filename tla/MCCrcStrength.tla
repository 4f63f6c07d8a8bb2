--------------------------- MODULE MCCrcStrength ----------------------------
(***************************************************************************)
(* An instance of CrcStrength: the unit bytes and 0 are sent.  Next to the *)
(* damage that the checks of a message cannot see, one bit of one byte is  *)
(* damaged, or all of them, or two bytes in different ways, or the address *)
(* and its complement alike.                                               *)
(***************************************************************************)
EXTENDS CrcStrength

McBytes == {0, 1, 2, 4, 8, 16, 32, 64, 128}
OneByte == { [NoDamage EXCEPT ![i] = m] : i \in 1 .. 4, m \in (McBytes \ {0}) \cup {255} }
TwoBytes == { <<0, 0, m, 2 * m>> : m \in {1, 8, 64} } \cup { <<m, m, 0, 0>> : m \in {1, 128} }
McSlips == OneByte \cup TwoBytes
=============================================================================
