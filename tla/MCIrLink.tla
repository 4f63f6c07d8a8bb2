------------------------------ MODULE MCIrLink ------------------------------
(***************************************************************************)
(* A small instance of IrLink, with the CRC of the code.  The strings have *)
(* the lengths 1 and 2, so that a new START may or may not have the length *)
(* that the decoder already expects, and the two of length 2 have the same *)
(* check byte, so that the CRC cannot tell them apart.                     *)
(***************************************************************************)
EXTENDS IrLink

CRC == INSTANCE Crc8

McCrc(s) == CRC!wfr_crc8(s)
McPayloads == { <<1>>, <<1, 1>>, <<2, 8>> }
McNoise == {0, 1}

ASSUME SameCheckByte == McCrc(<<1, 1>>) = McCrc(<<2, 8>>)
=============================================================================
