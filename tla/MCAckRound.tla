----------------------------- MODULE MCAckRound -----------------------------
(***************************************************************************)
(* An instance of AckRound, with the CRC of the code.  The texts are a     *)
(* letter and bytes, and anything behind the letter 'W' parses.  The       *)
(* requests are such that some mixes have their check byte: <<87, 87, 1>>  *)
(* has that of the first, <<87, 79, 2>>, with a byte of an answer in it,   *)
(* that of the second.                                                     *)
(***************************************************************************)
EXTENDS AckRound

CRC == INSTANCE Crc8

McCrc(s) == CRC!wfr_crc8(s)
McParses(text) == Len(text) > 1
McRequests == { <<87, 1, 164>>, <<87, 2, 230>> }
McOkText == <<79, 1>>
McFailText == <<70>>
=============================================================================
