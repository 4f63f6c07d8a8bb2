---------------------------- MODULE MCWifiString ----------------------------
(***************************************************************************)
(* An instance of Credentials.  Typed are a plain letter, letters that     *)
(* with the colon are the keys of fields, the separators and the escape.   *)
(* On tags are short, empty and too long names and keys, every layout with *)
(* two networks, and every network in two layouts.                         *)
(***************************************************************************)
EXTENDS Credentials

McAlphabet == {"a", "P", "H", ":", ";", "\\"}

\* The ASCII bytes of names and keys on tags.
McCharOf == [b \in 1 .. 255 |->
  CASE b = 58 -> ":" [] b = 59 -> ";" [] b = 80 -> "P" [] OTHER -> "a"]

Net(ssid, key, auth) == [ssid |-> ssid, key |-> key, auth |-> auth]

Lock == [type |-> 1, value |-> <<160, 12, 52>>]
Null == [type |-> TLV_NULL, value |-> <<>>]
Empty == [type |-> TLV_NDEF_MSG, value |-> <<>>]

Layouts ==
  [lead  : {<<>>, <<Lock, Null, Null>>, <<Empty>>},
   long  : BOOLEAN, short : BOOLEAN, id : {<<>>, <<59, 97>>},
   first : {<<>>, <<84>>, WifiType},                        \* a text, a WSC record with no network
   order : {<<"ssid", "auth", "key", "mac">>, <<"mac", "key", "auth", "ssid">>}]

OneLayout == { l \in Layouts : l.lead = <<>> /\ l.first = <<>> /\ l.short /\ ~l.long /\ l.id = <<>> }

Home == Net(<<97, 58>>, <<59>>, 32)
Guest == Net(<<80>>, <<97, 97>>, 4)
Open == Net(<<58, 97>>, <<>>, 1)
Long == Net(<<97, 97, 97>>, <<80>>, 32)

McTags ==
  { [nets |-> nets, layout |-> l] : nets \in {<<Home>>, <<Home, Guest>>, <<Guest, Open>>, <<Open, Long>>}, l \in Layouts }
  \cup
  { [nets |-> <<Net(ssid, key, auth)>>, layout |-> l] :
      ssid \in {<<97>>, <<58, 59>>, <<97, 97, 97>>, <<0>>, <<97, 0>>},
      key \in {<<>>, <<80, 58>>, <<97, 97, 97>>}, auth \in {1, 2, 4, 32}, l \in OneLayout }

\* What the walk goes through in these tags is short enough for the code's sums.
ASSUME TagLengthsFit == \A t \in Tags : LengthsFit(Memory[t])
=============================================================================
