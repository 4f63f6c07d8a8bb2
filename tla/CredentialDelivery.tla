------------------------- MODULE CredentialDelivery -------------------------
(***************************************************************************)
(* What the infrared link promises: the daemon acts on bursts in the order *)
(* they were sent, on each at most once and as it was sent.  It may miss   *)
(* any of them.  Only where the air damaged a burst may it act on a string *)
(* that nobody sent.                                                       *)
(***************************************************************************)
EXTENDS Naturals, Sequences

CONSTANT Payloads   \* the WiFi strings a sender may transmit

VARIABLES
  sent,       \* the payload of every burst, in order
  damaged,    \* the bursts that the air lost, repeated or damaged a part of
  received    \* what the daemon acted on: burst, and the payload if intact

Init == sent = <<>> /\ damaged = {} /\ received = <<>>

\* A sender starts a burst, or the air damages some of those started.
Air ==
  /\ sent' = sent \/ \E p \in Payloads : sent' = Append(sent, p)
  /\ damaged \subseteq damaged' /\ damaged' \subseteq DOMAIN sent'
  /\ UNCHANGED received

\* The daemon receives burst b as it was sent, after every earlier one it
\* receives.
Receive(b) ==
  /\ \A i \in DOMAIN received : received[i].intact => received[i].burst < b
  /\ received' =
       Append(received, [burst |-> b, intact |-> TRUE, payload |-> sent[b]])
  /\ UNCHANGED <<sent, damaged>>

\* The daemon is taken in: parts of several bursts, or damaged ones, pass.
ReceiveMixed(b) ==
  /\ received' =
       Append(received, [burst |-> b, intact |-> FALSE, payload |-> <<>>])
  /\ UNCHANGED <<sent, damaged>>

Next == Air \/ (\E b \in DOMAIN sent : Receive(b))
            \/ (\E b \in damaged : ReceiveMixed(b))

Spec == Init /\ [][Next]_<<sent, damaged, received>>
=============================================================================
