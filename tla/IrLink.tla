------------------------------- MODULE IrLink -------------------------------
(***************************************************************************)
(* The credential link: wfr_transmit_credentials on the Flipper sends a    *)
(* WiFi string one byte per infrared message, blind; the kernel of the     *)
(* host queues the messages it could decode; the main loop of infrafid     *)
(* feeds them to its decoder and, when a payload is complete, is away      *)
(* handling it while more messages queue up.                               *)
(*                                                                         *)
(* A burst is one pass of START, DATA for each byte and END.  Every frame  *)
(* carries, for the properties alone, the burst and the position in it     *)
(* that it was sent at.                                                    *)
(***************************************************************************)
EXTENDS WfrDecoder

CONSTANTS
  Payloads,         \* the WiFi strings a user may transmit
  RetransmitCount,  \* WFR_RETRANSMIT_COUNT: passes of one transmission
  BurstTicks,       \* ticks a burst may take, from its START to its END
  Noise,            \* the command bytes a damaged message may carry
  QueueCap,         \* messages the kernel queues for a reader that is away
  MaxBursts,        \* bound: bursts sent
  MaxFaults         \* bound: messages repeated, damaged or of other remotes

ASSUME LinkAssumption ==
  /\ Payloads \subseteq { p \in Seq(Byte) : Len(p) \in 1 .. 255 }
  /\ RetransmitCount \in Nat \ {0}
  /\ BurstTicks \in Nat /\ BurstTicks < Timeout
  /\ Noise \subseteq Byte
  /\ \A p \in Payloads : Crc(p) \in Byte
  /\ QueueCap \in Nat \ {0} /\ MaxBursts \in Nat /\ MaxFaults \in Nat

VARIABLES
  \* wfr_transmit_credentials
  sending,    \* between its call and its return
  msg,        \* wifi_str
  attempt,    \* the loop counter over passes
  pos,        \* next message of the pass: 0 START, 1..n DATA, n + 1 END
  pace,       \* ticks since the START of this pass
  \* the kernel and the main loop of infrafid
  rxq,        \* decoded messages not yet read
  dec, age,   \* the decoder, and the age of its open transmission
  busy,       \* inside handle_credentials
  \* history
  bursts,     \* the payload of every burst sent so far
  src,        \* the burst whose START opened dec (0: none)
  log,        \* what was given to handle_credentials
  lossy,      \* bursts of which a message did not reach the decoder
  tainted,    \* bursts of which a message arrived twice or damaged
  swallowed,  \* bursts whose START was used up by a timeout
  faults      \* repeated, damaged and foreign messages so far

sender == <<sending, msg, attempt, pos, pace>>
daemon == <<dec, age, busy, src, log, swallowed>>
channel == <<rxq, lossy, tainted, faults>>
vars == <<sender, daemon, channel, bursts>>

Types == {"START", "DATA", "END", "FOREIGN"}

\* The message at position k of burst b with payload p: the arguments of
\* wfr_send_ir.  The pass number, which the decoder stores and never reads, is
\* left out.
FrameOf(p, b, k) ==
  CASE k = 0             -> [type |-> "START", cmd |-> Len(p), burst |-> b, pos |-> k]
    [] k \in 1 .. Len(p) -> [type |-> "DATA", cmd |-> p[k], burst |-> b, pos |-> k]
    [] OTHER             -> [type |-> "END", cmd |-> Crc(p), burst |-> b, pos |-> k]

\* A message of another remote: no InfraFi magic, or the ACK frame type.
Foreign == [type |-> "FOREIGN", cmd |-> 0, burst |-> 0, pos |-> 0]

Cur == Len(bursts)
InBurst == sending /\ pos > 0   \* a pass has sent its START, not yet its END

Init ==
  /\ sending = FALSE /\ msg = <<>> /\ attempt = 0 /\ pos = 0 /\ pace = 0
  /\ rxq = <<>> /\ dec = Idle /\ age = 0 /\ busy = FALSE
  /\ bursts = <<>> /\ src = 0 /\ log = <<>>
  /\ lossy = {} /\ tainted = {} /\ swallowed = {} /\ faults = 0

-----------------------------------------------------------------------------
(* The air and the kernel: what becomes of a message f of burst b.  It is  *)
(* lost if the receiver cannot decode it or the queue is full.  A key held *)
(* too long and NEC repeat codes reach the reader as one more copy.        *)
Deliverable(f) ==
  /\ Len(rxq) < QueueCap
  /\ rxq' = Append(rxq, f)
  /\ UNCHANGED <<lossy, tainted, faults>>

Lost(b) ==
  /\ lossy' = lossy \cup {b}
  /\ UNCHANGED <<rxq, tainted, faults>>

Disturbed(b) ==
  /\ faults < MaxFaults
  /\ faults' = faults + 1
  /\ tainted' = tainted \cup {b}
  /\ UNCHANGED lossy

Repeated(f, b) ==
  /\ Disturbed(b)
  /\ Len(rxq) + 1 < QueueCap
  /\ rxq' = rxq \o <<f, f>>

Damaged(f, b) ==
  /\ Disturbed(b)
  /\ Len(rxq) < QueueCap
  /\ \E t \in Types, c \in Noise :
       rxq' = Append(rxq, [f EXCEPT !.type = t, !.cmd = c])

Emit(f, b) == Deliverable(f) \/ Lost(b) \/ Repeated(f, b) \/ Damaged(f, b)

-----------------------------------------------------------------------------
(* wfr_transmit_credentials, one step per message.                         *)

\* The call: the payload is built, the callback of progress agrees.
BeginTransmit(p) ==
  /\ ~sending /\ Cur < MaxBursts
  /\ sending' = TRUE /\ msg' = p /\ attempt' = 0 /\ pos' = 0
  /\ UNCHANGED <<pace, daemon, channel, bursts>>

SendStart ==
  /\ sending /\ pos = 0 /\ Cur < MaxBursts
  /\ bursts' = Append(bursts, msg)
  /\ Emit(FrameOf(msg, Cur + 1, 0), Cur + 1)
  /\ pos' = 1 /\ pace' = 0
  /\ UNCHANGED <<sending, msg, attempt, daemon>>

SendData ==
  /\ sending /\ pos \in 1 .. Len(msg)
  /\ Emit(FrameOf(msg, Cur, pos), Cur)
  /\ pos' = pos + 1
  /\ UNCHANGED <<sending, msg, attempt, pace, daemon, bursts>>

\* END, then the next pass or the return.
SendEnd ==
  /\ sending /\ pos = Len(msg) + 1
  /\ Emit(FrameOf(msg, Cur, pos), Cur)
  /\ pos' = 0
  /\ IF attempt + 1 < RetransmitCount
     THEN attempt' = attempt + 1 /\ UNCHANGED sending
     ELSE sending' = FALSE /\ UNCHANGED attempt
  /\ UNCHANGED <<msg, pace, daemon, bursts>>

\* progress() is asked after each DATA message and may refuse: the rest of
\* the transmission, the END included, is never sent.
Cancel ==
  /\ sending /\ pos > 1
  /\ sending' = FALSE /\ pos' = 0
  /\ lossy' = lossy \cup {Cur}
  /\ UNCHANGED <<msg, attempt, pace, daemon, rxq, tainted, faults, bursts>>

\* Another remote control is used in the room.
OtherRemote ==
  /\ faults < MaxFaults /\ Len(rxq) < QueueCap
  /\ faults' = faults + 1
  /\ rxq' = Append(rxq, Foreign)
  /\ UNCHANGED <<lossy, tainted, sender, daemon, bursts>>

-----------------------------------------------------------------------------
(* The main loop of infrafid: read a message, feed it to the decoder, act  *)
(* on a complete payload.  The loop runs only when not busy.               *)

Msg == Head(rxq)

Read ==
  /\ ~busy /\ rxq # <<>>
  /\ rxq' = Tail(rxq)
  /\ UNCHANGED <<lossy, tainted, faults, sender, bursts>>

Feed(type) == Read /\ ~Expired(dec, age) /\ Msg.type = type

\* Mutant of ReceiveExpired: the timeout throws messages away and resets nothing.
ExpiredNotReset ==
  /\ Read /\ Expired(dec, age)
  /\ UNCHANGED <<dec, src, age>>
  /\ swallowed' =
       IF Msg.type = "START" THEN swallowed \cup {Msg.burst} ELSE swallowed
  /\ UNCHANGED <<busy, log>>

\* The timeout is looked for before the message: the message that finds an
\* old transmission open resets it, and is itself thrown away.
ReceiveExpired ==
  /\ Read /\ Expired(dec, age)
  /\ dec' = Idle /\ src' = 0 /\ age' = 0
  /\ swallowed' =
       IF Msg.type = "START" THEN swallowed \cup {Msg.burst} ELSE swallowed
  /\ UNCHANGED <<busy, log>>

ReceiveStart ==
  /\ Feed("START")
  /\ dec' = AfterStart(dec, Msg.cmd)
  /\ IF Msg.cmd = 0 THEN UNCHANGED <<src, age>> ELSE src' = Msg.burst /\ age' = 0
  /\ UNCHANGED <<busy, log, swallowed>>

ReceiveData ==
  /\ Feed("DATA")
  /\ dec' = AfterData(dec, Msg.cmd)
  /\ UNCHANGED <<src, age, busy, log, swallowed>>

\* An END that does not complete a payload.
ReceiveEnd ==
  /\ Feed("END") /\ ~Completes(dec, Msg.cmd)
  /\ dec' = AfterEnd(dec, Msg.cmd)
  /\ UNCHANGED <<src, age, busy, log, swallowed>>

\* An END that does: handle_credentials is called with the payload.
Deliver ==
  /\ Feed("END") /\ Completes(dec, Msg.cmd)
  /\ dec' = AfterEnd(dec, Msg.cmd) /\ src' = 0 /\ age' = 0
  /\ log' = Append(log, [payload |-> dec.buf, start |-> src, end |-> Msg.burst])
  /\ busy' = TRUE
  /\ UNCHANGED swallowed

ReceiveForeign ==
  /\ Feed("FOREIGN")
  /\ UNCHANGED daemon

\* handle_credentials returns: connected or not, acknowledged or not.
FinishHandling ==
  /\ busy /\ busy' = FALSE
  /\ UNCHANGED <<dec, age, src, log, swallowed, sender, channel, bursts>>

\* systemd starts infrafid again: nothing is persisted, and what the kernel
\* had queued for the old descriptor is gone.
Restart ==
  /\ faults < MaxFaults /\ faults' = faults + 1
  /\ dec' = Idle /\ age' = 0 /\ src' = 0 /\ busy' = FALSE
  /\ lossy' = (lossy \cup { rxq[i].burst : i \in DOMAIN rxq } \cup {src}
                      \cup (IF InBurst THEN {Cur} ELSE {})) \ {0}
  /\ rxq' = <<>>
  /\ UNCHANGED <<log, swallowed, tainted, sender, bursts>>

\* Time passes.  A message waits for a tick only while the loop is away, and
\* a burst is not slower than BurstTicks.
Tick ==
  /\ busy \/ rxq = <<>>
  /\ InBurst => pace < BurstTicks
  /\ pace' = IF InBurst THEN pace + 1 ELSE pace
  /\ age' = IF dec.open /\ age < Timeout THEN age + 1 ELSE age
  /\ UNCHANGED <<sending, msg, attempt, pos, dec, busy, src, log, swallowed,
                 channel, bursts>>

-----------------------------------------------------------------------------
Sender == (\E p \in Payloads : BeginTransmit(p)) \/ SendStart \/ SendData
          \/ SendEnd \/ Cancel

Loop == ReceiveExpired \/ ReceiveStart \/ ReceiveData \/ ReceiveEnd
        \/ Deliver \/ ReceiveForeign

Next == Sender \/ OtherRemote \/ Loop \/ FinishHandling \/ Restart \/ Tick

Spec == Init /\ [][Next]_vars

\* read() returns when a message is queued, and handle_credentials returns:
\* every command it runs has a timeout or a bounded loop.
Fairness == WF_vars(Loop) /\ WF_vars(FinishHandling)

FairSpec == Spec /\ Fairness

-----------------------------------------------------------------------------
Frame == [type : Types, cmd : Byte, burst : Nat, pos : Nat]

\* Every variable has its type: the sender is at a message of msg, the age and
\* the pace are in their ranges, frames, decoder and log name bursts that were
\* sent, and only an open decoder has a source.
SenderOK ==
  /\ sending \in BOOLEAN /\ msg \in Payloads \cup {<<>>}
  /\ (sending => msg \in Payloads)
  /\ attempt \in 0 .. RetransmitCount - 1
  /\ pos \in 0 .. Len(msg) + 1 /\ pace \in 0 .. BurstTicks

ChannelOK ==
  /\ rxq \in Seq(Frame) /\ Len(rxq) \leq QueueCap
  /\ \A i \in DOMAIN rxq :
       rxq[i].burst \leq Cur /\ (rxq[i].burst = 0 => rxq[i].type = "FOREIGN")
  /\ lossy \subseteq 1 .. Cur /\ tainted \subseteq 1 .. Cur
  /\ faults \in 0 .. MaxFaults

DaemonOK ==
  /\ dec \in Decoder /\ age \in 0 .. Timeout /\ busy \in BOOLEAN
  /\ src \in 0 .. Cur /\ (dec.open <=> src # 0)
  /\ log \in Seq([payload : Seq(Byte), start : Nat, end : Nat])
  /\ \A i \in DOMAIN log : log[i].start \in 1 .. Cur /\ log[i].end \in 1 .. Cur
  /\ swallowed \subseteq 1 .. Cur

TypeOK == bursts \in Seq(Payloads) /\ SenderOK /\ ChannelOK /\ DaemonOK

Clean(b) == b \notin lossy /\ b \notin tainted
Finished(b) == b < Cur \/ ~InBurst
Awaited(b) == \E i \in DOMAIN rxq : rxq[i].burst = b
Delivered(b) == \E i \in DOMAIN log : log[i].end = b

\* What reaches handle_credentials is what was sent.  A payload completed by
\* the END of a burst of which nothing was repeated or damaged is exactly
\* that burst's payload, if it was opened by the same burst's START or if
\* none of the burst's messages were lost - whatever was left in the decoder
\* by earlier transmissions, and whatever the check byte is worth.
Faithful ==
  \A i \in DOMAIN log :
    LET e == log[i] IN
    (e.end \notin tainted /\ (e.start = e.end \/ e.end \notin lossy))
      => e.start = e.end /\ e.payload = bursts[e.end]

\* Why Faithful holds: an invariant that every step preserves.
\* The sender sends the payload it recorded.
SenderInv == InBurst => Cur > 0 /\ bursts[Cur] = msg

\* The queue holds messages in the order they were sent; those of an untainted
\* burst are what was sent and behind the sender's position.
Untouched(i) == rxq[i].burst # 0 /\ rxq[i].burst \notin tainted

QueueInv ==
  \A i \in DOMAIN rxq : LET f == rxq[i] IN
    Untouched(i) => /\ f = FrameOf(bursts[f.burst], f.burst, f.pos)
                    /\ f.pos \leq Len(bursts[f.burst]) + 1
                    /\ InBurst /\ f.burst = Cur => f.pos < pos

OrderInv ==
  \A i, j \in DOMAIN rxq : i < j /\ rxq[i].burst # 0 /\ rxq[j].burst # 0 =>
    /\ rxq[i].burst \leq rxq[j].burst
    /\ Untouched(i) /\ rxq[i].burst = rxq[j].burst => rxq[i].pos < rxq[j].pos

\* Before position k of a burst with payload p the decoder has at most k - 1
\* bytes; if it has as many, they are the right ones.
Upto(buf, p, k) ==
  /\ Len(buf) < k
  /\ Len(buf) = k - 1 => \A j \in 1 .. k - 1 : j \leq Len(p) => buf[j] = p[j]

DecoderInv == dec.open =>
  /\ \A i \in DOMAIN rxq : rxq[i].burst # 0 => rxq[i].burst \geq src
  /\ src \notin tainted =>
       /\ dec.len = Len(bursts[src])
       /\ \A i \in DOMAIN rxq : rxq[i].burst = src => Upto(dec.buf, bursts[src], rxq[i].pos)
       /\ InBurst /\ src = Cur => Upto(dec.buf, bursts[src], pos)

\* A burst of which nothing was lost, and of which something is still to come,
\* either has its START in the queue or had it read: then the decoder is not
\* open for an earlier burst, and never will be again.
StartInv ==
  \A b \in 1 .. Cur :
    Clean(b) /\ (Awaited(b) \/ (InBurst /\ b = Cur)) =>
      \/ \E i \in DOMAIN rxq : rxq[i].burst = b /\ rxq[i].pos = 0
      \/ /\ dec.open => src = b
         /\ \A i \in DOMAIN rxq : rxq[i].burst # 0 => rxq[i].burst \geq b

IInv == /\ TypeOK /\ SenderInv /\ QueueInv /\ OrderInv /\ DecoderInv
        /\ StartInv /\ Faithful

\* The decoder recovers from everything but its own timeout: a burst that
\* arrives whole is handed over, whatever half-received burst it follows and
\* even if it arrives while the daemon is away, unless its START was the
\* message that found an expired transmission.  Then the decoder is left ready
\* for the next burst: no transmission of before is open any more.
CleanBurstDelivered ==
  \A b \in 1 .. Cur :
    Clean(b) /\ Finished(b) /\ ~Awaited(b) =>
      Delivered(b) \/ (b \in swallowed /\ (dec.open => src > b))

\* And it happens: a whole burst does not stay in the kernel's queue forever
\* (a restart of the daemon, which makes it lossy, aside).
WholeBurstHandled ==
  \A b \in 1 .. MaxBursts :
    (b \leq Cur /\ Finished(b) /\ Clean(b))
      ~> (Delivered(b) \/ b \in swallowed \/ b \in lossy)

\* The README's promise, with no exception for the timeout.
EveryCleanBurstDelivered ==
  \A b \in 1 .. Cur :
    Clean(b) /\ Finished(b) /\ ~Awaited(b) => Delivered(b)

\* The link implements the abstract delivery of credentials.  A receipt that
\* is not of one whole burst shows only which burst's END completed it.
Intact(e) == e.start = e.end /\ e.end \notin tainted

Received ==
  [i \in DOMAIN log |->
     [burst |-> log[i].end, intact |-> Intact(log[i]),
      payload |-> IF Intact(log[i]) THEN log[i].payload ELSE <<>>]]

Abstract == INSTANCE CredentialDelivery
  WITH sent <- bursts, damaged <- lossy \cup tainted, received <- Received

Delivery == Abstract!Spec
=============================================================================
