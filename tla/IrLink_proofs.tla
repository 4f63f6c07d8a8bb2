---------------------------- MODULE IrLink_proofs ----------------------------
(***************************************************************************)
(* Proofs about the credential link: its types; by the inductive invariant *)
(* IInv, that what the daemon acts on is what was sent; by RecoveryInv,    *)
(* that a burst which arrives whole is acted on; and, with LogInv, that    *)
(* the link implements CredentialDelivery.                                 *)
(***************************************************************************)
EXTENDS IrLink, SequenceTheorems, TLAPS

-----------------------------------------------------------------------------
(* Data.                                                                   *)

\* What the assumptions say of a payload.
LEMMA PayloadFacts ==
  ASSUME NEW p \in Payloads
  PROVE  p \in Seq(Byte) /\ Len(p) \in 1 .. 255 /\ Crc(p) \in Byte
BY LinkAssumption

\* A sequence with one more element.
LEMMA AppendFacts ==
  ASSUME NEW S, NEW s \in Seq(S), NEW e \in S
  PROVE  \A i \in DOMAIN Append(s, e) :
           Append(s, e)[i] = e \/ (i \in DOMAIN s /\ Append(s, e)[i] = s[i])
OBVIOUS

\* The message at a position of a burst.
LEMMA FrameFacts ==
  ASSUME NEW p \in Payloads, NEW b \in Nat, NEW k \in Nat
  PROVE  /\ FrameOf(p, b, k) \in Frame
         /\ FrameOf(p, b, k).burst = b /\ FrameOf(p, b, k).pos = k
         /\ FrameOf(p, b, k).type # "FOREIGN"
         /\ FrameOf(p, b, k).type = "START" <=> k = 0
         /\ k = 0 => FrameOf(p, b, k).cmd = Len(p)
         /\ FrameOf(p, b, k).type = "DATA" <=> k \in 1 .. Len(p)
         /\ k \in 1 .. Len(p) => FrameOf(p, b, k).cmd = p[k]
         /\ FrameOf(p, b, k).type = "END" <=> k > Len(p)
<1>1. p \in Seq(Byte) /\ Len(p) \in 1 .. 255 /\ Crc(p) \in Byte
  BY PayloadFacts
<1>2. CASE k = 0
  BY <1>1, <1>2 DEF FrameOf, Frame, Types, Byte
<1>3. CASE k \in 1 .. Len(p)
  <2>1. p[k] \in Byte BY <1>1, <1>3
  <2> QED BY <1>1, <1>3, <2>1 DEF FrameOf, Frame, Types, Byte
<1>4. CASE k > Len(p)
  <2>1. k # 0 /\ k \notin 1 .. Len(p) BY <1>1, <1>4
  <2>2. FrameOf(p, b, k) = [type |-> "END", cmd |-> Crc(p), burst |-> b, pos |-> k]
    BY <2>1 DEF FrameOf
  <2> QED BY <1>1, <1>4, <2>1, <2>2 DEF Frame, Types, Byte
<1> QED BY <1>1, <1>2, <1>3, <1>4

\* What a decoder may become.
LEMMA DecoderFacts ==
  ASSUME NEW d \in Decoder, NEW c \in Byte
  PROVE  /\ Idle \in Decoder
         /\ AfterStart(d, c) \in Decoder /\ (AfterStart(d, c).open <=> d.open \/ c # 0)
         /\ AfterData(d, c) \in Decoder /\ AfterData(d, c).open = d.open
         /\ AfterEnd(d, c) \in Decoder
         /\ ~Completes(d, c) => AfterEnd(d, c).open = d.open
<1>1. d.open \in BOOLEAN /\ d.len \in Byte /\ d.buf \in Seq(Byte)
  BY DEF Decoder
<1>2. Idle \in Decoder /\ Idle.open = FALSE
  BY DEF Idle, Decoder, Byte
<1>3. \A n \in Byte : [open |-> TRUE, len |-> n, buf |-> <<>>] \in Decoder
  BY DEF Decoder
<1>4. AfterStart(d, c) \in Decoder /\ (AfterStart(d, c).open <=> d.open \/ c # 0)
  <2>1. CASE c = 0
    BY <2>1 DEF AfterStart
  <2>2. CASE c # 0
    BY <2>2, <1>3 DEF AfterStart
  <2> QED BY <2>1, <2>2
<1>5. \A s \in Seq(Byte) : [d EXCEPT !.buf = s] \in Decoder /\ [d EXCEPT !.buf = s].open = d.open
  BY DEF Decoder
<1>6. AfterData(d, c) \in Decoder /\ AfterData(d, c).open = d.open
  <2>1. Append(d.buf, c) \in Seq(Byte) BY <1>1
  <2> QED BY <1>5, <2>1 DEF AfterData
<1>7. AfterEnd(d, c) \in Decoder /\ (~Completes(d, c) => AfterEnd(d, c).open = d.open)
  <2>1. <<>> \in Seq(Byte) OBVIOUS
  <2> QED BY <1>2, <1>5, <2>1 DEF AfterEnd
<1> QED BY <1>2, <1>4, <1>6, <1>7

\* What the air may do to the queue.
LEMMA EmitFacts ==
  ASSUME rxq \in Seq(Frame), NEW f \in Frame, NEW b, Emit(f, b),
         Len(rxq) \leq QueueCap
  PROVE  /\ rxq' \in Seq(Frame) /\ Len(rxq') \leq QueueCap
         /\ lossy' \subseteq lossy \cup {b} /\ lossy \subseteq lossy'
         /\ tainted' \subseteq tainted \cup {b} /\ tainted \subseteq tainted'
         /\ faults \in 0 .. MaxFaults => faults' \in 0 .. MaxFaults
<1> USE LinkAssumption
<1>1. CASE Deliverable(f) BY <1>1 DEF Deliverable
<1>2. CASE Lost(b) BY <1>2 DEF Lost
<1>3. CASE Repeated(f, b) BY <1>3 DEF Repeated, Disturbed
<1>4. CASE Damaged(f, b)
  <2>1. PICK t \in Types, c \in Noise :
          rxq' = Append(rxq, [f EXCEPT !.type = t, !.cmd = c])
    BY <1>4 DEF Damaged
  <2> DEFINE g == [f EXCEPT !.type = t, !.cmd = c]
  <2>2. g \in Frame BY DEF Frame
  <2>3. /\ UNCHANGED lossy /\ tainted' = tainted \cup {b} /\ Len(rxq) < QueueCap
        /\ faults' = faults + 1 /\ faults < MaxFaults
    BY <1>4 DEF Damaged, Disturbed
  <2>4. rxq' = Append(rxq, g) BY <2>1
  <2> HIDE DEF g
  <2>5. rxq' \in Seq(Frame) /\ Len(rxq') \leq QueueCap BY <2>2, <2>3, <2>4
  <2>6. faults \in 0 .. MaxFaults => faults' \in 0 .. MaxFaults BY <2>3
  <2> QED BY <2>3, <2>5, <2>6
<1> QED BY <1>1, <1>2, <1>3, <1>4 DEF Emit

\* What is new in the queue is of the burst that is sent; it is the message f
\* itself unless the burst becomes tainted; and then no more than one is new.
LEMMA EmitQueue ==
  ASSUME rxq \in Seq(Frame), NEW f \in Frame, NEW b, Emit(f, b), f.burst = b
  PROVE  /\ Len(rxq') \geq Len(rxq)
         /\ \A i \in DOMAIN rxq : i \in DOMAIN rxq' /\ rxq'[i] = rxq[i]
         /\ \A i \in DOMAIN rxq' \ DOMAIN rxq : rxq'[i].burst = b
         /\ b \notin tainted' => /\ rxq' = rxq \/ rxq' = Append(rxq, f)
                                /\ tainted' = tainted
         /\ b \notin tainted' /\ b \notin lossy' => rxq' = Append(rxq, f)
<1>1. CASE Deliverable(f) BY <1>1 DEF Deliverable
<1>2. CASE Lost(b) BY <1>2 DEF Lost
<1>3. CASE Repeated(f, b) BY <1>3 DEF Repeated, Disturbed
<1>4. CASE Damaged(f, b)
  <2>1. PICK t \in Types, c \in Noise :
          rxq' = Append(rxq, [f EXCEPT !.type = t, !.cmd = c])
    BY <1>4 DEF Damaged
  <2>2. [f EXCEPT !.type = t, !.cmd = c].burst = b BY DEF Frame
  <2>3. b \in tainted' BY <1>4 DEF Damaged, Disturbed
  <2> QED BY <2>1, <2>2, <2>3
<1> QED BY <1>1, <1>2, <1>3, <1>4 DEF Emit

-----------------------------------------------------------------------------
(* Types.                                                                  *)

TypeInv == TypeOK /\ SenderInv

\* What a step that leaves a part of the system alone keeps.
LEMMA SenderKept == SenderOK /\ UNCHANGED sender => SenderOK'
BY DEF SenderOK, sender

\* The same of the daemon: only the burst count may have grown.
LEMMA DaemonKept ==
  ASSUME DaemonOK, UNCHANGED daemon, Cur \in Nat, Cur' \in Nat, Cur \leq Cur'
  PROVE  DaemonOK'
<1> USE DEF DaemonOK, daemon
<1>1. dec' \in Decoder /\ age' \in 0 .. Timeout /\ busy' \in BOOLEAN OBVIOUS
<1>2. src' \in 0 .. Cur' /\ swallowed' \subseteq 1 .. Cur' OBVIOUS
<1>3. (dec.open <=> src # 0)' OBVIOUS
<1>4. /\ log' \in Seq([payload : Seq(Byte), start : Nat, end : Nat])
      /\ \A i \in DOMAIN log' : log'[i].start \in 1 .. Cur' /\ log'[i].end \in 1 .. Cur'
  OBVIOUS
<1> QED BY <1>1, <1>2, <1>3, <1>4

\* The same of the channel.
LEMMA ChannelKept == ChannelOK /\ UNCHANGED <<channel, bursts>> => ChannelOK'
BY DEF ChannelOK, channel, Cur

\* A message read from the queue, and what remains of the queue.
LEMMA ReadFacts ==
  ASSUME TypeOK, Read
  PROVE  /\ Msg \in Frame /\ Msg = rxq[1] /\ Len(rxq) > 0
         /\ Msg.burst \leq Cur /\ (Msg.burst = 0 => Msg.type = "FOREIGN")
         /\ rxq' \in Seq(Frame) /\ Len(rxq') = Len(rxq) - 1
         /\ \A i \in DOMAIN rxq' : i + 1 \in DOMAIN rxq /\ rxq'[i] = rxq[i + 1]
         /\ ChannelOK' /\ SenderOK' /\ bursts' = bursts
<1> USE DEF TypeOK, ChannelOK, Read, Msg
<1>1. /\ Msg \in Frame /\ Msg = rxq[1] /\ Len(rxq) > 0
      /\ Msg.burst \leq Cur /\ (Msg.burst = 0 => Msg.type = "FOREIGN")
  OBVIOUS
<1>2. /\ rxq' \in Seq(Frame) /\ Len(rxq') = Len(rxq) - 1
      /\ \A i \in DOMAIN rxq' : i + 1 \in DOMAIN rxq /\ rxq'[i] = rxq[i + 1]
  OBVIOUS
<1>3. SenderOK' BY SenderKept
<1>4. ChannelOK' BY <1>2, LinkAssumption DEF Cur
<1> QED BY <1>1, <1>2, <1>3, <1>4

\* A message put at the end of the queue, once or twice, as it is or damaged.
LEMMA EmitOK ==
  ASSUME ChannelOK, Cur \in Nat, Cur' \in Nat, Cur \leq Cur',
         NEW f \in Frame, NEW b \in 1 .. Cur', Emit(f, b), f.burst = b
  PROVE  ChannelOK'
<1>1. /\ rxq' \in Seq(Frame) /\ Len(rxq') \leq QueueCap
      /\ lossy' \subseteq 1 .. Cur' /\ tainted' \subseteq 1 .. Cur'
      /\ faults' \in 0 .. MaxFaults
  <2>1. /\ rxq' \in Seq(Frame) /\ Len(rxq') \leq QueueCap
        /\ lossy' \subseteq lossy \cup {b} /\ tainted' \subseteq tainted \cup {b}
        /\ faults' \in 0 .. MaxFaults
    BY EmitFacts DEF ChannelOK
  <2>2. lossy \subseteq 1 .. Cur' /\ tainted \subseteq 1 .. Cur'
    BY DEF ChannelOK
  <2> QED BY <2>1, <2>2
<1>2. \A i \in DOMAIN rxq' :
        (i \in DOMAIN rxq /\ rxq'[i] = rxq[i]) \/ rxq'[i].burst = b
  BY EmitQueue DEF ChannelOK
<1>3. \A i \in DOMAIN rxq' : 
        rxq'[i].burst \leq Cur' /\ (rxq'[i].burst = 0 => rxq'[i].type = "FOREIGN")
  <2> SUFFICES ASSUME NEW i \in DOMAIN rxq'
               PROVE rxq'[i].burst \leq Cur' /\ (rxq'[i].burst = 0 => rxq'[i].type = "FOREIGN")
    OBVIOUS
  <2>1. CASE i \in DOMAIN rxq /\ rxq'[i] = rxq[i]
    <3>1. rxq[i] \in Frame /\ rxq[i].burst \leq Cur /\ (rxq[i].burst = 0 => rxq[i].type = "FOREIGN")
      BY <2>1 DEF ChannelOK
    <3>2. rxq[i].burst \in Nat BY <3>1 DEF Frame
    <3> QED BY <2>1, <3>1, <3>2
  <2>2. CASE rxq'[i].burst = b
    BY <2>2
  <2> QED BY <1>2, <2>1, <2>2
<1> QED BY <1>1, <1>3 DEF ChannelOK

\* The daemon after a message: the decoder stays a decoder, open exactly when
\* it has a source, and only bursts that were sent are named.
LEMMA LoopDaemonOK ==
  ASSUME DaemonOK, Loop, Cur \in Nat, Cur' = Cur, Msg \in Frame,
         Msg.burst \leq Cur, Msg.burst = 0 => Msg.type = "FOREIGN"
  PROVE  DaemonOK'
<1> USE TimeoutAssumption
<1>0. /\ dec \in Decoder /\ Msg.cmd \in Byte /\ Msg.burst \in 0 .. Cur
      /\ age \in 0 .. Timeout /\ busy \in BOOLEAN
      /\ src \in 0 .. Cur /\ (dec.open <=> src # 0)
      /\ log \in Seq([payload : Seq(Byte), start : Nat, end : Nat])
      /\ \A i \in DOMAIN log : log[i].start \in 1 .. Cur /\ log[i].end \in 1 .. Cur
      /\ swallowed \subseteq 1 .. Cur
  BY DEF DaemonOK, Frame
<1>1. CASE ReceiveExpired
  <2> USE <1>1 DEF ReceiveExpired
  <2>1. dec' \in Decoder /\ dec'.open = FALSE BY DEF Idle, Decoder, Byte
  <2>2. Msg.type = "START" => Msg.burst \in 1 .. Cur BY <1>0
  <2>3. swallowed' \subseteq 1 .. Cur
    <3>1. CASE Msg.type = "START" BY <1>0, <2>2, <3>1
    <3>2. CASE Msg.type # "START" BY <1>0, <3>2
    <3> QED BY <3>1, <3>2
  <2> QED BY <1>0, <2>1, <2>3 DEF DaemonOK
<1>2. CASE ReceiveStart
  <2> USE <1>2 DEF ReceiveStart, Feed
  <2>1. dec' \in Decoder /\ (dec'.open <=> dec.open \/ Msg.cmd # 0)
    BY <1>0, DecoderFacts
  <2>2. Msg.burst # 0 BY <1>0
  <2>3. age' \in 0 .. Timeout /\ src' \in 0 .. Cur /\ (Msg.cmd = 0 => src' = src)
        /\ (Msg.cmd # 0 => src' # 0)
    BY <1>0, <2>2
  <2>4. dec'.open <=> src' # 0 BY <1>0, <2>1, <2>3
  <2> QED BY <1>0, <2>1, <2>3, <2>4 DEF DaemonOK
<1>3. CASE ReceiveData
  <2> USE <1>3 DEF ReceiveData
  <2>1. dec' \in Decoder /\ dec'.open = dec.open BY <1>0, DecoderFacts
  <2> QED BY <1>0, <2>1 DEF DaemonOK
<1>4. CASE ReceiveEnd
  <2> USE <1>4 DEF ReceiveEnd
  <2>1. dec' \in Decoder /\ dec'.open = dec.open BY <1>0, DecoderFacts
  <2> QED BY <1>0, <2>1 DEF DaemonOK
<1>5. CASE Deliver
  <2> USE <1>5 DEF Deliver, Feed
  <2> DEFINE e == [payload |-> dec.buf, start |-> src, end |-> Msg.burst]
  <2>1. dec' \in Decoder /\ dec'.open = FALSE
    BY DEF AfterEnd, Idle, Decoder, Byte
  <2>2. dec.open BY DEF Completes, Full
  <2>3. src \in 1 .. Cur /\ Msg.burst \in 1 .. Cur BY <1>0, <2>2
  <2>4. e \in [payload : Seq(Byte), start : Nat, end : Nat] BY <1>0, <2>3 DEF Decoder
  <2>5. log' \in Seq([payload : Seq(Byte), start : Nat, end : Nat]) BY <1>0, <2>4
  <2>6. \A i \in DOMAIN log' : log'[i].start \in 1 .. Cur /\ log'[i].end \in 1 .. Cur
    <3>1. e.start \in 1 .. Cur /\ e.end \in 1 .. Cur /\ log' = Append(log, e) BY <2>3
    <3> HIDE DEF e
    <3> DEFINE S == [payload : Seq(Byte), start : Nat, end : Nat]
    <3>0. log \in Seq(S) /\ e \in S BY <1>0, <2>4
    <3> HIDE DEF S
    <3>2. \A i \in DOMAIN Append(log, e) :
            Append(log, e)[i] = e \/ (i \in DOMAIN log /\ Append(log, e)[i] = log[i])
      BY <3>0, AppendFacts
    <3> QED BY <1>0, <3>1, <3>2
  <2>7. busy' \in BOOLEAN /\ swallowed' = swallowed OBVIOUS
  <2> QED BY <1>0, <2>1, <2>5, <2>6, <2>7 DEF DaemonOK
<1>6. CASE ReceiveForeign
  BY <1>6, DaemonKept DEF ReceiveForeign
<1> QED BY <1>1, <1>2, <1>3, <1>4, <1>5, <1>6 DEF Loop

\* Initially.
LEMMA TypeInit == Init => TypeInv
<1> SUFFICES ASSUME Init PROVE TypeInv OBVIOUS
<1> USE LinkAssumption, TimeoutAssumption DEF Init
<1>1. dec \in Decoder /\ dec.open = FALSE BY DEF Idle, Decoder, Byte
<1>2. SenderOK
  <2>1. sending \in BOOLEAN /\ ~sending OBVIOUS
  <2>2. attempt \in 0 .. RetransmitCount - 1 /\ pos \in 0 .. Len(msg) + 1
        /\ pace \in 0 .. BurstTicks /\ msg \in {<<>>}
    OBVIOUS
  <2> QED BY <2>1, <2>2 DEF SenderOK
<1>3. ChannelOK BY DEF ChannelOK, Cur
<1>4. DaemonOK
  <2>1. busy \in BOOLEAN OBVIOUS
  <2>2. age \in 0 .. Timeout /\ src \in 0 .. Cur /\ swallowed \subseteq 1 .. Cur
        /\ log \in Seq([payload : Seq(Byte), start : Nat, end : Nat])
    BY DEF Cur
  <2>3. \A i \in DOMAIN log : log[i].start \in 1 .. Cur /\ log[i].end \in 1 .. Cur
    OBVIOUS
  <2>4. dec.open <=> src # 0 BY <1>1
  <2> QED BY <1>1, <2>1, <2>2, <2>3, <2>4 DEF DaemonOK
<1>5. SenderInv BY DEF SenderInv, InBurst
<1> QED BY <1>2, <1>3, <1>4, <1>5 DEF TypeInv, TypeOK

\* Every step.
LEMMA TypeStep == TypeInv /\ [Next]_vars => TypeInv'
<1> SUFFICES ASSUME TypeInv, [Next]_vars PROVE TypeInv' OBVIOUS
<1> USE LinkAssumption, TimeoutAssumption
<1>0. /\ TypeOK /\ SenderInv /\ bursts \in Seq(Payloads) /\ Cur \in Nat
      /\ SenderOK /\ ChannelOK /\ DaemonOK
  BY DEF TypeInv, TypeOK, Cur
<1>1. ASSUME NEW p \in Payloads, BeginTransmit(p) PROVE TypeInv'
  <2> USE <1>1 DEF BeginTransmit
  <2>1. DaemonOK' /\ ChannelOK' BY <1>0, DaemonKept, ChannelKept DEF Cur
  <2>2. SenderOK' BY <1>0, PayloadFacts DEF SenderOK
  <2>3. SenderInv' BY DEF SenderInv, InBurst
  <2> QED BY <1>0, <2>1, <2>2, <2>3 DEF TypeInv, TypeOK
<1>2. CASE SendStart
  <2> USE <1>2 DEF SendStart
  <2> DEFINE f == FrameOf(msg, Cur + 1, 0)
  <2>1. msg \in Payloads BY <1>0 DEF SenderOK
  <2>2. bursts' \in Seq(Payloads) /\ Cur' = Cur + 1 /\ bursts'[Cur'] = msg
    BY <1>0, <2>1 DEF Cur
  <2>3. f \in Frame /\ f.burst = Cur' BY <1>0, <2>1, <2>2, FrameFacts
  <2>4. ChannelOK' BY <1>0, <2>2, <2>3, EmitOK
  <2>5. DaemonOK' BY <1>0, <2>2, DaemonKept
  <2>6. SenderOK' BY <1>0, <2>1, PayloadFacts DEF SenderOK
  <2>7. SenderInv' BY <1>0, <2>2 DEF SenderInv
  <2> QED BY <2>2, <2>4, <2>5, <2>6, <2>7 DEF TypeInv, TypeOK
<1>3. CASE SendData
  <2> USE <1>3 DEF SendData
  <2>1. /\ msg \in Payloads /\ msg \in Seq(Byte)
        /\ Cur \in 1 .. Cur /\ Cur \in Nat /\ bursts[Cur] = msg /\ pos \in Nat
    BY <1>0, PayloadFacts DEF SenderOK, SenderInv, InBurst
  <2>2. FrameOf(msg, Cur, pos) \in Frame /\ FrameOf(msg, Cur, pos).burst = Cur
    BY <1>0, <2>1, FrameFacts
  <2>3. Cur' = Cur BY DEF Cur
  <2>4. ChannelOK' BY <1>0, <2>1, <2>2, <2>3, EmitOK
  <2>5. DaemonOK' BY <1>0, <2>3, DaemonKept
  <2>6. SenderOK' BY <1>0, <2>1 DEF SenderOK
  <2>7. SenderInv' BY <2>1, <2>3 DEF SenderInv
  <2> QED BY <1>0, <2>4, <2>5, <2>6, <2>7 DEF TypeInv, TypeOK
<1>4. CASE SendEnd
  <2> USE <1>4 DEF SendEnd
  <2>1. /\ msg \in Payloads /\ msg \in Seq(Byte)
        /\ Cur \in 1 .. Cur /\ Cur \in Nat /\ bursts[Cur] = msg /\ pos \in Nat
    BY <1>0, PayloadFacts DEF SenderOK, SenderInv, InBurst
  <2>2. FrameOf(msg, Cur, pos) \in Frame /\ FrameOf(msg, Cur, pos).burst = Cur
    BY <1>0, <2>1, FrameFacts
  <2>3. Cur' = Cur BY DEF Cur
  <2>4. ChannelOK' BY <1>0, <2>1, <2>2, <2>3, EmitOK
  <2>5. DaemonOK' BY <1>0, <2>3, DaemonKept
  <2>6. SenderOK'
    <3>1. CASE attempt + 1 < RetransmitCount BY <1>0, <2>1, <3>1 DEF SenderOK
    <3>2. CASE ~(attempt + 1 < RetransmitCount)
      <4>1. sending' \in BOOLEAN /\ ~sending' BY <3>2
      <4>2. /\ attempt' \in 0 .. RetransmitCount - 1 /\ pos' \in 0 .. Len(msg') + 1
            /\ pace' \in 0 .. BurstTicks /\ msg' \in Payloads
        BY <1>0, <2>1, <3>2 DEF SenderOK
      <4> QED BY <4>1, <4>2 DEF SenderOK
    <3> QED BY <3>1, <3>2
  <2>7. SenderInv' BY DEF SenderInv, InBurst
  <2> QED BY <1>0, <2>4, <2>5, <2>6, <2>7 DEF TypeInv, TypeOK
<1>5. CASE Cancel
  <2> USE <1>5 DEF Cancel
  <2>1. Cur \in 1 .. Cur /\ msg \in Payloads /\ msg \in Seq(Byte)
    BY <1>0, PayloadFacts DEF SenderOK, SenderInv, InBurst
  <2>2. Cur' = Cur BY DEF Cur
  <2>3. DaemonOK' BY <1>0, <2>2, DaemonKept
  <2>4. ChannelOK' BY <1>0, <2>1, <2>2 DEF ChannelOK
  <2>5. SenderOK'
    <3>1. sending' \in BOOLEAN /\ ~sending' OBVIOUS
    <3>2. /\ attempt' \in 0 .. RetransmitCount - 1 /\ pos' \in 0 .. Len(msg') + 1
          /\ pace' \in 0 .. BurstTicks /\ msg' \in Payloads
      BY <1>0, <2>1 DEF SenderOK
    <3> QED BY <3>1, <3>2 DEF SenderOK
  <2>6. SenderInv' BY DEF SenderInv, InBurst
  <2> QED BY <1>0, <2>3, <2>4, <2>5, <2>6 DEF TypeInv, TypeOK
<1>6. CASE OtherRemote
  <2> USE <1>6 DEF OtherRemote
  <2>1. SenderOK' /\ DaemonOK' BY <1>0, SenderKept, DaemonKept DEF Cur
  <2>2. Foreign \in Frame BY DEF Foreign, Frame, Types, Byte
  <2>3. ChannelOK' BY <1>0, <2>2 DEF ChannelOK, Cur, Foreign
  <2>4. SenderInv' BY <1>0 DEF SenderInv, InBurst, sender, Cur
  <2> QED BY <1>0, <2>1, <2>3, <2>4 DEF TypeInv, TypeOK
<1>7. CASE Loop
  <2>1. Read BY <1>7 DEF Loop, ReceiveExpired, ReceiveStart, ReceiveData,
                        ReceiveEnd, Deliver, ReceiveForeign, Feed
  <2>2. /\ Msg \in Frame /\ Msg.burst \leq Cur /\ (Msg.burst = 0 => Msg.type = "FOREIGN")
        /\ ChannelOK' /\ SenderOK' /\ bursts' = bursts /\ Cur' = Cur
    BY <1>0, <2>1, ReadFacts DEF Cur
  <2>3. Msg.cmd \in Byte /\ Msg.burst \in Nat BY <2>2 DEF Frame
  <2>4. SenderInv' BY <1>0, <2>1 DEF Read, SenderInv, InBurst, sender, Cur
  <2>5. DaemonOK' BY <1>0, <1>7, <2>1, <2>2, <2>3, LoopDaemonOK
  <2> QED BY <1>0, <2>2, <2>4, <2>5 DEF TypeInv, TypeOK
<1>8. CASE FinishHandling
  <2> USE <1>8 DEF FinishHandling
  <2>1. SenderOK' /\ ChannelOK' BY <1>0, SenderKept, ChannelKept
  <2>2. busy' \in BOOLEAN OBVIOUS
  <2>3. DaemonOK' BY <1>0, <2>2 DEF DaemonOK, Cur
  <2>4. SenderInv' BY <1>0 DEF SenderInv, InBurst, sender, Cur
  <2> QED BY <1>0, <2>1, <2>3, <2>4 DEF TypeInv, TypeOK
<1>9. CASE Restart
  <2> USE <1>9 DEF Restart
  <2>1. SenderOK' BY <1>0, SenderKept
  <2>2. Cur' = Cur BY DEF Cur
  <2>3. ChannelOK'
    <3>1. \A i \in DOMAIN rxq : rxq[i].burst \in 0 .. Cur
      <4> SUFFICES ASSUME NEW i \in DOMAIN rxq PROVE rxq[i].burst \in 0 .. Cur
        OBVIOUS
      <4>1. rxq[i] \in Frame /\ rxq[i].burst \leq Cur BY <1>0 DEF ChannelOK
      <4>2. rxq[i].burst \in Nat BY <4>1 DEF Frame
      <4> QED BY <1>0, <4>1, <4>2
    <3>2. lossy' \subseteq 1 .. Cur
      <4> DEFINE Q == { rxq[i].burst : i \in DOMAIN rxq }
                 R == IF InBurst THEN {Cur} ELSE {}
      <4>1. lossy \subseteq 0 .. Cur /\ src \in 0 .. Cur BY <1>0 DEF ChannelOK, DaemonOK
      <4>2. Q \subseteq 0 .. Cur BY <3>1
      <4>3. R \subseteq 0 .. Cur BY <1>0
      <4>4. lossy' = (lossy \cup Q \cup {src} \cup R) \ {0} OBVIOUS
      <4> HIDE DEF Q, R
      <4>5. lossy' \subseteq 0 .. Cur /\ 0 \notin lossy' BY <4>1, <4>2, <4>3, <4>4
      <4>6. \A S : S \subseteq 0 .. Cur /\ 0 \notin S => S \subseteq 1 .. Cur
        BY <1>0
      <4> QED BY <4>5, <4>6
    <3>3. rxq' \in Seq(Frame) /\ Len(rxq') = 0 /\ DOMAIN rxq' = {} OBVIOUS
    <3> QED BY <1>0, <2>2, <3>2, <3>3 DEF ChannelOK
  <2>4. DaemonOK'
    <3>1. dec' \in Decoder /\ dec'.open = FALSE BY DEF Idle, Decoder, Byte
    <3>2. busy' \in BOOLEAN OBVIOUS
    <3> QED BY <1>0, <2>2, <3>1, <3>2 DEF DaemonOK
  <2>5. SenderInv' BY <1>0 DEF SenderInv, InBurst, sender, Cur
  <2> QED BY <1>0, <2>1, <2>3, <2>4, <2>5 DEF TypeInv, TypeOK
<1>10. CASE Tick
  <2> USE <1>10 DEF Tick
  <2>1. ChannelOK' BY <1>0, ChannelKept
  <2>2. SenderOK' BY <1>0 DEF SenderOK
  <2>3. DaemonOK'
    <3>1. age' \in 0 .. Timeout BY <1>0 DEF DaemonOK
    <3> QED BY <1>0, <3>1 DEF DaemonOK, Cur
  <2>4. SenderInv' BY <1>0 DEF SenderInv, InBurst, Cur
  <2> QED BY <1>0, <2>1, <2>2, <2>3, <2>4 DEF TypeInv, TypeOK
<1>11. CASE UNCHANGED vars
  <2> USE <1>11 DEF vars
  <2>1. SenderOK' /\ ChannelOK' /\ DaemonOK'
    BY <1>0, SenderKept, ChannelKept, DaemonKept DEF Cur
  <2>2. SenderInv' BY <1>0 DEF SenderInv, InBurst, sender, Cur
  <2> QED BY <1>0, <2>1, <2>2 DEF TypeInv, TypeOK
<1> QED BY <1>1, <1>2, <1>3, <1>4, <1>5, <1>6, <1>7, <1>8, <1>9, <1>10, <1>11
        DEF Next, Sender

\* TypeOK: in every reachable state each variable has its type; in particular
\* every burst number in the queue, in the decoder and in the log is that of
\* a burst that wfr_transmit_credentials sent.
THEOREM TypeCorrect == Spec => []TypeOK
<1>1. TypeInv => TypeOK BY DEF TypeInv
<1> QED BY <1>1, TypeInit, TypeStep, PTL DEF Spec

-----------------------------------------------------------------------------
(* The inductive invariant.  Its parts beyond TypeInv:                     *)

Parts == QueueInv /\ OrderInv /\ DecoderInv /\ StartInv /\ Faithful

\* IInv is the types and the parts.
LEMMA IInvParts == IInv <=> TypeInv /\ Parts
BY DEF IInv, TypeInv, Parts

\* The fields of what is in the queue.
LEMMA QueueFacts ==
  ASSUME TypeOK, NEW i \in DOMAIN rxq
  PROVE  /\ rxq[i] \in Frame /\ rxq[i].burst \in 0 .. Cur /\ rxq[i].pos \in Nat
         /\ rxq[i].burst # 0 => bursts[rxq[i].burst] \in Payloads
<1>1. /\ rxq[i] \in Frame /\ rxq[i].burst \leq Cur /\ bursts \in Seq(Payloads)
      /\ Cur \in Nat
  BY DEF TypeOK, ChannelOK, Cur
<1>2. rxq[i].burst \in Nat /\ rxq[i].pos \in Nat BY <1>1 DEF Frame
<1>3. rxq[i].burst \in 0 .. Cur BY <1>1, <1>2
<1>4. rxq[i].burst # 0 => rxq[i].burst \in 1 .. Len(bursts) BY <1>3 DEF Cur
<1> QED BY <1>1, <1>2, <1>3, <1>4

\* A step that leaves the queue and the decoder alone and at most ends a burst.
LEMMA QuietStep ==
  ASSUME TypeOK, Parts, UNCHANGED <<rxq, bursts, dec, src, log, tainted>>,
         lossy \subseteq lossy', InBurst' => InBurst /\ pos' = pos
  PROVE  Parts'
<1>0. QueueInv /\ OrderInv /\ DecoderInv /\ StartInv /\ Faithful /\ Cur' = Cur
  BY DEF Parts, Cur
<1>1. \A i \in DOMAIN rxq : Untouched(i)' <=> Untouched(i)
  BY DEF Untouched
<1>2. QueueInv' BY <1>0, <1>1 DEF QueueInv
<1>3. OrderInv' BY <1>0, <1>1 DEF OrderInv
<1>4. DecoderInv' BY <1>0 DEF DecoderInv
<1>5. StartInv' BY <1>0 DEF StartInv, Clean, Awaited
<1>6. Faithful' BY <1>0 DEF Faithful
<1> QED BY <1>2, <1>3, <1>4, <1>5, <1>6 DEF Parts

\* A message of another remote joins the queue.
LEMMA OtherRemoteStep ==
  ASSUME TypeOK, Parts, OtherRemote
  PROVE  Parts'
<1>0. /\ QueueInv /\ OrderInv /\ DecoderInv /\ StartInv /\ Faithful
      /\ Cur' = Cur /\ (InBurst' <=> InBurst) /\ pos' = pos
      /\ UNCHANGED <<bursts, dec, src, log, lossy, tainted>>
  BY DEF Parts, Cur, OtherRemote, InBurst, sender, daemon
<1>1. /\ rxq \in Seq(Frame) /\ rxq' = Append(rxq, Foreign) /\ Foreign.burst = 0
  BY DEF TypeOK, ChannelOK, OtherRemote, Foreign
<1>2. \A i \in DOMAIN rxq' :
        (i \in DOMAIN rxq /\ rxq'[i] = rxq[i]) \/ rxq'[i].burst = 0
  BY <1>1
<1>3. \A i \in DOMAIN rxq : i \in DOMAIN rxq' /\ rxq'[i] = rxq[i]
  BY <1>1
<1>4. QueueInv' BY <1>0, <1>2 DEF QueueInv, Untouched
<1>5. OrderInv' BY <1>0, <1>2 DEF OrderInv, Untouched
<1>6. DecoderInv' 
  <2> SUFFICES ASSUME dec.open PROVE DecoderInv' BY <1>0 DEF DecoderInv
  <2>1. src # 0 BY DEF TypeOK, DaemonOK
  <2> QED BY <1>0, <1>2, <2>1 DEF DecoderInv
<1>7. StartInv'
  <2> SUFFICES ASSUME NEW b \in 1 .. Cur, Clean(b), Awaited(b)' \/ (InBurst /\ b = Cur)
               PROVE \/ \E i \in DOMAIN rxq' : rxq'[i].burst = b /\ rxq'[i].pos = 0
                     \/ /\ dec.open => src = b
                        /\ \A i \in DOMAIN rxq' : rxq'[i].burst # 0 => rxq'[i].burst \geq b
    BY <1>0 DEF StartInv, Clean
  <2>1. Awaited(b)' => Awaited(b) BY <1>2 DEF Awaited
  <2>2. \/ \E i \in DOMAIN rxq : rxq[i].burst = b /\ rxq[i].pos = 0
        \/ /\ dec.open => src = b
           /\ \A i \in DOMAIN rxq : rxq[i].burst # 0 => rxq[i].burst \geq b
    BY <1>0, <2>1 DEF StartInv
  <2> QED BY <1>2, <1>3, <2>2
<1>8. Faithful' BY <1>0 DEF Faithful
<1> QED BY <1>4, <1>5, <1>6, <1>7, <1>8 DEF Parts

\* The sender emits the message at position k of its burst b, the last one: a
\* new burst's START, or the next message of the burst it is in.
LEMMA EmitStep ==
  ASSUME TypeOK, TypeOK', Parts,
         NEW b \in Nat, NEW k \in Nat, b = Cur',
         Emit(FrameOf(msg, b, k), b), msg \in Payloads, k \leq Len(msg) + 1,
         bursts'[b] = msg, \A c \in 1 .. Cur : bursts'[c] = bursts[c],
         \/ Cur' = Cur + 1 /\ k = 0
         \/ Cur' = Cur /\ InBurst /\ pos = k,
         InBurst' => pos' = k + 1,
         UNCHANGED <<dec, src, log>>
  PROVE  Parts'
<1> DEFINE f == FrameOf(msg, b, k)
<1>0. /\ QueueInv /\ OrderInv /\ DecoderInv /\ StartInv /\ Faithful
      /\ rxq \in Seq(Frame) /\ rxq' \in Seq(Frame) /\ Cur \in Nat /\ Cur \leq b
      /\ k = 0 \/ (Cur = b /\ InBurst /\ pos = k)
  <2>1. rxq \in Seq(Frame) /\ rxq' \in Seq(Frame) /\ Cur \in Nat
    BY DEF TypeOK, ChannelOK, Cur
  <2>2. Cur \leq b BY <2>1
  <2> QED BY <2>1, <2>2 DEF Parts
<1>1. f \in Frame /\ f.burst = b /\ f.pos = k /\ (k = 0 => f.type = "START")
  BY FrameFacts
<1>2. /\ Len(rxq') \geq Len(rxq)
      /\ \A i \in DOMAIN rxq : i \in DOMAIN rxq' /\ rxq'[i] = rxq[i]
      /\ \A i \in DOMAIN rxq' \ DOMAIN rxq : rxq'[i].burst = b
      /\ b \notin tainted' => (rxq' = rxq \/ rxq' = Append(rxq, f)) /\ tainted' = tainted
      /\ b \notin tainted' /\ b \notin lossy' => rxq' = Append(rxq, f)
  BY <1>0, <1>1, EmitQueue
<1>3. lossy \subseteq lossy' /\ tainted \subseteq tainted'
  BY <1>0, <1>1, EmitFacts DEF TypeOK, ChannelOK
<1>4. \A i \in DOMAIN rxq : Untouched(i)' => Untouched(i) /\ rxq'[i] = rxq[i]
  BY <1>2, <1>3 DEF Untouched
<1>5. \A i \in DOMAIN rxq : /\ rxq[i].burst \in 0 .. Cur /\ rxq[i].pos \in Nat
                            /\ rxq[i].burst # 0 => rxq[i].burst \in 1 .. Cur
  BY <1>0, QueueFacts
<1>6. \A i \in DOMAIN rxq : Untouched(i)' /\ rxq[i].burst = b => rxq[i].pos < k
  BY <1>0, <1>4, <1>5 DEF QueueInv
<1>7. b \notin tainted' =>
        \A i \in DOMAIN rxq' \ DOMAIN rxq : i = Len(rxq) + 1 /\ rxq'[i] = f
  <2> SUFFICES ASSUME b \notin tainted', NEW i \in DOMAIN rxq', i \notin DOMAIN rxq
               PROVE  i = Len(rxq) + 1 /\ rxq'[i] = f
    OBVIOUS
  <2>1. rxq' = Append(rxq, f) BY <1>2
  <2> HIDE DEF f
  <2>2. \A j \in DOMAIN rxq' : j \in DOMAIN rxq \/ j = Len(rxq) + 1
    BY <1>0, <1>1, <2>1
  <2> QED BY <1>0, <1>1, <2>1, <2>2
<1>8. QueueInv'
  <2> SUFFICES ASSUME NEW i \in DOMAIN rxq', Untouched(i)'
               PROVE  /\ rxq'[i] = FrameOf(bursts'[rxq'[i].burst], rxq'[i].burst, rxq'[i].pos)
                      /\ rxq'[i].pos \leq Len(bursts'[rxq'[i].burst]) + 1
                      /\ InBurst' /\ rxq'[i].burst = Cur' => rxq'[i].pos < pos'
    BY DEF QueueInv
  <2>1. CASE i \in DOMAIN rxq
    <3>1. Untouched(i) /\ rxq'[i] = rxq[i] BY <1>4, <2>1
    <3>2. rxq[i].burst \in 1 .. Cur /\ rxq[i].pos \in Nat
      BY <1>5, <2>1, <3>1 DEF Untouched
    <3>3. bursts'[rxq[i].burst] = bursts[rxq[i].burst] BY <3>2
    <3>4. /\ rxq[i] = FrameOf(bursts[rxq[i].burst], rxq[i].burst, rxq[i].pos)
          /\ rxq[i].pos \leq Len(bursts[rxq[i].burst]) + 1
      BY <1>0, <2>1, <3>1 DEF QueueInv
    <3>5. rxq[i].burst = b => rxq[i].pos < k BY <1>6, <2>1
    <3> QED BY <3>1, <3>2, <3>3, <3>4, <3>5
  <2>2. CASE i \notin DOMAIN rxq
    <3>1. rxq'[i].burst = b BY <1>2, <2>2
    <3>2. b \notin tainted' BY <3>1 DEF Untouched
    <3>3. rxq'[i] = f BY <1>7, <2>2, <3>2
    <3> QED BY <1>1, <3>3
  <2> QED BY <2>1, <2>2
<1>9. OrderInv'
  <2> SUFFICES ASSUME NEW i \in DOMAIN rxq', NEW j \in DOMAIN rxq', i < j,
                      rxq'[i].burst # 0, rxq'[j].burst # 0
               PROVE  /\ rxq'[i].burst \leq rxq'[j].burst
                      /\ Untouched(i)' /\ rxq'[i].burst = rxq'[j].burst
                           => rxq'[i].pos < rxq'[j].pos
    BY DEF OrderInv
  <2>1. CASE j \in DOMAIN rxq
    <3>1. i \in DOMAIN rxq BY <1>0, <2>1
    <3> QED BY <1>0, <1>2, <1>4, <2>1, <3>1 DEF OrderInv
  <2>2. CASE i \in DOMAIN rxq /\ j \notin DOMAIN rxq
    <3>1. rxq'[j].burst = b BY <1>2, <2>2
    <3>2. rxq'[i] = rxq[i] /\ rxq[i].burst \in 1 .. Cur BY <1>2, <1>5, <2>2
    <3>3. Untouched(i)' /\ rxq[i].burst = b => rxq[i].pos < k /\ rxq'[j] = f
      BY <1>6, <1>7, <2>2, <3>2 DEF Untouched
    <3> QED BY <1>0, <1>1, <3>1, <3>2, <3>3
  <2>3. CASE i \notin DOMAIN rxq /\ j \notin DOMAIN rxq
    <3>1. rxq'[i].burst = b /\ rxq'[j].burst = b BY <1>2, <2>3
    <3>2. Untouched(i)' => FALSE BY <1>7, <2>3, <3>1 DEF Untouched
    <3> QED BY <3>1, <3>2
  <2> QED BY <2>1, <2>2, <2>3
<1>10. DecoderInv'
  <2> SUFFICES ASSUME dec.open
               PROVE  /\ \A i \in DOMAIN rxq' : rxq'[i].burst # 0 => rxq'[i].burst \geq src
                      /\ src \notin tainted' =>
                           /\ dec.len = Len(bursts'[src])
                           /\ \A i \in DOMAIN rxq' : rxq'[i].burst = src =>
                                Upto(dec.buf, bursts'[src], rxq'[i].pos)
                           /\ InBurst' /\ src = Cur' => Upto(dec.buf, bursts'[src], pos')
    BY DEF DecoderInv
  <2>1. src \in 1 .. Cur /\ dec.buf \in Seq(Byte)
    BY DEF TypeOK, DaemonOK, Decoder
  <2>2. bursts'[src] = bursts[src] BY <2>1
  <2>3. \A i \in DOMAIN rxq' : rxq'[i].burst # 0 => rxq'[i].burst \geq src
    BY <1>0, <1>2, <2>1 DEF DecoderInv
  <2>4. ASSUME src \notin tainted'
        PROVE  /\ dec.len = Len(bursts[src])
               /\ \A i \in DOMAIN rxq' : rxq'[i].burst = src =>
                    Upto(dec.buf, bursts[src], rxq'[i].pos)
               /\ InBurst' /\ src = b => Upto(dec.buf, bursts[src], k + 1)
    <3>1. /\ dec.len = Len(bursts[src])
          /\ \A i \in DOMAIN rxq : rxq[i].burst = src => Upto(dec.buf, bursts[src], rxq[i].pos)
          /\ src = b => Upto(dec.buf, bursts[src], k)
      BY <1>0, <1>3, <2>1, <2>4 DEF DecoderInv
    <3>2. src = b => Upto(dec.buf, bursts[src], k + 1)
      BY <2>1, <3>1 DEF Upto
    <3>3. \A i \in DOMAIN rxq' : rxq'[i].burst = src =>
            Upto(dec.buf, bursts[src], rxq'[i].pos)
      BY <1>1, <1>2, <1>7, <2>4, <3>1
    <3> QED BY <3>1, <3>2, <3>3
  <2> QED BY <2>2, <2>3, <2>4
<1>11. StartInv'
  <2> DEFINE Started(c) ==
        \/ \E i \in DOMAIN rxq' : rxq'[i].burst = c /\ rxq'[i].pos = 0
        \/ /\ dec.open => src = c
           /\ \A i \in DOMAIN rxq' : rxq'[i].burst # 0 => rxq'[i].burst \geq c
  <2> SUFFICES ASSUME NEW c \in 1 .. b, c \notin lossy', c \notin tainted',
                      Awaited(c)' \/ (InBurst' /\ c = b)
               PROVE  Started(c)
    BY DEF StartInv, Clean
  <2>1. ASSUME c \in 1 .. Cur, Awaited(c) \/ (InBurst /\ c = Cur)
        PROVE  Started(c)
    <3>1. \/ \E i \in DOMAIN rxq : rxq[i].burst = c /\ rxq[i].pos = 0
          \/ /\ dec.open => src = c
             /\ \A i \in DOMAIN rxq : rxq[i].burst # 0 => rxq[i].burst \geq c
      BY <1>0, <1>3, <2>1 DEF StartInv, Clean
    <3> QED BY <1>2, <3>1
  <2>2. CASE c = b /\ k = 0
    <3>1. rxq' = Append(rxq, f) BY <1>2, <2>2
    <3>2. Len(rxq) + 1 \in DOMAIN rxq' /\ rxq'[Len(rxq) + 1] = f BY <1>0, <3>1
    <3> QED BY <1>1, <2>2, <3>2
  <2>3. CASE c = b /\ k # 0
    BY <1>0, <2>1, <2>3
  <2>4. CASE c # b
    <3>1. Awaited(c) BY <1>2, <2>4 DEF Awaited
    <3>2. c \in 1 .. Cur BY <1>5, <3>1 DEF Awaited
    <3> QED BY <2>1, <3>1, <3>2
  <2> QED BY <2>2, <2>3, <2>4
<1>12. Faithful'
  <2>1. \A i \in DOMAIN log : log[i].end \in 1 .. Cur BY DEF TypeOK, DaemonOK
  <2> QED BY <1>0, <1>3, <2>1 DEF Faithful
<1> QED BY <1>8, <1>9, <1>10, <1>11, <1>12 DEF Parts

\* The START of a burst: what follows it in the queue has a later position, and
\* an empty buffer is a prefix wherever it is compared.
LEMMA UptoFacts ==
  ASSUME NEW p \in Seq(Byte), NEW s \in Seq(Byte), NEW k \in Nat, NEW m \in Nat
  PROVE  /\ k > 0 => Upto(<<>>, p, k)
         /\ Upto(s, p, k) => k > 0
         /\ k \in 1 .. Len(p) /\ k < m /\ Upto(s, p, k) => Upto(Append(s, p[k]), p, m)
         /\ Upto(s, p, Len(p) + 1) /\ Len(s) = Len(p) => s = p
<1>1. k > 0 => Upto(<<>>, p, k) BY DEF Upto
<1>2. Upto(s, p, k) => k > 0 BY DEF Upto
<1>3. ASSUME k \in 1 .. Len(p), k < m, Upto(s, p, k)
      PROVE  Upto(Append(s, p[k]), p, m)
  <2>1. p[k] \in Byte BY <1>3
  <2> DEFINE t == Append(s, p[k])
  <2>2. Len(t) = Len(s) + 1 /\ Len(s) < k /\ t[Len(s) + 1] = p[k]
        /\ \A j \in 1 .. Len(s) : t[j] = s[j]
    BY <1>3, <2>1 DEF Upto
  <2>3. Len(t) < m BY <1>3, <2>2
  <2>4. ASSUME Len(t) = m - 1, NEW j \in 1 .. m - 1, j \leq Len(p)
        PROVE  t[j] = p[j]
    <3>1. Len(s) = k - 1 /\ m = k + 1 BY <1>3, <2>2, <2>4
    <3>2. CASE j = k BY <2>2, <3>1, <3>2
    <3>3. CASE j # k
      <4>1. j \in 1 .. k - 1 BY <2>4, <3>1, <3>3
      <4> QED BY <1>3, <2>2, <2>4, <3>1, <4>1 DEF Upto
    <3> QED BY <3>2, <3>3
  <2> QED BY <2>3, <2>4 DEF Upto
<1>4. ASSUME Upto(s, p, Len(p) + 1), Len(s) = Len(p) PROVE s = p
  <2>1. \A j \in 1 .. Len(p) : s[j] = p[j] BY <1>4 DEF Upto
  <2> QED BY <1>4, <2>1
<1> QED BY <1>1, <1>2, <1>3, <1>4

\* A message leaves the queue: the order of the rest, and its own place in it.
LEMMA ReadOrder ==
  ASSUME TypeOK, Parts, Read
  PROVE  /\ QueueInv' /\ OrderInv'
         /\ UNCHANGED <<bursts, tainted, lossy, sending, msg, pos>>
         /\ Cur' = Cur /\ (InBurst' <=> InBurst)
         /\ Msg = rxq[1] /\ 1 \in DOMAIN rxq /\ Msg.burst \in 0 .. Cur
         /\ \A i \in DOMAIN rxq' :
              /\ i + 1 \in DOMAIN rxq /\ rxq'[i] = rxq[i + 1]
              /\ rxq'[i].burst \in 0 .. Cur /\ rxq'[i].pos \in Nat
              /\ Msg.burst # 0 /\ rxq'[i].burst # 0 =>
                   /\ Msg.burst \leq rxq'[i].burst
                   /\ Msg.burst = rxq'[i].burst /\ Msg.burst \notin tainted
                        => Msg.pos < rxq'[i].pos
         /\ \A i \in DOMAIN rxq : i = 1 \/ (i - 1 \in DOMAIN rxq' /\ rxq[i] = rxq'[i - 1])
         /\ Msg.burst # 0 /\ Msg.burst \notin tainted =>
              /\ Msg = FrameOf(bursts[Msg.burst], Msg.burst, Msg.pos)
              /\ Msg.pos \in 0 .. Len(bursts[Msg.burst]) + 1
              /\ InBurst /\ Msg.burst = Cur => Msg.pos < pos
<1>0. /\ QueueInv /\ OrderInv /\ rxq \in Seq(Frame) /\ Len(rxq) > 0
      /\ rxq' = Tail(rxq) /\ Msg = rxq[1] /\ 1 \in DOMAIN rxq
  BY DEF Parts, TypeOK, ChannelOK, Read, Msg
<1>1. /\ UNCHANGED <<bursts, tainted, lossy, sending, msg, pos>>
      /\ Cur' = Cur /\ (InBurst' <=> InBurst)
  BY DEF Read, sender, Cur, InBurst
<1>2. /\ \A i \in DOMAIN rxq' : i \in Nat /\ i > 0 /\ i + 1 \in DOMAIN rxq /\ rxq'[i] = rxq[i + 1]
      /\ \A i \in DOMAIN rxq : i = 1 \/ (i - 1 \in DOMAIN rxq' /\ rxq[i] = rxq'[i - 1])
  BY <1>0
<1>3. /\ Msg.burst \in 0 .. Cur /\ Msg.pos \in Nat
      /\ Msg.burst # 0 => bursts[Msg.burst] \in Payloads
      /\ \A i \in DOMAIN rxq' : rxq'[i].burst \in 0 .. Cur /\ rxq'[i].pos \in Nat
  BY <1>0, <1>2, QueueFacts
<1>4. QueueInv' 
  BY <1>0, <1>1, <1>2 DEF QueueInv, Untouched
<1>5. OrderInv'
  <2> SUFFICES ASSUME NEW i \in DOMAIN rxq', NEW j \in DOMAIN rxq', i < j,
                      rxq'[i].burst # 0, rxq'[j].burst # 0
               PROVE  /\ rxq'[i].burst \leq rxq'[j].burst
                      /\ Untouched(i)' /\ rxq'[i].burst = rxq'[j].burst
                           => rxq'[i].pos < rxq'[j].pos
    BY DEF OrderInv
  <2>1. i + 1 < j + 1 BY <1>2
  <2>2. Untouched(i)' => Untouched(i + 1) BY <1>1, <1>2 DEF Untouched
  <2> QED BY <1>0, <1>2, <2>1, <2>2 DEF OrderInv
<1>6. ASSUME NEW i \in DOMAIN rxq', Msg.burst # 0, rxq'[i].burst # 0
      PROVE  /\ Msg.burst \leq rxq'[i].burst
             /\ Msg.burst = rxq'[i].burst /\ Msg.burst \notin tainted
                  => Msg.pos < rxq'[i].pos
  <2>1. i + 1 \in DOMAIN rxq /\ rxq'[i] = rxq[i + 1] /\ 1 < i + 1 BY <1>2
  <2> QED BY <1>0, <1>6, <2>1 DEF OrderInv, Untouched
<1>7. ASSUME Msg.burst # 0, Msg.burst \notin tainted
      PROVE  /\ Msg = FrameOf(bursts[Msg.burst], Msg.burst, Msg.pos)
             /\ Msg.pos \in 0 .. Len(bursts[Msg.burst]) + 1
             /\ InBurst /\ Msg.burst = Cur => Msg.pos < pos
  <2>1. /\ Msg = FrameOf(bursts[Msg.burst], Msg.burst, Msg.pos)
        /\ Msg.pos \leq Len(bursts[Msg.burst]) + 1
        /\ InBurst /\ Msg.burst = Cur => Msg.pos < pos
    BY <1>0, <1>7 DEF QueueInv, Untouched
  <2>2. Len(bursts[Msg.burst]) \in Nat BY <1>3, <1>7, PayloadFacts
  <2> QED BY <1>3, <2>1, <2>2
<1> QED BY <1>0, <1>1, <1>2, <1>3, <1>4, <1>5, <1>6, <1>7

\* What is asked of the decoder when it is closed, or unchanged.
LEMMA DecoderSame ==
  ASSUME TypeOK, Parts, Read, dec' = Idle \/ UNCHANGED <<dec, src>>
  PROVE  DecoderInv'
<1>1. CASE dec' = Idle BY <1>1 DEF DecoderInv, Idle
<1>2. CASE UNCHANGED <<dec, src>>
  BY <1>2, ReadOrder DEF Parts, DecoderInv
<1> QED BY <1>1, <1>2

\* StartInv after a message that is not an accepted START.
LEMMA StartSame ==
  ASSUME TypeOK, Parts, Read, dec'.open => dec.open /\ src' = src,
         Msg.type = "START" => dec'.open = FALSE
  PROVE  StartInv'
<1> SUFFICES ASSUME NEW b \in 1 .. Cur, b \notin lossy, b \notin tainted,
                    Awaited(b)' \/ (InBurst /\ b = Cur)
             PROVE  \/ \E i \in DOMAIN rxq' : rxq'[i].burst = b /\ rxq'[i].pos = 0
                    \/ /\ dec'.open => src' = b
                       /\ \A i \in DOMAIN rxq' : rxq'[i].burst # 0 => rxq'[i].burst \geq b
  BY ReadOrder DEF StartInv, Clean
<1>1. Awaited(b)' => Awaited(b) BY ReadOrder DEF Awaited
<1>2. CASE \E i \in DOMAIN rxq : rxq[i].burst = b /\ rxq[i].pos = 0
  <2>1. PICK i \in DOMAIN rxq : rxq[i].burst = b /\ rxq[i].pos = 0 BY <1>2
  <2>2. CASE i # 1 BY <2>1, <2>2, ReadOrder
  <2>3. CASE i = 1
    <3>1. Msg.burst = b /\ Msg.pos = 0 BY <2>1, <2>3, ReadOrder
    <3>2. Msg = FrameOf(bursts[b], b, 0) BY <3>1, ReadOrder
    <3>3. Msg.type = "START" BY <3>2 DEF FrameOf
    <3>4. dec'.open = FALSE BY <3>3
    <3> QED BY <3>1, <3>4, ReadOrder
  <2> QED BY <2>2, <2>3
<1>3. CASE /\ dec.open => src = b
           /\ \A i \in DOMAIN rxq : rxq[i].burst # 0 => rxq[i].burst \geq b
  BY <1>3, ReadOrder
<1> QED BY <1>1, <1>2, <1>3 DEF Parts, StartInv, Clean

\* Faithful after a message that completes nothing.
LEMMA FaithfulSame ==
  ASSUME Parts, UNCHANGED <<log, bursts, tainted, lossy>>
  PROVE  Faithful'
BY DEF Parts, Faithful

\* A START opens the decoder for its burst.
LEMMA ReceiveStartStep ==
  ASSUME TypeOK, Parts, ReceiveStart
  PROVE  Parts'
<1> DEFINE c == Msg.burst
<1>0. Read /\ Msg.type = "START" /\ UNCHANGED <<log, bursts, tainted, lossy>>
  BY DEF ReceiveStart, Feed, Read
<1>1. c \in 1 .. Cur /\ bursts[c] \in Payloads /\ Msg.pos \in Nat
  <2>1. c \in 0 .. Cur /\ c # 0 BY <1>0, ReadFacts, ReadOrder
  <2>2. c \in 1 .. Cur BY <2>1 DEF Cur, TypeOK
  <2>3. Msg.pos \in Nat BY <1>0, ReadFacts DEF Frame
  <2> QED BY <2>2, <2>3 DEF TypeOK, Cur
<1>2. c \notin tainted => Msg.pos = 0 /\ Msg.cmd = Len(bursts[c]) /\ Msg.cmd # 0
  <2>1. c \notin tainted => Msg = FrameOf(bursts[c], c, Msg.pos)
    BY <1>0, <1>1, ReadOrder
  <2> SUFFICES ASSUME c \notin tainted
               PROVE  Msg.pos = 0 /\ Msg.cmd = Len(bursts[c]) /\ Msg.cmd # 0
    OBVIOUS
  <2> DEFINE k == Msg.pos
  <2>2. c \in Nat /\ k \in Nat /\ bursts[c] \in Payloads BY <1>1
  <2>3. FrameOf(bursts[c], c, k).type = "START" BY <1>0, <2>1
  <2>4. k = 0 BY <2>2, <2>3, FrameFacts
  <2>5. Msg.cmd = Len(bursts[c]) BY <2>1, <2>2, <2>4, FrameFacts
  <2>6. Len(bursts[c]) \in 1 .. 255 BY <2>2, PayloadFacts
  <2>7. Len(bursts[c]) # 0
    <3>1. \A n \in 1 .. 255 : n # 0 OBVIOUS
    <3> QED BY <2>6, <3>1, Zenon
  <2> QED BY <2>4, <2>5, <2>7
<1>3. CASE Msg.cmd = 0
  <2>1. UNCHANGED <<dec, src>> BY <1>3 DEF ReceiveStart, AfterStart
  <2>2. c \in tainted BY <1>2, <1>3
  <2>3. StartInv'
    <3> SUFFICES ASSUME NEW b \in 1 .. Cur, b \notin lossy, b \notin tainted,
                        Awaited(b)' \/ (InBurst /\ b = Cur)
                 PROVE  \/ \E i \in DOMAIN rxq' : rxq'[i].burst = b /\ rxq'[i].pos = 0
                        \/ /\ dec.open => src = b
                           /\ \A i \in DOMAIN rxq' : rxq'[i].burst # 0 => rxq'[i].burst \geq b
      BY <1>0, <2>1, ReadOrder DEF StartInv, Clean
    <3>1. Awaited(b)' => Awaited(b) BY <1>0, ReadOrder DEF Awaited
    <3>2. \/ \E i \in DOMAIN rxq : rxq[i].burst = b /\ rxq[i].pos = 0
          \/ /\ dec.open => src = b
             /\ \A i \in DOMAIN rxq : rxq[i].burst # 0 => rxq[i].burst \geq b
      BY <3>1 DEF Parts, StartInv, Clean
    <3> QED BY <1>0, <2>2, <3>2, ReadOrder
  <2> QED BY <1>0, <2>1, <2>3, ReadOrder, DecoderSame, FaithfulSame DEF Parts
<1>4. CASE Msg.cmd # 0
  <2>1. dec' = [open |-> TRUE, len |-> Msg.cmd, buf |-> <<>>] /\ src' = c
    BY <1>4 DEF ReceiveStart, AfterStart
  <2>2. DecoderInv'
    <3> SUFFICES
          /\ \A i \in DOMAIN rxq' : rxq'[i].burst # 0 => rxq'[i].burst \geq c
          /\ c \notin tainted =>
               /\ Msg.cmd = Len(bursts[c])
               /\ \A i \in DOMAIN rxq' : rxq'[i].burst = c => Upto(<<>>, bursts[c], rxq'[i].pos)
               /\ InBurst /\ c = Cur => Upto(<<>>, bursts[c], pos)
      BY <1>0, <2>1, ReadOrder DEF DecoderInv
    <3>1. \A i \in DOMAIN rxq' : rxq'[i].burst # 0 => rxq'[i].burst \geq c
      BY <1>0, <1>1, ReadOrder
    <3>2. \A k \in Nat : k > 0 => Upto(<<>>, bursts[c], k) BY DEF Upto
    <3>3. c \notin tainted =>
            \A i \in DOMAIN rxq' : rxq'[i].burst = c => Upto(<<>>, bursts[c], rxq'[i].pos)
      BY <1>0, <1>1, <1>2, <3>2, ReadOrder
    <3>4. InBurst => Upto(<<>>, bursts[c], pos)
      BY <3>2 DEF InBurst, TypeOK, SenderOK
    <3> QED BY <1>2, <3>1, <3>3, <3>4
  <2>3. StartInv'
    <3> SUFFICES ASSUME NEW b \in 1 .. Cur, b \notin lossy, b \notin tainted,
                        Awaited(b)' \/ (InBurst /\ b = Cur)
                 PROVE  \/ \E i \in DOMAIN rxq' : rxq'[i].burst = b /\ rxq'[i].pos = 0
                        \/ /\ c = b
                           /\ \A i \in DOMAIN rxq' : rxq'[i].burst # 0 => rxq'[i].burst \geq b
      BY <1>0, <2>1, ReadOrder DEF StartInv, Clean
    <3>1. Awaited(b)' => Awaited(b) BY <1>0, ReadOrder DEF Awaited
    <3>2. CASE \E i \in DOMAIN rxq : rxq[i].burst = b /\ rxq[i].pos = 0
      <4>1. PICK i \in DOMAIN rxq : rxq[i].burst = b /\ rxq[i].pos = 0 BY <3>2
      <4>2. CASE i # 1 BY <1>0, <4>1, <4>2, ReadOrder
      <4>3. CASE i = 1
        <5>1. c = b BY <1>0, <4>1, <4>3, ReadOrder
        <5> QED BY <1>0, <1>1, <5>1, ReadOrder
      <4> QED BY <4>2, <4>3
    <3>3. CASE \A i \in DOMAIN rxq : rxq[i].burst # 0 => rxq[i].burst \geq b
      <4>1. c \geq b /\ \A i \in DOMAIN rxq' : rxq'[i].burst # 0 => rxq'[i].burst \geq b
        BY <1>0, <1>1, <3>3, ReadOrder
      <4>2. c = b
        <5>1. CASE Awaited(b)'
          <6>1. PICK i \in DOMAIN rxq' : rxq'[i].burst = b BY <5>1 DEF Awaited
          <6>2. c \leq b BY <1>0, <1>1, <6>1, ReadOrder
          <6> QED BY <1>1, <4>1, <6>2
        <5>2. CASE b = Cur BY <1>1, <4>1, <5>2
        <5> QED BY <5>1, <5>2
      <4> QED BY <4>1, <4>2
    <3> QED BY <3>1, <3>2, <3>3 DEF Parts, StartInv, Clean
  <2> QED BY <1>0, <2>2, <2>3, ReadOrder, FaithfulSame DEF Parts
<1> QED BY <1>3, <1>4

\* A DATA or an END that does not complete: the decoder keeps its burst.
LEMMA ReceiveByteStep ==
  ASSUME TypeOK, Parts, ReceiveData \/ ReceiveEnd
  PROVE  Parts'
<1>0. /\ Read /\ Msg.type # "START" /\ Msg.type # "FOREIGN" /\ dec \in Decoder
      /\ UNCHANGED <<src, log, bursts, tainted, lossy>>
      /\ src \in 0 .. Cur /\ (dec.open <=> src # 0)
      /\ Msg.cmd \in Byte
  <2>1. Read /\ Msg.type # "START" /\ Msg.type # "FOREIGN" /\ UNCHANGED <<src, log>>
    BY DEF ReceiveData, ReceiveEnd, Feed
  <2>2. Msg.cmd \in Byte BY <2>1, ReadFacts DEF Frame
  <2> QED BY <2>1, <2>2, ReadOrder DEF TypeOK, DaemonOK
<1>1. dec'.open = dec.open
  BY <1>0, DecoderFacts DEF ReceiveData, ReceiveEnd
<1>2. DecoderInv'
  <2> SUFFICES ASSUME dec.open, ~ UNCHANGED dec
               PROVE  DecoderInv'
    <3>1. CASE ~dec.open BY <1>1, <3>1 DEF DecoderInv
    <3>2. CASE UNCHANGED dec BY <1>0, <3>2, DecoderSame
    <3> QED BY <3>1, <3>2
  <2> DEFINE p == bursts[src]
  <2>1. src \in 1 .. Cur /\ p \in Payloads /\ p \in Seq(Byte)
    <3>1. src \in 1 .. Cur BY <1>0
    <3>2. p \in Payloads BY <3>1 DEF TypeOK, Cur
    <3> QED BY <3>1, <3>2, PayloadFacts
  <2>2. /\ \A i \in DOMAIN rxq : rxq[i].burst # 0 => rxq[i].burst \geq src
        /\ src \notin tainted =>
             /\ dec.len = Len(p)
             /\ \A i \in DOMAIN rxq : rxq[i].burst = src => Upto(dec.buf, p, rxq[i].pos)
             /\ InBurst /\ src = Cur => Upto(dec.buf, p, pos)
    BY DEF Parts, DecoderInv
  <2>3. Msg.burst # 0 /\ Msg.burst \geq src BY <1>0, <2>2, ReadFacts, ReadOrder
  <2>4. \A i \in DOMAIN rxq' : rxq'[i].burst # 0 => rxq'[i].burst \geq src
    BY <1>0, <2>2, ReadOrder
  <2> SUFFICES ASSUME src \notin tainted
               PROVE  /\ dec'.len = Len(p)
                      /\ \A i \in DOMAIN rxq' : rxq'[i].burst = src =>
                           Upto(dec'.buf, p, rxq'[i].pos)
                      /\ InBurst /\ src = Cur => Upto(dec'.buf, p, pos)
    BY <1>0, <2>4, ReadOrder DEF DecoderInv
  <2>5. dec'.len = Len(p)
    BY <2>2 DEF ReceiveData, ReceiveEnd, AfterData, AfterEnd, TypeOK, DaemonOK, Decoder
  <2>6. dec.buf \in Seq(Byte) /\ pos \in Nat BY <1>0 DEF Decoder, TypeOK, SenderOK
  <2>7. CASE ReceiveEnd
    <3>1. dec'.buf = <<>>
      BY <1>0, <2>7 DEF ReceiveEnd, AfterEnd, Decoder
    <3>2. \A k \in Nat : k > 0 => Upto(<<>>, p, k) BY DEF Upto
    <3>3. \A k \in Nat : Upto(dec.buf, p, k) => k > 0 BY <2>6 DEF Upto
    <3>4. \A i \in DOMAIN rxq' : rxq'[i].burst = src => Upto(dec'.buf, p, rxq'[i].pos)
      BY <1>0, <2>2, <3>1, <3>2, <3>3, ReadOrder
    <3>5. InBurst /\ src = Cur => Upto(dec'.buf, p, pos)
      BY <2>2, <2>6, <3>1, <3>2, <3>3
    <3> QED BY <2>5, <3>4, <3>5
  <2>8. CASE ReceiveData
    <3>1. dec'.buf = Append(dec.buf, Msg.cmd)
      BY <1>0, <2>8 DEF ReceiveData, AfterData, Decoder
    <3>2. CASE Msg.burst # src
      BY <1>0, <2>1, <2>3, <2>5, <3>2, ReadOrder
    <3>3. CASE Msg.burst = src
      <4> DEFINE m == Msg.pos
      <4>1. /\ Msg = FrameOf(p, src, m) /\ m \in Nat
            /\ InBurst /\ src = Cur => m < pos
            /\ \A i \in DOMAIN rxq' : rxq'[i].burst = src => m < rxq'[i].pos
        BY <1>0, <2>1, <2>3, <3>3, ReadOrder
      <4>2. Msg.type = "DATA" BY <2>8 DEF ReceiveData, Feed
      <4>3. src \in Nat BY <2>1 
      <4>4. m \in 1 .. Len(p)
        <5>1. FrameOf(p, src, m).type = "DATA" BY <4>1, <4>2
        <5> HIDE DEF m, p
        <5> QED BY <2>1, <4>1, <4>3, <5>1, FrameFacts
      <4>5. Msg.cmd = p[m] BY <2>1, <4>1, <4>3, <4>4, FrameFacts
      <4>6. Upto(dec.buf, p, m) BY <1>0, <2>2, <3>3, ReadOrder
      <4>7. \A k \in Nat : m < k => Upto(dec'.buf, p, k)
        BY <2>1, <2>6, <3>1, <4>1, <4>4, <4>5, <4>6, UptoFacts
      <4>8. \A i \in DOMAIN rxq' : rxq'[i].burst = src => Upto(dec'.buf, p, rxq'[i].pos)
        BY <1>0, <4>1, <4>7, ReadOrder
      <4>9. InBurst /\ src = Cur => Upto(dec'.buf, p, pos)
        BY <2>6, <4>1, <4>7
      <4> QED BY <2>5, <4>8, <4>9
    <3> QED BY <3>2, <3>3
  <2> QED BY <2>7, <2>8
<1>3. StartInv' BY <1>0, <1>1, StartSame
<1> QED BY <1>0, <1>2, <1>3, ReadOrder, FaithfulSame DEF Parts

\* An END that completes: what is handed over is what its burst sent.
LEMMA DeliverStep ==
  ASSUME TypeOK, Parts, Deliver
  PROVE  Parts'
<1> DEFINE b == Msg.burst
           e == [payload |-> dec.buf, start |-> src, end |-> b]
<1>0. /\ Read /\ Msg.type = "END" /\ Completes(dec, Msg.cmd) /\ dec' = Idle
      /\ log' = Append(log, e) /\ UNCHANGED <<bursts, tainted, lossy>>
  <2>1. Read /\ Msg.type = "END" /\ Completes(dec, Msg.cmd) /\ log' = Append(log, e)
        /\ dec' = Idle
    BY DEF Deliver, Feed, AfterEnd
  <2> QED BY <2>1, ReadOrder
<1>1. dec.open /\ Len(dec.buf) = dec.len /\ dec.buf \in Seq(Byte)
  BY <1>0 DEF Completes, Full, TypeOK, DaemonOK, Decoder
<1>2. /\ b \in 1 .. Cur /\ b \in Nat /\ Msg.pos \in Nat
      /\ bursts[b] \in Payloads /\ bursts[b] \in Seq(Byte)
  <2>1. b \in 0 .. Cur /\ b # 0 BY <1>0, ReadFacts, ReadOrder
  <2>2. b \in 1 .. Cur BY <2>1 DEF Cur, TypeOK
  <2>3. Msg.pos \in Nat BY <1>0, ReadFacts DEF Frame
  <2>4. bursts[b] \in Payloads BY <2>2 DEF TypeOK, Cur
  <2> QED BY <2>2, <2>3, <2>4, PayloadFacts
<1>3. ASSUME b \notin tainted
      PROVE  Msg.pos = Len(bursts[b]) + 1 /\ Msg.pos # 0
  <2>1. Msg = FrameOf(bursts[b], b, Msg.pos) /\ Msg.pos \in 0 .. Len(bursts[b]) + 1
    BY <1>0, <1>2, <1>3, ReadOrder
  <2>2. Msg.pos > Len(bursts[b]) BY <1>0, <1>2, <2>1, FrameFacts
  <2> QED BY <1>2, <2>1, <2>2
<1>4. ASSUME b \notin tainted, b \notin lossy
      PROVE  src = b
  <2>1. Clean(b) /\ Awaited(b) BY <1>0, <1>4, ReadOrder DEF Clean, Awaited
  <2>2. \/ \E i \in DOMAIN rxq : rxq[i].burst = b /\ rxq[i].pos = 0
        \/ dec.open => src = b
    BY <1>2, <2>1 DEF Parts, StartInv
  <2>3. ASSUME NEW i \in DOMAIN rxq, rxq[i].burst = b, rxq[i].pos = 0
        PROVE  FALSE
    <3>1. CASE i = 1 BY <1>0, <1>3, <1>4, <2>3, <3>1, ReadOrder
    <3>2. CASE i # 1 BY <1>0, <1>2, <1>4, <2>3, <3>2, ReadOrder
    <3> QED BY <3>1, <3>2
  <2> QED BY <1>1, <2>2, <2>3
<1>5. ASSUME b \notin tainted, src = b
      PROVE  dec.buf = bursts[b]
  <2>1. /\ dec.len = Len(bursts[b])
        /\ Upto(dec.buf, bursts[b], Len(bursts[b]) + 1)
    BY <1>0, <1>1, <1>3, <1>5, ReadOrder DEF Parts, DecoderInv
  <2> QED BY <1>1, <1>2, <2>1, UptoFacts
<1>6. Faithful'
  <2>1. log \in Seq([payload : Seq(Byte), start : Nat, end : Nat])
    BY DEF TypeOK, DaemonOK
  <2>2. (e.end \notin tainted /\ (e.start = e.end \/ e.end \notin lossy))
           => e.start = e.end /\ e.payload = bursts[e.end]
    BY <1>4, <1>5
  <2> HIDE DEF e
  <2>3. \A i \in DOMAIN log' : log'[i] = e \/ (i \in DOMAIN log /\ log'[i] = log[i])
    BY <1>0, <2>1
  <2> QED BY <1>0, <2>2, <2>3 DEF Parts, Faithful
<1>7. DecoderInv' BY <1>0, DecoderSame
<1>8. StartInv' BY <1>0, StartSame DEF Idle
<1> QED BY <1>0, <1>6, <1>7, <1>8, ReadOrder DEF Parts

\* A message that finds an expired transmission, or of another remote.
LEMMA ReceiveNothingStep ==
  ASSUME TypeOK, Parts, ReceiveExpired \/ ReceiveForeign
  PROVE  Parts'
<1>1. /\ Read /\ UNCHANGED <<log, bursts, tainted, lossy>>
      /\ (dec' = Idle \/ (UNCHANGED <<dec, src>> /\ Msg.type = "FOREIGN"))
  BY ReadOrder DEF ReceiveExpired, ReceiveForeign, Feed, daemon
<1>2. dec'.open => dec.open /\ src' = src BY <1>1 DEF Idle
<1>3. Msg.type = "START" => dec'.open = FALSE BY <1>1 DEF Idle
<1> QED BY <1>1, <1>2, <1>3, ReadOrder, DecoderSame, StartSame, FaithfulSame DEF Parts

\* The daemon is started again: nothing is queued, nothing is open, and the
\* burst in the air has lost a message.
LEMMA RestartStep ==
  ASSUME TypeOK, Parts, Restart
  PROVE  Parts'
<1>1. /\ DOMAIN rxq' = {} /\ dec'.open = FALSE /\ lossy \subseteq lossy'
      /\ UNCHANGED <<bursts, tainted, log>> /\ Cur' = Cur /\ (InBurst' <=> InBurst)
  <2>1. DOMAIN rxq' = {} /\ dec'.open = FALSE BY DEF Restart, Idle
  <2>2. lossy \subseteq lossy' BY DEF Restart, TypeOK, ChannelOK
  <2> QED BY <2>1, <2>2 DEF Restart, Cur, InBurst, sender
<1>2. InBurst /\ Cur # 0 => Cur \in lossy' BY DEF Restart
<1>3. QueueInv' /\ OrderInv' /\ DecoderInv' BY <1>1 DEF QueueInv, OrderInv, DecoderInv
<1>4. StartInv' BY <1>1, <1>2 DEF StartInv, Clean, Awaited
<1>5. Faithful' BY <1>1 DEF Parts, Faithful
<1> QED BY <1>3, <1>4, <1>5 DEF Parts

-----------------------------------------------------------------------------
\* Initially.
LEMMA PartsInit == Init => Parts
BY DEF Init, Parts, QueueInv, OrderInv, DecoderInv, StartInv, Faithful, Clean,
       Awaited, InBurst, Cur, Idle

\* Every step.
LEMMA IInvStep == IInv /\ [Next]_vars => IInv'
<1> SUFFICES ASSUME TypeInv, TypeInv', Parts, [Next]_vars PROVE Parts'
  BY TypeStep DEF IInv, TypeInv, Parts
<1>0. TypeOK /\ TypeOK' /\ SenderInv /\ Parts
  BY DEF TypeInv
<1>1. /\ SenderOK /\ bursts \in Seq(Payloads) /\ Cur \in Nat /\ pos \in Nat
      /\ lossy \subseteq lossy
  BY <1>0 DEF TypeOK, SenderOK, Cur
<1>2. ASSUME NEW p \in Payloads, BeginTransmit(p) PROVE Parts'
  BY <1>0, <1>2, QuietStep DEF BeginTransmit, InBurst, daemon, channel
<1>3. CASE SendStart
  <2> DEFINE b == Cur + 1
             k == 0
  <2>1. msg \in Payloads /\ Len(msg) \in Nat
    BY <1>1, <1>3, PayloadFacts DEF SenderOK, SendStart
  <2>2. b = Cur' /\ bursts'[b] = msg /\ \A c \in 1 .. Cur : bursts'[c] = bursts[c]
    BY <1>1, <1>3, <2>1 DEF Cur, SendStart
  <2>3. Emit(FrameOf(msg, b, k), b) /\ pos' = k + 1 /\ UNCHANGED <<dec, src, log>>
    BY <1>3 DEF SendStart, daemon
  <2>4. b \in Nat /\ k \in Nat /\ k \leq Len(msg) + 1 /\ Cur' = Cur + 1 /\ k = 0
    BY <1>1, <2>1, <2>2
  <2> HIDE DEF b, k
  <2> QED BY <1>0, <2>1, <2>2, <2>3, <2>4, EmitStep
<1>4. CASE SendData \/ SendEnd
  <2>1. /\ msg \in Payloads /\ Len(msg) \in Nat /\ InBurst /\ pos \leq Len(msg) + 1
        /\ UNCHANGED <<bursts, dec, src, log>> /\ Cur' = Cur
        /\ Emit(FrameOf(msg, Cur, pos), Cur) /\ (InBurst' => pos' = pos + 1)
    <3>1. msg \in Payloads /\ Len(msg) \in Nat
      BY <1>1, <1>4, PayloadFacts DEF SenderOK, SendData, SendEnd
    <3> QED BY <1>1, <1>4, <3>1 DEF SendData, SendEnd, InBurst, daemon, Cur
  <2>2. bursts[Cur] = msg BY <1>0, <2>1 DEF SenderInv
  <2> QED BY <1>0, <1>1, <2>1, <2>2, EmitStep
<1>5. CASE Cancel
  BY <1>0, <1>5, QuietStep DEF Cancel, InBurst, daemon
<1>6. CASE OtherRemote
  BY <1>0, <1>6, OtherRemoteStep
<1>7. CASE Loop
  BY <1>0, <1>7, ReceiveStartStep, ReceiveByteStep, DeliverStep, ReceiveNothingStep
     DEF Loop
<1>8. CASE FinishHandling
  BY <1>0, <1>8, QuietStep DEF FinishHandling, InBurst, sender, channel
<1>9. CASE Restart
  BY <1>0, <1>9, RestartStep
<1>10. CASE Tick
  BY <1>0, <1>10, QuietStep DEF Tick, InBurst, channel
<1>11. CASE UNCHANGED vars
  BY <1>0, <1>11, QuietStep DEF vars, sender, daemon, channel, InBurst
<1> QED BY <1>2, <1>3, <1>4, <1>5, <1>6, <1>7, <1>8, <1>9, <1>10, <1>11
        DEF Next, Sender

\* Faithful: whatever the check byte is worth, and whatever the air and earlier
\* transmissions left in the decoder, a payload completed by the END of a burst
\* of which nothing was repeated or damaged is the payload of that burst, if
\* that burst's START opened the decoder or nothing of the burst was lost.
THEOREM LinkFaithful == Spec => []Faithful
<1>1. Init => IInv BY TypeInit, PartsInit, IInvParts
<1>2. IInv => Faithful BY DEF IInv
<1> QED BY <1>1, <1>2, IInvStep, PTL DEF Spec

-----------------------------------------------------------------------------
(* The decoder recovers: CleanBurstDelivered.  IInv says that what is      *)
(* completed is right; here is what makes a whole burst complete, however  *)
(* the reader was held up and whatever it followed.                        *)

\* Message k of burst b is in the queue, or will be the next one sent.
Queued(b, k) == \E i \in DOMAIN rxq : rxq[i].burst = b /\ rxq[i].pos = k
Coming(b, k) == Queued(b, k) \/ (InBurst /\ b = Cur /\ pos = k)

\* Every queued message of the burst but its END is followed by the next one.
Gapless(b) ==
  \A k \in Nat : Queued(b, k) /\ k \leq Len(bursts[b]) => Coming(b, k + 1)

\* The decoder is open for the burst, its next byte is coming, and it is not
\* older than the burst: time passes only while the decoder waits for the air.
Receiving(b) ==
  /\ dec.open /\ src = b
  /\ \E k \in Nat : k = Len(dec.buf) + 1 /\ Coming(b, k)
  /\ age \leq BurstTicks /\ (InBurst /\ b = Cur => age \leq pace)

\* No START of the burst or of an earlier one is queued.
Behind(b) ==
  \A i \in DOMAIN rxq : rxq[i].burst # 0 =>
    rxq[i].burst > b \/ (rxq[i].burst = b /\ rxq[i].type # "START")

\* The START was used up by a timeout; the burst never opens the decoder.
Swallowed(b) == b \in swallowed /\ (dec.open => src > b) /\ Behind(b)

Progress(b) == Queued(b, 0) \/ Receiving(b) \/ Delivered(b) \/ Swallowed(b)

Recovers == \A b \in 1 .. Cur : Clean(b) => Gapless(b) /\ Progress(b)

\* While a payload is handled the decoder is closed, so it does not age.
RecoveryInv == IInv /\ (busy => ~dec.open) /\ Recovers

-----------------------------------------------------------------------------
(* The sender and the air.                                                 *)

\* The END carries the check byte of the payload.
LEMMA EndFacts ==
  ASSUME NEW p \in Payloads, NEW b \in Nat, NEW k \in Nat, k > Len(p)
  PROVE  FrameOf(p, b, k).cmd = Crc(p)
<1>1. k # 0 /\ k \notin 1 .. Len(p) BY PayloadFacts
<1> QED BY <1>1 DEF FrameOf

\* A step that leaves queue and daemon alone, and at most gives up the burst.
LEMMA QuietRecovers ==
  ASSUME Recovers, UNCHANGED <<rxq, bursts, dec, age, src, log, swallowed, pace>>,
         lossy \subseteq lossy', tainted \subseteq tainted',
         InBurst' => InBurst /\ pos' = pos,
         InBurst /\ Cur \notin lossy' => InBurst'
  PROVE  Recovers'
<1> SUFFICES ASSUME NEW b \in 1 .. Cur, Clean(b)' PROVE Gapless(b)' /\ Progress(b)'
  BY DEF Recovers, Cur
<1>1. Clean(b) /\ Cur' = Cur BY DEF Clean, Cur
<1>2. \A k \in Nat : Queued(b, k)' <=> Queued(b, k) BY DEF Queued
<1>3. \A k \in Nat : Coming(b, k) => Coming(b, k)' BY <1>1, <1>2 DEF Coming, Clean
<1>4. Gapless(b) /\ Progress(b) BY <1>1 DEF Recovers
<1>5. Gapless(b)' BY <1>2, <1>3, <1>4 DEF Gapless
<1>6. Receiving(b) => Receiving(b)' BY <1>1, <1>3 DEF Receiving
<1>7. Delivered(b) => Delivered(b)' BY DEF Delivered
<1>8. Swallowed(b) => Swallowed(b)' BY DEF Swallowed, Behind
<1>9. Progress(b)' BY <1>2, <1>4, <1>6, <1>7, <1>8 DEF Progress
<1> QED BY <1>5, <1>9

\* The queue grows: what is new is of the burst sent, b, at its position k.
LEMMA EmitRecovers ==
  ASSUME TypeOK, TypeOK', Recovers,
         NEW b \in Nat, NEW k \in Nat, b = Cur',
         Emit(FrameOf(msg, b, k), b), msg \in Payloads, bursts'[b] = msg,
         \A c \in 1 .. Cur : bursts'[c] = bursts[c],
         \/ Cur' = Cur + 1 /\ k = 0 /\ ~InBurst
         \/ Cur' = Cur /\ InBurst /\ pos = k /\ k > 0 /\ pace' = pace,
         IF k \leq Len(msg) THEN InBurst' /\ pos' = k + 1 ELSE ~InBurst',
         UNCHANGED <<dec, age, src, log, swallowed>>
  PROVE  Recovers'
<1> DEFINE f == FrameOf(msg, b, k)
<1>1. /\ f \in Frame /\ f.burst = b /\ f.pos = k /\ (f.type = "START" <=> k = 0)
      /\ rxq \in Seq(Frame) /\ Cur \in Nat /\ Len(msg) \in Nat
  <2>1. f \in Frame /\ f.burst = b /\ f.pos = k /\ (f.type = "START" <=> k = 0)
    BY FrameFacts
  <2>2. Len(msg) \in Nat BY PayloadFacts
  <2>3. rxq \in Seq(Frame) /\ Cur \in Nat BY DEF TypeOK, ChannelOK, Cur
  <2> HIDE DEF f
  <2> QED BY <2>1, <2>2, <2>3
<1>2. /\ \A i \in DOMAIN rxq : i \in DOMAIN rxq' /\ rxq'[i] = rxq[i]
      /\ \A i \in DOMAIN rxq' \ DOMAIN rxq : rxq'[i].burst = b
      /\ b \notin tainted' /\ b \notin lossy' => rxq' = Append(rxq, f)
  BY <1>1, EmitQueue
<1>3. lossy \subseteq lossy' /\ tainted \subseteq tainted'
  BY <1>1, EmitFacts DEF TypeOK, ChannelOK
<1> HIDE DEF f
<1>4. Clean(b)' => /\ \A i \in DOMAIN rxq' \ DOMAIN rxq : rxq'[i] = f
                   /\ Len(rxq) + 1 \in DOMAIN rxq' /\ rxq'[Len(rxq) + 1] = f
  BY <1>1, <1>2 DEF Clean
<1> SUFFICES ASSUME NEW c \in 1 .. b, Clean(c)' PROVE Gapless(c)' /\ Progress(c)'
  BY DEF Recovers
<1>5. c \in 1 .. Cur \/ (c = b /\ k = 0 /\ Cur' = Cur + 1) BY <1>1
<1>6. \A m \in Nat : Queued(c, m) => Queued(c, m)' BY <1>2 DEF Queued
<1>7. c = b => Queued(c, k)' BY <1>1, <1>4 DEF Queued
<1>8. \A m \in Nat : Queued(c, m)' => Queued(c, m) \/ (c = b /\ m = k)
  BY <1>1, <1>2, <1>4 DEF Queued
<1>9. \A m \in Nat : Coming(c, m) => Coming(c, m)'
  BY <1>6, <1>7 DEF Coming
<1>10. c = b /\ k \leq Len(msg) => Coming(c, k + 1)' BY DEF Coming
<1>11. c \in 1 .. Cur => Gapless(c) /\ Progress(c) /\ bursts'[c] = bursts[c]
  BY <1>3 DEF Recovers, Clean
<1>12. Gapless(c)'
  <2> SUFFICES ASSUME NEW m \in Nat, Queued(c, m)', m \leq Len(bursts'[c])
               PROVE  Coming(c, m + 1)'
    BY DEF Gapless
  <2>1. CASE c = b /\ m = k BY <1>10, <2>1
  <2>2. CASE Queued(c, m)
    <3>1. c \in 1 .. Cur
      <4>1. PICK i \in DOMAIN rxq : rxq[i].burst = c BY <2>2 DEF Queued
      <4>2. rxq[i].burst \in 0 .. Cur BY <4>1, QueueFacts
      <4> QED BY <4>1, <4>2
    <3>2. Coming(c, m + 1) BY <1>11, <2>2, <3>1 DEF Gapless
    <3> QED BY <1>9, <3>2
  <2> QED BY <1>8, <2>1, <2>2
<1>13. Progress(c)'
  <2>1. CASE c \notin 1 .. Cur BY <1>5, <1>7, <2>1 DEF Progress
  <2> SUFFICES ASSUME c \in 1 .. Cur PROVE Progress(c)' BY <2>1
  <2>2. Receiving(c) => Receiving(c)'
    <3>1. InBurst' /\ c = b => InBurst /\ c = Cur /\ pace' = pace BY <1>1
    <3> QED BY <1>9, <3>1 DEF Receiving
  <2>3. Delivered(c) => Delivered(c)' BY DEF Delivered
  <2>4. Swallowed(c) => Swallowed(c)'
    <3>1. ASSUME Behind(c) PROVE Behind(c)'
      <4> SUFFICES ASSUME NEW i \in DOMAIN rxq', i \notin DOMAIN rxq
                   PROVE  rxq'[i].burst > c \/ (rxq'[i].burst = c /\ rxq'[i].type # "START")
        BY <1>2, <3>1 DEF Behind
      <4>1. rxq'[i].burst = b BY <1>2
      <4>2. CASE c = b
        <5>1. rxq'[i] = f /\ k # 0 BY <1>1, <1>4, <4>2
        <5> QED BY <1>1, <4>2, <5>1
      <4>3. CASE c # b BY <4>1, <4>3
      <4> QED BY <4>2, <4>3
    <3> QED BY <3>1 DEF Swallowed
  <2> QED BY <1>6, <1>11, <2>2, <2>3, <2>4 DEF Progress
<1> QED BY <1>12, <1>13

\* A message of another remote joins the queue.
LEMMA OtherRemoteRecovers ==
  ASSUME TypeOK, Recovers, OtherRemote
  PROVE  Recovers'
<1>1. /\ UNCHANGED <<lossy, tainted, bursts, dec, age, src, log, swallowed, pace, pos>>
      /\ Cur' = Cur /\ (InBurst' <=> InBurst)
  BY DEF OtherRemote, sender, daemon, Cur, InBurst
<1>2. rxq \in Seq(Frame) /\ rxq' = Append(rxq, Foreign) /\ Foreign.burst = 0
  BY DEF TypeOK, ChannelOK, OtherRemote, Foreign
<1>3. /\ \A i \in DOMAIN rxq : i \in DOMAIN rxq' /\ rxq'[i] = rxq[i]
      /\ \A i \in DOMAIN rxq' : (i \in DOMAIN rxq /\ rxq'[i] = rxq[i]) \/ rxq'[i].burst = 0
  BY <1>2
<1> SUFFICES ASSUME NEW b \in 1 .. Cur, Clean(b) PROVE Gapless(b)' /\ Progress(b)'
  BY <1>1 DEF Recovers, Clean
<1>4. \A k \in Nat : Queued(b, k)' <=> Queued(b, k) BY <1>3 DEF Queued
<1>5. \A k \in Nat : Coming(b, k)' <=> Coming(b, k) BY <1>1, <1>4 DEF Coming
<1>6. Gapless(b) /\ Progress(b) BY DEF Recovers
<1>7. Gapless(b)' BY <1>1, <1>4, <1>5, <1>6 DEF Gapless
<1>8. Receiving(b) => Receiving(b)' BY <1>1, <1>5 DEF Receiving
<1>9. Delivered(b) => Delivered(b)' BY <1>1 DEF Delivered
<1>10. Swallowed(b) => Swallowed(b)' BY <1>1, <1>3 DEF Swallowed, Behind
<1> QED BY <1>4, <1>6, <1>7, <1>8, <1>9, <1>10 DEF Progress

-----------------------------------------------------------------------------
(* The main loop.                                                          *)

\* A message leaves the queue: what it was the next to, and what is still to come.
LEMMA ReadRecovers ==
  ASSUME TypeOK, Parts, Read, NEW b \in 1 .. Cur, b \notin tainted, Gapless(b)
  PROVE  /\ \A k \in Nat : Coming(b, k) =>
              /\ Coming(b, k)' \/ (Msg.burst = b /\ Msg.pos = k)
              /\ Msg.burst # 0 => Msg.burst \leq b
              /\ Msg.burst = b => Msg.pos \leq k
         /\ \A k \in Nat : Queued(b, k) => Queued(b, k)' \/ (Msg.burst = b /\ Msg.pos = k)
         /\ Gapless(b)'
         /\ Behind(b) => Behind(b)'
<1>1. /\ UNCHANGED bursts /\ Cur' = Cur /\ (InBurst' <=> InBurst) /\ pos' = pos
      /\ Msg = rxq[1] /\ 1 \in DOMAIN rxq /\ Cur \in Nat
      /\ Msg.burst # 0 => Msg.burst \in 1 .. Cur /\ Msg.pos \in Nat
  BY ReadOrder, ReadFacts DEF TypeOK, Cur, Frame
<1>2. \A k \in Nat : Queued(b, k) => Queued(b, k)' \/ (Msg.burst = b /\ Msg.pos = k)
  BY ReadOrder DEF Queued
<1>3. \A k \in Nat : Queued(b, k)' =>
        Queued(b, k) /\ (Msg.burst # 0 => Msg.burst \leq b) /\ (Msg.burst = b => Msg.pos < k)
  BY ReadOrder DEF Queued
<1>4. \A k \in Nat : Coming(b, k) => Coming(b, k)' \/ (Msg.burst = b /\ Msg.pos = k)
  BY <1>1, <1>2 DEF Coming
<1>5. ASSUME NEW k \in Nat, Coming(b, k)
      PROVE  (Msg.burst # 0 => Msg.burst \leq b) /\ (Msg.burst = b => Msg.pos \leq k)
  <2>1. CASE Queued(b, k)
    <3>1. CASE Queued(b, k)' BY <1>1, <1>3, <3>1
    <3>2. CASE Msg.burst = b /\ Msg.pos = k BY <3>2
    <3> QED BY <1>2, <2>1, <3>1, <3>2
  <2>2. CASE InBurst /\ b = Cur /\ pos = k
    <3>1. Msg.burst = b => Msg.pos < pos BY <2>2, ReadOrder
    <3> QED BY <1>1, <2>2, <3>1
  <2> QED BY <1>5, <2>1, <2>2 DEF Coming
<1>6. Gapless(b)'
  <2> SUFFICES ASSUME NEW k \in Nat, Queued(b, k)', k \leq Len(bursts[b])
               PROVE  Coming(b, k + 1)'
    BY <1>1 DEF Gapless
  <2>1. Queued(b, k) /\ (Msg.burst = b => Msg.pos < k) BY <1>3
  <2>2. Coming(b, k + 1) BY <2>1 DEF Gapless
  <2> QED BY <1>1, <1>4, <2>1, <2>2
<1>7. Behind(b) => Behind(b)' BY ReadOrder DEF Behind
<1> QED BY <1>2, <1>4, <1>5, <1>6, <1>7

\* The message read while a whole burst is received is the next of that burst.
LEMMA NextRead ==
  ASSUME TypeOK, Parts, Read, NEW b \in 1 .. Cur, b \notin tainted, Gapless(b),
         Receiving(b), Msg.burst # 0
  PROVE  /\ Msg.burst = b /\ Msg.pos = Len(dec.buf) + 1
         /\ Msg = FrameOf(bursts[b], b, Msg.pos) /\ Msg.pos \in 0 .. Len(bursts[b]) + 1
         /\ dec.len = Len(bursts[b]) /\ Upto(dec.buf, bursts[b], Msg.pos)
<1>1. PICK k \in Nat : k = Len(dec.buf) + 1 /\ Coming(b, k) BY DEF Receiving
<1>2. dec.open /\ src = b BY DEF Receiving
<1>3. 1 \in DOMAIN rxq /\ Msg = rxq[1] /\ Msg.burst \in 0 .. Cur BY ReadOrder
<1>4. Msg.burst \geq b BY <1>2, <1>3 DEF Parts, DecoderInv
<1>5. Msg.burst \leq b /\ (Msg.burst = b => Msg.pos \leq k) BY <1>1, ReadRecovers
<1>6. Msg.burst = b BY <1>3, <1>4, <1>5
<1>7. Msg = FrameOf(bursts[b], b, Msg.pos) /\ Msg.pos \in 0 .. Len(bursts[b]) + 1
  BY <1>6, ReadOrder
<1>8. dec.len = Len(bursts[b]) /\ Upto(dec.buf, bursts[b], Msg.pos)
  BY <1>2, <1>3, <1>6 DEF Parts, DecoderInv
<1>9. Msg.pos \geq k
  <2>1. Len(dec.buf) < Msg.pos BY <1>8 DEF Upto
  <2>2. Len(dec.buf) \in Nat BY DEF TypeOK, DaemonOK, Decoder
  <2> QED BY <1>1, <1>7, <2>1, <2>2
<1>10. Msg.pos = k BY <1>5, <1>6, <1>7, <1>9
<1> QED BY <1>1, <1>6, <1>7, <1>8, <1>10

\* The message that finds an expired transmission.  A transmission that is
\* being received is younger than a burst, and so has not expired.
LEMMA ReceiveExpiredRecovers ==
  ASSUME TypeOK, Parts, Recovers, ReceiveExpired
  PROVE  Recovers'
<1>1. /\ Read /\ UNCHANGED <<log, tainted, lossy, bursts>> /\ Cur' = Cur
      /\ dec'.open = FALSE /\ Expired(dec, age) /\ swallowed \subseteq swallowed'
      /\ Msg.type = "START" => Msg.burst \in swallowed'
  BY ReadOrder DEF ReceiveExpired, Idle
<1> SUFFICES ASSUME NEW b \in 1 .. Cur, Clean(b) PROVE Gapless(b)' /\ Progress(b)'
  BY <1>1 DEF Recovers, Clean
<1>2. Gapless(b) /\ Progress(b) /\ b \notin tainted BY DEF Recovers, Clean
<1>3. Gapless(b)' /\ (Behind(b) => Behind(b)') BY <1>1, <1>2, ReadRecovers
<1>4. ~Receiving(b)
  BY <1>1, LinkAssumption, TimeoutAssumption DEF Receiving, Expired, TypeOK, DaemonOK
<1>5. Delivered(b) => Delivered(b)' BY <1>1 DEF Delivered
<1>6. Swallowed(b) => Swallowed(b)' BY <1>1, <1>3 DEF Swallowed
<1>7. ASSUME Msg.burst = b, Msg.pos = 0 PROVE Swallowed(b)'
  <2>1. Msg = FrameOf(bursts[b], b, 0) BY <1>1, <1>2, <1>7, ReadOrder
  <2>2. Msg.type = "START" BY <2>1 DEF FrameOf
  <2>3. \A i \in DOMAIN rxq' : rxq'[i].burst # 0 =>
          rxq'[i].burst \geq b /\ (rxq'[i].burst = b => rxq'[i].pos > 0)
    BY <1>1, <1>2, <1>7, ReadOrder
  <2>4. ASSUME NEW i \in DOMAIN rxq', rxq'[i].burst = b PROVE rxq'[i].type # "START"
    <3>1. rxq'[i] = FrameOf(bursts[b], b, rxq'[i].pos)
      BY <1>1, <1>2, <2>4, ReadOrder DEF QueueInv, Untouched
    <3>2. PICK k \in Nat : k = rxq'[i].pos /\ k # 0 BY <1>1, <2>3, <2>4, ReadOrder
    <3>3. bursts[b] \in Payloads BY DEF TypeOK, Cur
    <3>4. b \in Nat OBVIOUS
    <3>5. FrameOf(bursts[b], b, k).type # "START" BY <3>2, <3>3, <3>4, FrameFacts
    <3> QED BY <3>1, <3>2, <3>5
  <2>5. Behind(b)'
    <3> SUFFICES ASSUME NEW i \in DOMAIN rxq', rxq'[i].burst # 0
                 PROVE  rxq'[i].burst > b \/ (rxq'[i].burst = b /\ rxq'[i].type # "START")
      BY DEF Behind
    <3>1. rxq'[i].burst \geq b /\ rxq'[i].burst \in Nat BY <1>1, <2>3, ReadOrder
    <3> QED BY <2>4, <3>1
  <2> QED BY <1>1, <1>7, <2>2, <2>5 DEF Swallowed
<1>8. Queued(b, 0) => Queued(b, 0)' \/ (Msg.burst = b /\ Msg.pos = 0)
  BY <1>1, <1>2, ReadRecovers
<1> QED BY <1>2, <1>3, <1>4, <1>5, <1>6, <1>7, <1>8 DEF Progress

\* A START: a whole burst is received from here on.
LEMMA ReceiveStartRecovers ==
  ASSUME TypeOK, Parts, Recovers, ReceiveStart
  PROVE  Recovers'
<1>1. /\ Read /\ UNCHANGED <<log, tainted, lossy, bursts, swallowed>> /\ Cur' = Cur
      /\ Msg.type = "START" /\ dec' = AfterStart(dec, Msg.cmd)
      /\ IF Msg.cmd = 0 THEN UNCHANGED <<src, age>> ELSE src' = Msg.burst /\ age' = 0
      /\ pace' = pace
  BY ReadOrder DEF ReceiveStart, Feed, Read, sender
<1>2. Msg.burst \in 1 .. Cur /\ Msg.pos \in Nat
  <2>1. Msg.burst # 0 /\ Msg.pos \in Nat BY <1>1, ReadFacts DEF Frame
  <2> QED BY <1>1, <2>1, ReadOrder DEF TypeOK, Cur
<1> SUFFICES ASSUME NEW b \in 1 .. Cur, Clean(b) PROVE Gapless(b)' /\ Progress(b)'
  BY <1>1 DEF Recovers, Clean
<1>3. Gapless(b) /\ Progress(b) /\ b \notin tainted BY DEF Recovers, Clean
<1>4. Gapless(b)' /\ (Behind(b) => Behind(b)') BY <1>1, <1>3, ReadRecovers
<1>5. CASE Msg.burst = b
  <2>1. bursts[b] \in Payloads BY DEF TypeOK, Cur
  <2>2. b \in Nat /\ Len(bursts[b]) \in 1 .. 255 BY <2>1, PayloadFacts
  <2>3. Msg = FrameOf(bursts[b], b, Msg.pos)
    <3>1. Msg.burst # 0 /\ Msg.burst \notin tainted BY <1>3, <1>5
    <3>2. Msg = FrameOf(bursts[Msg.burst], Msg.burst, Msg.pos) BY <1>1, <3>1, ReadOrder
    <3> QED BY <1>5, <3>2
  <2>4. Msg.pos = 0 /\ Msg.cmd = Len(bursts[b])
    <3>1. PICK k \in Nat : k = Msg.pos BY <1>2
    <3>2. Msg = FrameOf(bursts[b], b, k) BY <2>3, <3>1
    <3>3. k = 0
      <4>1. FrameOf(bursts[b], b, k).type = "START" BY <1>1, <3>2
      <4>2. FrameOf(bursts[b], b, k).type = "START" <=> k = 0 BY <2>1, <2>2, FrameFacts
      <4> QED BY <4>1, <4>2
    <3>4. Msg.cmd = Len(bursts[b]) BY <3>2, <3>3 DEF FrameOf
    <3> QED BY <3>1, <3>3, <3>4
  <2>5. dec'.open /\ dec'.buf = <<>> /\ src' = b /\ age' = 0
    <3>1. Msg.cmd # 0
      <4>1. \A n \in 1 .. 255 : n # 0 OBVIOUS
      <4> QED BY <2>2, <2>4, <4>1, Zenon
    <3>2. dec' = [open |-> TRUE, len |-> Msg.cmd, buf |-> <<>>]
      BY <1>1, <3>1 DEF AfterStart
    <3> QED BY <1>1, <1>5, <3>1, <3>2
  <2>6. Queued(b, 0)
    BY <1>1, <1>5, <2>4, ReadOrder DEF Queued
  <2>7. Coming(b, 0 + 1) BY <1>3, <2>2, <2>6 DEF Gapless
  <2>8. Coming(b, 1)' BY <1>1, <1>3, <2>4, <2>7, ReadRecovers
  <2>9. BurstTicks \in Nat /\ pace \in Nat BY LinkAssumption DEF TypeOK, SenderOK
  <2>10. Receiving(b)'
    <3>1. 1 = Len(dec'.buf) + 1 BY <2>5
    <3> QED BY <1>1, <2>5, <2>8, <2>9, <3>1 DEF Receiving
  <2> QED BY <1>4, <2>10 DEF Progress
<1>6. CASE Msg.burst # b
  <2>1. ~Receiving(b) BY <1>1, <1>2, <1>3, <1>6, NextRead
  <2>2. Delivered(b) => Delivered(b)' BY <1>1 DEF Delivered
  <2>3. Queued(b, 0) => Queued(b, 0)' BY <1>1, <1>3, <1>6, ReadRecovers
  <2>4. ASSUME Swallowed(b) PROVE Swallowed(b)'
    <3>1. Msg.burst > b BY <1>1, <1>2, <1>6, <2>4, ReadOrder DEF Swallowed, Behind
    <3>2. dec'.open => src' > b BY <1>1, <2>4, <3>1 DEF Swallowed, AfterStart
    <3> QED BY <1>1, <1>4, <2>4, <3>2 DEF Swallowed
  <2> QED BY <1>3, <1>4, <2>1, <2>2, <2>3, <2>4 DEF Progress
<1> QED BY <1>5, <1>6

\* A byte, or an END that completes nothing: a whole burst goes on, and its END
\* is not one of those.
LEMMA ReceiveByteRecovers ==
  ASSUME TypeOK, Parts, Recovers, ReceiveData \/ ReceiveEnd
  PROVE  Recovers'
<1>1. /\ Read /\ UNCHANGED <<log, tainted, lossy, bursts, swallowed, src, age, pace>>
      /\ Cur' = Cur /\ Msg.type \in {"DATA", "END"} /\ Msg.burst # 0
      /\ dec'.open = dec.open
  <2>1. Read /\ Msg.type \in {"DATA", "END"} /\ UNCHANGED <<src, age, log, swallowed>>
    BY DEF ReceiveData, ReceiveEnd, Feed
  <2>2. Msg.burst # 0 /\ Msg.cmd \in Byte BY <2>1, ReadFacts DEF Frame
  <2>3. dec'.open = dec.open
    BY <2>2, DecoderFacts DEF ReceiveData, ReceiveEnd, TypeOK, DaemonOK
  <2>4. UNCHANGED <<tainted, lossy, bursts, pace>> /\ Cur' = Cur
    BY <2>1, ReadOrder DEF Read, sender
  <2> QED BY <2>1, <2>2, <2>3, <2>4
<1> SUFFICES ASSUME NEW b \in 1 .. Cur, Clean(b) PROVE Gapless(b)' /\ Progress(b)'
  BY <1>1 DEF Recovers, Clean
<1> DEFINE p == bursts[b]
           m == Msg.pos
<1>2. Gapless(b) /\ Progress(b) /\ b \notin tainted BY DEF Recovers, Clean
<1>3. Gapless(b)' /\ (Behind(b) => Behind(b)') BY <1>1, <1>2, ReadRecovers
<1>4. p \in Payloads /\ p \in Seq(Byte) /\ Len(p) \in 1 .. 255 /\ b \in Nat
  <2>1. p \in Payloads BY DEF TypeOK, Cur
  <2> QED BY <2>1, PayloadFacts
<1>5. Delivered(b) => Delivered(b)' BY <1>1 DEF Delivered
<1>6. Swallowed(b) => Swallowed(b)' BY <1>1, <1>3 DEF Swallowed
<1>7. Queued(b, 0) => Queued(b, 0)'
  <2>1. ~(Msg.burst = b /\ m = 0)
    <3>1. Msg.burst = b => Msg = FrameOf(p, b, m) BY <1>1, <1>2, <1>4, ReadOrder
    <3>2. FrameOf(p, b, 0).type = "START" BY DEF FrameOf
    <3> QED BY <1>1, <3>1, <3>2
  <2> QED BY <1>1, <1>2, <2>1, ReadRecovers
<1>8. ASSUME Receiving(b) PROVE Receiving(b)'
  <2>1. /\ Msg.burst = b /\ m = Len(dec.buf) + 1 /\ Msg = FrameOf(p, b, m)
        /\ m \in 0 .. Len(p) + 1 /\ dec.len = Len(p) /\ Upto(dec.buf, p, m)
    BY <1>1, <1>2, <1>8, NextRead
  <2>2. dec \in Decoder /\ dec.buf \in Seq(Byte) /\ dec.open /\ src = b
    BY <1>8 DEF TypeOK, DaemonOK, Decoder, Receiving
  <2> HIDE DEF p, m
  <2>3. CASE ReceiveEnd
    <3>1. Msg.type = "END" /\ ~Completes(dec, Msg.cmd) BY <2>3 DEF ReceiveEnd, Feed
    <3>2. m > Len(p) /\ m \in Nat BY <1>4, <2>1, <3>1, FrameFacts
    <3>3. m = Len(p) + 1 /\ Len(dec.buf) = Len(p) BY <1>4, <2>1, <2>2, <3>2
    <3>4. dec.buf = p BY <1>4, <2>1, <2>2, <3>3, UptoFacts
    <3>5. Msg.cmd = Crc(p) BY <1>4, <2>1, <3>2, EndFacts
    <3>6. Completes(dec, Msg.cmd)
      BY <2>1, <2>2, <3>3, <3>4, <3>5 DEF Completes, Full
    <3> QED BY <3>1, <3>6
  <2>4. CASE ReceiveData
    <3>1. Msg.type = "DATA" /\ dec' = AfterData(dec, Msg.cmd)
      BY <2>4 DEF ReceiveData, Feed
    <3>2. m \in 1 .. Len(p) /\ m \in Nat
      <4>1. m \in Nat BY <1>4, <2>1
      <4>2. FrameOf(p, b, m).type = "DATA" BY <2>1, <3>1
      <4> QED BY <1>4, <4>1, <4>2, FrameFacts
    <3>3. Accepts(dec) BY <1>4, <2>1, <2>2, <3>2 DEF Accepts
    <3>4. dec'.buf = Append(dec.buf, Msg.cmd) BY <2>2, <3>1, <3>3 DEF AfterData, Decoder
    <3>5. m + 1 = Len(dec'.buf) + 1 BY <2>1, <2>2, <3>4
    <3>6. Queued(b, m) BY <1>1, <2>1, ReadOrder DEF Queued, m
    <3>7. Coming(b, m + 1) BY <1>2, <3>2, <3>6 DEF Gapless, p
    <3>8. \E k \in Nat : k = Len(dec'.buf) + 1 /\ Coming(b, k)'
      <4>1. PICK k \in Nat : k = m + 1 BY <3>2
      <4>2. Coming(b, k) /\ k # m BY <3>2, <3>7, <4>1
      <4>3. Coming(b, k)' BY <1>1, <1>2, <4>2, ReadRecovers DEF m
      <4> QED BY <3>5, <4>1, <4>3
    <3>9. InBurst' <=> InBurst BY <1>1, ReadOrder
    <3> QED BY <1>1, <1>8, <3>8, <3>9 DEF Receiving
  <2> QED BY <2>3, <2>4
<1> QED BY <1>2, <1>3, <1>5, <1>6, <1>7, <1>8 DEF Progress

\* An END that completes a payload; the END of a burst being received does.
LEMMA DeliverRecovers ==
  ASSUME TypeOK, Parts, Recovers, Deliver
  PROVE  Recovers'
<1> DEFINE e == [payload |-> dec.buf, start |-> src, end |-> Msg.burst]
<1>1. /\ Read /\ UNCHANGED <<tainted, lossy, bursts, swallowed>> /\ Cur' = Cur
      /\ Msg.type = "END" /\ log' = Append(log, e) /\ dec'.open = FALSE
      /\ Msg.burst # 0
  <2>1. /\ Read /\ UNCHANGED swallowed /\ Msg.type = "END" /\ log' = Append(log, e)
        /\ dec'.open = FALSE
    BY DEF Deliver, Feed, AfterEnd, Idle
  <2>2. Msg.burst # 0 BY <2>1, ReadFacts
  <2>3. UNCHANGED <<tainted, lossy, bursts>> /\ Cur' = Cur BY <2>1, ReadOrder
  <2> QED BY <2>1, <2>2, <2>3
<1>2. /\ \A i \in DOMAIN log : i \in DOMAIN log' /\ log'[i] = log[i]
      /\ Len(log) + 1 \in DOMAIN log' /\ log'[Len(log) + 1].end = Msg.burst
  <2>1. log \in Seq([payload : Seq(Byte), start : Nat, end : Nat])
    BY DEF TypeOK, DaemonOK
  <2>2. e.end = Msg.burst OBVIOUS
  <2> HIDE DEF e
  <2> QED BY <1>1, <2>1, <2>2
<1> SUFFICES ASSUME NEW b \in 1 .. Cur, Clean(b) PROVE Gapless(b)' /\ Progress(b)'
  BY <1>1 DEF Recovers, Clean
<1>3. Gapless(b) /\ Progress(b) /\ b \notin tainted BY DEF Recovers, Clean
<1>4. Gapless(b)' /\ (Behind(b) => Behind(b)') BY <1>1, <1>3, ReadRecovers
<1>5. Delivered(b) => Delivered(b)' BY <1>2 DEF Delivered
<1>6. Swallowed(b) => Swallowed(b)' BY <1>1, <1>4 DEF Swallowed
<1>7. Receiving(b) => Delivered(b)'
  <2>1. Receiving(b) => Msg.burst = b BY <1>1, <1>3, NextRead
  <2> QED BY <1>2, <2>1 DEF Delivered
<1>8. Queued(b, 0) => Queued(b, 0)' \/ Delivered(b)'
  <2>1. Queued(b, 0) => Queued(b, 0)' \/ Msg.burst = b BY <1>1, <1>3, ReadRecovers
  <2> QED BY <1>2, <2>1 DEF Delivered
<1> QED BY <1>3, <1>4, <1>5, <1>6, <1>7, <1>8 DEF Progress

\* A message of another remote is thrown away.
LEMMA ReceiveForeignRecovers ==
  ASSUME TypeOK, Parts, Recovers, ReceiveForeign
  PROVE  Recovers'
<1>1. /\ Read /\ UNCHANGED <<tainted, lossy, bursts, swallowed, log, dec, src, age, pace>>
      /\ Cur' = Cur /\ Msg.type = "FOREIGN" /\ (InBurst' <=> InBurst)
  BY ReadOrder DEF ReceiveForeign, Feed, daemon, Read, sender
<1> SUFFICES ASSUME NEW b \in 1 .. Cur, Clean(b) PROVE Gapless(b)' /\ Progress(b)'
  BY <1>1 DEF Recovers, Clean
<1>2. Gapless(b) /\ Progress(b) /\ b \notin tainted BY DEF Recovers, Clean
<1>3. Gapless(b)' /\ (Behind(b) => Behind(b)') BY <1>1, <1>2, ReadRecovers
<1>4. Msg.burst # b
  <2>1. bursts[b] \in Payloads /\ b \in Nat BY DEF TypeOK, Cur
  <2>2. Msg.burst = b => Msg = FrameOf(bursts[b], b, Msg.pos) /\ Msg.pos \in Nat
    BY <1>1, <1>2, <2>1, ReadOrder
  <2> QED BY <1>1, <2>1, <2>2, FrameFacts
<1>5. Delivered(b) => Delivered(b)' BY <1>1 DEF Delivered
<1>6. Swallowed(b) => Swallowed(b)' BY <1>1, <1>3 DEF Swallowed
<1>7. \A k \in Nat : Coming(b, k) => Coming(b, k)' BY <1>1, <1>2, <1>4, ReadRecovers
<1>8. Receiving(b) => Receiving(b)' BY <1>1, <1>7 DEF Receiving
<1>9. Queued(b, 0) => Queued(b, 0)' BY <1>1, <1>2, <1>4, ReadRecovers
<1> QED BY <1>2, <1>3, <1>5, <1>6, <1>8, <1>9 DEF Progress

-----------------------------------------------------------------------------
\* The daemon is started again: what was queued, open or in the air is lossy.
LEMMA RestartRecovers ==
  ASSUME TypeOK, Recovers, Restart
  PROVE  Recovers'
<1>1. /\ DOMAIN rxq' = {} /\ dec'.open = FALSE /\ lossy \subseteq lossy'
      /\ UNCHANGED <<bursts, log, tainted, swallowed>> /\ Cur' = Cur
  <2>1. DOMAIN rxq' = {} /\ dec'.open = FALSE BY DEF Restart, Idle
  <2>2. lossy \subseteq lossy' BY DEF Restart, TypeOK, ChannelOK
  <2> QED BY <2>1, <2>2 DEF Restart, Cur
<1> SUFFICES ASSUME NEW b \in 1 .. Cur, Clean(b)' PROVE Gapless(b)' /\ Progress(b)'
  BY <1>1 DEF Recovers
<1>2. b \notin lossy' /\ b # 0 BY DEF Clean
<1>3. /\ \A k \in Nat : ~Queued(b, k)
      /\ src # b /\ ~(InBurst /\ b = Cur)
  BY <1>2 DEF Restart, Queued
<1>4. Clean(b) BY <1>1 DEF Clean
<1>5. Progress(b) BY <1>4 DEF Recovers
<1>6. ~Queued(b, 0) /\ ~Receiving(b) BY <1>3 DEF Receiving
<1>7. Delivered(b) => Delivered(b)' BY <1>1 DEF Delivered
<1>8. Swallowed(b) => Swallowed(b)' BY <1>1 DEF Swallowed, Behind
<1>9. Gapless(b)' BY <1>1 DEF Gapless, Queued
<1> QED BY <1>5, <1>6, <1>7, <1>8, <1>9 DEF Progress

\* Time passes.  The queue is empty when the decoder is open, so the burst that
\* is received is the one being sent, and no more than its pace has gone by.
LEMMA TickRecovers ==
  ASSUME TypeOK, Recovers, busy => ~dec.open, Tick
  PROVE  Recovers'
<1>1. /\ UNCHANGED <<rxq, bursts, lossy, tainted, dec, src, log, swallowed, pos>>
      /\ Cur' = Cur /\ (InBurst' <=> InBurst)
  BY DEF Tick, channel, Cur, InBurst
<1> SUFFICES ASSUME NEW b \in 1 .. Cur, Clean(b) PROVE Gapless(b)' /\ Progress(b)'
  BY <1>1 DEF Recovers, Clean
<1>2. \A k \in Nat : Queued(b, k)' <=> Queued(b, k) BY <1>1 DEF Queued
<1>3. \A k \in Nat : Coming(b, k)' <=> Coming(b, k) BY <1>1, <1>2 DEF Coming
<1>4. Gapless(b) /\ Progress(b) BY DEF Recovers
<1>5. Gapless(b)' BY <1>1, <1>2, <1>3, <1>4 DEF Gapless
<1>6. ASSUME Receiving(b) PROVE Receiving(b)'
  <2>1. rxq = <<>> BY <1>6 DEF Tick, Receiving
  <2>2. InBurst /\ b = Cur BY <1>6, <2>1 DEF Receiving, Coming, Queued
  <2>3. /\ pace < BurstTicks /\ pace' = pace + 1 /\ age \leq pace
        /\ age' \in {age, age + 1}
    BY <1>6, <2>2 DEF Tick, Receiving
  <2>4. age \in Nat /\ pace \in Nat /\ BurstTicks \in Nat
    BY LinkAssumption, TimeoutAssumption DEF TypeOK, DaemonOK, SenderOK
  <2>5. age' \leq pace' /\ age' \leq BurstTicks BY <2>3, <2>4
  <2> QED BY <1>1, <1>3, <1>6, <2>5 DEF Receiving
<1>7. Delivered(b) => Delivered(b)' BY <1>1 DEF Delivered
<1>8. Swallowed(b) => Swallowed(b)' BY <1>1 DEF Swallowed, Behind
<1> QED BY <1>2, <1>4, <1>5, <1>6, <1>7, <1>8 DEF Progress

\* Handling starts with the decoder closed, and nothing is read during it.
LEMMA HandlingClosed ==
  ASSUME busy => ~dec.open, [Next]_vars
  PROVE  (busy => ~dec.open)'
<1>1. CASE Sender \/ OtherRemote \/ Tick \/ UNCHANGED vars
  BY <1>1 DEF Sender, BeginTransmit, SendStart, SendData, SendEnd, Cancel, OtherRemote,
              Tick, vars, daemon
<1>2. CASE Loop
  <2>1. CASE Deliver BY <2>1 DEF Deliver, AfterEnd, Idle
  <2>2. CASE Loop /\ ~Deliver
    BY <2>2 DEF Loop, ReceiveExpired, ReceiveStart, ReceiveData, ReceiveEnd,
                ReceiveForeign, Feed, Read, daemon
  <2> QED BY <1>2, <2>1, <2>2
<1>3. CASE FinishHandling \/ Restart BY <1>3 DEF FinishHandling, Restart
<1> QED BY <1>1, <1>2, <1>3 DEF Next

\* Initially.
LEMMA RecoveryInit == Init => RecoveryInv
<1>1. Init => IInv BY TypeInit, PartsInit, IInvParts
<1>2. Init => (busy => ~dec.open) /\ Recovers BY DEF Init, Recovers, Cur
<1> QED BY <1>1, <1>2 DEF RecoveryInv

\* Every step.
LEMMA RecoveryStep == RecoveryInv /\ [Next]_vars => RecoveryInv'
<1> SUFFICES ASSUME IInv, IInv', busy => ~dec.open, Recovers, [Next]_vars
             PROVE  Recovers'
  BY IInvStep, HandlingClosed DEF RecoveryInv
<1>0. TypeOK /\ TypeOK' /\ SenderInv /\ Parts BY DEF IInv, Parts
<1>1. /\ SenderOK /\ bursts \in Seq(Payloads) /\ Cur \in Nat /\ pos \in Nat
      /\ lossy \subseteq lossy
  BY <1>0 DEF TypeOK, SenderOK, Cur
<1>2. ASSUME NEW p \in Payloads, BeginTransmit(p) PROVE Recovers'
  BY <1>2, QuietRecovers DEF BeginTransmit, InBurst, daemon, channel
<1>3. CASE SendStart
  <2> DEFINE b == Cur + 1
             k == 0
  <2>1. msg \in Payloads /\ Len(msg) \in Nat
    BY <1>1, <1>3, PayloadFacts DEF SenderOK, SendStart
  <2>2. b = Cur' /\ bursts'[b] = msg /\ \A c \in 1 .. Cur : bursts'[c] = bursts[c]
    BY <1>1, <1>3, <2>1 DEF Cur, SendStart
  <2>3. /\ Emit(FrameOf(msg, b, k), b) /\ UNCHANGED <<dec, age, src, log, swallowed>>
        /\ InBurst' /\ pos' = k + 1 /\ ~InBurst
    BY <1>3 DEF SendStart, daemon, InBurst
  <2>4. b \in Nat /\ k \in Nat /\ k \leq Len(msg) /\ Cur' = Cur + 1 /\ k = 0
    BY <1>1, <2>1, <2>2
  <2> HIDE DEF b, k
  <2> QED BY <1>0, <2>1, <2>2, <2>3, <2>4, EmitRecovers
<1>4. CASE SendData \/ SendEnd
  <2>1. msg \in Payloads /\ Len(msg) \in Nat
    BY <1>1, <1>4, PayloadFacts DEF SenderOK, SendData, SendEnd
  <2>2. /\ InBurst /\ pos > 0 /\ UNCHANGED <<bursts, dec, age, src, log, swallowed, pace>>
        /\ Cur' = Cur /\ Emit(FrameOf(msg, Cur, pos), Cur)
        /\ IF pos \leq Len(msg) THEN InBurst' /\ pos' = pos + 1 ELSE ~InBurst'
    BY <1>1, <1>4, <2>1 DEF SendData, SendEnd, InBurst, daemon, Cur
  <2>3. bursts[Cur] = msg BY <1>0, <2>2 DEF SenderInv
  <2> QED BY <1>0, <1>1, <2>1, <2>2, <2>3, EmitRecovers
<1>5. CASE Cancel
  <2>1. /\ lossy \subseteq lossy' /\ tainted \subseteq tainted' /\ Cur \in lossy' /\ ~InBurst'
        /\ UNCHANGED <<rxq, bursts, dec, age, src, log, swallowed, pace>>
    BY <1>5 DEF Cancel, InBurst, daemon
  <2> QED BY <2>1, QuietRecovers
<1>6. CASE OtherRemote BY <1>0, <1>6, OtherRemoteRecovers
<1>7. CASE Loop
  BY <1>0, <1>7, ReceiveExpiredRecovers, ReceiveStartRecovers, ReceiveByteRecovers,
     DeliverRecovers, ReceiveForeignRecovers
     DEF Loop
<1>8. CASE FinishHandling
  BY <1>8, QuietRecovers DEF FinishHandling, InBurst, sender, channel
<1>9. CASE Restart BY <1>0, <1>9, RestartRecovers
<1>10. CASE Tick BY <1>0, <1>10, TickRecovers
<1>11. CASE UNCHANGED vars
  BY <1>11, QuietRecovers DEF vars, sender, daemon, channel, InBurst
<1> QED BY <1>2, <1>3, <1>4, <1>5, <1>6, <1>7, <1>8, <1>9, <1>10, <1>11
        DEF Next, Sender

\* CleanBurstDelivered: whatever the decoder was left with by half-received
\* bursts, other remotes and restarts, and however long the daemon was away, a
\* burst that arrives whole is handed to handle_credentials when its END is
\* read, unless check_timeout used up its START.
THEOREM CleanBurstsRecover == Spec => []CleanBurstDelivered
<1>1. RecoveryInv => CleanBurstDelivered
  <2> SUFFICES ASSUME RecoveryInv, NEW b \in 1 .. Cur, Clean(b), Finished(b), ~Awaited(b)
               PROVE  Delivered(b) \/ (b \in swallowed /\ (dec.open => src > b))
    BY DEF CleanBurstDelivered
  <2>1. Progress(b) BY DEF RecoveryInv, Recovers
  <2>2. \A k \in Nat : ~Queued(b, k) BY DEF Queued, Awaited
  <2>3. ~(InBurst /\ b = Cur) BY DEF Finished
  <2>4. ~Receiving(b) BY <2>2, <2>3 DEF Receiving, Coming
  <2> QED BY <2>1, <2>2, <2>4 DEF Progress, Swallowed
<1> QED BY <1>1, RecoveryInit, RecoveryStep, PTL DEF Spec

-----------------------------------------------------------------------------
(* IrLink implements CredentialDelivery: what the daemon acts on are whole *)
(* bursts in the order of sending, each at most once, and anything else    *)
(* only where the air damaged a burst.  Beyond IInv this takes LogInv.     *)

\* A whole burst that was acted on is over: nothing of it, and nothing of a
\* burst before it, is still queued or still to be sent.
LogInv ==
  \A i \in DOMAIN log : Intact(log[i]) =>
    /\ \A j \in DOMAIN rxq : rxq[j].burst # 0 => rxq[j].burst > log[i].end
    /\ InBurst => Cur > log[i].end

AbstractVars == <<bursts, lossy \cup tainted, Received>>

\* What is known before and after every step.
LEMMA LogFacts ==
  ASSUME TypeOK
  PROVE  /\ log \in Seq([payload : Seq(Byte), start : Nat, end : Nat])
         /\ \A i \in DOMAIN log : log[i].end \in 1 .. Cur /\ log[i].end \in Nat
         /\ Cur \in Nat /\ Cur = Len(bursts) /\ bursts \in Seq(Payloads)
         /\ lossy \subseteq 1 .. Cur /\ tainted \subseteq 1 .. Cur
<1>1. /\ log \in Seq([payload : Seq(Byte), start : Nat, end : Nat])
      /\ \A i \in DOMAIN log : log[i].end \in 1 .. Cur
      /\ lossy \subseteq 1 .. Cur /\ tainted \subseteq 1 .. Cur /\ bursts \in Seq(Payloads)
  BY DEF TypeOK, DaemonOK, ChannelOK
<1>2. Cur \in Nat /\ Cur = Len(bursts) BY <1>1 DEF Cur
<1> QED BY <1>1, <1>2

\* Receipts that are intact, and what they show, do not change.
LEMMA ReceivedSame ==
  ASSUME UNCHANGED log, \A i \in DOMAIN log : Intact(log[i])' <=> Intact(log[i])
  PROVE  Received' = Received
BY DEF Received, Intact

\* Air: a step that changes no receipt, whatever it sends or damages.
LEMMA AirStep ==
  ASSUME TypeOK', Received' = Received,
         bursts' = bursts \/ \E p \in Payloads : bursts' = Append(bursts, p),
         lossy \cup tainted \subseteq lossy' \cup tainted'
  PROVE  Abstract!Air
<1>1. lossy' \cup tainted' \subseteq DOMAIN bursts'
  BY DEF TypeOK, ChannelOK, Cur
<1> QED BY <1>1 DEF Abstract!Air

\* A step that leaves the log alone and at most takes messages of bursts out of
\* the queue.
LEMMA QuietLogStep ==
  ASSUME TypeOK', LogInv, UNCHANGED <<log, tainted, bursts>>, lossy \subseteq lossy',
         InBurst' => InBurst,
         \A j \in DOMAIN rxq' :
           rxq'[j].burst = 0 \/ \E i \in DOMAIN rxq : rxq'[j] = rxq[i]
  PROVE  LogInv' /\ Abstract!Air
<1>1. \A i \in DOMAIN log : Intact(log[i])' <=> Intact(log[i]) BY DEF Intact
<1>2. Cur' = Cur BY DEF Cur
<1>3. LogInv' BY <1>1, <1>2 DEF LogInv
<1> QED BY <1>1, <1>3, ReceivedSame, AirStep

\* The sender emits a message of its burst b, the last one: what happens to it
\* concerns no burst that was acted on as a whole.
LEMMA EmitLogStep ==
  ASSUME TypeOK, TypeOK', LogInv, NEW b \in Nat, NEW f \in Frame, f.burst = b,
         Emit(f, b), b = Cur', UNCHANGED log,
         \/ bursts' = bursts /\ InBurst
         \/ Cur' = Cur + 1 /\ \E p \in Payloads : bursts' = Append(bursts, p)
  PROVE  LogInv' /\ Abstract!Air
<1>1. /\ rxq \in Seq(Frame) /\ Len(rxq) \leq QueueCap /\ Cur \in Nat
      /\ \A i \in DOMAIN log : log[i].end \in 1 .. Cur
  BY LogFacts DEF TypeOK, ChannelOK
<1>2. \A i \in DOMAIN log : Intact(log[i]) => b > log[i].end
  BY <1>1 DEF LogInv, Cur
<1>3. /\ lossy \subseteq lossy' /\ tainted \subseteq tainted'
      /\ tainted' \subseteq tainted \cup {b}
  BY <1>1, EmitFacts
<1>4. \A i \in DOMAIN log : Intact(log[i])' <=> Intact(log[i])
  BY <1>1, <1>2, <1>3 DEF Intact
<1>5. \A j \in DOMAIN rxq' :
        rxq'[j].burst = b \/ (j \in DOMAIN rxq /\ rxq'[j] = rxq[j])
  BY <1>1, EmitQueue
<1>6. LogInv' BY <1>2, <1>4, <1>5 DEF LogInv
<1>7. Received' = Received BY <1>4, ReceivedSame
<1> QED BY <1>3, <1>6, <1>7, AirStep

\* A payload is handed over: one more receipt, of a whole burst that is over,
\* or of one that the air damaged.
LEMMA DeliverLogStep ==
  ASSUME IInv, IInv', LogInv, Deliver
  PROVE  LogInv' /\ Abstract!Next
<1> DEFINE b == Msg.burst
           e == [payload |-> dec.buf, start |-> src, end |-> b]
           r == [burst |-> b, intact |-> Intact(e),
                 payload |-> IF Intact(e) THEN e.payload ELSE <<>>]
<1>0. TypeOK /\ TypeOK' /\ Parts /\ SenderInv /\ LogInv /\ Faithful' /\ QueueInv'
  BY DEF IInv, Parts
<1>1. /\ Read /\ Msg.type = "END" /\ log' = Append(log, e)
      /\ UNCHANGED <<bursts, tainted, lossy>> /\ Cur' = Cur /\ (InBurst' <=> InBurst)
  <2>1. Read /\ Msg.type = "END" /\ log' = Append(log, e) BY DEF Deliver, Feed
  <2> QED BY <1>0, <2>1, ReadOrder
<1>2. /\ b \in 1 .. Cur /\ b \in Nat /\ b # 0 /\ Msg.pos \in Nat /\ bursts[b] \in Payloads
      /\ Len(bursts[b]) \in Nat
  <2>1. b \in 0 .. Cur /\ b # 0 BY <1>0, <1>1, ReadFacts, ReadOrder
  <2>2. b \in 1 .. Cur /\ b \in Nat BY <1>0, <2>1, LogFacts
  <2>3. Msg.pos \in Nat BY <1>0, <1>1, ReadFacts DEF Frame
  <2>4. bursts[b] \in Payloads BY <1>0, <2>2, LogFacts
  <2> QED BY <2>1, <2>2, <2>3, <2>4, PayloadFacts
<1>3. /\ Len(log) \in Nat /\ DOMAIN log = 1 .. Len(log)
      /\ DOMAIN log' = 1 .. Len(log) + 1 /\ log'[Len(log) + 1] = e
      /\ \A i \in DOMAIN log : log'[i] = log[i]
  <2> HIDE DEF e
  <2> QED BY <1>0, <1>1, LogFacts
<1>4. \A i \in DOMAIN log' : i \in DOMAIN log \/ log'[i] = e
  <2> HIDE DEF e
  <2> QED BY <1>3
<1>5. Received' = Append(Received, r)
  <2> HIDE DEF e
  <2> DEFINE shown(x) == [burst |-> x.end, intact |-> Intact(x),
                          payload |-> IF Intact(x) THEN x.payload ELSE <<>>]
             n == Len(log)
  <2>1. Received = [i \in 1 .. n |-> shown(log[i])] /\ n \in Nat
    BY <1>3 DEF Received
  <2>2. Received' = [i \in 1 .. n + 1 |-> shown(log'[i])]
    BY <1>1, <1>3 DEF Received, Intact
  <2>3. r = shown(e) BY DEF e
  <2> HIDE DEF shown, n, r
  <2>4. \A i \in 1 .. n + 1 :
          shown(log'[i]) = IF i = n + 1 THEN r ELSE shown(log[i])
    BY <1>3, <2>1, <2>3 DEF n
  <2> QED BY <2>1, <2>2, <2>4
<1>6. ASSUME Intact(e)
      PROVE  /\ \A j \in DOMAIN rxq' : rxq'[j].burst # 0 => rxq'[j].burst > b
             /\ InBurst => Cur > b
  <2>1. b \notin tainted BY <1>6 DEF Intact
  <2>2. Msg.pos = Len(bursts[b]) + 1
    <3>1. Msg = FrameOf(bursts[b], b, Msg.pos) /\ Msg.pos \in 0 .. Len(bursts[b]) + 1
      BY <1>0, <1>1, <1>2, <2>1, ReadOrder
    <3>2. Msg.pos > Len(bursts[b]) BY <1>1, <1>2, <3>1, FrameFacts
    <3> QED BY <1>2, <3>1, <3>2
  <2>3. ASSUME NEW j \in DOMAIN rxq', rxq'[j].burst # 0 PROVE rxq'[j].burst > b
    <3>1. /\ rxq'[j].burst \in 0 .. Cur /\ rxq'[j].pos \in Nat /\ b \leq rxq'[j].burst
          /\ b = rxq'[j].burst => Msg.pos < rxq'[j].pos
      BY <1>0, <1>1, <1>2, <2>1, <2>3, ReadOrder
    <3>2. b = rxq'[j].burst => rxq'[j].pos \leq Len(bursts[b]) + 1
      BY <1>0, <1>1, <1>2, <2>1, <2>3 DEF QueueInv, Untouched
    <3> QED BY <1>2, <2>2, <3>1, <3>2
  <2>4. ASSUME InBurst PROVE Cur > b
    <3>1. b = Cur => Msg.pos < pos BY <1>0, <1>1, <1>2, <2>1, <2>4, ReadOrder
    <3>2. bursts[Cur] = msg /\ pos \leq Len(msg) + 1 /\ pos \in Nat
      BY <1>0, <2>4 DEF SenderInv, TypeOK, SenderOK
    <3>3. b \leq Cur /\ Cur \in Nat BY <1>0, <1>2, LogFacts
    <3> QED BY <1>2, <2>2, <3>1, <3>2, <3>3
  <2> QED BY <2>3, <2>4
<1>7. LogInv'
  <2> SUFFICES ASSUME NEW i \in DOMAIN log', Intact(log'[i])
               PROVE  /\ \A j \in DOMAIN rxq' : rxq'[j].burst # 0 => rxq'[j].burst > log'[i].end
                      /\ InBurst => Cur > log'[i].end
    BY <1>1 DEF LogInv, Intact
  <2>1. CASE i \in DOMAIN log
    BY <1>0, <1>1, <1>3, <2>1, ReadOrder DEF LogInv
  <2>2. CASE log'[i] = e BY <1>6, <2>2
  <2> QED BY <1>4, <2>1, <2>2
<1>8. CASE Intact(e)
  <2>1. e.payload = bursts[b]
    <3>1. e.end \notin tainted /\ e.start = e.end BY <1>8 DEF Intact
    <3> HIDE DEF e
    <3>2. e.payload = bursts[e.end] BY <1>0, <1>1, <1>3, <3>1 DEF Faithful
    <3> USE DEF e
    <3> QED BY <3>2
  <2>2. \A i \in DOMAIN log : Intact(log[i]) => log[i].end < b
    <3>1. 1 \in DOMAIN rxq /\ rxq[1].burst = b BY <1>0, <1>1, ReadOrder
    <3> QED BY <1>0, <1>2, <3>1, LogFacts DEF LogInv
  <2>3. \A i \in DOMAIN Received : Received[i].intact => Received[i].burst < b
    BY <2>2 DEF Received
  <2>4. r = [burst |-> b, intact |-> TRUE, payload |-> bursts[b]]
    BY <1>8, <2>1
  <2>5. Abstract!Receive(b)
    BY <1>1, <1>5, <2>3, <2>4 DEF Abstract!Receive
  <2>6. b \in DOMAIN bursts BY <1>0, <1>2, LogFacts
  <2> QED BY <1>7, <2>5, <2>6 DEF Abstract!Next
<1>9. CASE ~Intact(e)
  <2>1. b \in lossy \cup tainted
    <3>1. ~(e.start = e.end /\ e.end \notin tainted) BY <1>9 DEF Intact
    <3>2. (e.end \notin tainted /\ e.end \notin lossy) => e.start = e.end
      <4> HIDE DEF e
      <4> QED BY <1>0, <1>1, <1>3 DEF Faithful
    <3> QED BY <3>1, <3>2
  <2>2. r = [burst |-> b, intact |-> FALSE, payload |-> <<>>]
    <3>1. Intact(e) = FALSE BY <1>9 DEF Intact
    <3> HIDE DEF e
    <3> QED BY <3>1
  <2>3. Abstract!ReceiveMixed(b)
    BY <1>1, <1>5, <2>2 DEF Abstract!ReceiveMixed
  <2> QED BY <1>7, <2>1, <2>3 DEF Abstract!Next
<1> QED BY <1>8, <1>9

\* At first nothing was sent and nothing received.
LEMMA AbstractInit == Init => LogInv /\ Abstract!Init
BY DEF Init, LogInv, Abstract!Init, Received

\* Every step is one of CredentialDelivery.
LEMMA AbstractStep ==
  IInv /\ IInv' /\ LogInv /\ [Next]_vars => LogInv' /\ [Abstract!Next]_AbstractVars
<1> SUFFICES ASSUME IInv, IInv', LogInv, [Next]_vars
             PROVE  LogInv' /\ Abstract!Next
  OBVIOUS
<1>0. /\ TypeOK /\ TypeOK' /\ Parts /\ SenderInv
      /\ SenderOK /\ Cur \in Nat /\ bursts \in Seq(Payloads) /\ pos \in Nat
      /\ Cur = Len(bursts)
  BY LogFacts DEF IInv, Parts, TypeOK, SenderOK
<1>1. Abstract!Air => Abstract!Next BY DEF Abstract!Next
<1>2. CASE SendStart
  <2>1. msg \in Payloads BY <1>0, <1>2 DEF SendStart, SenderOK
  <2>2. bursts' = Append(bursts, msg) /\ UNCHANGED log /\ Emit(FrameOf(msg, Cur + 1, 0), Cur + 1)
    BY <1>2 DEF SendStart, daemon
  <2>3. Cur' = Cur + 1 BY <1>0, <2>1, <2>2 DEF Cur
  <2> DEFINE b == Cur + 1
             f == FrameOf(msg, b, 0)
  <2>4. b \in Nat /\ f \in Frame /\ f.burst = b BY <1>0, <2>1, FrameFacts
  <2>5. Emit(f, b) /\ b = Cur' BY <2>2, <2>3
  <2> HIDE DEF b, f
  <2> QED BY <1>0, <1>1, <2>1, <2>2, <2>3, <2>4, <2>5, EmitLogStep
<1>3. CASE SendData \/ SendEnd
  <2>1. /\ msg \in Payloads /\ InBurst /\ UNCHANGED <<bursts, log>> /\ Cur' = Cur
        /\ Emit(FrameOf(msg, Cur, pos), Cur)
    <3>1. msg \in Payloads /\ Len(msg) \in Nat
      BY <1>0, <1>3, PayloadFacts DEF SenderOK, SendData, SendEnd
    <3> QED BY <1>0, <1>3, <3>1 DEF SendData, SendEnd, InBurst, daemon, Cur
  <2> DEFINE f == FrameOf(msg, Cur, pos)
  <2>2. f \in Frame /\ f.burst = Cur /\ Emit(f, Cur) BY <1>0, <2>1, FrameFacts
  <2> HIDE DEF f
  <2> QED BY <1>0, <1>1, <2>1, <2>2, EmitLogStep
<1>4. CASE Deliver BY <1>4, DeliverLogStep
<1>5. CASE ReceiveExpired \/ ReceiveStart \/ ReceiveData \/ ReceiveEnd \/ ReceiveForeign
  <2>1. Read /\ UNCHANGED log
    BY <1>5 DEF ReceiveExpired, ReceiveStart, ReceiveData, ReceiveEnd,
                ReceiveForeign, Feed, daemon
  <2> QED BY <1>0, <1>1, <2>1, ReadOrder, QuietLogStep
<1>6. CASE OtherRemote
  <2>1. /\ UNCHANGED <<log, tainted, bursts, lossy>> /\ (InBurst' <=> InBurst)
        /\ rxq' = Append(rxq, Foreign) /\ rxq \in Seq(Frame) /\ Foreign.burst = 0
    BY <1>0, <1>6 DEF OtherRemote, InBurst, sender, daemon, TypeOK, ChannelOK, Foreign
  <2>2. \A j \in DOMAIN rxq' : rxq'[j].burst = 0 \/ \E i \in DOMAIN rxq : rxq'[j] = rxq[i]
    BY <2>1
  <2> QED BY <1>0, <1>1, <2>1, <2>2, QuietLogStep
<1>7. CASE Restart
  <2>1. /\ DOMAIN rxq' = {} /\ lossy \subseteq lossy' /\ (InBurst' <=> InBurst)
        /\ UNCHANGED <<bursts, tainted, log>>
    BY <1>0, <1>7 DEF Restart, InBurst, sender, TypeOK, ChannelOK
  <2> QED BY <1>0, <1>1, <2>1, QuietLogStep
<1>8. CASE \/ \E p \in Payloads : BeginTransmit(p)
           \/ Cancel \/ FinishHandling \/ Tick \/ UNCHANGED vars
  <2>1. /\ UNCHANGED <<rxq, bursts, tainted, log>> /\ lossy \subseteq lossy'
        /\ InBurst' => InBurst
    BY <1>8 DEF BeginTransmit, Cancel, FinishHandling, Tick, vars, sender, daemon,
                channel, InBurst
  <2> QED BY <1>0, <1>1, <2>1, QuietLogStep
<1> QED BY <1>2, <1>3, <1>4, <1>5, <1>6, <1>7, <1>8 DEF Next, Sender, Loop

\* The link from wfr_transmit_credentials to handle_credentials implements
\* CredentialDelivery: bursts are acted on whole, in order, each at most once,
\* and anything else is acted on only at the END of a burst that the air
\* damaged.
THEOREM LinkImplementsDelivery == Spec => Delivery
<1>1. Init => IInv BY TypeInit, PartsInit, IInvParts
<1> USE DEF AbstractVars
<1> QED BY <1>1, IInvStep, AbstractInit, AbstractStep, PTL
       DEF Spec, Delivery, Abstract!Spec
=============================================================================
