--------------------------- MODULE AckRound_proofs ---------------------------
(***************************************************************************)
(* Proofs about both directions of the link: no transmission is served     *)
(* twice, an answer that arrives whole is shown, and a patient user is     *)
(* told what the daemon answered, and served what was sent.                *)
(***************************************************************************)
EXTENDS AckRound, FiniteSetTheorems, SequenceTheorems, TLAPS

-----------------------------------------------------------------------------
(* Types, and what every stream of messages is.                            *)

Sources == { src \in [who : {"flipper", "stranger", "daemon"}, n : Nat] :
               src.who # "flipper" => src.n = 0 }
Message == [type : {"START", "DATA", "END"}, cmd : Byte, src : Sources]
Answers == {OkText, FailText}
Jobs == [text : Seq(Byte), src : Sources]
Service == [text : Seq(Byte), src : Sources, joined : BOOLEAN, answer : Answers]

FlipperOK ==
  /\ screen \in {"menu", "sending", "waiting", "connected", "refused", "noreply"}
  /\ cred \in Requests \cup {<<>>} /\ (screen # "menu" => cred \in Requests)
  /\ outgoing \in Seq(Message)
  /\ fdec \in Decoder /\ fage \in Nat /\ wait \in 0 .. AckTimeout

DaemonOK ==
  /\ doing \in {"reading", "joining", "answering", "rollback"}
  /\ job \in Jobs /\ left \in Nat
  /\ answer \in Seq(Message) /\ queue \in Seq(Message)
  /\ ddec \in Decoder /\ dage \in Nat

HistoryOK ==
  /\ attempt \in Nat /\ served \in Seq(Service) /\ hasty \in BOOLEAN
  /\ told \in {"none", "clean", "spoilt", "whole"}
  /\ lost \in 0 .. MaxLost /\ strangers \in Nat

TypeOK ==
  /\ FlipperOK /\ DaemonOK /\ HistoryOK
  /\ echo \in BOOLEAN /\ stranger \in Seq(Message)

\* What is left of a transmission: the end of a burst.
RestOf(rest, text, src) ==
  /\ Len(rest) \leq Len(text) + 2
  /\ \A i \in 1 .. Len(rest) : rest[i] = Burst(text, src)[i + Len(text) + 2 - Len(rest)]

\* The last join and its answer.
Last == served[Len(served)]

StreamsInv ==
  /\ outgoing # <<>> => screen = "sending" /\ RestOf(outgoing, cred, Attempt(attempt))
  /\ \A i \in DOMAIN stranger : stranger[i].src = Stranger
  /\ doing = "answering" =>
       served # <<>> /\ Last.src = job.src /\ RestOf(answer, Last.answer, Daemon)
  /\ answer # <<>> => doing = "answering"

-----------------------------------------------------------------------------
(* The END of a transmission is in one place at most.                      *)

\* An attempt whose END was sent is this one only if nothing is left to send.
Past(src, n, rest) == src.who = "flipper" => src.n \leq n /\ (rest # <<>> => src.n < n)

EndAt(i) == queue[i].type = "END" /\ queue[i].src.who = "flipper"

OnceInv ==
  /\ \A i \in DOMAIN queue : EndAt(i) =>
       /\ Past(queue[i].src, attempt, outgoing)
       /\ \A j \in DOMAIN queue : EndAt(j) /\ queue[j].src = queue[i].src => i = j
       /\ doing = "joining" => job.src # queue[i].src
       /\ \A k \in DOMAIN served : served[k].src # queue[i].src
  /\ doing = "joining" /\ job.src.who = "flipper" =>
       Past(job.src, attempt, outgoing) /\ \A k \in DOMAIN served : served[k].src # job.src
  /\ \A k \in DOMAIN served : Past(served[k].src, attempt, outgoing)
  /\ ServedOnce

-----------------------------------------------------------------------------
(* A clean answer.                                                         *)

\* How much of the answer was sent.
Sent == Len(Last.answer) + 2 - Len(answer)

CleanInv ==
  /\ screen = "waiting" => fage \leq wait
  /\ told = "clean" =>
       /\ doing = "answering" /\ screen = "waiting" /\ answer # <<>>
       /\ Last.src = Attempt(attempt)
       /\ Sent > 0 => fdec = [open |-> TRUE, len |-> Len(Last.answer),
                              buf |-> SubSeq(Last.answer, 1, Sent - 1)]
  /\ told = "whole" =>
       \E k \in DOMAIN served :
         served[k].src = Attempt(attempt) /\ screen = Verdict(served[k].answer)

-----------------------------------------------------------------------------
(* A patient user.                                                         *)

NoW(s) == \A i \in DOMAIN s : s[i] # 87

\* A decoder that heard only messages of the answer under way, and not all of
\* them unless it has the text.
HeardOf(d, text, sent) ==
  d.open =>
    /\ d.len = Len(text) /\ sent > 0 /\ Len(d.buf) \leq sent - 1
    /\ Len(d.buf) = sent - 1 => d.buf = SubSeq(text, 1, sent - 1)

Unserved == \A k \in DOMAIN served : served[k].src # Attempt(attempt)

PatientInv ==
  /\ stranger = <<>>
  /\ \A i \in DOMAIN queue :
       /\ queue[i].src # Stranger
       /\ EndAt(i) => /\ queue[i].src = Attempt(attempt) /\ i = Len(queue)
                      /\ doing \notin {"joining", "answering"}
       /\ queue[i].src = Daemon =>
            NoW(ddec.buf) /\ \A j \in 1 .. i : queue[j].src = Daemon
  /\ doing \in {"joining", "answering"} =>
       /\ job.src = Attempt(attempt) /\ outgoing = <<>> /\ ddec = Idle
       /\ \A i \in DOMAIN queue : queue[i].src = Daemon
  /\ screen = "waiting" =>
       /\ Unserved => ~fdec.open
       /\ doing = "answering" => HeardOf(fdec, Last.answer, Sent)
  /\ ResultIsTrue

\* What the queue may hold, and what an open decoder expects.
QueueOK ==
  /\ \A i \in DOMAIN queue : queue[i].src = Daemon /\ queue[i].type = "DATA" => queue[i].cmd # 87
  /\ ddec.open => ddec.len > 0
  /\ \A i \in DOMAIN served : Head(served[i].answer) = 79 => served[i].joined

IInv ==
  /\ TypeOK /\ StreamsInv /\ QueueOK /\ OnceInv /\ CleanInv
  /\ ~hasty /\ strangers = 0 => PatientInv

-----------------------------------------------------------------------------
(* Data.                                                                   *)

\* What the assumptions say of a text that is sent.
LEMMA TextFacts ==
  ASSUME NEW text \in Requests \cup Answers
  PROVE  text \in Seq(Byte) /\ Len(text) \in 1 .. 255 /\ Len(text) # 0 /\ Crc(text) \in Byte
<1>1. text \in Seq(Byte) /\ Len(text) \in 1 .. 255 /\ Crc(text) \in Byte
  BY AckRoundAssumption DEF Texts, Answers
<1>2. \A n \in 1 .. 255 : n # 0 OBVIOUS
<1> QED BY <1>1, <1>2

\* A sequence with one more element.
LEMMA AppendFacts ==
  ASSUME NEW S, NEW s \in Seq(S), NEW e \in S
  PROVE  /\ Append(s, e) \in Seq(S)
         /\ \A i \in DOMAIN Append(s, e) :
              Append(s, e)[i] = e \/ (i \in DOMAIN s /\ Append(s, e)[i] = s[i])
OBVIOUS

\* A sequence between two elements.
LEMMA EnclosedFacts ==
  ASSUME NEW S, NEW a \in S, NEW s \in Seq(S), NEW z \in S
  PROVE  /\ (<<a>> \o s) \o <<z>> \in Seq(S) /\ Len((<<a>> \o s) \o <<z>>) = Len(s) + 2
         /\ ((<<a>> \o s) \o <<z>>)[1] = a /\ ((<<a>> \o s) \o <<z>>)[Len(s) + 2] = z
         /\ \A i \in 2 .. Len(s) + 1 : ((<<a>> \o s) \o <<z>>)[i] = s[i - 1]
<1> DEFINE b == <<a>> \o s
<1>1. /\ b \in Seq(S) /\ Len(b) = Len(s) + 1 /\ b[1] = a
      /\ \A i \in 2 .. Len(s) + 1 : b[i] = s[i - 1]
  OBVIOUS
<1> HIDE DEF b
<1>2. /\ b \o <<z>> \in Seq(S) /\ Len(b \o <<z>>) = Len(b) + 1 /\ (b \o <<z>>)[Len(b) + 1] = z
      /\ \A i \in 1 .. Len(b) : (b \o <<z>>)[i] = b[i]
  BY <1>1
<1>3. Len(s) \in Nat /\ Len(b) + 1 = Len(s) + 2 /\ 1 \in 1 .. Len(b)
      /\ \A i \in 2 .. Len(s) + 1 : i \in 1 .. Len(b)
  BY <1>1
<1>4. /\ b \o <<z>> \in Seq(S) /\ Len(b \o <<z>>) = Len(s) + 2
      /\ (b \o <<z>>)[1] = a /\ (b \o <<z>>)[Len(s) + 2] = z
      /\ \A i \in 2 .. Len(s) + 1 : (b \o <<z>>)[i] = s[i - 1]
  BY <1>1, <1>2, <1>3
<1> QED BY <1>4 DEF b

\* The messages of a transmission.
LEMMA BurstFacts ==
  ASSUME NEW text \in Requests \cup Answers, NEW src \in Sources
  PROVE  /\ Burst(text, src) \in Seq(Message) /\ Len(Burst(text, src)) = Len(text) + 2
         /\ Burst(text, src)[1] = [type |-> "START", cmd |-> Len(text), src |-> src]
         /\ \A i \in 1 .. Len(text) :
              Burst(text, src)[i + 1] = [type |-> "DATA", cmd |-> text[i], src |-> src]
         /\ Burst(text, src)[Len(text) + 2] = [type |-> "END", cmd |-> Crc(text), src |-> src]
<1> DEFINE msg(type, byte) == [type |-> type, cmd |-> byte, src |-> src]
           data == [i \in DOMAIN text |-> msg("DATA", text[i])]
<1>1. text \in Seq(Byte) /\ Len(text) \in 1 .. 255 /\ Crc(text) \in Byte
  BY TextFacts
<1>2. \A type \in {"START", "DATA", "END"}, byte \in Byte : msg(type, byte) \in Message
  BY DEF Message
<1>3. Len(text) \in Byte /\ \A i \in 1 .. Len(text) : text[i] \in Byte
  <2>1. Len(text) \in Byte BY <1>1 DEF Byte
  <2> QED BY <1>1, <2>1
<1>4. data \in Seq(Message) /\ Len(data) = Len(text)
      /\ \A i \in 1 .. Len(text) : data[i] = msg("DATA", text[i])
  BY <1>1, <1>2, <1>3
<1>5. msg("START", Len(text)) \in Message /\ msg("END", Crc(text)) \in Message
  BY <1>1, <1>2, <1>3
<1>6. Burst(text, src) = (<<msg("START", Len(text))>> \o data) \o <<msg("END", Crc(text))>>
  BY DEF Burst
<1> HIDE DEF data
<1> DEFINE first == msg("START", Len(text))
           final == msg("END", Crc(text))
<1>7. first \in Message /\ final \in Message /\ Burst(text, src) = (<<first>> \o data) \o <<final>>
  BY <1>5, <1>6
<1>8. /\ first = [type |-> "START", cmd |-> Len(text), src |-> src]
      /\ final = [type |-> "END", cmd |-> Crc(text), src |-> src]
      /\ \A i \in 1 .. Len(text) : data[i] = [type |-> "DATA", cmd |-> text[i], src |-> src]
  BY <1>4
<1> HIDE DEF first, final, msg
<1>9. /\ Burst(text, src) \in Seq(Message) /\ Len(Burst(text, src)) = Len(text) + 2
      /\ Burst(text, src)[1] = first /\ Burst(text, src)[Len(text) + 2] = final
      /\ \A i \in 2 .. Len(text) + 1 : Burst(text, src)[i] = data[i - 1]
  <2>1. /\ (<<first>> \o data) \o <<final>> \in Seq(Message)
        /\ Len((<<first>> \o data) \o <<final>>) = Len(data) + 2
        /\ ((<<first>> \o data) \o <<final>>)[1] = first
        /\ ((<<first>> \o data) \o <<final>>)[Len(data) + 2] = final
        /\ \A i \in 2 .. Len(data) + 1 : ((<<first>> \o data) \o <<final>>)[i] = data[i - 1]
    BY <1>4, <1>7, EnclosedFacts
  <2> QED BY <1>4, <1>7, <2>1
<1>10. ASSUME NEW i \in 1 .. Len(text)
       PROVE  Burst(text, src)[i + 1] = [type |-> "DATA", cmd |-> text[i], src |-> src]
  <2>1. PICK j \in 2 .. Len(text) + 1 : j = i + 1 BY <1>1
  <2>2. Burst(text, src)[j] = data[j - 1] /\ j - 1 = i BY <1>1, <1>9, <2>1
  <2> QED BY <1>8, <2>1, <2>2
<1> QED BY <1>8, <1>9, <1>10

LEMMA BurstSource ==
  ASSUME NEW text \in Requests \cup Answers, NEW src \in Sources
  PROVE  \A i \in DOMAIN Burst(text, src) : Burst(text, src)[i].src = src
<1> DEFINE b == Burst(text, src)
<1>1. b \in Seq(Message) /\ Len(b) = Len(text) + 2 /\ Len(text) \in 1 .. 255
  BY BurstFacts, TextFacts
<1>2. /\ b[1] = [type |-> "START", cmd |-> Len(text), src |-> src]
      /\ \A i \in 1 .. Len(text) : b[i + 1] = [type |-> "DATA", cmd |-> text[i], src |-> src]
      /\ b[Len(text) + 2] = [type |-> "END", cmd |-> Crc(text), src |-> src]
  BY BurstFacts
<1> HIDE DEF b
<1>3. ASSUME NEW i \in DOMAIN b PROVE b[i].src = src
  <2>1. i \in 1 .. Len(text) + 2 BY <1>1
  <2>2. CASE i = 1 BY <1>2, <2>2
  <2>3. CASE i = Len(text) + 2 BY <1>2, <2>3
  <2>4. CASE i # 1 /\ i # Len(text) + 2
    <3>1. PICK j \in 1 .. Len(text) : i = j + 1
      <4>1. i - 1 \in 1 .. Len(text) /\ i = (i - 1) + 1 BY <1>1, <2>1, <2>4
      <4> QED BY <4>1
    <3>2. b[j + 1] = [type |-> "DATA", cmd |-> text[j], src |-> src] BY <1>2
    <3>3. b[j + 1].src = src BY <3>2
    <3> QED BY <3>1, <3>3
  <2> QED BY <2>2, <2>3, <2>4
<1> QED BY <1>3 DEF b

\* The next message of a transmission, and what is left after it.
LEMMA RestFacts ==
  ASSUME NEW text \in Requests \cup Answers, NEW src \in Sources,
         NEW rest \in Seq(Message), rest # <<>>, RestOf(rest, text, src),
         NEW sent, sent = Len(text) + 2 - Len(rest)
  PROVE  /\ Head(rest) \in Message /\ Head(rest).src = src
         /\ sent \in 0 .. Len(text) + 1
         /\ sent = 0 => Head(rest).type = "START" /\ Head(rest).cmd = Len(text)
         /\ sent \in 1 .. Len(text) => Head(rest).type = "DATA" /\ Head(rest).cmd = text[sent]
         /\ sent = Len(text) + 1 => Head(rest).type = "END" /\ Head(rest).cmd = Crc(text)
         /\ Tail(rest) \in Seq(Message) /\ Len(Tail(rest)) = Len(rest) - 1
         /\ Tail(rest) = <<>> <=> sent = Len(text) + 1
         /\ RestOf(Tail(rest), text, src)
<1>1. text \in Seq(Byte) /\ Len(text) \in 1 .. 255 BY TextFacts
<1>2. /\ Len(rest) \in 1 .. Len(text) + 2 /\ 1 \in DOMAIN rest /\ Head(rest) = rest[1]
      /\ Tail(rest) \in Seq(Message) /\ Len(Tail(rest)) = Len(rest) - 1
      /\ \A i \in 1 .. Len(Tail(rest)) : i + 1 \in DOMAIN rest /\ Tail(rest)[i] = rest[i + 1]
      /\ Head(rest) \in Message
  BY <1>1 DEF RestOf
<1>3. sent \in 0 .. Len(text) + 1 /\ sent + 1 \in 1 .. Len(text) + 2 BY <1>1, <1>2
<1>4. Head(rest) = Burst(text, src)[sent + 1]
  BY <1>1, <1>2 DEF RestOf
<1>5. /\ Burst(text, src)[1] = [type |-> "START", cmd |-> Len(text), src |-> src]
      /\ \A i \in 1 .. Len(text) :
           Burst(text, src)[i + 1] = [type |-> "DATA", cmd |-> text[i], src |-> src]
      /\ Burst(text, src)[Len(text) + 2] = [type |-> "END", cmd |-> Crc(text), src |-> src]
  BY BurstFacts
<1>6. /\ sent = 0 => Head(rest).type = "START" /\ Head(rest).cmd = Len(text)
      /\ sent \in 1 .. Len(text) => Head(rest).type = "DATA" /\ Head(rest).cmd = text[sent]
      /\ sent = Len(text) + 1 => Head(rest).type = "END" /\ Head(rest).cmd = Crc(text)
      /\ Head(rest).src = src
  <2>1. CASE sent = 0
    <3>1. Head(rest) = [type |-> "START", cmd |-> Len(text), src |-> src]
      BY <1>4, <1>5, <2>1
    <3>2. sent \notin 1 .. Len(text) /\ sent # Len(text) + 1 BY <1>1, <2>1
    <3> QED BY <2>1, <3>1, <3>2
  <2>2. CASE sent \in 1 .. Len(text)
    <3>1. Head(rest) = [type |-> "DATA", cmd |-> text[sent], src |-> src]
      BY <1>4, <1>5, <2>2
    <3>2. sent # 0 /\ sent # Len(text) + 1 BY <1>1, <2>2
    <3> QED BY <2>2, <3>1, <3>2
  <2>3. CASE sent = Len(text) + 1
    <3>1. sent + 1 = Len(text) + 2 /\ sent # 0 /\ sent \notin 1 .. Len(text) BY <1>1, <2>3
    <3>2. Head(rest) = [type |-> "END", cmd |-> Crc(text), src |-> src]
      BY <1>4, <1>5, <3>1
    <3> QED BY <2>3, <3>1, <3>2
  <2> QED BY <1>1, <1>3, <2>1, <2>2, <2>3
<1>7. RestOf(Tail(rest), text, src)
  <2>1. Len(Tail(rest)) \leq Len(text) + 2 BY <1>1, <1>2
  <2>2. ASSUME NEW i \in 1 .. Len(Tail(rest))
        PROVE  Tail(rest)[i] = Burst(text, src)[i + Len(text) + 2 - Len(Tail(rest))]
    <3>1. /\ i + 1 \in 1 .. Len(rest)
          /\ (i + 1) + Len(text) + 2 - Len(rest) = i + Len(text) + 2 - Len(Tail(rest))
      BY <1>1, <1>2
    <3>2. PICK j \in 1 .. Len(rest) : j = i + 1 BY <3>1
    <3>3. Tail(rest)[i] = rest[j] BY <1>2, <3>2
    <3>4. rest[j] = Burst(text, src)[j + Len(text) + 2 - Len(rest)] BY DEF RestOf
    <3> QED BY <3>1, <3>2, <3>3, <3>4
  <2> QED BY <2>1, <2>2 DEF RestOf
<1>8. Tail(rest) = <<>> <=> sent = Len(text) + 1
  <2>1. Tail(rest) = <<>> <=> Len(Tail(rest)) = 0 BY <1>2, EmptySeq
  <2> QED BY <1>1, <1>2, <2>1
<1> QED BY <1>2, <1>3, <1>6, <1>7, <1>8

\* The beginning: all of the burst is left.
LEMMA RestWhole ==
  ASSUME NEW text \in Requests \cup Answers, NEW src \in Sources
  PROVE  /\ Burst(text, src) \in Seq(Message) /\ Len(Burst(text, src)) = Len(text) + 2
         /\ Burst(text, src) # <<>> /\ RestOf(Burst(text, src), text, src)
<1>1. text \in Seq(Byte) /\ Len(text) \in 1 .. 255 BY TextFacts
<1>2. Burst(text, src) \in Seq(Message) /\ Len(Burst(text, src)) = Len(text) + 2
  BY BurstFacts
<1>3. Burst(text, src) # <<>> BY <1>1, <1>2
<1>4. \A i \in DOMAIN Burst(text, src) : i + Len(text) + 2 - Len(Burst(text, src)) = i
  BY <1>1, <1>2
<1> QED BY <1>1, <1>2, <1>3, <1>4 DEF RestOf
-----------------------------------------------------------------------------
(* Decoders.                                                               *)

\* The beginnings of a text.
LEMMA PrefixFacts ==
  ASSUME NEW text \in Seq(Byte)
  PROVE  /\ SubSeq(text, 1, 0) = <<>> /\ SubSeq(text, 1, Len(text)) = text
         /\ \A k \in 1 .. Len(text) :
              /\ SubSeq(text, 1, k - 1) \in Seq(Byte) /\ Len(SubSeq(text, 1, k - 1)) = k - 1
              /\ Append(SubSeq(text, 1, k - 1), text[k]) = SubSeq(text, 1, k)
<1>1. SubSeq(text, 1, 0) = <<>> /\ SubSeq(text, 1, Len(text)) = text
  OBVIOUS
<1>2. ASSUME NEW k \in 1 .. Len(text)
      PROVE  /\ SubSeq(text, 1, k - 1) \in Seq(Byte) /\ Len(SubSeq(text, 1, k - 1)) = k - 1
             /\ Append(SubSeq(text, 1, k - 1), text[k]) = SubSeq(text, 1, k)
  <2>1. SubSeq(text, 1, k - 1) \in Seq(Byte) /\ Len(SubSeq(text, 1, k - 1)) = k - 1
    OBVIOUS
  <2> QED BY <2>1
<1> QED BY <1>1, <1>2

\* A decoder with another buffer.
LEMMA WithBuf ==
  ASSUME NEW d \in Decoder, NEW s \in Seq(Byte)
  PROVE  /\ [d EXCEPT !.buf = s] \in Decoder
         /\ [d EXCEPT !.buf = s].open = d.open /\ [d EXCEPT !.buf = s].len = d.len
         /\ [d EXCEPT !.buf = s].buf = s
         /\ [d EXCEPT !.buf = s] = [open |-> d.open, len |-> d.len, buf |-> s]
BY DEF Decoder

\* What a message makes of a decoder.
LEMMA FedFacts ==
  ASSUME NEW d \in Decoder, NEW age \in Nat, NEW m \in Message
  PROVE  /\ Fed(d, age, m) \in Decoder /\ AgeFed(d, age, m) \in Nat
         /\ AgeFed(d, age, m) \in {0, age}
         /\ Completed(d, age, m) => Fed(d, age, m) = Idle /\ m.type = "END" /\ Full(d)
         /\ (d.open => d.len > 0) => (Fed(d, age, m).open => Fed(d, age, m).len > 0)
         /\ NoW(d.buf) /\ (m.type = "DATA" => m.cmd # 87) => NoW(Fed(d, age, m).buf)
<1>1. d.open \in BOOLEAN /\ d.len \in Byte /\ d.buf \in Seq(Byte) BY DEF Decoder
<1>2. m.type \in {"START", "DATA", "END"} /\ m.cmd \in Byte BY DEF Message
<1>3. Idle \in Decoder /\ ~Idle.open /\ NoW(Idle.buf)
  BY DEF Idle, Decoder, Byte, NoW
<1> DEFINE c == m.cmd  opened == [open |-> TRUE, len |-> c, buf |-> <<>>]
           longer == [d EXCEPT !.buf = Append(@, c)]  rewound == [d EXCEPT !.buf = <<>>]
<1>4. opened \in Decoder /\ NoW(opened.buf) /\ opened.len = c
  BY <1>2 DEF Decoder, NoW
<1>5. /\ rewound \in Decoder /\ NoW(rewound.buf)
      /\ rewound.open = d.open /\ rewound.len = d.len
  <2>1. <<>> \in Seq(Byte) /\ NoW(<<>>) BY DEF NoW
  <2> QED BY <2>1, WithBuf
<1>6. /\ longer \in Decoder /\ longer.open = d.open /\ longer.len = d.len
      /\ NoW(d.buf) /\ c # 87 => NoW(longer.buf)
  <2>1. Append(d.buf, c) \in Seq(Byte) BY <1>1, <1>2
  <2>2. /\ longer \in Decoder /\ longer.buf = Append(d.buf, c)
        /\ longer.open = d.open /\ longer.len = d.len
    BY <2>1, WithBuf
  <2>3. NoW(d.buf) /\ c # 87 => NoW(Append(d.buf, c))
    BY <1>1, <1>2 DEF NoW
  <2> QED BY <2>2, <2>3
<1>7. c # 0 => c > 0 BY <1>2 DEF Byte
<1>8. \/ Fed(d, age, m) = Idle
      \/ Fed(d, age, m) = d
      \/ Fed(d, age, m) = opened /\ c # 0
      \/ Fed(d, age, m) = longer /\ m.type = "DATA"
      \/ Fed(d, age, m) = rewound
  BY <1>2 DEF Fed, AfterStart, AfterData, AfterEnd
<1>9. AgeFed(d, age, m) \in {0, age} BY DEF AgeFed
<1>10. Completed(d, age, m) => Fed(d, age, m) = Idle /\ m.type = "END" /\ Full(d)
  BY DEF Completed, Completes, Fed, AfterEnd
<1> HIDE DEF opened, longer, rewound
<1> QED BY <1>3, <1>4, <1>5, <1>6, <1>7, <1>8, <1>9, <1>10

\* A decoder that heard every message of a text, in time, so far.
LEMMA WholeFacts ==
  ASSUME NEW text \in Answers, NEW d \in Decoder, NEW age \in Nat, NEW m \in Message,
         NEW sent \in 0 .. Len(text) + 1, age < Timeout,
         sent = 0 => m.type = "START" /\ m.cmd = Len(text),
         sent \in 1 .. Len(text) => m.type = "DATA" /\ m.cmd = text[sent],
         sent = Len(text) + 1 => m.type = "END" /\ m.cmd = Crc(text),
         sent > 0 => d = [open |-> TRUE, len |-> Len(text), buf |-> SubSeq(text, 1, sent - 1)]
  PROVE  /\ sent \leq Len(text) =>
              /\ Fed(d, age, m) = [open |-> TRUE, len |-> Len(text), buf |-> SubSeq(text, 1, sent)]
              /\ ~Completed(d, age, m)
         /\ sent = Len(text) + 1 => Completed(d, age, m) /\ d.buf = text
<1>1. text \in Seq(Byte) /\ Len(text) \in 1 .. 255 BY TextFacts
<1>2. ~Expired(d, age) BY TimeoutAssumption DEF Expired
<1>3. CASE sent = 0
  <2>1. SubSeq(text, 1, sent) = <<>> BY <1>1, <1>3, PrefixFacts
  <2>2. Fed(d, age, m) = AfterStart(d, Len(text)) /\ ~Completed(d, age, m)
    BY <1>2, <1>3 DEF Fed, Completed
  <2>3. AfterStart(d, Len(text)) = [open |-> TRUE, len |-> Len(text), buf |-> <<>>]
    <3>1. Len(text) # 0 BY TextFacts
    <3> QED BY <3>1 DEF AfterStart
  <2>4. sent # Len(text) + 1 BY <1>1, <1>3
  <2> QED BY <2>1, <2>2, <2>3, <2>4
<1>4. CASE sent \in 1 .. Len(text)
  <2>1. /\ Len(SubSeq(text, 1, sent - 1)) = sent - 1
        /\ Append(SubSeq(text, 1, sent - 1), text[sent]) = SubSeq(text, 1, sent)
    BY <1>1, <1>4, PrefixFacts
  <2>2. Fed(d, age, m) = AfterData(d, text[sent]) /\ ~Completed(d, age, m)
    BY <1>2, <1>4 DEF Fed, Completed
  <2>3. d.open /\ d.len = Len(text) /\ d.buf = SubSeq(text, 1, sent - 1)
    BY <1>4
  <2>4. Accepts(d) BY <1>1, <1>4, <2>1, <2>3 DEF Accepts
  <2>5. AfterData(d, text[sent]) =
          [open |-> TRUE, len |-> Len(text), buf |-> Append(SubSeq(text, 1, sent - 1), text[sent])]
    <3>1. AfterData(d, text[sent]) = [d EXCEPT !.buf = Append(d.buf, text[sent])]
      BY <2>4 DEF AfterData
    <3>2. Append(d.buf, text[sent]) \in Seq(Byte)
      <4>1. text[sent] \in Byte BY <1>1, <1>4
      <4> QED BY <4>1 DEF Decoder
    <3>3. AfterData(d, text[sent]) =
            [open |-> d.open, len |-> d.len, buf |-> Append(d.buf, text[sent])]
      BY <3>1, <3>2, WithBuf
    <3> QED BY <2>3, <3>3
  <2>6. sent # Len(text) + 1 BY <1>1, <1>4
  <2> QED BY <2>1, <2>2, <2>5, <2>6
<1>5. CASE sent = Len(text) + 1
  <2>1. sent > 0 /\ sent - 1 = Len(text) /\ ~(sent \leq Len(text)) BY <1>1, <1>5
  <2>2. d.open /\ d.len = Len(text) /\ d.buf = text
    <3>1. d = [open |-> TRUE, len |-> Len(text), buf |-> SubSeq(text, 1, sent - 1)] BY <2>1
    <3>2. SubSeq(text, 1, Len(text)) = text BY <1>1, PrefixFacts
    <3> QED BY <2>1, <3>1, <3>2
  <2>3. Completed(d, age, m) BY <1>2, <1>5, <2>2 DEF Completed, Completes, Full
  <2> QED BY <2>1, <2>2, <2>3
<1> QED BY <1>3, <1>4, <1>5

\* A decoder that heard some messages of a text, and nothing else.
LEMMA HeardFacts ==
  ASSUME NEW text \in Answers, NEW d \in Decoder, NEW age \in Nat, NEW m \in Message,
         NEW sent \in 0 .. Len(text) + 1,
         sent = 0 => m.type = "START" /\ m.cmd = Len(text),
         sent \in 1 .. Len(text) => m.type = "DATA" /\ m.cmd = text[sent],
         sent = Len(text) + 1 => m.type = "END" /\ m.cmd = Crc(text),
         HeardOf(d, text, sent)
  PROVE  /\ HeardOf(Fed(d, age, m), text, sent + 1) /\ HeardOf(d, text, sent + 1)
         /\ Completed(d, age, m) => d.buf = text
<1>1. text \in Seq(Byte) /\ Len(text) \in 1 .. 255 BY TextFacts
<1>2. d.open \in BOOLEAN /\ d.len \in Byte /\ d.buf \in Seq(Byte) BY DEF Decoder
<1>3. HeardOf(d, text, sent + 1)
  BY <1>1, <1>2 DEF HeardOf
<1>4. HeardOf(Idle, text, sent + 1) BY DEF HeardOf, Idle
<1>5. CASE Expired(d, age)
  BY <1>3, <1>4, <1>5 DEF Fed, Completed
<1>6. CASE ~Expired(d, age) /\ sent = 0
  <2>1. SubSeq(text, 1, 0) = <<>> BY <1>1, PrefixFacts
  <2>2. Fed(d, age, m) = AfterStart(d, Len(text)) /\ ~Completed(d, age, m)
    BY <1>6 DEF Fed, Completed
  <2>3. AfterStart(d, Len(text)) = [open |-> TRUE, len |-> Len(text), buf |-> <<>>]
    <3>1. Len(text) # 0 BY TextFacts
    <3> QED BY <3>1 DEF AfterStart
  <2>4. (sent + 1) - 1 = 0 /\ sent + 1 > 0 BY <1>6
  <2>5. HeardOf([open |-> TRUE, len |-> Len(text), buf |-> <<>>], text, sent + 1)
    BY <2>1, <2>4 DEF HeardOf
  <2> QED BY <1>3, <2>2, <2>3, <2>5
<1>7. CASE ~Expired(d, age) /\ sent \in 1 .. Len(text)
  <2>1. /\ Len(SubSeq(text, 1, sent - 1)) = sent - 1
        /\ Append(SubSeq(text, 1, sent - 1), text[sent]) = SubSeq(text, 1, sent)
        /\ text[sent] \in Byte
    BY <1>1, <1>7, PrefixFacts
  <2>2. Fed(d, age, m) = AfterData(d, text[sent]) /\ ~Completed(d, age, m)
    BY <1>7 DEF Fed, Completed
  <2>3. CASE ~Accepts(d) BY <1>3, <2>2, <2>3 DEF AfterData
  <2>4. CASE Accepts(d)
    <3> DEFINE e == [d EXCEPT !.buf = Append(@, text[sent])]
    <3>1. AfterData(d, text[sent]) = e BY <2>4 DEF AfterData
    <3>2. e.open = d.open /\ e.len = d.len /\ e.buf = Append(d.buf, text[sent])
      BY DEF Decoder
    <3>3. Len(e.buf) = Len(d.buf) + 1 BY <1>2, <2>1, <3>2
    <3> HIDE DEF e
    <3>4. (sent + 1) - 1 = sent /\ sent + 1 > 0 BY <1>1, <1>7
    <3>5. d.open => d.len = Len(text) /\ Len(d.buf) \leq sent - 1
                    /\ (Len(d.buf) = sent - 1 => d.buf = SubSeq(text, 1, sent - 1))
      BY DEF HeardOf
    <3>6. Len(d.buf) \in Nat BY <1>2
    <3>7. d.open => Len(e.buf) \leq sent
      BY <1>7, <3>3, <3>5, <3>6
    <3>8. d.open /\ Len(e.buf) = sent => e.buf = SubSeq(text, 1, sent)
      <4>1. Len(e.buf) = sent => Len(d.buf) = sent - 1 BY <1>7, <3>3, <3>6
      <4> QED BY <2>1, <3>2, <3>5, <4>1
    <3>9. HeardOf(e, text, sent + 1)
      BY <3>2, <3>4, <3>5, <3>7, <3>8 DEF HeardOf
    <3> QED BY <1>3, <2>2, <3>1, <3>9
  <2> QED BY <2>3, <2>4
<1>8. CASE ~Expired(d, age) /\ sent = Len(text) + 1
  <2>1. Fed(d, age, m) = AfterEnd(d, Crc(text)) BY <1>8 DEF Fed
  <2>2. (sent + 1) - 1 = Len(text) + 1 /\ sent + 1 > 0 /\ sent - 1 = Len(text) BY <1>1, <1>8
  <2> DEFINE r == [d EXCEPT !.buf = <<>>]
  <2>3. r.open = d.open /\ r.len = d.len /\ Len(r.buf) = 0 BY DEF Decoder
  <2> HIDE DEF r
  <2>4. HeardOf(r, text, sent + 1)
    <3>1. 0 \leq Len(text) + 1 /\ 0 # Len(text) + 1 BY <1>1
    <3> QED BY <2>2, <2>3, <3>1 DEF HeardOf
  <2>5. AfterEnd(d, Crc(text)) \in {Idle, r, d} BY DEF AfterEnd, r
  <2>6. Completed(d, age, m) => d.buf = text
    <3>1. Completed(d, age, m) => d.open /\ Len(d.buf) = d.len BY DEF Completed, Completes, Full
    <3>2. d.open /\ Len(d.buf) = d.len => d.buf = SubSeq(text, 1, Len(text))
      BY <2>2 DEF HeardOf
    <3> QED BY <1>1, <3>1, <3>2, PrefixFacts
  <2> QED BY <1>3, <1>4, <2>1, <2>4, <2>5, <2>6
<1> QED BY <1>5, <1>6, <1>7, <1>8
-----------------------------------------------------------------------------
(* Types.                                                                  *)

LEMMA SourceFacts ==
  /\ Stranger \in Sources /\ Daemon \in Sources /\ Stranger # Daemon
  /\ Stranger.who = "stranger" /\ Daemon.who = "daemon"
  /\ \A n \in Nat : Attempt(n) \in Sources /\ Attempt(n).who = "flipper" /\ Attempt(n).n = n
  /\ \A src \in Sources :
       /\ src.who = "flipper" => src.n \in Nat /\ src = Attempt(src.n)
       /\ src.who # "flipper" => src \in {Stranger, Daemon}
BY DEF Stranger, Daemon, Attempt, Sources

\* The bound on messages missed counts them.
LEMMA MissedFacts ==
  ASSUME NEW miss \in Receivers, Missed(miss), lost \in 0 .. MaxLost
  PROVE  lost' \in 0 .. MaxLost
<1>1. IsFiniteSet({"daemon", "flipper"})
  <2>1. IsFiniteSet({} \cup {"daemon"}) BY FS_EmptySet, FS_AddElement
  <2>2. IsFiniteSet(({} \cup {"daemon"}) \cup {"flipper"}) BY <2>1, FS_AddElement
  <2>3. ({} \cup {"daemon"}) \cup {"flipper"} = {"daemon", "flipper"} OBVIOUS
  <2> QED BY <2>2, <2>3
<1>2. Cardinality(miss) \in Nat BY <1>1, FS_Subset, FS_CardinalityType DEF Receivers
<1> QED BY <1>2, AckRoundAssumption DEF Missed

\* What a message does to who hears it.
LEMMA ReachFacts ==
  ASSUME FlipperOK, NEW m \in Message, NEW miss, ReachesFlipper(m, miss)
  PROVE  /\ fdec' \in Decoder /\ fage' \in Nat
         /\ screen' = screen \/ (screen = "waiting" /\ screen' \in {"connected", "refused"})
<1>1. Fed(fdec, fage, m) \in Decoder /\ AgeFed(fdec, fage, m) \in Nat
  BY FedFacts DEF FlipperOK
<1> QED BY <1>1 DEF ReachesFlipper, FlipperOK, Verdict

LEMMA QueueFacts ==
  ASSUME queue \in Seq(Message), NEW m \in Message, NEW miss, ReachesDaemon(m, miss)
  PROVE  queue' \in Seq(Message) /\ (queue' = queue \/ queue' = Append(queue, m))
BY DEF ReachesDaemon

LEMMA OlderFacts ==
  ASSUME NEW d, NEW age \in Nat PROVE Older(d, age) \in Nat /\ Older(d, age) \leq age + 1
BY DEF Older

\* What a step that leaves a part of the system alone keeps.
LEMMA FlipperKept == FlipperOK /\ UNCHANGED flipper => FlipperOK'
BY DEF FlipperOK, flipper

LEMMA DaemonKept == DaemonOK /\ UNCHANGED daemon => DaemonOK'
BY DEF DaemonOK, daemon

LEMMA HistoryKept == HistoryOK /\ UNCHANGED <<history, bounds>> => HistoryOK'
BY DEF HistoryOK, history, bounds

\* What the Flipper and the daemon are about to send.
OutgoingInv == outgoing # <<>> => screen = "sending" /\ RestOf(outgoing, cred, Attempt(attempt))
StrangerInv == \A i \in DOMAIN stranger : stranger[i].src = Stranger
AnswerInv ==
  /\ doing = "answering" =>
       served # <<>> /\ Last.src = job.src /\ RestOf(answer, Last.answer, Daemon)
  /\ answer # <<>> => doing = "answering"

LEMMA StreamParts == StreamsInv <=> OutgoingInv /\ StrangerInv /\ AnswerInv
BY DEF StreamsInv, OutgoingInv, StrangerInv, AnswerInv

LEMMA OutgoingKept == OutgoingInv /\ UNCHANGED <<screen, cred, outgoing, attempt>> => OutgoingInv'
BY DEF OutgoingInv, RestOf, Burst, Attempt

LEMMA AnswerKept == AnswerInv /\ UNCHANGED <<doing, job, answer, served>> => AnswerInv'
BY DEF AnswerInv, RestOf, Burst, Daemon, Last

LEMMA StrangerKept == StrangerInv /\ UNCHANGED stranger => StrangerInv'
BY DEF StrangerInv

\* The next message of the three, and what is left.
LEMMA OutgoingNext ==
  ASSUME TypeOK, OutgoingInv, outgoing # <<>>
  PROVE  /\ Head(outgoing) \in Message /\ Head(outgoing).src = Attempt(attempt)
         /\ Tail(outgoing) \in Seq(Message)
         /\ RestOf(Tail(outgoing), cred, Attempt(attempt))
         /\ Head(outgoing).type = "END" => Tail(outgoing) = <<>>
<1>1. cred \in Requests \cup Answers /\ Attempt(attempt) \in Sources /\ outgoing \in Seq(Message)
  BY SourceFacts DEF TypeOK, FlipperOK, HistoryOK, OutgoingInv
<1>2. RestOf(outgoing, cred, Attempt(attempt)) BY DEF OutgoingInv
<1> DEFINE sent == Len(cred) + 2 - Len(outgoing)
<1>3. /\ Head(outgoing) \in Message /\ Head(outgoing).src = Attempt(attempt)
      /\ Tail(outgoing) \in Seq(Message) /\ RestOf(Tail(outgoing), cred, Attempt(attempt))
      /\ sent \in 0 .. Len(cred) + 1 /\ (Tail(outgoing) = <<>> <=> sent = Len(cred) + 1)
      /\ sent = 0 => Head(outgoing).type = "START"
      /\ sent \in 1 .. Len(cred) => Head(outgoing).type = "DATA"
  BY <1>1, <1>2, RestFacts
<1>4. Len(cred) \in 1 .. 255 BY <1>1, TextFacts
<1> HIDE DEF sent
<1>5. sent = 0 \/ sent \in 1 .. Len(cred) \/ sent = Len(cred) + 1 BY <1>3, <1>4
<1> QED BY <1>3, <1>5

LEMMA AnswerNext ==
  ASSUME TypeOK, AnswerInv, answer # <<>>
  PROVE  /\ served # <<>> /\ Last \in Service /\ Last.answer \in Answers
         /\ Last.src = job.src /\ doing = "answering" /\ Len(Last.answer) \in 1 .. 255
         /\ Head(answer) \in Message /\ Head(answer).src = Daemon
         /\ Tail(answer) \in Seq(Message) /\ Len(Tail(answer)) = Len(answer) - 1
         /\ Len(answer) \in Nat
         /\ RestOf(Tail(answer), Last.answer, Daemon)
         /\ Sent \in 0 .. Len(Last.answer) + 1
         /\ Sent = 0 => Head(answer).type = "START" /\ Head(answer).cmd = Len(Last.answer)
         /\ Sent \in 1 .. Len(Last.answer) =>
              Head(answer).type = "DATA" /\ Head(answer).cmd = Last.answer[Sent]
         /\ Sent = Len(Last.answer) + 1 =>
              Head(answer).type = "END" /\ Head(answer).cmd = Crc(Last.answer)
         /\ Tail(answer) = <<>> <=> Sent = Len(Last.answer) + 1
<1>1. doing = "answering" /\ served # <<>> /\ Last.src = job.src /\ RestOf(answer, Last.answer, Daemon)
  BY DEF AnswerInv
<1>2. Last \in Service /\ answer \in Seq(Message) /\ Daemon \in Sources
  <2>1. served \in Seq(Service) /\ answer \in Seq(Message) BY DEF TypeOK, HistoryOK, DaemonOK
  <2>2. Len(served) \in 1 .. Len(served) BY <1>1, <2>1
  <2>3. Last \in Service BY <2>1, <2>2 DEF Last
  <2> QED BY <2>1, <2>3, SourceFacts
<1>3. Last.answer \in Answers /\ Last.answer \in Requests \cup Answers BY <1>2 DEF Service
<1>4. Len(Last.answer) \in 1 .. 255 BY <1>3, TextFacts
<1>5. Len(answer) \in Nat BY <1>2
<1>6. Sent = Len(Last.answer) + 2 - Len(answer) BY DEF Sent
<1>7. answer # <<>> OBVIOUS
<1> HIDE DEF Sent
<1>8. /\ Head(answer) \in Message /\ Head(answer).src = Daemon
      /\ Sent \in 0 .. Len(Last.answer) + 1
      /\ Sent = 0 => Head(answer).type = "START" /\ Head(answer).cmd = Len(Last.answer)
      /\ Sent \in 1 .. Len(Last.answer) =>
           Head(answer).type = "DATA" /\ Head(answer).cmd = Last.answer[Sent]
      /\ Sent = Len(Last.answer) + 1 =>
           Head(answer).type = "END" /\ Head(answer).cmd = Crc(Last.answer)
      /\ Tail(answer) \in Seq(Message) /\ Len(Tail(answer)) = Len(answer) - 1
      /\ Tail(answer) = <<>> <=> Sent = Len(Last.answer) + 1
      /\ RestOf(Tail(answer), Last.answer, Daemon)
  BY <1>1, <1>2, <1>3, <1>6, <1>7, RestFacts
<1> QED BY <1>1, <1>2, <1>3, <1>4, <1>5, <1>8

\* The daemon's own messages carry no 'W'.
LEMMA AnswerHasNoW ==
  ASSUME TypeOK, AnswerInv, answer # <<>>
  PROVE  Head(answer).type = "DATA" => Head(answer).cmd # 87
<1>1. /\ Last.answer \in Answers /\ Sent \in 0 .. Len(Last.answer) + 1
      /\ Len(Last.answer) \in 1 .. 255 /\ Last.answer \in Seq(Byte)
  BY AnswerNext, TextFacts
<1>2. Sent = 0 \/ Sent \in 1 .. Len(Last.answer) \/ Sent = Len(Last.answer) + 1 BY <1>1
<1>3. CASE Sent \in 1 .. Len(Last.answer)
  <2>1. Head(answer).cmd = Last.answer[Sent] BY <1>3, AnswerNext
  <2>2. \A i \in 1 .. Len(Last.answer) : Last.answer[i] # 87
    BY <1>1, AckRoundAssumption DEF Answers
  <2> QED BY <1>3, <2>1, <2>2
<1>4. CASE Sent = 0
  BY <1>4, AnswerNext
<1>5. CASE Sent = Len(Last.answer) + 1
  BY <1>5, AnswerNext
<1> QED BY <1>2, <1>3, <1>4, <1>5
LEMMA QueueKept == QueueOK /\ UNCHANGED <<queue, ddec, served>> => QueueOK'
BY DEF QueueOK

\* A message more in the queue.
LEMMA QueueLonger ==
  ASSUME queue \in Seq(Message), QueueOK, NEW m \in Message, NEW miss, ReachesDaemon(m, miss),
         UNCHANGED <<ddec, served>>, m.src = Daemon /\ m.type = "DATA" => m.cmd # 87
  PROVE  QueueOK'
<1>1. queue' = queue \/ queue' = Append(queue, m) BY QueueFacts
<1>2. \A i \in DOMAIN queue' : queue'[i] = m \/ (i \in DOMAIN queue /\ queue'[i] = queue[i])
  BY <1>1
<1> QED BY <1>2 DEF QueueOK

BaseInv == TypeOK /\ OutgoingInv /\ StrangerInv /\ AnswerInv /\ QueueOK

LEMMA InitBase == Init => BaseInv
<1> SUFFICES ASSUME Init PROVE BaseInv OBVIOUS
<1>1. FlipperOK
  BY AckRoundAssumption DEF Init, FlipperOK, Idle, Decoder, Byte
<1>2. DaemonOK
  BY SourceFacts DEF Init, DaemonOK, Idle, Decoder, Byte, NoJob, Jobs
<1>3. HistoryOK /\ echo \in BOOLEAN /\ stranger \in Seq(Message)
  <2>1. <<>> \in Seq(Service) /\ <<>> \in Seq(Message) OBVIOUS
  <2>2. 0 \in 0 .. MaxLost BY AckRoundAssumption
  <2> QED BY <2>1, <2>2 DEF Init, HistoryOK
<1>4. OutgoingInv /\ StrangerInv /\ AnswerInv /\ QueueOK
  BY DEF Init, OutgoingInv, StrangerInv, AnswerInv, QueueOK, Idle
<1> QED BY <1>1, <1>2, <1>3, <1>4 DEF BaseInv, TypeOK

LEMMA BaseTransmit ==
  ASSUME BaseInv, NEW text \in Requests, Transmit(text)
  PROVE  BaseInv'
<1> USE DEF BaseInv, TypeOK
<1>1. attempt' = attempt + 1 /\ attempt' \in Nat /\ Attempt(attempt') \in Sources
  BY SourceFacts DEF Transmit, HistoryOK
<1>2. /\ outgoing' = Burst(text, Attempt(attempt')) /\ outgoing' \in Seq(Message)
      /\ RestOf(outgoing', text, Attempt(attempt'))
  BY <1>1, RestWhole DEF Transmit
<1>3. FlipperOK' BY <1>2 DEF Transmit, FlipperOK
<1>4. DaemonOK' BY DaemonKept DEF Transmit
<1>5. HistoryOK' BY <1>1 DEF Transmit, HistoryOK, bounds
<1>6. OutgoingInv'
  BY <1>2 DEF Transmit, OutgoingInv, RestOf, Burst, Attempt
<1>7. AnswerInv' BY AnswerKept DEF Transmit, daemon
<1>8. StrangerInv' /\ stranger' \in Seq(Message) /\ echo' \in BOOLEAN
  BY StrangerKept DEF Transmit
<1>9. QueueOK' BY QueueKept DEF Transmit, daemon
<1> QED BY <1>3, <1>4, <1>5, <1>6, <1>7, <1>8, <1>9

LEMMA BaseSend ==
  ASSUME BaseInv, NEW miss \in Receivers, SendMessage(miss)
  PROVE  BaseInv'
<1> USE DEF BaseInv, TypeOK
<1> DEFINE m == Head(outgoing)
<1>1. /\ m \in Message /\ m.src = Attempt(attempt) /\ outgoing' \in Seq(Message)
      /\ RestOf(Tail(outgoing), cred, Attempt(attempt)) /\ outgoing' = Tail(outgoing)
  BY OutgoingNext DEF SendMessage
<1>2. queue' \in Seq(Message) /\ ReachesDaemon(m, miss)
  BY <1>1, QueueFacts DEF SendMessage, DaemonOK
<1>3. lost' \in 0 .. MaxLost BY MissedFacts DEF SendMessage, HistoryOK
<1>4. Idle \in Decoder BY DEF Idle, Decoder, Byte
<1>5. FlipperOK'
  <2>1. wait' \in 0 .. AckTimeout /\ fage' \in Nat /\ fdec' \in Decoder
    BY <1>4, AckRoundAssumption DEF SendMessage, StartListening, FlipperOK
  <2>2. screen' \in {"sending", "waiting"} BY DEF SendMessage, StartListening
  <2> QED BY <1>1, <2>1, <2>2 DEF SendMessage, FlipperOK
<1>6. DaemonOK' BY <1>2 DEF SendMessage, DaemonOK
<1>7. HistoryOK' BY <1>3 DEF SendMessage, HistoryOK, history
<1>8. OutgoingInv'
  <2>1. outgoing' # <<>> => screen' = "sending" BY DEF SendMessage
  <2> QED BY <1>1, <2>1 DEF SendMessage, history, OutgoingInv, RestOf, Burst, Attempt
<1>9. AnswerInv' BY AnswerKept DEF SendMessage, history
<1>10. StrangerInv' /\ stranger' \in Seq(Message) /\ echo' \in BOOLEAN
  BY StrangerKept DEF SendMessage
<1>11. QueueOK'
  <2>1. m.src # Daemon BY <1>1, SourceFacts DEF HistoryOK
  <2> QED BY <1>1, <1>2, <2>1, QueueLonger DEF SendMessage, DaemonOK, history
<1> QED BY <1>5, <1>6, <1>7, <1>8, <1>9, <1>10, <1>11

LEMMA BaseRead ==
  ASSUME BaseInv, ReadMessage
  PROVE  BaseInv'
<1> USE DEF BaseInv, TypeOK
<1> DEFINE m == Head(queue)
<1>1. /\ m \in Message /\ queue' \in Seq(Message) /\ m = queue[1] /\ 1 \in DOMAIN queue
      /\ \A i \in DOMAIN queue' : i + 1 \in DOMAIN queue /\ queue'[i] = queue[i + 1]
  BY DEF ReadMessage, DaemonOK
<1>2. /\ ddec' = Fed(ddec, dage, m) /\ dage' = AgeFed(ddec, dage, m)
      /\ ddec \in Decoder /\ dage \in Nat
  BY DEF ReadMessage, DaemonOK
<1>3. ddec' \in Decoder /\ dage' \in Nat /\ (ddec'.open => ddec'.len > 0)
  BY <1>1, <1>2, FedFacts DEF QueueOK
<1>4. /\ job' \in Jobs /\ left' \in Nat /\ doing' \in {"reading", "joining"}
  <2>1. CASE Completed(ddec, dage, m) /\ IsRequest(ddec.buf)
    <3>1. job' = [text |-> ddec.buf, src |-> m.src] /\ left' \in JoinTimes /\ doing' = "joining"
      BY <2>1 DEF ReadMessage
    <3>2. ddec.buf \in Seq(Byte) /\ m.src \in Sources BY <1>1, <1>2 DEF Decoder, Message
    <3> QED BY <3>1, <3>2, AckRoundAssumption DEF Jobs
  <2>2. CASE ~(Completed(ddec, dage, m) /\ IsRequest(ddec.buf))
    BY <2>2 DEF ReadMessage, DaemonOK
  <2> QED BY <2>1, <2>2
<1>5. FlipperOK' BY FlipperKept DEF ReadMessage
<1>6. DaemonOK' BY <1>1, <1>3, <1>4 DEF ReadMessage, DaemonOK
<1>7. HistoryOK' BY HistoryKept DEF ReadMessage
<1>8. OutgoingInv' BY OutgoingKept DEF ReadMessage, flipper, history
<1>9. AnswerInv' BY <1>4 DEF ReadMessage, AnswerInv, history
<1>10. StrangerInv' /\ stranger' \in Seq(Message) /\ echo' \in BOOLEAN
  BY StrangerKept DEF ReadMessage
<1>11. QueueOK'
  BY <1>1, <1>3 DEF ReadMessage, QueueOK, history
<1> QED BY <1>5, <1>6, <1>7, <1>8, <1>9, <1>10, <1>11

LEMMA BaseEndJoin ==
  ASSUME BaseInv, NEW joined \in BOOLEAN, NEW addressed \in BOOLEAN, EndJoin(joined, addressed)
  PROVE  /\ BaseInv'
         /\ served' = Append(served, Last') /\ Len(served') = Len(served) + 1
         /\ \A k \in DOMAIN served : k \in DOMAIN served' /\ served'[k] = served[k]
         /\ Last'.src = job.src /\ Sent' = 0 /\ Len(served') \in DOMAIN served'
         /\ \A k \in DOMAIN served' \ DOMAIN served : k = Len(served') /\ served'[k] = Last'
<1> USE DEF BaseInv, TypeOK
<1> DEFINE text == AnswerText(joined, addressed)
           new == [text |-> job.text, src |-> job.src, joined |-> joined, answer |-> text]
<1>1. text \in Answers /\ text \in Requests \cup Answers /\ (Head(text) = 79 => joined)
  BY AckRoundAssumption DEF AnswerText, Answers
<1>2. new \in Service /\ new.src = job.src /\ new.answer = text /\ new.joined = joined
  BY <1>1 DEF Service, Jobs, DaemonOK
<1>3. served' = Append(served, new) BY DEF EndJoin
<1> HIDE DEF new
<1>4. /\ served' \in Seq(Service) /\ Len(served') = Len(served) + 1 /\ served' # <<>>
      /\ \A k \in DOMAIN served : k \in DOMAIN served' /\ served'[k] = served[k]
      /\ \A k \in DOMAIN served' \ DOMAIN served : k = Len(served') /\ served'[k] = new
      /\ Len(served') \in DOMAIN served' /\ served'[Len(served')] = new
  BY <1>2, <1>3 DEF HistoryOK
<1>5. Last' = new /\ Last'.answer = text BY <1>2, <1>4 DEF Last
<1>6. /\ answer' = Burst(text, Daemon) /\ answer' \in Seq(Message)
      /\ Len(answer') = Len(text) + 2 /\ RestOf(answer', text, Daemon)
  BY <1>1, RestWhole, SourceFacts DEF EndJoin
<1>7. Sent' = 0
  <2>1. Len(text) \in Nat BY <1>1, TextFacts
  <2>2. Len(answer') = Len(Last'.answer) + 2 /\ Len(Last'.answer) \in Nat BY <1>5, <1>6, <2>1
  <2> QED BY <2>2 DEF Sent
<1>8. AnswerInv'
  <2>1. RestOf(answer', Last'.answer, Daemon) BY <1>5, <1>6
  <2> QED BY <1>2, <1>4, <1>5, <2>1 DEF AnswerInv, EndJoin
<1>9. FlipperOK' BY FlipperKept DEF EndJoin
<1>10. DaemonOK' BY <1>6 DEF EndJoin, DaemonOK
<1>11. HistoryOK' BY <1>4 DEF EndJoin, HistoryOK, bounds
<1>12. OutgoingInv' BY OutgoingKept DEF EndJoin, flipper
<1>13. StrangerInv' /\ stranger' \in Seq(Message) /\ echo' \in BOOLEAN
  BY StrangerKept DEF EndJoin
<1>14. QueueOK' BY <1>1, <1>2, <1>4 DEF EndJoin, QueueOK
<1> QED BY <1>2, <1>3, <1>4, <1>5, <1>7, <1>8, <1>9, <1>10, <1>11, <1>12, <1>13, <1>14
LEMMA BaseAnswer ==
  ASSUME BaseInv, NEW miss \in Receivers, AnswerMessage(miss)
  PROVE  BaseInv'
<1> USE DEF BaseInv, TypeOK
<1> DEFINE m == Head(answer)
<1>1. /\ m \in Message /\ answer' \in Seq(Message) /\ answer' = Tail(answer)
      /\ RestOf(Tail(answer), Last.answer, Daemon)
      /\ served # <<>> /\ Last.src = job.src /\ doing = "answering"
      /\ (m.type = "DATA" => m.cmd # 87)
  BY AnswerNext, AnswerHasNoW DEF AnswerMessage
<1>2. ReachesFlipper(m, miss) /\ ReachesDaemon(m, IF echo THEN miss ELSE {"daemon"}) /\ Missed(miss)
  BY DEF AnswerMessage
<1>3. /\ fdec' \in Decoder /\ fage' \in Nat
      /\ screen' = screen \/ (screen = "waiting" /\ screen' \in {"connected", "refused"})
  BY <1>1, <1>2, ReachFacts
<1>4. queue' \in Seq(Message) BY <1>1, <1>2, QueueFacts DEF DaemonOK
<1>5. lost' \in 0 .. MaxLost BY <1>2, MissedFacts DEF HistoryOK
<1>6. FlipperOK' BY <1>3 DEF AnswerMessage, FlipperOK
<1>7. DaemonOK' BY <1>1, <1>4 DEF AnswerMessage, DaemonOK
<1>8. told' \in {"none", "clean", "spoilt", "whole"} BY DEF AnswerMessage, HistoryOK
<1>9. HistoryOK' BY <1>5, <1>8 DEF AnswerMessage, HistoryOK
<1>10. OutgoingInv'
  <2>1. outgoing # <<>> => screen' = screen BY <1>3 DEF OutgoingInv
  <2> QED BY <2>1 DEF AnswerMessage, OutgoingInv, RestOf, Burst, Attempt
<1>11. AnswerInv'
  <2>1. Last' = Last BY DEF AnswerMessage, Last
  <2> QED BY <1>1, <2>1 DEF AnswerMessage, AnswerInv
<1>12. StrangerInv' /\ stranger' \in Seq(Message) /\ echo' \in BOOLEAN
  BY StrangerKept DEF AnswerMessage
<1>13. QueueOK' BY <1>1, <1>2, QueueLonger DEF AnswerMessage, DaemonOK
<1> QED BY <1>6, <1>7, <1>9, <1>10, <1>11, <1>12, <1>13

LEMMA BaseStranger ==
  ASSUME BaseInv, NEW miss \in Receivers, StrangerMessage(miss)
  PROVE  BaseInv'
<1> USE DEF BaseInv, TypeOK
<1> DEFINE m == Head(stranger)
<1>1. /\ m \in Message /\ m.src = Stranger /\ stranger' \in Seq(Message)
      /\ stranger' = Tail(stranger) /\ StrangerInv'
  BY DEF StrangerMessage, StrangerInv
<1>2. ReachesFlipper(m, miss) /\ ReachesDaemon(m, miss) /\ Missed(miss)
  BY DEF StrangerMessage
<1>3. /\ fdec' \in Decoder /\ fage' \in Nat
      /\ screen' = screen \/ (screen = "waiting" /\ screen' \in {"connected", "refused"})
  BY <1>1, <1>2, ReachFacts
<1>4. queue' \in Seq(Message) BY <1>1, <1>2, QueueFacts DEF DaemonOK
<1>5. lost' \in 0 .. MaxLost BY <1>2, MissedFacts DEF HistoryOK
<1>6. FlipperOK' BY <1>3 DEF StrangerMessage, FlipperOK
<1>7. DaemonOK' BY <1>4 DEF StrangerMessage, DaemonOK
<1>8. HistoryOK' BY <1>5 DEF StrangerMessage, HistoryOK
<1>9. OutgoingInv'
  <2>1. outgoing # <<>> => screen' = screen BY <1>3 DEF OutgoingInv
  <2> QED BY <2>1 DEF StrangerMessage, OutgoingInv, RestOf, Burst, Attempt
<1>10. AnswerInv' BY AnswerKept DEF StrangerMessage
<1>11. echo' \in BOOLEAN BY DEF StrangerMessage
<1>12. QueueOK' BY <1>1, <1>2, QueueLonger, SourceFacts DEF StrangerMessage, DaemonOK
<1> QED BY <1>1, <1>6, <1>7, <1>8, <1>9, <1>10, <1>11, <1>12

LEMMA BaseStep == BaseInv /\ [Next]_vars => BaseInv'
<1> SUFFICES ASSUME BaseInv, [Next]_vars PROVE BaseInv' OBVIOUS
<1>1. ASSUME Confirm PROVE BaseInv'
  BY <1>1, BaseTransmit DEF Confirm
<1>2. ASSUME Retry PROVE BaseInv'
  <2>1. cred \in Requests BY <1>2 DEF Retry, BaseInv, TypeOK, FlipperOK
  <2> QED BY <1>2, <2>1, BaseTransmit DEF Retry
<1> USE DEF BaseInv, TypeOK
<1>3. ASSUME Leave PROVE BaseInv'
  <2>1. FlipperOK' BY <1>3 DEF Leave, FlipperOK
  <2>2. HistoryOK' BY <1>3 DEF Leave, HistoryOK, bounds
  <2>3. OutgoingInv' BY <1>3 DEF Leave, OutgoingInv
  <2> QED BY <1>3, <2>1, <2>2, <2>3, DaemonKept, AnswerKept, StrangerKept, QueueKept
          DEF Leave, daemon
<1>4. ASSUME TimedOut PROVE BaseInv'
  <2>1. FlipperOK' BY <1>4 DEF TimedOut, FlipperOK
  <2>2. HistoryOK' BY <1>4 DEF TimedOut, HistoryOK, bounds
  <2>3. OutgoingInv' BY <1>4 DEF TimedOut, OutgoingInv
  <2> QED BY <1>4, <2>1, <2>2, <2>3, DaemonKept, AnswerKept, StrangerKept, QueueKept
          DEF TimedOut, daemon
<1>5. ASSUME ReadMessage PROVE BaseInv' BY <1>5, BaseRead
<1>6. ASSUME AnswerFails PROVE BaseInv'
  <2>1. DaemonOK' BY <1>6 DEF AnswerFails, DaemonOK
  <2>2. HistoryOK' BY <1>6 DEF AnswerFails, HistoryOK, bounds
  <2>3. Last' = Last BY <1>6 DEF AnswerFails, Last
  <2>4. AnswerInv'
    <3>1. RestOf(<<>>, Last.answer, Daemon)
      <4>1. Len(Last.answer) \in 1 .. 255 BY <1>6, AnswerNext DEF AnswerFails
      <4> QED BY <4>1 DEF RestOf
    <3> QED BY <1>6, <2>3, <3>1 DEF AnswerFails, AnswerInv
  <2>5. OutgoingInv' BY <1>6, OutgoingKept DEF AnswerFails, flipper
  <2> QED BY <1>6, <2>1, <2>2, <2>4, <2>5, FlipperKept, StrangerKept, QueueKept DEF AnswerFails
<1>7. ASSUME Answered PROVE BaseInv'
  <2>1. DaemonOK' BY <1>7 DEF Answered, DaemonOK
  <2>2. AnswerInv' BY <1>7 DEF Answered, AnswerInv, history
  <2>3. OutgoingInv' BY <1>7, OutgoingKept DEF Answered, flipper, history
  <2> QED BY <1>7, <2>1, <2>2, <2>3, FlipperKept, HistoryKept, StrangerKept, QueueKept
          DEF Answered, history
<1>8. ASSUME EndRollback PROVE BaseInv'
  <2>1. DaemonOK' BY <1>8 DEF EndRollback, DaemonOK
  <2>2. AnswerInv' BY <1>8 DEF EndRollback, AnswerInv, history
  <2>3. OutgoingInv' BY <1>8, OutgoingKept DEF EndRollback, flipper, history
  <2> QED BY <1>8, <2>1, <2>2, <2>3, FlipperKept, HistoryKept, StrangerKept, QueueKept
          DEF EndRollback, history
<1>9. ASSUME NEW joined \in BOOLEAN, NEW addressed \in BOOLEAN, EndJoin(joined, addressed)
      PROVE BaseInv'
  BY <1>9, BaseEndJoin
<1>10. ASSUME NEW miss \in Receivers, SendMessage(miss) PROVE BaseInv' BY <1>10, BaseSend
<1>11. ASSUME NEW miss \in Receivers, AnswerMessage(miss) PROVE BaseInv' BY <1>11, BaseAnswer
<1>12. ASSUME NEW miss \in Receivers, StrangerMessage(miss) PROVE BaseInv' BY <1>12, BaseStranger
<1>13. ASSUME StrangerTransmits PROVE BaseInv'
  <2>1. PICK text \in Requests : stranger' = Burst(text, Stranger)
    BY <1>13 DEF StrangerTransmits
  <2>2. stranger' \in Seq(Message) BY <2>1, RestWhole, SourceFacts
  <2>3. StrangerInv'
    <3>1. \A i \in DOMAIN Burst(text, Stranger) : Burst(text, Stranger)[i].src = Stranger
      BY BurstSource, SourceFacts
    <3> QED BY <2>1, <3>1 DEF StrangerInv
  <2>4. HistoryOK' BY <1>13 DEF StrangerTransmits, HistoryOK, history
  <2> QED BY <1>13, <2>2, <2>3, <2>4, FlipperKept, DaemonKept, OutgoingKept, AnswerKept, QueueKept
          DEF StrangerTransmits, flipper, daemon, history
<1>14. ASSUME Tick PROVE BaseInv'
  <2>1. wait' \in 0 .. AckTimeout
    BY <1>14, AckRoundAssumption DEF Tick, FlipperOK
  <2>2. fage' \in Nat /\ dage' \in Nat BY <1>14, OlderFacts DEF Tick, FlipperOK, DaemonOK
  <2>3. left' \in Nat BY <1>14 DEF Tick, DaemonOK
  <2>4. FlipperOK' BY <1>14, <2>1, <2>2 DEF Tick, FlipperOK
  <2>5. DaemonOK' BY <1>14, <2>2, <2>3 DEF Tick, DaemonOK
  <2> QED BY <1>14, <2>4, <2>5, HistoryKept, OutgoingKept, AnswerKept, StrangerKept, QueueKept
          DEF Tick, history
<1>15. ASSUME UNCHANGED vars PROVE BaseInv'
  BY <1>15, FlipperKept, DaemonKept, HistoryKept, OutgoingKept, AnswerKept, StrangerKept, QueueKept
     DEF vars, flipper, daemon, history
<1> QED BY <1>1, <1>2, <1>3, <1>4, <1>5, <1>6, <1>7, <1>8, <1>9, <1>10, <1>11, <1>12, <1>13,
           <1>14, <1>15 DEF Next
-----------------------------------------------------------------------------
(* No transmission is served twice.                                        *)

\* What is past stays past.
LEMMA PastStep ==
  ASSUME BaseInv, [Next]_vars
  PROVE  \A src \in Sources : Past(src, attempt, outgoing) => Past(src, attempt', outgoing')
<1>1. \/ attempt' = attempt + 1
      \/ attempt' = attempt /\ (outgoing # <<>> \/ outgoing' = outgoing \/ outgoing' = <<>>)
  BY DEF Next, vars, flipper, daemon, history, Confirm, Retry, Transmit, Leave, TimedOut, ReadMessage,
     AnswerFails, Answered, EndRollback, EndJoin, SendMessage, AnswerMessage, StrangerMessage,
     StrangerTransmits, Tick
<1>2. attempt \in Nat BY DEF BaseInv, TypeOK, HistoryOK
<1>3. \A src \in Sources : src.who = "flipper" => src.n \in Nat BY SourceFacts
<1> QED BY <1>1, <1>2, <1>3 DEF Past

\* What BaseInv says of the places where an END may be.
LEMMA Places ==
  ASSUME BaseInv
  PROVE  /\ queue \in Seq(Message) /\ \A i \in DOMAIN queue : queue[i].src \in Sources
         /\ job.src \in Sources
         /\ served \in Seq(Service) /\ \A k \in DOMAIN served : served[k].src \in Sources
<1>1. queue \in Seq(Message) /\ job \in Jobs /\ served \in Seq(Service)
  BY DEF BaseInv, TypeOK, DaemonOK, HistoryOK
<1>2. \A i \in DOMAIN queue : queue[i] \in Message BY <1>1
<1>3. \A k \in DOMAIN served : served[k] \in Service BY <1>1
<1>4. \A m \in Message : m.src \in Sources BY DEF Message
<1>5. \A s \in Service : s.src \in Sources BY DEF Service
<1>6. job.src \in Sources BY <1>1 DEF Jobs
<1> QED BY <1>1, <1>2, <1>3, <1>4, <1>5, <1>6

\* Steps that move no END of a transmission.
LEMMA OnceKept ==
  ASSUME BaseInv, OnceInv, served' = served,
         \A src \in Sources : Past(src, attempt, outgoing) => Past(src, attempt', outgoing'),
         \A i \in DOMAIN queue' : EndAt(i)' => i \in DOMAIN queue /\ queue'[i] = queue[i],
         doing' = "joining" => doing = "joining" /\ job' = job
  PROVE  OnceInv'
<1>1. \A i \in DOMAIN queue' : EndAt(i)' =>
        i \in DOMAIN queue /\ queue'[i] = queue[i] /\ EndAt(i)
  BY DEF EndAt
<1>2. \A i \in DOMAIN queue' : EndAt(i)' =>
       /\ Past(queue'[i].src, attempt', outgoing')
       /\ \A j \in DOMAIN queue' : EndAt(j)' /\ queue'[j].src = queue'[i].src => i = j
       /\ doing' = "joining" => job'.src # queue'[i].src
       /\ \A k \in DOMAIN served' : served'[k].src # queue'[i].src
  BY <1>1, Places DEF OnceInv
<1>3. doing' = "joining" /\ job'.src.who = "flipper" =>
        Past(job'.src, attempt', outgoing') /\ \A k \in DOMAIN served' : served'[k].src # job'.src
  BY Places DEF OnceInv
<1>4. \A k \in DOMAIN served' : Past(served'[k].src, attempt', outgoing')
  BY Places DEF OnceInv
<1>5. ServedOnce' BY DEF OnceInv, ServedOnce
<1> QED BY <1>2, <1>3, <1>4, <1>5 DEF OnceInv

LEMMA OnceSend ==
  ASSUME BaseInv, OnceInv, NEW miss \in Receivers, SendMessage(miss),
         \A src \in Sources : Past(src, attempt, outgoing) => Past(src, attempt', outgoing')
  PROVE  OnceInv'
<1> DEFINE m == Head(outgoing)
<1>1. /\ m \in Message /\ m.src = Attempt(attempt) /\ outgoing # <<>>
      /\ outgoing' = Tail(outgoing) /\ (m.type = "END" => outgoing' = <<>>)
  BY OutgoingNext DEF SendMessage, BaseInv
<1>2. queue' = queue \/ queue' = Append(queue, m)
  BY <1>1, Places, QueueFacts DEF SendMessage
<1>3. UNCHANGED <<doing, job, attempt, served>> BY DEF SendMessage, history
<1>4. CASE m.type # "END" \/ queue' = queue
  <2>1. \A i \in DOMAIN queue' : EndAt(i)' => i \in DOMAIN queue /\ queue'[i] = queue[i]
    BY <1>2, <1>4, Places DEF EndAt
  <2> QED BY <1>3, <2>1, OnceKept
<1>5. CASE m.type = "END" /\ queue' = Append(queue, m)
  <2>1. /\ Len(queue) \in Nat /\ Len(queue') = Len(queue) + 1 /\ queue'[Len(queue) + 1] = m
        /\ \A i \in DOMAIN queue' :
             i = Len(queue) + 1 \/ (i \in DOMAIN queue /\ queue'[i] = queue[i])
    BY <1>1, <1>5, Places
  <2>2. attempt \in Nat /\ attempt' = attempt /\ outgoing' = <<>>
    BY <1>1, <1>3, <1>5 DEF BaseInv, TypeOK, HistoryOK
  <2>3. \A src \in Sources : Past(src, attempt, outgoing) => src # m.src
    BY <1>1, <2>2, SourceFacts DEF Past
  <2>4. m.src \in Sources /\ Past(m.src, attempt', outgoing')
    BY <1>1, <2>2, SourceFacts DEF Past
  <2>5. \A i \in DOMAIN queue : EndAt(i) => queue[i].src # m.src
    BY <2>3, Places DEF OnceInv
  <2>6. \A k \in DOMAIN served : served[k].src # m.src
    BY <2>3, Places DEF OnceInv
  <2>7. doing = "joining" => job.src # m.src
    <3>1. m.src.who = "flipper" BY <1>1, <2>2, SourceFacts
    <3> QED BY <2>3, <3>1, Places DEF OnceInv
  <2>8. \A i \in DOMAIN queue' : EndAt(i)' =>
          \/ i = Len(queue) + 1 /\ queue'[i] = m
          \/ i \in DOMAIN queue /\ queue'[i] = queue[i] /\ EndAt(i)
    BY <2>1 DEF EndAt
  <2>9. \A i \in DOMAIN queue' : EndAt(i)' => Past(queue'[i].src, attempt', outgoing')
    BY <2>4, <2>8, Places DEF OnceInv
  <2>10. \A i, j \in DOMAIN queue' : EndAt(i)' /\ EndAt(j)' /\ queue'[j].src = queue'[i].src => i = j
    BY <2>5, <2>8 DEF OnceInv
  <2>11. \A i \in DOMAIN queue' : EndAt(i)' =>
           /\ doing' = "joining" => job'.src # queue'[i].src
           /\ \A k \in DOMAIN served' : served'[k].src # queue'[i].src
    BY <1>3, <2>6, <2>7, <2>8 DEF OnceInv
  <2>12. doing' = "joining" /\ job'.src.who = "flipper" =>
           Past(job'.src, attempt', outgoing') /\ \A k \in DOMAIN served' : served'[k].src # job'.src
    BY <1>3, Places DEF OnceInv
  <2>13. \A k \in DOMAIN served' : Past(served'[k].src, attempt', outgoing')
    BY <1>3, Places DEF OnceInv
  <2>14. ServedOnce' BY <1>3 DEF OnceInv, ServedOnce
  <2> QED BY <2>9, <2>10, <2>11, <2>12, <2>13, <2>14 DEF OnceInv
<1> QED BY <1>2, <1>4, <1>5

LEMMA OnceRead ==
  ASSUME BaseInv, OnceInv, ReadMessage
  PROVE  OnceInv'
<1> DEFINE m == Head(queue)
<1>1. /\ m \in Message /\ queue' = Tail(queue) /\ m = queue[1] /\ 1 \in DOMAIN queue
      /\ \A i \in DOMAIN queue' : i + 1 \in DOMAIN queue /\ queue'[i] = queue[i + 1] /\ i \in Nat /\ i > 0
  BY Places DEF ReadMessage
<1>2. UNCHANGED <<served, attempt, outgoing>> BY DEF ReadMessage, flipper, history
<1>3. \A i \in DOMAIN queue' : EndAt(i)' => EndAt(i + 1)
  BY <1>1 DEF EndAt
<1>4. doing' = "joining" => m.type = "END" /\ job'.src = m.src
  <2> SUFFICES ASSUME doing' = "joining" PROVE m.type = "END" /\ job'.src = m.src OBVIOUS
  <2>1. Completed(ddec, dage, m) /\ job' = [text |-> ddec.buf, src |-> m.src]
    BY DEF ReadMessage
  <2>2. ddec \in Decoder /\ dage \in Nat BY DEF BaseInv, TypeOK, DaemonOK
  <2> QED BY <1>1, <2>1, <2>2, FedFacts
<1>5. m.type = "END" /\ m.src.who = "flipper" => EndAt(1)
  BY <1>1 DEF EndAt
<1>6. \A i \in DOMAIN queue' : EndAt(i)' =>
        /\ Past(queue'[i].src, attempt', outgoing')
        /\ \A k \in DOMAIN served' : served'[k].src # queue'[i].src
  BY <1>1, <1>2, <1>3 DEF OnceInv
<1>7. ASSUME NEW i \in DOMAIN queue', EndAt(i)', NEW j \in DOMAIN queue', EndAt(j)',
             queue'[j].src = queue'[i].src
      PROVE  i = j
  <2>1. EndAt(i + 1) /\ EndAt(j + 1) /\ i + 1 \in DOMAIN queue /\ j + 1 \in DOMAIN queue
        /\ queue[i + 1].src = queue[j + 1].src /\ i \in Nat /\ j \in Nat
    BY <1>1, <1>3, <1>7
  <2>2. i + 1 = j + 1 BY <2>1 DEF OnceInv
  <2> QED BY <2>1, <2>2
<1>8. ASSUME NEW i \in DOMAIN queue', EndAt(i)', doing' = "joining" PROVE job'.src # queue'[i].src
  <2> SUFFICES ASSUME m.src = queue[i + 1].src PROVE FALSE BY <1>1, <1>4, <1>8
  <2>1. EndAt(i + 1) /\ i + 1 \in DOMAIN queue /\ i \in Nat /\ i > 0 BY <1>1, <1>3, <1>8
  <2>2. m.src.who = "flipper" BY <2>1 DEF EndAt
  <2>3. EndAt(1) BY <1>4, <1>5, <1>8, <2>2
  <2>4. i + 1 = 1 BY <1>1, <2>1, <2>3 DEF OnceInv
  <2> QED BY <2>1, <2>4
<1>9. doing' = "joining" /\ job'.src.who = "flipper" =>
        Past(job'.src, attempt', outgoing') /\ \A k \in DOMAIN served' : served'[k].src # job'.src
  BY <1>1, <1>2, <1>4, <1>5 DEF OnceInv
<1>10. \A k \in DOMAIN served' : Past(served'[k].src, attempt', outgoing')
  BY <1>2 DEF OnceInv
<1>11. ServedOnce' BY <1>2 DEF OnceInv, ServedOnce
<1> QED BY <1>6, <1>7, <1>8, <1>9, <1>10, <1>11 DEF OnceInv

LEMMA OnceEndJoin ==
  ASSUME BaseInv, OnceInv, NEW joined \in BOOLEAN, NEW addressed \in BOOLEAN,
         EndJoin(joined, addressed)
  PROVE  OnceInv'
<1>1. /\ doing = "joining" /\ doing' = "answering" /\ queue' = queue
      /\ attempt' = attempt /\ outgoing' = outgoing
  BY DEF EndJoin, flipper
<1>2. \A k \in DOMAIN served' :
        \/ k \in DOMAIN served /\ served'[k] = served[k]
        \/ k = Len(served') /\ served'[k].src = job.src
  BY BaseEndJoin
<1>3. \A i \in DOMAIN queue' : EndAt(i)' <=> EndAt(i) BY <1>1 DEF EndAt
<1>4. \A k \in DOMAIN served' : Past(served'[k].src, attempt', outgoing')
  <2>1. Past(job.src, attempt, outgoing) BY <1>1 DEF OnceInv, Past
  <2> QED BY <1>1, <1>2, <2>1 DEF OnceInv
<1>5. \A i \in DOMAIN queue' : EndAt(i)' =>
       /\ Past(queue'[i].src, attempt', outgoing')
       /\ \A j \in DOMAIN queue' : EndAt(j)' /\ queue'[j].src = queue'[i].src => i = j
       /\ \A k \in DOMAIN served' : served'[k].src # queue'[i].src
  BY <1>1, <1>2, <1>3 DEF OnceInv
<1>6. ServedOnce'
  <2> SUFFICES ASSUME NEW k \in DOMAIN served', NEW l \in DOMAIN served',
                      served'[k].src = served'[l].src, k # l, served'[k].src.who = "flipper"
               PROVE  FALSE
    BY DEF ServedOnce
  <2>1. CASE k \in DOMAIN served /\ served'[k] = served[k] /\ l \in DOMAIN served /\ served'[l] = served[l]
    BY <2>1 DEF OnceInv, ServedOnce
  <2>2. ASSUME NEW o \in DOMAIN served, served[o].src = job.src, job.src.who = "flipper" PROVE FALSE
    BY <1>1, <2>2 DEF OnceInv
  <2> QED BY <1>2, <2>1, <2>2
<1> QED BY <1>1, <1>4, <1>5, <1>6 DEF OnceInv

LEMMA OnceStep == BaseInv /\ OnceInv /\ [Next]_vars => OnceInv'
<1> SUFFICES ASSUME BaseInv, OnceInv, [Next]_vars PROVE OnceInv' OBVIOUS
<1>0. \A src \in Sources : Past(src, attempt, outgoing) => Past(src, attempt', outgoing')
  BY PastStep
<1>1. ASSUME NEW joined \in BOOLEAN, NEW addressed \in BOOLEAN, EndJoin(joined, addressed)
      PROVE  OnceInv'
  BY <1>1, OnceEndJoin
<1>2. ASSUME NEW miss \in Receivers, SendMessage(miss) PROVE OnceInv' BY <1>0, <1>2, OnceSend
<1>3. ASSUME ReadMessage PROVE OnceInv' BY <1>3, OnceRead
<1>4. ASSUME NEW miss \in Receivers, AnswerMessage(miss) \/ StrangerMessage(miss) PROVE OnceInv'
  <2>1. PICK m \in Message, heard \in Receivers : m.src.who # "flipper" /\ ReachesDaemon(m, heard)
    <3>1. CASE AnswerMessage(miss)
      <4>1. Head(answer) \in Message /\ Head(answer).src = Daemon
        BY <3>1, AnswerNext DEF AnswerMessage, BaseInv
      <4>2. (IF echo THEN miss ELSE {"daemon"}) \in Receivers BY DEF Receivers
      <4> QED BY <3>1, <4>1, <4>2, SourceFacts DEF AnswerMessage
    <3>2. CASE StrangerMessage(miss)
      <4>1. Head(stranger) \in Message /\ Head(stranger).src = Stranger
        BY <3>2 DEF StrangerMessage, BaseInv, TypeOK, StrangerInv
      <4> QED BY <3>2, <4>1, SourceFacts DEF StrangerMessage
    <3> QED BY <1>4, <3>1, <3>2
  <2>2. queue' = queue \/ queue' = Append(queue, m) BY <2>1, Places, QueueFacts
  <2>3. \A i \in DOMAIN queue' : EndAt(i)' => i \in DOMAIN queue /\ queue'[i] = queue[i]
    BY <2>1, <2>2, Places DEF EndAt
  <2> QED BY <1>0, <1>4, <2>3, OnceKept DEF AnswerMessage, StrangerMessage
<1>5. CASE UNCHANGED <<served, queue>> /\ (doing' = "joining" => doing = "joining" /\ job' = job)
  BY <1>0, <1>5, OnceKept
<1>6. \/ UNCHANGED <<served, queue>> /\ (doing' = "joining" => doing = "joining" /\ job' = job)
      \/ ReadMessage
      \/ \E joined, addressed \in BOOLEAN : EndJoin(joined, addressed)
      \/ \E miss \in Receivers : SendMessage(miss) \/ AnswerMessage(miss) \/ StrangerMessage(miss)
  BY DEF Next, vars, flipper, daemon, history, Confirm, Retry, Transmit, Leave, TimedOut,
     AnswerFails, Answered, EndRollback, StrangerTransmits, Tick
<1> QED BY <1>1, <1>2, <1>3, <1>4, <1>5, <1>6
-----------------------------------------------------------------------------
(* An answer that arrives whole is shown.                                  *)

\* The three parts of CleanInv.
AgeInv == screen = "waiting" => fage \leq wait
ClearInv == told = "clean" =>
  /\ doing = "answering" /\ screen = "waiting" /\ answer # <<>>
  /\ Last.src = Attempt(attempt)
  /\ Sent > 0 => fdec = [open |-> TRUE, len |-> Len(Last.answer),
                         buf |-> SubSeq(Last.answer, 1, Sent - 1)]
WholeInv == told = "whole" =>
  \E k \in DOMAIN served :
    served[k].src = Attempt(attempt) /\ screen = Verdict(served[k].answer)

LEMMA CleanParts == CleanInv <=> AgeInv /\ ClearInv /\ WholeInv
BY DEF CleanInv, AgeInv, ClearInv, WholeInv

LEMMA AgeStep == BaseInv /\ AgeInv /\ [Next]_vars => AgeInv'
<1> SUFFICES ASSUME BaseInv, AgeInv, [Next]_vars PROVE AgeInv' OBVIOUS
<1>0. fage \in Nat /\ wait \in Nat BY AckRoundAssumption DEF BaseInv, TypeOK, FlipperOK
<1>1. CASE screen' = "waiting" => screen = "waiting" /\ UNCHANGED <<fage, wait>>
  BY <1>1 DEF AgeInv
<1>2. ASSUME NEW miss \in Receivers, SendMessage(miss) PROVE AgeInv'
  BY <1>2 DEF SendMessage, StartListening, AgeInv
<1>3. ASSUME NEW m, NEW miss, ReachesFlipper(m, miss), wait' = wait PROVE AgeInv'
  BY <1>0, <1>3 DEF ReachesFlipper, AgeFed, AgeInv
<1>4. ASSUME Tick PROVE AgeInv'
  <2>1. fage' \leq fage + 1 BY <1>0, <1>4, OlderFacts DEF Tick
  <2>2. fage' \in Nat BY <1>0, <1>4, OlderFacts DEF Tick
  <2> QED BY <1>0, <1>4, <2>1, <2>2 DEF Tick, AgeInv
<1>5. \/ screen' = "waiting" => screen = "waiting" /\ UNCHANGED <<fage, wait>>
      \/ \E miss \in Receivers : SendMessage(miss) \/ AnswerMessage(miss) \/ StrangerMessage(miss)
      \/ Tick
  BY DEF Next, vars, flipper, daemon, history, Confirm, Retry, Transmit, Leave, TimedOut,
     ReadMessage, EndJoin, AnswerFails, Answered, EndRollback, StrangerTransmits
<1> QED BY <1>1, <1>2, <1>3, <1>4, <1>5 DEF AnswerMessage, StrangerMessage

LEMMA VerdictFacts == \A text : Verdict(text) \in {"connected", "refused"}
BY DEF Verdict

LEMMA WholeStep ==
  ASSUME BaseInv, WholeInv, [Next]_vars, told' = told
  PROVE  WholeInv'
<1> SUFFICES ASSUME told = "whole" PROVE WholeInv' BY DEF WholeInv
<1>1. PICK k \in DOMAIN served : served[k].src = Attempt(attempt) /\ screen = Verdict(served[k].answer)
  BY DEF WholeInv
<1>2. screen \in {"connected", "refused"} BY <1>1, VerdictFacts
<1>3. attempt' = attempt /\ screen' = screen
  BY <1>2 DEF Next, vars, flipper, daemon, history, Confirm, Retry, Transmit, Leave, TimedOut,
     ReadMessage, EndJoin, AnswerFails, Answered, EndRollback, StrangerTransmits, SendMessage,
     AnswerMessage, StrangerMessage, ReachesFlipper, Tick
<1>4. k \in DOMAIN served' /\ served'[k] = served[k]
  <2>1. CASE \E joined, addressed \in BOOLEAN : EndJoin(joined, addressed)
    BY <2>1, BaseEndJoin
  <2>2. CASE served' = served BY <2>2
  <2>3. (\E joined, addressed \in BOOLEAN : EndJoin(joined, addressed)) \/ served' = served
    BY DEF Next, vars, flipper, daemon, history, Confirm, Retry, Transmit, Leave, TimedOut,
     ReadMessage, AnswerFails, Answered, EndRollback, StrangerTransmits, SendMessage,
     AnswerMessage, StrangerMessage, Tick
  <2> QED BY <2>1, <2>2, <2>3
<1> QED BY <1>1, <1>3, <1>4 DEF WholeInv, Attempt

\* A message of an answer that was clean so far.
LEMMA ClearAnswer ==
  ASSUME BaseInv, AgeInv, ClearInv, NEW miss \in Receivers, AnswerMessage(miss),
         told = "clean", told' \in {"clean", "whole"}
  PROVE  ClearInv' /\ WholeInv'
<1> DEFINE m == Head(answer)  text == Last.answer
<1>1. /\ screen = "waiting" /\ answer # <<>> /\ doing = "answering" /\ doing' = doing
      /\ Last.src = Attempt(attempt) /\ "flipper" \notin miss /\ wait # AckTimeout
      /\ (told' = "whole" <=> answer' = <<>>)
      /\ answer' = Tail(answer) /\ UNCHANGED <<attempt, served>>
  BY DEF AnswerMessage, ClearInv
<1>2. /\ served # <<>> /\ text \in Answers /\ Len(text) \in 1 .. 255 /\ m \in Message
      /\ Len(Tail(answer)) = Len(answer) - 1 /\ Len(answer) \in Nat
      /\ Sent \in 0 .. Len(text) + 1
      /\ Sent = 0 => m.type = "START" /\ m.cmd = Len(text)
      /\ Sent \in 1 .. Len(text) => m.type = "DATA" /\ m.cmd = text[Sent]
      /\ Sent = Len(text) + 1 => m.type = "END" /\ m.cmd = Crc(text)
      /\ Tail(answer) = <<>> <=> Sent = Len(text) + 1
  <2>1. TypeOK /\ AnswerInv BY DEF BaseInv
  <2> QED BY <1>1, <2>1, AnswerNext
<1>3. fdec \in Decoder /\ fage \in Nat /\ fage < Timeout
  BY <1>1, AckRoundAssumption, TimeoutAssumption DEF BaseInv, TypeOK, FlipperOK, AgeInv
<1>4. Sent > 0 => fdec = [open |-> TRUE, len |-> Len(text), buf |-> SubSeq(text, 1, Sent - 1)]
  BY DEF ClearInv
<1>5. /\ fdec' = Fed(fdec, fage, m)
      /\ screen' = IF Completed(fdec, fage, m) THEN Verdict(fdec.buf) ELSE screen
  BY <1>1 DEF AnswerMessage, ReachesFlipper
<1>6. Last' = Last BY <1>1 DEF Last
<1>7. Sent' = Sent + 1
  <2>1. Sent' = Len(Last'.answer) + 2 - Len(answer') BY DEF Sent
  <2>2. Sent = Len(Last.answer) + 2 - Len(answer) BY DEF Sent
  <2>3. Len(answer') = Len(answer) - 1 BY <1>1, <1>2
  <2> QED BY <1>2, <1>6, <2>1, <2>2, <2>3
<1>8. /\ Sent \leq Len(text) =>
           /\ Fed(fdec, fage, m) = [open |-> TRUE, len |-> Len(text), buf |-> SubSeq(text, 1, Sent)]
           /\ ~Completed(fdec, fage, m)
      /\ Sent = Len(text) + 1 => Completed(fdec, fage, m) /\ fdec.buf = text
  <2>1. PICK sent \in 0 .. Len(text) + 1 : sent = Sent BY <1>2
  <2> HIDE DEF text, m
  <2> QED BY <1>2, <1>3, <1>4, <2>1, WholeFacts
<1>9. CASE answer' = <<>>
  <2>1. screen' = Verdict(Last.answer) BY <1>1, <1>2, <1>5, <1>8, <1>9
  <2>2. Len(served) \in DOMAIN served
    BY <1>2, Places
  <2>3. \E k \in DOMAIN served : served[k].src = Attempt(attempt) /\ screen' = Verdict(served[k].answer)
    BY <1>1, <2>1, <2>2 DEF Last
  <2> QED BY <1>1, <1>9, <2>3 DEF ClearInv, WholeInv, Attempt
<1>10. CASE answer' # <<>>
  <2>1. Sent \leq Len(text) BY <1>1, <1>2, <1>10
  <2>2. screen' = "waiting" BY <1>1, <1>5, <1>8, <2>1
  <2>3. (Sent + 1) - 1 = Sent BY <1>2
  <2>4. fdec' = [open |-> TRUE, len |-> Len(Last'.answer), buf |-> SubSeq(Last'.answer, 1, Sent' - 1)]
    BY <1>5, <1>6, <1>7, <1>8, <2>1, <2>3
  <2>5. Last'.src = Attempt(attempt') BY <1>1, <1>6
  <2> QED BY <1>1, <1>10, <2>2, <2>4, <2>5 DEF ClearInv, WholeInv
<1> QED BY <1>9, <1>10

LEMMA ClearKept ==
  ClearInv /\ UNCHANGED <<told, doing, screen, answer, served, attempt, fdec>> => ClearInv'
BY DEF ClearInv, Last, Sent, Attempt

LEMMA CleanStep == BaseInv /\ CleanInv /\ [Next]_vars => CleanInv'
<1> SUFFICES ASSUME BaseInv, CleanInv, [Next]_vars PROVE CleanInv' OBVIOUS
<1>0. AgeInv /\ ClearInv /\ WholeInv /\ AgeInv' BY CleanParts, AgeStep
<1> SUFFICES ClearInv' /\ WholeInv' BY <1>0 DEF CleanInv, AgeInv, ClearInv, WholeInv
<1>1. CASE told' \in {"none", "spoilt"}
  BY <1>1 DEF ClearInv, WholeInv
<1>2. ASSUME NEW joined \in BOOLEAN, NEW addressed \in BOOLEAN, EndJoin(joined, addressed)
      PROVE  ClearInv' /\ WholeInv'
  <2>1. told # "clean" BY <1>0, <1>2 DEF EndJoin, ClearInv
  <2>2. CASE told' = told BY <1>0, <2>1, <2>2, WholeStep DEF ClearInv
  <2>3. CASE told' = "clean" /\ screen = "waiting" /\ job.src = Attempt(attempt)
    <3>1. Last'.src = job.src /\ Sent' = 0 BY <1>2, BaseEndJoin
    <3>2. doing' = "answering" /\ screen' = screen /\ attempt' = attempt
      BY <1>2 DEF EndJoin, flipper
    <3>3. answer' # <<>>
      <4>1. AnswerText(joined, addressed) \in Requests \cup Answers BY DEF AnswerText, Answers
      <4> QED BY <1>2, <4>1, RestWhole, SourceFacts DEF EndJoin
    <3> QED BY <2>3, <3>1, <3>2, <3>3 DEF ClearInv, WholeInv, Attempt
  <2> QED BY <1>2, <2>2, <2>3 DEF EndJoin
<1>3. ASSUME NEW miss \in Receivers, AnswerMessage(miss) PROVE ClearInv' /\ WholeInv'
  <2>1. CASE told = "clean" /\ told' \in {"clean", "whole"}
    BY <1>0, <1>3, <2>1, ClearAnswer
  <2>2. CASE told # "clean"
    <3>1. told' = told BY <1>3, <2>2 DEF AnswerMessage
    <3> QED BY <1>0, <2>2, <3>1, WholeStep DEF ClearInv
  <2> QED BY <1>1, <1>3, <2>1, <2>2 DEF AnswerMessage
<1>4. CASE told' = told /\ told # "clean"
  BY <1>0, <1>4, WholeStep DEF ClearInv
<1>5. CASE told' = told /\ told = "clean" /\ UNCHANGED <<doing, screen, answer, served, attempt, fdec>>
  BY <1>0, <1>5, ClearKept, WholeStep
<1>6. \/ told' \in {"none", "spoilt"}
      \/ \E joined, addressed \in BOOLEAN : EndJoin(joined, addressed)
      \/ \E miss \in Receivers : AnswerMessage(miss)
      \/ told' = told /\ told # "clean"
      \/ told' = told /\ UNCHANGED <<doing, screen, answer, served, attempt, fdec>>
  <2>1. told = "clean" => doing = "answering" /\ screen = "waiting" /\ answer # <<>>
    BY <1>0 DEF ClearInv
  <2> QED BY <2>1 DEF Next, vars, flipper, daemon, history, Confirm, Retry, Transmit, Leave, TimedOut,
     ReadMessage, AnswerFails, Answered, EndRollback, StrangerTransmits, SendMessage,
     StrangerMessage, Tick
<1> QED BY <1>1, <1>2, <1>3, <1>4, <1>5, <1>6
-----------------------------------------------------------------------------
(* A patient user is told what the daemon answered.                        *)

Patient == ~hasty /\ strangers = 0

\* The parts of PatientInv: what is on its way to the daemon's decoder, the
\* request under way, what the Flipper heard, and its screen.
QueuedInv ==
  \A i \in DOMAIN queue :
    /\ queue[i].src # Stranger
    /\ EndAt(i) => /\ queue[i].src = Attempt(attempt) /\ i = Len(queue)
                   /\ doing \notin {"joining", "answering"}
    /\ queue[i].src = Daemon =>
         NoW(ddec.buf) /\ \A j \in 1 .. i : queue[j].src = Daemon
JobInv ==
  doing \in {"joining", "answering"} =>
    /\ job.src = Attempt(attempt) /\ outgoing = <<>> /\ ddec = Idle
    /\ \A i \in DOMAIN queue : queue[i].src = Daemon
HeardInv ==
  screen = "waiting" =>
    /\ Unserved => ~fdec.open
    /\ doing = "answering" => HeardOf(fdec, Last.answer, Sent)

LEMMA PatientParts ==
  PatientInv <=> stranger = <<>> /\ QueuedInv /\ JobInv /\ HeardInv /\ ResultIsTrue
BY DEF PatientInv, QueuedInv, JobInv, HeardInv

\* Patience was never lost before.
LEMMA PatientBefore == BaseInv /\ [Next]_vars /\ Patient' => Patient /\ ~StrangerTransmits
<1> SUFFICES ASSUME BaseInv, [Next]_vars, Patient' PROVE Patient /\ ~StrangerTransmits OBVIOUS
<1>1. strangers \in Nat /\ hasty \in BOOLEAN BY DEF BaseInv, TypeOK, HistoryOK
<1>2. ~StrangerTransmits BY <1>1 DEF StrangerTransmits, Patient
<1>3. strangers' = strangers
  BY <1>2 DEF Next, vars, flipper, daemon, history, bounds, Confirm, Retry, Transmit, Leave, TimedOut,
     ReadMessage, EndJoin, AnswerFails, Answered, EndRollback, SendMessage, AnswerMessage,
     StrangerMessage, Tick
<1>4. hasty' = hasty \/ hasty' = (hasty \/ Outstanding)
  BY DEF Next, vars, flipper, daemon, history, bounds, Confirm, Retry, Transmit, Leave, TimedOut,
     ReadMessage, EndJoin, AnswerFails, Answered, EndRollback, SendMessage, AnswerMessage,
     StrangerMessage, StrangerTransmits, Tick
<1> QED BY <1>1, <1>2, <1>3, <1>4 DEF Patient

LEMMA QueuedKept ==
  QueuedInv /\ UNCHANGED <<queue, ddec, attempt, doing>> => QueuedInv'
BY DEF QueuedInv, EndAt, NoW, Attempt, Daemon, Stranger

LEMMA JobKept ==
  JobInv /\ UNCHANGED <<queue, ddec, attempt, doing, job, outgoing>> => JobInv'
BY DEF JobInv, Attempt, Daemon

LEMMA HeardKept ==
  HeardInv /\ UNCHANGED <<screen, fdec, doing, served, answer, attempt>> => HeardInv'
BY DEF HeardInv, HeardOf, Unserved, Last, Sent, Attempt

LEMMA ResultKept ==
  ResultIsTrue /\ UNCHANGED <<screen, served, attempt>> => ResultIsTrue'
BY DEF ResultIsTrue, Attempt, Verdict

LEMMA PatientTransmit ==
  ASSUME BaseInv, PatientInv, NEW text \in Requests, Transmit(text), Patient'
  PROVE  PatientInv'
<1>0. stranger = <<>> /\ QueuedInv /\ JobInv BY PatientParts
<1>1. ~Outstanding BY DEF Transmit, Patient, BaseInv, TypeOK, HistoryOK
<1>2. doing \notin {"joining", "answering"} /\ \A i \in DOMAIN queue : ~EndAt(i)
  <2>1. Daemon.who # "flipper" BY SourceFacts
  <2> QED BY <1>1, <2>1 DEF Outstanding, EndAt
<1>3. UNCHANGED <<doing, job, queue, ddec, stranger>> BY DEF Transmit, daemon
<1>4. QueuedInv' BY <1>0, <1>2, <1>3 DEF QueuedInv, EndAt, NoW, Daemon, Stranger
<1>5. JobInv' BY <1>2, <1>3 DEF JobInv
<1>6. HeardInv' /\ ResultIsTrue' BY DEF Transmit, HeardInv, ResultIsTrue
<1> QED BY <1>0, <1>3, <1>4, <1>5, <1>6 DEF PatientInv, QueuedInv, JobInv, HeardInv

LEMMA PatientSend ==
  ASSUME BaseInv, OnceInv, PatientInv, NEW miss \in Receivers, SendMessage(miss)
  PROVE  PatientInv'
<1> DEFINE m == Head(outgoing)
<1>0. stranger = <<>> /\ QueuedInv /\ JobInv /\ HeardInv BY PatientParts
<1>1. /\ m \in Message /\ m.src = Attempt(attempt) /\ outgoing # <<>> /\ screen = "sending"
      /\ attempt \in Nat
  BY OutgoingNext DEF SendMessage, BaseInv, TypeOK, HistoryOK
<1>2. queue' = queue \/ queue' = Append(queue, m)
  BY <1>1, Places, QueueFacts DEF SendMessage
<1>3. UNCHANGED <<doing, job, attempt, served, ddec, stranger, answer>>
  BY DEF SendMessage, history
<1>4. doing \notin {"joining", "answering"} BY <1>0, <1>1 DEF JobInv
<1>5. \A i \in DOMAIN queue : ~EndAt(i)
  <2> SUFFICES ASSUME NEW i \in DOMAIN queue, EndAt(i) PROVE FALSE OBVIOUS
  <2>1. queue[i].src = Attempt(attempt) BY <1>0 DEF QueuedInv
  <2>2. Past(queue[i].src, attempt, outgoing) BY DEF OnceInv
  <2>3. Attempt(attempt).who = "flipper" /\ Attempt(attempt).n = attempt BY <1>1, SourceFacts
  <2> QED BY <1>1, <2>1, <2>2, <2>3 DEF Past
<1>6. m.src # Stranger /\ m.src # Daemon BY <1>1, SourceFacts
<1>7. /\ Len(queue) \in Nat /\ DOMAIN queue = 1 .. Len(queue)
      /\ \A i \in DOMAIN queue' :
           \/ i \in DOMAIN queue /\ queue'[i] = queue[i] /\ \A j \in 1 .. i : queue'[j] = queue[j]
           \/ i = Len(queue') /\ queue'[i] = m
  BY <1>1, <1>2, Places
<1>8. QueuedInv'
  <2> SUFFICES ASSUME NEW i \in DOMAIN queue'
               PROVE  /\ queue'[i].src # Stranger
                      /\ EndAt(i)' => /\ queue'[i].src = Attempt(attempt) /\ i = Len(queue')
                      /\ queue'[i].src = Daemon =>
                           NoW(ddec.buf) /\ \A j \in 1 .. i : queue'[j].src = Daemon
    BY <1>3, <1>4 DEF QueuedInv, NoW, Attempt
  <2>1. CASE i \in DOMAIN queue /\ queue'[i] = queue[i] /\ \A j \in 1 .. i : queue'[j] = queue[j]
    <3>1. ~EndAt(i)' BY <1>5, <2>1 DEF EndAt
    <3> QED BY <1>0, <2>1, <3>1 DEF QueuedInv
  <2>2. CASE i = Len(queue') /\ queue'[i] = m BY <1>1, <1>6, <2>2
  <2> QED BY <1>7, <2>1, <2>2
<1>9. JobInv' BY <1>3, <1>4 DEF JobInv
<1>10. HeardInv' BY <1>1, <1>3, <1>4 DEF SendMessage, StartListening, HeardInv, Idle
<1>11. ResultIsTrue' BY <1>1 DEF SendMessage, StartListening, ResultIsTrue
<1> QED BY <1>0, <1>3, <1>8, <1>9, <1>10, <1>11 DEF PatientInv, QueuedInv, JobInv, HeardInv

LEMMA PatientRead ==
  ASSUME BaseInv, OnceInv, PatientInv, ReadMessage
  PROVE  PatientInv'
<1> DEFINE m == Head(queue)
<1>0. stranger = <<>> /\ QueuedInv /\ JobInv /\ HeardInv /\ ResultIsTrue BY PatientParts
<1>1. /\ m \in Message /\ m = queue[1] /\ 1 \in DOMAIN queue /\ queue # <<>>
      /\ queue' = Tail(queue) /\ queue' \in Seq(Message) /\ Len(queue') = Len(queue) - 1
      /\ Len(queue) \in Nat
      /\ \A i \in DOMAIN queue' : i + 1 \in DOMAIN queue /\ queue'[i] = queue[i + 1] /\ i \in Nat
  BY Places DEF ReadMessage
<1>2. /\ doing = "reading" /\ ddec' = Fed(ddec, dage, m)
      /\ UNCHANGED <<screen, cred, outgoing, fdec, answer, stranger, attempt, served>>
  BY DEF ReadMessage, flipper, history
<1>3. ddec \in Decoder /\ dage \in Nat /\ (ddec.open => ddec.len > 0)
  BY DEF BaseInv, TypeOK, DaemonOK, QueueOK
<1>4. m.src \in Sources /\ m.src # Stranger
  BY <1>0, <1>1, Places DEF QueuedInv
<1>5. HeardInv'
  <2>1. doing' # "answering" BY <1>2 DEF ReadMessage
  <2> QED BY <1>0, <1>2, <2>1 DEF HeardInv, Unserved, Attempt
<1>6. ResultIsTrue' BY <1>0, <1>2, ResultKept
<1>7. CASE m.src = Daemon
  <2>1. NoW(ddec.buf) BY <1>0, <1>1, <1>7 DEF QueuedInv
  <2>2. m.type = "DATA" => m.cmd # 87 BY <1>1, <1>7 DEF BaseInv, QueueOK
  <2>3. NoW(ddec'.buf) BY <1>1, <1>2, <1>3, <2>1, <2>2, FedFacts
  <2>4. ~(Completed(ddec, dage, m) /\ IsRequest(ddec.buf))
    <3> SUFFICES ASSUME Completed(ddec, dage, m) PROVE Head(ddec.buf) # 87
      BY DEF IsRequest
    <3>1. Full(ddec) BY <1>1, <1>3, FedFacts
    <3>2. ddec.buf \in Seq(Byte) /\ Len(ddec.buf) > 0 BY <1>3, <3>1 DEF Full, Decoder
    <3>3. Head(ddec.buf) = ddec.buf[1] /\ 1 \in DOMAIN ddec.buf BY <3>2
    <3> QED BY <2>1, <3>3 DEF NoW
  <2>5. UNCHANGED <<doing, job>> BY <2>4 DEF ReadMessage
  <2>6. QueuedInv'
    <3> SUFFICES ASSUME NEW i \in DOMAIN queue'
                 PROVE  /\ queue'[i].src # Stranger
                        /\ EndAt(i)' => queue'[i].src = Attempt(attempt) /\ i = Len(queue')
                        /\ queue'[i].src = Daemon => \A j \in 1 .. i : queue'[j].src = Daemon
      BY <1>2, <2>3, <2>5 DEF QueuedInv, Attempt
    <3>1. i + 1 \in DOMAIN queue /\ queue'[i] = queue[i + 1] /\ i \in Nat BY <1>1
    <3>2. queue'[i].src # Stranger BY <1>0, <3>1 DEF QueuedInv
    <3>3. EndAt(i)' => EndAt(i + 1) BY <3>1 DEF EndAt
    <3>4. EndAt(i)' => queue'[i].src = Attempt(attempt) /\ i + 1 = Len(queue)
      BY <1>0, <3>1, <3>3 DEF QueuedInv
    <3>5. ASSUME queue'[i].src = Daemon, NEW j \in 1 .. i PROVE queue'[j].src = Daemon
      <4>1. \A k \in 1 .. i + 1 : queue[k].src = Daemon BY <1>0, <3>1, <3>5 DEF QueuedInv
      <4>2. j \in DOMAIN queue' /\ j + 1 \in 1 .. i + 1 BY <1>1, <3>1
      <4>3. queue'[j] = queue[j + 1] BY <1>1, <4>2
      <4> QED BY <4>1, <4>2, <4>3
    <3> QED BY <1>1, <3>1, <3>2, <3>4, <3>5
  <2>7. JobInv' BY <1>2, <2>5 DEF JobInv
  <2> QED BY <1>0, <1>2, <1>5, <1>6, <2>6, <2>7 DEF PatientInv, QueuedInv, JobInv, HeardInv
<1>8. CASE m.src # Daemon
  <2>1. \A i \in DOMAIN queue : queue[i].src # Daemon
    <3> SUFFICES ASSUME NEW i \in DOMAIN queue, queue[i].src = Daemon PROVE FALSE OBVIOUS
    <3>1. \A j \in 1 .. i : queue[j].src = Daemon BY <1>0 DEF QueuedInv
    <3>2. 1 \in 1 .. i BY Places
    <3> QED BY <1>1, <1>8, <3>1, <3>2
  <2>2. m.src.who = "flipper" BY <1>4, <1>8, SourceFacts
  <2>3. ASSUME doing' = "joining"
        PROVE  /\ queue' = <<>> /\ outgoing = <<>> /\ job'.src = Attempt(attempt) /\ ddec' = Idle
    <3>1. Completed(ddec, dage, m) /\ job' = [text |-> ddec.buf, src |-> m.src]
      BY <1>2, <2>3 DEF ReadMessage
    <3>2. m.type = "END" /\ ddec' = Idle BY <1>1, <1>2, <1>3, <3>1, FedFacts
    <3>3. EndAt(1) BY <1>1, <2>2, <3>2 DEF EndAt
    <3>4. m.src = Attempt(attempt) /\ 1 = Len(queue) /\ Past(m.src, attempt, outgoing)
      BY <1>0, <1>1, <3>3 DEF QueuedInv, OnceInv
    <3>5. outgoing = <<>>
      <4>1. attempt \in Nat /\ Attempt(attempt).n = attempt
        BY SourceFacts DEF BaseInv, TypeOK, HistoryOK
      <4> QED BY <2>2, <3>4, <4>1 DEF Past
    <3>6. queue' = <<>>
      <4>1. Len(queue') = 0 BY <1>1, <3>4
      <4> QED BY <1>1, <4>1, EmptySeq
    <3> QED BY <3>1, <3>2, <3>4, <3>5, <3>6
  <2>4. doing' \in {"reading", "joining"} BY <1>2 DEF ReadMessage
  <2>5. QueuedInv'
    <3> SUFFICES ASSUME NEW i \in DOMAIN queue'
                 PROVE  /\ queue'[i].src # Stranger
                        /\ EndAt(i)' => queue'[i].src = Attempt(attempt) /\ i = Len(queue')
                                        /\ doing' \notin {"joining", "answering"}
                        /\ queue'[i].src # Daemon
      BY <1>2 DEF QueuedInv, Attempt
    <3>1. i + 1 \in DOMAIN queue /\ queue'[i] = queue[i + 1] /\ i \in Nat BY <1>1
    <3>2. queue'[i].src # Stranger /\ queue'[i].src # Daemon BY <1>0, <2>1, <3>1 DEF QueuedInv
    <3>3. EndAt(i)' => EndAt(i + 1) BY <3>1 DEF EndAt
    <3>4. EndAt(i)' => queue'[i].src = Attempt(attempt) /\ i + 1 = Len(queue)
      BY <1>0, <3>1, <3>3 DEF QueuedInv
    <3>5. doing' # "joining"
      <4>1. queue' # <<>> BY <1>1
      <4> QED BY <2>3, <4>1
    <3> QED BY <1>1, <2>4, <3>1, <3>2, <3>4, <3>5
  <2>6. JobInv'
    <3> SUFFICES ASSUME doing' = "joining" PROVE JobInv' BY <2>4 DEF JobInv
    <3>1. queue' = <<>> /\ outgoing' = <<>> /\ job'.src = Attempt(attempt') /\ ddec' = Idle
      BY <1>2, <2>3
    <3> QED BY <3>1 DEF JobInv
  <2> QED BY <1>0, <1>2, <1>5, <1>6, <2>5, <2>6 DEF PatientInv, QueuedInv, JobInv, HeardInv
<1> QED BY <1>7, <1>8
LEMMA PatientEndJoin ==
  ASSUME BaseInv, OnceInv, PatientInv, NEW joined \in BOOLEAN, NEW addressed \in BOOLEAN,
         EndJoin(joined, addressed)
  PROVE  PatientInv'
<1>0. stranger = <<>> /\ QueuedInv /\ JobInv /\ HeardInv /\ ResultIsTrue BY PatientParts
<1>1. /\ doing = "joining" /\ doing' = "answering"
      /\ UNCHANGED <<screen, cred, outgoing, fdec, job, queue, ddec, stranger, attempt>>
  BY DEF EndJoin, flipper
<1>2. /\ \A k \in DOMAIN served : k \in DOMAIN served' /\ served'[k] = served[k]
      /\ Last'.src = job.src /\ Sent' = 0 /\ Len(served') \in DOMAIN served'
  BY BaseEndJoin
<1>3. job.src = Attempt(attempt) /\ job.src.who = "flipper"
  BY <1>0, <1>1, SourceFacts DEF JobInv, BaseInv, TypeOK, HistoryOK
<1>4. Unserved BY <1>1, <1>3 DEF OnceInv, Unserved
<1>5. QueuedInv' BY <1>0, <1>1 DEF QueuedInv, EndAt, NoW, Attempt, Daemon, Stranger
<1>6. JobInv' BY <1>0, <1>1 DEF JobInv, Attempt, Daemon
<1>7. HeardInv'
  <2>1. ~Unserved'
    <3>1. served'[Len(served')].src = Attempt(attempt') BY <1>1, <1>2, <1>3 DEF Last
    <3> QED BY <1>2, <3>1 DEF Unserved
  <2>2. screen = "waiting" => ~fdec'.open BY <1>0, <1>1, <1>4 DEF HeardInv
  <2>3. screen = "waiting" => HeardOf(fdec', Last'.answer, Sent') BY <2>2 DEF HeardOf
  <2> QED BY <1>1, <2>1, <2>3 DEF HeardInv
<1>8. ResultIsTrue' BY <1>0, <1>1, <1>2 DEF ResultIsTrue, Attempt, Verdict
<1> QED BY <1>0, <1>1, <1>5, <1>6, <1>7, <1>8 DEF PatientInv, QueuedInv, JobInv, HeardInv

LEMMA PatientAnswer ==
  ASSUME BaseInv, OnceInv, PatientInv, NEW miss \in Receivers, AnswerMessage(miss)
  PROVE  PatientInv'
<1> DEFINE m == Head(answer)  text == Last.answer
<1>0. stranger = <<>> /\ QueuedInv /\ JobInv /\ HeardInv /\ ResultIsTrue BY PatientParts
<1>1. /\ doing = "answering" /\ answer # <<>> /\ answer' = Tail(answer)
      /\ UNCHANGED <<cred, outgoing, doing, job, ddec, stranger, attempt, served>>
      /\ ReachesFlipper(m, miss)
  BY DEF AnswerMessage
<1>2. /\ served # <<>> /\ text \in Answers /\ Len(text) \in 1 .. 255 /\ m \in Message
      /\ Last.src = job.src /\ m.src = Daemon
      /\ Len(Tail(answer)) = Len(answer) - 1 /\ Len(answer) \in Nat
      /\ Sent \in 0 .. Len(text) + 1
      /\ Sent = 0 => m.type = "START" /\ m.cmd = Len(text)
      /\ Sent \in 1 .. Len(text) => m.type = "DATA" /\ m.cmd = text[Sent]
      /\ Sent = Len(text) + 1 => m.type = "END" /\ m.cmd = Crc(text)
  <2>1. TypeOK /\ AnswerInv BY DEF BaseInv
  <2> QED BY <1>1, <2>1, AnswerNext
<1>3. /\ job.src = Attempt(attempt) /\ outgoing = <<>> /\ ddec = Idle
      /\ \A i \in DOMAIN queue : queue[i].src = Daemon
  BY <1>0, <1>1 DEF JobInv
<1>4. queue' = queue \/ queue' = Append(queue, m)
  BY <1>2, Places, QueueFacts DEF AnswerMessage
<1>5. queue' \in Seq(Message) /\ \A i \in DOMAIN queue' : queue'[i].src = Daemon
  <2> HIDE DEF m
  <2>1. queue \in Seq(Message) /\ m \in Message BY <1>2, Places
  <2>2. CASE queue' = queue BY <1>3, <2>1, <2>2
  <2>3. CASE queue' = Append(queue, m)
    <3>1. /\ queue' \in Seq(Message)
          /\ \A i \in DOMAIN queue' : queue'[i] = m \/ (i \in DOMAIN queue /\ queue'[i] = queue[i])
      BY <2>1, <2>3, AppendFacts
    <3> QED BY <1>2, <1>3, <3>1
  <2> QED BY <1>4, <2>2, <2>3
<1>6. Daemon # Stranger /\ Daemon.who # "flipper" BY SourceFacts
<1>7. QueuedInv'
  <2> SUFFICES ASSUME NEW i \in DOMAIN queue'
               PROVE  NoW(ddec'.buf) /\ \A j \in 1 .. i : queue'[j].src = Daemon
    BY <1>5, <1>6 DEF QueuedInv, EndAt
  <2>1. NoW(ddec'.buf) BY <1>1, <1>3 DEF NoW, Idle
  <2>2. 1 .. i \subseteq DOMAIN queue' BY <1>5
  <2> QED BY <1>5, <2>1, <2>2
<1>8. JobInv' BY <1>1, <1>3, <1>5 DEF JobInv
<1>9. Len(served) \in DOMAIN served BY <1>2, Places
<1>10. ~Unserved' BY <1>1, <1>2, <1>3, <1>9 DEF Unserved, Last
<1>11. Last' = Last /\ Sent' = Sent + 1
  <2>1. Last' = Last BY <1>1 DEF Last
  <2>2. Sent' = Len(Last'.answer) + 2 - Len(answer') BY DEF Sent
  <2>3. Sent = Len(Last.answer) + 2 - Len(answer) BY DEF Sent
  <2>4. Len(answer') = Len(answer) - 1 BY <1>1, <1>2
  <2> QED BY <1>2, <2>1, <2>2, <2>3, <2>4
<1>12. fdec \in Decoder /\ fage \in Nat BY DEF BaseInv, TypeOK, FlipperOK
<1>13. screen = "waiting" =>
         /\ HeardOf(Fed(fdec, fage, m), text, Sent + 1) /\ HeardOf(fdec, text, Sent + 1)
         /\ Completed(fdec, fage, m) => fdec.buf = text
  <2> SUFFICES ASSUME screen = "waiting"
               PROVE  /\ HeardOf(Fed(fdec, fage, m), text, Sent + 1) /\ HeardOf(fdec, text, Sent + 1)
                      /\ Completed(fdec, fage, m) => fdec.buf = text
    OBVIOUS
  <2>1. HeardOf(fdec, text, Sent) BY <1>0, <1>1 DEF HeardInv
  <2>2. PICK sent \in 0 .. Len(text) + 1 : sent = Sent BY <1>2
  <2> HIDE DEF text, m
  <2> QED BY <1>2, <1>12, <2>1, <2>2, HeardFacts
<1>14. HeardInv'
  <2> SUFFICES ASSUME screen' = "waiting" PROVE HeardOf(fdec', Last'.answer, Sent')
    BY <1>10 DEF HeardInv
  <2>1. screen = "waiting" /\ fdec' \in {fdec, Fed(fdec, fage, m)}
    BY <1>1, VerdictFacts DEF ReachesFlipper
  <2> QED BY <1>11, <1>13, <2>1
<1>15. ResultIsTrue'
  <2>1. CASE screen' = screen
    BY <1>0, <1>1, <2>1, ResultKept
  <2>2. CASE screen' # screen
    <3>1. screen' = Verdict(text) BY <1>1, <1>13, <2>2 DEF ReachesFlipper
    <3>2. served[Len(served)].src = Attempt(attempt) /\ screen' = Verdict(served[Len(served)].answer)
      BY <1>2, <1>3, <3>1 DEF Last
    <3>3. screen' = "connected" => served[Len(served)].joined
      BY <1>9, <3>2 DEF Verdict, BaseInv, QueueOK
    <3> QED BY <1>1, <1>9, <3>2, <3>3 DEF ResultIsTrue, Attempt
  <2> QED BY <2>1, <2>2
<1> QED BY <1>0, <1>1, <1>7, <1>8, <1>14, <1>15 DEF PatientInv, QueuedInv, JobInv, HeardInv

\* What was heard stays heard of a part when the rest of an answer is dropped.
LEMMA PatientFails ==
  ASSUME BaseInv, PatientInv, AnswerFails
  PROVE  PatientInv'
<1>0. stranger = <<>> /\ QueuedInv /\ JobInv /\ HeardInv /\ ResultIsTrue BY PatientParts
<1>1. /\ doing = "answering" /\ answer # <<>> /\ answer' = <<>>
      /\ UNCHANGED <<screen, outgoing, fdec, doing, job, queue, ddec, stranger, attempt, served>>
  BY DEF AnswerFails, flipper
<1>2. /\ Sent \in 0 .. Len(Last.answer) + 1 /\ Len(Last.answer) \in 1 .. 255
  BY <1>1, AnswerNext DEF BaseInv
<1>3. Last' = Last /\ Sent' = Len(Last.answer) + 2
  <2>1. Last' = Last BY <1>1 DEF Last
  <2>2. Sent' = Len(Last'.answer) + 2 - Len(answer') BY DEF Sent
  <2>3. Len(answer') = 0 BY <1>1
  <2> QED BY <1>2, <2>1, <2>2, <2>3
<1>4. HeardInv'
  <2>1. screen = "waiting" => HeardOf(fdec, Last.answer, Sent) BY <1>0, <1>1 DEF HeardInv
  <2>2. Len(fdec.buf) \in Nat BY DEF BaseInv, TypeOK, FlipperOK, Decoder
  <2>3. screen = "waiting" => HeardOf(fdec, Last.answer, Len(Last.answer) + 2)
    BY <1>2, <2>1, <2>2 DEF HeardOf
  <2>4. Unserved' <=> Unserved BY <1>1 DEF Unserved, Attempt
  <2> QED BY <1>0, <1>1, <1>3, <2>3, <2>4 DEF HeardInv
<1>5. QueuedInv' /\ JobInv' /\ ResultIsTrue' BY <1>0, <1>1, QueuedKept, JobKept, ResultKept
<1> QED BY <1>0, <1>1, <1>4, <1>5 DEF PatientInv, QueuedInv, JobInv, HeardInv

LEMMA PatientStep ==
  BaseInv /\ OnceInv /\ (Patient => PatientInv) /\ [Next]_vars => (Patient => PatientInv)'
<1> SUFFICES ASSUME BaseInv, OnceInv, Patient => PatientInv, [Next]_vars, Patient'
             PROVE  PatientInv'
  OBVIOUS
<1>0. /\ PatientInv /\ ~StrangerTransmits
      /\ stranger = <<>> /\ QueuedInv /\ JobInv /\ HeardInv /\ ResultIsTrue
  BY PatientBefore, PatientParts
<1> USE DEF PatientInv, QueuedInv, JobInv, HeardInv
<1>1. ASSUME Confirm PROVE PatientInv' BY <1>0, <1>1, PatientTransmit DEF Confirm
<1>2. ASSUME Retry PROVE PatientInv'
  <2>1. cred \in Requests BY <1>2 DEF Retry, BaseInv, TypeOK, FlipperOK
  <2> QED BY <1>0, <1>2, <2>1, PatientTransmit DEF Retry
<1> HIDE DEF PatientInv, QueuedInv, JobInv, HeardInv
<1>3. ASSUME Leave PROVE PatientInv'
  <2>1. /\ screen' = "menu" /\ outgoing' = <<>>
        /\ UNCHANGED <<doing, job, queue, ddec, stranger, attempt>>
    BY <1>3 DEF Leave, daemon
  <2>2. JobInv' BY <1>0, <2>1 DEF JobInv, Attempt, Daemon
  <2>3. HeardInv' /\ ResultIsTrue' BY <2>1 DEF HeardInv, ResultIsTrue
  <2> QED BY <1>0, <2>1, <2>2, <2>3, QueuedKept DEF PatientInv, QueuedInv, JobInv, HeardInv
<1>4. ASSUME TimedOut PROVE PatientInv'
  <2>1. screen' = "noreply" /\ UNCHANGED <<outgoing, doing, job, queue, ddec, stranger, attempt>>
    BY <1>4 DEF TimedOut, daemon
  <2>2. HeardInv' /\ ResultIsTrue' BY <2>1 DEF HeardInv, ResultIsTrue
  <2> QED BY <1>0, <2>1, <2>2, QueuedKept, JobKept DEF PatientInv, QueuedInv, JobInv, HeardInv
<1>5. ASSUME ReadMessage PROVE PatientInv' BY <1>0, <1>5, PatientRead
<1>6. ASSUME AnswerFails PROVE PatientInv' BY <1>0, <1>6, PatientFails
<1>7. ASSUME Answered \/ EndRollback PROVE PatientInv'
  <2>1. /\ doing' \in {"reading", "rollback"}
        /\ UNCHANGED <<screen, outgoing, fdec, job, answer, queue, ddec, stranger, attempt, served>>
    BY <1>7 DEF Answered, EndRollback, flipper, history
  <2>2. QueuedInv' BY <1>0, <2>1 DEF QueuedInv, EndAt, NoW, Attempt, Daemon, Stranger
  <2>3. JobInv' BY <2>1 DEF JobInv
  <2>4. HeardInv' BY <1>0, <2>1 DEF HeardInv, Unserved, Attempt
  <2> QED BY <1>0, <2>1, <2>2, <2>3, <2>4, ResultKept DEF PatientInv, QueuedInv, JobInv, HeardInv
<1>8. ASSUME NEW joined \in BOOLEAN, NEW addressed \in BOOLEAN, EndJoin(joined, addressed)
      PROVE  PatientInv'
  BY <1>0, <1>8, PatientEndJoin
<1>9. ASSUME NEW miss \in Receivers, SendMessage(miss) PROVE PatientInv' BY <1>0, <1>9, PatientSend
<1>10. ASSUME NEW miss \in Receivers, AnswerMessage(miss) PROVE PatientInv'
  BY <1>0, <1>10, PatientAnswer
<1>11. ASSUME NEW miss \in Receivers, StrangerMessage(miss) PROVE PatientInv'
  BY <1>0, <1>11 DEF StrangerMessage
<1>12. ASSUME Tick PROVE PatientInv'
  BY <1>0, <1>12, QueuedKept, JobKept, HeardKept, ResultKept
     DEF Tick, history, PatientInv, QueuedInv, JobInv, HeardInv
<1>13. ASSUME UNCHANGED vars PROVE PatientInv'
  BY <1>0, <1>13, QueuedKept, JobKept, HeardKept, ResultKept
     DEF vars, flipper, daemon, history, PatientInv, QueuedInv, JobInv, HeardInv
<1> QED BY <1>0, <1>1, <1>2, <1>3, <1>4, <1>5, <1>6, <1>7, <1>8, <1>9, <1>10, <1>11, <1>12, <1>13
        DEF Next

-----------------------------------------------------------------------------
(* The theorems.                                                           *)

LEMMA IInvParts == IInv <=> BaseInv /\ OnceInv /\ CleanInv /\ (Patient => PatientInv)
BY DEF IInv, BaseInv, Patient, StreamsInv, OutgoingInv, StrangerInv, AnswerInv

\* The invariant of both directions: where every message of a transmission or
\* an answer may be, and what the decoders hold of it.
THEOREM AckRoundInvariant == Spec => []IInv
<1>1. Init => IInv
  <2> SUFFICES ASSUME Init PROVE IInv OBVIOUS
  <2>1. BaseInv BY InitBase
  <2>2. OnceInv BY DEF Init, OnceInv, ServedOnce
  <2>3. CleanInv BY DEF Init, CleanInv
  <2>4. PatientInv BY DEF Init, PatientInv, ResultIsTrue
  <2> QED BY <2>1, <2>2, <2>3, <2>4, IInvParts
<1>2. IInv /\ [Next]_vars => IInv'
  <2> SUFFICES ASSUME IInv, [Next]_vars PROVE IInv' OBVIOUS
  <2>1. BaseInv /\ OnceInv /\ CleanInv /\ (Patient => PatientInv) BY IInvParts
  <2>2. BaseInv' /\ OnceInv' /\ CleanInv' /\ (Patient => PatientInv)'
    BY <2>1, BaseStep, OnceStep, CleanStep, PatientStep
  <2> QED BY <2>2 DEF IInv, BaseInv, Patient, StreamsInv, OutgoingInv, StrangerInv, AnswerInv
<1> QED BY <1>1, <1>2, PTL DEF Spec

\* Every variable has its type: the decoders of both sides hold bytes, and
\* every message has its sender.
THEOREM AckRoundTypeCorrect == Spec => []TypeOK
<1>1. IInv => TypeOK BY DEF IInv
<1> QED BY <1>1, AckRoundInvariant, PTL

\* The daemon acts on no transmission of a Flipper's attempt twice, for any
\* CRC and whatever is lost, left half-way or sent by others in between: a
\* request is complete at the END of its sender alone, and an END is read once.
THEOREM ServedAtMostOnce == Spec => []ServedOnce
<1>1. IInv => ServedOnce BY DEF IInv, OnceInv
<1> QED BY <1>1, AckRoundInvariant, PTL

\* An answer of which the listening Flipper heard every message in time is
\* the result on its screen.
THEOREM WholeAnswerIsShown == Spec => []WholeAnswerShown
<1>1. IInv => WholeAnswerShown
  <2> SUFFICES ASSUME IInv, told = "whole",
                      NEW i \in DOMAIN served, served[i].src = Attempt(attempt)
               PROVE  screen = Verdict(served[i].answer)
    BY DEF WholeAnswerShown
  <2>1. PICK k \in DOMAIN served :
          served[k].src = Attempt(attempt) /\ screen = Verdict(served[k].answer)
    BY DEF IInv, CleanInv
  <2>2. Attempt(attempt).who = "flipper" BY SourceFacts DEF IInv, TypeOK, HistoryOK
  <2>3. i = k BY <2>1, <2>2 DEF IInv, OnceInv, ServedOnce
  <2> QED BY <2>1, <2>3
<1> QED BY <1>1, AckRoundInvariant, PTL

\* A user who begins no attempt while an answer is outstanding, with no other
\* Flipper about, is told what the daemon answered to this attempt, and
\* "Connected!" only of a join that succeeded - for any CRC.
THEOREM PatientUserToldTrue == Spec => []PatientUserIsToldTrue
<1>1. IInv => PatientUserIsToldTrue
  BY DEF IInv, PatientInv, PatientUserIsToldTrue
<1> QED BY <1>1, AckRoundInvariant, PTL

-----------------------------------------------------------------------------
(* Only what was sent is acted on.                                        *)

\* What the daemon acts on came from a Flipper.
NotItsOwn == \A k \in DOMAIN served : served[k].src # Daemon

\* Messages of this attempt are still to be sent, or its END is to be read.
Coming == outgoing # <<>> \/ (queue # <<>> /\ EndAt(Len(queue)))

\* How many of them the daemon has read; below zero, there are older ones
\* in its queue before them.
Gone == Len(cred) + 2 - Len(outgoing) - Len(queue)

\* If nothing is missed: the queue ends with the messages of this attempt, and
\* the decoder, if one of its STARTs opened it, holds what was read of them.
ArriveInv ==
  Coming =>
    /\ cred \in Requests
    /\ \A j \in DOMAIN queue : Gone + j > 0 => queue[j] = Burst(cred, Attempt(attempt))[Gone + j]
    /\ Gone > 0 /\ ddec.open => ddec.len = Len(cred) /\ ddec.buf = SubSeq(cred, 1, Gone - 1)

RequestInv ==
  /\ \A k \in DOMAIN served : served[k].text \in Requests
  /\ doing = "joining" => job.text \in Requests
  /\ ArriveInv

HonestInv == (Patient => NotItsOwn) /\ (Patient /\ lost = 0 => RequestInv)

\* A decoder that is open holds what it heard of a request, one message later.
LEMMA RequestHeard ==
  ASSUME NEW text \in Requests, NEW d \in Decoder, NEW age \in Nat, NEW m \in Message,
         NEW sent \in 0 .. Len(text),
         sent = 0 => m.type = "START" /\ m.cmd = Len(text),
         sent > 0 => m.type = "DATA" /\ m.cmd = text[sent],
         sent > 0 /\ d.open => d.len = Len(text) /\ d.buf = SubSeq(text, 1, sent - 1)
  PROVE  Fed(d, age, m).open =>
           Fed(d, age, m).len = Len(text) /\ Fed(d, age, m).buf = SubSeq(text, 1, sent)
<1>1. text \in Seq(Byte) /\ Len(text) \in 1 .. 255 /\ Len(text) # 0 BY TextFacts
<1>2. CASE Expired(d, age) BY <1>2 DEF Fed, Idle
<1>3. CASE ~Expired(d, age) /\ sent = 0
  <2>1. Fed(d, age, m) = [open |-> TRUE, len |-> Len(text), buf |-> <<>>]
    BY <1>1, <1>3 DEF Fed, AfterStart
  <2>2. SubSeq(text, 1, sent) = <<>> BY <1>1, <1>3, PrefixFacts
  <2> QED BY <2>1, <2>2
<1>4. CASE ~Expired(d, age) /\ sent > 0
  <2>1. sent \in 1 .. Len(text) /\ m.type = "DATA" /\ m.cmd = text[sent] BY <1>1, <1>4
  <2>2. /\ SubSeq(text, 1, sent - 1) \in Seq(Byte) /\ Len(SubSeq(text, 1, sent - 1)) = sent - 1
        /\ Append(SubSeq(text, 1, sent - 1), text[sent]) = SubSeq(text, 1, sent)
    BY <1>1, <2>1, PrefixFacts
  <2>3. Fed(d, age, m) = AfterData(d, text[sent]) BY <1>4, <2>1 DEF Fed
  <2>4. CASE ~d.open BY <2>3, <2>4 DEF AfterData, Accepts
  <2>5. CASE d.open
    <3>1. d.len = Len(text) /\ d.buf = SubSeq(text, 1, sent - 1) BY <1>4, <2>5
    <3>2. Accepts(d) BY <1>1, <2>1, <2>2, <2>5, <3>1 DEF Accepts
    <3>3. Fed(d, age, m) = [d EXCEPT !.buf = Append(@, text[sent])]
      BY <2>3, <3>2 DEF AfterData
    <3>4. Fed(d, age, m).len = d.len /\ Fed(d, age, m).buf = Append(d.buf, text[sent])
      BY <3>3 DEF Decoder
    <3> QED BY <2>2, <3>1, <3>4
  <2> QED BY <2>4, <2>5
<1> QED BY <1>2, <1>3, <1>4

LEMMA ArriveKept ==
  ArriveInv /\ UNCHANGED <<outgoing, queue, cred, attempt, ddec>> => ArriveInv'
BY DEF ArriveInv, Coming, Gone, EndAt, Burst, Attempt

\* While a request is handled, no other is on its way.
LEMMA NoneComing ==
  ASSUME BaseInv', JobInv', doing' \in {"joining", "answering"}
  PROVE  ArriveInv'
<1>1. queue' \in Seq(Message) BY DEF BaseInv, TypeOK, DaemonOK
<1>2. outgoing' = <<>> /\ \A i \in DOMAIN queue' : queue'[i].src = Daemon BY DEF JobInv
<1>3. queue' # <<>> => Len(queue') \in DOMAIN queue' BY <1>1
<1>4. ~Coming' BY <1>2, <1>3, SourceFacts DEF Coming, EndAt
<1> QED BY <1>4 DEF ArriveInv

\* An attempt begins when nothing of an earlier one can complete any more.
LEMMA ArriveTransmit ==
  ASSUME BaseInv, PatientInv, NEW text \in Requests, Transmit(text)
  PROVE  ArriveInv'
<1>1. /\ text \in Requests \cup Answers /\ attempt' \in Nat /\ Attempt(attempt') \in Sources
      /\ cred' = text /\ outgoing' = Burst(text, Attempt(attempt')) /\ queue' = queue
  BY SourceFacts DEF Transmit, daemon, BaseInv, TypeOK, HistoryOK
<1>2. Len(outgoing') = Len(cred') + 2 /\ Len(cred') \in Nat
  <2>1. Len(Burst(text, Attempt(attempt'))) = Len(text) + 2 BY <1>1, BurstFacts
  <2>2. Len(text) \in Nat BY <1>1, TextFacts
  <2> QED BY <1>1, <2>1, <2>2
<1>3. queue \in Seq(Message) /\ Len(queue) \in Nat /\ DOMAIN queue = 1 .. Len(queue) BY Places
<1>4. Gone' = 0 - Len(queue)
  <2>1. Gone' = Len(cred') + 2 - Len(outgoing') - Len(queue') BY DEF Gone
  <2> QED BY <1>1, <1>2, <1>3, <2>1
<1>5. \A j \in DOMAIN queue' : ~(Gone' + j > 0) BY <1>1, <1>3, <1>4
<1>6. ~(Gone' > 0) BY <1>3, <1>4
<1> QED BY <1>1, <1>5, <1>6 DEF ArriveInv

LEMMA ArriveSend ==
  ASSUME BaseInv, ArriveInv, SendMessage({})
  PROVE  ArriveInv'
<1> DEFINE m == Head(outgoing)  b == Burst(cred, Attempt(attempt))
           sent == Len(cred) + 2 - Len(outgoing)
<1>1. /\ outgoing # <<>> /\ outgoing \in Seq(Message) /\ outgoing' = Tail(outgoing)
      /\ queue' = Append(queue, m) /\ UNCHANGED <<cred, attempt, ddec>>
  BY DEF SendMessage, ReachesDaemon, history, BaseInv, TypeOK, FlipperOK
<1>2. /\ m \in Message /\ RestOf(outgoing, cred, Attempt(attempt))
  BY <1>1, OutgoingNext DEF BaseInv, OutgoingInv
<1>3. Coming /\ cred \in Requests BY <1>1 DEF Coming, ArriveInv
<1>4. Len(cred) \in 1 .. 255 BY <1>3, TextFacts
<1>5. /\ Len(outgoing) \in 1 .. Len(cred) + 2 /\ Len(outgoing') = Len(outgoing) - 1
      /\ m = outgoing[1]
  BY <1>1, <1>2, <1>4 DEF RestOf
<1>6. m = b[sent + 1]
  <2>1. 1 \in 1 .. Len(outgoing) /\ 1 + Len(cred) + 2 - Len(outgoing) = sent + 1 BY <1>4, <1>5
  <2>2. outgoing[1] = b[1 + Len(cred) + 2 - Len(outgoing)] BY <1>2, <2>1 DEF RestOf
  <2> QED BY <1>5, <2>1, <2>2
<1>7. /\ queue \in Seq(Message) /\ Len(queue) \in Nat /\ Len(queue') = Len(queue) + 1
      /\ \A j \in DOMAIN queue' :
           \/ j \in DOMAIN queue /\ queue'[j] = queue[j]
           \/ j = Len(queue) + 1 /\ queue'[j] = m
  <2> HIDE DEF m
  <2>1. queue \in Seq(Message) BY Places
  <2> QED BY <1>1, <1>2, <2>1
<1>8. Gone' = Gone /\ Gone + Len(queue) = sent
  <2>1. Gone' = Len(cred') + 2 - Len(outgoing') - Len(queue') BY DEF Gone
  <2>2. Gone = Len(cred) + 2 - Len(outgoing) - Len(queue) BY DEF Gone
  <2> QED BY <1>1, <1>4, <1>5, <1>7, <2>1, <2>2
<1>9. Burst(cred', Attempt(attempt')) = b BY <1>1 DEF Burst, Attempt
<1>10. ASSUME NEW j \in DOMAIN queue', Gone + j > 0 PROVE queue'[j] = b[Gone + j]
  <2>1. CASE j \in DOMAIN queue /\ queue'[j] = queue[j] BY <1>3, <1>10, <2>1 DEF ArriveInv
  <2>2. CASE j = Len(queue) + 1 /\ queue'[j] = m
    <3>1. Gone \in Int BY <1>4, <1>5, <1>7 DEF Gone
    <3>2. Gone + j = sent + 1 BY <1>7, <1>8, <2>2, <3>1
    <3> QED BY <1>6, <2>2, <3>2
  <2> QED BY <1>7, <2>1, <2>2
<1>11. Gone > 0 /\ ddec.open => ddec.len = Len(cred) /\ ddec.buf = SubSeq(cred, 1, Gone - 1)
  BY <1>3 DEF ArriveInv
<1> HIDE DEF b
<1> QED BY <1>1, <1>3, <1>8, <1>9, <1>10, <1>11 DEF ArriveInv

\* A message of this attempt is read, or one before it.
LEMMA ArriveRead ==
  ASSUME BaseInv, ArriveInv, ReadMessage, Coming'
  PROVE  ArriveInv'
<1> DEFINE m == Head(queue)  b == Burst(cred, Attempt(attempt))
<1>1. /\ m \in Message /\ m = queue[1] /\ 1 \in DOMAIN queue /\ queue # <<>>
      /\ queue' = Tail(queue) /\ queue' \in Seq(Message) /\ Len(queue') = Len(queue) - 1
      /\ Len(queue) \in Nat \ {0}
      /\ \A i \in DOMAIN queue' : i + 1 \in DOMAIN queue /\ queue'[i] = queue[i + 1] /\ i \in Nat
  BY Places DEF ReadMessage
<1>2. /\ ddec' = Fed(ddec, dage, m) /\ UNCHANGED <<cred, outgoing, attempt>>
      /\ ddec \in Decoder /\ dage \in Nat /\ attempt \in Nat
  BY DEF ReadMessage, flipper, history, BaseInv, TypeOK, DaemonOK, HistoryOK
<1>3. Coming
  <2>1. CASE outgoing' # <<>> BY <1>2, <2>1 DEF Coming
  <2>2. CASE queue' # <<>> /\ queue'[Len(queue')].type = "END"
                        /\ queue'[Len(queue')].src.who = "flipper"
    <3>1. Len(queue') \in DOMAIN queue' /\ Len(queue') + 1 = Len(queue) BY <1>1, <2>2
    <3>2. queue'[Len(queue')] = queue[Len(queue)] BY <1>1, <3>1
    <3> QED BY <1>1, <2>2, <3>2 DEF Coming, EndAt
  <2> QED BY <2>1, <2>2 DEF Coming, EndAt
<1>4. cred \in Requests /\ cred \in Seq(Byte) /\ Len(cred) \in 1 .. 255
  BY <1>3, TextFacts DEF ArriveInv
<1>5. outgoing \in Seq(Message) /\ Len(outgoing) \in Nat /\ (outgoing # <<>> => Len(outgoing) > 0)
  <2>1. outgoing \in Seq(Message) BY DEF BaseInv, TypeOK, FlipperOK
  <2> QED BY <2>1
<1>6. Gone = Len(cred) + 2 - Len(outgoing) - Len(queue) BY DEF Gone
<1>7. Gone' = Gone + 1 /\ Gone \in Int
  <2>1. Gone' = Len(cred') + 2 - Len(outgoing') - Len(queue') BY DEF Gone
  <2> QED BY <1>1, <1>2, <1>4, <1>5, <1>6, <2>1
<1>8. Gone \leq Len(cred)
  <2>1. Len(outgoing) + Len(queue) > 1
    <3>1. CASE outgoing # <<>> BY <1>1, <1>5, <3>1
    <3>2. CASE queue' # <<>>
      <4>1. Len(queue') > 0 BY <1>1, <3>2
      <4> QED BY <1>1, <1>5, <4>1
    <3> QED BY <1>2, <3>1, <3>2 DEF Coming
  <2> QED BY <1>1, <1>4, <1>5, <1>6, <2>1
<1>9. Burst(cred', Attempt(attempt')) = b BY <1>2 DEF Burst, Attempt
<1>10. ASSUME NEW j \in DOMAIN queue', Gone' + j > 0 PROVE queue'[j] = b[Gone' + j]
  <2>1. j + 1 \in DOMAIN queue /\ queue'[j] = queue[j + 1] /\ Gone' + j = Gone + (j + 1)
    BY <1>1, <1>7
  <2>2. Gone + (j + 1) > 0 BY <1>10, <2>1
  <2>3. queue[j + 1] = b[Gone + (j + 1)] BY <1>3, <2>1, <2>2 DEF ArriveInv
  <2> QED BY <2>1, <2>3
<1>11. ASSUME Gone' > 0, ddec'.open PROVE ddec'.len = Len(cred) /\ ddec'.buf = SubSeq(cred, 1, Gone' - 1)
  <2>1. PICK sent \in 0 .. Len(cred) : sent = Gone
    <3>1. Gone \in 0 .. Len(cred) BY <1>4, <1>7, <1>8, <1>11
    <3> QED BY <3>1
  <2>2. m = b[sent + 1]
    <3>1. Gone + 1 > 0 BY <1>7, <1>11
    <3> QED BY <1>1, <1>3, <2>1, <3>1 DEF ArriveInv
  <2>3. /\ b[1] = [type |-> "START", cmd |-> Len(cred), src |-> Attempt(attempt)]
        /\ \A i \in 1 .. Len(cred) :
             b[i + 1] = [type |-> "DATA", cmd |-> cred[i], src |-> Attempt(attempt)]
    <3>1. cred \in Requests \cup Answers /\ Attempt(attempt) \in Sources
      BY <1>2, <1>4, SourceFacts
    <3> QED BY <3>1, BurstFacts
  <2> HIDE DEF b
  <2>4. sent = 0 => m.type = "START" /\ m.cmd = Len(cred) BY <2>2, <2>3
  <2>5. sent > 0 => m.type = "DATA" /\ m.cmd = cred[sent]
    <3> SUFFICES ASSUME sent > 0 PROVE m.type = "DATA" /\ m.cmd = cred[sent] OBVIOUS
    <3>1. sent \in 1 .. Len(cred) BY <1>4
    <3>2. m = [type |-> "DATA", cmd |-> cred[sent], src |-> Attempt(attempt)] BY <2>2, <2>3, <3>1
    <3> QED BY <3>2
  <2>6. sent > 0 /\ ddec.open => ddec.len = Len(cred) /\ ddec.buf = SubSeq(cred, 1, sent - 1)
    BY <1>3, <2>1 DEF ArriveInv
  <2>7. m \in Message /\ ddec \in Decoder /\ dage \in Nat /\ cred \in Requests BY <1>1, <1>2, <1>4
  <2> HIDE DEF m
  <2>8. Fed(ddec, dage, m).open =>
          Fed(ddec, dage, m).len = Len(cred) /\ Fed(ddec, dage, m).buf = SubSeq(cred, 1, sent)
    BY <2>4, <2>5, <2>6, <2>7, RequestHeard
  <2>9. Gone' - 1 = sent BY <1>7, <2>1
  <2> QED BY <1>2, <1>11, <2>8, <2>9
<1> HIDE DEF b
<1> QED BY <1>2, <1>3, <1>4, <1>9, <1>10, <1>11 DEF ArriveInv

\* A request is complete at its END, when the decoder holds all of it.
LEMMA RequestRead ==
  ASSUME BaseInv, OnceInv, PatientInv, PatientInv', ArriveInv, ReadMessage, doing' = "joining"
  PROVE  job'.text \in Requests
<1> DEFINE m == Head(queue)
<1>0. QueuedInv /\ JobInv' BY PatientParts DEF PatientInv, JobInv
<1>1. m \in Message /\ m = queue[1] /\ 1 \in DOMAIN queue /\ queue # <<>>
  BY Places DEF ReadMessage
<1>2. /\ Completed(ddec, dage, m) /\ job' = [text |-> ddec.buf, src |-> m.src]
      /\ UNCHANGED <<outgoing, attempt>> /\ ddec \in Decoder /\ dage \in Nat /\ attempt \in Nat
  BY DEF ReadMessage, flipper, history, BaseInv, TypeOK, DaemonOK, HistoryOK
<1>3. m.type = "END" /\ Full(ddec) BY <1>1, <1>2, FedFacts
<1>4. m.src = Attempt(attempt) /\ outgoing = <<>>
  BY <1>0, <1>2 DEF JobInv, Attempt
<1>5. EndAt(1) BY <1>1, <1>2, <1>3, <1>4, SourceFacts DEF EndAt
<1>6. Len(queue) = 1 BY <1>0, <1>1, <1>5 DEF QueuedInv
<1>7. Coming BY <1>1, <1>5, <1>6 DEF Coming
<1>8. cred \in Requests /\ cred \in Seq(Byte) /\ Len(cred) \in 1 .. 255
  BY <1>7, TextFacts DEF ArriveInv
<1>9. Gone > 0 /\ Gone - 1 = Len(cred)
  <2>1. Gone = Len(cred) + 2 - Len(outgoing) - Len(queue) BY DEF Gone
  <2>2. Len(outgoing) = 0 BY <1>4
  <2> QED BY <1>6, <1>8, <2>1, <2>2
<1>10. ddec.buf = SubSeq(cred, 1, Len(cred)) BY <1>3, <1>7, <1>9 DEF ArriveInv, Full
<1> QED BY <1>2, <1>8, <1>10, PrefixFacts

\* Nothing was missed before, and this step misses nothing.
LEMMA LostBefore ==
  ASSUME BaseInv, [Next]_vars, lost' = 0
  PROVE  lost = 0 /\ \A miss \in Receivers : SendMessage(miss) => SendMessage({})
<1>1. lost \in Nat BY DEF BaseInv, TypeOK, HistoryOK
<1>2. ASSUME NEW miss \in Receivers, Missed(miss) PROVE lost = 0 /\ miss = {}
  <2>1. IsFiniteSet({"daemon", "flipper"})
    <3>1. IsFiniteSet({} \cup {"daemon"}) BY FS_EmptySet, FS_AddElement
    <3>2. IsFiniteSet(({} \cup {"daemon"}) \cup {"flipper"}) BY <3>1, FS_AddElement
    <3>3. ({} \cup {"daemon"}) \cup {"flipper"} = {"daemon", "flipper"} OBVIOUS
    <3> QED BY <3>2, <3>3
  <2>2. IsFiniteSet(miss) BY <2>1, FS_Subset DEF Receivers
  <2>3. Cardinality(miss) \in Nat BY <2>2, FS_CardinalityType
  <2>4. lost = 0 /\ Cardinality(miss) = 0 BY <1>1, <2>3, <1>2 DEF Missed
  <2> QED BY <2>2, <2>4, FS_EmptySet
<1>3. ASSUME NEW miss \in Receivers, SendMessage(miss) PROVE SendMessage({})
  <2>1. miss = {} BY <1>2, <1>3 DEF SendMessage
  <2> QED BY <1>3, <2>1
<1>4. lost' = lost \/ \E miss \in Receivers : Missed(miss)
  BY DEF Next, vars, flipper, daemon, history, bounds, Confirm, Retry, Transmit, Leave, TimedOut,
     ReadMessage, EndJoin, AnswerFails, Answered, EndRollback, SendMessage, AnswerMessage,
     StrangerMessage, StrangerTransmits, Tick
<1> QED BY <1>2, <1>3, <1>4

LEMMA ArriveStep ==
  ASSUME BaseInv, OnceInv, PatientInv, ArriveInv, [Next]_vars,
         BaseInv', PatientInv', Patient', lost' = 0
  PROVE  ArriveInv'
<1>0. /\ stranger = <<>> /\ QueuedInv /\ JobInv' /\ ~StrangerTransmits
  BY PatientParts, PatientBefore DEF PatientInv, JobInv
<1>1. ASSUME NEW text \in Requests, Transmit(text) PROVE ArriveInv' BY <1>1, ArriveTransmit
<1>2. ASSUME Confirm \/ Retry PROVE ArriveInv'
  <2>1. Retry => cred \in Requests BY DEF Retry, BaseInv, TypeOK, FlipperOK
  <2> QED BY <1>1, <1>2, <2>1 DEF Confirm, Retry
<1>3. ASSUME Leave PROVE ArriveInv'
  <2>1. outgoing' = <<>> /\ UNCHANGED <<queue, cred, attempt, ddec>>
    BY <1>3 DEF Leave, daemon
  <2>2. CASE outgoing = <<>> BY <2>1, <2>2, ArriveKept
  <2>3. CASE outgoing # <<>>
    <3> SUFFICES ASSUME Coming' PROVE FALSE BY DEF ArriveInv
    <3>1. queue # <<>> /\ EndAt(Len(queue)) BY <2>1 DEF Coming, EndAt
    <3>2. Len(queue) \in DOMAIN queue BY <3>1, Places
    <3>3. queue[Len(queue)].src = Attempt(attempt) BY <1>0, <3>1, <3>2 DEF QueuedInv
    <3>4. Past(Attempt(attempt), attempt, outgoing) BY <3>1, <3>2, <3>3 DEF OnceInv
    <3>5. attempt \in Nat BY DEF BaseInv, TypeOK, HistoryOK
    <3> QED BY <2>3, <3>4, <3>5, SourceFacts DEF Past
  <2> QED BY <2>2, <2>3
<1>4. ASSUME ReadMessage PROVE ArriveInv'
  BY <1>4, ArriveRead DEF ArriveInv
<1>5. ASSUME NEW miss \in Receivers, SendMessage(miss) PROVE ArriveInv'
  BY <1>5, LostBefore, ArriveSend
<1>6. ASSUME NEW miss \in Receivers, StrangerMessage(miss) PROVE ArriveInv'
  BY <1>0, <1>6 DEF StrangerMessage
<1>7. CASE doing' \in {"joining", "answering"} BY <1>0, <1>7, NoneComing
<1>8. CASE UNCHANGED <<outgoing, queue, cred, attempt, ddec>> BY <1>8, ArriveKept
<1>9. \/ Confirm \/ Retry \/ Leave \/ ReadMessage
      \/ \E miss \in Receivers : SendMessage(miss) \/ StrangerMessage(miss)
      \/ doing' \in {"joining", "answering"}
      \/ UNCHANGED <<outgoing, queue, cred, attempt, ddec>>
  BY <1>0 DEF Next, vars, flipper, daemon, history, bounds, TimedOut, EndJoin, AnswerFails, Answered,
     EndRollback, AnswerMessage, Tick
<1> QED BY <1>2, <1>3, <1>4, <1>5, <1>6, <1>7, <1>8, <1>9

\* What is handled and what was served.
LEMMA ServedStep ==
  ASSUME BaseInv, [Next]_vars
  PROVE  /\ doing' = "joining" => ReadMessage \/ (doing = "joining" /\ job' = job)
         /\ \A k \in DOMAIN served' :
              \/ k \in DOMAIN served /\ served'[k] = served[k]
              \/ doing = "joining" /\ served'[k].src = job.src /\ served'[k].text = job.text
<1>1. doing' = "joining" => ReadMessage \/ (doing = "joining" /\ job' = job)
  BY DEF Next, vars, flipper, daemon, history, bounds, Confirm, Retry, Transmit, Leave, TimedOut,
     EndJoin, AnswerFails, Answered, EndRollback, SendMessage, AnswerMessage,
     StrangerMessage, StrangerTransmits, Tick
<1>2. ASSUME NEW joined \in BOOLEAN, NEW addressed \in BOOLEAN, EndJoin(joined, addressed),
             NEW k \in DOMAIN served'
      PROVE  \/ k \in DOMAIN served /\ served'[k] = served[k]
             \/ doing = "joining" /\ served'[k].src = job.src /\ served'[k].text = job.text
  <2> DEFINE new == [text |-> job.text, src |-> job.src, joined |-> joined,
                     answer |-> AnswerText(joined, addressed)]
  <2>1. new.src = job.src /\ new.text = job.text OBVIOUS
  <2>2. served' = Append(served, new) /\ doing = "joining" BY <1>2 DEF EndJoin
  <2> HIDE DEF new
  <2>3. (k \in DOMAIN served /\ served'[k] = served[k]) \/ served'[k] = new
    BY <1>2, <2>2, Places
  <2> QED BY <2>1, <2>2, <2>3
<1>3. (\E joined, addressed \in BOOLEAN : EndJoin(joined, addressed)) \/ served' = served
  BY DEF Next, vars, flipper, daemon, history, bounds, Confirm, Retry, Transmit, Leave, TimedOut,
     ReadMessage, AnswerFails, Answered, EndRollback, SendMessage, AnswerMessage,
     StrangerMessage, StrangerTransmits, Tick
<1> QED BY <1>1, <1>2, <1>3

LEMMA HonestStep == IInv /\ IInv' /\ HonestInv /\ [Next]_vars => HonestInv'
<1> SUFFICES ASSUME IInv, IInv', HonestInv, [Next]_vars, Patient'
             PROVE  NotItsOwn' /\ (lost' = 0 => RequestInv')
  BY DEF HonestInv
<1>1. BaseInv /\ OnceInv /\ (Patient => PatientInv) BY IInvParts
<1>2. BaseInv' /\ PatientInv'
  BY DEF IInv, BaseInv, Patient, StreamsInv, OutgoingInv, StrangerInv, AnswerInv
<1>3. Patient /\ PatientInv /\ JobInv BY <1>1, PatientBefore, PatientParts
<1>4. NotItsOwn'
  <2>1. doing = "joining" => job.src # Daemon
    BY <1>1, <1>3, SourceFacts DEF JobInv, BaseInv, TypeOK, HistoryOK
  <2> QED BY <1>1, <1>3, <2>1, ServedStep DEF HonestInv, NotItsOwn, Daemon
<1>5. ASSUME lost' = 0 PROVE RequestInv'
  <2>1. RequestInv /\ ArriveInv BY <1>1, <1>3, <1>5, LostBefore DEF HonestInv, RequestInv
  <2>2. ArriveInv' BY <1>1, <1>2, <1>3, <1>5, <2>1, ArriveStep
  <2>3. doing' = "joining" => job'.text \in Requests
    BY <1>1, <1>2, <1>3, <2>1, RequestRead, ServedStep DEF RequestInv
  <2>4. \A k \in DOMAIN served' : served'[k].text \in Requests
    BY <1>1, <2>1, ServedStep DEF RequestInv
  <2> QED BY <2>2, <2>3, <2>4 DEF RequestInv
<1> QED BY <1>4, <1>5

\* The daemon acts on no transmission twice.  With nobody else sending and a
\* user who waits for every answer, it acts on no answer of its own, whatever is
\* lost; and if nothing is lost, on nothing but what was sent, as it was sent:
\* attempts given up half-way and echoes in the queue or the decoder
\* notwithstanding, and for any CRC.
THEOREM RequestsServedAsSent == Spec => []OnlyRequestsServed
<1>1. Init => HonestInv
  BY DEF Init, HonestInv, NotItsOwn, RequestInv, ArriveInv, Coming
<1>2. IInv /\ IInv' /\ HonestInv /\ [Next]_vars => HonestInv' BY HonestStep
<1>3. IInv /\ HonestInv => OnlyRequestsServed
  <2> SUFFICES ASSUME IInv, HonestInv PROVE OnlyRequestsServed OBVIOUS
  <2>1. ServedOnce BY DEF IInv, OnceInv
  <2>2. ASSUME ~hasty, strangers = 0, NEW i \in DOMAIN served
        PROVE  served[i].src # Daemon /\ (lost = 0 => served[i].text \in Requests)
    BY <2>2 DEF HonestInv, NotItsOwn, RequestInv, Patient
  <2> QED BY <2>1, <2>2 DEF OnlyRequestsServed
<1> QED BY <1>1, <1>2, <1>3, AckRoundInvariant, PTL DEF Spec
=============================================================================
