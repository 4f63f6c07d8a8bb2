------------------------------ MODULE AckRound ------------------------------
(***************************************************************************)
(* Both directions of the link: a Flipper that sends credentials and waits *)
(* for the answer, the daemon that handles them and answers, and what else *)
(* is in the air - the daemon's own light on its own receiver, and another *)
(* Flipper.  Messages carry no sequence number and no address; src is      *)
(* history, for the properties alone.                                      *)
(*                                                                         *)
(* A tick of the clock is long beside a burst: none passes while a burst   *)
(* is in the air or in the daemon's queue unread.  The threads of the      *)
(* transmit scene are those of TransmitScene, here each handler is a step. *)
(***************************************************************************)
EXTENDS WfrDecoder, FiniteSets

CONSTANTS
  Requests,      \* WiFi strings that a Flipper sends
  Parses(_),     \* what wfr_parse_wifi_string asks of a text but its first byte
  OkText,        \* "OK:" and an address
  FailText,      \* "FAIL"
  AckTimeout,    \* WFR_ACK_TIMEOUT_SEC, in ticks
  JoinTimes,     \* how long wfr_net_connect may take, in ticks
  MaxSends,      \* bound: transmissions of the two Flippers
  MaxStrangers,  \* bound: those of the other one
  MaxLost        \* bound: messages that a receiver misses

\* What fits the length of a START.
Texts == { text \in Seq(Byte) : Len(text) \in 1 .. 255 }

\* An answer is "OK:", digits and dots, or "FAIL": no 'W' is in it.  Both
\* decoders and the wait of the Flipper time out after the same 30 seconds.
ASSUME AckRoundAssumption ==
  /\ Requests \subseteq Texts /\ {OkText, FailText} \subseteq Texts
  /\ \A text \in Requests \cup {OkText, FailText} : Crc(text) \in Byte
  /\ \A text \in {OkText, FailText} : \A i \in DOMAIN text : text[i] # 87
  /\ Head(FailText) # 79
  /\ AckTimeout \in Nat /\ AckTimeout \leq Timeout
  /\ JoinTimes \subseteq Nat
  /\ MaxSends \in Nat /\ MaxStrangers \in Nat /\ MaxLost \in Nat

VARIABLES
  \* the Flipper
  screen,        \* "menu", "sending", "waiting", "connected", "refused", "noreply"
  cred,          \* the WiFi string of the credentials on screen
  outgoing,      \* messages left to send
  fdec, fage,    \* its decoder, and the ticks since its START
  wait,          \* ticks since it started to listen
  \* the daemon
  doing,         \* "reading", "joining", "answering", "rollback"
  job,           \* the request that is being handled
  left,          \* ticks left of the join or the rollback
  answer,        \* messages left of the answer
  queue,         \* the kernel's queue of scancodes
  ddec, dage,    \* its decoder, and the ticks since its START
  echo,          \* the daemon's receiver sees the light of its answers
  \* the other Flipper
  stranger,      \* messages left to send
  \* history and bounds
  attempt,       \* transmissions so far
  served,        \* requests joined or not, in order
  hasty,         \* an attempt was begun while an answer was outstanding
  told,          \* the answer to this attempt: "none", "clean", "spoilt", "whole"
  lost, strangers

flipper == <<screen, cred, outgoing, fdec, fage, wait>>
daemon == <<doing, job, left, answer, queue, ddec, dage>>
history == <<attempt, served, hasty, told>>
bounds == <<lost, strangers>>
vars == <<flipper, daemon, echo, stranger, history, bounds>>

\* Who sent a message: a Flipper's attempt, the other Flipper, or the daemon.
Attempt(n) == [who |-> "flipper", n |-> n]
Stranger == [who |-> "stranger", n |-> 0]
Daemon == [who |-> "daemon", n |-> 0]

NoJob == [text |-> <<>>, src |-> Daemon]

\* A transmission: START, DATA for every byte, END.
Burst(text, src) ==
  LET msg(type, byte) == [type |-> type, cmd |-> byte, src |-> src]
  IN <<msg("START", Len(text))>> \o [i \in DOMAIN text |-> msg("DATA", text[i])]
     \o <<msg("END", Crc(text))>>

\* Feeding a decoder: what it becomes, the age of its START, and whether the
\* message completes what it holds.
Fed(d, age, m) ==
  IF Expired(d, age) THEN Idle
  ELSE CASE m.type = "START" -> AfterStart(d, m.cmd)
         [] m.type = "DATA"  -> AfterData(d, m.cmd)
         [] m.type = "END"   -> AfterEnd(d, m.cmd)
AgeFed(d, age, m) == IF m.type = "START" /\ ~Expired(d, age) THEN 0 ELSE age
Completed(d, age, m) == ~Expired(d, age) /\ m.type = "END" /\ Completes(d, m.cmd)

\* wfr_parse_wifi_string accepts it: it begins with the 'W' of "WIFI:", and the
\* rest is as it should be.
IsRequest(text) == Head(text) = 87 /\ Parses(text)

\* strncmp with "OK:"; any other text that is complete is taken for FAIL.
Verdict(text) == IF Head(text) = 79 THEN "connected" ELSE "refused"

\* Some answer is still to come.
Outstanding ==
  \/ doing \in {"joining", "answering"}
  \/ \E i \in DOMAIN queue : queue[i].type = "END" /\ queue[i].src # Daemon

Init ==
  /\ screen = "menu" /\ cred = <<>> /\ outgoing = <<>>
  /\ fdec = Idle /\ fage = 0 /\ wait = 0
  /\ doing = "reading" /\ job = NoJob /\ left = 0 /\ answer = <<>> /\ queue = <<>>
  /\ ddec = Idle /\ dage = 0 /\ echo \in BOOLEAN
  /\ stranger = <<>>
  /\ attempt = 0 /\ served = <<>> /\ hasty = FALSE /\ told = "none"
  /\ lost = 0 /\ strangers = 0

-----------------------------------------------------------------------------
(* A message in the air: the receivers that miss it are in miss.           *)

\* The loop of the daemon is quick beside a message: it has read what is in
\* its queue before the next is sent, or time passes.
Unread == doing = "reading" /\ queue # <<>>

ReachesDaemon(m, miss) ==
  /\ ~Unread
  /\ queue' = IF "daemon" \in miss THEN queue ELSE Append(queue, m)

\* wi_fir_ir_rx_callback, and the scene's handler of the event it posts.
ReachesFlipper(m, miss) ==
  IF screen = "waiting" /\ "flipper" \notin miss
  THEN /\ fdec' = Fed(fdec, fage, m) /\ fage' = AgeFed(fdec, fage, m)
       /\ screen' = IF Completed(fdec, fage, m) THEN Verdict(fdec.buf) ELSE screen
  ELSE UNCHANGED <<screen, fdec, fage>>

Missed(miss) == lost' = lost + Cardinality(miss) /\ lost' \leq MaxLost

-----------------------------------------------------------------------------
(* The Flipper.                                                            *)

\* wi_fir_start_tx, and the transmission it launches.
Transmit(text) ==
  /\ attempt + strangers < MaxSends /\ attempt' = attempt + 1
  /\ cred' = text /\ outgoing' = Burst(text, Attempt(attempt')) /\ screen' = "sending"
  /\ hasty' = (hasty \/ Outstanding) /\ told' = "none"
  /\ UNCHANGED <<fdec, fage, wait, daemon, echo, stranger, served, bounds>>

\* Credentials are confirmed, or Retry is pressed on a failure.
Confirm == screen = "menu" /\ \E text \in Requests : Transmit(text)
Retry == screen \in {"refused", "noreply"} /\ Transmit(cred)

\* Mutant of StartListening: the decoder is not initialised.
StartAsItWas == screen' = "waiting" /\ wait' = 0 /\ UNCHANGED <<fdec, fage>>

\* wi_fir_start_ack_listener
StartListening == screen' = "waiting" /\ wait' = 0 /\ fdec' = Idle /\ fage' = 0

\* One message; with the last, the scene starts to listen.
SendMessage(miss) ==
  /\ screen = "sending" /\ outgoing # <<>> /\ miss \subseteq {"daemon"}
  /\ ReachesDaemon(Head(outgoing), miss) /\ Missed(miss)
  /\ outgoing' = Tail(outgoing)
  /\ IF outgoing' = <<>> THEN StartListening ELSE UNCHANGED <<screen, fdec, fage, wait>>
  /\ UNCHANGED <<cred, doing, job, left, answer, ddec, dage, echo, stranger, history, strangers>>

\* Back, at any time, and the dismissal of a result.
Leave ==
  /\ screen # "menu" /\ screen' = "menu" /\ outgoing' = <<>>
  /\ told' = "none"
  /\ UNCHANGED <<cred, fdec, fage, wait, daemon, echo, stranger, attempt, served, hasty, bounds>>

TimedOut ==
  /\ screen = "waiting" /\ wait = AckTimeout
  /\ screen' = "noreply"
  /\ told' = IF told = "clean" THEN "spoilt" ELSE told
  /\ UNCHANGED <<cred, outgoing, fdec, fage, wait, daemon, echo, stranger,
                 attempt, served, hasty, bounds>>

-----------------------------------------------------------------------------
(* The daemon.                                                             *)

\* One turn of the main loop.
ReadMessage ==
  /\ doing = "reading" /\ queue # <<>>
  /\ queue' = Tail(queue)
  /\ LET m == Head(queue) IN
     /\ ddec' = Fed(ddec, dage, m) /\ dage' = AgeFed(ddec, dage, m)
     /\ IF Completed(ddec, dage, m) /\ IsRequest(ddec.buf)
        THEN /\ doing' = "joining" /\ job' = [text |-> ddec.buf, src |-> m.src]
             /\ left' \in JoinTimes
        ELSE UNCHANGED <<doing, job, left>>
  /\ UNCHANGED <<flipper, answer, echo, stranger, history, bounds>>

\* Mutant of AnswerText: an address stands for a join.
AnswerAddress(joined, addressed) == IF addressed THEN OkText ELSE FailText

\* wfr_ack_send: without an address a success is answered FAIL.
AnswerText(joined, addressed) == IF joined /\ addressed THEN OkText ELSE FailText

\* wfr_net_connect returns, and send_ack begins.
EndJoin(joined, addressed) ==
  LET text == AnswerText(joined, addressed) IN
  /\ doing = "joining" /\ left = 0
  /\ served' = Append(served, [text |-> job.text, src |-> job.src, joined |-> joined,
                               answer |-> text])
  /\ doing' = "answering" /\ answer' = Burst(text, Daemon)
  /\ told' = IF screen = "waiting" /\ job.src = Attempt(attempt) THEN "clean" ELSE told
  /\ UNCHANGED <<flipper, job, left, queue, ddec, dage, echo, stranger,
                 attempt, hasty, bounds>>

\* send_rc6, one message.
AnswerMessage(miss) ==
  /\ doing = "answering" /\ answer # <<>>
  /\ miss \subseteq {"flipper"} \cup (IF echo THEN {"daemon"} ELSE {})
  /\ LET m == Head(answer) IN
     /\ ReachesFlipper(m, miss) /\ ReachesDaemon(m, IF echo THEN miss ELSE {"daemon"})
     /\ Missed(miss)
  /\ answer' = Tail(answer)
  /\ told' = IF told = "clean"
             THEN IF "flipper" \in miss \/ screen # "waiting" \/ wait = AckTimeout THEN "spoilt"
                  ELSE IF answer' = <<>> THEN "whole" ELSE "clean"
             ELSE told
  /\ UNCHANGED <<cred, outgoing, wait, doing, job, left, ddec, dage, echo, stranger,
                 attempt, served, hasty, strangers>>

\* There is no device to answer with, or a write fails: the rest of the
\* answer is not sent.
AnswerFails ==
  /\ doing = "answering" /\ answer # <<>> /\ answer' = <<>>
  /\ told' = IF told = "clean" THEN "spoilt" ELSE told
  /\ UNCHANGED <<flipper, doing, job, left, queue, ddec, dage, echo, stranger,
                 attempt, served, hasty, bounds>>

\* After the answer: back to the loop, or first the rollback, if the join
\* failed and there was a network before.
Answered ==
  /\ doing = "answering" /\ answer = <<>>
  /\ \/ doing' = "reading" /\ UNCHANGED left
     \/ /\ ~served[Len(served)].joined
        /\ doing' = "rollback" /\ left' = 1
  /\ UNCHANGED <<flipper, job, answer, queue, ddec, dage, echo, stranger, history, bounds>>

EndRollback ==
  /\ doing = "rollback" /\ left = 0 /\ doing' = "reading"
  /\ UNCHANGED <<flipper, job, left, answer, queue, ddec, dage, echo, stranger, history, bounds>>

-----------------------------------------------------------------------------
(* The other Flipper, and the clock.                                       *)

StrangerTransmits ==
  /\ stranger = <<>> /\ attempt + strangers < MaxSends /\ strangers < MaxStrangers
  /\ strangers' = strangers + 1
  /\ \E text \in Requests : stranger' = Burst(text, Stranger)
  /\ UNCHANGED <<flipper, daemon, echo, history, lost>>

StrangerMessage(miss) ==
  /\ stranger # <<>> /\ miss \subseteq {"daemon", "flipper"}
  /\ ReachesDaemon(Head(stranger), miss) /\ ReachesFlipper(Head(stranger), miss)
  /\ Missed(miss) /\ stranger' = Tail(stranger)
  /\ told' = IF told = "clean" THEN "spoilt" ELSE told
  /\ UNCHANGED <<cred, outgoing, wait, doing, job, left, answer, ddec, dage, echo,
                 attempt, served, hasty, strangers>>

Older(d, age) == IF d.open /\ age < Timeout THEN age + 1 ELSE age

Tick ==
  /\ screen # "sending" /\ stranger = <<>> /\ doing # "answering"
  /\ ~Unread /\ (doing # "reading" => left > 0)
  /\ screen = "waiting" => wait < AckTimeout
  /\ wait' = IF screen = "waiting" THEN wait + 1 ELSE wait
  /\ left' = IF doing # "reading" THEN left - 1 ELSE left
  /\ fage' = Older(fdec, fage) /\ dage' = Older(ddec, dage)
  /\ UNCHANGED <<screen, cred, outgoing, fdec, doing, job, answer, queue, ddec, echo,
                 stranger, history, bounds>>

Receivers == SUBSET {"daemon", "flipper"}

Next ==
  \/ Confirm \/ Retry \/ Leave \/ TimedOut
  \/ ReadMessage \/ AnswerFails \/ Answered \/ EndRollback
  \/ \E joined, addressed \in BOOLEAN : EndJoin(joined, addressed)
  \/ \E miss \in Receivers : SendMessage(miss) \/ AnswerMessage(miss) \/ StrangerMessage(miss)
  \/ StrangerTransmits \/ Tick

Spec == Init /\ [][Next]_vars

-----------------------------------------------------------------------------
\* The daemon acts on no transmission of the Flipper twice, whatever is lost
\* and whatever else it hears.
ServedOnce ==
  \A i, j \in DOMAIN served :
    served[i].src = served[j].src /\ i # j => served[i].src.who # "flipper"

\* With nobody else sending and a user who begins no attempt while an answer is
\* outstanding, it does not act on an answer of its own that its receiver saw,
\* whatever is missed; and if nothing is missed, on nothing but what was sent,
\* as it was sent, in whatever state answers and attempts given up half-way
\* have left its decoder.  Each condition is needed: without it the decoder may
\* hold bytes of two bursts, and some mixes have the right check byte.
OnlyRequestsServed ==
  /\ ServedOnce
  /\ ~hasty /\ strangers = 0 =>
       \A i \in DOMAIN served :
         served[i].src # Daemon /\ (lost = 0 => served[i].text \in Requests)

\* An answer that reached the Flipper whole before its time was up is on its
\* screen, whatever was heard before it in this or an earlier wait: no START
\* of an answer is thrown away for an older one that timed out.
WholeAnswerShown ==
  told = "whole" =>
    \A i \in DOMAIN served :
      served[i].src = Attempt(attempt) => screen = Verdict(served[i].answer)

\* What the server said, as it should be told on screen.
ResultIsTrue ==
  screen \in {"connected", "refused"} =>
    \E i \in DOMAIN served :
      served[i].src = Attempt(attempt) /\ screen = Verdict(served[i].answer)
      /\ (screen = "connected" => served[i].joined)

\* With nobody else sending, a user who begins no attempt while an answer is
\* outstanding is never told wrong: "Connected!" is of a join of this attempt's
\* credentials that succeeded.
PatientUserIsToldTrue == ~hasty /\ strangers = 0 => ResultIsTrue
=============================================================================
