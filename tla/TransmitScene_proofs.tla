------------------------ MODULE TransmitScene_proofs ------------------------
(***************************************************************************)
(* Theorems about TransmitScene, for any number of keys and answers and    *)
(* any dismissal times.  SceneInv is the invariant that every step keeps:  *)
(* where each handler stands and what has stopped by then, what the events *)
(* on their way still speak of, and which keys may be queued among them.   *)
(***************************************************************************)
EXTENDS TransmitScene, TLAPS

(* A handler stands where the operations left to it say: what it is for is  *)
(* the last of them (Goal), how far it has come is how many they are.      *)

Verdicts == {"connected", "joinfailed", "noreply"}
Goals == Verdicts \cup {"leave", "launch", "finished"}

Body(goal) ==
  CASE goal = "leave"    -> Dismiss
    [] goal = "launch"   -> StartTx
    [] goal = "finished" -> StopTx \o <<"finished">>
    [] OTHER             -> StopAckListener \o <<goal>>

Length(goal) == IF goal \in {"leave", "launch"} THEN 5 ELSE 3

Suffixes(s) ==
  { p \in Seq(Ops) : /\ Len(p) \in 1 .. Len(s)
                     /\ \A k \in 1 .. Len(p) : p[k] = s[Len(s) - Len(p) + k] }
Running == UNION { Suffixes(Body(goal)) : goal \in Goals }
Programs == {<<>>} \cup Running

Aim(p) == p[Len(p)]
Goal == IF todo = <<>> THEN "none" ELSE Aim(todo)
Left == Len(todo)

\* Where an operation stands in the handlers.
Stands(name, goal, left) ==
  \/ goal = "launch" /\ left = 5 /\ name = "stopTimer"
  \/ goal = "launch" /\ left = 4 /\ name = "stopWorker"
  \/ goal = "leave" /\ left = 5 /\ name = "cancel"
  \/ goal = "leave" /\ left = 4 /\ name = "join"
  \/ goal \in {"launch", "finished"} /\ left = 3 /\ name = "cancel"
  \/ goal \in {"launch", "finished"} /\ left = 2 /\ name = "join"
  \/ goal \in Verdicts \cup {"leave"} /\ left = 3 /\ name = "stopTimer"
  \/ goal \in Verdicts \cup {"leave"} /\ left = 2 /\ name = "stopWorker"
  \/ goal \in Goals /\ left = 1 /\ name = goal

(* What is on its way, event by event.                                     *)

AckReports == Answers \cup {"AckTimeout"}
Reports == AckReports \cup {"TxFinished"}
Is(i, kinds) == queue[i].kind \in kinds
InQueue(kinds) == \E i \in DOMAIN queue : Is(i, kinds)
Acked == InQueue(AckReports)
Answered == InQueue({"AckSuccess"})
Finished == InQueue({"TxFinished"})

\* Reports are of the attempt on screen, and one TX thread reports once.
Current == \A i \in DOMAIN queue : Is(i, Reports) => queue[i].attempt = attempt
FinishedOnce ==
  \A i, j \in DOMAIN queue : Is(i, {"TxFinished"}) /\ Is(j, {"TxFinished"}) => i = j

\* Events are in the order of the attempts they were posted in, and a Retry is
\* behind the reports of its attempt.
Ordered ==
  /\ \A i \in DOMAIN queue : queue[i].attempt \leq attempt
  /\ \A i, j \in DOMAIN queue : i < j => queue[i].attempt \leq queue[j].attempt
  /\ \A i, j \in DOMAIN queue :
       i < j /\ Is(i, {"StatusRight"}) /\ Is(j, Reports) => queue[i].attempt < queue[j].attempt
FreshRetry == \E i \in DOMAIN queue : Is(i, {"StatusRight"}) /\ queue[i].attempt = attempt
OldRetry == \E i \in DOMAIN queue : Is(i, {"StatusRight"}) /\ queue[i].attempt < attempt

\* The keys on the way: at most two, and those that lead to the scene are not
\* queued before a report, one for each screen.
TwoAhead == \A i, j, k \in KeysAhead : ~(i < j /\ j < k)
ForwardOnce == \A i, j \in DOMAIN queue : Is(i, Forward) /\ Is(j, Forward) => i = j
SendFirst ==
  \E i, j \in DOMAIN queue : i < j /\ Is(i, {"ConfirmSend"}) /\ Is(j, Reports)
WayFirst ==
  \E i, j, k \in DOMAIN queue :
    i < j /\ j < k /\ Is(i, {"Navigate"}) /\ Is(j, {"ConfirmSend"}) /\ Is(k, Reports)

Waited == {"waiting", "connected", "joinfailed", "noreply"}
Quiet == tx_thread = "none" /\ ~listening /\ callback = "none" /\ ~ack_timer

-----------------------------------------------------------------------------
\* The TX thread and the listener exclude each other, and live on their own
\* screens.
ThreadInv ==
  /\ callback # "none" => listening
  /\ listening \/ ack_timer => scene = "transmit" /\ mode = "waiting" /\ tx_thread = "none"
  /\ tx_thread # "none" => scene = "transmit" /\ mode = "transmit"
  /\ scene # "transmit" => todo = <<>> /\ dismiss_ticks = 0
  /\ retry_allowed => mode \in Failures
  /\ dismiss_ticks > 0 => mode \in {"connected", "sent"}
  /\ tx_ok => attempt \in sent
  /\ saved \subseteq sent

\* What has stopped when a handler has come so far.
ProgramInv ==
  /\ todo \in Programs
  /\ Goal = "launch" => Quiet /\ ~Acked /\ ~Finished
  /\ Goal = "finished" =>
       /\ tx_thread \in {"none", "done"} /\ mode = "transmit" /\ ~Finished
       /\ Left = 1 => tx_thread = "none"
  /\ Goal \in Verdicts =>
       /\ tx_thread = "none" /\ mode \in Waited
       /\ Left \leq 2 => ~ack_timer
       /\ Left = 1 => Quiet
  /\ Goal = "leave" =>
       /\ Left \leq 3 => tx_thread = "none"
       /\ Left \leq 2 => ~ack_timer
       /\ Left = 1 => Quiet

\* What is reported is of this attempt and of this phase of it.
ReportInv ==
  scene = "transmit" =>
    /\ Current /\ FinishedOnce
    /\ Acked => mode \in Waited
    /\ Finished => tx_thread \in {"none", "done"} /\ mode = "transmit"

\* A Retry of this attempt was pressed on a result, after which nothing is
\* reported; one of an earlier attempt is gone when a failure is on screen.
KeyInv ==
  /\ Ordered
  /\ mode \notin Results => ~FreshRetry
  /\ Goal \in Verdicts \cup {"finished"} => ~OldRetry
  /\ scene = "transmit" /\ todo = <<>> /\ retry_allowed => ~OldRetry

WayInv ==
  /\ TwoAhead
  /\ scene = "transmit" => ForwardOnce
  /\ scene = "confirm" => ~SendFirst
  /\ scene = "menu" => ~WayFirst

\* The text that "Connected!" shows, from the decoder to the screen.
TextInv ==
  /\ \/ callback = "AckSuccess"
     \/ scene = "transmit" /\ Answered
     \/ Goal = "connected"
     => ack_text = attempt /\ attempt \in heard
  /\ mode = "connected" => line1 = attempt /\ attempt \in heard

SceneInv == TypeOK /\ ThreadInv /\ ProgramInv /\ ReportInv /\ KeyInv /\ WayInv /\ TextInv

-----------------------------------------------------------------------------
(* The handlers.                                                           *)

Catenated(s, t, p) ==
  /\ p \in Seq(Ops) /\ Len(p) = Len(s) + Len(t)
  /\ \A i \in 1 .. Len(s) : p[i] = s[i]
  /\ \A i \in 1 .. Len(t) : p[Len(s) + i] = t[i]

LEMMA Catenation ==
  ASSUME NEW s \in Seq(Ops), NEW t \in Seq(Ops)
  PROVE  Catenated(s, t, s \o t)
<1>1. PICK p : p = s \o t
  OBVIOUS
<1>2. QED
  BY <1>1 DEF Catenated

ThreeLong(s, l, p) ==
  p \in Seq(Ops) /\ Len(p) = 3 /\ p[1] = s[1] /\ p[2] = s[2] /\ p[3] = l[1]

LEMMA ThreeOps ==
  ASSUME NEW s \in Seq(Ops), NEW l \in Seq(Ops), Len(s) = 2, Len(l) = 1
  PROVE  ThreeLong(s, l, s \o l)
<1>1. PICK p : p = s \o l
  OBVIOUS
<1>2. Catenated(s, l, p)
  BY <1>1, Catenation
<1>3. QED
  BY <1>1, <1>2 DEF Catenated, ThreeLong

FiveLong(s, t, l, p) ==
  /\ p \in Seq(Ops) /\ Len(p) = 5
  /\ p[1] = s[1] /\ p[2] = s[2] /\ p[3] = t[1] /\ p[4] = t[2] /\ p[5] = l[1]

LEMMA FiveOps ==
  ASSUME NEW s \in Seq(Ops), NEW t \in Seq(Ops), NEW l \in Seq(Ops),
         Len(s) = 2, Len(t) = 2, Len(l) = 1
  PROVE  FiveLong(s, t, l, s \o t \o l)
<1>0. PICK q, p : q = s \o t /\ p = q \o l
  OBVIOUS
<1>1. Catenated(s, t, q)
  BY <1>0, Catenation
<1>2. q \in Seq(Ops) /\ Len(q) = 4 /\ q[1] = s[1] /\ q[2] = s[2] /\ q[3] = t[1] /\ q[4] = t[2]
  BY <1>1 DEF Catenated
<1>3. Catenated(q, l, p)
  BY <1>0, <1>2, Catenation
<1>4. Len(p) = 5 /\ p[1] = q[1] /\ p[2] = q[2] /\ p[3] = q[3] /\ p[4] = q[4] /\ p[5] = l[1]
  BY <1>2, <1>3 DEF Catenated
<1>5. QED
  BY <1>0, <1>2, <1>3, <1>4 DEF Catenated, FiveLong

LEMMA Pairs ==
  /\ StopTx \in Seq(Ops) /\ Len(StopTx) = 2 /\ StopTx[1] = "cancel" /\ StopTx[2] = "join"
  /\ StopAckListener \in Seq(Ops) /\ Len(StopAckListener) = 2
  /\ StopAckListener[1] = "stopTimer" /\ StopAckListener[2] = "stopWorker"
BY DEF StopTx, StopAckListener, Ops

LEMMA Bodies ==
  ASSUME NEW goal \in Goals
  PROVE  LET s == Body(goal) IN
         /\ s \in Seq(Ops) /\ Len(s) = Length(goal) /\ Aim(s) = goal
         /\ \A left \in 1 .. Len(s) : Stands(s[Len(s) - left + 1], goal, left)
<1>1. PICK s, l : s = Body(goal) /\ l = <<goal>>
  OBVIOUS
<1>2. l \in Seq(Ops) /\ Len(l) = 1 /\ l[1] = goal
  BY <1>1 DEF Goals, Verdicts, Ops
<1>3. CASE goal \in {"leave", "launch"}
  <2>1. CASE goal = "leave"
    <3>1. s = StopTx \o StopAckListener \o l
      BY <1>1, <2>1 DEF Body, Dismiss
    <3>2. /\ s \in Seq(Ops) /\ Len(s) = 5 /\ s[1] = "cancel" /\ s[2] = "join"
          /\ s[3] = "stopTimer" /\ s[4] = "stopWorker" /\ s[5] = "leave"
      <4>1. FiveLong(StopTx, StopAckListener, l, s)
        BY <1>2, <3>1, FiveOps, Pairs
      <4>2. QED
        BY <1>2, <2>1, <4>1, Pairs DEF FiveLong
    <3>3. /\ Stands(s[5], goal, 1) /\ Stands(s[4], goal, 2) /\ Stands(s[3], goal, 3)
          /\ Stands(s[2], goal, 4) /\ Stands(s[1], goal, 5)
      BY <2>1, <3>2 DEF Stands, Goals, Verdicts
    <3>4. \A left \in 1 .. 5 : Stands(s[5 - left + 1], goal, left)
      <4>1. TAKE left \in 1 .. 5
      <4>2. \/ left = 1 /\ 5 - left + 1 = 5
            \/ left = 2 /\ 5 - left + 1 = 4
            \/ left = 3 /\ 5 - left + 1 = 3
            \/ left = 4 /\ 5 - left + 1 = 2
            \/ left = 5 /\ 5 - left + 1 = 1
        OBVIOUS
      <4>3. QED
        BY <3>3, <4>2
    <3>5. QED
      BY <1>1, <2>1, <3>2, <3>4 DEF Aim, Length
  <2>2. CASE goal = "launch"
    <3>1. s = StopAckListener \o StopTx \o l
      BY <1>1, <2>2 DEF Body, StartTx
    <3>2. /\ s \in Seq(Ops) /\ Len(s) = 5 /\ s[1] = "stopTimer" /\ s[2] = "stopWorker"
          /\ s[3] = "cancel" /\ s[4] = "join" /\ s[5] = "launch"
      <4>1. FiveLong(StopAckListener, StopTx, l, s)
        BY <1>2, <3>1, FiveOps, Pairs
      <4>2. QED
        BY <1>2, <2>2, <4>1, Pairs DEF FiveLong
    <3>3. /\ Stands(s[5], goal, 1) /\ Stands(s[4], goal, 2) /\ Stands(s[3], goal, 3)
          /\ Stands(s[2], goal, 4) /\ Stands(s[1], goal, 5)
      BY <2>2, <3>2 DEF Stands, Goals, Verdicts
    <3>4. \A left \in 1 .. 5 : Stands(s[5 - left + 1], goal, left)
      <4>1. TAKE left \in 1 .. 5
      <4>2. \/ left = 1 /\ 5 - left + 1 = 5
            \/ left = 2 /\ 5 - left + 1 = 4
            \/ left = 3 /\ 5 - left + 1 = 3
            \/ left = 4 /\ 5 - left + 1 = 2
            \/ left = 5 /\ 5 - left + 1 = 1
        OBVIOUS
      <4>3. QED
        BY <3>3, <4>2
    <3>5. QED
      BY <1>1, <2>2, <3>2, <3>4 DEF Aim, Length
  <2>3. QED
    BY <1>3, <2>1, <2>2
<1>4. CASE goal = "finished"
  <2>1. s \in Seq(Ops) /\ Len(s) = 3 /\ s[1] = "cancel" /\ s[2] = "join" /\ s[3] = "finished"
    <3>1. s = StopTx \o l
      BY <1>1, <1>4 DEF Body
    <3>2. ThreeLong(StopTx, l, s)
      BY <1>2, <3>1, ThreeOps, Pairs
    <3>3. QED
      BY <1>2, <1>4, <3>2, Pairs DEF ThreeLong
  <2>2. \A left \in 1 .. 3 : Stands(s[3 - left + 1], goal, left)
    BY <1>4, <2>1 DEF Stands, Goals, Verdicts
  <2>3. QED
    BY <1>1, <1>4, <2>1, <2>2 DEF Aim, Length
<1>5. CASE goal \in Verdicts
  <2>1. s \in Seq(Ops) /\ Len(s) = 3 /\ s[1] = "stopTimer" /\ s[2] = "stopWorker" /\ s[3] = goal
    <3>1. s = StopAckListener \o l
      BY <1>1, <1>5 DEF Body, Verdicts
    <3>2. ThreeLong(StopAckListener, l, s)
      BY <1>2, <3>1, ThreeOps, Pairs
    <3>3. QED
      BY <1>2, <3>2, Pairs DEF ThreeLong
  <2>2. \A left \in 1 .. 3 : Stands(s[3 - left + 1], goal, left)
    BY <1>5, <2>1 DEF Stands, Goals, Verdicts
  <2>3. QED
    BY <1>1, <1>5, <2>1, <2>2 DEF Aim, Length, Verdicts
<1>6. QED
  BY <1>3, <1>4, <1>5 DEF Goals

\* A handler that has just begun.
LEMMA Begun ==
  ASSUME NEW goal \in Goals
  PROVE  Body(goal) \in Running
<1>1. PICK s : s = Body(goal)
  OBVIOUS
<1>2. s \in Seq(Ops) /\ Len(s) \in 1 .. 5
  BY <1>1, Bodies DEF Length
<1>3. s \in Suffixes(s)
  <2>1. ASSUME NEW k \in 1 .. Len(s)
        PROVE  s[k] = s[Len(s) - Len(s) + k]
    BY <1>2
  <2>2. PICK m \in 1 .. 5 : m = Len(s)
    BY <1>2
  <2>3. m \in 1 .. m
    OBVIOUS
  <2>4. QED
    BY <1>2, <2>1, <2>2, <2>3 DEF Suffixes
<1>4. QED
  BY <1>1, <1>3 DEF Running

\* What is left after one operation of a handler.
LEMMA OneStep ==
  ASSUME NEW p \in Running
  PROVE  /\ p \in Seq(Ops) /\ Len(p) \in 1 .. 5
         /\ Aim(p) \in Goals /\ Stands(Head(p), Aim(p), Len(p))
         /\ Len(Tail(p)) = Len(p) - 1
         /\ IF Len(p) = 1 THEN Tail(p) = <<>>
                         ELSE Tail(p) \in Running /\ Aim(Tail(p)) = Aim(p)
<1>1. PICK goal \in Goals : p \in Suffixes(Body(goal))
  BY DEF Running
<1>2. PICK s : s = Body(goal)
  OBVIOUS
<1>3. /\ s \in Seq(Ops) /\ Len(s) \in 1 .. 5 /\ s[Len(s)] = goal
      /\ \A left \in 1 .. Len(s) : Stands(s[Len(s) - left + 1], goal, left)
  BY <1>2, Bodies DEF Aim, Length
<1>4. p \in Seq(Ops) /\ Len(p) \in 1 .. Len(s) /\ \A k \in 1 .. Len(p) : p[k] = s[Len(s) - Len(p) + k]
  BY <1>1, <1>2 DEF Suffixes
<1>5. Aim(p) = goal
  <2>1. p[Len(p)] = s[Len(s) - Len(p) + Len(p)] /\ Len(s) - Len(p) + Len(p) = Len(s)
    BY <1>3, <1>4
  <2>2. QED
    BY <1>3, <2>1 DEF Aim
<1>6. Stands(Head(p), goal, Len(p))
  <2>1. Head(p) = p[1] /\ p[1] = s[Len(s) - Len(p) + 1]
    BY <1>4
  <2>2. QED
    BY <1>3, <1>4, <2>1
<1>7. PICK q : q = Tail(p)
  OBVIOUS
<1>8. q \in Seq(Ops) /\ Len(q) = Len(p) - 1 /\ \A k \in 1 .. Len(p) - 1 : q[k] = p[k + 1]
  BY <1>4, <1>7
<1>11. Len(p) \in 1 .. 5
  <2>1. PICK m, n \in Nat : m = Len(p) /\ n = Len(s)
    BY <1>3, <1>4
  <2>2. n \in 1 .. 5 /\ m \in 1 .. n
    BY <1>3, <1>4, <2>1
  <2>3. m \in 1 .. 5
    BY <2>2
  <2>4. QED
    BY <2>1, <2>3
<1>9. CASE Len(p) = 1
  <2>1. q = <<>>
    BY <1>8, <1>9
  <2>2. QED
    BY <1>3, <1>4, <1>5, <1>6, <1>7, <1>8, <1>9, <2>1
<1>10. CASE Len(p) # 1
  <2>1. ASSUME NEW k \in 1 .. Len(q)
        PROVE  q[k] = s[Len(s) - Len(q) + k]
    <3>1. k + 1 \in 1 .. Len(p) /\ q[k] = p[k + 1]
      BY <1>4, <1>8
    <3>2. p[k + 1] = s[Len(s) - Len(p) + (k + 1)]
      BY <1>4, <3>1
    <3>3. Len(s) - Len(p) + (k + 1) = Len(s) - Len(q) + k
      BY <1>3, <1>4, <1>8
    <3>4. QED
      BY <3>1, <3>2, <3>3
  <2>2. Len(q) \in 1 .. Len(s)
    BY <1>3, <1>4, <1>8, <1>10
  <2>3. q \in Suffixes(s)
    BY <1>8, <2>1, <2>2 DEF Suffixes
  <2>4. q[Len(q)] = s[Len(s) - Len(q) + Len(q)] /\ Len(s) - Len(q) + Len(q) = Len(s)
    BY <1>3, <1>8, <2>1, <2>2
  <2>5. q \in Running /\ Aim(q) = goal
    BY <1>2, <1>3, <2>3, <2>4 DEF Running, Aim
  <2>6. QED
    BY <1>4, <1>5, <1>6, <1>7, <1>8, <1>10, <1>11, <2>5
<1>12. QED
  BY <1>9, <1>10

LEMMA Programmed ==
  ASSUME NEW p \in Programs
  PROVE  p \in Seq(Ops) /\ (p \in Running <=> p # <<>>)
<1>1. CASE p = <<>>
  <2>1. p \notin Running
    <3>1. SUFFICES ASSUME p \in Running
                   PROVE  FALSE
      OBVIOUS
    <3>2. Len(p) \in 1 .. 5
      BY <3>1, OneStep
    <3>3. QED
      BY <1>1, <3>2
  <2>2. QED
    BY <1>1, <2>1
<1>2. CASE p \in Running
  <2>1. p \in Seq(Ops) /\ Len(p) \in 1 .. 5
    BY <1>2, OneStep
  <2>2. p # <<>>
    <3>1. Len(p) \in 1 .. 5
      BY <2>1
    <3>2. QED
      BY <3>1
  <2>3. QED
    BY <1>2, <2>1, <2>2
<1>3. QED
  BY <1>1, <1>2 DEF Programs

LEMMA Stepped ==
  ASSUME todo \in Programs, NEW name, Op(name)
  PROVE  /\ todo' \in Programs /\ Left \in 1 .. 5 /\ Goal \in Goals
         /\ Stands(name, Goal, Left)
         /\ Left' = Left - 1 /\ Goal' = IF Left = 1 THEN "none" ELSE Goal
         /\ todo # <<>> /\ todo' \in Seq(Ops) /\ (todo' = <<>> <=> Left = 1)
<1>1. todo # <<>> /\ Head(todo) = name /\ todo' = Tail(todo)
  BY DEF Op
<1>2. todo \in Running
  BY <1>1 DEF Programs
<1>3. /\ todo \in Seq(Ops) /\ Left \in 1 .. 5
      /\ Goal \in Goals /\ Stands(name, Goal, Left)
      /\ Left' = Left - 1
      /\ IF Left = 1 THEN todo' = <<>> ELSE todo' \in Running /\ Aim(todo') = Goal
  BY <1>1, <1>2, OneStep DEF Goal, Left
<1>4. todo' \in Programs
  BY <1>3 DEF Programs
<1>5. todo' = <<>> <=> Left = 1
  BY <1>3, <1>4, Programmed
<1>6. Goal' = IF Left = 1 THEN "none" ELSE Goal
  BY <1>3, <1>5 DEF Goal
<1>7. QED
  BY <1>1, <1>3, <1>4, <1>5, <1>6, Programmed

LEMMA Started ==
  ASSUME NEW goal \in Goals, todo' = Body(goal)
  PROVE  /\ todo' \in Programs /\ todo' \in Seq(Ops) /\ todo' # <<>>
         /\ Goal' = goal /\ Left' = Length(goal)
<1>1. todo' \in Programs
  BY Begun DEF Programs
<1>2. PICK p : p = todo'
  OBVIOUS
<1>3. p \in Seq(Ops) /\ Len(p) = Length(goal) /\ Aim(p) = goal
  BY <1>2, Bodies
<1>4. p # <<>>
  <2>1. Len(p) \in 1 .. 5
    BY <1>3 DEF Length
  <2>2. QED
    BY <2>1
<1>5. Left' = Len(p) /\ Goal' = Aim(p)
  BY <1>2, <1>4 DEF Left, Goal
<1>6. QED
  BY <1>1, <1>2, <1>3, <1>4, <1>5

-----------------------------------------------------------------------------
(* The queue.                                                              *)

LEMMA SameQueue ==
  ASSUME UNCHANGED <<queue, attempt>>
  PROVE  /\ Acked' <=> Acked
         /\ Answered' <=> Answered
         /\ Finished' <=> Finished
         /\ Current' <=> Current
         /\ FinishedOnce' <=> FinishedOnce
         /\ Ordered' <=> Ordered
         /\ FreshRetry' <=> FreshRetry
         /\ OldRetry' <=> OldRetry
         /\ TwoAhead' <=> TwoAhead
         /\ ForwardOnce' <=> ForwardOnce
         /\ SendFirst' <=> SendFirst
         /\ WayFirst' <=> WayFirst
<1> USE DEF InQueue, Is
<1>1. Acked' <=> Acked
  BY DEF Acked
<1>2. Answered' <=> Answered
  BY DEF Answered
<1>3. Finished' <=> Finished
  BY DEF Finished
<1>4. Current' <=> Current
  BY DEF Current
<1>5. FinishedOnce' <=> FinishedOnce
  BY DEF FinishedOnce
<1>6. Ordered' <=> Ordered
  BY DEF Ordered
<1>7. FreshRetry' <=> FreshRetry
  BY DEF FreshRetry
<1>8. OldRetry' <=> OldRetry
  BY DEF OldRetry
<1>9. TwoAhead' <=> TwoAhead
  BY DEF TwoAhead, KeysAhead
<1>10. ForwardOnce' <=> ForwardOnce
  BY DEF ForwardOnce
<1>11. SendFirst' <=> SendFirst
  BY DEF SendFirst
<1>12. WayFirst' <=> WayFirst
  BY DEF WayFirst
<1>13. QED
  BY <1>1, <1>2, <1>3, <1>4, <1>5, <1>6, <1>7, <1>8, <1>9, <1>10, <1>11, <1>12

\* An event is posted.
LEMMA Appended ==
  ASSUME queue \in Seq(Event), attempt \in Nat, NEW kind \in Events, Post(kind)
  PROVE  /\ queue' \in Seq(Event)
         /\ Len(queue) \in Nat
         /\ DOMAIN queue = 1 .. Len(queue) /\ DOMAIN queue' = 1 .. (Len(queue) + 1)
         /\ \A i \in 1 .. Len(queue) : queue'[i] = queue[i] /\ queue[i] \in Event
         /\ queue'[Len(queue) + 1] = [kind |-> kind, attempt |-> attempt]
<1>1. PICK e : e = [kind |-> kind, attempt |-> attempt]
  OBVIOUS
<1>2. e \in Event
  BY <1>1 DEF Event
<1>3. queue' = Append(queue, e)
  BY <1>1 DEF Post
<1>4. QED
  BY <1>1, <1>2, <1>3

LEMMA Grows ==
  ASSUME queue \in Seq(Event), attempt \in Nat, NEW kind \in Events, Post(kind),
         UNCHANGED attempt
  PROVE  /\ Acked' <=> Acked \/ kind \in AckReports
         /\ Answered' <=> Answered \/ kind = "AckSuccess"
         /\ Finished' <=> Finished \/ kind = "TxFinished"
         /\ Current => Current'
         /\ FinishedOnce /\ ~(Finished /\ kind = "TxFinished") => FinishedOnce'
         /\ Ordered /\ ~(FreshRetry /\ kind \in Reports) => Ordered'
         /\ FreshRetry' <=> FreshRetry \/ kind = "StatusRight"
         /\ OldRetry' <=> OldRetry
         /\ ForwardOnce /\ kind \notin Forward => ForwardOnce'
         /\ kind \notin Reports => (SendFirst' <=> SendFirst) /\ (WayFirst' <=> WayFirst)
<1>1. PICK n \in Nat : n = Len(queue)
  BY Appended
<1>2. PICK q : q = queue'
  OBVIOUS
<1>3. /\ DOMAIN queue = 1 .. n /\ DOMAIN q = 1 .. (n + 1)
      /\ \A i \in 1 .. n : q[i] = queue[i] /\ queue[i] \in Event
      /\ q[n + 1].kind = kind /\ q[n + 1].attempt = attempt
  <2>1. q[n + 1] = [kind |-> kind, attempt |-> attempt]
    BY <1>1, <1>2, Appended
  <2>2. /\ DOMAIN queue = 1 .. n /\ DOMAIN q = 1 .. (n + 1)
        /\ \A i \in 1 .. n : q[i] = queue[i] /\ queue[i] \in Event
    BY <1>1, <1>2, Appended
  <2>3. QED
    BY <2>1, <2>2
<1>4. \A kinds : InQueue(kinds)' <=> InQueue(kinds) \/ kind \in kinds
  BY <1>2, <1>3 DEF InQueue, Is
<1>5. /\ Acked' <=> Acked \/ kind \in AckReports
      /\ Answered' <=> Answered \/ kind = "AckSuccess"
      /\ Finished' <=> Finished \/ kind = "TxFinished"
  BY <1>4 DEF Acked, Answered, Finished
<1>6. Current => Current'
  BY <1>2, <1>3 DEF Current, Is
<1>7. FinishedOnce /\ ~(Finished /\ kind = "TxFinished") => FinishedOnce'
  BY <1>2, <1>3 DEF FinishedOnce, Finished, InQueue, Is
<1>8. ASSUME Ordered, ~(FreshRetry /\ kind \in Reports)
      PROVE  Ordered'
  <2>1. \A i \in 1 .. n : queue[i].attempt \in Nat /\ queue[i].attempt \leq attempt
    BY <1>3, <1>8 DEF Ordered, Event
  <2>2. \A i \in 1 .. (n + 1) : q[i].attempt \leq attempt
    BY <1>3, <2>1
  <2>3. ASSUME NEW i \in 1 .. (n + 1), NEW j \in 1 .. (n + 1), i < j
        PROVE  q[i].attempt \leq q[j].attempt
    <3>1. i \in 1 .. n /\ q[i] = queue[i]
      BY <1>3, <2>3
    <3>2. CASE j \in 1 .. n
      BY <1>3, <1>8, <2>3, <3>1, <3>2 DEF Ordered
    <3>3. CASE j = n + 1
      BY <1>3, <2>1, <3>1, <3>3
    <3>4. QED
      BY <3>2, <3>3
  <2>4. ASSUME NEW i \in 1 .. (n + 1), NEW j \in 1 .. (n + 1), i < j,
               q[i].kind = "StatusRight", q[j].kind \in Reports
        PROVE  q[i].attempt < q[j].attempt
    <3>1. i \in 1 .. n /\ q[i] = queue[i]
      BY <1>3, <2>4
    <3>2. CASE j \in 1 .. n
      BY <1>3, <1>8, <2>4, <3>1, <3>2 DEF Ordered, Is
    <3>3. CASE j = n + 1
      <4>1. queue[i].attempt # attempt
        BY <1>3, <1>8, <2>4, <3>1, <3>3 DEF FreshRetry, Is
      <4>2. QED
        BY <1>3, <2>1, <3>1, <3>3, <4>1
    <3>4. QED
      BY <3>2, <3>3
  <2>5. QED
    BY <1>2, <1>3, <2>2, <2>3, <2>4 DEF Ordered, Is
<1>9. FreshRetry' <=> FreshRetry \/ kind = "StatusRight"
  BY <1>2, <1>3 DEF FreshRetry, Is
<1>10. OldRetry' <=> OldRetry
  BY <1>2, <1>3 DEF OldRetry, Is
<1>11. ForwardOnce /\ kind \notin Forward => ForwardOnce'
  BY <1>2, <1>3 DEF ForwardOnce, Is
<1>12. kind \notin Reports => (SendFirst' <=> SendFirst) /\ (WayFirst' <=> WayFirst)
  BY <1>2, <1>3 DEF SendFirst, WayFirst, Is
<1>13. QED
  BY <1>5, <1>6, <1>7, <1>8, <1>9, <1>10, <1>11, <1>12

LEMMA KeysGrow ==
  ASSUME queue \in Seq(Event), attempt \in Nat, NEW kind \in Events, Post(kind), TwoAhead,
         kind \notin Keys \cup Forward \/ \A i, j \in KeysAhead : i = j
  PROVE  TwoAhead'
<1>1. PICK n \in Nat : n = Len(queue)
  BY Appended
<1>2. PICK q : q = queue'
  OBVIOUS
<1>3. /\ DOMAIN queue = 1 .. n /\ DOMAIN q = 1 .. (n + 1)
      /\ \A i \in 1 .. n : q[i] = queue[i]
  BY <1>1, <1>2, Appended
<1>4. q[n + 1].kind = kind
  <2>1. q[n + 1] = [kind |-> kind, attempt |-> attempt]
    BY <1>1, <1>2, Appended
  <2>2. QED
    BY <2>1
<1>5. KeysAhead' \subseteq 1 .. (n + 1)
  BY <1>2, <1>3 DEF KeysAhead
<1>6. \A i \in KeysAhead' : i \in KeysAhead \/ (i = n + 1 /\ kind \in Keys \cup Forward)
  BY <1>2, <1>3, <1>4 DEF KeysAhead
<1>7. KeysAhead \subseteq 1 .. n
  BY <1>3 DEF KeysAhead
<1>8. QED
  BY <1>5, <1>6, <1>7 DEF TwoAhead

\* The first event is taken off.
LEMMA Shrinks ==
  ASSUME queue \in Seq(Event), queue # <<>>, queue' = Tail(queue), UNCHANGED attempt,
         attempt \in Nat
  PROVE  LET kind == Head(queue).kind IN
         /\ queue' \in Seq(Event) /\ kind \in Events
         /\ Acked' => Acked
         /\ Answered' => Answered
         /\ Finished' => Finished
         /\ kind \in AckReports => Acked
         /\ kind = "AckSuccess" => Answered
         /\ kind = "TxFinished" => Finished
         /\ Current => Current'
         /\ FinishedOnce => FinishedOnce'
         /\ FinishedOnce /\ kind = "TxFinished" => ~Finished'
         /\ Ordered => Ordered'
         /\ FreshRetry' => FreshRetry
         /\ OldRetry' => OldRetry
         /\ Ordered /\ Current /\ kind \in Reports => ~OldRetry'
         /\ Ordered /\ ~OldRetry /\ kind = "StatusRight" => ~Acked' /\ ~Finished'
         /\ TwoAhead => TwoAhead'
         /\ ForwardOnce => ForwardOnce'
         /\ TwoAhead /\ kind \in Forward => ForwardOnce'
         /\ SendFirst' => SendFirst
         /\ ~SendFirst /\ kind = "ConfirmSend" => ~Acked' /\ ~Finished'
         /\ WayFirst' => WayFirst
         /\ ~WayFirst /\ kind = "Navigate" => ~SendFirst'
<1>1. PICK n \in Nat : n = Len(queue)
  OBVIOUS
<1>2. PICK q, kind : q = queue' /\ kind = Head(queue).kind
  OBVIOUS
<1>3. /\ n \geq 1 /\ queue' \in Seq(Event) /\ queue[1].kind = kind
      /\ DOMAIN queue = 1 .. n /\ DOMAIN q = 1 .. (n - 1)
      /\ \A i \in 1 .. (n - 1) : q[i] = queue[i + 1]
      /\ \A i \in 1 .. n : queue[i] \in Event
  BY <1>1, <1>2
<1>4. \A i \in 1 .. (n - 1) : i + 1 \in 1 .. n /\ 1 < i + 1
  OBVIOUS
<1>5. kind \in Events
  BY <1>3 DEF Event
<1>6. \A kinds : InQueue(kinds)' => InQueue(kinds)
  BY <1>2, <1>3, <1>4 DEF InQueue, Is
<1>7. \A kinds : kind \in kinds => InQueue(kinds)
  BY <1>3 DEF InQueue, Is
<1>8. /\ Acked' => Acked
      /\ Answered' => Answered
      /\ Finished' => Finished
      /\ kind \in AckReports => Acked
      /\ kind = "AckSuccess" => Answered
      /\ kind = "TxFinished" => Finished
  BY <1>6, <1>7 DEF Acked, Answered, Finished
<1>9. Current => Current'
  BY <1>2, <1>3, <1>4 DEF Current, Is
<1>10. /\ FinishedOnce => FinishedOnce'
       /\ FinishedOnce /\ kind = "TxFinished" => ~Finished'
  BY <1>2, <1>3, <1>4 DEF FinishedOnce, Finished, InQueue, Is
<1>11. Ordered => Ordered'
  BY <1>2, <1>3, <1>4 DEF Ordered, Is
<1>12. FreshRetry' => FreshRetry
  BY <1>2, <1>3, <1>4 DEF FreshRetry, Is
<1>13. OldRetry' => OldRetry
  BY <1>2, <1>3, <1>4 DEF OldRetry, Is
<1>14. ASSUME Ordered, Current, kind \in Reports
       PROVE  ~OldRetry'
  <2>1. queue[1].attempt = attempt
    BY <1>3, <1>14 DEF Current, Is
  <2>2. ASSUME NEW i \in 1 .. n, 1 < i
        PROVE  queue[i].attempt \in Nat /\ attempt \leq queue[i].attempt
    <3>1. 1 \in DOMAIN queue /\ i \in DOMAIN queue
      BY <1>3
    <3>2. queue[1].attempt \leq queue[i].attempt
      BY <1>14, <2>2, <3>1 DEF Ordered
    <3>3. queue[i] \in Event
      BY <1>3
    <3>4. QED
      BY <2>1, <3>2, <3>3 DEF Event
  <2>3. \A i \in 1 .. (n - 1) : q[i].attempt \in Nat /\ attempt \leq q[i].attempt
    BY <1>3, <1>4, <2>2
  <2>4. QED
    BY <1>2, <1>3, <2>3 DEF OldRetry
<1>15. ASSUME Ordered, ~OldRetry, kind = "StatusRight"
       PROVE  ~Acked' /\ ~Finished'
  <2>1. \A i \in 1 .. n : queue[i].attempt \in Nat /\ queue[i].attempt \leq attempt
    BY <1>3, <1>15 DEF Ordered, Event
  <2>2. queue[1].attempt = attempt
    BY <1>3, <1>15, <2>1 DEF OldRetry, Is
  <2>3. ASSUME NEW i \in 1 .. n, 1 < i
        PROVE  queue[i].kind \notin Reports
    <3>1. 1 \in DOMAIN queue /\ i \in DOMAIN queue
      BY <1>3
    <3>2. queue[i].kind \in Reports => queue[1].attempt < queue[i].attempt
      BY <1>3, <1>15, <2>3, <3>1 DEF Ordered, Is
    <3>3. queue[i].attempt \in Nat /\ queue[i].attempt \leq attempt
      BY <2>1
    <3>4. QED
      BY <2>2, <3>2, <3>3
  <2>4. \A i \in 1 .. (n - 1) : q[i].kind \notin Reports
    BY <1>3, <1>4, <2>3
  <2>5. QED
    BY <1>2, <1>3, <2>4 DEF Acked, Finished, InQueue, Is, Reports
<1>16. TwoAhead => TwoAhead'
  <2>1. \A i \in KeysAhead' : i \in Nat /\ i + 1 \in KeysAhead
    BY <1>2, <1>3, <1>4 DEF KeysAhead
  <2>2. SUFFICES ASSUME TwoAhead, NEW i \in KeysAhead', NEW j \in KeysAhead', NEW k \in KeysAhead',
                        i < j, j < k
                 PROVE  FALSE
    BY DEF TwoAhead
  <2>3. i + 1 \in KeysAhead /\ j + 1 \in KeysAhead /\ k + 1 \in KeysAhead
    BY <2>1
  <2>4. i + 1 < j + 1 /\ j + 1 < k + 1
    <3>1. i \in Nat /\ j \in Nat /\ k \in Nat
      BY <2>1
    <3>2. QED
      BY <2>2, <3>1
  <2>5. QED
    BY <2>2, <2>3, <2>4 DEF TwoAhead
<1>17. ForwardOnce => ForwardOnce'
  BY <1>2, <1>3, <1>4 DEF ForwardOnce, Is
<1>18. ASSUME TwoAhead, kind \in Forward
       PROVE  ForwardOnce'
  <2>1. ASSUME NEW i \in 1 .. (n - 1), NEW j \in 1 .. (n - 1), i < j,
               q[i].kind \in Forward, q[j].kind \in Forward
        PROVE  FALSE
    <3>1. 1 \in KeysAhead /\ i + 1 \in KeysAhead /\ j + 1 \in KeysAhead
      BY <1>3, <1>4, <1>18, <2>1 DEF KeysAhead
    <3>2. 1 < i + 1 /\ i + 1 < j + 1
      BY <2>1
    <3>3. QED
      BY <1>18, <3>1, <3>2 DEF TwoAhead
  <2>2. \A i, j \in 1 .. (n - 1) : q[i].kind \in Forward /\ q[j].kind \in Forward => i = j
    BY <2>1
  <2>3. QED
    BY <1>2, <1>3, <2>2 DEF ForwardOnce, Is
<1>19. SendFirst' => SendFirst
  BY <1>2, <1>3, <1>4 DEF SendFirst, Is
<1>20. ~SendFirst /\ kind = "ConfirmSend" => ~Acked' /\ ~Finished'
  BY <1>2, <1>3, <1>4 DEF SendFirst, Acked, Finished, InQueue, Is, Reports
<1>21. WayFirst' => WayFirst
  <2>1. SUFFICES ASSUME NEW i \in 1 .. (n - 1), NEW j \in 1 .. (n - 1), NEW k \in 1 .. (n - 1),
                        i < j, j < k, q[i].kind = "Navigate", q[j].kind = "ConfirmSend",
                        q[k].kind \in Reports
                 PROVE  WayFirst
    BY <1>2, <1>3 DEF WayFirst, Is
  <2>2. /\ i + 1 \in DOMAIN queue /\ j + 1 \in DOMAIN queue /\ k + 1 \in DOMAIN queue
        /\ i + 1 < j + 1 /\ j + 1 < k + 1
    BY <1>3, <2>1
  <2>3. /\ queue[i + 1].kind = "Navigate" /\ queue[j + 1].kind = "ConfirmSend"
        /\ queue[k + 1].kind \in Reports
    BY <1>3, <2>1
  <2>4. ASSUME NEW a \in DOMAIN queue, NEW b \in DOMAIN queue, NEW c \in DOMAIN queue,
               a < b, b < c, queue[a].kind = "Navigate", queue[b].kind = "ConfirmSend",
               queue[c].kind \in Reports
        PROVE  WayFirst
    <3>1. Is(a, {"Navigate"}) /\ Is(b, {"ConfirmSend"}) /\ Is(c, Reports)
      BY <2>4 DEF Is
    <3>2. QED
      BY <2>4, <3>1 DEF WayFirst
  <2>5. QED
    BY <2>2, <2>3, <2>4
<1>22. ~WayFirst /\ kind = "Navigate" => ~SendFirst'
  BY <1>2, <1>3, <1>4 DEF WayFirst, SendFirst, Is
<1>23. QED
  BY <1>2, <1>3, <1>5, <1>8, <1>9, <1>10, <1>11, <1>12, <1>13, <1>14, <1>15, <1>16, <1>17,
     <1>18, <1>19, <1>20, <1>21, <1>22

\* What the one says of the other.
LEMMA Relations ==
  /\ Answered => Acked
  /\ ~Acked /\ ~Finished => Current /\ FinishedOnce
  /\ WayFirst => SendFirst
  /\ ForwardOnce => ~WayFirst
<1>1. Answered => Acked
  BY DEF Answered, Acked, InQueue, Is, AckReports, Answers
<1>2. ~Acked /\ ~Finished => Current /\ FinishedOnce
  BY DEF Acked, Finished, Current, FinishedOnce, InQueue, Is, Reports
<1>3. WayFirst => SendFirst
  BY DEF WayFirst, SendFirst
<1>4. ForwardOnce => ~WayFirst
  BY DEF ForwardOnce, WayFirst, Is, Forward
<1>5. QED
  BY <1>1, <1>2, <1>3, <1>4

-----------------------------------------------------------------------------
(* Every step keeps the invariant: first the TX thread...                  *)

LEMMA TxKeeps ==
  ASSUME SceneInv, TxProgress \/ (\E ok \in BOOLEAN : TxReturn(ok)) \/ TxCheck
  PROVE  SceneInv'
<1> USE DEF gui, tx, listener, history, bounds
<1>1. UNCHANGED <<scene, todo, line1, retry_allowed, dismiss_ticks, queue, ack_enabled,
                  listener, attempt, heard, saved, bounds, mode>>
  BY DEF TxProgress, TxReturn, TxCheck, SceneInv, ThreadInv
<1>2. TypeOK'
  <2>1. /\ tx_thread' \in {"none", "sending", "returned", "posting", "done"}
        /\ tx_cancel' \in BOOLEAN /\ tx_ok' \in BOOLEAN /\ sent' \subseteq 0 .. attempt
    <3>1. CASE TxProgress
      BY <3>1 DEF SceneInv, TypeOK, TxProgress
    <3>2. ASSUME NEW ok \in BOOLEAN, TxReturn(ok)
          PROVE  /\ tx_thread' = "returned" /\ tx_cancel' = tx_cancel /\ tx_ok' \in BOOLEAN
                 /\ sent' \subseteq 0 .. attempt
      BY <3>2 DEF SceneInv, TypeOK, TxReturn
    <3>3. CASE TxCheck
      BY <3>3 DEF SceneInv, TypeOK, TxCheck
    <3>4. QED
      BY <3>1, <3>2, <3>3 DEF SceneInv, TypeOK
  <2>2. QED
    BY <1>1, <2>1 DEF SceneInv, TypeOK
<1>3. tx_thread \in {"sending", "returned"} /\ tx_thread' \in {"sending", "returned", "posting", "done"}
  BY DEF TxProgress, TxReturn, TxCheck
<1>4. /\ tx_ok' => attempt \in sent'
      /\ sent \subseteq sent'
  BY DEF TxProgress, TxReturn, TxCheck, SceneInv, ThreadInv
<1>5. ThreadInv'
  BY <1>1, <1>3, <1>4 DEF SceneInv, ThreadInv
<1>6. Goal' = Goal /\ Left' = Left
  BY <1>1 DEF Goal, Left
<1>7. ProgramInv'
  BY <1>1, <1>3, <1>6, SameQueue DEF SceneInv, ProgramInv, Quiet
<1>8. ReportInv' /\ KeyInv' /\ WayInv' /\ TextInv'
  BY <1>1, <1>3, <1>6, SameQueue DEF SceneInv, ReportInv, KeyInv, WayInv, TextInv
<1>9. QED
  BY <1>2, <1>5, <1>7, <1>8 DEF SceneInv

\* ... whose report is the only one of its attempt;
LEMMA TxPostKeeps ==
  ASSUME SceneInv, TxPost
  PROVE  SceneInv'
<1> USE DEF gui, tx, listener, history, bounds
<1>1. Post("TxFinished") /\ "TxFinished" \in Events /\ queue \in Seq(Event) /\ attempt \in Nat
  BY DEF TxPost, SceneInv, TypeOK, Events, Answers, Keys
<1>2. UNCHANGED <<scene, todo, mode, line1, retry_allowed, dismiss_ticks, ack_enabled,
                  tx_cancel, tx_ok, listener, history, bounds>>
  BY DEF TxPost
<1>3. /\ tx_thread = "posting" /\ tx_thread' = "done"
      /\ scene = "transmit" /\ mode = "transmit" /\ mode \notin Results
      /\ ~Finished /\ ~FreshRetry /\ "TxFinished" \notin Keys \cup Forward
      /\ "TxFinished" \notin AckReports
  BY DEF TxPost, SceneInv, ThreadInv, ReportInv, KeyInv, Results, Failures, Keys, Forward,
         AckReports, Answers
<1>4. queue' \in Seq(Event)
  BY <1>1, Appended
<1>5. TypeOK'
  BY <1>2, <1>3, <1>4 DEF SceneInv, TypeOK
<1>6. ThreadInv'
  BY <1>2, <1>3 DEF SceneInv, ThreadInv
<1>7. Goal' = Goal /\ Left' = Left
  BY <1>2 DEF Goal, Left
<1>8. ProgramInv'
  BY <1>1, <1>2, <1>3, <1>7, Grows DEF SceneInv, ProgramInv, Quiet, AckReports, Answers
<1>9. ReportInv'
  BY <1>1, <1>2, <1>3, Grows DEF SceneInv, ReportInv, AckReports, Answers
<1>10. KeyInv'
  BY <1>1, <1>2, <1>3, <1>7, Grows DEF SceneInv, KeyInv
<1>11. WayInv'
  <2>1. TwoAhead'
    BY <1>1, <1>3, KeysGrow DEF SceneInv, WayInv
  <2>2. QED
    BY <1>1, <1>2, <1>3, <2>1, Grows DEF SceneInv, WayInv
<1>12. TextInv'
  BY <1>1, <1>2, <1>3, <1>7, Grows DEF SceneInv, TextInv
<1>13. QED
  BY <1>5, <1>6, <1>8, <1>9, <1>10, <1>11, <1>12 DEF SceneInv

\* the timer and the listener, while their answer is awaited;
LEMMA AckTimeoutKeeps ==
  ASSUME SceneInv, AckTimeout
  PROVE  SceneInv'
<1> USE DEF gui, tx, listener, history, bounds
<1>1. Post("AckTimeout") /\ "AckTimeout" \in Events /\ queue \in Seq(Event) /\ attempt \in Nat
  BY DEF AckTimeout, SceneInv, TypeOK, Events, Answers, Keys
<1>2. UNCHANGED <<scene, todo, mode, line1, retry_allowed, dismiss_ticks, ack_enabled,
                  tx, listening, callback, ack_text, history, bounds>>
  BY DEF AckTimeout
<1>3. /\ ack_timer /\ ack_timer' = FALSE
      /\ scene = "transmit" /\ mode = "waiting" /\ mode \notin Results /\ tx_thread = "none"
      /\ ~FreshRetry /\ "AckTimeout" \notin Keys \cup Forward
  BY DEF AckTimeout, SceneInv, ThreadInv, KeyInv, Results, Failures, Keys, Forward
<1>4. queue' \in Seq(Event)
  BY <1>1, Appended
<1>5. TypeOK'
  BY <1>2, <1>3, <1>4 DEF SceneInv, TypeOK
<1>6. ThreadInv'
  BY <1>2, <1>3 DEF SceneInv, ThreadInv
<1>7. Goal' = Goal /\ Left' = Left
  BY <1>2 DEF Goal, Left
<1>8. ProgramInv'
  BY <1>1, <1>2, <1>3, <1>7, Grows DEF SceneInv, ProgramInv, Quiet, AckReports, Answers
<1>9. ReportInv'
  BY <1>1, <1>2, <1>3, Grows DEF SceneInv, ReportInv, AckReports, Answers, Waited
<1>10. KeyInv'
  BY <1>1, <1>2, <1>3, <1>7, Grows DEF SceneInv, KeyInv
<1>11. WayInv'
  <2>1. TwoAhead'
    BY <1>1, <1>3, KeysGrow DEF SceneInv, WayInv
  <2>2. QED
    BY <1>1, <1>2, <1>3, <2>1, Grows DEF SceneInv, WayInv
<1>12. TextInv'
  BY <1>1, <1>2, <1>3, <1>7, Grows DEF SceneInv, TextInv
<1>13. QED
  BY <1>5, <1>6, <1>8, <1>9, <1>10, <1>11, <1>12 DEF SceneInv

LEMMA RxPostKeeps ==
  ASSUME SceneInv, RxPost
  PROVE  SceneInv'
<1> USE DEF gui, tx, listener, history, bounds
<1>1. Post(callback) /\ callback \in Events /\ queue \in Seq(Event) /\ attempt \in Nat
  BY DEF RxPost, SceneInv, TypeOK, Events, Answers, Keys
<1>2. UNCHANGED <<scene, todo, mode, line1, retry_allowed, dismiss_ticks, ack_enabled,
                  tx, listening, ack_timer, ack_text, history, bounds>>
  BY DEF RxPost
<1>3. /\ callback \in Answers /\ callback' = "none"
      /\ scene = "transmit" /\ mode = "waiting" /\ mode \notin Results /\ tx_thread = "none"
      /\ listening /\ ~FreshRetry /\ callback \notin Keys \cup Forward
      /\ callback \notin {"TxFinished", "StatusRight"}
  BY DEF RxPost, SceneInv, TypeOK, ThreadInv, KeyInv, Results, Failures, Keys, Forward, Answers
<1>4. queue' \in Seq(Event)
  BY <1>1, Appended
<1>5. TypeOK'
  BY <1>2, <1>3, <1>4 DEF SceneInv, TypeOK
<1>6. ThreadInv'
  BY <1>2, <1>3 DEF SceneInv, ThreadInv
<1>7. Goal' = Goal /\ Left' = Left
  BY <1>2 DEF Goal, Left
<1>8. ProgramInv'
  BY <1>1, <1>2, <1>3, <1>7, Grows DEF SceneInv, ProgramInv, Quiet, AckReports, Answers
<1>9. ReportInv'
  BY <1>1, <1>2, <1>3, Grows DEF SceneInv, ReportInv, AckReports, Answers, Waited
<1>10. KeyInv'
  BY <1>1, <1>2, <1>3, <1>7, Grows DEF SceneInv, KeyInv
<1>11. WayInv'
  <2>1. TwoAhead'
    BY <1>1, <1>3, KeysGrow DEF SceneInv, WayInv
  <2>2. QED
    BY <1>1, <1>2, <1>3, <2>1, Grows DEF SceneInv, WayInv
<1>12. TextInv'
  BY <1>1, <1>2, <1>3, <1>7, Grows DEF SceneInv, TextInv
<1>13. QED
  BY <1>5, <1>6, <1>8, <1>9, <1>10, <1>11, <1>12 DEF SceneInv

\* The user: a key on the way to the scene,
LEMMA PressForwardKeeps ==
  ASSUME SceneInv, PressForward
  PROVE  SceneInv'
<1> USE DEF gui, tx, listener, history, bounds
<1>1. PICK kind : Queued(kind) /\ kind \in Forward
  BY DEF PressForward, Forward
<1>2. /\ Post(kind) /\ kind \in Events /\ queue \in Seq(Event) /\ attempt \in Nat
      /\ \A i, j \in KeysAhead : i = j
  BY <1>1 DEF Queued, SceneInv, TypeOK, Events, Forward
<1>3. UNCHANGED <<scene, todo, mode, line1, retry_allowed, dismiss_ticks,
                  ack_enabled, tx, listener, history, answers>>
  BY DEF PressForward
<1>4. /\ scene # "transmit" /\ kind \notin {"TxFinished", "AckSuccess", "StatusRight"}
      /\ kind \notin Reports /\ kind \notin AckReports
  BY <1>1 DEF PressForward, Forward, Reports, AckReports, Answers
<1>5. queue' \in Seq(Event)
  BY <1>2, Appended
<1>6. presses' \in 0 .. MaxPresses
  <2>1. presses < MaxPresses /\ presses' = presses + 1 /\ presses \in 0 .. MaxPresses
    BY DEF PressForward, Pressed, SceneInv, TypeOK
  <2>2. QED
    BY <2>1, SceneAssumption
<1>7. TypeOK'
  BY <1>3, <1>5, <1>6 DEF SceneInv, TypeOK
<1>8. ThreadInv'
  BY <1>3 DEF SceneInv, ThreadInv
<1>9. Goal' = Goal /\ Left' = Left
  BY <1>3 DEF Goal, Left
<1>10. ProgramInv'
  BY <1>2, <1>3, <1>4, <1>9, Grows DEF SceneInv, ProgramInv, Quiet
<1>11. ReportInv'
  BY <1>2, <1>3, <1>4, Grows DEF SceneInv, ReportInv
<1>12. KeyInv'
  BY <1>2, <1>3, <1>4, <1>9, Grows DEF SceneInv, KeyInv
<1>13. WayInv'
  <2>1. TwoAhead'
    BY <1>2, KeysGrow DEF SceneInv, WayInv
  <2>2. QED
    BY <1>2, <1>3, <1>4, <2>1, Grows DEF SceneInv, WayInv
<1>14. TextInv'
  BY <1>2, <1>3, <1>4, <1>9, Grows DEF SceneInv, TextInv
<1>15. QED
  BY <1>7, <1>8, <1>10, <1>11, <1>12, <1>13, <1>14 DEF SceneInv

\* one on a result,
LEMMA PressKeyKeeps ==
  ASSUME SceneInv, NEW key \in Keys, PressKey(key)
  PROVE  SceneInv'
<1> USE DEF gui, tx, listener, history, bounds
<1>1. PICK kind : Queued(kind) /\ kind \in Keys
  BY DEF PressKey
<1>2. /\ Post(kind) /\ kind \in Events /\ queue \in Seq(Event) /\ attempt \in Nat
      /\ \A i, j \in KeysAhead : i = j
  BY <1>1 DEF Queued, SceneInv, TypeOK, Events, Answers, Keys
<1>3. UNCHANGED <<scene, todo, mode, line1, retry_allowed, dismiss_ticks,
                  ack_enabled, tx, listener, history, answers>>
  BY DEF PressKey
<1>4. /\ scene = "transmit" /\ mode \in Results /\ kind \notin {"TxFinished", "AckSuccess"}
      /\ kind \notin Reports /\ kind \notin AckReports /\ kind \notin Forward
  BY <1>1 DEF PressKey, Keys, Forward, Reports, AckReports, Answers
<1>5. queue' \in Seq(Event)
  BY <1>2, Appended
<1>6. presses' \in 0 .. MaxPresses
  <2>1. presses < MaxPresses /\ presses' = presses + 1 /\ presses \in 0 .. MaxPresses
    BY DEF PressKey, Pressed, SceneInv, TypeOK
  <2>2. QED
    BY <2>1, SceneAssumption
<1>7. TypeOK'
  BY <1>3, <1>5, <1>6 DEF SceneInv, TypeOK
<1>8. ThreadInv'
  BY <1>3 DEF SceneInv, ThreadInv
<1>9. Goal' = Goal /\ Left' = Left
  BY <1>3 DEF Goal, Left
<1>10. ProgramInv'
  BY <1>2, <1>3, <1>4, <1>9, Grows DEF SceneInv, ProgramInv, Quiet
<1>11. ReportInv'
  BY <1>2, <1>3, <1>4, Grows DEF SceneInv, ReportInv
<1>12. KeyInv'
  BY <1>2, <1>3, <1>4, <1>9, Grows DEF SceneInv, KeyInv
<1>13. WayInv'
  <2>1. TwoAhead'
    BY <1>2, KeysGrow DEF SceneInv, WayInv
  <2>2. QED
    BY <1>2, <1>3, <1>4, <2>1, Grows DEF SceneInv, WayInv
<1>14. TextInv'
  BY <1>2, <1>3, <1>4, <1>9, Grows DEF SceneInv, TextInv
<1>15. QED
  BY <1>7, <1>8, <1>10, <1>11, <1>12, <1>13, <1>14 DEF SceneInv

\* Back,
LEMMA PressBackKeeps ==
  ASSUME SceneInv, PressBack
  PROVE  SceneInv'
<1> USE DEF gui, tx, listener, history, bounds
<1>1. UNCHANGED <<mode, line1, retry_allowed, dismiss_ticks, queue, ack_enabled, tx, listener,
                  history, answers>>
  BY DEF PressBack
<1>2. presses' \in 0 .. MaxPresses
  <2>1. presses < MaxPresses /\ presses' = presses + 1 /\ presses \in 0 .. MaxPresses
    BY DEF PressBack, Pressed, SceneInv, TypeOK
  <2>2. QED
    BY <2>1, SceneAssumption
<1>3. todo = <<>> /\ todo \in Programs /\ scene \in {"menu", "confirm", "transmit"}
  BY DEF PressBack, Pressed, SceneInv, TypeOK, ProgramInv
<1>4. /\ todo' \in Seq(Ops) /\ todo' \in Programs
      /\ Goal' = "none" \/ (Goal' = "leave" /\ Left' = 5)
      /\ todo' = <<>> <=> Goal' = "none"
      /\ \/ scene = "transmit" /\ scene' = "transmit" /\ todo' # <<>>
         \/ scene = "confirm" /\ scene' = "menu" /\ todo' = <<>>
  <2>1. CASE scene = "transmit"
    <3>1. scene' = scene /\ todo' = Body("leave")
      BY <2>1 DEF PressBack, Body
    <3>2. QED
      BY <2>1, <3>1, Started DEF Goals, Length
  <2>2. CASE scene # "transmit"
    <3>1. scene = "confirm" /\ scene' = "menu" /\ todo' = todo
      BY <1>3, <2>2 DEF PressBack
    <3>2. QED
      BY <1>3, <3>1, Programmed DEF Goal
  <2>3. QED
    BY <2>1, <2>2
<1>5. TypeOK'
  BY <1>1, <1>2, <1>4 DEF SceneInv, TypeOK
<1>6. ThreadInv'
  BY <1>1, <1>4 DEF SceneInv, ThreadInv
<1>7. ProgramInv'
  BY <1>1, <1>4 DEF SceneInv, ProgramInv, Quiet, Verdicts
<1>8. ReportInv' /\ KeyInv' /\ TextInv'
  BY <1>1, <1>4, SameQueue DEF SceneInv, ReportInv, KeyInv, TextInv, Verdicts
<1>9. WayInv'
  BY <1>1, <1>4, SameQueue, Relations DEF SceneInv, WayInv
<1>10. QED
  BY <1>5, <1>6, <1>7, <1>8, <1>9 DEF SceneInv

\* and the tick, which ends a success.
LEMMA TickKeeps ==
  ASSUME SceneInv, Tick
  PROVE  SceneInv'
<1> USE DEF gui, tx, listener, history, bounds
<1>1. UNCHANGED <<scene, mode, line1, retry_allowed, queue, ack_enabled, tx, listener,
                  history, bounds>>
  BY DEF Tick
<1>2. /\ todo = <<>> /\ scene = "transmit" /\ dismiss_ticks > 0
      /\ dismiss_ticks' \in 0 .. SentTicks \cup 0 .. ConnectedTicks
  <2>1. /\ dismiss_ticks > 0 /\ dismiss_ticks' = dismiss_ticks - 1
        /\ dismiss_ticks \in 0 .. SentTicks \cup 0 .. ConnectedTicks
    BY DEF Tick, SceneInv, TypeOK
  <2>2. dismiss_ticks' \in 0 .. SentTicks \cup 0 .. ConnectedTicks
    BY <2>1, SceneAssumption
  <2>3. QED
    BY <2>1, <2>2 DEF Tick
<1>3. mode \in {"connected", "sent"} /\ ~retry_allowed
  BY <1>2 DEF SceneInv, ThreadInv, Failures
<1>4. /\ todo' \in Seq(Ops) /\ todo' \in Programs
      /\ Goal' = "none" \/ (Goal' = "leave" /\ Left' = 5)
  <2>1. CASE dismiss_ticks = 1
    <3>1. todo' = Body("leave")
      BY <2>1 DEF Tick, Body
    <3>2. QED
      BY <3>1, Started DEF Goals, Length
  <2>2. CASE dismiss_ticks # 1
    BY <1>2, <2>2 DEF Tick, Goal, Programs
  <2>3. QED
    BY <2>1, <2>2
<1>5. TypeOK'
  BY <1>1, <1>2, <1>4 DEF SceneInv, TypeOK
<1>6. ThreadInv'
  BY <1>1, <1>2, <1>3 DEF SceneInv, ThreadInv
<1>7. ProgramInv'
  BY <1>1, <1>4 DEF SceneInv, ProgramInv, Quiet, Verdicts
<1>8. ReportInv' /\ KeyInv' /\ WayInv' /\ TextInv'
  BY <1>1, <1>2, <1>3, <1>4, SameQueue DEF SceneInv, ReportInv, KeyInv, WayInv, TextInv, Verdicts
<1>9. QED
  BY <1>5, <1>6, <1>7, <1>8 DEF SceneInv

\* The decoder, which writes the text of an answer before it is reported.
LEMMA RxDecodeKeeps ==
  ASSUME SceneInv, NEW a \in Answers, RxDecode(a)
  PROVE  SceneInv'
<1> USE DEF gui, tx, listener, history, bounds
<1>1. UNCHANGED <<scene, todo, mode, line1, retry_allowed, dismiss_ticks, queue, ack_enabled, tx,
                  listening, ack_timer, attempt, sent, saved, presses>>
  BY DEF RxDecode
<1>2. answers' \in 0 .. MaxAnswers
  <2>1. answers < MaxAnswers /\ answers' = answers + 1 /\ answers \in 0 .. MaxAnswers
    BY DEF RxDecode, SceneInv, TypeOK
  <2>2. QED
    BY <2>1, SceneAssumption
<1>3. /\ listening /\ mode = "waiting" /\ callback' = a
      /\ ack_text' = attempt \/ (ack_text' = ack_text /\ callback' # "AckSuccess")
      /\ heard' = heard \cup {attempt}
  BY DEF RxDecode, SceneInv, ThreadInv
<1>4. TypeOK'
  BY <1>1, <1>2, <1>3 DEF SceneInv, TypeOK
<1>5. ThreadInv'
  BY <1>1, <1>3 DEF SceneInv, ThreadInv
<1>6. Goal' = Goal /\ Left' = Left
  BY <1>1 DEF Goal, Left
<1>7. ProgramInv'
  BY <1>1, <1>3, <1>6, SameQueue DEF SceneInv, ProgramInv, Quiet
<1>8. ReportInv' /\ KeyInv' /\ WayInv' /\ TextInv'
  BY <1>1, <1>3, <1>6, SameQueue DEF SceneInv, ReportInv, KeyInv, WayInv, TextInv
<1>9. QED
  BY <1>4, <1>5, <1>7, <1>8 DEF SceneInv

\* The operations that stop what runs...
LEMMA StopKeeps ==
  ASSUME SceneInv, NEW name \in {"stopTimer", "stopWorker", "cancel", "join"}, Op(name),
         UNCHANGED <<scene, mode, line1, retry_allowed, dismiss_ticks, queue, ack_enabled,
                     tx_ok, callback, ack_text, history, bounds>>,
         tx_cancel' \in BOOLEAN,
         IF name = "stopTimer" THEN ack_timer' = FALSE ELSE ack_timer' = ack_timer,
         IF name = "stopWorker" THEN callback = "none" /\ listening' = FALSE
                                ELSE listening' = listening,
         IF name = "join" THEN tx_thread \in {"none", "done"} /\ tx_thread' = "none"
                          ELSE tx_thread' = tx_thread
  PROVE  SceneInv'
<1> USE DEF history, bounds
<1>1. /\ todo' \in Programs /\ Left \in 1 .. 5 /\ Goal \in Goals /\ Stands(name, Goal, Left)
      /\ Left' = Left - 1 /\ Goal' = IF Left = 1 THEN "none" ELSE Goal
      /\ todo # <<>> /\ todo' \in Seq(Ops) /\ (todo' = <<>> <=> Left = 1)
  BY Stepped DEF SceneInv, ProgramInv
<1>2. /\ Left # 1 /\ Goal' = Goal
      /\ todo # <<>> /\ todo' \in Seq(Ops) /\ todo' # <<>>
  <2>1. Left # 1
    BY <1>1 DEF Stands, Goals, Verdicts
  <2>2. QED
    BY <1>1, <2>1
<1>3. TypeOK'
  <2>1. /\ ack_timer' \in BOOLEAN /\ listening' \in BOOLEAN
        /\ tx_thread' \in {"none", "sending", "returned", "posting", "done"}
    BY DEF SceneInv, TypeOK
  <2>2. QED
    BY <1>2, <2>1 DEF SceneInv, TypeOK
<1>4. ThreadInv'
  BY <1>2 DEF SceneInv, ThreadInv
<1>5. ProgramInv'
  BY <1>1, <1>2, SameQueue DEF SceneInv, ThreadInv, ProgramInv, Quiet, Stands, Goals, Verdicts
<1>6. ReportInv' /\ KeyInv' /\ WayInv' /\ TextInv'
  BY <1>2, SameQueue DEF SceneInv, ReportInv, KeyInv, WayInv, TextInv
<1>7. QED
  BY <1>3, <1>4, <1>5, <1>6 DEF SceneInv

LEMMA StopsKeep ==
  ASSUME SceneInv, StopTimer \/ StopWorker \/ Cancel \/ Join
  PROVE  SceneInv'
<1> USE DEF gui, tx, listener, history, bounds
<1>1. CASE StopTimer
  BY <1>1, StopKeeps DEF StopTimer, SceneInv, TypeOK
<1>2. CASE StopWorker
  BY <1>2, StopKeeps DEF StopWorker, SceneInv, TypeOK
<1>3. CASE Cancel
  BY <1>3, StopKeeps DEF Cancel, SceneInv, TypeOK
<1>4. CASE Join
  BY <1>4, StopKeeps DEF Join, SceneInv, TypeOK
<1>5. QED
  BY <1>1, <1>2, <1>3, <1>4

\* ... and the last one of each handler: it is done when all that is stopped.
LEMMA Last ==
  ASSUME SceneInv, NEW name \in Goals, Op(name)
  PROVE  /\ Goal = name /\ Left = 1 /\ todo' = <<>> /\ todo' \in Seq(Ops) /\ todo' \in Programs
         /\ Goal' = "none" /\ scene = "transmit"
<1>1. /\ todo' \in Programs /\ Left \in 1 .. 5 /\ Goal \in Goals /\ Stands(name, Goal, Left)
      /\ Goal' = IF Left = 1 THEN "none" ELSE Goal
      /\ todo # <<>> /\ todo' \in Seq(Ops) /\ (todo' = <<>> <=> Left = 1)
  BY Stepped DEF SceneInv, ProgramInv
<1>2. Left = 1 /\ Goal = name
  BY <1>1 DEF Stands, Goals, Verdicts
<1>3. scene = "transmit"
  BY <1>1 DEF SceneInv, ThreadInv
<1>4. QED
  BY <1>1, <1>2, <1>3

\* A transmission has ended: it failed,
LEMMA SendFailedKeeps ==
  ASSUME SceneInv, SendFailed
  PROVE  SceneInv'
<1> USE DEF gui, tx, listener, history, bounds
<1>1. UNCHANGED <<scene, line1, queue, ack_enabled, tx,
                  listener, history, bounds>>
  BY DEF SendFailed, ShowFailure
<1>2. /\ Goal = "finished" /\ Left = 1
      /\ todo' = <<>> /\ todo' \in Seq(Ops) /\ todo' \in Programs
      /\ Goal' = "none" /\ scene = "transmit"
  BY Last DEF SendFailed, Goals, Verdicts
<1>3. /\ mode' = "sendfailed" /\ retry_allowed' = TRUE /\ dismiss_ticks' = 0
      /\ tx_thread = "none" /\ mode = "transmit"
  BY <1>2 DEF SendFailed, ShowFailure, SceneInv, ProgramInv
<1>4. TypeOK'
  BY <1>1, <1>2, <1>3, SceneAssumption DEF SceneInv, TypeOK, Modes, Results, Failures
<1>5. ThreadInv'
  BY <1>1, <1>2, <1>3 DEF SceneInv, ThreadInv, ProgramInv, Failures, Quiet
<1>6. ProgramInv'
  BY <1>1, <1>2, <1>3 DEF SceneInv, ProgramInv, Quiet, Verdicts
<1>7. ReportInv'
  BY <1>1, <1>2, <1>3, SameQueue DEF SceneInv, ReportInv, ProgramInv, Waited, Quiet, Verdicts
<1>8. KeyInv'
  BY <1>1, <1>2, <1>3, SameQueue DEF SceneInv, KeyInv, Results, Failures, Verdicts
<1>9. WayInv'
  BY <1>1, <1>2, <1>3, SameQueue, Relations DEF SceneInv, WayInv
<1>10. TextInv'
  BY <1>1, <1>2, <1>3, SameQueue, Relations DEF SceneInv, TextInv, ThreadInv, ReportInv, ProgramInv, Verdicts, Waited, Quiet
<1>11. QED
  BY <1>4, <1>5, <1>6, <1>7, <1>8, <1>9, <1>10 DEF SceneInv

\* it is over,
LEMMA ShowSentKeeps ==
  ASSUME SceneInv, ShowSent
  PROVE  SceneInv'
<1> USE DEF gui, tx, listener, history, bounds
<1>1. UNCHANGED <<scene, line1, retry_allowed, queue, ack_enabled, tx,
                  listener, attempt, heard, sent, bounds>>
  BY DEF ShowSent
<1>2. /\ Goal = "finished" /\ Left = 1
      /\ todo' = <<>> /\ todo' \in Seq(Ops) /\ todo' \in Programs
      /\ Goal' = "none" /\ scene = "transmit"
  BY Last DEF ShowSent, Goals, Verdicts
<1>3. /\ mode' = "sent" /\ dismiss_ticks' = SentTicks /\ SentTicks \in Nat
      /\ saved' = saved \cup {attempt} /\ attempt \in sent
      /\ tx_thread = "none" /\ mode = "transmit" /\ ~retry_allowed
  BY <1>2, SceneAssumption DEF ShowSent, SceneInv, ThreadInv, ProgramInv, Failures
<1>4. TypeOK'
  BY <1>1, <1>2, <1>3, SceneAssumption DEF SceneInv, TypeOK, Modes, Results, Failures
<1>5. ThreadInv'
  BY <1>1, <1>2, <1>3 DEF SceneInv, ThreadInv, ProgramInv, Failures, Quiet
<1>6. ProgramInv'
  BY <1>1, <1>2, <1>3 DEF SceneInv, ProgramInv, Quiet, Verdicts
<1>7. ReportInv'
  BY <1>1, <1>2, <1>3, SameQueue DEF SceneInv, ReportInv, ProgramInv, Waited, Quiet, Verdicts
<1>8. KeyInv'
  BY <1>1, <1>2, <1>3, SameQueue DEF SceneInv, KeyInv, Results, Failures, Verdicts
<1>9. WayInv'
  BY <1>1, <1>2, <1>3, SameQueue, Relations DEF SceneInv, WayInv
<1>10. TextInv'
  BY <1>1, <1>2, <1>3, SameQueue, Relations DEF SceneInv, TextInv, ThreadInv, ReportInv, ProgramInv, Verdicts, Waited, Quiet
<1>11. QED
  BY <1>4, <1>5, <1>6, <1>7, <1>8, <1>9, <1>10 DEF SceneInv

\* or its answer is awaited;
LEMMA StartAckListenerKeeps ==
  ASSUME SceneInv, StartAckListener
  PROVE  SceneInv'
<1> USE DEF gui, tx, listener, history, bounds
<1>1. UNCHANGED <<scene, line1, retry_allowed, dismiss_ticks,
                  queue, ack_enabled, tx, callback, attempt, heard, sent, bounds>>
  BY DEF StartAckListener
<1>2. /\ Goal = "finished" /\ Left = 1
      /\ todo' = <<>> /\ todo' \in Seq(Ops) /\ todo' \in Programs
      /\ Goal' = "none" /\ scene = "transmit"
  BY Last DEF StartAckListener, Goals, Verdicts
<1>3. /\ mode' = "waiting" /\ ack_text' = 0 /\ listening' = TRUE /\ ack_timer' = TRUE
      /\ saved' = saved \cup {attempt} /\ attempt \in sent /\ callback = "none"
      /\ tx_thread = "none" /\ mode = "transmit" /\ ~retry_allowed /\ ~(dismiss_ticks > 0)
  BY <1>2 DEF StartAckListener, SceneInv, ThreadInv, ProgramInv, Failures
<1>4. TypeOK'
  BY <1>1, <1>2, <1>3, SceneAssumption DEF SceneInv, TypeOK, Modes, Results, Failures
<1>5. ThreadInv'
  BY <1>1, <1>2, <1>3 DEF SceneInv, ThreadInv, ProgramInv, Failures, Quiet
<1>6. ProgramInv'
  BY <1>1, <1>2, <1>3 DEF SceneInv, ProgramInv, Quiet, Verdicts
<1>7. ReportInv'
  BY <1>1, <1>2, <1>3, SameQueue DEF SceneInv, ReportInv, ProgramInv, Waited, Quiet, Verdicts
<1>8. KeyInv'
  BY <1>1, <1>2, <1>3, SameQueue DEF SceneInv, KeyInv, Results, Failures, Verdicts
<1>9. WayInv'
  BY <1>1, <1>2, <1>3, SameQueue, Relations DEF SceneInv, WayInv
<1>10. TextInv'
  BY <1>1, <1>2, <1>3, SameQueue, Relations DEF SceneInv, TextInv, ThreadInv, ReportInv, ProgramInv, Verdicts, Waited, Quiet
<1>11. QED
  BY <1>4, <1>5, <1>6, <1>7, <1>8, <1>9, <1>10 DEF SceneInv

\* the answer has come, or has not;
LEMMA ShowConnectedKeeps ==
  ASSUME SceneInv, ShowConnected
  PROVE  SceneInv'
<1> USE DEF gui, tx, listener, history, bounds
<1>1. UNCHANGED <<scene, queue, ack_enabled, tx, listener,
                  history, bounds>>
  BY DEF ShowConnected
<1>2. /\ Goal = "connected" /\ Left = 1
      /\ todo' = <<>> /\ todo' \in Seq(Ops) /\ todo' \in Programs
      /\ Goal' = "none" /\ scene = "transmit"
  BY Last DEF ShowConnected, Goals, Verdicts
<1>3. /\ mode' = "connected" /\ dismiss_ticks' = ConnectedTicks /\ ConnectedTicks \in Nat
      /\ line1' = ack_text /\ retry_allowed' = FALSE
      /\ ack_text = attempt /\ attempt \in heard
      /\ tx_thread = "none" /\ mode \in Waited /\ Quiet
  BY <1>2, SceneAssumption DEF ShowConnected, SceneInv, ProgramInv, TextInv, Verdicts
<1>4. TypeOK'
  <2>1. /\ mode' \in Modes /\ line1' \in 0 .. attempt /\ retry_allowed' \in BOOLEAN
        /\ dismiss_ticks' \in 0 .. SentTicks \cup 0 .. ConnectedTicks
    <3>1. mode' \in Modes /\ retry_allowed' \in BOOLEAN
      BY <1>3 DEF Modes, Results
    <3>2. dismiss_ticks' \in 0 .. ConnectedTicks
      BY <1>3
    <3>3. line1' \in 0 .. attempt
      BY <1>3 DEF SceneInv, TypeOK
    <3>4. QED
      BY <3>1, <3>2, <3>3
  <2>2. QED
    BY <1>1, <1>2, <2>1 DEF SceneInv, TypeOK
<1>5. ThreadInv'
  BY <1>1, <1>2, <1>3 DEF SceneInv, ThreadInv, ProgramInv, Failures, Quiet
<1>6. ProgramInv'
  BY <1>1, <1>2, <1>3 DEF SceneInv, ProgramInv, Quiet, Verdicts
<1>7. ReportInv'
  BY <1>1, <1>2, <1>3, SameQueue DEF SceneInv, ReportInv, ProgramInv, Waited, Quiet, Verdicts
<1>8. KeyInv'
  BY <1>1, <1>2, <1>3, SameQueue DEF SceneInv, KeyInv, Results, Failures, Verdicts
<1>9. WayInv'
  BY <1>1, <1>2, <1>3, SameQueue, Relations DEF SceneInv, WayInv
<1>10. TextInv'
  BY <1>1, <1>2, <1>3, SameQueue, Relations DEF SceneInv, TextInv, ThreadInv, ReportInv, ProgramInv, Verdicts, Waited, Quiet
<1>11. QED
  BY <1>4, <1>5, <1>6, <1>7, <1>8, <1>9, <1>10 DEF SceneInv

LEMMA ShowNoConnectionKeeps ==
  ASSUME SceneInv, ShowNoConnection
  PROVE  SceneInv'
<1> USE DEF gui, tx, listener, history, bounds
<1>1. UNCHANGED <<scene, line1, queue, ack_enabled, tx, listener,
                  history, bounds>>
  BY DEF ShowNoConnection, ShowFailure
<1>2. /\ Goal \in Verdicts /\ Left = 1
      /\ todo' = <<>> /\ todo' \in Seq(Ops) /\ todo' \in Programs
      /\ Goal' = "none" /\ scene = "transmit"
  BY Last DEF ShowNoConnection, Goals, Verdicts
<1>3. /\ mode' \in {"joinfailed", "noreply"} /\ retry_allowed' = TRUE /\ dismiss_ticks' = 0
      /\ tx_thread = "none" /\ mode \in Waited /\ Quiet
  BY <1>2 DEF ShowNoConnection, ShowFailure, SceneInv, ProgramInv
<1>4. TypeOK'
  BY <1>1, <1>2, <1>3, SceneAssumption DEF SceneInv, TypeOK, Modes, Results, Failures
<1>5. ThreadInv'
  BY <1>1, <1>2, <1>3 DEF SceneInv, ThreadInv, ProgramInv, Failures, Quiet
<1>6. ProgramInv'
  BY <1>1, <1>2, <1>3 DEF SceneInv, ProgramInv, Quiet, Verdicts
<1>7. ReportInv'
  BY <1>1, <1>2, <1>3, SameQueue DEF SceneInv, ReportInv, ProgramInv, Waited, Quiet, Verdicts
<1>8. KeyInv'
  BY <1>1, <1>2, <1>3, SameQueue DEF SceneInv, KeyInv, Results, Failures, Verdicts
<1>9. WayInv'
  BY <1>1, <1>2, <1>3, SameQueue, Relations DEF SceneInv, WayInv
<1>10. TextInv'
  BY <1>1, <1>2, <1>3, SameQueue, Relations DEF SceneInv, TextInv, ThreadInv, ReportInv, ProgramInv, Verdicts, Waited, Quiet
<1>11. QED
  BY <1>4, <1>5, <1>6, <1>7, <1>8, <1>9, <1>10 DEF SceneInv

\* the scene is left;
LEMMA LeaveKeeps ==
  ASSUME SceneInv, Leave
  PROVE  SceneInv'
<1> USE DEF gui, tx, listener, history, bounds
<1>1. UNCHANGED <<mode, line1, retry_allowed, queue, ack_enabled, tx, listener,
                  history, bounds>>
  BY DEF Leave
<1>2. /\ Goal = "leave" /\ Left = 1
      /\ todo' = <<>> /\ todo' \in Seq(Ops) /\ todo' \in Programs
      /\ Goal' = "none" /\ scene = "transmit"
  BY Last DEF Leave, Goals, Verdicts
<1>3. scene' = "menu" /\ dismiss_ticks' = 0 /\ Quiet
  BY <1>2 DEF Leave, SceneInv, ProgramInv
<1>4. TypeOK'
  BY <1>1, <1>2, <1>3, SceneAssumption DEF SceneInv, TypeOK, Modes, Results, Failures
<1>5. ThreadInv'
  BY <1>1, <1>2, <1>3 DEF SceneInv, ThreadInv, ProgramInv, Failures, Quiet
<1>6. ProgramInv'
  BY <1>1, <1>2, <1>3 DEF SceneInv, ProgramInv, Quiet, Verdicts
<1>7. ReportInv'
  BY <1>1, <1>2, <1>3, SameQueue DEF SceneInv, ReportInv, ProgramInv, Waited, Quiet, Verdicts
<1>8. KeyInv'
  BY <1>1, <1>2, <1>3, SameQueue DEF SceneInv, KeyInv, Results, Failures, Verdicts
<1>9. WayInv'
  BY <1>1, <1>2, <1>3, SameQueue, Relations DEF SceneInv, WayInv
<1>10. TextInv'
  BY <1>1, <1>2, <1>3, SameQueue, Relations DEF SceneInv, TextInv, ThreadInv, ReportInv, ProgramInv, Verdicts, Waited, Quiet
<1>11. QED
  BY <1>4, <1>5, <1>6, <1>7, <1>8, <1>9, <1>10 DEF SceneInv

\* a new attempt begins, with nothing of the one before it left.
LEMMA LaunchKeeps ==
  ASSUME SceneInv, Launch
  PROVE  SceneInv'
<1> USE DEF gui, tx, listener, history, bounds
<1>1. UNCHANGED <<scene, line1, queue, ack_enabled, listener, heard, sent, saved, bounds>>
  BY DEF Launch
<1>2. /\ Goal = "launch" /\ Left = 1
      /\ todo' = <<>> /\ todo' \in Seq(Ops) /\ todo' \in Programs
      /\ Goal' = "none" /\ scene = "transmit"
  BY Last DEF Launch, Goals, Verdicts
<1>3. /\ mode' = "transmit" /\ dismiss_ticks' = 0 /\ retry_allowed' = FALSE
      /\ tx_thread' = "sending" /\ tx_cancel' = FALSE /\ tx_ok' = FALSE
      /\ attempt' = attempt + 1 /\ attempt \in Nat
      /\ Quiet /\ ~Acked /\ ~Finished
  BY <1>2 DEF Launch, SceneInv, TypeOK, ProgramInv
<1>4. /\ queue \in Seq(Event) /\ Ordered /\ TwoAhead /\ ForwardOnce
  BY <1>2 DEF SceneInv, TypeOK, KeyInv, WayInv
<1>5. /\ ~Acked' /\ ~Finished' /\ ~Answered'
      /\ TwoAhead' /\ ForwardOnce'
  <2>1. Acked' = Acked /\ Finished' = Finished /\ Answered' = Answered
    BY <1>1 DEF Acked, Finished, Answered, InQueue, Is
  <2>2. TwoAhead' /\ ForwardOnce'
    BY <1>1, <1>4 DEF TwoAhead, KeysAhead, ForwardOnce, Is
  <2>3. QED
    BY <1>3, <2>1, <2>2, Relations
<1>6. Ordered' /\ ~FreshRetry'
  <2>1. PICK n \in Nat : n = Len(queue)
    BY <1>4
  <2>2. DOMAIN queue = 1 .. n /\ \A i \in 1 .. n : queue[i].attempt \in Nat
    <3>1. DOMAIN queue = 1 .. n /\ \A i \in 1 .. n : queue[i] \in Event
      BY <1>4, <2>1
    <3>2. QED
      BY <3>1 DEF Event
  <2>3. \A i \in 1 .. n : queue[i].attempt < attempt'
    BY <1>3, <1>4, <2>2 DEF Ordered
  <2>4. QED
    BY <1>1, <1>3, <1>4, <2>2, <2>3 DEF Ordered, FreshRetry, Is
<1>7. Current' /\ FinishedOnce'
  BY <1>5 DEF Acked, Finished, Current, FinishedOnce, InQueue, Is, Reports
<1>8. TypeOK'
  <2>1. /\ line1 \in 0 .. attempt' /\ ack_text \in 0 .. attempt' /\ heard \subseteq 0 .. attempt'
        /\ sent \subseteq 0 .. attempt' /\ saved \subseteq 0 .. attempt' /\ attempt' \in Nat
    <3>1. 0 .. attempt \subseteq 0 .. attempt'
      BY <1>3
    <3>2. QED
      BY <1>3, <3>1 DEF SceneInv, TypeOK
  <2>2. dismiss_ticks' \in 0 .. SentTicks \cup 0 .. ConnectedTicks /\ mode' \in Modes
    BY <1>3, SceneAssumption DEF Modes
  <2>3. QED
    BY <1>1, <1>2, <1>3, <2>1, <2>2 DEF SceneInv, TypeOK
<1>9. ThreadInv'
  BY <1>1, <1>2, <1>3 DEF SceneInv, ThreadInv, Quiet
<1>10. ProgramInv'
  BY <1>2 DEF ProgramInv, Verdicts
<1>11. ReportInv'
  BY <1>5, <1>7 DEF ReportInv
<1>12. KeyInv'
  BY <1>2, <1>3, <1>6 DEF KeyInv, Verdicts
<1>13. WayInv'
  BY <1>1, <1>2, <1>5 DEF WayInv
<1>14. TextInv'
  BY <1>1, <1>2, <1>3, <1>5 DEF TextInv, Quiet
<1>15. QED
  BY <1>8, <1>9, <1>10, <1>11, <1>12, <1>13, <1>14 DEF SceneInv

\* The GUI thread takes an event.  A handler begins...
LEMMA BeginKeeps ==
  ASSUME SceneInv, NEW goal \in Goals, todo = <<>>, queue # <<>>,
         queue' = Tail(queue), todo' = Body(goal), scene' = "transmit",
         UNCHANGED <<ack_enabled, mode, line1, retry_allowed, dismiss_ticks, tx, listener,
                     history, bounds>>,
         goal # "launch" => scene = "transmit",
         goal = "launch" =>
           \/ scene = "transmit" /\ retry_allowed /\ Head(queue).kind = "StatusRight"
           \/ scene = "confirm" /\ Head(queue).kind = "ConfirmSend",
         goal \in Verdicts => Head(queue).kind \in AckReports,
         goal = "connected" => Head(queue).kind = "AckSuccess",
         goal = "finished" => Head(queue).kind = "TxFinished"
  PROVE  SceneInv'
<1> USE DEF gui, tx, listener, history, bounds
<1>1. queue \in Seq(Event) /\ attempt \in Nat /\ UNCHANGED attempt
  BY DEF SceneInv, TypeOK
<1>2. /\ todo' \in Programs /\ todo' \in Seq(Ops) /\ todo' # <<>>
      /\ Goal' = goal /\ Left' = Length(goal)
  BY Started
<1>3. PICK kind : kind = Head(queue).kind
  OBVIOUS
<1>4. /\ queue' \in Seq(Event)
      /\ Acked' => Acked
      /\ Answered' => Answered
      /\ Finished' => Finished
      /\ kind \in AckReports => Acked
      /\ kind = "AckSuccess" => Answered
      /\ kind = "TxFinished" => Finished
      /\ Current => Current'
      /\ FinishedOnce => FinishedOnce'
      /\ FinishedOnce /\ kind = "TxFinished" => ~Finished'
      /\ Ordered => Ordered'
      /\ FreshRetry' => FreshRetry
      /\ Ordered /\ Current /\ kind \in Reports => ~OldRetry'
      /\ Ordered /\ ~OldRetry /\ kind = "StatusRight" => ~Acked' /\ ~Finished'
      /\ TwoAhead => TwoAhead'
      /\ ForwardOnce => ForwardOnce'
      /\ TwoAhead /\ kind \in Forward => ForwardOnce'
      /\ ~SendFirst /\ kind = "ConfirmSend" => ~Acked' /\ ~Finished'
  BY <1>1, <1>3, Shrinks
<1>5. goal = "launch" => Quiet /\ ~Acked' /\ ~Finished'
  <2>1. CASE scene = "transmit" /\ retry_allowed /\ kind = "StatusRight"
    BY <1>4, <2>1 DEF SceneInv, ThreadInv, KeyInv, Failures, Quiet
  <2>2. CASE scene = "confirm" /\ kind = "ConfirmSend"
    BY <1>4, <2>2 DEF SceneInv, ThreadInv, WayInv, Quiet
  <2>3. QED
    BY <1>3, <2>1, <2>2
<1>6. /\ goal = "finished" => tx_thread \in {"none", "done"} /\ mode = "transmit" /\ ~Finished'
      /\ goal \in Verdicts => tx_thread = "none" /\ mode \in Waited
  BY <1>3, <1>4 DEF SceneInv, ThreadInv, ReportInv, Waited, Verdicts
<1>7. TypeOK'
  BY <1>2, <1>4 DEF SceneInv, TypeOK
<1>8. ThreadInv'
  BY DEF SceneInv, ThreadInv
<1>9. ProgramInv'
  BY <1>2, <1>5, <1>6 DEF ProgramInv, Quiet, Length, Verdicts
<1>10. ReportInv'
  <2>1. CASE goal = "launch"
    <3>1. Current' /\ FinishedOnce'
      BY <1>5, <2>1 DEF Acked, Finished, Current, FinishedOnce, InQueue, Is, Reports
    <3>2. QED
      BY <1>5, <2>1, <3>1 DEF ReportInv
  <2>2. CASE goal # "launch"
    BY <1>4, <2>2 DEF SceneInv, ReportInv
  <2>3. QED
    BY <2>1, <2>2
<1>11. KeyInv'
  <2>1. Ordered' /\ (mode' \notin Results => ~FreshRetry')
    BY <1>4 DEF SceneInv, KeyInv
  <2>2. goal \in Verdicts \cup {"finished"} => ~OldRetry'
    BY <1>3, <1>4 DEF SceneInv, ReportInv, KeyInv, Reports, Verdicts
  <2>3. QED
    BY <1>2, <2>1, <2>2 DEF KeyInv
<1>12. WayInv'
  <2>1. TwoAhead' /\ ForwardOnce'
    BY <1>3, <1>4 DEF SceneInv, WayInv, Forward
  <2>2. QED
    BY <2>1 DEF WayInv
<1>13. TextInv'
  <2>1. CASE goal = "launch"
    <3>1. ~Answered'
      BY <1>5, <2>1 DEF Answered, Acked, InQueue, Is, AckReports, Answers
    <3>2. QED
      BY <1>2, <1>5, <2>1, <3>1 DEF SceneInv, TextInv, Quiet
  <2>2. CASE goal # "launch"
    BY <1>2, <1>3, <1>4, <2>2 DEF SceneInv, TextInv
  <2>3. QED
    BY <2>1, <2>2
<1>14. QED
  BY <1>7, <1>8, <1>9, <1>10, <1>11, <1>12, <1>13 DEF SceneInv

\* ... or none does, and the next screen may be reached.
LEMMA DropKeeps ==
  ASSUME SceneInv, todo = <<>>, queue # <<>>, queue' = Tail(queue), todo' = <<>>,
         \/ scene' = scene
         \/ scene = "menu" /\ scene' = "confirm" /\ Head(queue).kind = "Navigate",
         ack_enabled' \in BOOLEAN,
         UNCHANGED <<mode, line1, retry_allowed, dismiss_ticks, tx, listener, history, bounds>>
  PROVE  SceneInv'
<1> USE DEF tx, listener, history, bounds
<1>1. queue \in Seq(Event) /\ attempt \in Nat /\ UNCHANGED attempt
  BY DEF SceneInv, TypeOK
<1>2. PICK kind : kind = Head(queue).kind
  OBVIOUS
<1>3. /\ queue' \in Seq(Event)
      /\ Acked' => Acked
      /\ Answered' => Answered
      /\ Finished' => Finished
      /\ Current => Current'
      /\ FinishedOnce => FinishedOnce'
      /\ Ordered => Ordered'
      /\ FreshRetry' => FreshRetry
      /\ OldRetry' => OldRetry
      /\ TwoAhead => TwoAhead'
      /\ ForwardOnce => ForwardOnce'
      /\ SendFirst' => SendFirst
      /\ WayFirst' => WayFirst
      /\ ~WayFirst /\ kind = "Navigate" => ~SendFirst'
  BY <1>1, <1>2, Shrinks
<1>4. todo' \in Seq(Ops) /\ todo' \in Programs /\ Goal = "none" /\ Goal' = "none"
  BY DEF Programs, Goal
<1>5. TypeOK'
  BY <1>3, <1>4 DEF SceneInv, TypeOK
<1>6. ThreadInv'
  BY DEF SceneInv, ThreadInv
<1>7. ProgramInv'
  BY <1>4 DEF ProgramInv, Verdicts
<1>8. ReportInv'
  BY <1>3 DEF SceneInv, ReportInv
<1>9. KeyInv'
  BY <1>3, <1>4 DEF SceneInv, KeyInv, Verdicts
<1>10. WayInv'
  BY <1>2, <1>3 DEF SceneInv, WayInv
<1>11. TextInv'
  BY <1>3, <1>4 DEF SceneInv, TextInv
<1>12. QED
  BY <1>5, <1>6, <1>7, <1>8, <1>9, <1>10, <1>11 DEF SceneInv

LEMMA HandleEventKeeps ==
  ASSUME SceneInv, HandleEvent
  PROVE  SceneInv'
<1>1. PICK kind : kind = Head(queue).kind
  OBVIOUS
<1>2. /\ todo = <<>> /\ queue # <<>> /\ queue' = Tail(queue)
      /\ UNCHANGED <<mode, line1, retry_allowed, dismiss_ticks, tx, listener, history, bounds>>
  BY DEF HandleEvent
<1>3. ack_enabled' \in BOOLEAN /\ kind \in Events
  <2>1. kind \in Events
    BY <1>1, <1>2, Shrinks DEF SceneInv, TypeOK, history
  <2>2. ack_enabled \in BOOLEAN
    BY DEF SceneInv, TypeOK
  <2>3. QED
    BY <2>1, <2>2 DEF HandleEvent
<1>4. CASE scene = "transmit"
  <2>1. todo' = Handler(kind) /\ UNCHANGED <<scene, ack_enabled>>
    BY <1>1, <1>4 DEF HandleEvent
  <2>2. \/ kind = "TxFinished" /\ todo' = Body("finished")
        \/ kind = "AckSuccess" /\ todo' = Body("connected")
        \/ kind = "AckFail" /\ todo' = Body("joinfailed")
        \/ kind = "AckTimeout" /\ todo' = Body("noreply")
        \/ kind = "StatusOk" /\ todo' = Body("leave")
        \/ kind = "StatusRight" /\ retry_allowed /\ todo' = Body("launch")
        \/ todo' = <<>>
    BY <2>1 DEF Handler, Body
  <2>3. \A goal \in Goals : todo' = Body(goal) =>
          \/ SceneInv'
          \/ goal = "launch" /\ ~(retry_allowed /\ kind = "StatusRight")
          \/ goal \in Verdicts /\ kind \notin AckReports
          \/ goal = "connected" /\ kind # "AckSuccess"
          \/ goal = "finished" /\ kind # "TxFinished"
    BY <1>1, <1>2, <1>4, <2>1, BeginKeeps
  <2>4. todo' = <<>> => SceneInv'
    BY <1>2, <1>3, <2>1, DropKeeps
  <2>5. QED
    BY <2>2, <2>3, <2>4 DEF Goals, Verdicts, AckReports, Answers
<1>5. CASE scene = "confirm" /\ kind = "ConfirmSend"
  <2>1. todo' = Body("launch") /\ scene' = "transmit" /\ UNCHANGED ack_enabled
    BY <1>1, <1>5 DEF HandleEvent, Body
  <2>2. "launch" \in Goals /\ "launch" \notin Verdicts
    BY DEF Goals, Verdicts
  <2>3. QED
    BY <1>1, <1>2, <1>5, <2>1, <2>2, BeginKeeps
<1>6. CASE scene # "transmit" /\ ~(scene = "confirm" /\ kind = "ConfirmSend")
  <2>1. /\ todo' = <<>>
        /\ \/ scene' = scene
           \/ scene = "menu" /\ scene' = "confirm" /\ kind = "Navigate"
    BY <1>1, <1>2, <1>6 DEF HandleEvent
  <2>2. QED
    BY <1>1, <1>2, <1>3, <2>1, DropKeeps
<1>7. QED
  BY <1>4, <1>5, <1>6

-----------------------------------------------------------------------------
(* The invariant.                                                          *)

LEMMA InitInv == Init => SceneInv
<1> SUFFICES ASSUME Init
             PROVE  SceneInv
  OBVIOUS
<1>1. /\ queue = <<>> /\ todo = <<>> /\ DOMAIN queue = {}
      /\ queue \in Seq(Event) /\ todo \in Seq(Ops)
  BY DEF Init
<1>2. /\ scene = "menu" /\ mode = "none" /\ Quiet /\ Goal = "none"
      /\ dismiss_ticks = 0 /\ ~retry_allowed /\ ~tx_ok /\ saved = {}
  BY DEF Init, Quiet, Goal
<1>3. TypeOK
  <2>1. /\ scene \in {"menu", "confirm", "transmit"} /\ mode \in Modes
        /\ tx_thread \in {"none", "sending", "returned", "posting", "done"}
        /\ callback \in Answers \cup {"none"}
    BY DEF Init, Modes
  <2>2. /\ retry_allowed \in BOOLEAN /\ ack_enabled \in BOOLEAN /\ tx_cancel \in BOOLEAN
        /\ tx_ok \in BOOLEAN /\ listening \in BOOLEAN /\ ack_timer \in BOOLEAN
    BY DEF Init
  <2>3. /\ attempt \in Nat /\ line1 \in 0 .. attempt /\ ack_text \in 0 .. attempt
        /\ heard \subseteq 0 .. attempt /\ sent \subseteq 0 .. attempt
        /\ saved \subseteq 0 .. attempt
    BY DEF Init
  <2>4. /\ dismiss_ticks \in 0 .. SentTicks \cup 0 .. ConnectedTicks
        /\ presses \in 0 .. MaxPresses /\ answers \in 0 .. MaxAnswers
    BY SceneAssumption DEF Init
  <2>5. QED
    BY <1>1, <2>1, <2>2, <2>3, <2>4 DEF TypeOK
<1>4. ThreadInv
  BY <1>1, <1>2 DEF ThreadInv, Quiet
<1>5. ProgramInv
  BY <1>1, <1>2 DEF ProgramInv, Programs, Verdicts
<1>6. ReportInv /\ WayInv
  BY <1>1, <1>2 DEF ReportInv, WayInv, TwoAhead, KeysAhead, WayFirst
<1>7. KeyInv
  BY <1>1, <1>2 DEF KeyInv, Ordered, FreshRetry, OldRetry, Verdicts
<1>8. TextInv
  BY <1>2 DEF TextInv, Quiet
<1>9. QED
  BY <1>3, <1>4, <1>5, <1>6, <1>7, <1>8 DEF SceneInv

LEMMA StepInv == SceneInv /\ [Next]_vars => SceneInv'
<1> SUFFICES ASSUME SceneInv, [Next]_vars
             PROVE  SceneInv'
  OBVIOUS
<1>1. CASE HandleEvent
  BY <1>1, HandleEventKeeps
<1>2. CASE Tick
  BY <1>2, TickKeeps
<1>3. CASE Operation
  BY <1>3, StopsKeep, LaunchKeeps, SendFailedKeeps, StartAckListenerKeeps, ShowSentKeeps,
     ShowConnectedKeeps, ShowNoConnectionKeeps, LeaveKeeps DEF Operation
<1>4. CASE User
  BY <1>4, PressForwardKeeps, PressBackKeeps, PressKeyKeeps DEF User
<1>5. CASE TxThread
  BY <1>5, TxKeeps, TxPostKeeps DEF TxThread
<1>6. CASE Receive
  BY <1>6, RxDecodeKeeps DEF Receive
<1>7. CASE RxPost \/ AckTimeout
  BY <1>7, RxPostKeeps, AckTimeoutKeeps
<1>8. CASE UNCHANGED vars
  <2>1. /\ UNCHANGED <<scene, todo, mode, line1, retry_allowed, dismiss_ticks>>
        /\ UNCHANGED <<queue, ack_enabled>> /\ UNCHANGED <<tx_thread, tx_cancel, tx_ok>>
        /\ UNCHANGED <<listening, callback, ack_timer, ack_text>>
        /\ UNCHANGED <<attempt, heard, sent, saved>> /\ UNCHANGED <<presses, answers>>
    BY <1>8 DEF vars, gui, tx, listener, history, bounds
  <2>2. Goal' = Goal /\ Left' = Left
    BY <2>1 DEF Goal, Left
  <2>3. TypeOK' /\ ThreadInv'
    BY <2>1 DEF SceneInv, TypeOK, ThreadInv
  <2>4. ProgramInv' /\ ReportInv' /\ KeyInv' /\ WayInv' /\ TextInv'
    BY <2>1, <2>2, SameQueue DEF SceneInv, ProgramInv, ReportInv, KeyInv, WayInv, TextInv, Quiet
  <2>5. QED
    BY <2>3, <2>4 DEF SceneInv
<1>9. QED
  BY <1>1, <1>2, <1>3, <1>4, <1>5, <1>6, <1>7, <1>8 DEF Next, Idle

\* SceneInv holds in every reachable state of the transmit scene.
THEOREM Invariance == Spec => []SceneInv
  BY InitInv, StepInv, PTL DEF Spec

\* Every variable keeps its type, and the dismissal counter never wraps.
THEOREM TypeCorrect == Spec => []TypeOK
<1>1. SceneInv => TypeOK
  BY DEF SceneInv
<1>2. QED
  BY <1>1, Invariance, PTL

\* The infrared transmitter and the receiver are never used at once.
THEOREM NeverBoth == Spec => []HalfDuplex
<1>1. SceneInv => HalfDuplex
  BY DEF SceneInv, ThreadInv, HalfDuplex
<1>2. QED
  BY <1>1, Invariance, PTL

\* What one attempt reported never acts on a later one, as long as the user is
\* at most two keys ahead of the handlers (Queued).
THEOREM ReportsAreCurrent == Spec => []NoStaleReport
<1>1. SceneInv => NoStaleReport
  BY DEF SceneInv, ReportInv, Current, Is, Reports, AckReports, NoStaleReport
<1>2. QED
  BY <1>1, Invariance, PTL

\* "Connected!" shows the answer that was heard in the attempt on screen.
THEOREM ConnectedIsHonest == Spec => []ConnectedHonest
<1>1. SceneInv => ConnectedHonest
  BY DEF SceneInv, TextInv, ConnectedHonest
<1>2. QED
  BY <1>1, Invariance, PTL

\* When the scene is left, neither thread, worker nor timer is left behind.
THEOREM NothingLeftBehind == Spec => []LeftClean
<1>1. SceneInv => LeftClean
  BY DEF SceneInv, ThreadInv, LeftClean
<1>2. QED
  BY <1>1, Invariance, PTL

\* A tick dismisses successes only.
THEOREM DismissalIsSafe == Spec => []DismissSafe
<1>1. SceneInv => DismissSafe
  BY DEF SceneInv, ThreadInv, DismissSafe
<1>2. QED
  BY <1>1, Invariance, PTL

\* Only credentials that were sent in whole are saved.
THEOREM OnlySentIsSaved == Spec => []SavedIfSent
<1>1. SceneInv => SavedIfSent
  BY DEF SceneInv, ThreadInv, SavedIfSent
<1>2. QED
  BY <1>1, Invariance, PTL

\* The screens follow each other in one order.
LEMMA NewScreen ==
  ASSUME SceneInv, Next, mode' # mode
  PROVE  Leads(mode, mode')
<1> USE DEF gui, tx, listener, history, bounds
<1>1. CASE HandleEvent \/ Tick \/ User \/ Receive \/ RxPost \/ AckTimeout
  BY <1>1 DEF HandleEvent, Tick, User, PressForward, PressBack, PressKey, Receive, RxDecode,
              RxPost, AckTimeout
<1>2. CASE TxThread
  BY <1>2 DEF TxThread, TxProgress, TxReturn, TxCheck, TxPost, SceneInv, ThreadInv
<1>3. CASE StopTimer \/ StopWorker \/ Cancel \/ Join \/ Leave
  BY <1>3 DEF StopTimer, StopWorker, Cancel, Join, Leave
<1>4. CASE Launch
  BY <1>4 DEF Launch, Leads, SceneInv, TypeOK
<1>5. CASE SendFailed \/ StartAckListener \/ ShowSent
  <2>1. Goal = "finished" /\ mode' \in {"waiting", "sent", "sendfailed"}
    BY <1>5, Last DEF SendFailed, StartAckListener, ShowSent, ShowFailure, Goals
  <2>2. mode = "transmit"
    BY <2>1 DEF SceneInv, ProgramInv
  <2>3. QED
    BY <2>1, <2>2 DEF Leads
<1>6. CASE ShowConnected \/ ShowNoConnection
  <2>1. Goal \in Verdicts /\ mode' \in Verdicts
    BY <1>6, Last DEF ShowConnected, ShowNoConnection, ShowFailure, Goals, Verdicts
  <2>2. mode \in Waited
    BY <2>1 DEF SceneInv, ProgramInv
  <2>3. QED
    BY <2>1, <2>2 DEF Leads, Waited, Verdicts
<1>7. QED
  BY <1>1, <1>2, <1>3, <1>4, <1>5, <1>6 DEF Next, Operation, Idle, vars

\* The status screen changes in the order of the attempt only; nothing but a new
\* attempt (SendAgain or a new entry) goes back to the progress screen.
THEOREM ScreensInOrder == Spec => ScreenOrder
<1>1. SceneInv /\ [Next]_vars => [mode' # mode => Leads(mode, mode')]_vars
  BY NewScreen
<1>2. QED
  BY <1>1, Invariance, PTL DEF Spec, ScreenOrder
=============================================================================
