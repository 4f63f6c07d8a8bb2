--------------------------- MODULE TransmitScene ---------------------------
(***************************************************************************)
(* The transmit scene of the Flipper app                                   *)
(* (flipper/scenes/wi_fir_scene_transmit.c): the GUI thread with its queue *)
(* of custom events, the TX thread that sends the credentials, the         *)
(* infrared worker that listens for the daemon's answer, and the timer     *)
(* that gives up on it.                                                    *)
(*                                                                         *)
(* A handler of the GUI thread is a list of operations, todo, that it      *)
(* performs one after the other while the other threads run: joining a     *)
(* thread takes as long as that thread does.  Every event carries, for the *)
(* properties alone, the attempt it belongs to.                            *)
(***************************************************************************)
EXTENDS Naturals, Sequences

CONSTANTS
  SentTicks,       \* DISMISS_SENT_TICKS
  ConnectedTicks,  \* DISMISS_CONNECTED
  MaxPresses,      \* bound: keys pressed by the user
  MaxAnswers       \* bound: answers decoded

ASSUME SceneAssumption ==
  SentTicks \in Nat \ {0} /\ ConnectedTicks \in Nat \ {0}
  /\ MaxPresses \in Nat /\ MaxAnswers \in Nat

VARIABLES
  \* the GUI thread
  scene,         \* "transmit", "confirm", or "menu": any other scene
  queue,         \* custom events of the view dispatcher
  todo,          \* operations left of the handler that is running
  mode,          \* what the status view shows
  line1,         \* the attempt whose answer the Connected screen shows
  retry_allowed, dismiss_ticks,
  ack_enabled,   \* the setting
  \* the TX thread
  tx_thread,     \* "none", "sending", "returned", "posting", "done"
  tx_cancel, tx_ok,
  \* the ACK listener
  listening,     \* ir_worker runs
  callback,      \* the decoded answer that the worker is about to report
  ack_timer,     \* armed
  ack_text,      \* the attempt that ack_result_text was written in (0: empty)
  \* history and bounds
  attempt,       \* calls of wi_fir_start_tx so far
  heard,         \* attempts in which an answer was decoded
  sent,          \* attempts whose whole transmission went out
  saved,         \* attempts whose credentials were saved
  presses, answers

gui == <<scene, todo, mode, line1, retry_allowed, dismiss_ticks>>
tx == <<tx_thread, tx_cancel, tx_ok>>
listener == <<listening, callback, ack_timer, ack_text>>
history == <<attempt, heard, sent, saved>>
bounds == <<presses, answers>>
vars == <<gui, queue, ack_enabled, tx, listener, history, bounds>>

Failures == {"sendfailed", "joinfailed", "noreply"}
Results == Failures \cup {"connected", "sent"}
Modes == Results \cup {"none", "transmit", "waiting"}

Answers == {"AckSuccess", "AckFail"}
Keys == {"StatusOk", "StatusRight"}   \* Left is handled as OK
Events == Answers \cup Keys
          \cup {"Navigate", "ConfirmSend", "TxFinished", "AckTimeout"}

Post(kind) == queue' = Append(queue, [kind |-> kind, attempt |-> attempt])

Init ==
  /\ scene = "menu" /\ queue = <<>> /\ todo = <<>>
  /\ mode = "none" /\ line1 = 0 /\ retry_allowed = FALSE /\ dismiss_ticks = 0
  /\ ack_enabled \in BOOLEAN
  /\ tx_thread = "none" /\ tx_cancel = FALSE /\ tx_ok = FALSE
  /\ listening = FALSE /\ callback = "none" /\ ack_timer = FALSE /\ ack_text = 0
  /\ attempt = 0 /\ heard = {} /\ sent = {} /\ saved = {}
  /\ presses = 0 /\ answers = 0

-----------------------------------------------------------------------------
(* The TX thread: wi_fir_tx_worker around wfr_transmit_credentials.        *)

\* wi_fir_tx_progress draws, on the call that finds the cancellation too.
TxProgress ==
  /\ tx_thread = "sending"
  /\ mode' = "transmit"
  /\ UNCHANGED <<scene, todo, line1, retry_allowed, dismiss_ticks, queue,
                 ack_enabled, tx, listener, history, bounds>>

\* wfr_transmit_credentials returns: everything was sent, or it was cancelled
\* or could not build the WiFi string.
TxReturn(ok) ==
  /\ tx_thread = "sending"
  /\ tx_thread' = "returned" /\ tx_ok' = ok
  /\ sent' = IF ok THEN sent \cup {attempt} ELSE sent
  /\ UNCHANGED <<gui, queue, ack_enabled, tx_cancel, listener,
                 attempt, heard, saved, bounds>>

\* A cancelled transmission is not reported...
TxCheck ==
  /\ tx_thread = "returned"
  /\ tx_thread' = IF tx_cancel THEN "done" ELSE "posting"
  /\ UNCHANGED <<gui, queue, ack_enabled, tx_cancel, tx_ok, listener, history, bounds>>

\* ... unless the cancellation comes after that check.
TxPost ==
  /\ tx_thread = "posting"
  /\ Post("TxFinished") /\ tx_thread' = "done"
  /\ UNCHANGED <<gui, ack_enabled, tx_cancel, tx_ok, listener, history, bounds>>

-----------------------------------------------------------------------------
(* The infrared worker and the timer.                                      *)

\* Mutant of RxDecode: the text is not written before the event.
DecodeLeavesText(a) ==
  /\ listening /\ callback = "none" /\ answers < MaxAnswers
  /\ callback' = a
  /\ ack_text' = ack_text
  /\ heard' = heard \cup {attempt} /\ answers' = answers + 1
  /\ UNCHANGED <<gui, queue, ack_enabled, tx, listening, ack_timer,
                 attempt, sent, saved, presses>>

\* wi_fir_ir_rx_callback with the last frame of an answer: its text is
\* written before, and apart from, the event.
RxDecode(a) ==
  /\ listening /\ callback = "none" /\ answers < MaxAnswers
  /\ callback' = a
  /\ ack_text' = IF a = "AckSuccess" THEN attempt ELSE ack_text
  /\ heard' = heard \cup {attempt} /\ answers' = answers + 1
  /\ UNCHANGED <<gui, queue, ack_enabled, tx, listening, ack_timer,
                 attempt, sent, saved, presses>>

RxPost ==
  /\ callback # "none"
  /\ Post(callback) /\ callback' = "none"
  /\ UNCHANGED <<gui, ack_enabled, tx, listening, ack_timer, ack_text, history, bounds>>

AckTimeout ==
  /\ ack_timer /\ ack_timer' = FALSE
  /\ Post("AckTimeout")
  /\ UNCHANGED <<gui, ack_enabled, tx, listening, callback, ack_text, history, bounds>>

-----------------------------------------------------------------------------
(* The GUI thread: what its handlers are made of.                          *)

StopAckListener == <<"stopTimer", "stopWorker">>
StopTx == <<"cancel", "join">>
StartTx == StopAckListener \o StopTx \o <<"launch">>
\* Mutant of Dismiss: leaving does not stop the listener.
DismissListening == StopTx \o <<"leave">>   \* and the scene's on_exit

Dismiss == StopTx \o StopAckListener \o <<"leave">>   \* and the scene's on_exit

\* Mutant of Handler: the TX thread is not reaped.
HandlerUnreaped(kind) ==
  CASE kind = "TxFinished"  -> <<"finished">>
    [] kind = "AckSuccess"  -> StopAckListener \o <<"connected">>
    [] kind = "AckFail"     -> StopAckListener \o <<"joinfailed">>
    [] kind = "AckTimeout"  -> StopAckListener \o <<"noreply">>
    [] kind = "StatusOk"    -> Dismiss
    [] kind = "StatusRight" -> IF retry_allowed THEN StartTx ELSE <<>>
    [] OTHER                -> <<>>

\* The transmit scene's handler of a custom event.
Handler(kind) ==
  CASE kind = "TxFinished"  -> StopTx \o <<"finished">>
    [] kind = "AckSuccess"  -> StopAckListener \o <<"connected">>
    [] kind = "AckFail"     -> StopAckListener \o <<"joinfailed">>
    [] kind = "AckTimeout"  -> StopAckListener \o <<"noreply">>
    [] kind = "StatusOk"    -> Dismiss
    [] kind = "StatusRight" -> IF retry_allowed THEN StartTx ELSE <<>>
    [] OTHER                -> <<>>

\* The dispatcher passes the next event to the scene on screen.  Of these
\* events the confirm scene knows ConfirmSend; from the others the way to the
\* confirm screen is an event too (Navigate), by the settings or not.
HandleEvent ==
  /\ todo = <<>> /\ queue # <<>>
  /\ queue' = Tail(queue)
  /\ LET kind == Head(queue).kind IN
     CASE scene = "transmit" ->
            todo' = Handler(kind) /\ UNCHANGED <<scene, ack_enabled>>
       [] scene = "confirm" /\ kind = "ConfirmSend" ->
            todo' = StartTx /\ scene' = "transmit" /\ UNCHANGED ack_enabled
       [] scene = "menu" /\ kind = "Navigate" ->
            scene' = "confirm" /\ ack_enabled' \in BOOLEAN /\ UNCHANGED todo
       [] OTHER -> UNCHANGED <<todo, scene, ack_enabled>>
  /\ UNCHANGED <<mode, line1, retry_allowed, dismiss_ticks, tx, listener,
                 history, bounds>>

\* Mutant of Tick: a counter of 0 is decremented too.
TickUnguarded ==
  /\ todo = <<>> /\ scene = "transmit"
  /\ dismiss_ticks' = dismiss_ticks - 1
  /\ todo' = IF dismiss_ticks = 1 THEN Dismiss ELSE <<>>
  /\ UNCHANGED <<scene, mode, line1, retry_allowed, queue, ack_enabled, tx,
                 listener, history, bounds>>

\* The tick of the event loop, every 100 ms.
Tick ==
  /\ todo = <<>> /\ scene = "transmit" /\ dismiss_ticks > 0
  /\ dismiss_ticks' = dismiss_ticks - 1
  /\ todo' = IF dismiss_ticks = 1 THEN Dismiss ELSE <<>>
  /\ UNCHANGED <<scene, mode, line1, retry_allowed, queue, ack_enabled, tx,
                 listener, history, bounds>>

\* One operation of the running handler.
Op(name) == todo # <<>> /\ Head(todo) = name /\ todo' = Tail(todo)

StopTimer ==
  /\ Op("stopTimer")
  /\ ack_timer' = FALSE
  /\ UNCHANGED <<scene, mode, line1, retry_allowed, dismiss_ticks, queue,
                 ack_enabled, tx, listening, callback, ack_text, history, bounds>>

\* Mutant of StopWorker: does not wait for the callback.
StopWorkerAtOnce ==
  /\ Op("stopWorker")
  /\ listening' = FALSE
  /\ UNCHANGED <<scene, mode, line1, retry_allowed, dismiss_ticks, queue,
                 ack_enabled, tx, callback, ack_timer, ack_text, history, bounds>>

\* Stopping the infrared worker waits for a callback that is under way.
StopWorker ==
  /\ Op("stopWorker")
  /\ callback = "none" /\ listening' = FALSE
  /\ UNCHANGED <<scene, mode, line1, retry_allowed, dismiss_ticks, queue,
                 ack_enabled, tx, callback, ack_timer, ack_text, history, bounds>>

Cancel ==
  /\ Op("cancel")
  /\ tx_cancel' = (tx_cancel \/ tx_thread # "none")
  /\ UNCHANGED <<scene, mode, line1, retry_allowed, dismiss_ticks, queue,
                 ack_enabled, tx_thread, tx_ok, listener, history, bounds>>

Join ==
  /\ Op("join")
  /\ tx_thread \in {"none", "done"} /\ tx_thread' = "none"
  /\ UNCHANGED <<scene, mode, line1, retry_allowed, dismiss_ticks, queue,
                 ack_enabled, tx_cancel, tx_ok, listener, history, bounds>>

\* The rest of wi_fir_start_tx.
Launch ==
  /\ Op("launch")
  /\ tx_cancel' = FALSE /\ tx_ok' = FALSE /\ tx_thread' = "sending"
  /\ dismiss_ticks' = 0 /\ retry_allowed' = FALSE /\ mode' = "transmit"
  /\ attempt' = attempt + 1
  /\ UNCHANGED <<scene, line1, queue, ack_enabled, listener, heard, sent, saved, bounds>>

\* Mutant of ShowFailure: does not stop the dismissal.
FailureKeepsTicks(failure) ==
  /\ mode' = failure /\ retry_allowed' = TRUE
  /\ UNCHANGED <<scene, line1, dismiss_ticks>>

\* wi_fir_show_failure.
ShowFailure(failure) ==
  /\ mode' = failure /\ retry_allowed' = TRUE /\ dismiss_ticks' = 0
  /\ UNCHANGED <<scene, line1>>

\* wi_fir_on_tx_finished, the thread reaped.  A failure is shown; a success is
\* saved, and then the answer is awaited or "Sent!" is shown.
SendFailed ==
  /\ Op("finished") /\ ~tx_ok
  /\ ShowFailure("sendfailed")
  /\ UNCHANGED <<queue, ack_enabled, tx, listener, history, bounds>>

\* Mutant of StartAckListener: the waiting screen is not shown.
ListenUnannounced ==
  /\ Op("finished") /\ tx_ok /\ ack_enabled
  /\ saved' = saved \cup {attempt}
  /\ listening' = TRUE /\ ack_timer' = TRUE /\ ack_text' = 0
  /\ UNCHANGED mode
  /\ UNCHANGED <<scene, line1, retry_allowed, dismiss_ticks, queue,
                 ack_enabled, tx, callback, attempt, heard, sent, bounds>>

\* Mutant of StartAckListener: the timer is not started.
ListenForever ==
  /\ Op("finished") /\ tx_ok /\ ack_enabled
  /\ saved' = saved \cup {attempt}
  /\ listening' = TRUE /\ UNCHANGED ack_timer /\ ack_text' = 0
  /\ mode' = "waiting"
  /\ UNCHANGED <<scene, line1, retry_allowed, dismiss_ticks, queue,
                 ack_enabled, tx, callback, attempt, heard, sent, bounds>>

StartAckListener ==
  /\ Op("finished") /\ tx_ok /\ ack_enabled
  /\ saved' = saved \cup {attempt}
  /\ listening' = TRUE /\ ack_timer' = TRUE /\ ack_text' = 0
  /\ mode' = "waiting"
  /\ UNCHANGED <<scene, line1, retry_allowed, dismiss_ticks, queue,
                 ack_enabled, tx, callback, attempt, heard, sent, bounds>>

\* Mutant of ShowSent: whether the transmission succeeded is not looked at.
SentAnyway ==
  /\ Op("finished") /\ ~ack_enabled
  /\ saved' = saved \cup {attempt}
  /\ mode' = "sent" /\ dismiss_ticks' = SentTicks
  /\ UNCHANGED <<scene, line1, retry_allowed, queue, ack_enabled, tx,
                 listener, attempt, heard, sent, bounds>>

\* Mutant of ShowSent: the dismissal is not started.
SentForever ==
  /\ Op("finished") /\ tx_ok /\ ~ack_enabled
  /\ saved' = saved \cup {attempt}
  /\ mode' = "sent" /\ UNCHANGED dismiss_ticks
  /\ UNCHANGED <<scene, line1, retry_allowed, queue, ack_enabled, tx,
                 listener, attempt, heard, sent, bounds>>

ShowSent ==
  /\ Op("finished") /\ tx_ok /\ ~ack_enabled
  /\ saved' = saved \cup {attempt}
  /\ mode' = "sent" /\ dismiss_ticks' = SentTicks
  /\ UNCHANGED <<scene, line1, retry_allowed, queue, ack_enabled, tx,
                 listener, attempt, heard, sent, bounds>>

\* The rest of the handlers of the answer and of the timeout.
ShowConnected ==
  /\ Op("connected")
  /\ retry_allowed' = FALSE /\ dismiss_ticks' = ConnectedTicks
  /\ mode' = "connected" /\ line1' = ack_text
  /\ UNCHANGED <<scene, queue, ack_enabled, tx, listener, history, bounds>>

ShowNoConnection ==
  \E failure \in {"joinfailed", "noreply"} :
    /\ Op(failure) /\ ShowFailure(failure)
    /\ UNCHANGED <<queue, ack_enabled, tx, listener, history, bounds>>

\* The end of on_exit, and the main menu.
Leave ==
  /\ Op("leave")
  /\ scene' = "menu" /\ dismiss_ticks' = 0
  /\ UNCHANGED <<mode, line1, retry_allowed, queue, ack_enabled, tx, listener,
                 history, bounds>>

Operation == StopTimer \/ StopWorker \/ Cancel \/ Join \/ Launch \/ SendFailed
             \/ StartAckListener \/ ShowSent \/ ShowConnected
             \/ ShowNoConnection \/ Leave

-----------------------------------------------------------------------------
(* The user, through callbacks that run on the GUI thread.                 *)

Pressed == todo = <<>> /\ presses < MaxPresses /\ presses' = presses + 1

\* Events of keys take milliseconds to be handled: a user is at most two keys
\* ahead of the handlers.
Forward == {"Navigate", "ConfirmSend"}
KeysAhead == { i \in DOMAIN queue : queue[i].kind \in Keys \cup Forward }
Queued(kind) == Post(kind) /\ \A i, j \in KeysAhead : i = j

\* A choice in a menu, a list or an editor; Send on the confirm screen.
PressForward ==
  /\ Pressed /\ scene # "transmit"
  /\ Queued(IF scene = "menu" THEN "Navigate" ELSE "ConfirmSend")
  /\ UNCHANGED <<gui, ack_enabled, tx, listener, history, answers>>

\* The status view passes keys on only while it shows a result.
PressKey(key) ==
  /\ Pressed /\ scene = "transmit" /\ mode \in Results
  /\ Queued(key)
  /\ UNCHANGED <<gui, ack_enabled, tx, listener, history, answers>>

\* Back is not queued: the scene handles it at once.
PressBack ==
  /\ Pressed /\ scene # "menu"
  /\ IF scene = "transmit" THEN todo' = Dismiss /\ UNCHANGED scene
                           ELSE scene' = "menu" /\ UNCHANGED todo
  /\ UNCHANGED <<mode, line1, retry_allowed, dismiss_ticks, queue,
                 ack_enabled, tx, listener, history, answers>>

User == PressForward \/ PressBack \/ \E key \in Keys : PressKey(key)

Idle ==   \* the app waits for the user, who may never come back
  todo = <<>> /\ queue = <<>> /\ presses = MaxPresses /\ UNCHANGED vars

TxThread == TxProgress \/ (\E ok \in BOOLEAN : TxReturn(ok)) \/ TxCheck \/ TxPost
Receive == \E a \in Answers : RxDecode(a)

Next == HandleEvent \/ Tick \/ Operation \/ User \/ TxThread
        \/ Receive \/ RxPost \/ AckTimeout \/ Idle

Spec == Init /\ [][Next]_vars

\* Threads, timer and event loop are scheduled; the loop over the messages of
\* a transmission ends.  The user presses no key and the server gives no
\* answer unless they want to.
Fairness ==
  /\ WF_vars(HandleEvent) /\ WF_vars(Tick) /\ WF_vars(Operation)
  /\ WF_vars(\E ok \in BOOLEAN : TxReturn(ok)) /\ WF_vars(TxCheck) /\ WF_vars(TxPost)
  /\ WF_vars(RxPost) /\ WF_vars(AckTimeout)

FairSpec == Spec /\ Fairness

-----------------------------------------------------------------------------
Event == [kind : Events, attempt : Nat]
Ops == {"stopTimer", "stopWorker", "cancel", "join", "launch", "finished",
        "connected", "joinfailed", "noreply", "leave"}

\* Every variable has its type; the dismissal counter never wraps.
TypeOK ==
  /\ scene \in {"menu", "confirm", "transmit"}
  /\ queue \in Seq(Event) /\ todo \in Seq(Ops)
  /\ mode \in Modes /\ line1 \in 0 .. attempt
  /\ retry_allowed \in BOOLEAN /\ ack_enabled \in BOOLEAN
  /\ dismiss_ticks \in 0 .. SentTicks \cup 0 .. ConnectedTicks
  /\ tx_thread \in {"none", "sending", "returned", "posting", "done"}
  /\ tx_cancel \in BOOLEAN /\ tx_ok \in BOOLEAN
  /\ listening \in BOOLEAN /\ callback \in Answers \cup {"none"}
  /\ ack_timer \in BOOLEAN /\ ack_text \in 0 .. attempt
  /\ attempt \in Nat /\ heard \subseteq 0 .. attempt
  /\ sent \subseteq 0 .. attempt /\ saved \subseteq 0 .. attempt
  /\ presses \in 0 .. MaxPresses /\ answers \in 0 .. MaxAnswers

\* The infrared LED and the infrared receiver are never used at once: the
\* listener starts after the TX thread is reaped, and a retry waits for the
\* listener to be gone.
HalfDuplex == listening \/ callback # "none" => tx_thread = "none"

\* What the threads and the timer reported in one attempt never acts on a
\* later one, however late the GUI thread gets to it: a cancelled
\* transmission's TxFinished, or an answer to the attempt before a retry.
NoStaleReport ==
  scene = "transmit" =>
    \A i \in DOMAIN queue :
      queue[i].kind \in Answers \cup {"TxFinished", "AckTimeout"} =>
        queue[i].attempt = attempt

\* "Connected!" shows the address that came with an answer heard in the
\* attempt on screen, never a blank or an older one.
ConnectedHonest ==
  scene = "transmit" /\ mode = "connected" => line1 = attempt /\ attempt \in heard

\* When the scene is left, nothing that could call back into it is left behind.
LeftClean ==
  scene # "transmit" =>
    /\ tx_thread = "none" /\ ~listening /\ callback = "none" /\ ~ack_timer
    /\ dismiss_ticks = 0

\* The self-dismissing screens are the two successes: a tick never cuts off a
\* transmission, a wait for an answer or a failure with its Retry button.
DismissSafe == dismiss_ticks > 0 => mode \in {"connected", "sent"}

\* Credentials are saved only if the whole transmission went out.
SavedIfSent == saved \subseteq sent

\* The screens follow each other in one order: a result comes after the
\* transmission or the wait that it is the result of, only an answer or the
\* timeout replaces the result of a wait, and only a new attempt goes back to
\* the progress screen - the TX thread's progress never overwrites a result.
Leads(from, to) ==
  CASE to = "transmit" -> attempt' # attempt
    [] to \in {"waiting", "sent", "sendfailed"} -> from = "transmit"
    [] OTHER -> from \in {"waiting", "connected", "joinfailed", "noreply"}

ScreenOrder == [][mode' # mode => Leads(mode, mode')]_vars

\* No attempt hangs: every transmission and every wait ends in a result or in
\* the menu.
AttemptEnds ==
  (scene = "transmit" /\ mode \in {"transmit", "waiting"})
    ~> (scene # "transmit" \/ mode \in Results)

\* "Sent!" goes away by itself.
SentDismissed ==
  (scene = "transmit" /\ mode = "sent" /\ todo = <<>>) ~> (scene = "menu")
=============================================================================
