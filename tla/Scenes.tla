------------------------------- MODULE Scenes -------------------------------
(***************************************************************************)
(* The screens of the Flipper app: the scene manager's stack, the queue of *)
(* custom events between the views and the scenes' handlers, the working   *)
(* set of credentials the screens share, and the files of Storage.  Keys   *)
(* reach the view on screen, and Back the scene, in any order with what is *)
(* queued; what a view reports waits in the queue and is handled by        *)
(* whichever scene is then on top.  The transmit scene is modelled in      *)
(* detail by TransmitScene and here only by what it saves and where it     *)
(* returns to.                                                             *)
(***************************************************************************)
EXTENDS Storage, Integers

CONSTANTS
  Ssids, Passwords,  \* what the user types, and finds on tags; <<>> is no password
  Securities,        \* the values of security_type
  DefaultSecurity,   \* WFR_SEC_WPA
  NfcErrorTicks,     \* NFC_ERROR_TICKS
  Visits,            \* bound: the scenes the user opens from the main menu
  MaxQueue,          \* bound: custom events waiting
  MaxFailures        \* bound: writes that fail

ASSUME ScenesAssumption ==
  /\ Ssids \subseteq Seq(STRING) /\ <<>> \notin Ssids /\ <<>> \in Passwords
  /\ DefaultSecurity \in Securities
  /\ NfcErrorTicks \in Nat \ {0} /\ MaxQueue \in Nat /\ MaxFailures \in Nat

VARIABLES
  stack,          \* scene_manager: empty while the app does not run
  view,           \* the scene whose view is on screen, or "Dialog"
  queue,          \* custom events of the view dispatcher
  creds,          \* ssid, password, security_type and hidden
  buf,            \* text_input_buf, while a text scene is on top
  saved,          \* saved_files and saved_ssids, while Saved is on top
  index,          \* the scene state of Saved
  selected,       \* selected_saved_file; <<>> is the empty string
  poller,         \* nfc_poller: "off", "polling", or "reported" a tag
  nfc_creds, dismiss_ticks,
  settings,       \* ack_enabled and ir_protocol
  dir, settings_file,   \* the SD card
  \* history and bounds
  chosen,         \* the SSID of the row that OK was last pressed on
  sent,           \* SSIDs transmitted and saved, and not deleted since
  failures

ui == <<stack, view, buf, saved, poller, dismiss_ticks>>
card == <<dir, settings_file>>
vars == <<ui, queue, creds, index, selected, nfc_creds, settings, card,
          chosen, sent, failures>>

MenuScenes == {"EditSsid", "ScanNfc", "Saved", "Settings", "About"}
Scene == MenuScenes \cup {"MainMenu", "EditPassword", "EditSecurity",
                          "Confirm", "Transmit"}
Credentials == [ssid : Ssids, password : Passwords, security : Securities,
                hidden : BOOLEAN]
\* A tag may give a name that begins with NUL, and one without credentials may
\* leave parts of them; neither is ever of a hidden network.
TagCreds(ssids) == [ssid : ssids, password : Passwords, security : Securities, hidden : {FALSE}]
Working == [ssid : Ssids \cup {<<>>}, password : Passwords, security : Securities,
            hidden : BOOLEAN]
NoCreds == [ssid |-> <<>>, password |-> <<>>, security |-> DefaultSecurity,
            hidden |-> FALSE]   \* wi_fir_alloc

TopOf(scenes) == IF scenes = <<>> THEN "none" ELSE Last(scenes)
Top == TopOf(stack)

Init ==
  /\ stack = <<>> /\ view = "none" /\ queue = <<>> /\ creds = NoCreds
  /\ buf = <<>> /\ saved = <<>> /\ index = 1 /\ selected = <<>>
  /\ poller = "off" /\ nfc_creds = NoCreds /\ dismiss_ticks = 0
  /\ settings = DefaultSettings /\ dir = <<>> /\ settings_file = <<>>
  /\ chosen = <<>> /\ sent = {} /\ failures = 0

\* What on_enter sets up for each scene, and on_exit takes down: the text scenes
\* are pre-filled, the saved list is read from the card, the poller runs.
Prefilled(top) ==
  CASE top = "EditSsid" -> creds'.ssid
    [] top = "EditPassword" -> creds'.password
    [] OTHER -> <<>>
SavedRows(top) == IF top = "Saved" THEN List(dir') ELSE <<>>
PollerOf(top) == IF top = "ScanNfc" THEN "polling" ELSE "off"

\* The scene manager changes to the stack given, and shows its top.
Show(scenes) ==
  LET top == TopOf(scenes) IN
  /\ stack' = scenes /\ view' = top
  /\ buf' = Prefilled(top) /\ saved' = SavedRows(top) /\ poller' = PollerOf(top)
  /\ dismiss_ticks' = 0
Open(scene) == Show(Append(stack, scene))
Close == Show(Front(stack))

Send(kind, about) ==
  /\ Len(queue) < MaxQueue
  /\ queue' = Append(queue, [kind |-> kind, about |-> about])

-----------------------------------------------------------------------------
(* Keys: what the views do with them.                                      *)

\* wfr_menu_view and the main menu's callback.
MenuOk(scene) ==
  /\ view = "MainMenu" /\ scene \in Visits
  /\ Send("MainMenu", scene)
  /\ UNCHANGED <<ui, creds, index, selected, nfc_creds, settings, card,
                 chosen, sent, failures>>

\* The keyboard: it reports no SSID shorter than one character.
TypeText(text) ==
  /\ buf' = text
  /\ \/ view = "EditSsid" /\ text \in Ssids
     \/ view = "EditPassword" /\ text \in Passwords
  /\ UNCHANGED <<stack, view, saved, poller, dismiss_ticks, queue, creds, index,
                 selected, nfc_creds, settings, card, chosen, sent, failures>>

TextDone ==
  /\ \/ view = "EditSsid" /\ buf # <<>>
     \/ view = "EditPassword"
  /\ Send("TextInputDone", view)
  /\ UNCHANGED <<ui, creds, index, selected, nfc_creds, settings, card,
                 chosen, sent, failures>>

\* The items of the security scene change the working set as they change.
ChangeSecurity(security, hidden) ==
  /\ view = "EditSecurity"
  /\ creds' = [creds EXCEPT !.security = security, !.hidden = hidden]
  /\ UNCHANGED <<ui, queue, index, selected, nfc_creds, settings, card,
                 chosen, sent, failures>>

SecurityOk ==
  /\ view = "EditSecurity"
  /\ Send("SecurityDone", view)
  /\ UNCHANGED <<ui, creds, index, selected, nfc_creds, settings, card,
                 chosen, sent, failures>>

\* Mutant of SavedOk: the index is not stored.
SavedOkUnindexed(row) ==
  /\ view = "Saved" /\ row \in DOMAIN saved
  /\ UNCHANGED index /\ chosen' = saved[row].ssid
  /\ Send("SavedSelected", view)
  /\ UNCHANGED <<ui, creds, selected, nfc_creds, settings, card, sent, failures>>

\* wfr_list_view: OK on a row stores its index for the handler to find.
SavedOk(row) ==
  /\ view = "Saved" /\ row \in DOMAIN saved
  /\ index' = row /\ chosen' = saved[row].ssid
  /\ Send("SavedSelected", view)
  /\ UNCHANGED <<ui, creds, selected, nfc_creds, settings, card, sent, failures>>

\* wfr_confirm_view offers to delete only what was opened from the saved list.
ConfirmKey(kind) ==
  /\ view = "Confirm"
  /\ \/ kind \in {"ConfirmSend", "ConfirmBack"}
     \/ kind = "ConfirmDelete" /\ selected # <<>>
  /\ Send(kind, view)
  /\ UNCHANGED <<ui, creds, index, selected, nfc_creds, settings, card,
                 chosen, sent, failures>>

\* The dialog names the SSID of the working set.
DialogKey(kind) ==
  /\ view = "Dialog"
  /\ Send(kind, creds.ssid)
  /\ UNCHANGED <<ui, creds, index, selected, nfc_creds, settings, card,
                 chosen, sent, failures>>

\* Mutant of SettingsChange: a change is not always saved.
SettingsUnsaved(key, value) ==
  /\ view = "Settings"
  /\ settings' = [settings EXCEPT ![key] = value]
  /\ \/ settings_file' = settings' /\ UNCHANGED failures
     \/ UNCHANGED <<settings_file, failures>>
     \/ /\ failures < MaxFailures /\ failures' = failures + 1
        /\ settings_file' \in FailedSettings(settings_file, settings')
  /\ UNCHANGED <<ui, queue, creds, index, selected, nfc_creds, dir, chosen, sent>>

\* The items of the settings scene: each change is saved at once.
SettingsChange(key, value) ==
  /\ view = "Settings"
  /\ settings' = [settings EXCEPT ![key] = value]
  /\ \/ settings_file' = settings' /\ UNCHANGED failures
     \/ /\ failures < MaxFailures /\ failures' = failures + 1
        /\ settings_file' \in FailedSettings(settings_file, settings')
  /\ UNCHANGED <<ui, queue, creds, index, selected, nfc_creds, dir, chosen, sent>>

\* Back is not queued.  No scene but Transmit does anything of its own with it;
\* at the main menu it ends the app, and what is queued is never handled.
Back ==
  /\ stack # <<>>
  /\ queue' = IF Len(stack) = 1 THEN <<>> ELSE queue
  /\ UNCHANGED <<creds, index, selected, nfc_creds, settings, card,
                 chosen, sent, failures>>
  /\ IF Top = "Transmit" THEN Show(<<"MainMenu">>) ELSE Close

\* wi_fir_app: everything but the card starts afresh.
Start ==
  /\ stack = <<>>
  /\ creds' = NoCreds /\ index' = 1 /\ selected' = <<>> /\ nfc_creds' = NoCreds
  /\ settings' = LoadSettings(settings_file)
  /\ chosen' = <<>>
  /\ UNCHANGED <<queue, card, sent, failures>>
  /\ Show(<<"MainMenu">>)

-----------------------------------------------------------------------------
(* The NFC worker, the tick, and the transmit scene.                       *)

\* wi_fir_nfc_poller_callback on a tag that was read: it reports once.
TagRead(found) ==
  /\ poller = "polling" /\ poller' = "reported"
  /\ IF found THEN Send("NfcWifiFound", <<>>) /\ nfc_creds' \in TagCreds(Ssids \cup {<<>>})
              ELSE Send("NfcNotWifi", <<>>) /\ nfc_creds' \in {nfc_creds} \cup TagCreds({<<>>})
  /\ UNCHANGED <<stack, view, buf, saved, dismiss_ticks, creds, index, selected,
                 settings, card, chosen, sent, failures>>

\* Mutant of Tick: the poller is not started again.
TickNeverRestarts ==
  /\ Top = "ScanNfc" /\ dismiss_ticks > 0
  /\ dismiss_ticks' = dismiss_ticks - 1
  /\ UNCHANGED poller
  /\ UNCHANGED <<stack, view, buf, saved, queue, creds, index, selected,
                 nfc_creds, settings, card, chosen, sent, failures>>

\* The scan scene shows an error for NFC_ERROR_TICKS, then scans again.
Tick ==
  /\ Top = "ScanNfc" /\ dismiss_ticks > 0
  /\ dismiss_ticks' = dismiss_ticks - 1
  /\ poller' = IF dismiss_ticks' = 0 THEN "polling" ELSE poller
  /\ UNCHANGED <<stack, view, buf, saved, queue, creds, index, selected,
                 nfc_creds, settings, card, chosen, sent, failures>>

\* A whole transmission, which there is none of without an SSID, is saved under
\* it; nobody looks at whether the save succeeded.
TxFinished ==
  /\ Top = "Transmit" /\ creds.ssid # <<>>
  /\ \/ /\ dir' = Save(dir, creds) /\ sent' = sent \cup {creds.ssid}
        /\ UNCHANGED failures
     \/ /\ failures < MaxFailures /\ failures' = failures + 1
        /\ dir' \in FailedSaves(dir, creds) /\ sent' = sent \ {creds.ssid}
  /\ UNCHANGED <<ui, queue, creds, index, selected, nfc_creds, settings,
                 settings_file, chosen>>

-----------------------------------------------------------------------------
(* The scenes' handlers of custom events: an event that the scene on top   *)
(* does not know is dropped.                                               *)

MainMenuEvent(e) ==
  /\ Top = "MainMenu" /\ e.kind = "MainMenu"
  /\ UNCHANGED <<creds, selected, dir, sent>>
  /\ Open(e.about)

EditSsidEvent(e) ==
  /\ Top = "EditSsid" /\ e.kind = "TextInputDone"
  /\ creds' = [creds EXCEPT !.ssid = buf]
  /\ UNCHANGED <<selected, dir, sent>>
  /\ Open("EditPassword")

\* Mutant of EditPasswordEvent: the text goes to the wrong field.
PasswordIntoSsid(e) ==
  /\ Top = "EditPassword" /\ e.kind = "TextInputDone"
  /\ creds' = [creds EXCEPT !.ssid = buf]
  /\ UNCHANGED <<selected, dir, sent>>
  /\ Open("EditSecurity")

EditPasswordEvent(e) ==
  /\ Top = "EditPassword" /\ e.kind = "TextInputDone"
  /\ creds' = [creds EXCEPT !.password = buf]
  /\ UNCHANGED <<selected, dir, sent>>
  /\ Open("EditSecurity")

\* Mutant of EditSecurityEvent: the saved file stays selected.
SecurityKeepsFile(e) ==
  /\ Top = "EditSecurity" /\ e.kind = "SecurityDone"
  /\ UNCHANGED selected
  /\ UNCHANGED <<creds, dir, sent>>
  /\ Open("Confirm")

EditSecurityEvent(e) ==
  /\ Top = "EditSecurity" /\ e.kind = "SecurityDone"
  /\ selected' = <<>>
  /\ UNCHANGED <<creds, dir, sent>>
  /\ Open("Confirm")

\* The file is read again, by the index of the row that OK was last pressed on.
Chosen == IF index \in DOMAIN saved THEN Loads(dir, saved[index].file) ELSE {}
\* Mutant of SavedEvent: a file selected before stays selected.
SavedKeepsFile(e) ==
  /\ Top = "Saved" /\ e.kind = "SavedSelected"
  /\ creds' \in Chosen
  /\ selected' = IF selected = <<>> THEN saved[index].file ELSE selected
  /\ UNCHANGED <<dir, sent>>
  /\ Open("Confirm")

SavedEvent(e) ==
  /\ Top = "Saved" /\ e.kind = "SavedSelected"
  /\ creds' \in Chosen
  /\ selected' = saved[index].file
  /\ UNCHANGED <<dir, sent>>
  /\ Open("Confirm")

ConfirmDeleteEvent(e) ==
  /\ Top = "Confirm" /\ e.kind = "ConfirmDelete"
  /\ view' = IF selected # <<>> THEN "Dialog" ELSE view
  /\ UNCHANGED <<stack, buf, saved, poller, dismiss_ticks, creds, selected, dir, sent>>

\* Nobody looks at whether the file could be removed.
DeleteConfirmedEvent(e) ==
  /\ Top = "Confirm" /\ e.kind = "DeleteConfirmed"
  /\ dir' \in {Delete(dir, selected), dir} /\ selected' = <<>>
  /\ sent' = sent \ {e.about}
  /\ UNCHANGED creds
  /\ Close

DeleteCancelledEvent(e) ==
  /\ Top = "Confirm" /\ e.kind = "DeleteCancelled"
  /\ view' = "Confirm"
  /\ UNCHANGED <<stack, buf, saved, poller, dismiss_ticks, creds, selected, dir, sent>>

ConfirmEvent(e) ==
  /\ Top = "Confirm" /\ e.kind \in {"ConfirmSend", "ConfirmBack"}
  /\ UNCHANGED <<creds, selected, dir, sent>>
  /\ IF e.kind = "ConfirmSend" THEN Open("Transmit") ELSE Close

TagEvent(e) ==
  /\ Top = "ScanNfc" /\ e.kind = "NfcWifiFound"
  /\ creds' = nfc_creds /\ selected' = <<>>
  /\ UNCHANGED <<dir, sent>>
  /\ Open("Confirm")

\* Mutant of NotWifiEvent: the error does not pass.
NotWifiForever(e) ==
  /\ Top = "ScanNfc" /\ e.kind = "NfcNotWifi"
  /\ poller' = "off" /\ dismiss_ticks' = 0
  /\ UNCHANGED <<stack, view, buf, saved, creds, selected, dir, sent>>

\* wi_fir_nfc_show_error
NotWifiEvent(e) ==
  /\ Top = "ScanNfc" /\ e.kind = "NfcNotWifi"
  /\ poller' = "off" /\ dismiss_ticks' = NfcErrorTicks
  /\ UNCHANGED <<stack, view, buf, saved, creds, selected, dir, sent>>

Handles(scene, kind) ==
  \/ scene = kind
  \/ scene \in {"EditSsid", "EditPassword"} /\ kind = "TextInputDone"
  \/ scene = "EditSecurity" /\ kind = "SecurityDone"
  \/ scene = "Saved" /\ kind = "SavedSelected"
  \/ scene = "ScanNfc" /\ kind \in {"NfcWifiFound", "NfcNotWifi"}
  \/ scene = "Confirm" /\ kind \in {"ConfirmSend", "ConfirmBack", "ConfirmDelete",
                                    "DeleteConfirmed", "DeleteCancelled"}
Dropped(e) ==
  /\ \/ ~Handles(Top, e.kind)
     \/ e.kind = "SavedSelected" /\ Chosen = {}
  /\ UNCHANGED <<ui, creds, selected, dir, sent>>

HandleEvent ==
  /\ queue # <<>> /\ queue' = Tail(queue)
  /\ UNCHANGED <<index, nfc_creds, settings, settings_file, chosen, failures>>
  /\ LET e == Head(queue) IN
     \/ MainMenuEvent(e) \/ EditSsidEvent(e) \/ EditPasswordEvent(e)
     \/ EditSecurityEvent(e) \/ SavedEvent(e) \/ ConfirmDeleteEvent(e)
     \/ DeleteConfirmedEvent(e) \/ DeleteCancelledEvent(e) \/ ConfirmEvent(e)
     \/ TagEvent(e) \/ NotWifiEvent(e) \/ Dropped(e)

Key ==
  \/ \E scene \in MenuScenes : MenuOk(scene)
  \/ \E text \in Ssids \cup Passwords : TypeText(text)
  \/ TextDone
  \/ \E security \in Securities, hidden \in BOOLEAN : ChangeSecurity(security, hidden)
  \/ SecurityOk
  \/ \E row \in DOMAIN saved : SavedOk(row)
  \/ \E kind \in {"ConfirmSend", "ConfirmBack", "ConfirmDelete"} : ConfirmKey(kind)
  \/ \E kind \in {"DeleteConfirmed", "DeleteCancelled"} : DialogKey(kind)
  \/ \E value \in {"Off", "On"} : SettingsChange("WaitForACK", value)
  \/ \E value \in {"RC-6", "NEC"} : SettingsChange("IrProtocol", value)
  \/ Back
  \/ Start

Next ==
  \/ Key \/ HandleEvent \/ Tick \/ TxFinished
  \/ \E found \in BOOLEAN : TagRead(found)

Spec == Init /\ [][Next]_vars

\* The GUI thread handles what is queued, and its tick goes on.
FairSpec == Spec /\ WF_vars(HandleEvent) /\ WF_vars(Tick)

-----------------------------------------------------------------------------
(* Properties.  An event's about is for them alone.                        *)

\* Each variable has values of its kind; in particular what was typed as a
\* password never becomes an SSID, though both go through one buffer.
TypeOK ==
  /\ stack \in Seq(Scene) /\ view \in Scene \cup {"none", "Dialog"}
  /\ Len(queue) <= MaxQueue
  /\ creds \in Working /\ nfc_creds \in Working
  /\ buf \in Ssids \cup Passwords
  /\ Len(saved) <= SavedMax /\ index \in 1..SavedMax
  /\ poller \in {"off", "polling", "reported"}
  /\ dismiss_ticks \in 0..NfcErrorTicks
  /\ settings \in [WaitForACK : {"Off", "On"}, IrProtocol : {"RC-6", "NEC"}]
  /\ \A name \in DOMAIN dir : dir[name] \subseteq Credentials
  /\ sent \subseteq Ssids /\ failures \in 0..MaxFailures

\* On the confirm screen, Del is offered for what was opened from the saved
\* list and for nothing else, whichever way the screens were left and entered
\* (wi_fir_scene_confirm.c: delete only for saved networks).
DeleteOnlySaved ==
  Top = "Confirm" => (selected # <<>> <=> stack[Len(stack) - 1] = "Saved")

\* What Del would remove is the file of the credentials on screen.
DeletableIsShown ==
  Top = "Confirm" /\ selected # <<>> => creds \in Loads(dir, selected)

\* A file goes away only on the Yes to a dialog that named its network: no
\* event outlives the dialog and is taken for another one.  For MaxQueue = 2:
\* with a third event waiting, this and the next two properties fail.
OnlyTheNamedIsDeleted ==
  [][\A name \in DOMAIN dir \ DOMAIN dir' :
       /\ Head(queue).kind = "DeleteConfirmed"
       /\ \E c \in dir[name] : c.ssid = Head(queue).about]_vars

\* The confirm screen opens on the network whose row OK was last pressed on.
OpensChosen ==
  [][Top = "Saved" /\ TopOf(stack') = "Confirm" => creds'.ssid = chosen]_vars

\* A network that was transmitted and saved stays on the card until the user
\* deletes it or saving it again fails (README.md: "Previously transmitted
\* networks are auto-saved to the SD card").
SentIsKept ==
  \A ssid \in sent : \E name \in DOMAIN dir : \E c \in dir[name] : c.ssid = ssid

\* The scan scene is never left doing nothing: it polls, or shows an error that
\* will pass, or has a report to handle.
ScanAlive ==
  Top = "ScanNfc" =>
    \/ poller = "polling" \/ dismiss_ticks > 0
    \/ \E e \in ToSet(queue) : e.kind \in {"NfcWifiFound", "NfcNotWifi"}

\* As long as no write failed, the next start of the app finds the settings
\* the user left.
SettingsSurvive ==
  stack # <<>> /\ failures = 0 => LoadSettings(settings_file) = settings

\* After a tag that is no use the scene scans again, unless it is left.
ScanResumes ==
  (Top = "ScanNfc" /\ poller # "polling") ~> (poller = "polling" \/ Top # "ScanNfc")
=============================================================================
