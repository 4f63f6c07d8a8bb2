--------------------------- MODULE Scenes_proofs ---------------------------
(***************************************************************************)
(* What holds on the screens of the app for any networks, any number of    *)
(* keys pressed ahead and any number of writes that fail: the types of the *)
(* working set and the files, that Del is for saved networks and for the   *)
(* one shown, that the scan scene goes on, and that settings last.  With   *)
(* at most two events waiting also that the row picked is the one opened,  *)
(* that only the named network is deleted, and that what was sent stays.   *)
(***************************************************************************)
EXTENDS Scenes, FiniteSetTheorems, SequenceTheorems, TLAPS

SettingsSet == [WaitForACK : {"Off", "On"}, IrProtocol : {"RC-6", "NEC"}]

ScanReports == {"NfcWifiFound", "NfcNotWifi"}
Kinds == ScanReports \cup
  {"MainMenu", "TextInputDone", "SecurityDone", "SavedSelected", "ConfirmSend",
   "ConfirmBack", "ConfirmDelete", "DeleteConfirmed", "DeleteCancelled"}
Abouts == Scene \cup Ssids \cup {<<>>}
Event == [kind : Kinds, about : Abouts]

\* Whatever lies on a confirm screen is the transmit scene, so that nothing
\* but what opened a confirm screen ever brings one to the top.
Stacked(scenes) ==
  /\ scenes \in Seq(Scene)
  /\ \A i \in 1 .. Len(scenes) - 1 : scenes[i] = "Confirm" => scenes[i+1] = "Transmit"

\* What is on screen belongs to the scene on top.
UiInv ==
  /\ Stacked(stack)
  /\ view = Top \/ (view = "Dialog" /\ Top = "Confirm")
  /\ Top = "EditSsid" => buf \in Ssids \cup {<<>>}
  /\ Top # "EditSsid" => buf \in Passwords
  /\ Len(saved) \leq SavedMax /\ DOMAIN saved \subseteq 1 .. SavedMax
  /\ poller \in {"off", "polling", "reported"} /\ dismiss_ticks \in 0 .. NfcErrorTicks

QueueInv ==
  /\ queue \in Seq(Event) /\ Len(queue) \leq MaxQueue
  /\ \A i \in DOMAIN queue : queue[i].kind = "MainMenu" => queue[i].about \in MenuScenes

DataInv ==
  /\ creds \in Working /\ nfc_creds \in Working
  /\ index \in 1 .. SavedMax
  /\ settings \in SettingsSet /\ LoadSettings(settings_file) \in SettingsSet
  /\ failures \in 0 .. MaxFailures /\ sent \subseteq Ssids

\* The empty string, which stands for no file, is the name of none.
CardInv ==
  /\ IsFiniteSet(DOMAIN dir) /\ <<>> \notin DOMAIN dir
  /\ \A name \in DOMAIN dir : dir[name] \subseteq Credentials

ScenesInv ==
  /\ UiInv /\ QueueInv /\ DataInv /\ CardInv
  /\ DeleteOnlySaved /\ DeletableIsShown /\ ScanAlive /\ SettingsSurvive

-----------------------------------------------------------------------------
(* The card.                                                               *)

\* sanitize_ssid: an SSID that is not empty has a file name.
LEMMA SafeNameNotEmpty ==
  ASSUME NEW ssid \in Seq(STRING), ssid # <<>>
  PROVE  SafeName(ssid) # <<>>
<1>1. Len(ssid) \in Nat \ {0} /\ DOMAIN ssid = 1 .. Len(ssid) OBVIOUS
<1>2. 1 \in DOMAIN SafeName(ssid) BY <1>1 DEF SafeName
<1>3. DOMAIN <<>> = {} OBVIOUS
<1> QED BY <1>2, <1>3

\* The list has no more rows than there is room for, each of a file that loads.
LEMMA ListBounded ==
  ASSUME NEW d, IsFiniteSet(DOMAIN d)
  PROVE  /\ Len(List(d)) \leq SavedMax /\ DOMAIN List(d) \subseteq 1 .. SavedMax
         /\ \A i \in DOMAIN List(d) : \E name \in DOMAIN d :
              /\ d[name] # {}
              /\ List(d)[i] = [file |-> name, ssid |-> (CHOOSE c \in d[name] : TRUE).ssid]
<1> DEFINE Loadable == {name \in DOMAIN d : d[name] # {}}
           Row(name) == [file |-> name, ssid |-> (CHOOSE c \in d[name] : TRUE).ssid]
           Rows == {Row(name) : name \in Loadable}
           rows == SetToSeq(Rows)
           RowOf == [name \in Loadable |-> Row(name)]
<1>1. IsFiniteSet(Loadable) BY FS_Subset
<1>2. RowOf \in Surjection(Loadable, Rows) BY DEF Surjection
<1> HIDE DEF Loadable, Row
<1>3. IsFiniteSet(Rows) BY <1>1, <1>2, FS_Surjection
<1> HIDE DEF Rows
<1>4. Cardinality(Rows) \in Nat BY <1>3, FS_CardinalityType
<1>5. \E f \in [1 .. Cardinality(Rows) -> Rows] : IsInjective(f)
  <2>1. PICK n \in Nat : ExistsBijection(1 .. n, Rows) BY <1>3, FS_NatBijection
  <2>2. Cardinality(Rows) = n BY <2>1, FS_CountingElements
  <2> QED BY <2>1, <2>2 DEF ExistsBijection, Bijection, Injection
<1>6. rows \in [1 .. Cardinality(Rows) -> Rows] BY <1>5 DEF SetToSeq
<1>7. rows \in Seq(Rows) /\ Len(rows) \in Nat BY <1>4, <1>6
<1> HIDE DEF rows
<1> DEFINE m == Min({SavedMax, Len(rows)})
<1>8. m \in Nat /\ m \leq SavedMax /\ m \leq Len(rows)
  BY <1>7, StorageAssumption DEF Min
<1>9. List(d) = SubSeq(rows, 1, m) BY DEF List, rows, Rows, Row, Loadable
<1> HIDE DEF m
<1>10. SubSeq(rows, 1, m) \in Seq(Rows) /\ Len(SubSeq(rows, 1, m)) = m
  BY <1>7, <1>8, SubSeqProperties
<1>11. DOMAIN List(d) = 1 .. m BY <1>8, <1>9, <1>10
<1>12. \A i \in DOMAIN List(d) : List(d)[i] \in Rows BY <1>9, <1>10, ElementOfSeq, <1>11
<1>13. \A i \in DOMAIN List(d) : \E name \in DOMAIN d : d[name] # {} /\ List(d)[i] = Row(name)
  BY <1>12 DEF Rows, Loadable
<1>14. \A i \in DOMAIN List(d) : \E name \in DOMAIN d :
         /\ d[name] # {}
         /\ List(d)[i] = [file |-> name, ssid |-> (CHOOSE c \in d[name] : TRUE).ssid]
  BY <1>13, Zenon DEF Row
<1>15. Len(List(d)) \leq SavedMax /\ DOMAIN List(d) \subseteq 1 .. SavedMax
  BY <1>8, <1>9, <1>10, <1>11, StorageAssumption
<1> QED BY <1>14, <1>15, Zenon

\* A save, whole or not, leaves a card.
LEMMA WriteKeepsCard ==
  ASSUME CardInv, creds \in Working, creds.ssid # <<>>,
         NEW loads \in SUBSET Credentials, dir' = Write(dir, creds, loads)
  PROVE  CardInv'
<1> DEFINE file == SafeName(creds.ssid)
<1>1. file # <<>> BY SafeNameNotEmpty, ScenesAssumption DEF Working
<1> HIDE DEF file
<1>2. dir' = [name \in DOMAIN dir \cup {file} |-> IF name = file THEN loads ELSE dir[name]]
  BY DEF Write, file
<1>3. DOMAIN dir' = DOMAIN dir \cup {file} BY <1>2
<1>4. IsFiniteSet(DOMAIN dir') BY <1>3, FS_AddElement DEF CardInv
<1>5. <<>> \notin DOMAIN dir' BY <1>1, <1>3 DEF CardInv
<1>6. \A name \in DOMAIN dir' : dir'[name] \subseteq Credentials BY <1>2, <1>3 DEF CardInv
<1> QED BY <1>4, <1>5, <1>6 DEF CardInv

\* wfr_storage_delete leaves a card.
LEMMA DeleteKeepsCard ==
  ASSUME CardInv, NEW name, dir' = Delete(dir, name)
  PROVE  CardInv'
<1>1. DOMAIN dir' = DOMAIN dir \ {name} BY DEF Delete
<1>2. IsFiniteSet(DOMAIN dir') BY <1>1, FS_Subset DEF CardInv
<1>3. \A other \in DOMAIN dir' : dir'[other] = dir[other] BY DEF Delete
<1> QED BY <1>1, <1>2, <1>3 DEF CardInv

-----------------------------------------------------------------------------
(* The scene manager.                                                      *)

\* A stack of scenes that is shown: its top decides view, buffer and poller.
LEMMA ShowScene ==
  ASSUME NEW scenes, Stacked(scenes), Show(scenes), creds' \in Working,
         IsFiniteSet(DOMAIN dir')
  PROVE  /\ UiInv' /\ ScanAlive'
         /\ stack' = scenes /\ Top' = TopOf(scenes)
<1>1. stack' = scenes /\ view' = Top' /\ Top' = TopOf(scenes) BY DEF Show, Top
<1>2. /\ Top' = "EditSsid" => buf' \in Ssids \cup {<<>>}
      /\ Top' # "EditSsid" => buf' \in Passwords
  BY <1>1, ScenesAssumption DEF Show, Prefilled, Working
<1>3. Len(saved') \leq SavedMax /\ DOMAIN saved' \subseteq 1 .. SavedMax
  <2>1. saved' = List(dir') \/ saved' = <<>> BY DEF Show, SavedRows
  <2> QED BY <2>1, ListBounded, StorageAssumption
<1>4. /\ poller' \in {"off", "polling"} /\ dismiss_ticks' = 0
      /\ Top' = "ScanNfc" => poller' = "polling"
  BY <1>1 DEF Show, PollerOf
<1>5. UiInv' BY <1>1, <1>2, <1>3, <1>4, ScenesAssumption DEF UiInv
<1> QED BY <1>1, <1>4, <1>5 DEF ScanAlive

\* A scene on top of another; on a confirm screen only the transmit scene.
LEMMA OpenScene ==
  ASSUME UiInv, stack # <<>>, NEW scene \in Scene, Top = "Confirm" => scene = "Transmit",
         Open(scene), creds' \in Working, IsFiniteSet(DOMAIN dir')
  PROVE  /\ UiInv' /\ ScanAlive' /\ Top' = scene
         /\ stack'[Len(stack') - 1] = Top
<1> DEFINE scenes == Append(stack, scene)
<1>1. /\ scenes \in Seq(Scene) /\ Len(scenes) = Len(stack) + 1
      /\ \A i \in 1 .. Len(stack) : scenes[i] = stack[i]
      /\ scenes[Len(scenes)] = scene /\ Len(stack) \in Nat \ {0}
  BY DEF UiInv, Stacked
<1>2. Top = stack[Len(stack)] /\ TopOf(scenes) = scene BY <1>1 DEF Top, TopOf, Last
<1> HIDE DEF scenes
<1>3. Stacked(scenes) BY <1>1, <1>2 DEF Stacked, UiInv
<1>4. Show(scenes) BY DEF Open, scenes
<1>5. UiInv' /\ ScanAlive' /\ stack' = scenes /\ Top' = scene BY <1>2, <1>3, <1>4, ShowScene
<1>6. scenes[Len(scenes) - 1] = Top BY <1>1, <1>2
<1> QED BY <1>5, <1>6

\* Back to the scene below, which is never a confirm screen unless a
\* transmission ended.
LEMMA CloseScene ==
  ASSUME UiInv, stack # <<>>, Top # "Transmit", Close, creds' \in Working,
         IsFiniteSet(DOMAIN dir')
  PROVE  UiInv' /\ ScanAlive' /\ Top' # "Confirm"
<1> DEFINE scenes == Front(stack)
<1>1. Len(stack) \in Nat /\ Len(stack) > 0 /\ stack \in Seq(Scene) BY DEF UiInv, Stacked
<1>2. scenes = [i \in 1 .. Len(stack) - 1 |-> stack[i]] BY <1>1 DEF Front
<1>3. /\ scenes \in Seq(Scene) /\ Len(scenes) = Len(stack) - 1
      /\ \A i \in 1 .. Len(scenes) : scenes[i] = stack[i]
  BY <1>1, <1>2
<1> HIDE DEF scenes
<1>4. Stacked(scenes)
  <2>1. PICK n \in Nat : n = Len(stack) BY <1>1
  <2>2. \A i \in 1 .. n - 2 : i \in 1 .. n - 1 /\ i + 1 \in 1 .. n - 1 BY <2>1
  <2>3. \A i \in 1 .. n - 1 : stack[i] = "Confirm" => stack[i+1] = "Transmit"
    BY <2>1 DEF UiInv, Stacked
  <2>4. \A i \in 1 .. n - 1 : scenes[i] = stack[i] BY <1>3, <2>1
  <2>5. \A i \in 1 .. n - 2 : scenes[i] = "Confirm" => scenes[i+1] = "Transmit"
    BY <2>2, <2>3, <2>4
  <2>6. Len(scenes) - 1 = n - 2 BY <1>3, <2>1
  <2> QED BY <1>3, <2>5, <2>6 DEF Stacked
<1>5. TopOf(scenes) # "Confirm"
  <2>1. PICK n \in Nat : n = Len(stack) /\ n > 0 BY <1>1
  <2>2. n = 1 => scenes = <<>> BY <1>3, <2>1
  <2>3. CASE n = 1 BY <2>2, <2>3 DEF TopOf
  <2>4. CASE n > 1
    <3>1. PICK i \in 1 .. n - 1 : i + 1 = n BY <2>4
    <3>2. stack[i] = "Confirm" => stack[i+1] = "Transmit" BY <2>1 DEF UiInv, Stacked
    <3>3. Top = stack[i+1] BY <2>1, <3>1 DEF Top, TopOf, Last
    <3>4. scenes # <<>> /\ scenes[Len(scenes)] = stack[i] BY <1>3, <2>1, <3>1
    <3> QED BY <3>2, <3>3, <3>4 DEF TopOf, Last
  <2>5. n = 1 \/ n > 1 BY <2>1
  <2> QED BY <2>3, <2>4, <2>5
<1>6. Show(scenes) BY DEF Close, scenes
<1> QED BY <1>4, <1>5, <1>6, ShowScene

-----------------------------------------------------------------------------
(* The queue.                                                              *)

\* An event posted is the last in the queue.
LEMMA SendEvent ==
  ASSUME QueueInv, NEW kind \in Kinds, NEW about \in Abouts,
         kind = "MainMenu" => about \in MenuScenes, Send(kind, about)
  PROVE  /\ QueueInv' /\ ToSet(queue) \subseteq ToSet(queue')
         /\ [kind |-> kind, about |-> about] \in ToSet(queue')
<1> DEFINE e == [kind |-> kind, about |-> about]
<1>1. e \in Event /\ e.kind = kind /\ e.about = about BY DEF Event
<1>2. queue' = Append(queue, e) /\ Len(queue) < MaxQueue BY DEF Send
<1> HIDE DEF e
<1>3. /\ queue' \in Seq(Event) /\ Len(queue') = Len(queue) + 1 /\ Len(queue) \in Nat
      /\ \A i \in 1 .. Len(queue) : queue'[i] = queue[i]
      /\ queue'[Len(queue) + 1] = e
      /\ DOMAIN queue = 1 .. Len(queue) /\ DOMAIN queue' = 1 .. Len(queue) + 1
  BY <1>1, <1>2 DEF QueueInv
<1>4. QueueInv' BY <1>1, <1>2, <1>3, ScenesAssumption DEF QueueInv
<1>5. ToSet(queue) \subseteq ToSet(queue') /\ e \in ToSet(queue') BY <1>3 DEF ToSet
<1> QED BY <1>4, <1>5 DEF e

\* The dispatcher takes the first event.
LEMMA TakeEvent ==
  ASSUME QueueInv, queue # <<>>, queue' = Tail(queue)
  PROVE  /\ QueueInv' /\ Head(queue) \in Event
         /\ Head(queue).kind = "MainMenu" => Head(queue).about \in MenuScenes
         /\ \A e \in ToSet(queue) : e = Head(queue) \/ e \in ToSet(queue')
<1>1. /\ queue \in Seq(Event) /\ Len(queue) \in Nat \ {0} /\ DOMAIN queue = 1 .. Len(queue)
  BY DEF QueueInv
<1>2. /\ Head(queue) = queue[1] /\ queue' \in Seq(Event) /\ Len(queue') = Len(queue) - 1
      /\ DOMAIN queue' = 1 .. Len(queue) - 1
      /\ \A i \in 1 .. Len(queue) - 1 : queue'[i] = queue[i+1]
  BY <1>1
<1>3. QueueInv' BY <1>1, <1>2, ScenesAssumption DEF QueueInv
<1>4. \A i \in DOMAIN queue : i = 1 \/ (i - 1 \in DOMAIN queue' /\ queue[i] = queue'[i-1])
  BY <1>1, <1>2
<1>5. Head(queue) \in Event /\ (Head(queue).kind = "MainMenu" => Head(queue).about \in MenuScenes)
  BY <1>1, <1>2 DEF QueueInv
<1>6. \A e \in ToSet(queue) : e = Head(queue) \/ e \in ToSet(queue')
  <2>1. SUFFICES ASSUME NEW i \in DOMAIN queue
                 PROVE  queue[i] = Head(queue) \/ queue[i] \in ToSet(queue')
    BY DEF ToSet
  <2> QED BY <1>2, <1>4 DEF ToSet
<1> QED BY <1>3, <1>5, <1>6

-----------------------------------------------------------------------------
(* Keys.                                                                   *)

\* Initially.
LEMMA InitInv == Init => ScenesInv
<1> SUFFICES ASSUME Init PROVE ScenesInv OBVIOUS
<1>1. Top = "none" BY DEF Init, Top, TopOf
<1>2. UiInv BY <1>1, ScenesAssumption, StorageAssumption DEF Init, UiInv, Stacked
<1>3. QueueInv BY ScenesAssumption DEF Init, QueueInv
<1>4. DataInv
  BY ScenesAssumption, StorageAssumption
  DEF Init, DataInv, Working, NoCreds, SettingsSet, DefaultSettings, LoadSettings
<1>5. CardInv
  <2>1. DOMAIN dir = {} BY DEF Init
  <2> QED BY <2>1, FS_EmptySet DEF CardInv
<1>6. DeleteOnlySaved /\ DeletableIsShown /\ ScanAlive
  BY <1>1 DEF DeleteOnlySaved, DeletableIsShown, ScanAlive
<1>7. SettingsSurvive BY DEF Init, SettingsSurvive
<1> QED BY <1>2, <1>3, <1>4, <1>5, <1>6, <1>7 DEF ScenesInv

\* A key that only posts an event, or stores a row before it does.
LEMMA PostStep ==
  ASSUME ScenesInv, NEW kind \in Kinds, NEW about \in Abouts,
         kind = "MainMenu" => about \in MenuScenes, Send(kind, about),
         index' \in 1 .. SavedMax,
         UNCHANGED <<ui, creds, selected, nfc_creds, settings, card, sent, failures>>
  PROVE  ScenesInv'
<1>1. QueueInv' /\ ToSet(queue) \subseteq ToSet(queue') BY SendEvent DEF ScenesInv
<1>2. UNCHANGED <<stack, view, buf, saved, poller, dismiss_ticks, dir, settings_file, Top>>
  BY DEF ui, card, Top
<1>3. UiInv' BY <1>2 DEF ScenesInv, UiInv
<1>4. DataInv' BY <1>2 DEF ScenesInv, DataInv
<1>5. CardInv' BY <1>2 DEF ScenesInv, CardInv
<1>6. DeleteOnlySaved' /\ DeletableIsShown'
  BY <1>2 DEF ScenesInv, DeleteOnlySaved, DeletableIsShown
<1>7. ScanAlive' BY <1>1, <1>2 DEF ScenesInv, ScanAlive
<1>8. SettingsSurvive' BY <1>2 DEF ScenesInv, SettingsSurvive
<1> QED BY <1>1, <1>3, <1>4, <1>5, <1>6, <1>7, <1>8 DEF ScenesInv

\* Where a view is on screen, its scene is on top.
LEMMA ViewIsTop ==
  ASSUME UiInv
  PROVE  /\ Top \in Scene \cup {"none"} /\ (stack = <<>> <=> Top = "none")
         /\ view # "Dialog" => view = Top
         /\ view = "Dialog" => Top = "Confirm"
<1>1. stack # <<>> => Top \in Scene BY DEF UiInv, Stacked, Top, TopOf, Last
<1>2. "none" \notin Scene /\ "Dialog" \notin Scene BY DEF Scene, MenuScenes
<1>3. stack = <<>> => Top = "none" BY DEF Top, TopOf
<1>4. Top # "Dialog" BY <1>1, <1>2, <1>3
<1> QED BY <1>1, <1>2, <1>3, <1>4 DEF UiInv

\* Keys that only post an event.
LEMMA PostingKeys ==
  ASSUME ScenesInv,
         \/ \E scene \in MenuScenes : MenuOk(scene)
         \/ TextDone \/ SecurityOk
         \/ \E row \in DOMAIN saved : SavedOk(row)
         \/ \E kind \in {"ConfirmSend", "ConfirmBack", "ConfirmDelete"} : ConfirmKey(kind)
         \/ \E kind \in {"DeleteConfirmed", "DeleteCancelled"} : DialogKey(kind)
  PROVE  ScenesInv'
<1>1. index \in 1 .. SavedMax BY DEF ScenesInv, DataInv
<1>2. CASE \E scene \in MenuScenes : MenuOk(scene)
  <2>1. PICK scene \in MenuScenes : MenuOk(scene) BY <1>2
  <2>2. "MainMenu" \in Kinds /\ scene \in Abouts BY DEF Kinds, Abouts, Scene
  <2> QED BY <1>1, <2>1, <2>2, PostStep DEF MenuOk
<1>3. CASE TextDone
  <2>1. "TextInputDone" \in Kinds /\ view \in Abouts
    BY <1>3 DEF TextDone, Kinds, Abouts, Scene, MenuScenes
  <2> QED BY <1>1, <1>3, <2>1, PostStep DEF TextDone
<1>4. CASE SecurityOk
  <2>1. "SecurityDone" \in Kinds /\ view \in Abouts
    BY <1>4 DEF SecurityOk, Kinds, Abouts, Scene
  <2> QED BY <1>1, <1>4, <2>1, PostStep DEF SecurityOk
<1>5. CASE \E row \in DOMAIN saved : SavedOk(row)
  <2>1. PICK row \in DOMAIN saved : SavedOk(row) BY <1>5
  <2>2. index' \in 1 .. SavedMax BY <2>1 DEF SavedOk, ScenesInv, UiInv
  <2>3. "SavedSelected" \in Kinds /\ view \in Abouts
    BY <2>1 DEF SavedOk, Kinds, Abouts, Scene, MenuScenes
  <2> QED BY <2>1, <2>2, <2>3, PostStep DEF SavedOk
<1>6. CASE \E kind \in {"ConfirmSend", "ConfirmBack", "ConfirmDelete"} : ConfirmKey(kind)
  <2>1. PICK kind \in {"ConfirmSend", "ConfirmBack", "ConfirmDelete"} : ConfirmKey(kind)
    BY <1>6
  <2>2. kind \in Kinds /\ kind # "MainMenu" /\ view \in Abouts
    BY <2>1 DEF ConfirmKey, Kinds, Abouts, Scene
  <2> QED BY <1>1, <2>1, <2>2, PostStep DEF ConfirmKey
<1>7. CASE \E kind \in {"DeleteConfirmed", "DeleteCancelled"} : DialogKey(kind)
  <2>1. PICK kind \in {"DeleteConfirmed", "DeleteCancelled"} : DialogKey(kind) BY <1>7
  <2>2. creds.ssid \in Ssids \cup {<<>>} BY DEF ScenesInv, DataInv, Working
  <2>3. kind \in Kinds /\ kind # "MainMenu" /\ creds.ssid \in Abouts
    BY <2>2 DEF Kinds, Abouts
  <2> QED BY <1>1, <2>1, <2>3, PostStep DEF DialogKey
<1> QED BY <1>2, <1>3, <1>4, <1>5, <1>6, <1>7

\* A text is typed.
LEMMA TypeTextStep ==
  ASSUME ScenesInv, NEW text, TypeText(text)
  PROVE  ScenesInv'
<1>1. UNCHANGED <<stack, view, saved, poller, dismiss_ticks, queue, dir, settings_file, Top>>
  BY DEF TypeText, card, Top
<1>2. view = Top BY ViewIsTop DEF ScenesInv, TypeText
<1>3. UiInv' BY <1>1, <1>2 DEF ScenesInv, UiInv, TypeText
<1>4. QueueInv' BY <1>1 DEF ScenesInv, QueueInv
<1>5. DataInv' BY <1>1 DEF ScenesInv, DataInv, TypeText
<1>6. CardInv' BY <1>1 DEF ScenesInv, CardInv
<1>7. DeleteOnlySaved' /\ DeletableIsShown' /\ ScanAlive' /\ SettingsSurvive'
  BY <1>1 DEF ScenesInv, DeleteOnlySaved, DeletableIsShown, ScanAlive, SettingsSurvive, TypeText
<1> QED BY <1>3, <1>4, <1>5, <1>6, <1>7 DEF ScenesInv

\* Another security is chosen.
LEMMA ChangeSecurityStep ==
  ASSUME ScenesInv, NEW security \in Securities, NEW hidden \in BOOLEAN,
         ChangeSecurity(security, hidden)
  PROVE  ScenesInv'
<1>1. UNCHANGED <<stack, view, buf, saved, poller, dismiss_ticks, queue, dir, settings_file, Top>>
  BY DEF ChangeSecurity, ui, card, Top
<1>2. Top = "EditSecurity" BY ViewIsTop DEF ScenesInv, ChangeSecurity
<1>3. UiInv' BY <1>1 DEF ScenesInv, UiInv
<1>4. QueueInv' BY <1>1 DEF ScenesInv, QueueInv
<1>5. DataInv' BY <1>1 DEF ScenesInv, DataInv, Working, ChangeSecurity
<1>6. CardInv' BY <1>1 DEF ScenesInv, CardInv
<1>7. DeleteOnlySaved' /\ DeletableIsShown' BY <1>1, <1>2 DEF DeleteOnlySaved, DeletableIsShown
<1>8. ScanAlive' /\ SettingsSurvive'
  BY <1>1 DEF ScenesInv, ScanAlive, SettingsSurvive, ChangeSecurity
<1> QED BY <1>3, <1>4, <1>5, <1>6, <1>7, <1>8 DEF ScenesInv

\* A setting is changed, and written to the card.
LEMMA SettingsChangeStep ==
  ASSUME ScenesInv, NEW key, NEW value, SettingsChange(key, value),
         \/ key = "WaitForACK" /\ value \in {"Off", "On"}
         \/ key = "IrProtocol" /\ value \in {"RC-6", "NEC"}
  PROVE  ScenesInv'
<1>1. UNCHANGED <<stack, view, buf, saved, poller, dismiss_ticks, queue, dir, Top>>
  BY DEF SettingsChange, ui, Top
<1>2. settings' \in SettingsSet BY DEF SettingsChange, ScenesInv, DataInv, SettingsSet
<1>3. failures' = failures \/ (failures < MaxFailures /\ failures' = failures + 1)
  BY DEF SettingsChange
<1>4. UiInv' BY <1>1 DEF ScenesInv, UiInv
<1>5. QueueInv' BY <1>1 DEF ScenesInv, QueueInv
<1>6. DataInv'
  <2>1. settings_file' = settings' \/ settings_file' \in FailedSettings(settings_file, settings')
    BY DEF SettingsChange
  <2>2. LoadSettings(settings_file') \in SettingsSet
    <3>1. CASE settings_file' = settings_file BY <3>1 DEF ScenesInv, DataInv
    <3>2. CASE settings_file' \in {settings', <<>>, [WaitForACK |-> settings'.WaitForACK]}
      BY <1>2, <3>2 DEF LoadSettings, DefaultSettings, SettingsSet
    <3> QED BY <2>1, <3>1, <3>2 DEF FailedSettings
  <2> QED BY <1>2, <1>3, <2>2, ScenesAssumption DEF ScenesInv, DataInv, SettingsChange
<1>7. CardInv' BY <1>1 DEF ScenesInv, CardInv
<1>8. DeleteOnlySaved' /\ DeletableIsShown' /\ ScanAlive'
  BY <1>1 DEF ScenesInv, DeleteOnlySaved, DeletableIsShown, ScanAlive, SettingsChange
<1>9. SettingsSurvive'
  <2>1. CASE settings_file' = settings'
    BY <1>2, <2>1 DEF SettingsSurvive, LoadSettings, DefaultSettings, SettingsSet
  <2>2. CASE failures' = failures + 1 BY <2>2 DEF SettingsSurvive, ScenesInv, DataInv
  <2> QED BY <2>1, <2>2 DEF SettingsChange
<1> QED BY <1>4, <1>5, <1>6, <1>7, <1>8, <1>9 DEF ScenesInv

-----------------------------------------------------------------------------
(* Back and the start, tags, ticks, and the end of a transmission.         *)

\* The Back key.
LEMMA BackStep ==
  ASSUME ScenesInv, Back
  PROVE  ScenesInv'
<1>1. /\ UNCHANGED <<creds, index, selected, nfc_creds, settings, dir, settings_file, sent, failures>>
      /\ stack # <<>> /\ queue' \in {queue, <<>>}
  BY DEF Back, card
<1>2. creds' \in Working /\ IsFiniteSet(DOMAIN dir') BY <1>1 DEF ScenesInv, DataInv, CardInv
<1>3. UiInv' /\ ScanAlive' /\ Top' # "Confirm"
  <2>1. CASE Top = "Transmit"
    <3>1. Show(<<"MainMenu">>) BY <2>1 DEF Back
    <3>2. Stacked(<<"MainMenu">>) /\ TopOf(<<"MainMenu">>) = "MainMenu"
      BY DEF Stacked, Scene, TopOf, Last
    <3> QED BY <1>2, <3>1, <3>2, ShowScene
  <2>2. CASE Top # "Transmit"
    <3>1. Close BY <2>2 DEF Back
    <3> QED BY <1>1, <1>2, <2>2, <3>1, CloseScene DEF ScenesInv
  <2> QED BY <2>1, <2>2
<1>4. QueueInv'
  <2>1. CASE queue' = queue BY <2>1 DEF ScenesInv, QueueInv
  <2>2. CASE queue' = <<>> BY <2>2, ScenesAssumption DEF QueueInv
  <2> QED BY <1>1, <2>1, <2>2
<1>5. DataInv' BY <1>1 DEF ScenesInv, DataInv
<1>6. CardInv' BY <1>1 DEF ScenesInv, CardInv
<1>7. DeleteOnlySaved' /\ DeletableIsShown' BY <1>3 DEF DeleteOnlySaved, DeletableIsShown
<1>8. SettingsSurvive' BY <1>1 DEF ScenesInv, SettingsSurvive
<1> QED BY <1>3, <1>4, <1>5, <1>6, <1>7, <1>8 DEF ScenesInv

\* An app that was left is started again.
LEMMA StartStep ==
  ASSUME ScenesInv, Start
  PROVE  ScenesInv'
<1>1. /\ UNCHANGED <<queue, dir, settings_file, sent, failures>>
      /\ creds' = NoCreds /\ nfc_creds' = NoCreds /\ index' = 1
      /\ settings' = LoadSettings(settings_file)
  BY DEF Start, card
<1>2. NoCreds \in Working BY ScenesAssumption DEF NoCreds, Working
<1>3. UiInv' /\ ScanAlive' /\ Top' = "MainMenu"
  <2>1. Stacked(<<"MainMenu">>) /\ TopOf(<<"MainMenu">>) = "MainMenu"
    BY DEF Stacked, Scene, TopOf, Last
  <2>2. IsFiniteSet(DOMAIN dir') /\ Show(<<"MainMenu">>) BY <1>1 DEF Start, ScenesInv, CardInv
  <2> QED BY <1>1, <1>2, <2>1, <2>2, ShowScene
<1>4. QueueInv' BY <1>1 DEF ScenesInv, QueueInv
<1>5. DataInv' BY <1>1, <1>2, StorageAssumption DEF ScenesInv, DataInv
<1>6. CardInv' BY <1>1 DEF ScenesInv, CardInv
<1>7. DeleteOnlySaved' /\ DeletableIsShown' BY <1>3 DEF DeleteOnlySaved, DeletableIsShown
<1>8. SettingsSurvive' BY <1>1 DEF SettingsSurvive
<1> QED BY <1>3, <1>4, <1>5, <1>6, <1>7, <1>8 DEF ScenesInv

\* The poller has read a tag.
LEMMA TagReadStep ==
  ASSUME ScenesInv, NEW found \in BOOLEAN, TagRead(found)
  PROVE  ScenesInv'
<1>1. UNCHANGED <<stack, view, buf, saved, dismiss_ticks, creds, index, selected,
                  settings, dir, settings_file, sent, failures, Top>>
  BY DEF TagRead, card, Top
<1>2. PICK kind \in ScanReports : Send(kind, <<>>) BY DEF TagRead, ScanReports
<1>3. kind \in Kinds /\ kind # "MainMenu" /\ <<>> \in Abouts BY DEF Kinds, ScanReports, Abouts
<1>4. QueueInv' /\ [kind |-> kind, about |-> <<>>] \in ToSet(queue')
  BY <1>2, <1>3, SendEvent DEF ScenesInv
<1>5. UiInv' BY <1>1 DEF ScenesInv, UiInv, TagRead
<1>6. DataInv'
  <2>1. nfc_creds' = nfc_creds \/ nfc_creds' \in TagCreds(Ssids \cup {<<>>}) \/ nfc_creds' \in TagCreds({<<>>})
    BY DEF TagRead
  <2>2. TagCreds(Ssids \cup {<<>>}) \subseteq Working /\ TagCreds({<<>>}) \subseteq Working
    BY DEF TagCreds, Working
  <2>3. nfc_creds' \in Working BY <2>1, <2>2 DEF ScenesInv, DataInv
  <2> QED BY <1>1, <2>3 DEF ScenesInv, DataInv
<1>7. CardInv' BY <1>1 DEF ScenesInv, CardInv
<1>8. DeleteOnlySaved' /\ DeletableIsShown' /\ SettingsSurvive'
  BY <1>1 DEF ScenesInv, DeleteOnlySaved, DeletableIsShown, SettingsSurvive
<1>9. ScanAlive' BY <1>4 DEF ScanAlive, ScanReports
<1> QED BY <1>4, <1>5, <1>6, <1>7, <1>8, <1>9 DEF ScenesInv

\* A tick of the dispatcher: the error of a tag is shown for a while.
LEMMA TickStep ==
  ASSUME ScenesInv, Tick
  PROVE  ScenesInv'
<1>1. UNCHANGED <<stack, view, buf, saved, queue, creds, index, selected, nfc_creds,
                  settings, dir, settings_file, sent, failures, Top>>
  BY DEF Tick, card, Top
<1>2. /\ dismiss_ticks' \in 0 .. NfcErrorTicks /\ poller' \in {"off", "polling", "reported"}
      /\ poller' = "polling" \/ dismiss_ticks' > 0
  BY ScenesAssumption DEF Tick, ScenesInv, UiInv
<1>3. UiInv' BY <1>1, <1>2 DEF ScenesInv, UiInv
<1>4. QueueInv' BY <1>1 DEF ScenesInv, QueueInv
<1>5. DataInv' BY <1>1 DEF ScenesInv, DataInv
<1>6. CardInv' BY <1>1 DEF ScenesInv, CardInv
<1>7. DeleteOnlySaved' /\ DeletableIsShown' /\ SettingsSurvive'
  BY <1>1 DEF ScenesInv, DeleteOnlySaved, DeletableIsShown, SettingsSurvive
<1>8. ScanAlive' BY <1>2 DEF ScanAlive
<1> QED BY <1>3, <1>4, <1>5, <1>6, <1>7, <1>8 DEF ScenesInv

\* The transmission ends: credentials that were sent are saved.
LEMMA TxFinishedStep ==
  ASSUME ScenesInv, TxFinished
  PROVE  ScenesInv'
<1>1. UNCHANGED <<stack, view, buf, saved, poller, dismiss_ticks, queue, creds, index,
                  selected, nfc_creds, settings, settings_file, Top>>
  BY DEF TxFinished, ui, Top
<1>2. /\ creds.ssid \in Ssids /\ creds \in Working
      /\ creds \in Credentials /\ [creds EXCEPT !.hidden = FALSE] \in Credentials
  BY DEF TxFinished, ScenesInv, DataInv, Working, Credentials
<1>3. dir' = dir \/ \E loads \in SUBSET Credentials : dir' = Write(dir, creds, loads)
  BY <1>2 DEF TxFinished, Save, FailedSaves
<1>4. CardInv'
  <2>1. CASE dir' = dir BY <2>1 DEF ScenesInv, CardInv
  <2>2. CASE \E loads \in SUBSET Credentials : dir' = Write(dir, creds, loads)
    BY <1>2, <2>2, WriteKeepsCard DEF TxFinished, ScenesInv
  <2> QED BY <1>3, <2>1, <2>2
<1>5. /\ sent' \subseteq Ssids
      /\ failures' = failures \/ (failures < MaxFailures /\ failures' = failures + 1)
  BY <1>2 DEF TxFinished, ScenesInv, DataInv
<1>6. UiInv' BY <1>1 DEF ScenesInv, UiInv
<1>7. QueueInv' BY <1>1 DEF ScenesInv, QueueInv
<1>8. DataInv' BY <1>1, <1>5, ScenesAssumption DEF ScenesInv, DataInv
<1>9. DeleteOnlySaved' /\ DeletableIsShown' /\ ScanAlive'
  BY <1>1 DEF TxFinished, DeleteOnlySaved, DeletableIsShown, ScanAlive
<1>10. SettingsSurvive' BY <1>1, <1>5 DEF ScenesInv, DataInv, SettingsSurvive
<1> QED BY <1>4, <1>6, <1>7, <1>8, <1>9, <1>10 DEF ScenesInv

-----------------------------------------------------------------------------
(* The handlers of the scenes.                                             *)

Handled(e) ==
  \/ MainMenuEvent(e) \/ EditSsidEvent(e) \/ EditPasswordEvent(e)
  \/ EditSecurityEvent(e) \/ SavedEvent(e) \/ ConfirmDeleteEvent(e)
  \/ DeleteConfirmedEvent(e) \/ DeleteCancelledEvent(e) \/ ConfirmEvent(e)
  \/ TagEvent(e) \/ NotWifiEvent(e) \/ Dropped(e)

Untouched == UNCHANGED <<index, nfc_creds, settings, settings_file, failures>>

\* A handler that opens or closes a scene, whatever it does to the working set
\* and the card.
LEMMA SceneChange ==
  ASSUME ScenesInv, Untouched, creds' \in Working, sent' \subseteq Ssids, CardInv', QueueInv',
         UiInv', ScanAlive', DeleteOnlySaved', DeletableIsShown', stack # <<>>
  PROVE  ScenesInv'
<1>1. DataInv' BY DEF ScenesInv, DataInv, Untouched
<1>2. SettingsSurvive' BY DEF ScenesInv, SettingsSurvive, Untouched
<1> QED BY <1>1, <1>2 DEF ScenesInv

\* One that opens a scene other than the confirm screen, or closes one.
LEMMA PlainChange ==
  ASSUME ScenesInv, Untouched, creds' \in Working, sent' \subseteq Ssids, CardInv', QueueInv',
         stack # <<>>,
         \/ /\ Top # "Confirm"
            /\ \E scene \in Scene \ {"Confirm"} : Open(scene)
         \/ Open("Transmit")
         \/ Top # "Transmit" /\ Close
  PROVE  ScenesInv'
<1>1. UiInv' /\ ScanAlive' /\ Top' # "Confirm"
  <2>1. IsFiniteSet(DOMAIN dir') /\ UiInv BY DEF CardInv, ScenesInv
  <2>2. "Transmit" \in Scene /\ "Transmit" # "Confirm" BY DEF Scene
  <2> QED BY <2>1, <2>2, OpenScene, CloseScene
<1>2. DeleteOnlySaved' /\ DeletableIsShown' BY <1>1 DEF DeleteOnlySaved, DeletableIsShown
<1> QED BY <1>1, <1>2, SceneChange

\* One that opens the confirm screen: on a saved network with its file
\* selected, or on another with none.
LEMMA ConfirmOpens ==
  ASSUME ScenesInv, Untouched, creds' \in Working, UNCHANGED <<dir, sent>>, QueueInv',
         stack # <<>>, Top # "Confirm", Open("Confirm"),
         selected' # <<>> <=> Top = "Saved",
         selected' # <<>> => creds' \in Loads(dir, selected')
  PROVE  ScenesInv'
<1>1. CardInv' /\ sent' \subseteq Ssids BY DEF ScenesInv, CardInv, DataInv
<1>2. "Confirm" \in Scene BY DEF Scene
<1>3. UiInv' /\ ScanAlive' /\ Top' = "Confirm" /\ stack'[Len(stack') - 1] = Top
  BY <1>1, <1>2, OpenScene DEF CardInv, ScenesInv
<1>4. DeleteOnlySaved' BY <1>3 DEF DeleteOnlySaved
<1>5. DeletableIsShown' BY DEF DeletableIsShown
<1> QED BY <1>1, <1>3, <1>4, <1>5, SceneChange

\* One that leaves stack, working set and card as they are.
LEMMA SameScene ==
  ASSUME ScenesInv, Untouched, QueueInv', UiInv', ScanAlive',
         UNCHANGED <<stack, creds, selected, dir, sent>>
  PROVE  ScenesInv'
<1>1. Top' = Top BY DEF Top
<1>2. DataInv' /\ CardInv' BY DEF ScenesInv, DataInv, CardInv, Untouched
<1>3. DeleteOnlySaved' /\ DeletableIsShown'
  BY <1>1 DEF ScenesInv, DeleteOnlySaved, DeletableIsShown
<1>4. SettingsSurvive' BY DEF ScenesInv, SettingsSurvive, Untouched
<1> QED BY <1>2, <1>3, <1>4 DEF ScenesInv

\* The dispatcher handles the first event of the queue.
LEMMA HandleEventStep ==
  ASSUME ScenesInv, HandleEvent
  PROVE  ScenesInv'
<1> DEFINE e == Head(queue)
<1>1. /\ QueueInv' /\ e.kind \in Kinds
      /\ e.kind = "MainMenu" => e.about \in MenuScenes
      /\ \A f \in ToSet(queue) : f = e \/ f \in ToSet(queue')
  BY TakeEvent DEF HandleEvent, ScenesInv, Event
<1>2. Untouched BY DEF HandleEvent, Untouched
<1>3. Handled(e) BY DEF HandleEvent, Handled
<1> HIDE DEF e
<1>4. /\ UiInv /\ CardInv /\ creds \in Working /\ nfc_creds \in Working
      /\ sent \subseteq Ssids
      /\ stack = <<>> => Top = "none"
  BY ViewIsTop DEF ScenesInv, DataInv
<1>5. dir' = dir => CardInv' BY <1>4 DEF CardInv
<1>6. CASE MainMenuEvent(e)
  <2>1. e.about \in Scene \ {"Confirm"} BY <1>1, <1>6 DEF MainMenuEvent, Scene, MenuScenes
  <2> QED BY <1>1, <1>2, <1>4, <1>5, <1>6, <2>1, PlainChange DEF MainMenuEvent
<1>7. CASE EditSsidEvent(e)
  <2>1. buf \in Ssids \cup {<<>>} /\ Top = "EditSsid" BY <1>4, <1>7 DEF UiInv, EditSsidEvent
  <2>2. creds' \in Working BY <1>4, <1>7, <2>1 DEF EditSsidEvent, Working
  <2>3. "EditPassword" \in Scene \ {"Confirm"} BY DEF Scene
  <2> QED BY <1>1, <1>2, <1>4, <1>5, <1>7, <2>1, <2>2, <2>3, PlainChange DEF EditSsidEvent
<1>8. CASE EditPasswordEvent(e)
  <2>1. buf \in Passwords /\ Top = "EditPassword" BY <1>4, <1>8 DEF UiInv, EditPasswordEvent
  <2>2. creds' \in Working BY <1>4, <1>8, <2>1 DEF EditPasswordEvent, Working
  <2>3. "EditSecurity" \in Scene \ {"Confirm"} BY DEF Scene
  <2> QED BY <1>1, <1>2, <1>4, <1>5, <1>8, <2>1, <2>2, <2>3, PlainChange DEF EditPasswordEvent
<1>9. CASE EditSecurityEvent(e)
  BY <1>1, <1>2, <1>4, <1>9, ConfirmOpens DEF EditSecurityEvent
<1>10. CASE SavedEvent(e)
  <2>1. creds' \in Loads(dir, saved[index].file) /\ selected' = saved[index].file
    BY <1>10 DEF SavedEvent, Chosen
  <2>2. selected' \in DOMAIN dir /\ creds' \in dir[selected'] BY <2>1 DEF Loads
  <2>3. selected' # <<>> /\ creds' \in Credentials BY <1>4, <2>2 DEF CardInv
  <2>4. creds' \in Working BY <2>3 DEF Credentials, Working
  <2> QED BY <1>1, <1>2, <1>4, <1>10, <2>1, <2>3, <2>4, ConfirmOpens DEF SavedEvent
<1>11. CASE ConfirmDeleteEvent(e)
  <2>1. UiInv' BY <1>4, <1>11 DEF ConfirmDeleteEvent, UiInv, Top
  <2>2. ScanAlive' BY <1>11 DEF ConfirmDeleteEvent, ScanAlive, Top
  <2> QED BY <1>1, <1>2, <1>11, <2>1, <2>2, SameScene DEF ConfirmDeleteEvent
<1>12. CASE DeleteConfirmedEvent(e)
  <2>1. CardInv'
    <3>1. dir' = dir \/ dir' = Delete(dir, selected) BY <1>12 DEF DeleteConfirmedEvent
    <3> QED BY <1>4, <1>5, <3>1, DeleteKeepsCard
  <2> QED BY <1>1, <1>2, <1>4, <1>12, <2>1, PlainChange DEF DeleteConfirmedEvent
<1>13. CASE DeleteCancelledEvent(e)
  <2>1. UiInv' BY <1>4, <1>13 DEF DeleteCancelledEvent, UiInv, Top
  <2>2. ScanAlive' BY <1>13 DEF DeleteCancelledEvent, ScanAlive, Top
  <2> QED BY <1>1, <1>2, <1>13, <2>1, <2>2, SameScene DEF DeleteCancelledEvent
<1>14. CASE ConfirmEvent(e)
  BY <1>1, <1>2, <1>4, <1>5, <1>14, PlainChange DEF ConfirmEvent
<1>15. CASE TagEvent(e)
  BY <1>1, <1>2, <1>4, <1>15, ConfirmOpens DEF TagEvent
<1>16. CASE NotWifiEvent(e)
  <2>1. UiInv' BY <1>4, <1>16, ScenesAssumption DEF NotWifiEvent, UiInv, Top
  <2>2. ScanAlive' BY <1>16, ScenesAssumption DEF NotWifiEvent, ScanAlive
  <2> QED BY <1>1, <1>2, <1>16, <2>1, <2>2, SameScene DEF NotWifiEvent
<1>17. CASE Dropped(e)
  <2>1. UNCHANGED <<stack, view, buf, saved, poller, dismiss_ticks, Top, creds, selected, dir, sent>>
    BY <1>17 DEF Dropped, ui, Top
  <2>2. UiInv' BY <1>4, <2>1 DEF UiInv
  <2>3. Top = "ScanNfc" => e.kind \notin ScanReports
    BY <1>17 DEF Dropped, Handles, ScanReports
  <2>4. ScanAlive' BY <1>1, <2>1, <2>3 DEF ScenesInv, ScanAlive, ScanReports
  <2> QED BY <1>1, <1>2, <2>1, <2>2, <2>4, SameScene
<1> QED BY <1>3, <1>6, <1>7, <1>8, <1>9, <1>10, <1>11, <1>12, <1>13, <1>14, <1>15,
           <1>16, <1>17 DEF Handled

-----------------------------------------------------------------------------
\* Every step.
LEMMA NextInv == ScenesInv /\ [Next]_vars => ScenesInv'
<1> SUFFICES ASSUME ScenesInv, [Next]_vars PROVE ScenesInv' OBVIOUS
<1>1. CASE Key
  <2>1. CASE \E text \in Ssids \cup Passwords : TypeText(text) BY <2>1, TypeTextStep
  <2>2. CASE \E security \in Securities, hidden \in BOOLEAN : ChangeSecurity(security, hidden)
    BY <2>2, ChangeSecurityStep
  <2>3. CASE \E value \in {"Off", "On"} : SettingsChange("WaitForACK", value)
    BY <2>3, SettingsChangeStep
  <2>4. CASE \E value \in {"RC-6", "NEC"} : SettingsChange("IrProtocol", value)
    BY <2>4, SettingsChangeStep
  <2>5. CASE Back BY <2>5, BackStep
  <2>6. CASE Start BY <2>6, StartStep
  <2> QED BY <1>1, <2>1, <2>2, <2>3, <2>4, <2>5, <2>6, PostingKeys DEF Key
<1>2. CASE HandleEvent BY <1>2, HandleEventStep
<1>3. CASE Tick BY <1>3, TickStep
<1>4. CASE TxFinished BY <1>4, TxFinishedStep
<1>5. CASE \E found \in BOOLEAN : TagRead(found) BY <1>5, TagReadStep
<1>6. CASE UNCHANGED vars
  <2>1. UNCHANGED <<stack, view, buf, saved, poller, dismiss_ticks, Top, queue, creds, index,
                    selected, nfc_creds, settings, dir, settings_file, sent, failures>>
    BY <1>6 DEF vars, ui, card, Top
  <2>2. UiInv' /\ QueueInv' BY <2>1 DEF ScenesInv, UiInv, QueueInv
  <2>3. DataInv' /\ CardInv' BY <2>1 DEF ScenesInv, DataInv, CardInv
  <2>4. DeleteOnlySaved' /\ DeletableIsShown' /\ ScanAlive' /\ SettingsSurvive'
    BY <2>1 DEF ScenesInv, DeleteOnlySaved, DeletableIsShown, ScanAlive, SettingsSurvive
  <2> QED BY <2>2, <2>3, <2>4 DEF ScenesInv
<1> QED BY <1>1, <1>2, <1>3, <1>4, <1>5, <1>6 DEF Next

\* ScenesInv holds in every reachable state of the app.
THEOREM ScenesInvariance == Spec => []ScenesInv
BY InitInv, NextInv, PTL DEF Spec

\* Types (wi_fir.h); in particular a text typed as a password never becomes an
\* SSID, though both scenes use text_input_buf.
THEOREM ScenesTypeCorrect == Spec => []TypeOK
<1>1. ScenesInv => TypeOK
  <2> SUFFICES ASSUME ScenesInv PROVE TypeOK OBVIOUS
  <2>1. /\ stack \in Seq(Scene) /\ view \in Scene \cup {"none", "Dialog"}
        /\ buf \in Ssids \cup Passwords /\ Len(saved) \leq SavedMax
        /\ poller \in {"off", "polling", "reported"} /\ dismiss_ticks \in 0 .. NfcErrorTicks
    BY ViewIsTop, ScenesAssumption DEF ScenesInv, UiInv, Stacked
  <2>2. /\ creds \in Working /\ nfc_creds \in Working
        /\ index \in 1 .. SavedMax /\ sent \subseteq Ssids /\ failures \in 0 .. MaxFailures
    BY DEF ScenesInv, DataInv
  <2>3. settings \in [WaitForACK : {"Off", "On"}, IrProtocol : {"RC-6", "NEC"}]
    BY DEF ScenesInv, DataInv, SettingsSet
  <2>4. Len(queue) \leq MaxQueue /\ \A name \in DOMAIN dir : dir[name] \subseteq Credentials
    BY DEF ScenesInv, QueueInv, CardInv
  <2> QED BY <2>1, <2>2, <2>3, <2>4 DEF TypeOK
<1> QED BY <1>1, ScenesInvariance, PTL

\* wfr_confirm_view offers Del for what came from the saved list, and for
\* nothing else, however the screens were left and entered.
THEOREM DelOnlyForSaved == Spec => []DeleteOnlySaved
<1>1. ScenesInv => DeleteOnlySaved BY DEF ScenesInv
<1> QED BY <1>1, ScenesInvariance, PTL

\* The file that Del on the confirm screen would remove holds the credentials
\* that are shown on it.
THEOREM DelIsOfTheShown == Spec => []DeletableIsShown
<1>1. ScenesInv => DeletableIsShown BY DEF ScenesInv
<1> QED BY <1>1, ScenesInvariance, PTL

\* The scan scene polls, or has a report to handle, or shows an error that its
\* tick will end: it is never left with none of the three.
THEOREM ScanGoesOn == Spec => []ScanAlive
<1>1. ScenesInv => ScanAlive BY DEF ScenesInv
<1> QED BY <1>1, ScenesInvariance, PTL

\* As long as no write failed, wfr_storage_load_settings would find what the
\* settings scene shows.
THEOREM SettingsLast == Spec => []SettingsSurvive
<1>1. ScenesInv => SettingsSurvive BY DEF ScenesInv
<1> QED BY <1>1, ScenesInvariance, PTL
-----------------------------------------------------------------------------
(* Keys pressed ahead.  A row of the saved list and a Yes to the dialog    *)
(* are handled after they were pressed, by whichever scene is on top then, *)
(* with the card and the working set as they are then.  With at most two   *)
(* events waiting, only one handler runs in between.                       *)

TwoWaiting == MaxQueue \leq 2

\* No two networks have one file name.
NamesDiffer == \A s, t \in Ssids : SafeName(s) = SafeName(t) => s = t

\* Nothing lies on the transmit scene, the main menu on nothing, and the saved
\* list on the main menu only.
WayInv ==
  \A i \in 1 .. Len(stack) - 1 :
    /\ stack[i] # "Transmit" /\ stack[i+1] # "MainMenu"
    /\ stack[i+1] = "Saved" => stack[i] = "MainMenu"

\* A file that loads is one network's, and has its name.
FilesInv ==
  \A name \in DOMAIN dir : \A c \in dir[name] :
    dir[name] = {c} /\ SafeName(c.ssid) = name

\* A row that was picked and not yet handled: the card has not changed since,
\* so the row is the same in every list read from it.
RowInv ==
  /\ Top = "Saved" => saved = List(dir)
  /\ \A i \in DOMAIN queue : queue[i].kind = "SavedSelected" =>
       /\ Top \notin {"none", "Transmit"} /\ view # "Dialog"
       /\ i > 1 => Top \in {"MainMenu", "Saved"}
       /\ index \in DOMAIN List(dir) /\ List(dir)[index].ssid = chosen

\* A Yes that was not yet handled names what Del would remove.
YesInv ==
  \A i \in DOMAIN queue : queue[i].kind = "DeleteConfirmed" =>
    /\ Top = "Confirm" /\ selected # <<>> => queue[i].about = creds.ssid
    /\ i > 1 => queue[1].kind # "SavedSelected"

KeysInv == WayInv /\ FilesInv /\ RowInv /\ YesInv

\* A scene that is shown is the one on screen, with the list as it is now.
LEMMA Shown ==
  ASSUME NEW scenes \in Seq(Scene), Show(scenes)
  PROVE  /\ stack' = scenes /\ Top' = TopOf(scenes) /\ view' = Top'
         /\ view' # "Dialog"
         /\ Top' = "Saved" => saved' = List(dir')
<1>1. stack' = scenes /\ view' = Top' /\ Top' = TopOf(scenes) BY DEF Show, Top
<1>2. Top' = "Saved" => saved' = List(dir') BY <1>1 DEF Show, SavedRows
<1>3. TopOf(scenes) # "Dialog"
  <2>1. scenes # <<>> => TopOf(scenes) \in Scene BY DEF TopOf, Last
  <2>2. "Dialog" \notin Scene BY DEF Scene, MenuScenes
  <2>3. scenes = <<>> => TopOf(scenes) = "none" BY DEF TopOf
  <2> QED BY <2>1, <2>2, <2>3
<1> QED BY <1>1, <1>2, <1>3

\* A scene on top of another.
LEMMA OpenedKeys ==
  ASSUME UiInv, WayInv, stack # <<>>, NEW scene \in Scene \ {"MainMenu"}, Open(scene),
         Top # "Transmit", scene = "Saved" => Top = "MainMenu"
  PROVE  /\ WayInv' /\ Top' = scene /\ view' = scene /\ view' # "Dialog"
         /\ Top' = "Saved" => saved' = List(dir')
<1> DEFINE scenes == Append(stack, scene)
<1>1. /\ scenes \in Seq(Scene) /\ Len(scenes) = Len(stack) + 1
      /\ \A i \in 1 .. Len(stack) : scenes[i] = stack[i]
      /\ scenes[Len(stack) + 1] = scene /\ Len(stack) \in Nat \ {0} /\ scenes # <<>>
  BY DEF UiInv, Stacked
<1>2. Top = stack[Len(stack)] /\ TopOf(scenes) = scene BY <1>1 DEF Top, TopOf, Last
<1> HIDE DEF scenes
<1>3. /\ stack' = scenes /\ Top' = scene /\ view' = scene /\ view' # "Dialog"
      /\ Top' = "Saved" => saved' = List(dir')
  <2>1. Show(scenes) BY DEF Open, scenes
  <2> QED BY <1>1, <1>2, <2>1, Shown
<1>4. ASSUME NEW i \in 1 .. Len(scenes) - 1
      PROVE  /\ scenes[i] # "Transmit" /\ scenes[i+1] # "MainMenu"
             /\ scenes[i+1] = "Saved" => scenes[i] = "MainMenu"
  <2>1. CASE i = Len(stack) BY <1>1, <1>2, <2>1
  <2>2. CASE i # Len(stack)
    <3>1. i \in 1 .. Len(stack) - 1 /\ i \in 1 .. Len(stack) /\ i + 1 \in 1 .. Len(stack)
      BY <1>1, <2>2
    <3>2. scenes[i] = stack[i] /\ scenes[i+1] = stack[i+1] BY <1>1, <3>1
    <3> QED BY <3>1, <3>2 DEF WayInv
  <2> QED BY <2>1, <2>2
<1>5. WayInv' BY <1>3, <1>4 DEF WayInv
<1> QED BY <1>3, <1>5

\* The scene below.
LEMMA ClosedKeys ==
  ASSUME UiInv, WayInv, stack # <<>>, Close, Top # "Transmit"
  PROVE  /\ WayInv' /\ view' = Top' /\ view' # "Dialog" /\ Top' # "Transmit"
         /\ Top' = "Saved" => saved' = List(dir')
         /\ Top = "Saved" => Top' \in {"none", "MainMenu"}
         /\ Top = "MainMenu" => Len(stack) = 1
         /\ Top' = "none" => Len(stack) = 1
         /\ Top' # "Confirm"
<1> DEFINE scenes == Front(stack)
<1>1. Len(stack) \in Nat /\ Len(stack) > 0 /\ stack \in Seq(Scene) BY DEF UiInv, Stacked
<1>2. scenes = [i \in 1 .. Len(stack) - 1 |-> stack[i]] BY <1>1 DEF Front
<1>3. /\ scenes \in Seq(Scene) /\ Len(scenes) = Len(stack) - 1
      /\ \A i \in 1 .. Len(scenes) : scenes[i] = stack[i]
  BY <1>1, <1>2
<1> HIDE DEF scenes
<1>4. /\ stack' = scenes /\ Top' = TopOf(scenes) /\ view' = Top' /\ view' # "Dialog"
      /\ Top' = "Saved" => saved' = List(dir')
  <2>1. Show(scenes) BY DEF Close, scenes
  <2> QED BY <1>3, <2>1, Shown
<1>5. ASSUME NEW i \in 1 .. Len(scenes) - 1
      PROVE  /\ scenes[i] # "Transmit" /\ scenes[i+1] # "MainMenu"
             /\ scenes[i+1] = "Saved" => scenes[i] = "MainMenu"
  <2>1. i \in 1 .. Len(stack) - 1 /\ i \in 1 .. Len(scenes) /\ i + 1 \in 1 .. Len(scenes)
    BY <1>1, <1>3
  <2>2. scenes[i] = stack[i] /\ scenes[i+1] = stack[i+1] BY <1>3, <2>1
  <2> QED BY <2>1, <2>2 DEF WayInv
<1>6. WayInv' BY <1>4, <1>5 DEF WayInv
<1>7. Top = stack[Len(stack)] BY <1>1 DEF Top, TopOf, Last
<1>8. CASE Len(stack) = 1
  <2>1. scenes = <<>> BY <1>3, <1>8
  <2>2. Top' = "none" BY <1>4, <2>1 DEF TopOf
  <2> QED BY <1>4, <1>6, <1>8, <2>2
<1>9. CASE Len(stack) # 1
  <2>0. Len(stack) - 1 \in Nat \ {0} /\ Len(stack) = (Len(stack) - 1) + 1 BY <1>1, <1>9
  <2>1. PICK i \in Nat \ {0} : Len(stack) = i + 1 BY <2>0, Zenon
  <2>2. i \in 1 .. Len(stack) - 1 /\ Len(scenes) = i /\ i \in 1 .. Len(scenes) BY <1>3, <2>1
  <2>3. Top' = stack[i] /\ Top = stack[i+1]
    <3>1. scenes # <<>> BY <2>2
    <3> QED BY <1>3, <1>4, <1>7, <2>1, <2>2, <3>1 DEF TopOf, Last
  <2>4. stack[i] \in Scene BY <1>1, <2>1
  <2>5. "none" \notin Scene BY DEF Scene, MenuScenes
  <2>6. /\ stack[i] # "Transmit" /\ stack[i+1] # "MainMenu"
        /\ stack[i+1] = "Saved" => stack[i] = "MainMenu"
    BY <2>2 DEF WayInv
  <2>7. stack[i] = "Confirm" => stack[i+1] = "Transmit" BY <2>2 DEF UiInv, Stacked
  <2> QED BY <1>4, <1>6, <2>3, <2>4, <2>5, <2>6, <2>7
<1> QED BY <1>8, <1>9

\* A step that changes neither screens, nor queue, nor card.
LEMMA StillKeys ==
  ASSUME KeysInv, UNCHANGED <<stack, view, saved, queue, index, chosen, selected, dir>>,
         creds'.ssid = creds.ssid
  PROVE  KeysInv'
<1>1. Top' = Top BY DEF Top
<1>2. WayInv' /\ FilesInv' BY DEF KeysInv, WayInv, FilesInv
<1>3. RowInv' BY <1>1 DEF KeysInv, RowInv
<1>4. YesInv' BY <1>1 DEF KeysInv, YesInv
<1> QED BY <1>2, <1>3, <1>4 DEF KeysInv

\* A key that only posts an event: a row is posted as it is picked, and a Yes
\* by the dialog, before which no row waits.
LEMMA PostKeys ==
  ASSUME ScenesInv, KeysInv, NEW kind \in Kinds, NEW about \in Abouts, Send(kind, about),
         UNCHANGED <<stack, view, saved, creds, selected, dir>>,
         \/ kind # "SavedSelected" /\ UNCHANGED <<index, chosen>>
         \/ view = "Saved" /\ index' \in DOMAIN saved /\ chosen' = saved[index'].ssid,
         kind = "DeleteConfirmed" => view = "Dialog" /\ about = creds.ssid
  PROVE  KeysInv'
<1> DEFINE e == [kind |-> kind, about |-> about]
<1>1. e \in Event /\ e.kind = kind /\ e.about = about BY DEF Event
<1>2. queue' = Append(queue, e) /\ queue \in Seq(Event) BY DEF Send, ScenesInv, QueueInv
<1> HIDE DEF e
<1>3. PICK n \in Nat : n = Len(queue) BY <1>2
<1>4. /\ \A i \in DOMAIN queue' : \/ i \in DOMAIN queue /\ queue'[i] = queue[i]
                                  \/ i = n + 1 /\ queue'[i] = e
      /\ n > 0 => 1 \in DOMAIN queue /\ queue'[1] = queue[1]
      /\ \A i \in DOMAIN queue : i \in 1 .. n
  BY <1>1, <1>2, <1>3
<1>5. Top' = Top /\ (view # "Dialog" => view = Top) /\ (view = "Dialog" => Top = "Confirm")
  BY ViewIsTop DEF Top, ScenesInv
<1>6. WayInv' /\ FilesInv' BY DEF KeysInv, WayInv, FilesInv
<1>7. RowInv'
  <2>1. Top' = "Saved" => saved' = List(dir') BY <1>5 DEF KeysInv, RowInv
  <2>2. ASSUME NEW i \in DOMAIN queue', queue'[i].kind = "SavedSelected"
        PROVE  /\ Top' \notin {"none", "Transmit"} /\ view' # "Dialog"
               /\ i > 1 => Top' \in {"MainMenu", "Saved"}
               /\ index' \in DOMAIN List(dir') /\ List(dir')[index'].ssid = chosen'
    <3>1. CASE kind # "SavedSelected" /\ UNCHANGED <<index, chosen>>
      <4>1. i \in DOMAIN queue /\ queue'[i] = queue[i] BY <1>1, <1>4, <2>2, <3>1
      <4> QED BY <1>5, <2>2, <3>1, <4>1 DEF KeysInv, RowInv
    <3>2. CASE view = "Saved" /\ index' \in DOMAIN saved /\ chosen' = saved[index'].ssid
      <4>1. Top = "Saved" /\ saved = List(dir) BY <1>5, <3>2 DEF KeysInv, RowInv
      <4> QED BY <1>5, <3>2, <4>1
    <3> QED BY <3>1, <3>2
  <2> QED BY <2>1, <2>2 DEF RowInv
<1>8. YesInv'
  <2>1. ASSUME NEW i \in DOMAIN queue', queue'[i].kind = "DeleteConfirmed"
        PROVE  /\ Top' = "Confirm" /\ selected' # <<>> => queue'[i].about = creds'.ssid
               /\ i > 1 => queue'[1].kind # "SavedSelected"
    <3>1. CASE i \in DOMAIN queue /\ queue'[i] = queue[i]
      <4>1. n > 0 BY <1>4, <3>1
      <4> QED BY <1>4, <1>5, <2>1, <3>1, <4>1 DEF KeysInv, YesInv
    <3>2. CASE i = n + 1 /\ queue'[i] = e
      <4>1. kind = "DeleteConfirmed" BY <1>1, <2>1, <3>2
      <4>2. i > 1 => n > 0 BY <3>2
      <4>3. \A j \in DOMAIN queue : queue[j].kind # "SavedSelected"
        BY <4>1 DEF KeysInv, RowInv
      <4> QED BY <1>1, <1>4, <1>5, <3>2, <4>1, <4>2, <4>3
    <3> QED BY <1>4, <3>1, <3>2
  <2> QED BY <2>1 DEF YesInv
<1> QED BY <1>6, <1>7, <1>8 DEF KeysInv

\* The Back key: the app ends with nothing waiting, and no scene is left that
\* way for a confirm screen.
LEMMA BackKeys ==
  ASSUME ScenesInv, KeysInv, Back
  PROVE  KeysInv'
<1>1. /\ UNCHANGED <<creds, index, chosen, selected, dir>> /\ stack # <<>>
      /\ queue' = IF Len(stack) = 1 THEN <<>> ELSE queue
  BY DEF Back, card
<1>2. UiInv /\ WayInv BY DEF ScenesInv, KeysInv
<1>3. FilesInv' BY <1>1 DEF KeysInv, FilesInv
<1>4. /\ WayInv' /\ view' # "Dialog" /\ Top' # "Confirm" /\ Top' # "Transmit"
      /\ Top' = "Saved" => saved' = List(dir')
      /\ Top = "Saved" => Top' \in {"none", "MainMenu"}
      /\ Top = "MainMenu" => Len(stack) = 1
      /\ Top # "Transmit" /\ Top' = "none" => Len(stack) = 1
  <2>1. CASE Top = "Transmit"
    <3>1. <<"MainMenu">> \in Seq(Scene) /\ TopOf(<<"MainMenu">>) = "MainMenu"
      BY DEF Scene, TopOf, Last
    <3>2. Show(<<"MainMenu">>) BY <2>1 DEF Back
    <3>3. stack' = <<"MainMenu">> /\ Top' = "MainMenu" /\ view' # "Dialog"
      BY <3>1, <3>2, Shown
    <3>4. WayInv' BY <3>3 DEF WayInv
    <3> QED BY <2>1, <3>3, <3>4
  <2>2. CASE Top # "Transmit"
    <3>1. Close BY <2>2 DEF Back
    <3> QED BY <1>1, <1>2, <2>2, <3>1, ClosedKeys
  <2> QED BY <2>1, <2>2
<1>5. CASE Len(stack) = 1
  <2>1. DOMAIN queue' = {} BY <1>1, <1>5
  <2> QED BY <1>3, <1>4, <2>1 DEF KeysInv, RowInv, YesInv
<1>6. CASE Len(stack) # 1
  <2>1. queue' = queue BY <1>1, <1>6
  <2>2. RowInv' BY <1>1, <1>4, <1>6, <2>1 DEF KeysInv, RowInv
  <2>3. YesInv' BY <1>4, <2>1 DEF KeysInv, YesInv
  <2> QED BY <1>3, <1>4, <2>2, <2>3 DEF KeysInv
<1> QED BY <1>5, <1>6

\* An app that is started again finds no row waiting.
LEMMA StartKeys ==
  ASSUME ScenesInv, KeysInv, Start
  PROVE  KeysInv'
<1>1. UNCHANGED <<queue, dir>> /\ Top = "none" /\ Show(<<"MainMenu">>)
  BY DEF Start, card, Top, TopOf
<1>2. <<"MainMenu">> \in Seq(Scene) /\ TopOf(<<"MainMenu">>) = "MainMenu"
  BY DEF Scene, TopOf, Last
<1>3. stack' = <<"MainMenu">> /\ Top' = "MainMenu" BY <1>1, <1>2, Shown
<1>4. WayInv' BY <1>3 DEF WayInv
<1>5. FilesInv' BY <1>1 DEF KeysInv, FilesInv
<1>6. RowInv' /\ YesInv' BY <1>1, <1>3 DEF KeysInv, RowInv, YesInv
<1> QED BY <1>4, <1>5, <1>6 DEF KeysInv

\* A save, whole or not: what it leaves in the file that it names.
LEMMA WriteFiles ==
  ASSUME FilesInv, creds.ssid # <<>>, NEW loads, dir' = Write(dir, creds, loads),
         \A c \in loads : loads = {c} /\ c.ssid = creds.ssid
  PROVE  /\ FilesInv'
         /\ DOMAIN dir' = DOMAIN dir \cup {SafeName(creds.ssid)}
         /\ dir'[SafeName(creds.ssid)] = loads
         /\ \A name \in DOMAIN dir \ {SafeName(creds.ssid)} : dir'[name] = dir[name]
<1> DEFINE file == SafeName(creds.ssid)
<1>1. \A c \in loads : SafeName(c.ssid) = file BY DEF file
<1>2. dir' = [name \in DOMAIN dir \cup {file} |-> IF name = file THEN loads ELSE dir[name]]
  BY DEF Write, file
<1> HIDE DEF file
<1>3. /\ DOMAIN dir' = DOMAIN dir \cup {file} /\ dir'[file] = loads
      /\ \A name \in DOMAIN dir \ {file} : dir'[name] = dir[name]
  BY <1>2
<1>4. FilesInv' BY <1>1, <1>3 DEF FilesInv
<1> QED BY <1>3, <1>4 DEF file

\* The transmission ends: no row waits then, so no list may change under it.
LEMMA TxFinishedKeys ==
  ASSUME ScenesInv, KeysInv, TxFinished
  PROVE  KeysInv'
<1>1. UNCHANGED <<stack, view, saved, queue, creds, index, chosen, selected, Top>>
  BY DEF TxFinished, ui, Top
<1>2. creds \in Working /\ creds.ssid # <<>> /\ Top = "Transmit"
  BY DEF TxFinished, ScenesInv, DataInv
<1>3. \/ dir' = dir
      \/ \E loads \in {{creds}, {}, {[creds EXCEPT !.hidden = FALSE]}} : dir' = Write(dir, creds, loads)
  BY <1>2 DEF TxFinished, Save, FailedSaves
<1>4. ASSUME NEW loads \in {{creds}, {}, {[creds EXCEPT !.hidden = FALSE]}}, dir' = Write(dir, creds, loads)
      PROVE  FilesInv'
  <2>1. \A c \in loads : loads = {c} /\ c.ssid = creds.ssid BY <1>2 DEF Working
  <2> QED BY <1>2, <1>4, <2>1, WriteFiles DEF KeysInv
<1>5. FilesInv'
  <2>1. CASE dir' = dir BY <2>1 DEF KeysInv, FilesInv
  <2> QED BY <1>3, <1>4, <2>1
<1>6. WayInv' /\ RowInv' /\ YesInv' BY <1>1, <1>2 DEF KeysInv, WayInv, RowInv, YesInv
<1> QED BY <1>5, <1>6 DEF KeysInv

\* A file that is deleted leaves the others.
LEMMA DeleteFiles ==
  ASSUME FilesInv, NEW name, dir' = Delete(dir, name)
  PROVE  /\ FilesInv' /\ DOMAIN dir' = DOMAIN dir \ {name}
         /\ \A other \in DOMAIN dir' : dir'[other] = dir[other]
<1>1. DOMAIN dir' = DOMAIN dir \ {name} /\ \A other \in DOMAIN dir' : dir'[other] = dir[other]
  BY DEF Delete
<1> QED BY <1>1 DEF FilesInv

\* What a handler of an event e may do to the screens: nothing changes the card
\* from the main menu or the saved list, and the confirm screen with a file to
\* delete is opened by a row, or was there.
Screens(e) ==
  /\ WayInv' /\ FilesInv'
  /\ Top' = "Saved" => saved' = List(dir')
  /\ Top \in {"MainMenu", "Saved"} =>
       /\ Top' \notin {"none", "Transmit"} /\ dir' = dir
       /\ view # "Dialog" => view' # "Dialog"
  /\ Top' = "Confirm" /\ selected' # <<>> =>
       \/ e.kind = "SavedSelected"
       \/ Top = "Confirm" /\ selected # <<>> /\ creds' = creds

LEMMA OpenScreens ==
  ASSUME ScenesInv, KeysInv, NEW e, stack # <<>>, dir' = dir, Top # "Transmit",
         NEW scene \in Scene \ {"MainMenu"}, Open(scene),
         scene = "Saved" => Top = "MainMenu",
         scene = "Transmit" => Top = "Confirm",
         scene = "Confirm" => e.kind = "SavedSelected" \/ selected' = <<>>
  PROVE  Screens(e)
<1>1. UiInv /\ WayInv /\ FilesInv' BY DEF ScenesInv, KeysInv, FilesInv
<1>2. /\ WayInv' /\ Top' = scene /\ view' # "Dialog"
      /\ Top' = "Saved" => saved' = List(dir')
  BY <1>1, OpenedKeys
<1>3. "none" \notin Scene BY DEF Scene, MenuScenes
<1> QED BY <1>1, <1>2, <1>3 DEF Screens

LEMMA CloseScreens ==
  ASSUME ScenesInv, KeysInv, NEW e, stack # <<>>, FilesInv', Top = "Confirm", Close
  PROVE  Screens(e)
<1>1. UiInv /\ WayInv BY DEF ScenesInv, KeysInv
<1>2. /\ WayInv' /\ Top' # "Confirm"
      /\ Top' = "Saved" => saved' = List(dir')
  BY <1>1, ClosedKeys
<1> QED BY <1>2 DEF Screens

LEMMA SameScreens ==
  ASSUME ScenesInv, KeysInv, NEW e, UNCHANGED <<stack, saved, creds, selected, dir>>,
         view' = view \/ Top = "Confirm"
  PROVE  Screens(e)
<1>1. Top' = Top BY DEF Top
<1>2. WayInv' /\ FilesInv' BY DEF KeysInv, WayInv, FilesInv
<1>3. Top' = "Saved" => saved' = List(dir') BY <1>1 DEF KeysInv, RowInv
<1> QED BY <1>1, <1>2, <1>3 DEF Screens

\* Each handler.
LEMMA HandledScreens ==
  ASSUME ScenesInv, KeysInv, NEW e \in Event, e.kind = "MainMenu" => e.about \in MenuScenes,
         Handled(e)
  PROVE  Screens(e)
<1>1. FilesInv /\ (stack = <<>> => Top = "none") BY DEF KeysInv, Top, TopOf
<1>2. CASE MainMenuEvent(e)
  <2>1. e.about \in Scene \ {"MainMenu", "Confirm", "Transmit"}
    BY <1>2 DEF MainMenuEvent, Scene, MenuScenes
  <2> QED BY <1>1, <1>2, <2>1, OpenScreens DEF MainMenuEvent
<1>3. CASE EditSsidEvent(e)
  <2>1. "EditPassword" \in Scene BY DEF Scene
  <2> QED BY <1>1, <1>3, <2>1, OpenScreens DEF EditSsidEvent
<1>4. CASE EditPasswordEvent(e)
  <2>1. "EditSecurity" \in Scene BY DEF Scene
  <2> QED BY <1>1, <1>4, <2>1, OpenScreens DEF EditPasswordEvent
<1>5. CASE EditSecurityEvent(e) \/ TagEvent(e) \/ SavedEvent(e)
  <2>1. "Confirm" \in Scene BY DEF Scene
  <2> QED BY <1>1, <1>5, <2>1, OpenScreens DEF EditSecurityEvent, TagEvent, SavedEvent
<1>6. CASE ConfirmDeleteEvent(e) \/ DeleteCancelledEvent(e)
  BY <1>6, SameScreens DEF ConfirmDeleteEvent, DeleteCancelledEvent
<1>7. CASE DeleteConfirmedEvent(e)
  <2>1. FilesInv'
    <3>1. dir' = dir \/ dir' = Delete(dir, selected) BY <1>7 DEF DeleteConfirmedEvent
    <3>2. dir' = dir => FilesInv' BY <1>1 DEF FilesInv
    <3> QED BY <1>1, <3>1, <3>2, DeleteFiles
  <2> QED BY <1>1, <1>7, <2>1, CloseScreens DEF DeleteConfirmedEvent
<1>8. CASE ConfirmEvent(e)
  <2>1. "Transmit" \in Scene BY DEF Scene
  <2>2. dir' = dir /\ FilesInv' BY <1>1, <1>8 DEF ConfirmEvent, FilesInv
  <2>3. CASE Open("Transmit") BY <1>1, <1>8, <2>1, <2>2, <2>3, OpenScreens DEF ConfirmEvent
  <2>4. CASE Close BY <1>1, <1>8, <2>2, <2>4, CloseScreens DEF ConfirmEvent
  <2> QED BY <1>8, <2>3, <2>4 DEF ConfirmEvent
<1>9. CASE NotWifiEvent(e)
  BY <1>9, SameScreens DEF NotWifiEvent
<1>10. CASE Dropped(e)
  <2>1. UNCHANGED <<stack, view, saved, creds, selected, dir>> BY <1>10 DEF Dropped, ui
  <2> QED BY <2>1, SameScreens
<1> QED BY <1>2, <1>3, <1>4, <1>5, <1>6, <1>7, <1>8, <1>9, <1>10 DEF Handled

\* The dispatcher handles the first event of the queue, and one more may wait.
LEMMA HandleKeys ==
  ASSUME TwoWaiting, ScenesInv, KeysInv, HandleEvent
  PROVE  KeysInv' /\ Screens(Head(queue)) /\ 1 \in DOMAIN queue /\ Head(queue) = queue[1]
<1> DEFINE e == Head(queue)
<1>1. queue \in Seq(Event) /\ Len(queue) \in {1, 2} /\ queue # <<>> /\ queue' = Tail(queue)
  <2>1. /\ queue \in Seq(Event) /\ Len(queue) \leq MaxQueue /\ queue # <<>> /\ queue' = Tail(queue)
    BY DEF HandleEvent, ScenesInv, QueueInv
  <2>2. Len(queue) \in Nat /\ Len(queue) # 0 BY <2>1
  <2>3. MaxQueue \in Nat /\ MaxQueue \leq 2 BY ScenesAssumption DEF TwoWaiting
  <2>4. \A n, m \in Nat : n # 0 /\ n \leq m /\ m \leq 2 => n \in {1, 2} OBVIOUS
  <2> QED BY <2>1, <2>2, <2>3, <2>4
<1>2. /\ 1 \in DOMAIN queue /\ e = queue[1] /\ e \in Event
      /\ \A i \in DOMAIN queue' : i = 1 /\ 2 \in DOMAIN queue /\ queue'[1] = queue[2]
  BY <1>1
<1>3. e.kind = "MainMenu" => e.about \in MenuScenes BY <1>2 DEF ScenesInv, QueueInv
<1>4. Handled(e) /\ UNCHANGED <<index, chosen>> BY DEF HandleEvent, Handled
<1> HIDE DEF e
<1>5. Screens(e) BY <1>2, <1>3, <1>4, HandledScreens
<1>6. RowInv'
  <2>1. ASSUME NEW i \in DOMAIN queue', queue'[i].kind = "SavedSelected"
        PROVE  /\ Top' \notin {"none", "Transmit"} /\ view' # "Dialog"
               /\ i > 1 => Top' \in {"MainMenu", "Saved"}
               /\ index' \in DOMAIN List(dir') /\ List(dir')[index'].ssid = chosen'
    <3>1. i = 1 /\ 2 \in DOMAIN queue /\ queue[2].kind = "SavedSelected" BY <1>2, <2>1
    <3>2. /\ Top \in {"MainMenu", "Saved"} /\ view # "Dialog"
          /\ index \in DOMAIN List(dir) /\ List(dir)[index].ssid = chosen
      BY <3>1 DEF KeysInv, RowInv
    <3> QED BY <1>4, <1>5, <3>1, <3>2 DEF Screens
  <2> QED BY <1>5, <2>1 DEF RowInv, Screens
<1>7. YesInv'
  <2>1. ASSUME NEW i \in DOMAIN queue', queue'[i].kind = "DeleteConfirmed"
        PROVE  /\ Top' = "Confirm" /\ selected' # <<>> => queue'[i].about = creds'.ssid
               /\ i > 1 => queue'[1].kind # "SavedSelected"
    <3>1. /\ i = 1 /\ 2 \in DOMAIN queue /\ queue'[i] = queue[2]
          /\ queue[2].kind = "DeleteConfirmed"
      BY <1>2, <2>1
    <3>2. /\ Top = "Confirm" /\ selected # <<>> => queue[2].about = creds.ssid
          /\ e.kind # "SavedSelected"
      BY <1>2, <3>1 DEF KeysInv, YesInv
    <3> QED BY <1>5, <3>1, <3>2 DEF Screens
  <2> QED BY <2>1 DEF YesInv
<1>8. WayInv' /\ FilesInv' BY <1>5 DEF Screens
<1> QED BY <1>2, <1>5, <1>6, <1>7, <1>8 DEF KeysInv, e

\* Keys that only post an event.
LEMMA PostingKeysKeys ==
  ASSUME ScenesInv, KeysInv,
         \/ \E scene \in MenuScenes : MenuOk(scene)
         \/ TextDone \/ SecurityOk
         \/ \E row \in DOMAIN saved : SavedOk(row)
         \/ \E kind \in {"ConfirmSend", "ConfirmBack", "ConfirmDelete"} : ConfirmKey(kind)
         \/ \E kind \in {"DeleteConfirmed", "DeleteCancelled"} : DialogKey(kind)
  PROVE  KeysInv'
<1>1. CASE \E scene \in MenuScenes : MenuOk(scene)
  <2>1. PICK scene \in MenuScenes : MenuOk(scene) BY <1>1
  <2>2. "MainMenu" \in Kinds /\ scene \in Abouts BY DEF Kinds, Abouts, Scene
  <2> QED BY <2>1, <2>2, PostKeys DEF MenuOk, ui, card
<1>2. CASE TextDone
  <2>1. "TextInputDone" \in Kinds /\ view \in Abouts
    BY <1>2 DEF TextDone, Kinds, Abouts, Scene, MenuScenes
  <2> QED BY <1>2, <2>1, PostKeys DEF TextDone, ui, card
<1>3. CASE SecurityOk
  <2>1. "SecurityDone" \in Kinds /\ view \in Abouts
    BY <1>3 DEF SecurityOk, Kinds, Abouts, Scene
  <2> QED BY <1>3, <2>1, PostKeys DEF SecurityOk, ui, card
<1>4. CASE \E row \in DOMAIN saved : SavedOk(row)
  <2>1. PICK row \in DOMAIN saved : SavedOk(row) BY <1>4
  <2>2. "SavedSelected" \in Kinds /\ view \in Abouts
    BY <2>1 DEF SavedOk, Kinds, Abouts, Scene, MenuScenes
  <2> QED BY <2>1, <2>2, PostKeys DEF SavedOk, ui, card
<1>5. CASE \E kind \in {"ConfirmSend", "ConfirmBack", "ConfirmDelete"} : ConfirmKey(kind)
  <2>1. PICK kind \in {"ConfirmSend", "ConfirmBack", "ConfirmDelete"} : ConfirmKey(kind)
    BY <1>5
  <2>2. kind \in Kinds /\ kind \notin {"SavedSelected", "DeleteConfirmed"} /\ view \in Abouts
    BY <2>1 DEF ConfirmKey, Kinds, Abouts, Scene
  <2> QED BY <2>1, <2>2, PostKeys DEF ConfirmKey, ui, card
<1>6. CASE \E kind \in {"DeleteConfirmed", "DeleteCancelled"} : DialogKey(kind)
  <2>1. PICK kind \in {"DeleteConfirmed", "DeleteCancelled"} : DialogKey(kind) BY <1>6
  <2>2. creds.ssid \in Ssids \cup {<<>>} BY DEF ScenesInv, DataInv, Working
  <2>3. kind \in Kinds /\ kind # "SavedSelected" /\ creds.ssid \in Abouts
    BY <2>2 DEF Kinds, Abouts
  <2> QED BY <2>1, <2>3, PostKeys DEF DialogKey, ui, card
<1> QED BY <1>1, <1>2, <1>3, <1>4, <1>5, <1>6

\* The poller's report is one more event.
LEMMA TagReadKeys ==
  ASSUME ScenesInv, KeysInv, NEW found, TagRead(found)
  PROVE  KeysInv'
<1>1. PICK kind \in ScanReports : Send(kind, <<>>) BY DEF TagRead, ScanReports
<1>2. kind \in Kinds /\ kind \notin {"SavedSelected", "DeleteConfirmed"} /\ <<>> \in Abouts
  BY DEF Kinds, ScanReports, Abouts
<1>3. UNCHANGED <<stack, view, saved, creds, selected, dir, index, chosen>> BY DEF TagRead, card
<1> QED BY <1>1, <1>2, <1>3, PostKeys

\* A change of settings, of the text typed, or of the security, and a tick.
LEMMA OtherKeys ==
  ASSUME KeysInv, ScenesInv,
         \/ \E text : TypeText(text)
         \/ \E security, hidden : ChangeSecurity(security, hidden)
         \/ \E key, value : SettingsChange(key, value)
         \/ Tick \/ UNCHANGED vars
  PROVE  KeysInv'
<1>1. UNCHANGED <<stack, view, saved, queue, index, chosen, selected, dir>>
  BY DEF TypeText, ChangeSecurity, SettingsChange, Tick, vars, ui, card
<1>2. creds' = creds \/ \E security, hidden :
        creds' = [creds EXCEPT !.security = security, !.hidden = hidden]
  BY DEF TypeText, ChangeSecurity, SettingsChange, Tick, vars
<1>3. creds'.ssid = creds.ssid BY <1>2 DEF ScenesInv, DataInv, Working
<1> QED BY <1>1, <1>3, StillKeys

LEMMA KeysNext == TwoWaiting /\ ScenesInv /\ KeysInv /\ [Next]_vars => KeysInv'
<1> SUFFICES ASSUME TwoWaiting, ScenesInv, KeysInv, [Next]_vars PROVE KeysInv' OBVIOUS
<1>1. CASE Key
  <2>1. CASE Back BY <2>1, BackKeys
  <2>2. CASE Start BY <2>2, StartKeys
  <2>3. CASE \/ \E text \in Ssids \cup Passwords : TypeText(text)
             \/ \E security \in Securities, hidden \in BOOLEAN : ChangeSecurity(security, hidden)
             \/ \E value \in {"Off", "On"} : SettingsChange("WaitForACK", value)
             \/ \E value \in {"RC-6", "NEC"} : SettingsChange("IrProtocol", value)
    BY <2>3, OtherKeys
  <2> QED BY <1>1, <2>1, <2>2, <2>3, PostingKeysKeys DEF Key
<1>2. CASE HandleEvent BY <1>2, HandleKeys
<1>3. CASE Tick \/ UNCHANGED vars BY <1>3, OtherKeys
<1>4. CASE TxFinished BY <1>4, TxFinishedKeys
<1>5. CASE \E found \in BOOLEAN : TagRead(found) BY <1>5, TagReadKeys
<1> QED BY <1>1, <1>2, <1>3, <1>4, <1>5 DEF Next

LEMMA KeysInit == Init => KeysInv
<1> SUFFICES ASSUME Init PROVE KeysInv OBVIOUS
<1>1. stack = <<>> /\ queue = <<>> /\ dir = <<>> /\ Top = "none" BY DEF Init, Top, TopOf
<1>2. DOMAIN queue = {} /\ DOMAIN dir = {} /\ Len(stack) = 0 BY <1>1
<1>3. WayInv BY <1>2 DEF WayInv
<1> QED BY <1>1, <1>2, <1>3 DEF KeysInv, FilesInv, RowInv, YesInv

\* KeysInv holds in every reachable state, if at most two events wait.
THEOREM KeysInvariance == ASSUME TwoWaiting PROVE Spec => []KeysInv
<1>1. ScenesInv /\ KeysInv /\ [Next]_vars => KeysInv' BY KeysNext
<1> QED BY <1>1, KeysInit, ScenesInvariance, PTL DEF Spec

\* wi_fir_scene_saved.c: the handler of SavedSelected reads the index that OK
\* stored, though screens may have come and gone since.  What the confirm
\* screen then opens on is the network whose row OK was last pressed on.
THEOREM ChosenIsOpened == ASSUME TwoWaiting PROVE Spec => OpensChosen
<1> DEFINE Opens == Top = "Saved" /\ TopOf(stack') = "Confirm" => creds'.ssid = chosen
<1>1. ASSUME ScenesInv, KeysInv, [Next]_vars PROVE [Opens]_vars
  <2> SUFFICES ASSUME Next, Top = "Saved", TopOf(stack') = "Confirm" PROVE creds'.ssid = chosen
    BY <1>1
  <2>1. Top' = "Confirm" /\ stack # <<>> BY DEF Top, TopOf
  <2>2. Top' # Top BY <2>1
  <2>3. ~Back
    <3> SUFFICES ASSUME Back PROVE FALSE OBVIOUS
    <3>1. Close /\ UiInv /\ WayInv BY <1>1 DEF Back, ScenesInv, KeysInv
    <3> QED BY <2>1, <3>1, ClosedKeys
  <2>4. ~Start BY <2>1 DEF Start
  <2>5. stack' # stack BY <2>2 DEF Top
  <2>6. HandleEvent
    BY <2>3, <2>4, <2>5 DEF Next, Key, MenuOk, TypeText, TextDone, ChangeSecurity, SecurityOk,
       SavedOk, ConfirmKey, DialogKey, SettingsChange, TagRead, Tick, TxFinished, ui
  <2> DEFINE e == Head(queue)
  <2>7. /\ 1 \in DOMAIN queue /\ e = queue[1] /\ Handled(e)
    BY <1>1, <2>6, HandleKeys DEF HandleEvent, Handled
  <2> HIDE DEF e
  <2>8. SavedEvent(e)
    BY <2>5, <2>7 DEF Handled, MainMenuEvent, EditSsidEvent, EditPasswordEvent, EditSecurityEvent,
       ConfirmDeleteEvent, DeleteConfirmedEvent, DeleteCancelledEvent, ConfirmEvent, TagEvent,
       NotWifiEvent, Dropped, ui
  <2>9. /\ saved = List(dir) /\ index \in DOMAIN List(dir) /\ List(dir)[index].ssid = chosen
    BY <1>1, <2>7, <2>8 DEF SavedEvent, KeysInv, RowInv
  <2>10. IsFiniteSet(DOMAIN dir) BY <1>1 DEF ScenesInv, CardInv
  <2>11. PICK name \in DOMAIN dir :
           List(dir)[index] = [file |-> name, ssid |-> (CHOOSE c \in dir[name] : TRUE).ssid]
    <3>1. \A i \in DOMAIN List(dir) : \E name \in DOMAIN dir :
            /\ dir[name] # {}
            /\ List(dir)[i] = [file |-> name, ssid |-> (CHOOSE c \in dir[name] : TRUE).ssid]
      BY <2>10, ListBounded
    <3> QED BY <2>9, <3>1
  <2>12. saved[index].file = name /\ chosen = (CHOOSE c \in dir[name] : TRUE).ssid
    BY <2>9, <2>11
  <2>13. creds' \in dir[name] BY <2>8, <2>11, <2>12 DEF SavedEvent, Chosen, Loads
  <2>14. dir[name] = {creds'} BY <1>1, <2>13 DEF KeysInv, FilesInv
  <2>15. (CHOOSE c \in dir[name] : TRUE) = creds' BY <2>14
  <2> QED BY <2>12, <2>15
<1> QED BY <1>1, KeysInvariance, ScenesInvariance, PTL DEF Spec, OpensChosen

\* What changes the saved networks.
LEMMA CardSteps ==
  ASSUME [Next]_vars
  PROVE  \/ UNCHANGED <<dir, sent>> \/ TxFinished
         \/ HandleEvent /\ DeleteConfirmedEvent(Head(queue))
<1>1. Key \/ Tick \/ (\E found \in BOOLEAN : TagRead(found)) \/ UNCHANGED vars => UNCHANGED <<dir, sent>>
  BY DEF Key, MenuOk, TypeText, TextDone, ChangeSecurity, SecurityOk, SavedOk, ConfirmKey,
     DialogKey, SettingsChange, Back, Start, TagRead, Tick, card, vars
<1>2. ASSUME HandleEvent PROVE UNCHANGED <<dir, sent>> \/ DeleteConfirmedEvent(Head(queue))
  <2> DEFINE e == Head(queue)
  <2>1. Handled(e) BY <1>2 DEF HandleEvent, Handled
  <2> HIDE DEF e
  <2>2. UNCHANGED <<dir, sent>> \/ DeleteConfirmedEvent(e)
    BY <2>1 DEF Handled, MainMenuEvent, EditSsidEvent, EditPasswordEvent, EditSecurityEvent,
       SavedEvent, ConfirmDeleteEvent, DeleteCancelledEvent, ConfirmEvent, TagEvent,
       NotWifiEvent, Dropped
  <2> QED BY <2>2 DEF e
<1> QED BY <1>1, <1>2 DEF Next

\* The Yes that is handled names the network in the file that is removed, if it is.
LEMMA DeletionNamed ==
  ASSUME TwoWaiting, ScenesInv, KeysInv, HandleEvent, DeleteConfirmedEvent(Head(queue))
  PROVE  /\ \A other \in DOMAIN dir \ {selected} : other \in DOMAIN dir' /\ dir'[other] = dir[other]
         /\ sent' = sent \ {Head(queue).about}
         /\ Head(queue).kind = "DeleteConfirmed"
         /\ selected \in DOMAIN dir => dir[selected] = {creds} /\ Head(queue).about = creds.ssid
<1> DEFINE e == Head(queue)
<1>1. 1 \in DOMAIN queue /\ e = queue[1] /\ DeleteConfirmedEvent(e) BY HandleKeys
<1> HIDE DEF e
<1>2. /\ Top = "Confirm" /\ e.kind = "DeleteConfirmed"
      /\ dir' = Delete(dir, selected) \/ dir' = dir
      /\ sent' = sent \ {e.about}
  BY <1>1 DEF DeleteConfirmedEvent
<1>3. \A other \in DOMAIN dir \ {selected} : other \in DOMAIN dir' /\ dir'[other] = dir[other]
  <2>1. CASE dir' = Delete(dir, selected) BY <2>1, DeleteFiles DEF KeysInv
  <2>2. CASE dir' = dir BY <2>2
  <2> QED BY <1>2, <2>1, <2>2
<1>4. ASSUME selected \in DOMAIN dir PROVE dir[selected] = {creds} /\ e.about = creds.ssid
  <2>1. selected # <<>> BY <1>4 DEF ScenesInv, CardInv
  <2>2. creds \in dir[selected] BY <1>2, <1>4, <2>1 DEF ScenesInv, DeletableIsShown, Loads
  <2>3. dir[selected] = {creds} BY <1>4, <2>2 DEF KeysInv, FilesInv
  <2>4. e.about = creds.ssid BY <1>1, <1>2, <2>1 DEF KeysInv, YesInv
  <2> QED BY <2>3, <2>4
<1> QED BY <1>2, <1>3, <1>4 DEF e

\* wi_fir_scene_confirm.c: wfr_storage_delete takes the selected file when the
\* Yes is handled.  Nothing is ever deleted but on the Yes to a dialog that
\* named the network in that file.
THEOREM NamedIsDeleted == ASSUME TwoWaiting PROVE Spec => OnlyTheNamedIsDeleted
<1> DEFINE Named == \A name \in DOMAIN dir \ DOMAIN dir' :
              /\ Head(queue).kind = "DeleteConfirmed"
              /\ \E c \in dir[name] : c.ssid = Head(queue).about
<1>1. ASSUME ScenesInv, KeysInv, [Next]_vars PROVE [Named]_vars
  <2>1. CASE dir' = dir BY <2>1
  <2>2. CASE TxFinished
    <3>1. creds.ssid # <<>> BY <2>2 DEF TxFinished
    <3>2. dir' = dir \/ \E loads : dir' = Write(dir, creds, loads)
      BY <2>2 DEF TxFinished, Save, FailedSaves
    <3>3. \A loads : DOMAIN dir \subseteq DOMAIN Write(dir, creds, loads) BY <3>1 DEF Write
    <3>4. DOMAIN dir \subseteq DOMAIN dir' BY <3>2, <3>3
    <3> QED BY <3>4
  <2>3. CASE HandleEvent /\ DeleteConfirmedEvent(Head(queue))
    <3>1. SUFFICES ASSUME NEW name \in DOMAIN dir \ DOMAIN dir'
                   PROVE  /\ Head(queue).kind = "DeleteConfirmed"
                          /\ \E c \in dir[name] : c.ssid = Head(queue).about
      OBVIOUS
    <3>2. /\ \A other \in DOMAIN dir \ {selected} : other \in DOMAIN dir'
          /\ Head(queue).kind = "DeleteConfirmed"
          /\ selected \in DOMAIN dir => dir[selected] = {creds} /\ Head(queue).about = creds.ssid
      BY <1>1, <2>3, DeletionNamed
    <3>3. name = selected BY <3>2
    <3> QED BY <3>2, <3>3
  <2> QED BY <1>1, <2>1, <2>2, <2>3, CardSteps
<1> QED BY <1>1, KeysInvariance, ScenesInvariance, PTL DEF Spec, OnlyTheNamedIsDeleted

\* A step keeps a copy of every network that is to be kept.
LEMMA KeptNext ==
  ASSUME TwoWaiting, NamesDiffer, ScenesInv, KeysInv, SentIsKept, [Next]_vars
  PROVE  SentIsKept'
<1>1. CASE UNCHANGED <<dir, sent>> BY <1>1 DEF SentIsKept
<1>0. CASE dir' = dir /\ sent' \subseteq sent BY <1>0 DEF SentIsKept
<1>2. CASE TxFinished /\ ~(dir' = dir /\ sent' \subseteq sent)
  <2> DEFINE file == SafeName(creds.ssid)
  <2>1. creds \in Working /\ creds.ssid # <<>> /\ creds.ssid \in Ssids
    BY <1>2 DEF TxFinished, ScenesInv, DataInv, Working
  <2>2. PICK loads \in {{creds}, {}, {[creds EXCEPT !.hidden = FALSE]}} :
          /\ dir' = Write(dir, creds, loads)
          /\ \/ loads = {creds} /\ sent' = sent \cup {creds.ssid}
             \/ sent' = sent \ {creds.ssid}
    BY <1>2, <2>1 DEF TxFinished, Save, FailedSaves
  <2>3. \A c \in loads : loads = {c} /\ c.ssid = creds.ssid BY <2>1, <2>2 DEF Working
  <2>4. /\ DOMAIN dir' = DOMAIN dir \cup {file} /\ dir'[file] = loads
        /\ \A name \in DOMAIN dir \ {file} : dir'[name] = dir[name]
    BY <2>1, <2>2, <2>3, WriteFiles DEF KeysInv
  <2>5. ASSUME NEW ssid \in sent', ssid # creds.ssid
        PROVE  \E name \in DOMAIN dir' : \E c \in dir'[name] : c.ssid = ssid
    <3>1. ssid \in sent /\ ssid \in Ssids BY <2>2, <2>5 DEF ScenesInv, DataInv
    <3>2. PICK name \in DOMAIN dir : \E c \in dir[name] : c.ssid = ssid BY <3>1 DEF SentIsKept
    <3>3. PICK c \in dir[name] : c.ssid = ssid BY <3>2
    <3>4. SafeName(ssid) = name BY <3>2, <3>3 DEF KeysInv, FilesInv
    <3>5. name # file BY <2>1, <2>5, <3>1, <3>4 DEF NamesDiffer
    <3> HIDE DEF file
    <3> QED BY <2>4, <3>2, <3>3, <3>5
  <2> HIDE DEF file
  <2>6. ASSUME creds.ssid \in sent'
        PROVE  \E name \in DOMAIN dir' : \E c \in dir'[name] : c.ssid = creds.ssid
    <3>1. loads = {creds} BY <2>2, <2>6
    <3> QED BY <2>4, <3>1
  <2> QED BY <2>5, <2>6 DEF SentIsKept
<1>3. CASE HandleEvent /\ DeleteConfirmedEvent(Head(queue))
  <2> DEFINE about == Head(queue).about
  <2>1. /\ \A other \in DOMAIN dir \ {selected} : other \in DOMAIN dir' /\ dir'[other] = dir[other]
        /\ sent' = sent \ {about}
        /\ selected \in DOMAIN dir => dir[selected] = {creds} /\ about = creds.ssid
    BY <1>3, DeletionNamed
  <2> HIDE DEF about
  <2>2. ASSUME NEW ssid \in sent'
        PROVE  \E name \in DOMAIN dir' : \E c \in dir'[name] : c.ssid = ssid
    <3>1. ssid \in sent /\ ssid # about BY <2>1
    <3>2. PICK name \in DOMAIN dir : \E c \in dir[name] : c.ssid = ssid BY <3>1 DEF SentIsKept
    <3>3. name # selected BY <2>1, <3>1, <3>2
    <3> QED BY <2>1, <3>2, <3>3
  <2> QED BY <2>2 DEF SentIsKept
<1> QED BY <1>0, <1>1, <1>2, <1>3, CardSteps

\* README.md: "Previously transmitted networks are auto-saved to the SD card".
\* Where no two networks have one file name, one that was transmitted and saved
\* stays there until the user deletes it or saving it again fails.
THEOREM SentStays == ASSUME TwoWaiting, NamesDiffer PROVE Spec => []SentIsKept
<1>1. Init => SentIsKept BY DEF Init, SentIsKept
<1>2. ScenesInv /\ KeysInv /\ SentIsKept /\ [Next]_vars => SentIsKept' BY KeptNext
<1> QED BY <1>1, <1>2, KeysInvariance, ScenesInvariance, PTL DEF Spec
=============================================================================
