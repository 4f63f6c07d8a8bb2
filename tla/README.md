# A verification of InfraFi

InfraFi carries WiFi credentials from a Flipper Zero to a Linux host over
infrared: the app (`flipper/`) sends a WiFi QR string one byte per infrared
message, the daemon `infrafid` (`daemon/`) reassembles it, joins the network and
may answer, over infrared too. This directory holds TLA+ modules of that
program, the TLC runs that check them and the TLAPS proofs about them. Paths and
line numbers below are relative to the root of the repository; `PROJECT.json`
lists, for every definition, the lines it is a model of.

## 1. Inventory

| Part | State it keeps | Operations | Talks to |
|---|---|---|---|
| IR sender, `flipper/wfr_encode.c` | position in a pass, pass number | one message: START, DATA, END; cancellation | kernel of the host, by infrared; progress callback of the transmit scene |
| Kernel queue and main loop, `daemon/main.c`, `wfr_lirc.c` | queue of scancodes; away in `handle_credentials` or not | read, feed, handle | decoder, join |
| evdev input, `daemon/wfr_evdev.c` | none | one raw NEC value to an address and a command, or to nothing | main loop, in place of `wfr_lirc.c` |
| Frame decoder, `daemon/wfr_decode.c` = `flipper/wfr_decode.c` | open, expected length, bytes so far, time of START | START, DATA, END, timeout | main loop; infrared worker |
| CRC-8, WiFi string, `flipper/protocol/` | none | check byte; build, parse | both sides |
| Join and rollback, `daemon/main.c:51-91`, `wfr_network.c` | the host's: selected network, address, files; local: previous network, wait counters | one command at a time, two wait loops, save, answer, roll back | wpa_supplicant, NetworkManager, ifupdown through commands |
| ACK sender, `daemon/wfr_ack.c` | none | one answer, message by message; a write may fail | infrared worker of the Flipper, and whatever else sees its light: the daemon's own receiver |
| Transmit scene, `flipper/scenes/wi_fir_scene_transmit.c` | screen, dismissal counter, retry flag, TX thread, cancellation flag, infrared worker, timer, text of the answer | start, finish, answer, timeout, dismissal, keys | TX thread, infrared worker, timer, event queue, storage |
| Other scenes, `flipper/scenes/`, `wi_fir.c`, `views/` | scene stack, credentials being edited, shared text buffer, selected file, NFC poller, settings | keys, custom events, tick, Back | event queue, NFC worker, storage |
| Storage, `flipper/wfr_storage.c` | files on the SD card | save, load, list, delete, settings | scenes |
| NFC tag parser, `flipper/wfr_nfc.c` | none | parse | scan scene |

What is hard in this code, and what makes each part correct:

* **The link is blind and lossy.** Messages get lost, repeated (NEC repeat codes)
  or damaged; a burst may arrive while the daemon is away for half a minute; the
  decoder resumes in the middle of whatever was left in it. Correct: what is acted
  on was sent, whole; a whole burst is not lost.
* **Both directions speak one language.** An answer and a request differ in their
  first bytes alone, and neither names the attempt, the sender or the receiver.
  Correct: nobody acts on its own light, an answer is shown whole, and the result on
  screen is that of the credentials on screen.
* **Four threads on the Flipper.** GUI, TX, infrared worker and timer meet in one
  event queue with no attempt numbers in the events. Correct: no event acts on an
  attempt it does not belong to; sending and listening exclude each other; leaving
  leaves nothing running.
* **The daemon sees the radio through commands**, each stale when it returns.
  Correct: success means that the requested network was joined; failure restores
  what was there; nothing untried is made permanent.
* **Keys run ahead of the handlers.** Views post events, and whichever scene is on
  top when an event is handled takes it. Correct: what is opened, shown, deleted
  or sent is what the user picked.
* **Tags are written by others** and may be read in part. Correct: a name never goes
  with the key of another network, and a good tag is not refused.

`PROJECT.json` lists 40 hazards, at their lines, with the properties meant for them. Where no
property covers one, because the code does it and nothing promises otherwise, a note
says so.

## 2. Modules

| Module | Models | Kind |
|---|---|---|
| `WfrDecoder` | one decoder, as operators: what a frame does to it | pure |
| `IrLink` (extends `WfrDecoder`) | sender, air, kernel queue, main loop, restarts, clock | state machine |
| `CredentialDelivery` | what the link promises, in two actions | abstract specification |
| `Bits` | bytes and 16-bit numbers, `^` and `&` on the bits of a byte | pure |
| `Crc8` (extends `Bits`) | table and loop | pure |
| `EvdevInput` (extends `Bits`) | one raw value of the evdev input, and the driver's report it is read from | pure |
| `CrcStrength` (extends `EvdevInput`, `Crc8`) | a payload, message by message through the evdev input, one message damaged; the CRC of what was sent and of what was read | state machine |
| `WifiString` | build and parse, with buffer sizes | algorithm as a state machine |
| `NfcTag` | the walk over a tag: TLVs, NDEF records, WSC attributes | pure |
| `Credentials` (extends `WifiString`, instantiates `NfcTag`) | credentials typed or scanned, then built and parsed; how a tag is written | composition |
| `TransmitScene` | the scene and its threads | state machine |
| `WifiJoin` | `handle_credentials` and the radio | state machine |
| `AckRound` (extends `WfrDecoder`) | a Flipper, the daemon, its answers and another Flipper, over one air | composition |
| `Storage` | the SD card, as operators | pure |
| `Scenes` (extends `Storage`) | scene stack, event queue, keys, NFC worker | state machine |
| `MCIrLink`, `MCCrcStrength`, `MCWifiString`, `MCAckRound`, `MCScenes` | values for the runs | |
| `IrLink_proofs`, `CrcStrength_proofs`, `TransmitScene_proofs`, `Scenes_proofs`, `WifiJoin_proofs`, `AckRound_proofs`, `WifiString_proofs`, `Credentials_proofs` | theorems about `IrLink`, `CrcStrength`, `TransmitScene`, `Scenes`, `WifiJoin`, `AckRound`, `WifiString` and `Credentials` | proofs |

Definitions whose comment begins "Mutant of" are plausible bugs: `PROJECT.json`
names, for each property, the mutant that breaks it. Nothing uses them.

### IrLink

A decoder is a record of `in_transmission` (`open`), `expected_len` (`len`) and the
bytes below `write_cursor` (`buf`); the bytes above it are never read, because
both the CRC and the copy out happen only at `write_cursor = expected_len`.
`wfr_decode_feed_scancode` is split by what it is given: `ReceiveExpired`
(line 39, which returns before it looks at the message), `ReceiveStart`,
`ReceiveData`, `ReceiveEnd`, `Deliver` (the END that completes) and
`ReceiveForeign`. The clock is an age that stops at `Timeout`. `busy` is the time
between the call of `handle_credentials` and its return.

`wfr_transmit_credentials` is one step per message, between which anything else
may happen. Each message meets one of the air's fates (`Emit`): it is queued,
lost (this includes a full queue), queued twice, or queued with another type or
command byte. The last two cost one of `MaxFaults`; loss is unbounded. Every
frame carries its burst and position as history, so that the properties can say
which burst a payload came from; no guard reads them.

The pass number is left out: the decoder stores and never reads it. So is the
branch for an output buffer that is too small: 255 bytes always fit.

### TransmitScene

A handler of the GUI thread is a list `todo` of operations, so that other threads
run between them; joining a thread or stopping the worker blocks until that thread
is done. `wi_fir_tx_worker` returns, checks `tx_cancel` and posts in three steps.
`wi_fir_ir_rx_callback` writes its text and posts in two. Back is handled at once,
other keys are queued. The events carry their attempt as history. After Back, keys
that were pressed ahead and are still queued may lead through menu and confirmation
back into the scene (`PressForward`, `Navigate`, `ConfirmSend`). The lock of the status
view's model and a full event queue are not modelled. The user is assumed to
be at most two keys ahead of the handlers (`Queued`); section 3 says what three do.

### EvdevInput and CrcStrength

A raw value is its four bytes. `Report` is the driver's side, bits mirrored by their
definition; `reverse_bits` is the code's three masked exchanges. In `CrcStrength`
the damage is a mask on the four bytes. What the complements find is skipped;
what they cannot find (both bytes of the command changed to fit) reaches the CRC,
which is computed over the payload sent and the payload read side by side, so
that nothing bounds the length of a payload. An address is of a DATA message whatever
its pass bits are (`IsData`).

### NfcTag and Credentials

Memory is a sequence of bytes, and a walk is a recursive function on it, which goes on
with the rest of it (`Attributes`, `Message`, `Area`: one function for each loop); the
attributes found so far are a record (`Found`), which nested credentials and later ones
fill further, as the code's struct is. `Credentials` has the other side: `Written`
lays networks out on a tag by the format (WSC in NDEF in TLVs), not by the code, in
lengths of one byte or three, short and long records, with or without an id, another
record and TLVs before, attributes in any order and again. `TagAssumption` says what a
tag may be: any networks and any layout whose lengths fit into the bytes they are
written in. `parse_wifi_tag` gets the first `pages` of it. What it finds is sent as
typed credentials are. A tag whose SSID begins with NUL gives an empty name; it is
shown, and refused when it is sent (`wfr_transmit_credentials`).

One struct is filled from all the networks of a tag, the last one winning attribute by
attribute (`wfr_nfc.c:44-79`): after a network with a key, one without a key or with a
name that is too long leaves some of the earlier one behind. `FromOneNetwork` is
therefore of tags that have one network, or end with one whose attributes all replace
what came before (`Complete`); a tag is commonly written with one.

Lengths of 2^31 and more, which four bytes of a record can say, are left out: the code's
sums (`wfr_nfc.c:129` and `173`) are of 32 bits and may wrap there, to 0 in the worst
case, and the loop at line 140 then never ends. `LengthsFit` says of a memory that no
record claims as much, in terms of the walk itself. It is a hypothesis of the theorems
about any memory, and `MCWifiString` has TLC check it of every tag of the run
(`TagLengthsFit`).

### AckRound

Both decoders are `WfrDecoder`'s. A message reaches the receivers that do not miss it:
the daemon's queue, and the Flipper's decoder if it listens; the daemon's own messages
reach its own queue if `echo`. `AnswerMessage` is one message of `wfr_ack_send`,
`AnswerFails` a device that is missing or refuses a write. The scene is that of
`TransmitScene` with each handler in one step, the join that of `WifiJoin` with its
outcome and duration chosen. `src` on a message is history: no guard reads it.
Of `wfr_parse_wifi_string` there is the first byte, a 'W', and whatever else it asks of a
text is a constant (`Parses`): the proofs hold for the parser of the code and any other.

A tick is long beside a burst. Assumed, each for the size of the model: the daemon has
read its queue before the next message is sent or a tick passes, unless it
is busy (then what arrives is queued, as in `IrLink`); and the Flipper listens
from the moment of its last message, since the daemon sleeps for a second before it
answers (`wfr_ack.c`). An answer decoded, its report and the handler of that are one
step (`ReachesFlipper`), so a timeout queued between them does not exist here. What
happens in those moments is in `IrLink` and `TransmitScene`.

### WifiJoin

One action per command the daemon waits for. Between two of them the radio
(`Roam`, `Lease`) may join any allowed network, lose it, gain or change an address.
`allowed` is what wpa_supplicant or NetworkManager may join now, `conf` what the
host's own configuration would have it join after a restart, `files` infrafid's two
files. `wait_for_wpa_association` is a loop with a counter in seconds; its two
commands (state, then SSID) are two actions, and so are ifupdown's two files, with a crash
between them possible. `joined` records the networks the
radio was on since the new one was selected. Assumed: the WiFi interface does
not disappear while a request is handled, and a `wpa_cli` that works does not
fail to reconfigure in the rollback (its result is not looked at,
`wfr_network.c:556`).

### Scenes and Storage

`stack` is the scene manager's, `view` what is on screen (a dialog is not a scene),
`queue` the view dispatcher's. A key acts on the view on screen at once and posts
an event; `HandleEvent` gives the first event to the scene on top, which drops the
ones it does not know. Keys may overtake queued events and need not: this covers a
dispatcher with one queue for both and one with two. `Show` is what `on_enter` of
the new and `on_exit` of the old scene do together. The transmit scene is reduced
here to its save and its way back. A file of the SD card is the set of credentials
it loads as, with one element, or none if writing it failed half-way. A failing open
leaves the old file. The card's FAT, which is external, compares names without regard
to case (`FatCase`). A deletion may fail, which `wi_fir_scene_confirm.c:79` does not look at.
A tag may give a name that begins with NUL, and one that is refused may leave
credentials with an empty name in `nfc_creds` (`TagRead`).

## 3. Runs

All state counts are of distinct states. Bounds are CONSTANTS, named in the modules.

| Run | Question | Bounds | States |
|---|---|---|---|
| `link` | safety, refinement and progress of the link | 2 bursts, 3 payloads of length 1 and 2, two with one CRC; 1 fault, queue of 3, timeout 3 ticks | 328,251 |
| `crc` | what complements and CRC find together; table = polynomial | the 8 unit bytes and 0 sent; every damage that keeps the complements of the command, 41 others | 131,075 |
| `wifi_string` | round trip, when a string is built, and what a tag gives | names and passwords up to 2 of 6 characters, 4 security types, buffers of 28 to 256; 696 tags, 1 or 2 networks each, 144 layouts, read to any page | 182,925 |
| `transmit` | safety of the scene, and that nothing hangs | 8 key presses, up to 2 ahead of the handlers, 2 answers: several attempts, with a retry between or through menu and confirmation | 949,454 |
| `ack_round` | what the user is told, and what the daemon acts on | 2 transmissions, of which another Flipper may make 1; 2 requests of 3 bytes, chosen so that mixes of them and of answers have their check bytes; 1 message missed; timeouts of 2 ticks, joins of 1 and 3 | 5,304,259 |
| `join` | safety of join and rollback, and that every request ends | 2 networks, 2 requests, 1 crash, each manager; the code's 20, 6 and 15 s | 496,691 |
| `scenes_saved` | editing, saving, opening, deleting | 2 names, 2 passwords, 2 events queued, a list of 2, 1 failed write | 1,925,972 |
| `scenes_nfc` | scanning and settings | 1 name, 2 events queued, 1 failed write | 23,520 |

One pass per transmission is the code's value (`WFR_RETRANSMIT_COUNT`); the modules
and the proofs hold for any. The runs that state liveness use `FairSpec`, whose
reachable states are those of `Spec`.

Why these bounds are enough to meet the interesting cases: two bursts are what it
takes to leave a decoder open and then reuse it, with payloads of equal and of
different length; a timeout longer than a burst but shorter than two lets a burst
be old, new or cut in two by it; a queue of three is shorter than the longest
burst, so it overflows. Linearity of the CRC makes unit bytes as strong as all
bytes for a difference; every pair of values of the two CRCs is reached. Eight presses
open the scene (two), leave it or retry, open it once more (two) and still leave
keys pressed twice (the safety properties are proved for any number). Joins shorter and longer than
the Flipper's timeout make an answer early, late, or that of the attempt before; one
missed message is what leaves a decoder open. The requests `<<87,1,164>>` and `<<87,2,230>>` are
chosen for the CRC of the code: `<<87,87,1>>`, of an attempt that was left and a retry
whose START was missed, has the check byte of the first, and `<<87,79,2>>`, with a byte of
an answer in it, that of the second. Two
requests let the second find what the first left behind. Two events queued are
two keys pressed before the first is handled; three properties of `Scenes` fail for three
(below), the others are proved for any number.

The other runs each end in a counterexample, a disagreement between the code and
what the repository says of it; `PROJECT.json` ("findings") quotes both:

| Run | Shows |
|---|---|
| `link_promise` | the message that finds an old transmission timed out is thrown away; if it is a START, its whole burst is lost (`daemon/wfr_decode.c:39`) |
| `ack_stale` | the answer of an attempt that the user left is shown as the result of the next (`wi_fir_scene_transmit.c:24`) |
| `join_previous` | with ifupdown a previous network that infrafid had joined is not restored (`wfr_network.c:568`) |
| `scenes_collide` | saving a network removes another one whose name differs in a special character (`wfr_storage.c:20`) |

More that the models show, for which the repository promises nothing exact:

* Without `wpa_cli` the path of ifupdown takes an address on the old network for
  success (`wfr_network.c:145`; `OkMeansJoined` fails with `WpaCliWorks = FALSE`).
* A join that succeeded without an address yet is answered with FAIL (`main.c:48`).
* The waits of the daemon may exceed the 30 s for which the Flipper listens
  (`wfr_network.c:387`).
* "Connected!" may be replaced by "No reply" when the answer and the timeout are queued
  together (`wi_fir_scene_transmit.c:243`); `ScreenOrder` allows that exchange.
* Any complete text that does not begin with `OK:` is shown as a refusal, another
  Flipper's credentials included (`wi_fir_scene_transmit.c:40-51`); `PatientUserIsToldTrue`
  is stated for nobody else sending.
* With a third key pressed ahead, a menu key and a Send left in the queue lead back to the
  scene before the TxFinished of the attempt that Back ended is handled; the new
  attempt takes it for its own (`wi_fir_scene_transmit.c:108`). `NoStaleReport` is stated
  for two.
* With three events waiting (rows, Del and Back pressed some nine keys ahead of the
  handlers), a list row chosen on one screen is handled on a later one, and a confirmed
  deletion then removes the network selected since, not the one its dialog named
  (`wi_fir_scene_confirm.c:79`). `OpensChosen`, `OnlyTheNamedIsDeleted` and `SentIsKept`
  are stated for two.
* If a message of a retry is missed, the daemon may complete it with bytes of the attempt that
  was left, and act on a text that nobody sent, where the check byte of the two is the same
  (`daemon/wfr_decode.c:94-118`). `OnlyRequestsServed` promises what was sent only if no
  message is missed; of lost messages `Faithful` and `Delivery` say what remains.
* Leaving and entering the scan scene at once, with a key pressed ahead, shows the
  credentials of the tag that was read last for the report of the one before
  (`wi_fir_scene_scan_nfc.c:23`).
* A write that fails loses the file that was there (`wfr_storage.c:46`); `SentIsKept` and
  `SettingsSurvive` exempt what the failed write was about.
* OK pressed twice on the SSID keyboard passes the password screen unseen
  (`wi_fir_scene_edit_pass.c:33`).
* A network on a tag whose key is missing or too long keeps the key of the network
  before it on the same tag (`wfr_nfc.c:50`). The two-network tags of the run give keys
  that fit to all that use one.

### Fairness

* `IrLink`: the main loop reads when there is something to read, and
  `handle_credentials` returns (its loops are bounded, see `WifiJoin`). Nothing is
  assumed of the sender or the air: the user may walk away.
* `TransmitScene`: GUI thread, TX thread, worker callback and timer are scheduled, and
  `wfr_transmit_credentials`, a bounded loop, returns. No key press and no answer is
  ever owed.
* `WifiJoin`: commands return and sleeps end. The radio owes nothing.
* `Scenes`: the dispatcher handles events and delivers its tick. Neither user nor
  tags owe anything.
* `AckRound`, `CrcStrength` and `Credentials` state safety only and have no fairness.

Deadlock is checked except where stopping is right: the link when all bursts are
sent, a daemon with no more requests or transmissions, a string that was parsed. In `TransmitScene` the
only state that may be final is `Idle`, the app waiting for its user: a GUI thread
waiting for ever for another thread would be a deadlock.

## 4. Proofs

`IrLink_proofs` proves, for every value of the constants that satisfies
`TimeoutAssumption` and `LinkAssumption` (payloads of 1 to 255 bytes, a burst
faster than the timeout, a CRC that is a byte), and for any function `Crc`:

* `TypeCorrect`: `Spec => []TypeOK`. What has to be added to be inductive is
  `SenderInv` (the sender sends the payload it recorded), because `FrameOf` takes a
  byte of it.
* `LinkFaithful`: `Spec => []Faithful`. A payload completed by the END of a burst of
  which nothing was repeated or damaged is that burst's payload, if that burst's
  START opened the decoder, or if none of its messages were lost. The CRC plays no part in it.

`Faithful` speaks of the log only, so it is not inductive. `IInv` adds what makes it
true: the queue holds what was sent, in order (`QueueInv`, `OrderInv`); before position
k of the burst that opened it, a decoder has fewer than k bytes, and if it has k - 1
they are the right ones (`DecoderInv`), so that an END finds the expected
length only with the right bytes; and a burst of which nothing was lost has its START
still in the queue, or has had it read, after which the decoder is never again open
for an earlier burst (`StartInv`). The proof
has one lemma per kind of step: a message emitted, a START read, a byte or an END
that completes nothing, a delivery, a message that only leaves the queue, a restart,
and steps that touch neither queue nor decoder.

It also proves `CleanBurstsRecover`, `Spec => []CleanBurstDelivered`, under the
same assumptions. `RecoveryInv` follows each burst that nothing happened to: the queued
messages of it have no gap (`Gapless`), and its START is queued, or it is being received,
or it was handed over, or its START was used up (`Progress`). A burst being received has
its next byte coming, so that `DecoderInv` leaves only that byte as the next message, and
its END finds it complete. That it does not expire on the way takes time: `Tick` needs an
empty queue or a daemon that handles a payload, and handling starts with the decoder
closed, so an open decoder is never older than the burst in the air, which
`LinkAssumption` makes faster than the timeout.

And it proves `LinkImplementsDelivery`, `Spec => Delivery`, under the same
assumptions. `Faithful` gives the payload of an intact receipt, and that a receipt which
is not intact is of a damaged burst. The order, and that no burst is acted on twice,
takes `LogInv`: when a whole burst has been acted on, nothing of it or of an earlier
one is queued or still to be sent, because its END was its last message. The same fact
keeps later damage away from it, so that receipts never change.

`CrcStrength_proofs` proves, for any set of bytes that are sent and any damage to one
message of a payload (`CrcAssumption` says only that they are bytes):

* `OneByteIsDetected`: `Spec => []OneByteDetected`. A payload with one byte changed has
  another CRC, however long it is. The invariant is that the two CRCs differ from the
  changed byte on. That they go on differing takes `Turn` to be one-to-one in the CRC:
  `crc8_table` has no value twice, because each entry is eight shifts of its index and a
  shift can be undone.
* `OnlyWholeMessagesAreRead`: `Spec => []OnlyWholeMessages`. `reverse_bits` undoes what
  the driver did and keeps bytes apart, so with one damaged byte it no longer fits its
  complement.
* `TableDivides`: `Spec => IsRemainder`. All 256 entries, hence every step of
  the loop, are the remainder of the polynomial division.

A byte is reasoned about by its eight bits (`BitsOfByte`), on which `^` and `&` are
sums; that is why `Bits` defines them so. The run goes through the unit bytes and 41
kinds of damage; the theorems through all.

`TransmitScene_proofs` proves eight of the ten properties of the run `transmit`, for
every value of the constants that satisfies `SceneAssumption` (any number of keys
and answers, any dismissal times), from one inductive invariant, `SceneInv`. Every
property is about a moment; why it holds is about where each thread and the handler
under way stand, so the invariant says that:

* `ThreadInv`: TX thread and listener exclude each other and live on their own screens
  (`NeverBoth`, `NothingLeftBehind`, `DismissalIsSafe`, `OnlySentIsSaved`).
* `ProgramInv`: a handler is given by what it ends in (`Goal`) and how many operations
  it has left (`Left`); what it has passed has stopped. It takes the blocking joins to
  know that the thread is gone when the listener starts.
* `ReportInv`: every report queued is of this attempt and of its present phase
  (`ReportsAreCurrent`). A thread that is stopped has posted before the stop returns, and
  the queue is in order: what leads to the next attempt is behind the reports of this
  one, as the next two parts say.
* `KeyInv`: a Retry of this attempt was pressed on a result, so no report can
  follow it in the queue; a Retry of an earlier attempt is gone when a failure is on
  screen. Without it a Retry left over could start an attempt with a report queued.
* `WayInv`: a report may outlive its attempt if Back ends it, but no menu key and Send
  are queued before it, so that it is gone when the scene is entered again. This is where the bound of two keys ahead
  is used, and with three it fails.
* `TextInv`: the text of an answer, from decoder to screen (`ConnectedIsHonest`).

`ScreensInOrder` is an action property: each change of screen follows from where
`SceneInv` says the handler stands.

`Scenes_proofs` proves, for every value of the constants that satisfies
`StorageAssumption` and `ScenesAssumption` (any networks, any number of events queued
and so of keys pressed ahead, any failed writes), from one inductive invariant,
`ScenesInv`:

* `DelOnlyForSaved`, `DelIsOfTheShown`: what Del on a confirm screen would remove. They
  have to know the shapes of the scene stack: whatever lies on a confirm screen is the
  transmit scene, and that leaves by resetting the stack to the main menu. So a confirm
  screen is never come back to; it is on top only from the step that opened it, where
  `selected` and `creds` were set together.
* `ScanGoesOn`: a poller that reported has its report still queued, and no handler but
  that of the scan scene itself takes it while the scene is on top.
* `SettingsLast`: every change of the settings is written at once; needs that a file
  that was written reads back as what was written.
* `ScenesTypeCorrect`: types. `text_input_buf` is shared by the SSID and the password
  scene, and its type depends on which is on top (`UiInv`).

With at most two events waiting (`TwoWaiting`, the bound of section 3, without which they
fail) it proves three more, from a second inductive invariant, `KeysInv`:

* `ChosenIsOpened`: `Spec => OpensChosen`. A row is handed over as an index. While one
  waits to be handled the card does not change, so that the index means the same in
  whatever list is on screen then (`RowInv`).
* `NamedIsDeleted`: `Spec => OnlyTheNamedIsDeleted`. A waiting Yes names what Del would
  remove, and no row is handled before it, which could change that (`YesInv`). It needs
  that a file holds one network and has its name (`FilesInv`).
* `SentStays`: `Spec => []SentIsKept`, where no two networks have one file name
  (`NamesDiffer`); the run `scenes_collide` shows what happens otherwise.

`WayInv`, the shape of the scene stack, says under which scenes a list may lie.

`WifiJoin_proofs` proves, for every value of the constants that satisfies
`JoinAssumption` (any networks, any waits and bounds), from one inductive invariant,
`JoinInv`:

* `JoinTypeCorrect`: types, and the time a request may take.
* `SuccessIsReal`: `OkMeansJoined`, if `wpa_cli` works. The invariant has to know that
  from the selection on the new network is the only one that can be joined, and that
  once DHCP is waited for the radio is on it or on none (`SelectedInv`): that is what
  makes an address evidence of the new network.
* `RollbackCorrect`, `FilesCorrect`: what a request leaves behind (`HostInv`), and that
  the first of the two files is of the new network when the second is written.
* `PersistedCorrect`: an action property, from `SelectedInv` at `save_config`.

`AckRound_proofs` proves, for every value of the constants that satisfies
`AckRoundAssumption`, from one inductive invariant, `IInv`. The assumption is about
the code's texts and timeouts: an answer is "OK:", digits and dots, or "FAIL", so no 'W' is
in it, and the wait of the Flipper is no longer than the timeout of its decoder.

* `AckRoundTypeCorrect`: types, and `StreamsInv`: what is still to be sent is the end of
  a burst (`RestOf`), so that a START is followed by its own bytes and END.
* `ServedAtMostOnce`: `Spec => []ServedOnce`, for any CRC, losses and strangers. The END of
  a transmission is in one place: still to be sent, queued, or the one that the daemon
  has acted on (`OnceInv`).
* `WholeAnswerIsShown`: while an answer is heard without a gap, the decoder that heard its
  START holds a prefix of it (`CleanInv`), and is not older than the wait.
* `PatientUserToldTrue`: if nobody else sends, a user who waits has at most one attempt
  outstanding. What the daemon hears of its own answers has no 'W' in it and is never
  taken for a request; ENDs that are queued are of this attempt and behind all other
  messages; and the decoder is idle when a request has been accepted (`PatientInv`).

* `RequestsServedAsSent`: `Spec => []OnlyRequestsServed`, for any CRC and any parser behind
  the 'W'. If nobody else sends and the user waits, the daemon acts on no answer of its
  own, whatever is missed (`NotItsOwn`); and if no message is missed either, all that it
  acts on was sent as it is. The queue ends with the messages of the present attempt, and the
  decoder, if it is open once the first of these was read, holds what was read of them
  (`ArriveInv`); what lies before them, echoes or the start of an attempt that was given
  up, is reset by the START.

For texts as they were sent, none of these conditions can be left out: with two Flippers
sending at once, a user who retries into an answer, or messages missed, the decoder may
hold bytes of two bursts, and then only an 8-bit check byte keeps the mix out. The requests
of the run are such that it does not: without any one of the three, TLC finds a text acted
on there that nobody sent.

`WifiString_proofs` proves, for any alphabet, any lengths of names and passwords and any
buffers (`WifiAssumption` says only that lengths are numbers):

* `RoundTripHolds`: `Spec => []RoundTrip`.
* `BuiltWhenItFits`: `Spec => []BuiltIffFits`.

The loops of `wfr_escape_append` and `wfr_extract_field` are recursive functions over the
turns of the loop. That such a function exists (`LoopRuns`) and what it computes are
proved by induction from the least element of a set of numbers (`SetInduction`), which takes the place of
the library's induction theorems. `EscapeAppendIs` then says
that an escape appends each character, escaped if it has to be,
or leaves fewer than three bytes; in that case the next check of `wfr_build_wifi_string`
fails, so that nothing shortened is handed over (`BuildIs`). For parsing, every colon of
a name or password is behind a backslash (`EscapesGrow`, `ColonsOfEscaped`). The only colons that
are not are the five of the fixed parts, and before each stands a different letter:
so each key is found at one place only, its own (`KeyBehind`), and
`ValueIs` says that its value is read back to the ';' that ends it. `ParseInvertsBuild`
puts this together, without a state machine.

`Credentials_proofs` proves the same of `ScanSpec`, in which credentials may come from a
tag, and what they are then. Tags hold any number of networks with any bytes in name and
key, in any layout that `TagAssumption` allows, are read to any page, and a byte stands
for any character (`CharAssumption`):

* `OneNetworkIsNamed`: `ScanSpec => []FromOneNetwork`.
* `WholeTagIsAccepted`: `ScanSpec => []WholeTagAccepted`.
* `ScanRoundTrip` and `ScanBuiltWhenItFits`: `RoundTrip` and `BuiltIffFits` for `ScanSpec`.
* `ShortRecordsFit`: from any memory in which no record claims 2^31 bytes or more
  (`LengthsFit`), well formed or not, the parser fills the struct within its buffers, and
  its walks end.
* `CutShort`: of any such memory, the first bytes give what the whole gives or nothing. So a
  tag that was taken away too early costs a second try, and never gives half a network.

`WellFoundedRecursion` is the step that lets the three walks be proved about: a function
that is defined at each sequence by its values at shorter ones exists. With it
each walk is known as an equation (`AttributesIs`, `MessageIs`, `AreaIs`), and what it does is proved by
induction on the length. `CutShort` needs no more: `PrefixRead` is the same for the walks
as the module defines them, whose sums do not wrap, and `LengthsFit` is what makes them
those of the code. Reading back what was written goes from
the inside out: an attribute (`AttributeRead`), all attributes of a Credential in any order
(`ContentRead`, `Applied`), the Credentials of a payload in turn (`PayloadRead`), a record
(`RecordRead`), a message behind another record (`MessageRead`), a TLV (`TlvRead`), what
leads up to it (`LeadRead`), the area with whatever fills it up (`AreaRead`), and the pages
of the tag (`TagRead`). Where parts stand one behind the other `FlattenWalk` says that a
walk over all of them takes them one by one. The invariant of `ScanSpec` (`ScanInv`) then
has one line about tags: credentials that were accepted are what the message of the tag
gives (`InPayload`), and a tag read to its end is given up only if that has no name.
TLC checked `ScanInv` on the instance of `wifi_string` before it was proved.

Only model-checked:

* Every liveness property, and the fairness it rests on: out of the prover's reach.
* What the properties say of the instance's constants: that the tags of the run satisfy
  `TagLengthsFit`.

## 5. Not modelled

* CRC-32 (`wfr_protocol.c:48-120`): called by nothing.
* Drawing, animation, LEDs, logging; the text and quoting of shell commands; the
  command line; packaging, CI and the web page.
* Opening devices and asking them what they can do (`wfr_lirc.c`, `wfr_evdev.c`,
  `wfr_ack.c`): pure I/O, whose failure ends the daemon or leaves an answer out
  (`AnswerFails`).
* Lengths of 2^31 and more on a tag (section 2), and tags that name more than two
  networks in one run.
* `AckRound` has no kernel queue that overflows and no restart of the daemon; `IrLink` has
  both, for the way there.

## 6. Plan

Done, in this order: the link, its proofs and its refinement; CRC and WiFi string;
transmit scene; join and rollback, and its proof; scenes and storage; evdev input; NFC
tags; both directions in one system; the proofs about the transmit scene and about the
scenes; the proof that the link recovers; the proofs about both directions, about the
WiFi string, and about keys pressed ahead on the scenes; the proofs about CRC and
evdev input; the proofs about tags.

Every safety property that a passing run checks is stated by a theorem. What is left lies
outside of this project: the shell commands of `wfr_network.c` as the tools that run them
would take them, and times that are measured on the devices and not counted in messages.
