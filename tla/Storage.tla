------------------------------ MODULE Storage ------------------------------
(***************************************************************************)
(* The files that the Flipper app keeps on its SD card                     *)
(* (flipper/wfr_storage.c): one file per saved network, named after the    *)
(* SSID, and one for the settings.  A directory is a function from the     *)
(* names in it to the credentials each file loads as: one, or none when    *)
(* writing it failed half-way.                                             *)
(***************************************************************************)
EXTENDS SequencesExt

CONSTANTS
  Alphanumeric,   \* the characters of an SSID that are letters and digits
  FatCase,        \* the case the FAT of the card (external) compares each of them in
  SavedMax        \* WFR_SAVED_MAX

ASSUME StorageAssumption ==
  SavedMax \in Nat \ {0} /\ FatCase \in [Alphanumeric -> Alphanumeric]

\* Mutant of SafeName: letters and digits are replaced too.
SafeNameCoarse(ssid) ==
  IF ssid = <<>> THEN <<"_">>
  ELSE [i \in DOMAIN ssid |-> IF ssid[i] \in {"-", "_"} THEN ssid[i] ELSE "_"]

\* sanitize_for_filename: what is neither kept nor a letter or digit becomes an
\* underscore.  Names that differ in case alone are of one file.
SafeName(ssid) ==
  IF ssid = <<>> THEN <<"_">>
  ELSE [i \in DOMAIN ssid |->
          CASE ssid[i] \in Alphanumeric -> FatCase[ssid[i]]
            [] ssid[i] \in {"-", "_"} -> ssid[i]
            [] OTHER -> "_"]

\* wfr_storage_save replaces the file of that name, whoever's it was, and
\* opens it before it writes: a save that fails leaves everything as it was, a
\* file that does not load, or one that misses only the last, optional, key.
Write(dir, creds, loads) ==
  LET file == SafeName(creds.ssid)
  IN  IF creds.ssid = <<>> THEN dir
      ELSE [name \in DOMAIN dir \cup {file} |-> IF name = file THEN loads ELSE dir[name]]
Save(dir, creds) == Write(dir, creds, {creds})
FailedSaves(dir, creds) ==
  {dir} \cup {Write(dir, creds, loads) : loads \in {{}, {[creds EXCEPT !.hidden = FALSE]}}}

\* wfr_storage_load
Loads(dir, name) == IF name \in DOMAIN dir THEN dir[name] ELSE {}

\* wfr_storage_list: the files that load, in an order that is the same as long
\* as the directory is, as many as there is room for.
List(dir) ==
  LET loadable == {name \in DOMAIN dir : dir[name] # {}}
      rows == SetToSeq({[file |-> name, ssid |-> (CHOOSE c \in dir[name] : TRUE).ssid] :
                          name \in loadable})
  IN  SubSeq(rows, 1, Min({SavedMax, Len(rows)}))

\* wfr_storage_delete, when it can
Delete(dir, name) == [other \in DOMAIN dir \ {name} |-> dir[other]]

-----------------------------------------------------------------------------
(* The settings file holds the keys that were written to it.               *)

DefaultSettings == [WaitForACK |-> "Off", IrProtocol |-> "RC-6"]

\* wfr_storage_load_settings changes only what the file tells.
LoadSettings(file) ==
  [key \in DOMAIN DefaultSettings |->
     IF key \in DOMAIN file THEN file[key] ELSE DefaultSettings[key]]

\* wfr_storage_save_settings, when the file does not open, or when a write fails:
\* the keys before it are there.
FailedSettings(file, settings) == {file, <<>>, [WaitForACK |-> settings.WaitForACK]}
=============================================================================
