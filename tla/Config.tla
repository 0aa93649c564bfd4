------------------------------- MODULE Config -------------------------------
(***************************************************************************)
(* The configuration sysCfg (system_config.c: CFG_Load, CFG_Save): what is *)
(* in RAM, which an upload over USB changes packet by packet in the timer  *)
(* interrupt (dbg_cfg_app.c, opcode 0x0D), a message or READ_IMEI field by *)
(* field in the main loop (at_command_parser.c, gsm_gprs_tasks.c); and its *)
(* copy in the flash, which CFG_Save erases and writes with the interrupts *)
(* off, the checksum last.                                                 *)
(*                                                                         *)
(* A configuration is a row of cells, what one packet, one field or one    *)
(* write covers, each with the number of the change it comes from, 0 for   *)
(* the default; the checksum is the configuration it was computed of.  It  *)
(* tells a copy erased or written in part, as blank bytes only add to it.  *)
(* CFG_Load always saves again: it sets alarmCountdownTime.                *)
(*                                                                         *)
(* The code writes a packet at whatever offset it carries, and saves with  *)
(* the one that reaches the end.  The host is taken to send an upload from *)
(* its beginning to its end, or to give it up and begin another: what a    *)
(* host that skips packets means to save, nothing in the device says.      *)
(***************************************************************************)
EXTENDS FlashMem

CONSTANTS
  LastCell,     \* cells of sysCfg, without the checksum: 0 .. LastCell
  PageCells,    \* cells in a page of the flash
  MaxChanges    \* bound on the uploads, messages and IMEIs

Cfg == 0 .. LastCell
Crc == LastCell + 1      \* the cell of the checksum
LastCfgPage == Crc \div PageCells
Default == [c \in Cfg |-> 0]

ASSUME ConfigAssumption ==
  /\ LastCell \in Nat /\ PageCells \in Nat \ {0} /\ MaxChanges \in Nat
  /\ Blank \notin [Cfg -> Nat \union {Blank}]

VARIABLES
  sysCfg,
  cfgFlash,     \* the cells and the checksum
  cfgStep,      \* what CFG_Save does, or idle
  cfgAt,        \* the page or cell it has come to
  cfgMain,      \* what the main loop will do: nothing, save, load or boot
  upload,       \* the number of the upload the host is at
  uploadAt,     \* the next cell it sends
  uploadOpen,   \* history: sysCfg holds some cells of an upload and not all
  intended,     \* history: sysCfg as the changes that are complete have made it
  loadable,     \* history: what a reset may find
  overlapped,   \* history: a save or a load came between packets of an upload
  changes

cfgRam == <<sysCfg, cfgMain, upload, uploadAt, uploadOpen>>
cfgVars == <<sysCfg, cfgFlash, cfgStep, cfgAt, cfgMain, upload, uploadAt,
             uploadOpen, intended, loadable, overlapped, changes, cuts>>

ConfigInit ==
  /\ sysCfg = Default
  /\ cfgFlash = [c \in 0 .. Crc |-> IF c = Crc THEN Default ELSE 0]
  /\ cfgStep = "idle" /\ cfgAt = 0
  /\ cfgMain = "nothing"
  /\ upload = 0 /\ uploadAt = 0 /\ uploadOpen = FALSE
  /\ intended = Default /\ loadable = {Default} /\ overlapped = FALSE
  /\ changes = 0 /\ cuts = 0

\* What CFG_Load makes of a copy in the flash.
Loads(f) == IF f[Crc] = [c \in Cfg |-> f[c]] THEN f[Crc] ELSE Default

-----------------------------------------------------------------------------
\* CFG_Save of c, which is to be m.
CFG_Save_Begin(c, m) ==
  /\ cfgStep' = "erase" /\ cfgAt' = 0
  /\ sysCfg' = c
  /\ intended' = m
  /\ loadable' = loadable \union {m, Default}

Erase ==
  /\ cfgStep = "erase"
  /\ cfgFlash' = [c \in DOMAIN cfgFlash |-> IF c \div PageCells = cfgAt THEN Blank
                                            ELSE cfgFlash[c]]
  /\ IF cfgAt < LastCfgPage THEN cfgAt' = cfgAt + 1 /\ UNCHANGED cfgStep
     ELSE cfgAt' = 0 /\ cfgStep' = "program"
  /\ UNCHANGED <<cfgRam, intended, loadable, overlapped, changes, cuts>>

Program ==
  /\ cfgStep = "program"
  /\ cfgFlash' = [cfgFlash EXCEPT ![cfgAt] = IF cfgAt = Crc THEN sysCfg ELSE sysCfg[cfgAt]]
  /\ IF cfgAt < Crc THEN cfgAt' = cfgAt + 1 /\ UNCHANGED <<cfgStep, loadable>>
     ELSE cfgAt' = 0 /\ cfgStep' = "idle" /\ loadable' = {intended}
  /\ UNCHANGED <<cfgRam, intended, overlapped, changes, cuts>>

-----------------------------------------------------------------------------
\* The upload, in the interrupt.

\* The host begins one; another may be under way.
UploadStarts ==
  /\ cfgMain # "boot" /\ changes < MaxChanges
  /\ changes' = changes + 1
  /\ upload' = changes'
  /\ uploadAt' = 0
  /\ UNCHANGED <<sysCfg, cfgFlash, cfgStep, cfgAt, cfgMain, uploadOpen, intended,
                 loadable, overlapped, cuts>>

\* Mutant: every packet is saved.
UploadPacketSaved ==
  /\ cfgStep = "idle" /\ upload # 0
  /\ CFG_Save_Begin([sysCfg EXCEPT ![uploadAt] = upload],
                    IF uploadAt < LastCell THEN intended ELSE [n \in Cfg |-> upload])
  /\ overlapped' = (overlapped \/ cfgMain = "save")
  /\ uploadOpen' = (uploadAt < LastCell)
  /\ uploadAt' = IF uploadAt < LastCell THEN uploadAt + 1 ELSE 0
  /\ upload' = IF uploadAt < LastCell THEN upload ELSE 0
  /\ UNCHANGED <<cfgFlash, cfgMain, changes, cuts>>

\* A packet goes into sysCfg at once; with the last one all of it is saved.
UploadPacket ==
  /\ cfgStep = "idle" /\ upload # 0
  /\ LET c == [sysCfg EXCEPT ![uploadAt] = upload]
     IN  IF uploadAt < LastCell
         THEN /\ sysCfg' = c /\ uploadAt' = uploadAt + 1 /\ uploadOpen' = TRUE
              /\ UNCHANGED <<upload, cfgStep, cfgAt, intended, loadable, overlapped>>
         ELSE /\ CFG_Save_Begin(c, [n \in Cfg |-> upload])
              /\ overlapped' = (overlapped \/ cfgMain = "save")
              /\ upload' = 0 /\ uploadAt' = 0 /\ uploadOpen' = FALSE
  /\ UNCHANGED <<cfgFlash, cfgMain, changes, cuts>>

\* Opcode 0xFD: the defaults are saved and the device reset.
UploadDefaults ==
  /\ cfgStep = "idle" /\ cfgMain # "boot" /\ changes < MaxChanges
  /\ changes' = changes + 1
  /\ CFG_Save_Begin(Default, Default)
  /\ cfgMain' = "boot"
  /\ upload' = 0 /\ uploadAt' = 0 /\ uploadOpen' = FALSE
  /\ UNCHANGED <<cfgFlash, overlapped, cuts>>

-----------------------------------------------------------------------------
\* The main loop.

\* A field of a message's command, or the IMEI; a message may have several.
SetField ==
  /\ cfgStep = "idle" /\ cfgMain \in {"nothing", "save"} /\ changes < MaxChanges
  /\ changes' = changes + 1
  /\ \E c \in Cfg :
       /\ sysCfg' = [sysCfg EXCEPT ![c] = changes']
       /\ intended' = [intended EXCEPT ![c] = changes']
  /\ cfgMain' = "save"
  /\ UNCHANGED <<cfgFlash, cfgStep, cfgAt, upload, uploadAt, uploadOpen, loadable,
                 overlapped, cuts>>

SaveFields ==
  /\ cfgStep = "idle" /\ cfgMain = "save"
  /\ CFG_Save_Begin(sysCfg, intended)
  /\ overlapped' = (overlapped \/ uploadOpen)
  /\ cfgMain' = "nothing"
  /\ UNCHANGED <<cfgFlash, upload, uploadAt, uploadOpen, changes, cuts>>

\* ABCFG,13: the defaults are saved, with the interrupts off, and loaded; but
\* CFG_Save turns them on in between.
SetDefaults ==
  /\ cfgStep = "idle" /\ cfgMain = "nothing" /\ changes < MaxChanges
  /\ changes' = changes + 1
  /\ CFG_Save_Begin(Default, Default)
  /\ overlapped' = (overlapped \/ uploadOpen)
  /\ cfgMain' = "load"
  /\ UNCHANGED <<cfgFlash, upload, uploadAt, uploadOpen, cuts>>

\* Also the first thing after a reset, when nothing is uploaded yet.
CFG_Load ==
  /\ cfgStep = "idle" /\ cfgMain \in {"load", "boot"}
  /\ LET c == Loads(cfgFlash) IN CFG_Save_Begin(c, c)
  /\ overlapped' = (overlapped \/ uploadOpen)
  /\ cfgMain' = "nothing"
  /\ UNCHANGED <<cfgFlash, upload, uploadAt, uploadOpen, changes, cuts>>

\* The power is cut, or an erasure or a write fails and CFG_Save resets.
CfgPowerCut ==
  /\ cuts < MaxCuts
  /\ cuts' = cuts + 1
  /\ cfgStep' = "idle" /\ cfgAt' = 0
  /\ cfgMain' = "boot"
  /\ upload' = 0 /\ uploadAt' = 0 /\ uploadOpen' = FALSE
  /\ UNCHANGED <<sysCfg, cfgFlash, intended, loadable, overlapped, changes>>

ConfigNext ==
  \/ Erase \/ Program
  \/ UploadStarts \/ UploadPacket \/ UploadDefaults
  \/ SetField \/ SaveFields \/ SetDefaults \/ CFG_Load
  \/ CfgPowerCut

ConfigSpec == ConfigInit /\ [][ConfigNext]_cfgVars

-----------------------------------------------------------------------------
\* A reset at any moment loads the configuration as the uploads, messages and
\* commands that were complete have made it; when it comes in a CFG_Save, the
\* one being saved or the defaults; and never half of an upload, unless
\* another save or load came between the packets of it.
ConfigSurvives == ~overlapped => Loads(cfgFlash) \in loadable
=============================================================================
