# The AMPM personal tracker in TLA+

Specifications, model checks and proofs for the firmware of the AMPM GT1022
personal tracker (`src/firmware/source/src`, C, Kinetis KL25): a device worn by
people who work or live alone, which places an emergency call and sends messages
when its SOS key is pressed or an alarm expires.

Paths below are relative to `src/firmware/source/src`; `pm/` abbreviates
`projects/project_main/`.

- [1. The system](#1-the-system)
- [2. The modules and the code](#2-the-modules-and-the-code)
- [3. The runs](#3-the-runs)
- [4. The proofs](#4-the-proofs)
- [5. What the runs found](#5-what-the-runs-found)
- [6. What is not modelled](#6-what-is-not-modelled)

## 1. The system

### How it runs

There is no operating system. `AppRun` (`pm/project_main.c:628`) loops over tasks,
each a state machine whose function is called once a turn and runs to completion:

    ModemCmd_Task  ->  Gsm_Task (no call, modem idle)  ->  Sos_Task  ->  Io_Task
      ->  VoiceCall_Task  ->  Sms_Task  ->  Gprs_Task
      ->  (SOS over) check for incoming messages  ->  sleep

Only interrupts preempt it: UART1 receives the modem's characters into ring buffers
and runs the unsolicited result codes (`pm/at_command_parser.c`); a low-power timer
runs `LPTimerTask` four times a second (keys, alarms, ring detection). Tasks talk by
calling each other's functions, which read a phase or set a request flag, and by
global variables. A few functions block in nested loops (`MODEM_SendCommand`,
`SmsTask_Pause`).

### Components

| component | state | operations | what makes it correct |
|---|---|---|---|
| ring buffer (`Libraries/common_lib/ringbuff`) | `head`, `tail`, array | `RINGBUF_Put` in the interrupt, `RINGBUF_Get` in the loop | a bounded FIFO, whatever is interrupted |
| AT command engine (`gsm_modem/modem.c`) | the command, its phase, retries | `SendCmd`, `SetWait`, `Cancel`, `ModemCmd_Task` | one command at a time, each answer to the one who asked |
| voice call task (`pm/io_tasks.c:377-1023`) | phase, `startCall`, `answerCall`, `endCall`, the number | `StartCall`, `AnswerCall`, `EndCall`, `ClearCallAction`, ... , `VoiceCall_Task` | requests neither lost nor contradicted; dialing, answering and hanging up come to an end; no call is left up |
| SOS task (`pm/sos_tasks.c`) | phase, index of the number, retries, `sosAction` | `SosTask_Start`, `SosTask_End`, `Sos_Task` in three modes | every configured number is tried, only those; it ends; cancelled means cancelled |
| SMS task (`pm/io_tasks.c:1025-1510`) | queue of recipients, counts of failures, text, phase, flags of messages wanted | the functions that fill, stop and pause it, `Sms_Task` | the right text to every recipient, none passed over, no message holds up a call |
| key and power task (`pm/io_tasks.c:149-375`) | key flags, `pwrStatus` | power on and off, cancel, SOS key, alarms | a key acts on the state of the moment it is handled |
| GSM registration (`pm/gsm_gprs_tasks.c`) | phase, retries | `Gsm_Task` | comes back after every reset of the modem |
| result codes (`pm/at_command_parser.c`) | `incomingCall`, call reports, +CLIP, +CREG, +CMT | handlers in the receive interrupt | a report is for the call under way |
| tick and alarms (`drivers/tick/tick.c`) | counters and warning flags of three alarms, ring detection, timeouts | `LPTimerTask`, `InitTimeout`, `CheckTimeout` | an alarm not acknowledged becomes an SOS, an acknowledged one does not |
| keys (`drivers/tick/tick.c:588-695`) | status and time of the two keys, the gestures not taken up | `KeyTask_Control`, `Keys_Init` | a gesture is made of the presses it belongs to and waits for the loop |
| waking up (`pm/project_main.c:134-298, 658-720`) | the ring pin's flags, the message flag, the modem's messages | `PORTD_IRQHandler`, the SMS check, `SysSleep` | a message is taken from the modem, also when it arrives while the device falls asleep |
| flash log (`pm/db.c`, `flash_mem/sst25.c`) | ring of records in serial flash, the saved head and tail; variables kept over a reset | `DB_SaveDataLog`, `DB_LoadDataLogTail`, `DB_InitLog`, `DB_U32Save`, `DB_U32Load` | what was saved is found after a reset at any point, and no save harms another's |
| configuration (`pm/system_config.c`, `pm/dbg_cfg_app.c`) | `sysCfg` and its copy in flash | `CFG_Save`, `CFG_Load`, uploads, commands | a configuration that was saved is read back, whole |
| bootloader (`projects/project_bootloader`) | the image, its offset, a page | receive, erase, program, start | a transfer that is acknowledged is in the flash, whatever was lost |
| GPRS, upload, download | phases | - | never run: `GprsTask_StartTask` returns at its first line |
| audio, DTMF, GPS, tracker, RTC, pedometer, power management, debug shell, drivers | - | - | inputs or outputs of the above |

### What is hard here

- *Tasks share one modem without owning it.* A task looks whether the command engine
  is idle, or does not, and some turns later looks at a result that may be the result
  of another task's command.
- *Requests are flags.* The one who sets a flag and the one who consumes it run in
  different turns; in between a key is pressed, a call comes in, the SOS ends.
- *Phases are read across tasks.* The SOS judges by the voice task's phase whether the
  call it asked for is the one that is up.
- *Messages are replaced, stopped and paused half-way*, by the SOS and by the voice
  task; what is wanted next is kept in flags that outlive the SOS that set them.
- *Interrupts* come between any two accesses of the loop.
- *Retries and timeouts* everywhere, counted in variables reset in other places.

`PROJECT.json` lists the hazards one by one, at their lines, with the properties that
would catch each going wrong, or the reason why there is none.

## 2. The modules and the code

    ByteFifo     <-- refines --  RingBuf
    CallService  <-- refines --  VoiceCall        voice task, modem, interrupts
         ^
         +------ EXTENDS -------  SosTask         SOS and keys, clients of the service
                                     |
    Emergency    <-- refines --------+            the SOS as the messages see it
         ^
         +------ EXTENDS -------  SmsTask         messages, with Emergency around them

    Keys, Wakeup, Registration         -- EXTENDED by --  MCModem
    RingBuf, Alarms                    -- EXTENDED by --  MCUnit
    FlashMem  <-- EXTENDS -- Bootloader, U32Store, TrackerLog, Config  <-- --  MCUnit

    RingBufProofs, CallServiceProofs, VoiceCallProofs, SosTaskProofs, SmsTaskProofs,
    TickModemProofs (Alarms, Keys, Wakeup, Registration), SerialFlashProofs (U32Store, TrackerLog),
    FlashProofs (Bootloader, Config)

**`RingBuf`** has one step per access of `RINGBUF_Get` to the shared fields (`pc`:
compare, read, `tail++`, wrap) and one step for `RINGBUF_Put`, which the loop cannot
preempt. `Burst` bounds how many characters arrive between `tail++` and the wrap.
**`ByteFifo`** is what callers believe: a bounded queue.

**`CallService`** is what the voice task promises its clients: the phase they see,
the requests they make - these are the code's functions, taken as they are by the
other modules - and an abstract step of the task: which phase may follow which, and
which request it consumes.

**`VoiceCall`** is the task itself, an operator per phase of `VoiceCall_Task`, with all
that reaches the same modem: `ModemCmd_Task` (`SEND`, `WAIT`, the answers), `Gsm_Task`,
`Sms_Task`, the clients, and the result codes that arrive by interrupt before the voice
task or the modem task runs. `line` is the telephone line as the network sees it; it lets
properties compare what the task believes with what is the case. Timers, whose values
nothing reads, are free choices: expired or not. A constant `Traffic` says who else is
active. `ModemCmd_Task` is modelled as its users need it: the text of a command is what
it does to the line.

**`SosTask`** composes `Sos_Task` and `Io_Task` with the abstract voice task of
`CallService` (not with `VoiceCall`: the refinement makes that sound for safety, and
keeps the product small). `pc` goes round `sos`, `io` (power key), `keys` (SOS key,
alarms), `voice` and, when the SOS is over, `sms`, where a message may change the
configuration: mode and numbers. These are the steps of the `Loop`; between any two of them
an `Upload` over USB (opcode 0x0D, `pm/dbg_cfg_app.c:438-444`, in the interrupt) may overwrite mode and
numbers, also in the middle of an SOS. `uploaded` is a history: whether that has happened in this
SOS since it last chose a number. The three modes share the phases up to `SOS_INIT`; after it each has
its own, under the code's names, and a mode has no case for another's (`CasesOf`). An upload
of the shorter list can leave `nextNumberIndex` behind its end; the search for a number
(`pm/sos_tasks.c:353-389`), which stops when it is back at its start, then has no end if the list is empty:
`pc` is `spin`, and all tasks wait, until an upload brings a number.

**`Emergency`** is the SOS as `Sms_Task` sees it: how far it is (the phases that dial or wait
for a call are one, `CALLING`), whether the voice task is idle, in a call or busy, and whether
the mode is `FAMILY_VER2`. Its steps are a turn of `Sos_Task`, the keys, a turn of the voice
task, and a change of the mode, by a message or by an upload at any time. `SosTask` is shown to implement it
(`ImplementsEmergency`), with `SosSeen` and `VoiceSeen` as the mapping: `SOS_CHECK` is the start
of an SOS when `sosStart` is set, and else the choice of the next number, part of `CALLING`.

**`SmsTask`** has `Sms_Task` phase by phase, its queue (`number`, `tryNum`, `offset`) and
the flags. It takes the steps of the other tasks from `Emergency` and adds what they do to the
messages: the phases of the SOS that start, stop or wait for one, `SosTask_Start` and
`SosTask_End` (which reset the flags), the voice task's pauses. The text is its kind, a
recipient is a slot that holds a contact or the white-list number. As `SosTask` implements
`Emergency`, what holds of the messages beside `Emergency` holds beside the SOS and the voice
task of the code. A received message may change the mode with SOS, call and messages over
(`pm/project_main.c:658-684`), an upload at any time. The numbers are copied when a message
begins; which there are then is open, as an upload may have written them at any time before.

**`Alarms`** has the second of `LPTimerTask` as one step of an interrupt, and round it the
steps of the main loop between which it may come: the power key, `SosTask_Reset` before and
after it withdraws the warnings, also as every turn in a call makes it, `SosTask_End`, the keys
and the emergency in `Io_Task`, the turn of `Sos_Task`. `silent` is a history: for how many seconds nobody has given a sign of life.

**`Wakeup`** follows a message from the pulse of the ring pin until the modem no longer has it: the
detection that takes two pulses for a call and one for a message, `AppRun`'s SMS check with
`SMS_Manage` in its steps, and `SysSleep`, whose steps an arrival may fall between. The modem's
listing comes in part within the 2 s that `SMS_Manage` waits, in part later or never; `AT+CMGR` is answered
within its 3 s or not; `AT+CMGD` follows in any case. The other
tasks are one flag, `busy`.

**`Keys`** is one turn of `KeyTask_Control` for every combination of the keys, and `Io_Task`
as it takes gestures up. Two histories, how long each key was held and for how long both
are up, let the properties say what a gesture means without the code's variables.

**`Registration`** has the command engine of `modem.c` and every phase of `Gsm_Task` that
anything enters, with a modem that answers late or never, or dies, and the other tasks'
commands in between: those of calls and messages go through the engine (`OthersSend`), those of the
SMS check and the clock pass it by and count no time-outs (`OthersBypass`). Phases of the same shape share an operator (`SendsOnOk`, ...). Of the answers
that `ModemCmd_Task` reads in one turn the last one decides, and every error before it uses up
a retry (`WaitAnswers`). `accepted` and
`mixed` are histories of the modem's side.

**`Bootloader`** is a transfer: the host, packets and answers on USB with their losses, the
page buffer, the flash, the cut of the power between erasure and programming.
**`U32Store`** has `DB_U32Save` write by write, with the neighbour's sector behind the last
record. **`TrackerLog`** is the ring of records and the sector in which its head and tail
are recorded. **`Config`** is `sysCfg` in RAM and in flash, with uploads packet by packet
in the interrupt and fields set in the main loop. **`FlashMem`** declares what the four have in
common: blank, torn, the count of power cuts.

`MCModem` and `MCUnit` check components that share no state in one run: the initial state
chooses the component, the others rest. A behaviour of the run is a behaviour of one of them,
and the fairness is that component's own.

The operators that stand for code carry the code's names where there is one; `map` in
`PROJECT.json` gives file and lines for each. Operators whose comment begins with
"Mutant" are plausible slips of the operator that follows them; each property is violated
when one of them takes its place, so each says something about the code.

## 3. The runs

| run | states | what it asks |
|---|---|---|
| `ringbuf_burst` | *violation* | With two characters received between `tail++` and the wrap, the content of the buffer disappears. |
| `voice_call` | 4.7 M | With every other user of the modem active, the task keeps to `CallService`; at most one request is pending and none contradicts the phase. |
| `voice_call_settles` | 0.76 M | Dialing, with a retry, answering and hanging up come to an end. |
| `voice_call_phantom` | *violation* | Is the OK taken for the dial's the dial's? |
| `voice_call_abandon` | *violation* | Is a call ended by `EndCall` hung up? |
| `sos` | 411 k | With uploads at any moment: are the numbers handed to the voice task configured ones, and is none passed over? Does an SOS leave no request to dial, and do its attempts end? Is it to the messages what `Emergency` says? |
| `sos_right_number` | *violation* | Is the call taken for answered the one to the number the SOS is at? |
| `sos_ver1_stuck` | *violation* | Does an SOS whose calls fail end? |
| `sms` | 1.1 M | Recipients, texts and counts match through every replacement, stop and pause; nobody is passed over; the cancellation comes last; messages hold up no call for ever; what is wanted at the end is sent. |
| `modem` | 262 k | Is a gesture of the keys made of its own presses, and is it there when the loop comes? Is every message taken from the modem? Does the registration come to coverage or start over, with a modem configured as it should be? Is a dead modem turned on again, as long as calls or messages are tried? |
| `modem_unread` | *violation* | Has a message that is deleted been read? |
| `unit` | 284 k | With the interrupt anywhere in `RINGBUF_Get`, but at most one character between `tail++` and the wrap, is the ring a FIFO, and does `Put` refuse only when it is full? Does an alarm need the whole silence, is it never later, and does it become an SOS? Is what was saved found after power cuts between any two writes (variables, log, configuration)? Is an image that is acknowledged programmed, and does a transfer end? |

None takes more than four minutes on two workers. Deadlock is checked in all of them but
`unit`: the loop never ends. In `unit` a component stops when it has used up its bounds
(the saves of the log, the changes of the configuration), and a boot loader that has started
the application has nothing more to do.

### Bounds, and why they are enough

- *Ring buffer:* 4 slots hold 3 bytes: empty, full, and both sides of the wrap occur,
  with the reader anywhere. Two byte values tell positions apart. The proofs are for every
  size.
- *Retries* (3, 3 and 5 in the voice task, 6, 4 and 2 in the SOS, 2 and 2 in the SMS task)
  are 0 or 1: with 1 a retry happens, is counted, and is exhausted. Nothing compares a
  count with anything but its limit. The safety properties are proved for every value.
  The runs of `VoiceCall` retry the dial only, to keep the number of states down;
  `CallSettles` was also checked with `MaxHangUpRetry = 1` (1.3 M states, four minutes).
- *Numbers:* one telephone number, two where the property is about confusing them. `Places` says which
  places of the list are filled together: none, the third, or the first two, so that there are an empty
  list, a gap, a wrap, and a number that only the longer list of a mode has.
- *Uploads:* `UploadMode` is `CALL_CENTER` alone: the mode with the shorter list, whose upload can leave
  `nextNumberIndex` behind it, and which has no case for the phases of either other mode. Any of the
  lists comes with it, any number of times. The same properties were also checked with uploads
  of `FAMILY_VER1` (531 k states) and of `FAMILY_VER2` (757 k). The proofs are for every mode.
- *Traffic:* `voice_call` has all of it; the runs with temporal or violated properties have
  what their question needs.
- *Messages:* a queue of 3 with no contact, one behind gaps or two, the white-list number in slot 0.
  The walk round the queue makes one step more than there are slots, as in the code
  (7 for 6). `NobodyIsForgotten` is proved for every length.
- *Keys:* 4, 8 and 12 turns of 250 ms are the code's own limits; nothing is scaled.
- *Waking up:* a window of 2 seconds instead of 5, with its opening, its running and its last
  second; a missed call after 1 second without a pulse instead of 5. Two messages: one under
  way, one within its window or while the list is read. One pulse of a call.
- *Registration:* one retry per command (3 in the code), one attempt to register (15) and a
  restart of the modem after the first timeout (after 10); one command unanswered at a time,
  which is enough for an answer to be taken for the next command's; one call, which closes
  `Gsm_Task`'s gate at any phase.
- *Alarms:* one alarm has an interval of 1, the others 0, with a countdown of 0: every branch of
  the count occurs within three seconds. The two configurations turn on disjoint sets of
  alarms, so that a change stops some and starts others. One press of the SOS key or one call.
  The power key, movement, the charger and new configurations are not bounded. The proofs are
  for every interval and countdown.
- *Boot loader:* two images of three and two packets, pages of two: a full last page and one in
  part. One loss, two begun transfers, two cuts.
- *Variables:* two, with three records each: the last record, the turn to the first and the
  neighbour's sector occur. `MaxCuts` is 2: a second cut meets what the first has left.
- *Log:* 12 cells, records of 3 and sectors of 4 cells: records begin anywhere in a sector, cross
  into the next and come round the ring; 2 ring records, so that their sector starts over.
  Five saves: the ring of four records is filled and overwrites its oldest.
- *Configuration:* 3 cells and the checksum on two pages; 3 changes: two uploads with a message
  between their packets.
- `SmsMode` bounds between which modes a message changes the configuration (a bound on the
  number of states only).

### Fairness, and why the code justifies it

- `WF` on the loop: every task function returns, `while(1)` calls the next one. Uploads are under no
  fairness: a host may come or not.
- `SF` on a task's leaving a phase that it can leave again and again: such phases are left
  when a timer has expired, and a timer that is not restarted expires. A step that stays
  in the phase is a turn in which it has not.
- `SF` on `ModemCmd_Task`: a command is answered or its retries run out.
- `SF` on the voice task's leaving its transient phases, in `SosTask`: this is `CallSettles`,
  which `voice_call_settles` checks of the detailed task. The second conjunct there
  says that a sequence of transient phases ends; it is the same property.
- In `SmsTask` the same includes that coverage returns for long enough: `SMS_CHECK` waits
  for it without a timeout (`pm/io_tasks.c:1260`). Without that assumption, messages do
  hold up the call - as the network would.
- `Registration`: `WF` on the loop's tasks, `SF` on the phases that wait for a timer, as above. The
  modem owes nothing, nor do the other tasks. What restarts a dead modem is the count of time-outs in
  `ModemCmdTask_SendCmd`'s engine, and only calls and messages go through it: that they go on being
  tried is the premise of `DeadModemIsRestarted` (`OthersKeepSending`). The SMS check and the clock, which
  an idle device does go on with, use `COMM_Puts` and `MODEM_SendCommand` and count nothing.
- `Wakeup`: `WF` on the interrupt, the loop and the end of what keeps other tasks busy; `SF` on the
  five-minute check, whose timer runs while the device is awake, and on the modem's listing a message
  within the 2 s and obeying a delete if it is asked again and again; `WF` on the end of a sleep: the
  wearer presses a key or charges the device. A message whose flag was cleared unread is
  found only then.
- `Alarms`: `WF` on the loop and on the end of a call, `SF` on the end of an SOS, which is
  `SosComesToRest` of `sos`.
- `Bootloader`: `WF` on its loop and on a host that has begun a transfer; `SF` on the host's reading
  the last answer: its timeout is not for ever so short that it repeats the last packet first,
  as the answer to that one is offset 0 and everything is sent once more.
- The premises in the properties themselves, calls that stop getting through and configurations no longer
  uploaded in an SOS (`SosComesToRest`), calls that stop being set up (`CallsCease`), are about people, hosts
  and the network; the code cannot bound them.

## 4. The proofs

All theorems hold for every value of the constants that their named assumptions admit
(`SizeAssumption`, `VoiceCallAssumption`, `AlarmAssumption`, ...: types, sizes above zero and
in their order, and model values that differ); the two that also need
`Burst <= 1` say so in their statement, and `ringbuf_burst` shows why.

| theorem | in | states |
|---|---|---|
| `RingBufTyped`, `GetIsSafe`, `RefusedOnlyWhenFull` | `RingBufProofs` | ranges; the reader's window is right under any bursts; a `Put` is refused only by a full buffer |
| `PutLosesNothing`, `RingBufIsFifo` | `RingBufProofs` | with `Burst <= 1` nothing is lost; `RingBuf` refines `ByteFifo` |
| `ServiceKeepsRequests` | `CallServiceProofs` | at most one request, and none that contradicts the phase |
| `VoiceCallImplementsService` | `VoiceCallProofs` | the task with modem, interrupts and retries refines `CallService` |
| `NeverTwoRequests`, `DialNotContradicted`, `VoiceCallTyped` | `VoiceCallProofs` | carried over by the refinement; ranges |
| `CallRunsDown` | `VoiceCallProofs` | dialing, answering and hanging up cannot go round: every step settles the call, waits, or takes a stage, a retry or a command of it |
| `SosInvariant`, `SosTyped`, `SosKeepsRequests` | `SosTaskProofs` | the inductive invariant of the SOS and what follows at once |
| `SosCallsConfigured`, `SosClearsRequests` | `SosTaskProofs` | until an upload overwrites it, the number chosen is a configured one; an SOS leaves no request to dial, but for the exceptions named there |
| `SosImplementsEmergency` | `SosTaskProofs` | `SosTask` refines `Emergency`, on which `SmsTask` builds |
| `SosRunsDown` | `SosTaskProofs` | with no call up, every step of an SOS, of whatever task, waits or takes an attempt, a phase or a message of it, unless it changes the configuration |
| `SmsInvariant`, `SmsTyped`, `RightMessage`, `ServedAreInQueue`, `CountsStartFresh`, `CancellationIsLast`, `NobodyIsForgotten` | `SmsTaskProofs` | the invariant of the messages and its consequences |
| `MessageRunsOut` | `SmsTaskProofs` | until a message is done no turn gives a recipient an attempt back, and every result takes one |
| `AlarmInvariant`, `AlarmsAreNotLate`, `AlarmsNeedSilence` | `TickModemProofs` | an alarm goes off after its interval and warning of silence, not before and not later |
| `KeysInvariant`, `GesturesAreTold`, `GesturesWait` | `TickModemProofs` | a gesture is made of exactly the presses since both keys were up, and waits for the main loop |
| `LonePulseIsNoCall` | `TickModemProofs` | a single pulse of the ring pin is never taken for a call |
| `CoverageInvariant`, `CoverageIsConfigured` | `TickModemProofs` | coverage means a modem configured as it should be, unless an answer was taken for another command's |
| `U32Invariant`, `SavedVariablesSurvive`, `OverrunOnlyAfterTornLast` | `SerialFlashProofs` | variables survive a cut of the power at any step of a save; when a save can harm a neighbour |
| `LogInvariant`, `RingRecordsSurvive` | `SerialFlashProofs` | a reset finds the log's head and tail as last recorded or as being recorded |
| `LogDataInvariant`, `LogStaysIntact` | `SerialFlashProofs` | the records between tail and head are the ones saved last, whole and in order, for every size of record and sector |
| `BootloaderInvariant`, `DoneIsProgrammed` | `FlashProofs` | an image that is acknowledged is in the flash, for every size of image and page |
| `ConfigInvariant`, `ConfigurationSurvives` | `FlashProofs` | a reset at any step of `CFG_Save` loads a configuration that somebody made |

### The arguments

*Ring buffer.* `GetWindow` is inductive together with the type invariant: while the reader
has found the buffer not empty, `Put`s only move `head` away from `tail`. The refinement maps
the queue to the slots from `First` on - `tail`, except between the read and the wrap,
when the slot that has been read is no longer part of it - and the work is in showing what
one `Put` and one `Get` do to that sequence (`Contents`).

*Call service.* `CallInv` joins the types with `OneRequest` and `DialHasNoRequest`. The second
is what makes the refinement go through: a dial repeated by the task's retry would be a step
that the service does not have, if somebody had asked to end the call in the meantime;
`EndCall` in those phases does not leave a request but ends the phase. So the invariant is
needed first, then every operator of `VoiceCall` is shown to be a step of the service or a
stutter, one lemma step per phase, and `OneRequest` comes back for the detailed task by
refinement instead of a second proof.

*SOS.* `CallsConfigured` is not inductive: whether the number was looked at depends on the
mode and on whether the SOS has just been started. `SosInv` adds which phases belong to which
modes, that a fresh start is seen before anything else happens, and that the number chosen is
still configured. The first and the last hold as long as nothing was uploaded since the choice
(`uploaded`), so they are claimed with that exception only: an upload in the middle of an SOS does leave it in
a phase of another mode, or with an empty number to dial. What is claimed without it is what brings
the SOS back: `SosCheck` looks at the list anew, so that the exception ends with the next choice.
`SosLeavesNoRequest` then follows from which phases may have a number waiting to be dialed (`PendingInv`).
It is about the request: a dial that the voice task has already begun goes on when the SOS ends. The two
exceptions, which the property names, are a power cycle, and an SOS in which something was uploaded, which may find
its list empty with a number still waiting.

*The SOS and the messages.* Every action of `SosTask` is a step of `Emergency` under the mapping, or not
seen; an upload is a change of the mode there. From `SosInv` comes that `sosStart` is set in `SOS_CHECK`
at most, so that the step back to `SOS_CHECK` after a failed call is not the start of an SOS; from the cases of
the mode, that a call given up half-way, and the message that somebody responded, belong to `FAMILY_VER2`, whatever
was uploaded. From `CallService` comes which phase can become `IN_CALLING` in one step.

*Messages.* `QueueInv` joins what a message is with who is in the queue and says that the slot
being served is not empty (`ServesARecipient`): without it `FreshCount` is not inductive, as a
failure would be counted for a slot with no recipient. All requests replace recipients, counts
and text together (`SendTo`), which is why one lemma covers every caller. `LooksEverywhere` is
the arithmetic of the walk: from any `offset`, `SMS_MAX_NUMBER + 1` looks reach every slot.

*What runs down.* Three theorems prove the part of the liveness properties that does not need fairness: that no
task can go round for ever, for every number of retries and recipients. Each names counts in `Nat` and says of
every step that they fall in lexicographic order, or that nothing moves. For a call these are the
stages, the retries of the stage and the commands up to the next retry (`CallRunsDown`, of the detailed
task with modem, interrupts and clients): a counter that is reset is one of a stage that is
left. For the SOS they are the dials or the attempts of `FAMILY_VER2`, the phases up to the next
attempt, and the messages (`SosRunsDown`); a call that is up is the exception, as the code
lets people talk as long as they like. For a message it is each recipient's attempts
(`MessageRunsOut`), and `ServesARecipient` gives that a result is always a recipient's.

*Alarms.* Neither property of the alarms is inductive: the code knows its counters, not the
silence. `AddsUp` joins them: while an alarm warns, what is left of the countdown and the silence
make up its patience; before, what is left of the interval and the silence make up the
interval; and a reset flag that is set, or an alarm that does not count, starts over from
`Fresh`. One lemma (`SecondCounts`) says what a second does to one alarm; every other step
leaves an alarm alone or starts it over (`StartsOver`). It is the reset flags' being set before
the counters are touched, and read in the same step as the counters, that makes it hold
between the accesses of the main loop.

*Keys.* The properties speak of how long each press really was, the code of its own times and flags.
`KeyInv` says that they agree (`PressKept`): while a key is held its time is that of its press; while it is
up and the other is held, its last press is remembered by its length, or forgotten. That flags raised
before are gone as soon as a key is held, or a press has made no gesture, and that the key that came up
last has been up for as long as both, is what `GestureWaits` needs. `TurnOfKeys` says once what a turn
of the interrupt does to a key; `PressesAreTold` is then a comparison of lengths.

*Ring detection.* `PulseInv`: with one message and no ring, there is at most the pulse or the window it opened,
never both, so that the window closes without a second pulse.

*Registration.* `CoverageMeansConfigured` speaks of the end of a chain of a dozen phases. `Required` gives for
each phase what the modem must have accepted before, `Awaited` the command whose result a phase goes by.
`OkIsOwn` joins them with the engine: a result that stands, and an OK that is still in the receive buffer,
are the command's own, and the modem accepted it. All is claimed as long as no answer was taken for another
command's (`mixed`), which is the code's own weakness and the property's exception. The engine, the
interrupt and the other tasks keep the claim alone (`EngineKeeps`), `Gsm_Task` phase by phase (`GsmKeeps`).

*Variables.* What a load finds is the last good record (`Finds`), and the cursor stands behind it. `Survives`
says of the variable being saved, step by step, which record is blank, torn or new; `NoOverrun`
says that a cursor behind the last record needs a torn one. Everything is claimed as long as no
record was written behind the last; that this needs a torn last record is the separate
conjunct `overrun => tornLast`. `LastRecordStays` is the heart: a write at the cursor leaves the last good record
where it is.

*Log.* `RingSurvives` is inductive with the types and `RingCursorBehind`: no good ring record lies behind the
cursor, so that one written at it is the newest. A reset takes the last good one, which exists
because a set of slots has a last (`LastOfSlots`, from the well-foundedness of the naturals). What happens
to the data leaves the ring records alone.

*The log's data.* `LogIsIntact` speaks of the moments between saves. While a record is written, three claims carry it:
the records from the tail to the head are whole (`RecordsWhole`); from the head to the end of its sector
all is blank, or the head begins a sector, which is erased when it is written (`BlankAhead`); and the sector
the record runs into is blank, with the tail out of it (`SectorReady`). The one exception is a ring all of
whose records begin in one sector: the save that erases it leaves the log empty until it is done
(`Empties`). Which cells belong to a record, and which sector to a cell, is division and remainder, which the
solver does not do by itself: a group of lemmas says what it needs (a cell lies in one record; a record
that begins in a sector ends in it or the next one).

*Boot loader.* Host and boot loader are at most a packet apart (`InStep`): which packet may be under way,
and which answer, follows from the two offsets. `Placed` puts every packet the boot loader has
gone past in its page, or in the buffer while that fills; `Complete` and `Finished` say what an
answer that all is in, and a host that has read it, imply. A start packet of another transfer
ends the claims of the old one, a reset sets `brokenOff`.

*Configuration.* `RamIsMeant` says how far an upload has come into RAM, `FlashIsMeant` how far `CFG_Save` has come in
the flash. The checksum goes last, so a copy erased or written in part does not match; this is
all the model takes from the sum, and its comment says why blank bytes do not deceive it.

### Only model-checked

- The liveness properties, as fairness is outside what the prover handles: `CallSettles`, `SosComesToRest`,
  `EveryNumberTried`, `MessagesHoldNoCall`, `PendingIsSent`, `EmergencyStartsSos`, `TransferEnds`,
  `MessageIsTaken`, `RegistrationNeverHangs`, `DeadModemIsRestarted`. Of `CallSettles`, `SosComesToRest` and
  `MessagesHoldNoCall` the provers do have the half that is safety (*What runs down*); that a step which
  can be taken is taken stays with TLC.
- The six violations.

Every invariant and every action property of the runs is stated by a theorem.

## 5. What the runs found

1. **`ringbuf_burst`**: the wrap of `tail` is not atomic. `RINGBUF_Get` leaves `tail = size`
   for a moment; two characters received in it turn a full buffer into an empty one. The
   comment at `ringbuf.c:68` says the test "should be atomic operation".
2. **`voice_call_phantom`**: `START_CALL` ignores whether the command engine took the `ATD`. If
   another command was under way its OK is taken for the dial's: the device believes in a call
   nobody placed.
3. **`voice_call_abandon`**: `EndCall` pressed a second time, while the first is hanging up, skips
   the `ATH` that is still to be sent or repeated; the call stays up.
4. **`sos_right_number`**: after 20 s the SOS moves on to the next number although the voice task
   is still dialing the last one; `StartCall` is ignored, and the call that comes up is taken
   for the next number's.
5. **`sos_ver1_stuck`**: in `FAMILY_VER1` the last failure leads to a phase of another mode, for which
   the switch of this one has no case. The SOS stays there, with the SOS key and the alarms
   disabled, until the power key is pressed.

6. **`modem_unread`**: `SMS_Manage` says "read the newly received SMS" and "delete just received SMS"
   (`pm/at_command_parser.c:922`, `938`), but deletes a message also when its `AT+CMGR` was not answered in
   3 s, and looks only then whether it was: the message, and the command in it, is lost.

`findings` in `PROJECT.json` quotes the lines.

### Behaviours met while modelling

They contradict nothing the repository says, so no run calls them violations; the properties
name them as their exceptions, or the hazards list them.

- An SOS cancelled before its first message is still told of; the retry of the SOS message drops
  the contacts not yet served; a call requested before a power cycle is dialed after it.
- A dial that the voice task has begun outlives its SOS: when the last number's 20 s are over the SOS ends,
  and `ATD` is still sent or repeated. Only the request is taken back (`SosLeavesNoRequest`).
- An upload over USB is not kept out of an SOS. It can leave the SOS in a phase for which the new mode has no
  case (`AtRest`), hand an empty number to `StartCall`, which ignores it (`CallsConfigured`), leave a request to
  dial behind (`SosLeavesNoRequest`), or, with `CALL_CENTER`, no number and `nextNumberIndex = 2`, keep
  the search for a number, and with it all tasks, going for ever (`SosComesToRest`).
- A warning acknowledged in the second it expires has still raised `initEmergencyCall`: an SOS of no
  kind starts, and nobody is told of its end.
- SOS pressed and, within 250 ms of its release, power: the SOS press is forgotten. Power and then
  SOS: a combination (`PressesAreTold`).
- The flag of a new message is cleared after `SMS_Manage`, also for one that arrived while that ran.
  If its pulse has been timed before, only the five-minute check finds it, and so it is with one that the modem
  lists later than 2 s after `AT+CMGL` (`MessageIsTaken`).
- In `MODEM_SYS_COVERAGE_OK` with no call and no message to send nothing counts time-outs: a modem that dies is
  not turned on again until somebody calls or a message is due (`DeadModemIsRestarted`).
- A power cut that tears the last record of a kept variable lets the next save write behind it, and
  erase the next variable's sector (`OverrunNeedsTornLast`).
- The first change of the log after a reset writes its ring record over the newest one; a reset
  before the next change finds an older head and tail (`RingSurvives`).
- Half an upload becomes permanent when a message or the IMEI saves the configuration between
  its packets (`ConfigSurvives`).
- A boot loader that was reset has forgotten the transfer and answers the next data packet that all
  is in (`DoneMeansProgrammed`).
- `Gsm_Task` takes the result of whatever command was last for its own: after a late answer, coverage does
  not mean a configured modem (`CoverageMeansConfigured`).

## 6. What is not modelled

- *GPRS, upload and download*: dead code in this build, as `GprsTask_StartTask` returns at its first line.
  `MODEM_WAIT_INIT_COMM` of `Gsm_Task` and `DB_LoadDataInfo` are not reached either.
- *Third-party code*: FatFs with its code tables, the USB stack, uIP, PPP, the vendor's headers. It is most of
  the lines under `src/`, and none of the program's own logic; its effects on the modules above are
  marked external.
- *Register-level drivers, signal processing* (DTMF, pedometer, angles, NMEA), *texts and prompts, LEDs,
  calendar*: no state another task decides by, or an input of a module that chooses it freely.
- *Timeouts* are free choices everywhere: expired or not whenever they are looked at. That covers the wrap
  of `CheckTimeout`, which comes out a tick short, and leaves out properties about durations; only the
  keys, the alarms and the ring detection, which count turns and seconds themselves, have times.
- *The mileage and the count of resets* (`pm/db.c:133-212`): a load puts their cursor on the last record
  instead of behind it. Both are saved only once after a load and only at record 0, so it has no effect.
- *The mode byte* of an upload is one of the three modes; a value that is none has no case in `Sos_Task` at
  all.
- *The order of an upload's packets*: `Config` lets them come in order, as the configuration tool sends them. The
  device writes whatever offset a packet names and has no notion of an upload that is whole, so that what a host meant
  by packets left out cannot be said. `SosTask` asks nothing of the order. The factory reset over USB (opcode 0xFD)
  writes the configuration and resets the device.
- *Torn records* of the kept variables are told from good ones. Their checksum is a sum of one byte
  (`pm/db.c:245-246`), which a half-programmed record may happen to meet.
- *Blocking commands* of the modem are modelled by what they leave behind, *the text of messages and
  commands* by what they change.

Further work, where it would add most: one command engine that `Registration` and `VoiceCall` are both
shown to use as it is.
