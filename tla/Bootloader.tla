----------------------------- MODULE Bootloader -----------------------------
(***************************************************************************)
(* A firmware transfer to the boot loader (project_bootloader.c main,      *)
(* FlashProg.c): packets over USB, a page buffer, and the user flash,      *)
(* which is erased and programmed a page at a time.                        *)
(*                                                                         *)
(* The unit is the packet of 32 bytes.  The n-th packet of image i is the  *)
(* value <<i, n>>; its offset n is a page and a place in the page, so that *)
(* firmwareFileOffSet / PAGE_SIZE and % PAGE_SIZE are its two fields.      *)
(*                                                                         *)
(* The host, which is not in the repository, sends a packet again when its *)
(* answer does not come and goes on from the offset that answers give; it  *)
(* may begin again, with another image, at any time.  Packets and answers  *)
(* are lost; the power is cut, also between the erasure and the programming*)
(* of a page.                                                              *)
(***************************************************************************)
EXTENDS FlashMem

CONSTANTS
  Image,        \* the images a host may send
  Size,         \* of each image, as an offset: a page and packets in it
  PagePackets,  \* packets in a page (1024 / 32)
  LastPage,     \* of the user flash
  Start, Done,  \* 0xA5A5A5A5 and 0x5A5A5A5A
  None,         \* no packet, no answer
  MaxLosses, MaxBegins

Page == 0 .. LastPage
Place == 0 .. PagePackets - 1
Offset == [page : Page, at : Place]
Zero == [page |-> 0, at |-> 0]
Before(o, p) == o.page < p.page \/ (o.page = p.page /\ o.at < p.at)
NextOffset(o) == IF o.at + 1 = PagePackets THEN [page |-> o.page + 1, at |-> 0]
                 ELSE [page |-> o.page, at |-> o.at + 1]

\* An image is longer than one packet, and ends before the user flash does.
ASSUME BootloaderAssumption ==
  /\ PagePackets \in Nat \ {0} /\ LastPage \in Nat
  /\ Size \in [Image -> Offset]
  /\ \A i \in Image : Before(NextOffset(Zero), Size[i])
  /\ {Start, Done, None} \intersect Offset = {} /\ Start # Done /\ None \notin {Start, Done}
  /\ {MaxLosses, MaxBegins} \subseteq Nat

VARIABLES
  mainStep,             \* where main is, application once it has started that,
                        \* unplugged when it waits in vain for one
  firmwareFileOffSet, firmwareFileSize,
  flashBuff, userFlash,
  usbRecv,              \* the packet in the endpoint
  usbSend,              \* the answer in the endpoint
  host, hostImage, hostOffset,
  brokenOff,            \* history: the power was cut since the transfer began
  losses, begins

deviceVars == <<mainStep, firmwareFileOffSet, firmwareFileSize, flashBuff, userFlash>>
hostVars == <<host, hostImage, hostOffset, brokenOff>>
bootloaderVars == <<mainStep, firmwareFileOffSet, firmwareFileSize, flashBuff,
  userFlash, usbRecv, usbSend, host, hostImage, hostOffset, brokenOff, losses, cuts, begins>>
bounds == <<losses, cuts, begins>>

\* The buffer is all 0 after a reset; nothing here tells that from blank.
EmptyPage == [n \in Place |-> Blank]

BootloaderInit ==
  /\ mainStep = "receive"
  /\ firmwareFileOffSet = Zero
  /\ firmwareFileSize = Zero
  /\ flashBuff = EmptyPage
  /\ userFlash = [p \in Page |-> EmptyPage]
  /\ usbRecv = None /\ usbSend = None
  /\ host = "idle" /\ hostImage \in Image /\ hostOffset = Zero
  /\ brokenOff = FALSE
  /\ losses = 0 /\ cuts = 0 /\ begins = 0

-----------------------------------------------------------------------------
\* The boot loader.

\* The start packet: begin at 0, whatever went before.
StartPacket ==
  /\ mainStep = "receive" /\ usbRecv # None /\ usbRecv.number = Start
  /\ firmwareFileOffSet' = Zero
  /\ firmwareFileSize' = Size[usbRecv.image]
  /\ usbRecv' = None
  /\ usbSend' = Start
  /\ UNCHANGED <<mainStep, flashBuff, userFlash, hostVars, bounds>>

\* Mutants: every packet is taken for the next one; one that is not the next
\* one is not answered.
DataPacketUnchecked ==
  /\ mainStep = "receive" /\ usbRecv # None /\ usbRecv.number # Start
  /\ LET next == NextOffset(firmwareFileOffSet)
     IN  /\ flashBuff' = [flashBuff EXCEPT ![firmwareFileOffSet.at] =
                            <<usbRecv.image, usbRecv.number>>]
         /\ firmwareFileOffSet' = next
         /\ mainStep' = IF next.at = 0 \/ ~Before(next, firmwareFileSize)
                        THEN "erase" ELSE "answer"
  /\ usbRecv' = None
  /\ UNCHANGED <<firmwareFileSize, userFlash, usbSend, hostVars, bounds>>

DataPacketDropped ==
  /\ mainStep = "receive" /\ usbRecv # None /\ usbRecv.number # Start
  /\ IF usbRecv.number = firmwareFileOffSet
     THEN LET next == NextOffset(firmwareFileOffSet)
          IN  /\ flashBuff' = [flashBuff EXCEPT ![firmwareFileOffSet.at] =
                                 <<usbRecv.image, usbRecv.number>>]
              /\ firmwareFileOffSet' = next
              /\ mainStep' = IF next.at = 0 \/ ~Before(next, firmwareFileSize)
                             THEN "erase" ELSE "answer"
     ELSE UNCHANGED <<mainStep, flashBuff, firmwareFileOffSet>>
  /\ usbRecv' = None
  /\ UNCHANGED <<firmwareFileSize, userFlash, usbSend, hostVars, bounds>>

\* A data packet is taken when it is the next one.
DataPacket ==
  /\ mainStep = "receive" /\ usbRecv # None /\ usbRecv.number # Start
  /\ IF usbRecv.number = firmwareFileOffSet
     THEN LET next == NextOffset(firmwareFileOffSet)
          IN  /\ flashBuff' = [flashBuff EXCEPT ![firmwareFileOffSet.at] =
                                 <<usbRecv.image, usbRecv.number>>]
              /\ firmwareFileOffSet' = next
              /\ mainStep' = IF next.at = 0 \/ ~Before(next, firmwareFileSize)
                             THEN "erase" ELSE "answer"
     ELSE mainStep' = "answer" /\ UNCHANGED <<flashBuff, firmwareFileOffSet>>
  /\ usbRecv' = None
  /\ UNCHANGED <<firmwareFileSize, userFlash, usbSend, hostVars, bounds>>

\* The page the buffer belongs to: the one just filled, or the last one.
BufferPage == IF firmwareFileOffSet.at = 0 THEN firmwareFileOffSet.page - 1
              ELSE firmwareFileOffSet.page

myFMC_Erase ==
  /\ mainStep = "erase"
  /\ userFlash' = [userFlash EXCEPT ![BufferPage] = EmptyPage]
  /\ mainStep' = "program"
  /\ UNCHANGED <<firmwareFileOffSet, firmwareFileSize, flashBuff, usbRecv, usbSend,
                 hostVars, bounds>>

FMC_ProgramPage ==
  /\ mainStep = "program"
  /\ userFlash' = [userFlash EXCEPT ![BufferPage] = flashBuff]
  /\ flashBuff' = IF firmwareFileOffSet.at = 0 THEN EmptyPage ELSE flashBuff
  /\ mainStep' = "answer"
  /\ UNCHANGED <<firmwareFileOffSet, firmwareFileSize, usbRecv, usbSend, hostVars, bounds>>

\* The answer to a data packet: the next offset, or that all are in.
Answer ==
  /\ mainStep = "answer"
  /\ IF Before(firmwareFileOffSet, firmwareFileSize)
     THEN usbSend' = firmwareFileOffSet /\ UNCHANGED firmwareFileOffSet
     ELSE usbSend' = Done /\ firmwareFileOffSet' = Zero
  /\ mainStep' = "receive"
  /\ UNCHANGED <<firmwareFileSize, flashBuff, userFlash, usbRecv, hostVars, bounds>>

\* A reset, by the keys or by a failure to erase or program, or the power is
\* cut: of a page being programmed, the first n packets are in.
Reset ==
  /\ cuts < MaxCuts
  /\ cuts' = cuts + 1
  /\ \E n \in 0 .. PagePackets :
       userFlash' = IF mainStep = "program"
                    THEN [userFlash EXCEPT ![BufferPage] =
                            [m \in Place |-> IF m < n THEN flashBuff[m] ELSE Blank]]
                    ELSE userFlash
  /\ mainStep' \in IF userFlash'[0][0] # Blank THEN {"receive", "application"} ELSE {"receive"}
  /\ firmwareFileOffSet' = Zero
  /\ firmwareFileSize' = Zero
  /\ flashBuff' = EmptyPage
  /\ usbRecv' = None /\ usbSend' = None
  /\ brokenOff' = TRUE
  /\ UNCHANGED <<host, hostImage, hostOffset, losses, begins>>

\* The host asks for the application.
execute_user_code ==
  /\ mainStep = "receive" /\ userFlash[0][0] # Blank
  /\ host \in {"idle", "done"}
  /\ mainStep' = "application"
  /\ UNCHANGED <<firmwareFileOffSet, firmwareFileSize, flashBuff, userFlash, usbRecv,
                 usbSend, hostVars, bounds>>

\* The cable is pulled: whatever is in the flash is started.
CablePulled ==
  /\ cuts < MaxCuts
  /\ cuts' = cuts + 1
  /\ mainStep = "receive"
  /\ mainStep' = IF userFlash[0][0] # Blank THEN "application" ELSE "unplugged"
  /\ UNCHANGED <<firmwareFileOffSet, firmwareFileSize, flashBuff, userFlash, usbRecv,
                 usbSend, hostVars, losses, begins>>

MainLoop == StartPacket \/ DataPacket \/ myFMC_Erase \/ FMC_ProgramPage \/ Answer

-----------------------------------------------------------------------------
\* The host and the cable.

\* A transfer begins on a port opened afresh, with nothing in it.
HostBegins ==
  /\ begins < MaxBegins
  /\ begins' = begins + 1
  /\ host' = "starting"
  /\ hostImage' \in Image
  /\ hostOffset' = Zero
  /\ brokenOff' = FALSE
  /\ usbRecv' = None /\ usbSend' = None
  /\ UNCHANGED <<deviceVars, losses, cuts>>

\* The start packet or the next data packet, for the first time or again.
HostSends ==
  /\ usbRecv = None /\ host \in {"starting", "sending"}
  /\ usbRecv' = [image |-> hostImage,
                 number |-> IF host = "starting" THEN Start ELSE hostOffset]
  /\ UNCHANGED <<deviceVars, usbSend, hostVars, bounds>>

HostReceives ==
  /\ usbSend # None
  /\ host' = CASE host = "starting" /\ usbSend = Start -> "sending"
               [] host = "sending" /\ usbSend = Done -> "done"
               [] OTHER -> host
  /\ hostOffset' = IF host = "sending" /\ usbSend \notin {Start, Done} THEN usbSend
                   ELSE hostOffset
  /\ usbSend' = None
  /\ UNCHANGED <<deviceVars, usbRecv, hostImage, brokenOff, bounds>>

Lose ==
  /\ losses < MaxLosses
  /\ losses' = losses + 1
  /\ \/ usbRecv # None /\ usbRecv' = None /\ UNCHANGED usbSend
     \/ usbSend # None /\ usbSend' = None /\ UNCHANGED usbRecv
  /\ UNCHANGED <<deviceVars, hostVars, cuts, begins>>

BootloaderNext ==
  \/ MainLoop \/ Reset \/ execute_user_code \/ CablePulled
  \/ HostBegins \/ HostSends \/ HostReceives \/ Lose

BootloaderSpec == BootloaderInit /\ [][BootloaderNext]_bootloaderVars

\* The loop goes on while the boot loader runs, and a host that has begun
\* goes on too.  Its timeout is not for ever so short that it sends the last
\* packet again before it has read that all is in: the answer to that is
\* offset 0, and everything is sent once more.
BootloaderFairness ==
  /\ WF_bootloaderVars(MainLoop)
  /\ WF_bootloaderVars(HostSends)
  /\ WF_bootloaderVars(HostReceives)
  /\ SF_bootloaderVars(HostReceives /\ usbSend = Done)

-----------------------------------------------------------------------------
\* Every packet of i is in its place.
Programmed(i) ==
  \A p \in Page, n \in Place :
    LET o == [page |-> p, at |-> n]
    IN  Before(o, Size[i]) => userFlash[p][n] = <<i, o>>

\* A host that has been told that all is in has its image in the flash, every
\* packet of it and in its place, however often packets were repeated and
\* whatever an earlier transfer left behind.  Only a reset undoes this: the
\* boot loader has forgotten the transfer and answers the next data packet,
\* whatever its offset, that all is in.
DoneMeansProgrammed == host = "done" /\ ~brokenOff => Programmed(hostImage)

\* A transfer comes to its end, unless it begins again or the boot loader is
\* left for the application.
TransferEnds ==
  host \in {"starting", "sending"} ~> host = "done" \/ mainStep \in {"application", "unplugged"}
=============================================================================
