----------------------------- MODULE FlashProofs -----------------------------
(***************************************************************************)
(* The internal flash, which is erased and programmed in place: what a     *)
(* host that was told "done" finds there (Bootloader), and which           *)
(* configuration a reset loads (Config); for any sizes and any number of   *)
(* losses, repetitions and power cuts.                                     *)
(***************************************************************************)
EXTENDS Bootloader, Config, TLAPS

-----------------------------------------------------------------------------
\* The boot loader.

Busy == {"erase", "program"}
Answers == {Start, Done, None}
Packets == [image : Image, number : Offset \union {Start}]

BootTypeOK ==
  /\ mainStep \in {"receive", "answer", "application", "unplugged"} \union Busy
  /\ firmwareFileOffSet \in Offset /\ firmwareFileSize \in Offset
  /\ DOMAIN flashBuff = Place
  /\ DOMAIN userFlash = Page /\ \A p \in Page : DOMAIN userFlash[p] = Place
  /\ usbRecv \in Packets \union {None} /\ usbSend \in Offset \union Answers
  /\ host \in {"idle", "starting", "sending", "done"}
  /\ hostImage \in Image /\ hostOffset \in Offset
  /\ brokenOff \in BOOLEAN
  /\ usbRecv # None => usbRecv.image = hostImage
  /\ mainStep \notin Busy \union {"answer"} =>
       firmwareFileOffSet = Zero \/ Before(firmwareFileOffSet, firmwareFileSize)

\* A host that starts has sent nothing but start packets.
Beginning ==
  host = "starting" =>
    /\ hostOffset = Zero
    /\ usbRecv # None => usbRecv.number = Start
    /\ usbSend = Start => /\ mainStep \notin Busy \union {"answer"}
                          /\ firmwareFileOffSet = Zero
                          /\ firmwareFileSize = Size[hostImage]

\* Boot loader and host are at the same packet, or one of them one behind.
InStep ==
  /\ firmwareFileSize = Size[hostImage]
  /\ ~Before(firmwareFileSize, firmwareFileOffSet)
  /\ firmwareFileOffSet # Zero =>
       hostOffset = firmwareFileOffSet \/ NextOffset(hostOffset) = firmwareFileOffSet
  /\ usbRecv # None /\ usbRecv.number # Start =>
       /\ usbRecv.number = firmwareFileOffSet => hostOffset = firmwareFileOffSet
       /\ firmwareFileOffSet # Zero => \/ usbRecv.number = firmwareFileOffSet
                                       \/ NextOffset(usbRecv.number) = firmwareFileOffSet
  /\ usbSend \in Offset => usbSend \in {firmwareFileOffSet, hostOffset}

\* Packets that are in are in the flash up to the page being filled, and from
\* there on in the buffer.
Filling == IF mainStep \in Busy THEN BufferPage ELSE firmwareFileOffSet.page
Placed ==
  \A u \in Offset : Before(u, firmwareFileOffSet) =>
    /\ u.page < Filling => userFlash[u.page][u.at] = <<hostImage, u>>
    /\ u.page = Filling => flashBuff[u.at] = <<hostImage, u>>

Complete ==
  mainStep = "answer" /\ ~Before(firmwareFileOffSet, firmwareFileSize) => Programmed(hostImage)

\* Once all is in, nothing is accepted that would be written again.
Finished ==
  usbSend = Done \/ host = "done" =>
    /\ Programmed(hostImage)
    /\ mainStep \notin Busy /\ firmwareFileOffSet = Zero
    /\ hostOffset # Zero
    /\ usbRecv # None => usbRecv.number # Zero

Sound == InStep /\ Placed /\ Complete /\ Finished

BootInv ==
  /\ BootTypeOK
  /\ Beginning
  /\ ~brokenOff /\ host \in {"sending", "done"} => Sound

\* Offsets are counted through without a gap.
LEMMA Offsets ==
  /\ Zero \in Offset
  /\ \A o \in Offset : ~Before(o, Zero) /\ ~Before(o, o) /\ NextOffset(o) # Zero
  /\ \A o, p \in Offset :
       /\ Before(o, p) => NextOffset(o) \in Offset /\ ~Before(p, NextOffset(o))
       /\ ~Before(o, p) /\ ~Before(p, o) => o = p
       /\ Before(p, NextOffset(o)) => Before(p, o) \/ p = o
<1> USE BootloaderAssumption
<1>1. Zero \in Offset
  BY DEF Zero, Offset, Page, Place
<1>2. ASSUME NEW o \in Offset PROVE ~Before(o, Zero) /\ ~Before(o, o) /\ NextOffset(o) # Zero
  BY DEF Zero, Offset, Page, Place, Before, NextOffset
<1>3. ASSUME NEW o \in Offset, NEW p \in Offset, Before(o, p)
      PROVE NextOffset(o) \in Offset /\ ~Before(p, NextOffset(o))
  BY <1>3 DEF Offset, Page, Place, Before, NextOffset
<1>4. ASSUME NEW o \in Offset, NEW p \in Offset, ~Before(o, p), ~Before(p, o) PROVE o = p
  <2>1. o.page = p.page /\ o.at = p.at
    BY <1>4 DEF Offset, Page, Place, Before
  <2>2. o = [page |-> o.page, at |-> o.at] /\ p = [page |-> p.page, at |-> p.at]
    BY DEF Offset
  <2> QED BY <2>1, <2>2
<1>5. ASSUME NEW o \in Offset, NEW p \in Offset, Before(p, NextOffset(o))
      PROVE Before(p, o) \/ p = o
  <2>1. ~Before(o, p)
    BY <1>5 DEF Offset, Page, Place, Before, NextOffset
  <2> QED BY <2>1, <1>4
<1> QED BY <1>1, <1>2, <1>3, <1>4, <1>5

\* An image has more than one packet.
LEMMA Sizes ==
  \A i \in Image : /\ Size[i] \in Offset /\ Before(Zero, Size[i])
                   /\ Size[i] # Zero /\ Size[i] # NextOffset(Zero)
                   /\ NextOffset(Zero) \in Offset
<1> SUFFICES ASSUME NEW i \in Image
             PROVE  /\ Size[i] \in Offset /\ Before(Zero, Size[i])
                    /\ Size[i] # Zero /\ Size[i] # NextOffset(Zero)
                    /\ NextOffset(Zero) \in Offset
  OBVIOUS
<1>1. Size[i] \in Offset /\ Before(NextOffset(Zero), Size[i])
  BY BootloaderAssumption
<1>2. Before(Zero, Size[i])
  BY <1>1, BootloaderAssumption DEF Zero, Before, NextOffset, Offset, Page, Place
<1> QED BY <1>1, <1>2, Offsets

\* The page being filled: the offset moves through it.
LEMMA PageBeingFilled ==
  ASSUME NEW o \in Offset, NEW p \in Offset, o = NextOffset(p) 
  PROVE  (IF o.at = 0 THEN o.page - 1 ELSE o.page) = p.page
BY BootloaderAssumption DEF Offset, Page, Place, NextOffset

LEMMA BootStarts == BootloaderInit => BootInv
<1> SUFFICES ASSUME BootloaderInit PROVE BootInv
  OBVIOUS
<1>1. BootTypeOK
  BY BootloaderAssumption, Offsets DEF BootloaderInit, BootTypeOK, EmptyPage, Answers, Busy
<1>2. Beginning /\ ~(host \in {"sending", "done"})
  BY DEF BootloaderInit, Beginning
<1> QED BY <1>1, <1>2 DEF BootInv

-----------------------------------------------------------------------------
\* The steps of the boot loader.

\* What the endpoint and the answer may hold, for the steps below.
LEMMA Endpoints ==
  ASSUME BootTypeOK
  PROVE  /\ Start \notin Offset /\ Done \notin Offset /\ None \notin Offset
         /\ Start # Done /\ Start # None /\ Done # None
         /\ usbRecv # None => /\ usbRecv \in Packets /\ usbRecv.image = hostImage
                              /\ usbRecv.number \in Offset \union {Start}
         /\ Size[hostImage] \in Offset
<1>1. usbRecv # None => usbRecv \in Packets
  BY DEF BootTypeOK
<1>2. \A r \in Packets : r.number \in Offset \union {Start}
  BY DEF Packets
<1> QED BY <1>1, <1>2, BootloaderAssumption DEF BootTypeOK

LEMMA StartPacketKeeps ==
  ASSUME BootInv, StartPacket
  PROVE  BootInv'
<1> USE DEF StartPacket, hostVars, bounds
<1>1. BootTypeOK'
  BY Endpoints, Offsets DEF BootInv, BootTypeOK, Answers, Busy
<1>2. Beginning'
  BY Endpoints DEF BootInv, Beginning, Busy
<1>3. ASSUME Sound PROVE Sound'
  <2>1. InStep'
    BY Endpoints, Offsets DEF InStep, BootInv
  <2>2. Placed'
    BY Offsets DEF Placed
  <2>3. Complete' /\ Finished'
    BY <1>3, Endpoints DEF Complete, Finished, Busy, Programmed, Sound, BootInv
  <2> QED BY <2>1, <2>2, <2>3 DEF Sound
<1> QED BY <1>1, <1>2, <1>3 DEF BootInv

LEMMA DataPacketKeeps ==
  ASSUME BootInv, DataPacket
  PROVE  BootInv'
<1> DEFINE off == firmwareFileOffSet
           next == NextOffset(off)
<1>0. /\ mainStep = "receive" /\ usbRecv # None /\ usbRecv.number # Start /\ usbRecv' = None
      /\ UNCHANGED <<firmwareFileSize, userFlash, usbSend, host, hostImage, hostOffset, brokenOff>>
      /\ off \in Offset /\ firmwareFileSize \in Offset
  BY DEF DataPacket, hostVars, BootInv, BootTypeOK
<1>1. host # "starting"
  BY <1>0 DEF BootInv, Beginning
<1>2. CASE usbRecv.number # off
  <2>1. mainStep' = "answer" /\ UNCHANGED <<flashBuff, firmwareFileOffSet>>
    BY <1>2 DEF DataPacket
  <2>2. BootTypeOK'
    BY <1>0, <2>1 DEF BootInv, BootTypeOK, Answers, Busy
  <2>3. ASSUME Sound PROVE Sound'
    <3>1. InStep'
      BY <1>0, <2>1, <2>3 DEF Sound, InStep
    <3>2. Placed'
      BY <1>0, <2>1, <2>3 DEF Sound, Placed, Filling, Busy
    <3>3. off = Zero \/ Before(off, firmwareFileSize)
      BY <1>0 DEF BootInv, BootTypeOK, Busy
    <3>4. Complete'
      BY <1>0, <2>1, <2>3, <3>3, Sizes DEF Sound, InStep, Complete, BootInv, BootTypeOK
    <3>5. Finished'
      BY <1>0, <2>1, <2>3 DEF Sound, Finished, Busy, Programmed
    <3> QED BY <3>1, <3>2, <3>4, <3>5 DEF Sound
  <2> QED BY <1>0, <1>1, <2>2, <2>3 DEF BootInv, Beginning
<1>3. CASE usbRecv.number = off
  <2>1. /\ flashBuff' = [flashBuff EXCEPT ![off.at] = <<usbRecv.image, usbRecv.number>>]
        /\ firmwareFileOffSet' = next
        /\ mainStep' = IF next.at = 0 \/ ~Before(next, firmwareFileSize)
                       THEN "erase" ELSE "answer"
    BY <1>3 DEF DataPacket
  <2>2. off = Zero \/ Before(off, firmwareFileSize)
    BY <1>0 DEF BootInv, BootTypeOK, Busy
  <2>3. next \in Offset
    BY <1>0, <2>2, Offsets, Sizes DEF BootInv, BootTypeOK
  <2>4. BootTypeOK'
    BY <1>0, <2>1, <2>3 DEF BootInv, BootTypeOK, Answers, Busy
  <2>5. ASSUME Sound PROVE Sound'
    <3>1. Before(off, firmwareFileSize) /\ hostOffset = off
      BY <1>0, <1>3, <2>2, <2>5, Sizes DEF Sound, InStep, BootInv, BootTypeOK
    <3>2. InStep'
      BY <1>0, <2>1, <2>3, <2>5, <3>1, Offsets DEF Sound, InStep
    <3>3. Placed'
      <4>1. Filling' = off.page /\ Filling = off.page
        <5>1. Filling = off.page
          BY <1>0 DEF Filling, Busy
        <5>2. mainStep' = "erase" => Filling' = IF next.at = 0 THEN next.page - 1 ELSE next.page
          BY <2>1 DEF Filling, Busy, BufferPage
        <5>3. mainStep' # "erase" => Filling' = next.page /\ next.at # 0
          BY <2>1 DEF Filling, Busy
        <5> QED BY <1>0, <2>1, <2>3, <5>1, <5>2, <5>3, PageBeingFilled
      <4>2. ASSUME NEW u \in Offset, Before(u, next)
            PROVE  /\ u.page < off.page => userFlash[u.page][u.at] = <<hostImage, u>>
                   /\ u.page = off.page => flashBuff'[u.at] = <<hostImage, u>>
        <5>1. u.at \in Place /\ off.at \in Place /\ DOMAIN flashBuff = Place
          BY <1>0 DEF Offset, BootInv, BootTypeOK
        <5>2. CASE Before(u, off)
          <6>1. u.page = off.page => u.at # off.at
            BY <1>0, <5>2 DEF Before, Offset, Page, Place
          <6> QED BY <2>1, <2>5, <4>1, <5>1, <5>2, <6>1 DEF Sound, Placed
        <5>3. CASE u = off
          <6>1. flashBuff'[u.at] = <<hostImage, u>>
            BY <1>0, <1>3, <2>1, <5>1, <5>3 DEF BootInv, BootTypeOK
          <6>2. ~(u.page < off.page)
            BY <1>0, <5>3 DEF Offset, Page
          <6> QED BY <6>1, <6>2
        <5> QED BY <1>0, <4>2, <5>2, <5>3, Offsets
      <4> QED BY <1>0, <2>1, <4>1, <4>2 DEF Placed
    <3>4. Complete'
      BY <1>0, <2>1 DEF Complete
    <3>5. Finished'
      BY <1>0, <1>3, <2>5 DEF Sound, Finished
    <3> QED BY <3>2, <3>3, <3>4, <3>5 DEF Sound
  <2> QED BY <1>0, <1>1, <2>4, <2>5 DEF BootInv, Beginning
<1> QED BY <1>2, <1>3

LEMMA EraseKeeps ==
  ASSUME BootInv, myFMC_Erase
  PROVE  BootInv'
<1>0. /\ mainStep = "erase" /\ mainStep' = "program"
      /\ userFlash' = [userFlash EXCEPT ![BufferPage] = EmptyPage]
      /\ UNCHANGED <<firmwareFileOffSet, firmwareFileSize, flashBuff, usbRecv, usbSend,
                     host, hostImage, hostOffset, brokenOff>>
  BY DEF myFMC_Erase, hostVars
<1>1. BootTypeOK'
  BY <1>0 DEF BootInv, BootTypeOK, Answers, Busy, EmptyPage
<1>2. Beginning'
  BY <1>0 DEF BootInv, Beginning, Busy
<1>3. ASSUME Sound PROVE Sound'
  <2>1. InStep' /\ Complete' /\ Finished'
    BY <1>0, <1>3 DEF Sound, InStep, Complete, Finished, Busy
  <2>2. Filling' = BufferPage /\ Filling = BufferPage
    BY <1>0 DEF Filling, Busy, BufferPage
  <2>3. ASSUME NEW u \in Offset, u.page < BufferPage PROVE userFlash'[u.page] = userFlash[u.page]
    <3>1. u.page \in Page /\ u.page # BufferPage
      BY <2>3, BootloaderAssumption DEF Offset, Page, BufferPage, BootInv, BootTypeOK
    <3> QED BY <1>0, <3>1 DEF BootInv, BootTypeOK
  <2>4. Placed'
    BY <1>0, <1>3, <2>2, <2>3 DEF Sound, Placed
  <2> QED BY <2>1, <2>4 DEF Sound
<1> QED BY <1>0, <1>1, <1>2, <1>3 DEF BootInv

LEMMA ProgramPageKeeps ==
  ASSUME BootInv, FMC_ProgramPage
  PROVE  BootInv'
<1> DEFINE off == firmwareFileOffSet
<1>0. /\ mainStep = "program" /\ mainStep' = "answer"
      /\ userFlash' = [userFlash EXCEPT ![BufferPage] = flashBuff]
      /\ flashBuff' = IF off.at = 0 THEN EmptyPage ELSE flashBuff
      /\ UNCHANGED <<firmwareFileOffSet, firmwareFileSize, usbRecv, usbSend,
                     host, hostImage, hostOffset, brokenOff>>
      /\ off \in Offset /\ firmwareFileSize \in Offset
  BY DEF FMC_ProgramPage, hostVars, BootInv, BootTypeOK
<1>1. BootTypeOK'
  BY <1>0 DEF BootInv, BootTypeOK, Answers, Busy, EmptyPage
<1>2. Beginning'
  BY <1>0 DEF BootInv, Beginning, Busy
<1>3. ASSUME Sound PROVE Sound'
  <2>1. InStep' /\ Finished'
    BY <1>0, <1>3 DEF Sound, InStep, Finished, Busy
  <2>2. Filling' = off.page /\ Filling = BufferPage
    BY <1>0 DEF Filling, Busy
  <2>3. ASSUME NEW u \in Offset, Before(u, off)
        PROVE  /\ u.page <= BufferPage
               /\ userFlash'[u.page][u.at] = <<hostImage, u>>
               /\ u.page = off.page => off.at # 0
    <3>1. u.page <= BufferPage /\ u.page \in Page /\ (u.page = off.page => off.at # 0)
      BY <1>0, <2>3, BootloaderAssumption DEF Offset, Page, Place, Before, BufferPage
    <3>2. u.page < BufferPage \/ u.page = BufferPage
      BY <1>0, <3>1, BootloaderAssumption DEF Offset, Page, BufferPage
    <3>3. CASE u.page < BufferPage
      <4>1. u.page # BufferPage
        BY <1>0, <3>1, <3>3, BootloaderAssumption DEF Offset, Page, BufferPage
      <4>2. userFlash'[u.page] = userFlash[u.page]
        BY <1>0, <3>1, <4>1 DEF BootInv, BootTypeOK
      <4> QED BY <1>3, <2>2, <2>3, <3>1, <3>3, <4>2 DEF Sound, Placed
    <3>4. CASE u.page = BufferPage
      <4>1. userFlash'[u.page] = flashBuff
        BY <1>0, <3>1, <3>4 DEF BootInv, BootTypeOK
      <4> QED BY <1>3, <2>2, <2>3, <3>1, <3>4, <4>1 DEF Sound, Placed
    <3> QED BY <3>1, <3>2, <3>3, <3>4
  <2>4. Placed'
    <3>1. ASSUME NEW u \in Offset, Before(u, off)
          PROVE  /\ userFlash'[u.page][u.at] = <<hostImage, u>>
                 /\ u.page = off.page => flashBuff'[u.at] = <<hostImage, u>>
      <4>1. u.page = off.page => Filling = off.page /\ flashBuff' = flashBuff
        BY <1>0, <2>2, <2>3, <3>1 DEF BufferPage
      <4> QED BY <1>3, <2>3, <3>1, <4>1 DEF Sound, Placed
    <3> QED BY <1>0, <2>2, <3>1 DEF Placed
  <2>5. Complete'
    <3>1. ~Before(off, firmwareFileSize) => off = Size[hostImage]
      BY <1>0, <1>3, Offsets DEF Sound, InStep
    <3>2. \A p \in Page, n \in Place : [page |-> p, at |-> n] \in Offset
      BY DEF Offset
    <3> HIDE DEF off
    <3>3. off = Size[hostImage] => Programmed(hostImage)'
      <4> SUFFICES ASSUME off = Size[hostImage], NEW p \in Page, NEW n \in Place,
                          Before([page |-> p, at |-> n], off)
                   PROVE  userFlash'[p][n] = <<hostImage, [page |-> p, at |-> n]>>
        BY <1>0 DEF Programmed
      <4> QED BY <2>3, <3>2
    <3> QED BY <1>0, <3>1, <3>3 DEF Complete, off
  <2> QED BY <2>1, <2>4, <2>5 DEF Sound
<1> QED BY <1>0, <1>1, <1>2, <1>3 DEF BootInv

LEMMA AnswerKeeps ==
  ASSUME BootInv, Answer
  PROVE  BootInv'
<1> DEFINE off == firmwareFileOffSet
<1>0. /\ mainStep = "answer" /\ mainStep' = "receive"
      /\ UNCHANGED <<firmwareFileSize, flashBuff, userFlash, usbRecv, host, hostImage,
                     hostOffset, brokenOff>>
      /\ off \in Offset /\ firmwareFileSize \in Offset
  BY DEF Answer, hostVars, BootInv, BootTypeOK
<1>1. CASE Before(off, firmwareFileSize)
  <2>1. usbSend' = off /\ firmwareFileOffSet' = off
    BY <1>1 DEF Answer
  <2>2. BootTypeOK'
    BY <1>0, <1>1, <2>1 DEF BootInv, BootTypeOK, Answers, Busy
  <2>3. Beginning'
    BY <1>0, <2>1, Endpoints DEF BootInv, Beginning
  <2>4. ASSUME Sound PROVE Sound'
    <3>1. InStep' /\ Complete'
      BY <1>0, <2>1, <2>4 DEF Sound, InStep, Complete
    <3>2. Placed'
      BY <1>0, <2>1, <2>4 DEF Sound, Placed, Filling, Busy
    <3>3. Finished'
      BY <1>0, <2>1, <2>4, Endpoints DEF BootInv, Sound, Finished, Programmed, Busy
    <3> QED BY <3>1, <3>2, <3>3 DEF Sound
  <2> QED BY <1>0, <2>2, <2>3, <2>4 DEF BootInv
<1>2. CASE ~Before(off, firmwareFileSize)
  <2>1. usbSend' = Done /\ firmwareFileOffSet' = Zero
    BY <1>2 DEF Answer
  <2>2. BootTypeOK'
    BY <1>0, <2>1, Offsets DEF BootInv, BootTypeOK, Answers, Busy
  <2>3. Beginning'
    BY <1>0, <2>1, Endpoints DEF BootInv, Beginning
  <2>4. ASSUME Sound PROVE Sound'
    <3>1. off = Size[hostImage]
      BY <1>0, <1>2, <2>4, Offsets DEF Sound, InStep
    <3>2. hostOffset # Zero /\ (usbRecv # None => usbRecv.number # Zero)
      <4>1. off # Zero /\ off # NextOffset(Zero)
        BY <3>1, Sizes DEF BootInv, BootTypeOK
      <4> QED BY <2>4, <4>1, Endpoints, Offsets DEF BootInv, Sound, InStep
    <3>3. InStep'
      BY <1>0, <2>1, <2>4, <3>2, Offsets, Endpoints DEF BootInv, Sound, InStep
    <3>4. Placed' /\ Complete'
      BY <1>0, <2>1, Offsets DEF Placed, Complete
    <3>5. Finished'
      BY <1>0, <1>2, <2>1, <2>4, <3>2 DEF Sound, Complete, Finished, Programmed, Busy
    <3> QED BY <3>3, <3>4, <3>5 DEF Sound
  <2> QED BY <1>0, <2>2, <2>3, <2>4 DEF BootInv
<1> QED BY <1>1, <1>2

LEMMA ResetKeeps ==
  ASSUME BootInv, Reset
  PROVE  BootInv'
<1>1. PICK n \in 0 .. PagePackets :
        userFlash' = IF mainStep = "program"
                     THEN [userFlash EXCEPT ![BufferPage] =
                             [m \in Place |-> IF m < n THEN flashBuff[m] ELSE Blank]]
                     ELSE userFlash
  BY DEF Reset
<1>2. DOMAIN userFlash' = Page /\ \A p \in Page : DOMAIN userFlash'[p] = Place
  BY <1>1 DEF BootInv, BootTypeOK
<1>3. mainStep' \in {"receive", "application"} /\ firmwareFileOffSet' = Zero
      /\ firmwareFileSize' = Zero /\ flashBuff' = EmptyPage /\ usbRecv' = None /\ usbSend' = None
      /\ brokenOff' = TRUE /\ UNCHANGED <<host, hostImage, hostOffset>>
  BY DEF Reset
<1>4. BootTypeOK'
  BY <1>2, <1>3, Offsets DEF BootInv, BootTypeOK, Answers, Busy, EmptyPage
<1>5. Beginning'
  BY <1>3, Endpoints DEF BootInv, Beginning
<1> QED BY <1>3, <1>4, <1>5 DEF BootInv

\* The application is started, or the cable pulled.
LEMMA LeavingKeeps ==
  ASSUME BootInv, mainStep = "receive", mainStep' \in {"application", "unplugged"},
         UNCHANGED <<firmwareFileOffSet, firmwareFileSize, flashBuff, userFlash, usbRecv,
                     usbSend, hostVars>>
  PROVE  BootInv'
<1> USE DEF hostVars
<1>1. BootTypeOK' /\ Beginning'
  BY DEF BootInv, BootTypeOK, Beginning, Busy
<1>2. ASSUME Sound PROVE Sound'
  BY <1>2 DEF Sound, InStep, Placed, Filling, Complete, Finished, Programmed, Busy
<1> QED BY <1>1, <1>2 DEF BootInv

-----------------------------------------------------------------------------
\* The steps of the host and the cable.

LEMMA HostBeginsKeeps ==
  ASSUME BootInv, HostBegins
  PROVE  BootInv'
<1> USE DEF HostBegins, deviceVars
<1>1. BootTypeOK'
  BY Offsets DEF BootInv, BootTypeOK, Answers
<1>2. Beginning'
  BY Endpoints DEF BootInv, Beginning
<1> QED BY <1>1, <1>2 DEF BootInv

LEMMA HostSendsKeeps ==
  ASSUME BootInv, HostSends
  PROVE  BootInv'
<1> DEFINE number == IF host = "starting" THEN Start ELSE hostOffset
<1>0. /\ usbRecv = None /\ host \in {"starting", "sending"}
      /\ usbRecv' = [image |-> hostImage, number |-> number]
      /\ UNCHANGED <<mainStep, firmwareFileOffSet, firmwareFileSize, flashBuff, userFlash,
                     usbSend, host, hostImage, hostOffset, brokenOff>>
  BY DEF HostSends, deviceVars, hostVars
<1>1. usbRecv'.number = number /\ usbRecv'.image = hostImage /\ usbRecv' \in Packets
  BY <1>0 DEF Packets, BootInv, BootTypeOK
<1>2. BootTypeOK'
  BY <1>0, <1>1 DEF BootInv, BootTypeOK, Busy
<1>3. Beginning'
  BY <1>0, <1>1 DEF BootInv, Beginning, Busy
<1>4. ASSUME Sound, host = "sending" PROVE Sound'
  <2>1. InStep'
    BY <1>0, <1>1, <1>4 DEF Sound, InStep
  <2>2. Placed' /\ Complete'
    BY <1>0, <1>4 DEF Sound, Placed, Filling, BufferPage, Complete, Programmed, Busy
  <2>3. Finished'
    BY <1>0, <1>1, <1>4 DEF Sound, Finished, Programmed, Busy
  <2> QED BY <2>1, <2>2, <2>3 DEF Sound
<1> QED BY <1>0, <1>2, <1>3, <1>4 DEF BootInv

LEMMA HostReceivesKeeps ==
  ASSUME BootInv, HostReceives
  PROVE  BootInv'
<1>0. /\ usbSend # None /\ usbSend' = None
      /\ UNCHANGED <<mainStep, firmwareFileOffSet, firmwareFileSize, flashBuff, userFlash,
                     usbRecv, hostImage, brokenOff>>
      /\ usbSend \in Offset \union {Start, Done}
  BY DEF HostReceives, deviceVars, BootInv, BootTypeOK, Answers
<1>1. /\ host' = CASE host = "starting" /\ usbSend = Start -> "sending"
                   [] host = "sending" /\ usbSend = Done -> "done"
                   [] OTHER -> host
      /\ hostOffset' = IF host = "sending" /\ usbSend \notin {Start, Done} THEN usbSend
                       ELSE hostOffset
  BY DEF HostReceives
<1>2. hostOffset' \in Offset
  BY <1>0, <1>1 DEF BootInv, BootTypeOK
<1>3. BootTypeOK'
  BY <1>0, <1>1, <1>2 DEF BootInv, BootTypeOK, Answers, Busy
<1>4. CASE host = "starting" /\ usbSend = Start
  <2>1. host' = "sending" /\ hostOffset' = Zero
    BY <1>1, <1>4 DEF BootInv, Beginning
  <2>2. /\ firmwareFileOffSet = Zero /\ firmwareFileSize = Size[hostImage]
        /\ mainStep \notin Busy \union {"answer"}
        /\ usbRecv # None => usbRecv.number = Start
    BY <1>4 DEF BootInv, Beginning
  <2>3. InStep'
    BY <1>0, <2>1, <2>2, Endpoints, Offsets DEF InStep, BootInv
  <2>4. Placed' /\ Complete'
    BY <1>0, <2>2, Offsets DEF Placed, Complete
  <2>5. Finished'
    BY <1>0, <2>1, Endpoints DEF Finished, BootInv
  <2> QED BY <1>3, <2>1, <2>3, <2>4, <2>5 DEF BootInv, Beginning, Sound
<1>5. CASE host = "sending" /\ usbSend = Done
  <2>1. host' = "done" /\ hostOffset' = hostOffset
    BY <1>1, <1>5, Endpoints DEF BootInv
  <2>2. ASSUME Sound PROVE Sound'
    <3>1. InStep'
      BY <1>0, <2>1, <2>2, Endpoints DEF Sound, InStep, BootInv
    <3>2. Placed' /\ Complete'
      BY <1>0, <2>2 DEF Sound, Placed, Filling, BufferPage, Complete, Programmed, Busy
    <3>3. Finished'
      BY <1>0, <1>5, <2>1, <2>2 DEF Sound, Finished, Programmed, Busy
    <3> QED BY <3>1, <3>2, <3>3 DEF Sound
  <2> QED BY <1>0, <1>3, <1>5, <2>1, <2>2 DEF BootInv, Beginning
<1>6. CASE host = "sending" /\ usbSend # Done
  <2>1. host' = "sending" /\ hostOffset' = IF usbSend = Start THEN hostOffset ELSE usbSend
    BY <1>1, <1>6
  <2>2. ASSUME Sound PROVE Sound'
    <3>1. hostOffset' \in {hostOffset, firmwareFileOffSet}
      BY <1>0, <1>6, <2>1, <2>2 DEF Sound, InStep
    <3>2. InStep'
      BY <1>0, <2>2, <3>1, Endpoints DEF Sound, InStep, BootInv
    <3>3. Placed' /\ Complete'
      BY <1>0, <2>2 DEF Sound, Placed, Filling, BufferPage, Complete, Programmed, Busy
    <3>4. Finished'
      BY <1>0, <2>1, Endpoints DEF Finished, BootInv
    <3> QED BY <3>2, <3>3, <3>4 DEF Sound
  <2> QED BY <1>0, <1>3, <1>6, <2>1, <2>2 DEF BootInv, Beginning
<1>7. CASE host # "sending" /\ ~(host = "starting" /\ usbSend = Start)
  <2>1. host' = host /\ hostOffset' = hostOffset
    BY <1>1, <1>7
  <2>2. ASSUME Sound PROVE Sound'
    <3>1. InStep'
      BY <1>0, <2>1, <2>2, Endpoints DEF Sound, InStep, BootInv
    <3>2. Placed' /\ Complete'
      BY <1>0, <2>2 DEF Sound, Placed, Filling, BufferPage, Complete, Programmed, Busy
    <3>3. Finished'
      BY <1>0, <2>1, <2>2, Endpoints DEF Sound, Finished, Programmed, Busy, BootInv
    <3> QED BY <3>1, <3>2, <3>3 DEF Sound
  <2>3. Beginning'
    BY <1>0, <2>1, Endpoints DEF BootInv, Beginning
  <2> QED BY <1>0, <1>3, <2>1, <2>2, <2>3 DEF BootInv
<1> QED BY <1>4, <1>5, <1>6, <1>7

\* Nothing but a packet or an answer goes.
LEMMA LosingKeeps ==
  ASSUME BootInv, usbRecv' \in {usbRecv, None}, usbSend' \in {usbSend, None},
         UNCHANGED <<deviceVars, hostVars>>
  PROVE  BootInv'
<1> USE DEF deviceVars, hostVars
<1>1. BootTypeOK' /\ Beginning'
  BY Endpoints DEF BootInv, BootTypeOK, Beginning, Answers
<1>2. ASSUME Sound PROVE Sound'
  <2>1. InStep'
    BY <1>2, Endpoints DEF Sound, InStep, BootInv
  <2>2. Placed' /\ Complete'
    BY <1>2 DEF Sound, Placed, Filling, Complete, Programmed, Busy, BufferPage
  <2>3. Finished'
    BY <1>2, Endpoints DEF Sound, Finished, Programmed, BootInv
  <2> QED BY <2>1, <2>2, <2>3 DEF Sound
<1> QED BY <1>1, <1>2 DEF BootInv

LEMMA BootStep == BootInv /\ [BootloaderNext]_bootloaderVars => BootInv'
<1> SUFFICES ASSUME BootInv, [BootloaderNext]_bootloaderVars PROVE BootInv'
  OBVIOUS
<1>1. CASE MainLoop
  BY <1>1, StartPacketKeeps, DataPacketKeeps, EraseKeeps, ProgramPageKeeps, AnswerKeeps
     DEF MainLoop
<1>2. CASE Reset
  BY <1>2, ResetKeeps
<1>3. CASE execute_user_code \/ CablePulled
  BY <1>3, LeavingKeeps DEF execute_user_code, CablePulled
<1>4. CASE HostBegins \/ HostSends \/ HostReceives
  BY <1>4, HostBeginsKeeps, HostSendsKeeps, HostReceivesKeeps
<1>5. CASE Lose
  BY <1>5, LosingKeeps DEF Lose
<1>6. CASE UNCHANGED bootloaderVars
  BY <1>6, LosingKeeps DEF bootloaderVars, deviceVars, hostVars
<1> QED BY <1>1, <1>2, <1>3, <1>4, <1>5, <1>6 DEF BootloaderNext

\* Boot loader and host are never more than a packet apart, and every packet
\* the boot loader has gone past is where it belongs.
THEOREM BootloaderInvariant == BootloaderSpec => []BootInv
BY BootStarts, BootStep, PTL DEF BootloaderSpec

\* A host that is told that all is in has its image in the flash, for any
\* images, page sizes, losses and repetitions, unless the boot loader was reset.
THEOREM DoneIsProgrammed == BootloaderSpec => []DoneMeansProgrammed
<1>1. BootInv => DoneMeansProgrammed
  BY DEF BootInv, Sound, Finished, DoneMeansProgrammed
<1> QED BY <1>1, BootloaderInvariant, PTL

-----------------------------------------------------------------------------
\* The configuration.

Configs == [Cfg -> Nat]

ConfigTypeOK ==
  /\ sysCfg \in Configs /\ intended \in Configs
  /\ DOMAIN cfgFlash = 0 .. Crc
  /\ \A c \in Cfg : cfgFlash[c] \in Nat \union {Blank}
  /\ cfgFlash[Crc] \in Configs \union {Blank}
  /\ cfgStep \in {"idle", "erase", "program"} /\ cfgAt \in 0 .. Crc
  /\ upload \in Nat /\ uploadAt \in Cfg /\ changes \in Nat
  /\ cfgMain = "boot" => upload = 0
  /\ uploadAt > 0 => uploadOpen

\* The configuration in RAM is the one meant, but for an upload's packets.
RamIsMeant ==
  /\ cfgStep # "idle" => sysCfg = intended
  /\ ~uploadOpen /\ cfgMain # "boot" => sysCfg = intended
  /\ cfgMain # "save" /\ upload # 0 => \A c \in Cfg : c < uploadAt => sysCfg[c] = upload

\* The checksum is that of a configuration a reset may find, or erased; while
\* that may be the default, the cells before it are free to be anything.
FlashIsMeant ==
  /\ cfgFlash[Crc] \in loadable \union {Blank}
  /\ \/ Default \in loadable
     \/ cfgStep = "idle" /\ cfgFlash[Crc] = [c \in Cfg |-> cfgFlash[c]]
  /\ cfgStep = "program" => \A c \in Cfg : c < cfgAt => cfgFlash[c] = sysCfg[c]

ConfigInv == ConfigTypeOK /\ (~overlapped => RamIsMeant /\ FlashIsMeant)

\* What CFG_Load finds is a configuration; one of those it may find, when no
\* save came between the packets of an upload.
LEMMA LoadsAConfig ==
  ASSUME ConfigTypeOK
  PROVE  /\ Loads(cfgFlash) \in Configs /\ Default \in Configs
         /\ FlashIsMeant => Loads(cfgFlash) \in loadable
<1>1. [c \in Cfg |-> cfgFlash[c]] \in [Cfg -> Nat \union {Blank}]
  BY DEF ConfigTypeOK
<1>2. cfgFlash[Crc] = Blank => cfgFlash[Crc] # [c \in Cfg |-> cfgFlash[c]]
  BY <1>1, ConfigAssumption
<1>3. Default \in Configs
  BY DEF Default, Configs
<1> QED BY <1>2, <1>3 DEF Loads, ConfigTypeOK, FlashIsMeant

LEMMA ConfigStarts == ConfigInit => ConfigInv
<1> SUFFICES ASSUME ConfigInit PROVE ConfigInv
  OBVIOUS
<1>1. Crc \in 0 .. Crc /\ Cfg \subseteq 0 .. Crc /\ Crc \notin Cfg /\ 0 \in Cfg
  BY ConfigAssumption DEF Cfg, Crc
<1>2. cfgFlash[Crc] = Default /\ (\A c \in Cfg : cfgFlash[c] = 0)
  BY <1>1 DEF ConfigInit
<1>3. ConfigTypeOK
  BY <1>1, <1>2, ConfigAssumption DEF ConfigInit, ConfigTypeOK, Configs, Default, Crc
<1>4. RamIsMeant
  BY DEF ConfigInit, RamIsMeant
<1>5. FlashIsMeant
  BY <1>2 DEF ConfigInit, FlashIsMeant, Default
<1> QED BY <1>3, <1>4, <1>5 DEF ConfigInv

\* A CFG_Save that begins: of c, when m is meant.
LEMMA SaveBeginsKeeps ==
  ASSUME ConfigInv, NEW c \in Configs, NEW m \in Configs, CFG_Save_Begin(c, m),
         UNCHANGED cfgFlash,
         upload' \in Nat, uploadAt' \in Cfg, changes' \in Nat,
         cfgMain' = "boot" => upload' = 0,
         uploadAt' > 0 => uploadOpen',
         ~overlapped' => ~overlapped /\ c = m /\ (upload' # 0 => uploadAt' = 0)
  PROVE  ConfigInv'
<1> USE DEF CFG_Save_Begin
<1>1. ConfigTypeOK'
  BY ConfigAssumption DEF ConfigInv, ConfigTypeOK, Crc
<1>2. ASSUME ~overlapped' PROVE RamIsMeant'
  BY <1>2, ConfigAssumption DEF RamIsMeant, Cfg
<1>3. ASSUME ~overlapped' PROVE FlashIsMeant'
  BY <1>3 DEF ConfigInv, FlashIsMeant
<1> QED BY <1>1, <1>2, <1>3 DEF ConfigInv

LEMMA EraseCfgKeeps ==
  ASSUME ConfigInv, Erase
  PROVE  ConfigInv'
<1>0. /\ cfgStep = "erase" /\ cfgStep' \in {"erase", "program"}
      /\ cfgAt' = IF cfgAt < LastCfgPage THEN cfgAt + 1 ELSE 0
      /\ cfgStep' = "program" => cfgAt' = 0
      /\ cfgFlash' = [c \in DOMAIN cfgFlash |-> IF c \div PageCells = cfgAt THEN Blank
                                                ELSE cfgFlash[c]]
      /\ UNCHANGED <<sysCfg, cfgMain, upload, uploadAt, uploadOpen, intended, loadable,
                     overlapped, changes>>
  BY DEF Erase, cfgRam
<1>1. Crc \in 0 .. Crc /\ Cfg \subseteq 0 .. Crc /\ LastCfgPage \in 0 .. Crc
  BY ConfigAssumption DEF Cfg, Crc, LastCfgPage
<1>2. \A c \in 0 .. Crc : cfgFlash'[c] \in {cfgFlash[c], Blank}
  BY <1>0 DEF ConfigInv, ConfigTypeOK
<1>3. DOMAIN cfgFlash' = 0 .. Crc /\ cfgAt' \in 0 .. Crc
  BY <1>0, <1>1, ConfigAssumption DEF ConfigInv, ConfigTypeOK, Crc
<1>4. ConfigTypeOK'
  BY <1>0, <1>1, <1>2, <1>3 DEF ConfigInv, ConfigTypeOK
<1>5. ASSUME ~overlapped PROVE RamIsMeant' /\ FlashIsMeant'
  <2>1. RamIsMeant /\ FlashIsMeant
    BY <1>5 DEF ConfigInv
  <2>2. RamIsMeant'
    BY <1>0, <2>1 DEF RamIsMeant
  <2>3. FlashIsMeant'
    BY <1>0, <1>1, <1>2, <2>1, ConfigAssumption DEF FlashIsMeant, Cfg
  <2> QED BY <2>2, <2>3
<1> QED BY <1>0, <1>4, <1>5 DEF ConfigInv

LEMMA ProgramCfgKeeps ==
  ASSUME ConfigInv, Program
  PROVE  ConfigInv'
<1>0. /\ cfgStep = "program"
      /\ cfgFlash' = [cfgFlash EXCEPT ![cfgAt] = IF cfgAt = Crc THEN sysCfg ELSE sysCfg[cfgAt]]
      /\ UNCHANGED <<sysCfg, cfgMain, upload, uploadAt, uploadOpen, intended,
                     overlapped, changes>>
      /\ DOMAIN cfgFlash = 0 .. Crc /\ sysCfg \in Configs /\ cfgAt \in 0 .. Crc
  BY DEF Program, cfgRam, ConfigInv, ConfigTypeOK
<1>1. Crc \in 0 .. Crc /\ Cfg \subseteq 0 .. Crc /\ Crc \notin Cfg /\ 0 \in 0 .. Crc
      /\ (\A c \in 0 .. Crc : c \in Cfg \/ c = Crc) /\ Crc \in Nat
  BY ConfigAssumption DEF Cfg, Crc
<1>2. CASE cfgAt < Crc
  <2>1. cfgAt' = cfgAt + 1 /\ cfgStep' = "program" /\ loadable' = loadable /\ cfgAt \in Cfg
    BY <1>0, <1>1, <1>2 DEF Program
  <2>2. cfgFlash' = [cfgFlash EXCEPT ![cfgAt] = sysCfg[cfgAt]] /\ sysCfg[cfgAt] \in Nat
    BY <1>0, <1>1, <2>1 DEF Configs
  <2>3. ConfigTypeOK'
    BY <1>0, <1>1, <1>2, <2>1, <2>2 DEF ConfigInv, ConfigTypeOK
  <2>4. ASSUME ~overlapped PROVE RamIsMeant' /\ FlashIsMeant'
    <3>1. RamIsMeant /\ FlashIsMeant
      BY <2>4 DEF ConfigInv
    <3>2. RamIsMeant'
      BY <1>0, <2>1, <3>1 DEF RamIsMeant
    <3>3. cfgFlash'[Crc] = cfgFlash[Crc] /\ Default \in loadable
      BY <1>0, <1>1, <2>1, <2>2, <3>1 DEF FlashIsMeant
    <3>4. ASSUME NEW c \in Cfg, c < cfgAt + 1 PROVE cfgFlash'[c] = sysCfg[c]
      <4>1. c < cfgAt \/ c = cfgAt
        BY <1>0, <3>4 DEF Cfg
      <4> QED BY <1>0, <1>1, <2>2, <3>1, <4>1 DEF FlashIsMeant
    <3> QED BY <2>1, <1>0, <3>1, <3>2, <3>3, <3>4 DEF FlashIsMeant
  <2> QED BY <1>0, <2>3, <2>4 DEF ConfigInv
<1>3. CASE cfgAt = Crc
  <2>1. cfgAt' = 0 /\ cfgStep' = "idle" /\ loadable' = {intended}
    BY <1>0, <1>1, <1>3 DEF Program
  <2>2. cfgFlash'[Crc] = sysCfg /\ (\A c \in Cfg : cfgFlash'[c] = cfgFlash[c])
        /\ DOMAIN cfgFlash' = 0 .. Crc
    BY <1>0, <1>1, <1>3
  <2>3. ConfigTypeOK'
    BY <1>0, <1>1, <2>1, <2>2 DEF ConfigInv, ConfigTypeOK
  <2>4. ASSUME ~overlapped PROVE RamIsMeant' /\ FlashIsMeant'
    <3>1. RamIsMeant /\ FlashIsMeant
      BY <2>4 DEF ConfigInv
    <3>2. RamIsMeant' /\ sysCfg = intended
      BY <1>0, <2>1, <3>1 DEF RamIsMeant
    <3>3. \A c \in Cfg : cfgFlash'[c] = sysCfg[c]
      BY <1>0, <1>1, <1>3, <2>2, <3>1, ConfigAssumption DEF FlashIsMeant, Cfg, Crc
    <3>4. sysCfg = [c \in Cfg |-> cfgFlash'[c]]
      BY <1>0, <3>3 DEF Configs
    <3> QED BY <2>1, <2>2, <3>2, <3>4 DEF FlashIsMeant
  <2> QED BY <1>0, <2>3, <2>4 DEF ConfigInv
<1> QED BY <1>0, <1>1, <1>2, <1>3

LEMMA UploadStartsKeeps ==
  ASSUME ConfigInv, UploadStarts
  PROVE  ConfigInv'
<1> USE DEF UploadStarts
<1>1. ConfigTypeOK'
  BY ConfigAssumption DEF ConfigInv, ConfigTypeOK, Cfg
<1>2. ASSUME ~overlapped PROVE RamIsMeant' /\ FlashIsMeant'
  BY <1>2, ConfigAssumption DEF ConfigInv, RamIsMeant, FlashIsMeant, Cfg
<1> QED BY <1>1, <1>2 DEF ConfigInv

LEMMA UploadPacketKeeps ==
  ASSUME ConfigInv, UploadPacket
  PROVE  ConfigInv'
<1> DEFINE c == [sysCfg EXCEPT ![uploadAt] = upload]
<1>0. /\ cfgStep = "idle" /\ upload # 0 /\ cfgMain # "boot"
      /\ UNCHANGED <<cfgFlash, cfgMain, changes>>
      /\ upload \in Nat /\ uploadAt \in Cfg /\ changes \in Nat /\ LastCell \in Cfg
      /\ 0 \in Cfg /\ LastCell \in Nat
  BY ConfigAssumption DEF UploadPacket, ConfigInv, ConfigTypeOK, Cfg
<1>1. c \in Configs
  BY <1>0 DEF ConfigInv, ConfigTypeOK, Configs
<1>2. ASSUME ~overlapped, cfgMain # "save", NEW n \in Cfg, n <= uploadAt PROVE c[n] = upload
  <2>1. n < uploadAt \/ n = uploadAt
    BY <1>0, <1>2 DEF Cfg
  <2> QED BY <1>0, <1>2, <2>1 DEF ConfigInv, ConfigTypeOK, Configs, RamIsMeant
<1>3. CASE uploadAt < LastCell
  <2>1. /\ sysCfg' = c /\ uploadAt' = uploadAt + 1 /\ uploadOpen' = TRUE
        /\ UNCHANGED <<upload, cfgStep, cfgAt, intended, loadable, overlapped>>
    BY <1>3 DEF UploadPacket
  <2>2. uploadAt' \in Cfg
    BY <1>0, <1>3, <2>1 DEF Cfg
  <2>3. ConfigTypeOK'
    BY <1>0, <1>1, <2>1, <2>2 DEF ConfigInv, ConfigTypeOK
  <2>4. ASSUME ~overlapped PROVE RamIsMeant' /\ FlashIsMeant'
    <3>1. \A n \in Cfg : n < uploadAt + 1 => n <= uploadAt
      BY <1>0 DEF Cfg
    <3>2. RamIsMeant'
      BY <1>0, <1>2, <2>1, <2>4, <3>1 DEF RamIsMeant
    <3> QED BY <1>0, <2>1, <2>4, <3>2 DEF ConfigInv, FlashIsMeant
  <2> QED BY <2>1, <2>3, <2>4 DEF ConfigInv
<1>4. CASE ~(uploadAt < LastCell)
  <2>1. /\ CFG_Save_Begin(c, [n \in Cfg |-> upload])
        /\ overlapped' = (overlapped \/ cfgMain = "save")
        /\ upload' = 0 /\ uploadAt' = 0 /\ uploadOpen' = FALSE
    BY <1>4 DEF UploadPacket
  <2>2. [n \in Cfg |-> upload] \in Configs
    BY <1>0 DEF Configs
  <2>3. ASSUME ~overlapped' PROVE c = [n \in Cfg |-> upload]
    <3>1. \A n \in Cfg : n <= uploadAt
      BY <1>0, <1>4 DEF Cfg
    <3>2. \A n \in Cfg : c[n] = upload
      BY <1>2, <2>1, <2>3, <3>1
    <3> QED BY <1>1, <3>2 DEF Configs
  <2>4. PICK d \in Configs, m \in Configs : d = c /\ m = [n \in Cfg |-> upload]
    BY <1>1, <2>2
  <2>5. /\ CFG_Save_Begin(d, m) /\ UNCHANGED cfgFlash
        /\ ~overlapped' => ~overlapped /\ d = m
        /\ upload' = 0 /\ uploadAt' = 0 /\ changes' = changes
    BY <1>0, <2>1, <2>3, <2>4
  <2> QED BY <1>0, <2>5, SaveBeginsKeeps
<1> QED BY <1>3, <1>4

LEMMA SetFieldKeeps ==
  ASSUME ConfigInv, SetField
  PROVE  ConfigInv'
<1>0. /\ cfgStep = "idle" /\ cfgMain # "boot" /\ cfgMain' = "save" /\ changes' = changes + 1
      /\ UNCHANGED <<cfgFlash, cfgStep, cfgAt, upload, uploadAt, uploadOpen, loadable, overlapped>>
  BY DEF SetField
<1>1. PICK c \in Cfg : /\ sysCfg' = [sysCfg EXCEPT ![c] = changes']
                       /\ intended' = [intended EXCEPT ![c] = changes']
  BY DEF SetField
<1>2. changes' \in Nat /\ sysCfg' \in Configs /\ intended' \in Configs
  BY <1>0, <1>1 DEF ConfigInv, ConfigTypeOK, Configs
<1>3. ConfigTypeOK'
  BY <1>0, <1>2 DEF ConfigInv, ConfigTypeOK
<1>4. ASSUME ~overlapped PROVE RamIsMeant' /\ FlashIsMeant'
  BY <1>0, <1>1, <1>4 DEF ConfigInv, RamIsMeant, FlashIsMeant
<1> QED BY <1>0, <1>3, <1>4 DEF ConfigInv

LEMMA PowerCutKeeps ==
  ASSUME ConfigInv, CfgPowerCut
  PROVE  ConfigInv'
<1> USE DEF CfgPowerCut
<1>1. ConfigTypeOK'
  BY ConfigAssumption DEF ConfigInv, ConfigTypeOK, Cfg, Crc
<1>2. ASSUME ~overlapped PROVE RamIsMeant' /\ FlashIsMeant'
  BY <1>2 DEF ConfigInv, RamIsMeant, FlashIsMeant
<1> QED BY <1>1, <1>2 DEF ConfigInv

LEMMA ConfigStep == ConfigInv /\ [ConfigNext]_cfgVars => ConfigInv'
<1> SUFFICES ASSUME ConfigInv, [ConfigNext]_cfgVars PROVE ConfigInv'
  OBVIOUS
<1>0. /\ changes \in Nat /\ changes + 1 \in Nat /\ upload \in Nat /\ uploadAt \in Cfg /\ 0 \in Cfg
      /\ sysCfg \in Configs /\ intended \in Configs
      /\ Default \in Configs /\ Loads(cfgFlash) \in Configs
      /\ cfgMain = "boot" => upload = 0
      /\ uploadAt > 0 => uploadOpen
  BY LoadsAConfig, ConfigAssumption DEF ConfigInv, ConfigTypeOK, Cfg
<1>1. ~uploadOpen => uploadAt = 0
  BY <1>0 DEF Cfg
<1>2. CASE Erase \/ Program
  BY <1>2, EraseCfgKeeps, ProgramCfgKeeps
<1>3. CASE UploadStarts \/ UploadPacket
  BY <1>3, UploadStartsKeeps, UploadPacketKeeps
<1>4. CASE UploadDefaults
  BY <1>0, <1>4, SaveBeginsKeeps DEF UploadDefaults
<1>5. CASE SetField
  BY <1>5, SetFieldKeeps
<1>6. CASE SaveFields
  <2>1. ~overlapped' => ~overlapped /\ ~uploadOpen /\ sysCfg = intended
    BY <1>6 DEF SaveFields, ConfigInv, RamIsMeant
  <2> QED BY <1>0, <1>1, <1>6, <2>1, SaveBeginsKeeps DEF SaveFields
<1>7. CASE SetDefaults
  BY <1>0, <1>1, <1>7, SaveBeginsKeeps DEF SetDefaults
<1>8. CASE CFG_Load
  BY <1>0, <1>1, <1>8, SaveBeginsKeeps DEF CFG_Load
<1>9. CASE CfgPowerCut
  BY <1>9, PowerCutKeeps
<1>10. CASE UNCHANGED cfgVars
  BY <1>10 DEF cfgVars, ConfigInv, ConfigTypeOK, RamIsMeant, FlashIsMeant
<1> QED BY <1>2, <1>3, <1>4, <1>5, <1>6, <1>7, <1>8, <1>9, <1>10 DEF ConfigNext

\* RAM and flash hold what the complete changes have made of the configuration,
\* but for an upload's packets in RAM and what CFG_Save is at in the flash.
THEOREM ConfigInvariant == ConfigSpec => []ConfigInv
BY ConfigStarts, ConfigStep, PTL DEF ConfigSpec

\* A reset at any moment of CFG_Save loads the old configuration, the one being
\* saved or the defaults, for any size of it and of the flash's pages, unless
\* a save or a load came between the packets of an upload.
THEOREM ConfigurationSurvives == ConfigSpec => []ConfigSurvives
<1>1. ConfigInv => ConfigSurvives
  BY LoadsAConfig DEF ConfigInv, ConfigSurvives
<1> QED BY <1>1, ConfigInvariant, PTL
=============================================================================
