------------------------ MODULE FirmwareInstallProofs ------------------------
(***************************************************************************)
(* Proofs about FirmwareInstall, for every driver and any number of        *)
(* installs, power cuts and polls: types, what is set to boot, what the    *)
(* update entity shows, and that the installs keep the promise of          *)
(* FirmwareUpgrade.                                                        *)
(***************************************************************************)
EXTENDS FirmwareInstall, TLAPS

USE FirmwareAssumption

-----------------------------------------------------------------------------
(***************************************************************************)
(* Types                                                                   *)
(***************************************************************************)
Early == {"idle", "download", "status", "upload"}
Late == {"staged", "activate", "check", "reboot"}

Types ==
    /\ driver \in Drivers
    /\ slots \in [Slots -> Images]
    /\ booted \in Slots
    /\ next \in Slots
    /\ running \in Images
    /\ queued \in Slots \union {NoSlot}
    /\ writing \in Slots \union {NoSlot}
    /\ rebooting \in BOOLEAN
    /\ install \in Installs
    /\ installed \in {"old", "new"}
    /\ installs \in 0 .. MaxInstalls
    /\ cuts \in 0 .. MaxCuts

(***************************************************************************)
(* What bounds the polls depends on where the install is; only the S350    *)
(* polls for the end of the write; and the slot is chosen by the upload.   *)
(***************************************************************************)
Places ==
    /\ install.pc \in Early \union Late => install.polls = 0
    /\ install.pc \in {"flash", "recheck"} =>
           install.polls < (IF driver = "cheetah" THEN FlashPolls ELSE 1)
    /\ install.pc = "wait" => install.polls < RebootPolls
    /\ install.pc = "recheck" => driver = "cheetah"
    /\ install.pc \notin {"idle", "download", "status"} =>
           install.target \in Slots

\* An install that is over.
LEMMA IdleType == IdleInstall \in Installs /\ IdleInstall.pc = "idle"
                                           /\ IdleInstall.polls = 0
BY DEF IdleInstall, Installs, Pcs

\* The switch knows both slots.
LEMMA InitTypes == Init => Types /\ Places
<1>1. Init => slots \in [Slots -> Images]
  BY DEF Init, Images
<1>2. Init => install \in Installs /\ Places
  BY IdleType DEF Init, Places, Early, Late
<1>3. Init => rebooting \in BOOLEAN
  BY Zenon DEF Init
<1>4. 0 \in 0 .. MaxInstalls /\ 0 \in 0 .. MaxCuts
  BY DEF FirmwareAssumption
<1> QED
  BY <1>1, <1>2, <1>3, <1>4 DEF Init, Types, Images

\* Steps of the switch keep the types.
LEMMA SwitchTypes ==
    ASSUME Types, Places, SwitchStep \/ PowerCut
    PROVE  Types' /\ Places'
<1>1. CASE FlashBegins
  BY <1>1 DEF FlashBegins, Types, Places, boot, Images
<1>2. CASE FlashEnds
  BY <1>2 DEF FlashEnds, Types, Places, boot, Images
<1>3. CASE ImageDropped
  BY <1>3 DEF ImageDropped, Types, Places, boot
<1>4. CASE Restarts /\ cuts' \in 0 .. MaxCuts
  BY <1>4 DEF Restarts, Types, Places
<1>5. PowerCut => Restarts /\ cuts' \in 0 .. MaxCuts
  BY DEF PowerCut, Types
<1> QED
  BY <1>1, <1>2, <1>3, <1>4, <1>5 DEF SwitchStep, Reboots, Types

\* An install that goes on, or ends, and touches nothing else.
LEMMA MoveTypes ==
    ASSUME Types, Places, install' \in Installs, Places',
           installed' \in {"old", "new"}, installs' \in 0 .. MaxInstalls,
           UNCHANGED <<driver, flash, boot, cuts>>
    PROVE  Types' /\ Places'
BY DEF Types, flash, boot

\* Steps of the install that touch neither the flash nor the boot slot.
LEMMA InstallTypes ==
    ASSUME Types, Places,
           Start \/ Cancelled \/ InstallStep,
           ~Upload, ~Activate, ~Reboot
    PROVE  Types' /\ Places'
<1> USE DEF flash, boot
<1>1. CASE Fail /\ UNCHANGED <<driver, flash, boot, installed, installs, cuts>>
  BY <1>1, IdleType, MoveTypes DEF Fail, Places, Early, Late, Types
<1>2. CASE Start
  BY <1>2 DEF Start, Goto, Types, Places, Installs, Pcs, Early, Late
<1>3. CASE Downloaded
  BY <1>3 DEF Downloaded, Goto, Types, Places, Installs, Pcs, Early, Late
<1>4. CASE ReadStatus
  BY <1>4
     DEF ReadStatus, Types, Places, Installs, Pcs, Early, Late, Other, Slots
<1>5. CASE UploadDone
  BY <1>5 DEF UploadDone, Goto, Types, Places, Installs, Pcs, Early, Late
<1>6. CASE FlashPoll
  <2>1. /\ driver = "cheetah" /\ install.pc = "flash" /\ install \in Installs
        /\ install.polls < FlashPolls /\ install.target \in Slots
        /\ install.polls \in Nat
        /\ UNCHANGED <<driver, flash, boot, installed, installs, cuts>>
    BY <1>6 DEF FlashPoll, Types, Places, Installs
  <2>2. CASE Goto("recheck")
    BY <2>1, <2>2 DEF Goto, Types, Places, Installs, Pcs, Early, Late
  <2>3. CASE install' = IdleInstall
    BY <1>1, <2>1, <2>3 DEF Fail
  <2>4. CASE /\ install.polls + 1 # FlashPolls
             /\ install' = [install EXCEPT !.started = TRUE, !.polls = @ + 1]
    <3>1. install.polls + 1 \in Nat /\ install.polls + 1 < FlashPolls
      BY <2>1, <2>4
    <3>2. /\ install'.polls = install.polls + 1 /\ install'.pc = install.pc
          /\ install'.target = install.target /\ install' \in Installs
      BY <2>1, <2>4, <3>1 DEF Installs
    <3> QED
      BY <2>1, <3>1, <3>2 DEF Types, Places, Early, Late
  <2> QED
    BY <1>6, <2>2, <2>3, <2>4 DEF FlashPoll
<1>7. CASE FlashFinished
  BY <1>7 DEF FlashFinished, Types, Places, Installs, Pcs, Early, Late
<1>8. CASE /\ install.pc \in {"flash", "recheck"} /\ driver = "cheetah"
           /\ FlashPollAgain
           /\ UNCHANGED <<driver, flash, boot, installed, installs, cuts>>
  <2>1. /\ install \in Installs /\ install.polls \in Nat
        /\ install.polls < FlashPolls /\ install.target \in Slots
    BY <1>8 DEF Types, Places, Installs
  <2>2. CASE install' = IdleInstall
    BY <1>1, <1>8, <2>2 DEF Fail
  <2>3. CASE /\ install.polls + 1 # FlashPolls
             /\ install' = [install EXCEPT !.pc = "flash", !.polls = @ + 1]
    <3>1. install.polls + 1 \in Nat /\ install.polls + 1 < FlashPolls
      BY <2>1, <2>3
    <3>2. /\ install'.polls = install.polls + 1 /\ install'.pc = "flash"
          /\ install'.target = install.target /\ install' \in Installs
      BY <2>1, <2>3, <3>1 DEF Installs, Pcs
    <3> QED
      BY <1>8, <2>1, <3>1, <3>2 DEF Types, Places, Early, Late
  <2> QED
    BY <1>8, <2>2, <2>3 DEF FlashPollAgain
<1>9. CASE VerifyStaged
  BY <1>1, <1>9
     DEF VerifyStaged, Goto, Types, Places, Installs, Pcs, Early, Late
<1>10. CASE VerifyBootSlot
  BY <1>1, <1>10
     DEF VerifyBootSlot, Goto, Types, Places, Installs, Pcs, Early, Late
<1>11. CASE WaitDone
  BY <1>11, IdleType DEF WaitDone, Types, Places, Early, Late
<1>12. CASE WaitAgain
  BY <1>12, IdleType DEF WaitAgain, Types, Places, Installs, Pcs, Early, Late
<1>13. CASE FlashMissing
  BY <1>1, <1>8, <1>13 DEF FlashMissing, Places
<1>14. CASE FlashPollFails
  BY <1>1, <1>8, <1>14 DEF FlashPollFails
<1>15. CASE Cancelled \/ RequestFails \/ UploadFails \/ RebootRefused
  BY <1>1, <1>15 DEF Cancelled, RequestFails, UploadFails, RebootRefused
<1> QED
  BY <1>2, <1>3, <1>4, <1>5, <1>6, <1>7, <1>9, <1>10, <1>11, <1>12, <1>13,
     <1>14, <1>15
     DEF InstallStep, AnsweredStep

\* The three requests that tell the switch something.
LEMMA OrderTypes ==
    ASSUME Types, Places, Upload \/ Activate \/ Reboot
    PROVE  Types' /\ Places'
<1>1. CASE Upload
  BY <1>1
     DEF Upload, Goto, Types, Places, Installs, Pcs, Early, Late, boot
<1>2. CASE Activate
  BY <1>2
     DEF Activate, Goto, Types, Places, Installs, Pcs, Early, Late, flash
<1>3. CASE Reboot
  <2>1. rebooting' \in BOOLEAN
    BY <1>3, Zenon DEF Reboot, Types
  <2>2. /\ UNCHANGED <<driver, slots, queued, writing, booted, next, running,
                       installed, installs, cuts>>
        /\ install' \in Installs /\ Places'
    BY <1>3 DEF Reboot, Goto, Types, Places, Installs, Pcs, Early, Late, flash
  <2> QED
    BY <2>1, <2>2 DEF Types
<1> QED
  BY <1>1, <1>2, <1>3

\* Every step keeps the types.
LEMMA StepTypes == Types /\ Places /\ [Next]_vars => Types' /\ Places'
<1>1. ASSUME Types, Places, UNCHANGED vars
      PROVE  Types' /\ Places'
  BY <1>1 DEF vars, flash, boot, Types, Places
<1> QED
  BY <1>1, SwitchTypes, InstallTypes, OrderTypes DEF Next

\* They hold for ever.
LEMMA TypesHold == Spec => [](Types /\ Places)
BY InitTypes, StepTypes, PTL DEF Spec

(***************************************************************************)
(* TypeOK: in particular no loop over polls exceeds its budget, whatever   *)
(* the budgets are.                                                        *)
(***************************************************************************)
THEOREM TypeCorrect == Spec => []TypeOK
<1>1. Types /\ Places => TypeOK
  <2> SUFFICES ASSUME Types, Places
               PROVE  TypeOK
    OBVIOUS
  <2>1. install.polls \in Nat /\ install.pc \in Pcs
    BY DEF Types, Installs
  <2>2. install.polls < (IF driver = "cheetah" /\ FlashPolls > RebootPolls
                           THEN FlashPolls ELSE RebootPolls)
    BY <2>1 DEF Places, Early, Late, Pcs
  <2> QED
    BY <2>2 DEF Types, TypeOK
<1> QED
  BY <1>1, TypesHold, PTL

-----------------------------------------------------------------------------
(***************************************************************************)
(* The first install of a driver that names the slot                       *)
(***************************************************************************)
Still == queued = NoSlot /\ writing = NoSlot
NoneNew == \A s \in Slots : slots[s] # "new"

(***************************************************************************)
(* One image is sent and stored once: nothing is under way before, and     *)
(* once a slot holds the new version, nothing is any more.                 *)
(***************************************************************************)
OnceInv ==
    driver # "json" /\ installs <= 1 =>
        /\ installs = 0 => install.pc = "idle"
        /\ installs = 0 \/ install.pc \in Early \ {"idle"} => Still /\ NoneNew
        /\ NoneNew \/ Still
        /\ queued = NoSlot \/ writing = NoSlot

\* At the start nothing has been sent.
LEMMA InitOnce == Init => OnceInv
BY DEF Init, OnceInv, Still, NoneNew, IdleInstall, Slots

\* The switch writes the one image.
LEMMA SwitchOnce ==
    ASSUME Types, OnceInv, SwitchStep \/ PowerCut
    PROVE  OnceInv'
<1> USE DEF Types, OnceInv, Still, NoneNew, boot, Early, NoSlot, Slots
<1>1. CASE FlashBegins
  BY <1>1 DEF FlashBegins
<1>2. CASE FlashEnds
  BY <1>2 DEF FlashEnds
<1>3. CASE ImageDropped
  BY <1>3 DEF ImageDropped
<1>4. CASE Restarts
  BY <1>4 DEF Restarts
<1> QED
  BY <1>1, <1>2, <1>3, <1>4 DEF SwitchStep, Reboots, PowerCut

\* The install sends it.
LEMMA InstallOnce ==
    ASSUME Types, Places, OnceInv, Start \/ Cancelled \/ InstallStep
    PROVE  OnceInv'
<1> USE DEF flash, boot, OnceInv, Still, NoneNew, Early, Late
<1>0. install \in Installs /\ installs \in Nat
  BY DEF Types
<1>1. CASE Fail /\ UNCHANGED <<driver, flash, boot, installed, installs, cuts>>
  BY <1>1, IdleType DEF Fail
<1>2. CASE Start
  BY <1>0, <1>2 DEF Start, Goto, Installs
<1>3. CASE Downloaded
  BY <1>0, <1>3 DEF Downloaded, Goto, Installs
<1>4. CASE ReadStatus
  BY <1>0, <1>4 DEF ReadStatus, Installs
<1>5. CASE Upload
  BY <1>0, <1>5 DEF Upload, Goto, Installs
<1>6. CASE /\ install.pc \notin Early /\ install'.pc \notin Early
           /\ UNCHANGED <<driver, slots, queued, writing, installs>>
  BY <1>0, <1>6
<1>7. CASE /\ install' = IdleInstall /\ install.pc \notin Early
           /\ UNCHANGED <<driver, slots, queued, writing, installs>>
  BY <1>0, <1>7, IdleType
<1>8. CASE UploadDone
  BY <1>0, <1>6, <1>8 DEF UploadDone, Goto, Installs
<1>9. CASE FlashPoll \/ FlashMissing \/ FlashPollFails
  BY <1>0, <1>6, <1>7, <1>9
     DEF FlashPoll, FlashMissing, FlashPollFails, FlashPollAgain, Goto, Fail,
         Installs
<1>10. CASE FlashFinished
  BY <1>0, <1>6, <1>10 DEF FlashFinished, Installs
<1>11. CASE VerifyStaged \/ VerifyBootSlot
  BY <1>0, <1>6, <1>7, <1>11
     DEF VerifyStaged, VerifyBootSlot, Goto, Fail, Installs
<1>12. CASE Activate \/ Reboot
  BY <1>0, <1>6, <1>12 DEF Activate, Reboot, Goto, Installs
<1>13. CASE WaitDone \/ WaitAgain
  BY <1>0, <1>6, <1>7, <1>13 DEF WaitDone, WaitAgain, Installs
<1>14. CASE Cancelled \/ RequestFails \/ UploadFails \/ RebootRefused
  BY <1>1, <1>14 DEF Cancelled, RequestFails, UploadFails, RebootRefused
<1> QED
  BY <1>2, <1>3, <1>4, <1>5, <1>8, <1>9, <1>10, <1>11, <1>12, <1>13, <1>14
     DEF InstallStep, AnsweredStep

-----------------------------------------------------------------------------
(***************************************************************************)
(* What is set to boot                                                     *)
(***************************************************************************)
Committed ==
    install.pc \in {"reboot", "wait"} \/ rebooting \/ installed = "new"

(***************************************************************************)
(* Who has seen the image stored knows that the switch writes no more: a   *)
(* write left over from an earlier install keeps the switch from accepting *)
(* an image, and so does a reboot under way; on the S350, whose driver     *)
(* looks at the slot only, there is no earlier install.                    *)
(***************************************************************************)
SafeInv ==
    WriteIsWatched =>
        /\ rebooting => install.pc \in Early \union {"wait"}
        /\ installed = "new" => install.pc = "idle" /\ running = "new"
        /\ Committed \/ install.pc \in Late => Still
        /\ Committed => slots[next] = "new"
        /\ driver # "json" /\ install.pc \in {"activate", "check"} =>
               slots[install.target] = "new"

\* At the start nothing has happened yet.
LEMMA InitSafe == Init => SafeInv
BY DEF Init, SafeInv, Committed, Late, IdleInstall

\* Nothing is written, and a restart boots what is set to boot.
LEMMA SwitchSafe ==
    ASSUME Types, SafeInv, SwitchStep \/ PowerCut
    PROVE  SafeInv'
<1> USE DEF SafeInv, Still, Committed, WriteIsWatched
<1>1. CASE FlashBegins
  BY <1>1 DEF FlashBegins, Late, boot
<1>2. CASE FlashEnds
  BY <1>2 DEF FlashEnds, Late, boot
<1>3. CASE ImageDropped
  BY <1>3 DEF ImageDropped, boot
<1>4. CASE Restarts
  BY <1>4 DEF Restarts
<1> QED
  BY <1>1, <1>2, <1>3, <1>4 DEF SwitchStep, Reboots, PowerCut

\* The install.
LEMMA InstallSafe ==
    ASSUME Types, Places, SafeInv, OnceInv,
           Start \/ Cancelled \/ InstallStep
    PROVE  SafeInv'
<1> USE DEF flash, boot, SafeInv, Still, Committed, Early, Late,
            WriteIsWatched
<1>0. install \in Installs /\ next \in Slots /\ installs \in Nat
  BY DEF Types
<1>1. CASE Fail /\ UNCHANGED <<driver, flash, boot, installed, installs, cuts>>
  BY <1>1, IdleType DEF Fail
<1>2. CASE Start
  BY <1>0, <1>2 DEF Start, Goto, Installs
<1>3. CASE Downloaded
  BY <1>0, <1>3 DEF Downloaded, Goto, Installs
<1>4. CASE ReadStatus
  BY <1>0, <1>4 DEF ReadStatus, Installs
<1>5. CASE Upload
  BY <1>0, <1>5 DEF Upload, Goto, Installs
<1>6. CASE UploadDone
  BY <1>0, <1>6 DEF UploadDone, Goto, Installs
<1>7. CASE VerifyStaged
  BY <1>0, <1>1, <1>7 DEF VerifyStaged, Goto, Installs, Landed
<1>8. CASE Activate
  BY <1>0, <1>8 DEF Activate, Goto, Installs
<1>9. CASE VerifyBootSlot
  BY <1>0, <1>1, <1>9 DEF VerifyBootSlot, Goto, Installs
<1>10. CASE Reboot
  BY <1>0, <1>10 DEF Reboot, Goto, Installs
<1>11. CASE WaitDone
  BY <1>0, <1>11, IdleType DEF WaitDone, Installs
<1>12. CASE WaitAgain
  BY <1>0, <1>1, <1>12 DEF WaitAgain, Fail, Installs
<1>13. CASE FlashFinished
  <2>1. driver = "cheetah" /\ install.target \in Slots
    BY <1>13 DEF FlashFinished, Places
  <2>2. WriteIsWatched => Still
    BY <1>13, <2>1 DEF FlashFinished, OnceInv, NoneNew
  <2> QED
    BY <1>0, <1>13, <2>2 DEF FlashFinished, Installs
<1>14. CASE FlashPoll \/ FlashMissing \/ FlashPollFails
  <2>1. /\ install.pc \in {"flash", "recheck"}
        /\ install'.pc \in {"idle", "flash", "recheck"}
        /\ UNCHANGED <<driver, flash, boot, installed, installs, cuts>>
    BY <1>0, <1>14, IdleType
       DEF FlashPoll, FlashMissing, FlashPollFails, FlashPollAgain, Goto,
           Fail, Installs
  <2> QED
    BY <2>1
<1>15. CASE Cancelled \/ RequestFails \/ UploadFails \/ RebootRefused
  BY <1>1, <1>15 DEF Cancelled, RequestFails, UploadFails, RebootRefused
<1> QED
  BY <1>2, <1>3, <1>4, <1>5, <1>6, <1>7, <1>8, <1>9, <1>10, <1>11, <1>12,
     <1>13, <1>14, <1>15
     DEF InstallStep, AnsweredStep

-----------------------------------------------------------------------------
(***************************************************************************)
(* The old firmware                                                        *)
(***************************************************************************)
Working == {"upload", "flash", "recheck"} \union Late \union {"wait"}

(***************************************************************************)
(* The old firmware runs exactly while the slot that was booted holds it,  *)
(* and the slot that is written is another one: an install that began      *)
(* before a power cut may overwrite the booted slot, but not with the old  *)
(* firmware in it.                                                         *)
(***************************************************************************)
RollInv ==
    driver # "json" /\ WriteIsWatched =>
        /\ running = "old" <=> slots[booted] = "old"
        /\ slots[next] = "old" => next = booted
        /\ running = "old" =>
               /\ queued # booted /\ writing # booted
               /\ install.pc \in Working => install.target # booted

\* At the start the booted slot holds the old firmware.
LEMMA InitRoll == Init => RollInv
BY DEF Init, RollInv, Working, Late, IdleInstall, NoSlot, Slots

\* Restarts, and writes to the other slot.
LEMMA SwitchRoll ==
    ASSUME Types, SafeInv, RollInv, SwitchStep \/ PowerCut
    PROVE  RollInv'
<1> USE DEF Types, boot, RollInv, NoSlot, Slots, WriteIsWatched
<1>1. CASE FlashBegins
  BY <1>1 DEF FlashBegins
<1>2. CASE FlashEnds
  BY <1>2 DEF FlashEnds
<1>3. CASE ImageDropped
  BY <1>3 DEF ImageDropped
<1>4. CASE Restarts
  BY <1>4 DEF Restarts, SafeInv, Committed
<1> QED
  BY <1>1, <1>2, <1>3, <1>4 DEF SwitchStep, Reboots, PowerCut

\* The install.
LEMMA InstallRoll ==
    ASSUME Types, Places, SafeInv, RollInv,
           Start \/ Cancelled \/ InstallStep
    PROVE  RollInv'
<1> USE DEF flash, boot, RollInv, Late, Working, WriteIsWatched
<1>0. /\ install \in Installs /\ next \in Slots /\ booted \in Slots
      /\ installs \in Nat
  BY DEF Types
<1>1. CASE Fail /\ UNCHANGED <<driver, flash, boot, installed, installs, cuts>>
  BY <1>1, IdleType DEF Fail
<1>2. CASE Start
  BY <1>0, <1>2 DEF Start, Goto, Installs
<1>3. CASE Downloaded
  BY <1>0, <1>3 DEF Downloaded, Goto, Installs
<1>4. CASE ReadStatus
  BY <1>0, <1>4 DEF ReadStatus, Installs, Other, Slots
<1>5. CASE Upload
  BY <1>0, <1>5 DEF Upload, Goto, Installs
<1>6. CASE UploadDone
  BY <1>0, <1>6 DEF UploadDone, Goto, Installs
<1>7. CASE VerifyStaged
  BY <1>0, <1>1, <1>7 DEF VerifyStaged, Goto, Installs
<1>8. CASE Activate
  BY <1>0, <1>8 DEF Activate, Goto, Installs, SafeInv
<1>9. CASE VerifyBootSlot
  BY <1>0, <1>1, <1>9 DEF VerifyBootSlot, Goto, Installs
<1>10. CASE Reboot
  BY <1>0, <1>10 DEF Reboot, Goto, Installs
<1>11. CASE WaitDone
  BY <1>0, <1>11, IdleType DEF WaitDone, Installs
<1>12. CASE WaitAgain
  BY <1>0, <1>1, <1>12 DEF WaitAgain, Fail, Installs
<1>13. CASE FlashPoll \/ FlashFinished \/ FlashMissing \/ FlashPollFails
  <2>1. /\ install.pc \in {"flash", "recheck"}
        /\ \/ install' = IdleInstall
           \/ install'.target = install.target
        /\ UNCHANGED <<driver, flash, boot, installed, installs, cuts>>
    BY <1>0, <1>13
       DEF FlashPoll, FlashFinished, FlashMissing, FlashPollFails,
           FlashPollAgain, Goto, Fail, Installs
  <2> QED
    BY <2>1, IdleType
<1>14. CASE Cancelled \/ RequestFails \/ UploadFails \/ RebootRefused
  BY <1>1, <1>14 DEF Cancelled, RequestFails, UploadFails, RebootRefused
<1> QED
  BY <1>2, <1>3, <1>4, <1>5, <1>6, <1>7, <1>8, <1>9, <1>10, <1>11, <1>12,
     <1>13, <1>14
     DEF InstallStep, AnsweredStep

-----------------------------------------------------------------------------
(***************************************************************************)
(* What has been stored is the new image or part of it.                    *)
(***************************************************************************)
StagedInv ==
    driver # "json" /\ install.pc = "activate" =>
        slots[install.target] \in {"new", "broken"}

\* It stays so whatever the switch writes.
LEMMA StepStaged ==
    ASSUME Types, Places, StagedInv, [Next]_vars
    PROVE  StagedInv'
<1> USE DEF Types, StagedInv
<1>1. CASE FlashBegins
  BY <1>1 DEF FlashBegins, boot
<1>2. CASE FlashEnds
  BY <1>2 DEF FlashEnds, boot
<1>3. CASE VerifyStaged
  BY <1>3, IdleType DEF VerifyStaged, Landed, Goto, Fail, Installs, flash
<1>4. CASE ImageDropped \/ Reboots \/ PowerCut \/ UNCHANGED vars
  BY <1>4 DEF ImageDropped, Reboots, PowerCut, Restarts, vars, flash, boot
<1>5. ASSUME Start \/ Cancelled \/ InstallStep, ~VerifyStaged
      PROVE  install'.pc # "activate"
  BY <1>5, IdleType
     DEF Start, Cancelled, InstallStep, AnsweredStep, Downloaded, UploadFails,
         FlashPollFails, RebootRefused, WaitAgain, RequestFails, ReadStatus,
         Upload, UploadDone, FlashPoll, FlashFinished, FlashMissing,
         FlashPollAgain, Activate, VerifyBootSlot, Reboot, WaitDone, Goto,
         Fail, Installs
<1> QED
  BY <1>1, <1>2, <1>3, <1>4, <1>5 DEF Next, SwitchStep

-----------------------------------------------------------------------------
(***************************************************************************)
(* In a first install, the image to boot is whole.                         *)
(***************************************************************************)
WholeInv ==
    driver # "json" /\ installs <= 1 => slots[next] \in {"old", "new"}

\* The image to boot is not written while it is to be kept.
LEMMA NotWritten ==
    ASSUME Types, OnceInv, RollInv, WholeInv, BootImageKept
    PROVE  queued # next /\ writing # next
<1>1. driver # "json" /\ WriteIsWatched /\ next \in Slots
  BY DEF BootImageKept, Types
<1>2. CASE slots[next] = "old"
  BY <1>1, <1>2 DEF RollInv
<1>3. CASE slots[next] # "old"
  <2>1. installs <= 1 /\ slots[next] = "new"
    BY <1>1, <1>3 DEF BootImageKept, WholeInv
  <2>2. Still
    BY <1>1, <2>1 DEF OnceInv, NoneNew
  <2> QED
    BY <1>1, <2>2 DEF Still, NoSlot, Slots
<1> QED
  BY <1>2, <1>3

\* Only an activation points to another image, and that is whole.
LEMMA StepWhole ==
    ASSUME Types, OnceInv, SafeInv, RollInv, WholeInv, [Next]_vars
    PROVE  WholeInv'
<1>0. installs \in Nat /\ next \in Slots
  BY DEF Types
<1>1. ASSUME driver # "json", installs <= 1
      PROVE  queued # next /\ writing # next
  BY <1>1, NotWritten DEF BootImageKept, WriteIsWatched
<1>2. CASE FlashBegins
  BY <1>1, <1>2 DEF FlashBegins, WholeInv, boot, Types
<1>3. CASE FlashEnds
  BY <1>1, <1>3 DEF FlashEnds, WholeInv, boot, Types
<1>4. CASE Activate
  BY <1>4 DEF Activate, WholeInv, SafeInv, WriteIsWatched, flash
<1>5. CASE Start
  BY <1>0, <1>5 DEF Start, WholeInv, flash, boot
<1>6. CASE UNCHANGED <<driver, slots, next, installs>>
  BY <1>0, <1>6 DEF WholeInv
<1>7. CASE SwitchStep \/ PowerCut \/ UNCHANGED vars
  BY <1>2, <1>3, <1>6, <1>7
     DEF SwitchStep, ImageDropped, Reboots, PowerCut, Restarts, vars, flash,
         boot
<1>8. CASE Cancelled \/ InstallStep
  <2>1. Activate \/ UNCHANGED <<driver, slots, next, installs>>
    BY <1>8
       DEF Cancelled, InstallStep, AnsweredStep, Downloaded, UploadFails,
           FlashPollFails, RebootRefused, WaitAgain, RequestFails,
           ReadStatus, Upload, UploadDone, FlashPoll, FlashFinished,
           FlashMissing, VerifyStaged, VerifyBootSlot, Reboot, WaitDone,
           flash, boot
  <2> QED
    BY <1>4, <1>6, <2>1
<1> QED
  BY <1>5, <1>7, <1>8 DEF Next

-----------------------------------------------------------------------------
(***************************************************************************)
(* The inductive invariant, and what follows                               *)
(***************************************************************************)
IInv ==
    /\ Types /\ Places
    /\ OnceInv /\ SafeInv /\ RollInv /\ StagedInv /\ WholeInv

\* It holds for ever, for every driver.
LEMMA IInvHolds == Spec => []IInv
<1>1. Init => IInv
  BY InitTypes, InitOnce, InitSafe, InitRoll
     DEF IInv, StagedInv, WholeInv, Init, IdleInstall
<1>2. ASSUME IInv, [Next]_vars
      PROVE  IInv'
  <2> USE DEF IInv
  <2>1. Types' /\ Places'
    BY <1>2, StepTypes
  <2>2. StagedInv' /\ WholeInv'
    BY <1>2, StepStaged, StepWhole
  <2>3. CASE UNCHANGED vars
    <3>1. OnceInv'
      BY <1>2, <2>3 DEF vars, flash, boot, OnceInv, Still, NoneNew
    <3>2. SafeInv'
      BY <1>2, <2>3
         DEF vars, flash, boot, SafeInv, WriteIsWatched, Still, Committed
    <3>3. RollInv'
      BY <1>2, <2>3 DEF vars, flash, boot, RollInv, WriteIsWatched
    <3> QED
      BY <2>1, <2>2, <3>1, <3>2, <3>3
  <2>4. CASE SwitchStep \/ PowerCut
    BY <1>2, <2>1, <2>2, <2>4, SwitchOnce, SwitchSafe, SwitchRoll
  <2>5. CASE Start \/ Cancelled \/ InstallStep
    BY <1>2, <2>1, <2>2, <2>5, InstallOnce, InstallSafe, InstallRoll
  <2> QED
    BY <1>2, <2>3, <2>4, <2>5 DEF Next
<1> QED
  BY <1>1, <1>2, PTL DEF Spec

(***************************************************************************)
(* RebootIsSafe: from the last check to the restart the slot to be booted  *)
(* holds the whole image, however many installs and power cuts came        *)
(* before, as long as the driver can tell when the image is written.       *)
(***************************************************************************)
THEOREM RebootsAreSafe == Spec => []RebootIsSafe
<1>1. IInv => RebootIsSafe
  BY DEF IInv, SafeInv, RebootIsSafe, Committed
<1> QED
  BY <1>1, IInvHolds, PTL

(***************************************************************************)
(* InstalledIsRunning: the update entity shows the new version only while  *)
(* the switch runs it, and a power cut brings it back.                     *)
(***************************************************************************)
THEOREM EntityIsRight == Spec => []InstalledIsRunning
<1>1. IInv => InstalledIsRunning
  BY DEF IInv, SafeInv, InstalledIsRunning
<1> QED
  BY <1>1, IInvHolds, PTL

-----------------------------------------------------------------------------
(***************************************************************************)
(* The promise                                                             *)
(***************************************************************************)
(***************************************************************************)
(* The switch's own steps: only the slot that is written changes.  While   *)
(* the image to boot is to be kept, that is another one.                   *)
(***************************************************************************)
LEMMA SwitchPromise ==
    ASSUME IInv, SwitchStep \/ PowerCut
    PROVE  [Upgrade!Next]_<<running, slots[next]>>
<1> USE DEF IInv, Types, boot
<1>1. ASSUME UNCHANGED <<running, next>>,
             NEW s \in Slots, s = queued \/ s = writing,
             NEW image \in {"new", "broken"},
             slots' = [slots EXCEPT ![s] = image]
      PROVE  [Upgrade!Next]_<<running, slots[next]>>
  <2>1. CASE s # next
    BY <1>1, <2>1
  <2>2. CASE s = next
    <3>1. slots'[next'] = image
      BY <1>1, <2>2
    <3>2. ~BootImageKept
      BY <1>1, <2>2, NotWritten
    <3> QED
      BY <1>1, <3>1, <3>2 DEF Upgrade!Next, Upgrade!Rewrite
  <2> QED
    BY <2>1, <2>2
<1>2. ASSUME FlashBegins
      PROVE  [Upgrade!Next]_<<running, slots[next]>>
  BY <1>1, <1>2 DEF FlashBegins
<1>3. ASSUME FlashEnds
      PROVE  [Upgrade!Next]_<<running, slots[next]>>
  BY <1>1, <1>3 DEF FlashEnds
<1>4. ASSUME Restarts
      PROVE  [Upgrade!Next]_<<running, slots[next]>>
  BY <1>4 DEF Restarts, Upgrade!Next, Upgrade!Restart
<1>5. ASSUME ImageDropped
      PROVE  [Upgrade!Next]_<<running, slots[next]>>
  BY <1>5 DEF ImageDropped
<1> QED
  BY <1>2, <1>3, <1>4, <1>5 DEF SwitchStep, Reboots, PowerCut

\* The install's: Activate alone changes what is booted, to what was stored.
LEMMA InstallPromise ==
    ASSUME IInv, Start \/ Cancelled \/ InstallStep
    PROVE  [Upgrade!Next]_<<running, slots[next]>>
<1> USE DEF boot, flash
<1>1. ASSUME Activate
      PROVE  [Upgrade!Next]_<<running, slots[next]>>
  <2>1. UNCHANGED <<slots, running>>
    BY <1>1 DEF Activate
  <2>2. CASE next' = next
    BY <2>1, <2>2
  <2>3. CASE slots[next'] = "new"
    BY <2>1, <2>3 DEF Upgrade!Next, Upgrade!Arm
  <2>4. CASE driver # "json" /\ next' = install.target
    <3>1. slots[install.target] \in {"new", "broken"}
      BY <1>1, <2>4 DEF IInv, StagedInv, Activate
    <3>2. slots[install.target] = "new" \/ ~WriteIsWatched
      BY <1>1, <2>4 DEF IInv, SafeInv, Activate
    <3> QED
      BY <2>1, <2>3, <2>4, <3>1, <3>2
         DEF BootImageKept, Upgrade!Next, Upgrade!Rewrite
  <2> QED
    BY <1>1, <2>2, <2>3, <2>4 DEF Activate
<1>2. Activate \/ UNCHANGED <<running, slots, next>>
  BY DEF Start, Cancelled, InstallStep, AnsweredStep, Downloaded, UploadFails,
         FlashPollFails, RebootRefused, WaitAgain, RequestFails, ReadStatus,
         Upload, UploadDone, FlashPoll, FlashFinished, FlashMissing,
         VerifyStaged, VerifyBootSlot, Reboot, WaitDone
<1> QED
  BY <1>1, <1>2

(***************************************************************************)
(* KeepsUpgradePromise: for every driver and any number of installs, power *)
(* cuts and polls, what an install does to the switch is a step of         *)
(* FirmwareUpgrade.  A driver that names the slot leaves the image to boot *)
(* alone until it is the new one, in a first install for good; what the    *)
(* others and later installs may do to it is in the README's section 6.    *)
(***************************************************************************)
THEOREM InstallKeepsPromise == Spec => KeepsUpgradePromise
<1>1. Init => Upgrade!Init
  BY DEF Init, Upgrade!Init
<1>2. IInv /\ [Next]_vars => [Upgrade!Next]_<<running, slots[next]>>
  <2>1. UNCHANGED vars => UNCHANGED <<running, slots[next]>>
    BY DEF vars, flash, boot
  <2> QED
    BY <2>1, SwitchPromise, InstallPromise DEF Next
<1> QED
  BY <1>1, <1>2, IInvHolds, PTL DEF Spec, KeepsUpgradePromise, Upgrade!Spec
=============================================================================
