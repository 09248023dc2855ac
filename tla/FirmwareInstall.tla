--------------------------- MODULE FirmwareInstall ---------------------------
(***************************************************************************)
(* A firmware install, from the update entity through one of the four      *)
(* drivers to the two flash slots of the switch: download, upload, check   *)
(* where the image landed, activate, check that too, reboot, wait for the  *)
(* new version.  Each request may fail, each answer may be lost while the  *)
(* switch goes on, Home Assistant may stop and the switch may lose power.  *)
(*                                                                         *)
(* The switch is external: what it does with a request is modelled from    *)
(* how the drivers use it and from what they say about it.                 *)
(***************************************************************************)
EXTENDS Naturals

CONSTANTS
    Drivers,     \* among "json", "legacy", "base" (classic), "cheetah" (S350)
    FlashPolls,  \* _CHEETAH_FLASH_POLL_ATTEMPTS
    FlashGrace,  \* _CHEETAH_FLASH_START_GRACE
    RebootPolls, \* _REBOOT_POLL_ATTEMPTS
    MaxInstalls, \* bound: installs the user starts
    MaxCuts      \* bound: power cuts of the switch

ASSUME FirmwareAssumption ==
    /\ Drivers \subseteq {"json", "legacy", "base", "cheetah"}
    /\ FlashPolls \in Nat \ {0}
    /\ FlashGrace \in 0 .. FlashPolls
    /\ RebootPolls \in Nat \ {0}
    /\ MaxInstalls \in Nat
    /\ MaxCuts \in Nat

VARIABLES
    driver,    \* the switch's driver
    slots,     \* the switch: the image in each slot
    booted,    \* the slot it booted from (current_active)
    next,      \* the slot it boots next (next_active)
    running,   \* the version it runs
    queued,    \* the slot an accepted image will be written to
    writing,   \* the slot being written
    rebooting, \* it has accepted a reboot and still answers
    install,   \* the install in progress
    installed, \* the update entity's installed_version
    installs, cuts \* how much of the bounds is used

flash == <<slots, queued, writing>>
boot == <<booted, next, running, rebooting>>
vars == <<driver, flash, boot, install, installed, installs, cuts>>

Slots == {"image1", "image2"}
NoSlot == "none"
Other(s) == IF s = "image1" THEN "image2" ELSE "image1"

\* broken: an image that is only partly written, or damaged
Images == {"old", "older", "new", "broken"}

(***************************************************************************)
(* Each pc names the request that is next or in flight: flash and recheck  *)
(* wait for the switch to store the image, staged and check re-read the    *)
(* slots, wait polls the rebooted switch.  started: the S350 driver saw    *)
(* the switch write flash.                                                 *)
(***************************************************************************)
Pcs == {"idle", "download", "status", "upload", "flash", "recheck", "staged",
        "activate", "check", "reboot", "wait"}
Installs == [pc: Pcs, target: Slots \union {NoSlot}, started: BOOLEAN,
             polls: Nat]
IdleInstall == [pc |-> "idle", target |-> NoSlot, started |-> FALSE,
                polls |-> 0]

TypeOK ==
    /\ driver \in Drivers
    /\ slots \in [Slots -> Images]
    /\ booted \in Slots
    /\ next \in Slots
    /\ running \in Images
    /\ queued \in Slots \union {NoSlot}
    /\ writing \in Slots \union {NoSlot}
    /\ rebooting \in BOOLEAN
    /\ install \in Installs
    /\ install.polls < (IF driver = "cheetah" /\ FlashPolls > RebootPolls
                          THEN FlashPolls ELSE RebootPolls)
    /\ installed \in {"old", "new"}
    /\ installs \in 0 .. MaxInstalls
    /\ cuts \in 0 .. MaxCuts

Init ==
    /\ driver \in Drivers
    /\ booted \in Slots
    /\ slots = [s \in Slots |-> IF s = booted THEN "old" ELSE "older"]
    /\ next = booted
    /\ running = "old"
    /\ queued = NoSlot
    /\ writing = NoSlot
    /\ rebooting = FALSE
    /\ install = IdleInstall
    /\ installed = "old"
    /\ installs = 0
    /\ cuts = 0

-----------------------------------------------------------------------------
(***************************************************************************)
(* The switch                                                              *)
(***************************************************************************)
\* It begins to write the image it holds: the slot's old content is gone
FlashBegins ==
    /\ queued # NoSlot
    /\ slots' = [slots EXCEPT ![queued] = "broken"]
    /\ writing' = queued
    /\ queued' = NoSlot
    /\ UNCHANGED <<driver, boot, install, installed, installs, cuts>>

\* It has written the image, well or badly
FlashEnds ==
    /\ writing # NoSlot
    /\ \E image \in {"new", "broken"} :
          slots' = [slots EXCEPT ![writing] = image]
    /\ writing' = NoSlot
    /\ UNCHANGED <<driver, queued, boot, install, installed, installs, cuts>>

Restarts ==
    /\ running' = slots[next]
    /\ booted' = next
    /\ rebooting' = FALSE
    /\ queued' = NoSlot
    /\ writing' = NoSlot
    /\ UNCHANGED <<driver, slots, next, install, installed, installs>>

\* The reboot it was asked for
Reboots == rebooting /\ Restarts /\ UNCHANGED cuts

PowerCut == cuts < MaxCuts /\ cuts' = cuts + 1 /\ Restarts

-----------------------------------------------------------------------------
(***************************************************************************)
(* The install                                                             *)
(***************************************************************************)
Goto(pc) == install' = [install EXCEPT !.pc = pc]
Fail == install' = IdleInstall

\* A NetgearError or HomeAssistantError ends the install wherever it is
RequestFails ==
    /\ install.pc \notin {"idle", "flash", "recheck", "reboot", "wait"}
    /\ Fail
    /\ UNCHANGED <<driver, flash, boot, installed, installs, cuts>>

\* Home Assistant stops, or the call is cancelled
Cancelled ==
    /\ install.pc # "idle"
    /\ Fail
    /\ UNCHANGED <<driver, flash, boot, installed, installs, cuts>>

\* async_install: the entity offers the update while it shows the old version
Start ==
    /\ install.pc = "idle"
    /\ installed = "old"
    /\ installs < MaxInstalls
    /\ installs' = installs + 1
    /\ Goto("download")
    /\ UNCHANGED <<driver, flash, boot, installed, cuts>>

\* _async_download and _extract_image
Downloaded ==
    /\ install.pc = "download"
    /\ Goto("status")
    /\ UNCHANGED <<driver, flash, boot, installed, installs, cuts>>

\* Mutant: the slot that is running counts as the one to overwrite
ReadStatusActive ==
    /\ install.pc = "status"
    /\ install' = [install EXCEPT !.pc = "upload", !.target = booted]
    /\ UNCHANGED <<driver, flash, boot, installed, installs, cuts>>

\* async_get_image_status; the target is the slot that is not running
ReadStatus ==
    /\ install.pc = "status"
    /\ install' = [install EXCEPT !.pc = "upload", !.target = Other(booted)]
    /\ UNCHANGED <<driver, flash, boot, installed, installs, cuts>>

(***************************************************************************)
(* The image goes out and the switch accepts it, unless it is busy with an *)
(* earlier one or going down.  A JSON switch picks the slot itself.        *)
(***************************************************************************)
Upload ==
    /\ install.pc = "upload"
    /\ ~rebooting
    /\ queued = NoSlot
    /\ writing = NoSlot
    /\ \E s \in (IF driver = "json" THEN Slots ELSE {install.target}) :
          queued' = s
    /\ Goto("flash")
    /\ UNCHANGED <<driver, slots, writing, boot, installed, installs, cuts>>

\* The switch drops the image it was sent instead of writing it
ImageDropped ==
    /\ queued # NoSlot
    /\ queued' = NoSlot
    /\ UNCHANGED <<driver, slots, writing, boot, install, installed,
                   installs, cuts>>

(***************************************************************************)
(* JSON, legacy, classic: the switch answers that the image is stored once *)
(* it is done with it, or the upload fails, perhaps while it still writes. *)
(***************************************************************************)
UploadDone ==
    /\ driver # "cheetah"
    /\ install.pc = "flash"
    /\ queued = NoSlot
    /\ writing = NoSlot
    /\ Goto("staged")
    /\ UNCHANGED <<driver, flash, boot, installed, installs, cuts>>

UploadFails ==
    /\ driver # "cheetah"
    /\ install.pc = "flash"
    /\ Fail
    /\ UNCHANGED <<driver, flash, boot, installed, installs, cuts>>

\* Mutant: the loop goes on without counting
FlashPollUncounted == install' = [install EXCEPT !.pc = "flash"]

\* One more poll of the flash loop, or the last one has been made
FlashPollAgain ==
    install' = IF install.polls + 1 = FlashPolls
                 THEN IdleInstall
                 ELSE [install EXCEPT !.pc = "flash", !.polls = @ + 1]

\* S350: is the transfer in progress?
FlashPoll ==
    /\ driver = "cheetah"
    /\ install.pc = "flash"
    /\ IF writing # NoSlot
         THEN install' = IF install.polls + 1 = FlashPolls
                           THEN IdleInstall
                           ELSE [install EXCEPT !.started = TRUE,
                                                !.polls = @ + 1]
         ELSE Goto("recheck")
    /\ UNCHANGED <<driver, flash, boot, installed, installs, cuts>>

\* It is not: does the slot hold the version?  Then it has finished
FlashFinished ==
    /\ install.pc = "recheck"
    /\ slots[install.target] = "new"
    /\ install' = [install EXCEPT !.pc = "staged", !.polls = 0]
    /\ UNCHANGED <<driver, flash, boot, installed, installs, cuts>>

(***************************************************************************)
(* It does not.  After a write that was seen, the error the code raises is *)
(* caught by its own handler and the loop goes on; without one, the loop   *)
(* gives up when the grace is over.                                        *)
(***************************************************************************)
FlashMissing ==
    /\ install.pc = "recheck"
    /\ slots[install.target] # "new"
    /\ IF ~install.started /\ install.polls >= FlashGrace
         THEN Fail
         ELSE FlashPollAgain
    /\ UNCHANGED <<driver, flash, boot, installed, installs, cuts>>

(***************************************************************************)
(* A poll of the flash loop fails: tolerated once the write has been seen, *)
(* unless the session was rejected.                                        *)
(***************************************************************************)
FlashPollFails ==
    /\ driver = "cheetah"
    /\ install.pc \in {"flash", "recheck"}
    /\ \/ install.started /\ FlashPollAgain
       \/ Fail
    /\ UNCHANGED <<driver, flash, boot, installed, installs, cuts>>

\* The image landed: in the target, or, on a JSON switch, in either slot
Landed ==
    IF driver = "json"
      THEN \E s \in Slots : slots[s] = "new"
      ELSE slots[install.target] = "new"

VerifyStaged ==
    /\ install.pc = "staged"
    /\ IF Landed THEN Goto("activate") ELSE Fail
    /\ UNCHANGED <<driver, flash, boot, installed, installs, cuts>>

(***************************************************************************)
(* The slot is made the next one to boot; a switch may ignore the request. *)
(* A JSON switch is told the version, not the slot.                        *)
(***************************************************************************)
Activate ==
    /\ install.pc = "activate"
    /\ \/ next' = next
       \/ driver = "json" /\ \E s \in Slots : slots[s] = "new" /\ next' = s
       \/ driver # "json" /\ next' = install.target
    /\ Goto("check")
    /\ UNCHANGED <<driver, flash, booted, running, rebooting, installed,
                   installs, cuts>>

\* Mutant: the check of the boot slot is gone
VerifyNothing ==
    /\ install.pc = "check"
    /\ Goto("reboot")
    /\ UNCHANGED <<driver, flash, boot, installed, installs, cuts>>

VerifyBootSlot ==
    /\ install.pc = "check"
    /\ IF \/ driver = "json" /\ slots[next] = "new"
          \/ driver # "json" /\ next = install.target
         THEN Goto("reboot")
         ELSE Fail
    /\ UNCHANGED <<driver, flash, boot, installed, installs, cuts>>

\* The reboot is asked for; the lost answer of one that took is its success
Reboot ==
    /\ install.pc = "reboot"
    /\ rebooting' \in {rebooting, TRUE}
    /\ Goto("wait")
    /\ UNCHANGED <<driver, flash, booted, next, running, installed, installs,
                   cuts>>

\* The classic and S350 drivers report a refusal; the others swallow it
RebootRefused ==
    /\ install.pc = "reboot"
    /\ driver \in {"base", "cheetah"}
    /\ Fail
    /\ UNCHANGED <<driver, flash, boot, installed, installs, cuts>>

\* Mutant: the first answer after the reboot request ends the wait
AnyVersionWillDo ==
    /\ install.pc = "wait"
    /\ install' = IdleInstall
    /\ installed' = "new"
    /\ UNCHANGED <<driver, flash, boot, installs, cuts>>

\* The switch reports the new version: the update entity takes it over
WaitDone ==
    /\ install.pc = "wait"
    /\ running = "new"
    /\ install' = IdleInstall
    /\ installed' = "new"
    /\ UNCHANGED <<driver, flash, boot, installs, cuts>>

\* Mutant: one poll too many
WaitOnceMore ==
    /\ install.pc = "wait"
    /\ install' = IF install.polls = RebootPolls
                    THEN IdleInstall
                    ELSE [install EXCEPT !.polls = @ + 1]
    /\ UNCHANGED <<driver, flash, boot, installed, installs, cuts>>

\* It does not answer, or still reports the old one
WaitAgain ==
    /\ install.pc = "wait"
    /\ install' = IF install.polls + 1 = RebootPolls
                    THEN IdleInstall
                    ELSE [install EXCEPT !.polls = @ + 1]
    /\ UNCHANGED <<driver, flash, boot, installed, installs, cuts>>

\* A switch that booted a broken image answers nothing
Answers == running # "broken"

AnsweredStep ==
    \/ ReadStatus
    \/ Upload
    \/ UploadDone
    \/ FlashPoll
    \/ FlashFinished
    \/ FlashMissing
    \/ VerifyStaged
    \/ Activate
    \/ VerifyBootSlot
    \/ Reboot
    \/ WaitDone

InstallStep ==
    \/ Downloaded
    \/ Answers /\ AnsweredStep
    \/ UploadFails
    \/ FlashPollFails
    \/ RebootRefused
    \/ WaitAgain
    \/ RequestFails

SwitchStep ==
    \/ FlashBegins
    \/ FlashEnds
    \/ ImageDropped
    \/ Reboots

Next ==
    \/ Start
    \/ InstallStep
    \/ Cancelled
    \/ SwitchStep
    \/ PowerCut

Spec == Init /\ [][Next]_vars

(***************************************************************************)
(* Every request of an install ends, at the latest in its timeout.  The    *)
(* switch is owed nothing: it may write for ever and never reboot.         *)
(***************************************************************************)
FairSpec == Spec /\ WF_vars(InstallStep)

-----------------------------------------------------------------------------
(***************************************************************************)
(* Properties                                                              *)
(***************************************************************************)
(***************************************************************************)
(* The driver can tell when the switch has written the image: always, or,  *)
(* on the S350, in the first install.  In a repeated one it takes what the *)
(* first left in the slot for its own: see FlashedBeforeReboot.            *)
(***************************************************************************)
WriteIsWatched == driver # "cheetah" \/ installs <= 1

(***************************************************************************)
(* The doc string of the JSON install: nothing irreversible happens unless *)
(* the new version is stored and set to boot next.  From the last check to *)
(* the restart the slot to be booted holds the whole image, however many   *)
(* installs came before, as long as the write is watched.                  *)
(***************************************************************************)
RebootIsSafe ==
    WriteIsWatched =>
        (install.pc = "reboot" \/ rebooting => slots[next] = "new")

(***************************************************************************)
(* The update entity shows the new version only when the switch runs it,   *)
(* now and after any power cut: an answer from the old firmware before the *)
(* switch goes down, or a reboot that was ignored, does not count.         *)
(***************************************************************************)
InstalledIsRunning ==
    WriteIsWatched /\ installed = "new" => running = "new"

(***************************************************************************)
(* Every install ends, although the switch may never finish writing, never *)
(* reboot or never come back; polling stays suspended until it does.  On   *)
(* the S350 the flash loop must end although its error handler swallows    *)
(* the loop's own verdict.                                                 *)
(***************************************************************************)
InstallEnds == install.pc # "idle" ~> install.pc = "idle"

(***************************************************************************)
(* The driver keeps its hands off the image the switch would boot: while   *)
(* that is the old one, and in a first install also once it is the new     *)
(* one.  Not on a JSON switch, which picks the slot (RollbackOnEvery-      *)
(* Backend), nor in a repeated install of the S350 (FlashedBeforeReboot)   *)
(* or behind an activation (OverwritesSafeSlot).                           *)
(***************************************************************************)
BootImageKept ==
    /\ driver # "json"
    /\ WriteIsWatched
    /\ installs <= 1 \/ slots[next] = "old"

\* The switch, seen as the promise of FirmwareUpgrade
Upgrade == INSTANCE FirmwareUpgrade
               WITH boots <- slots[next], kept <- BootImageKept

(***************************************************************************)
(* Installs, finished or cut short anywhere, keep the promise of           *)
(* FirmwareUpgrade: a crash or power cut at any step finds no half-written *)
(* image to boot where the slots keep them apart, only a restart changes   *)
(* what runs, and nothing takes the switch back to an image older than the *)
(* one it would boot.                                                      *)
(***************************************************************************)
KeepsUpgradePromise == Upgrade!Spec

(***************************************************************************)
(* README.md:100-108, of every backend: the running version stays in the   *)
(* other slot as a rollback, and the integration refuses to proceed unless *)
(* the image landed in the inactive slot, so a reboot never leaves the     *)
(* switch without the version it ran.  Not so on a JSON switch that writes *)
(* over the running slot: _async_verify_staged (api.py:951) asks only      *)
(* whether some slot holds the new version.                                *)
(***************************************************************************)
RollbackOnEveryBackend ==
    install.pc = "reboot" => \E s \in Slots : slots[s] = running

(***************************************************************************)
(* The flash loop's comment (api_base_ui.py:1306): when the switch is not  *)
(* writing, it has either finished or never began, so with the version in  *)
(* the slot the write is over, and the slot the S350 is told to reboot     *)
(* into holds the image.  Not so when an earlier install of the same       *)
(* version got as far as the slot.                                         *)
(***************************************************************************)
FlashedBeforeReboot ==
    install.pc = "reboot" => slots[next] = "new" /\ writing = NoSlot

(***************************************************************************)
(* DualImageStatus.inactive, "The slot that is safe to overwrite"          *)
(* (api.py:230): the slot an install overwrites is never the one the       *)
(* switch boots next, so a power cut during the write finds a whole image. *)
(* Not so when an earlier install ended behind its activation: inactive is *)
(* the slot that is not running.                                           *)
(***************************************************************************)
OverwritesSafeSlot == writing # NoSlot => writing # next
=============================================================================
