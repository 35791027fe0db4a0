------------------------------ MODULE OtaUpdate -------------------------------
(***************************************************************************)
(* The update of a node's program over the network: ota_check_and_update   *)
(* (components/smart_utilities/ota/ota_updater.cpp) and the requests it    *)
(* makes (network/http_cmd.cpp).  Two partitions hold a program each; the  *)
(* one that does not run is overwritten, and chosen for the next boot when *)
(* it is complete.                                                         *)
(*                                                                         *)
(* A version is a number in the order of strcmp.  The server is external,  *)
(* and so are the checks of esp_ota_end and esp_ota_set_boot_partition     *)
(* (an image must be complete) and the bootloader.                         *)
(***************************************************************************)
EXTENDS Naturals

CONSTANTS
    LastVersion,  \* bound: versions the server ever offers
    Parts         \* pieces of OTA_READ_BUFF_LEN of an image

ASSUME OtaAssumption == LastVersion \in Nat /\ Parts \in Nat \ {0}

VARIABLES
    flash,    \* each partition's image: its version, and how many parts of it
    boot,     \* the partition chosen for the next boot
    runs,     \* the partition that runs
    offer,    \* the version on the server
    ota       \* where ota_check_and_update is

otaVars == <<flash, boot, runs, offer, ota>>

Slots == {0, 1}
Other == 1 - runs
Whole(image) == image.parts = Parts
OtaInit ==
    /\ flash = [s \in Slots |-> [ver |-> 0, parts |-> IF s = 0 THEN Parts ELSE 0]]
    /\ boot = 0 /\ runs = 0
    /\ offer = 0
    /\ ota = "off"

(* A restart, of its own or because the power fails. *)
OtaReset ==
    /\ runs' = boot
    /\ ota' = "off"
    /\ UNCHANGED <<flash, boot, offer>>

-----------------------------------------------------------------------------
Passes(from, to) == ota = from /\ ota' = to

(* getNewImageBuildVersion, not asked within five minutes of the last      *)
(* time.  A short read cuts the version: it is smaller.                    *)
AskVersion ==
    /\ \E v \in 0 .. offer : v > flash[runs].ver
    /\ Passes("off", "open")
    /\ UNCHANGED <<flash, boot, runs, offer>>

(* No answer, no memory, no partition. *)
FailToStart ==
    /\ Passes("open", "off")
    /\ UNCHANGED <<flash, boot, runs, offer>>

(* HTTPCmd::open, esp_ota_begin: the old image is gone, whether or not     *)
(* the new one arrives.                                                    *)
Begin ==
    /\ Passes("open", "read")
    /\ flash' = [flash EXCEPT ![Other] = [ver |-> offer, parts |-> 0]]
    /\ UNCHANGED <<boot, runs, offer>>

ReadAndWrite ==
    /\ Passes("read", "read") /\ flash[Other].parts < Parts
    /\ flash' = [flash EXCEPT ![Other].parts = @ + 1]
    /\ UNCHANGED <<boot, runs, offer>>

(* The read fails, or the write. *)
FailToWrite ==
    /\ Passes("read", "off")
    /\ UNCHANGED <<flash, boot, runs, offer>>

(* Nothing more to read: all has been, or the server has closed.           *)
NoMore ==
    /\ Passes("read", "end")
    /\ UNCHANGED <<flash, boot, runs, offer>>

(* (A fault: what esp_ota_end says is not looked at.) *)
EndUnchecked == Passes("end", "boot")

(* esp_ota_end *)
EndChecked == Passes("end", IF Whole(flash[Other]) THEN "boot" ELSE "off")

EndOta ==
    /\ EndChecked
    /\ UNCHANGED <<flash, boot, runs, offer>>

(* esp_ota_set_boot_partition, whose result nobody looks at: the image is  *)
(* checked again, and the choice written, if the flash lets it.            *)
SetBoot ==
    /\ \/ /\ Passes("boot", "restart")
          /\ boot' = IF Whole(flash[Other]) THEN Other ELSE boot
       \/ Passes("boot", "unwritten") /\ UNCHANGED boot
    /\ UNCHANGED <<flash, runs, offer>>

(* One second later. *)
EspRestart == ota \in {"restart", "unwritten"} /\ OtaReset

OtaTask ==
    \/ AskVersion \/ FailToStart \/ Begin \/ ReadAndWrite \/ FailToWrite \/ NoMore
    \/ EndOta \/ SetBoot \/ EspRestart

(* Somebody puts a newer program on the server. *)
Publish ==
    /\ offer < LastVersion
    /\ offer' = offer + 1
    /\ UNCHANGED <<flash, boot, runs, ota>>

-----------------------------------------------------------------------------
(* "OTA upgrade finished, restarting...": the restart, or the loss of      *)
(* power before it, brings a program that is whole and newer than the one  *)
(* that ran, unless the choice of the partition could not be written; it   *)
(* does not bring the same program again, to find the same update again.   *)
UpdatesRestartIntoNewer ==
    [][ ota = "restart" /\ ota' # "restart" =>
            Whole(flash[runs']) /\ flash[runs'].ver > flash[runs].ver ]_otaVars
=============================================================================
