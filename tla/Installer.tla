------------------------------- MODULE Installer -------------------------------
(***************************************************************************)
(* installer.exe (installer.c): DoInstall and DoUninstall as the sequences *)
(* of file, registry and bcdedit calls they are, each of which may fail,   *)
(* with the machine that may lose power between any two of them and boots  *)
(* from what they left on the disk.  One installer process runs at a time. *)
(*                                                                         *)
(* External: what CopyFile, the registry, bcdedit and the boot sequence    *)
(* (boot drivers, then the BootExecute program, then Windows) do.          *)
(***************************************************************************)
EXTENDS Naturals

CONSTANTS DriversSys,  \* the number of files DoInstall copies; the last one
                       \* is System32\drivers\BadAppleAudio.sys
          Settings     \* the bcdedit settings: testsigning, nointegritychecks

ASSUME DriversSysAssumption == DriversSys \in Nat /\ DriversSys >= 2
ASSUME SettingsAssumption == Settings # {}

\* The files, numbered in the order DoInstall copies them: native.exe first,
\* then the data files and the driver.  InstallerExe is deleted by
\* DoUninstall but copied by nothing.
InstallerExe == 0
NativeExe == 1

Files == 0..DriversSys
Copied == 1..DriversSys
InstallDirFiles == 0..(DriversSys - 1)

VARIABLES machine,  \* "windows", "boot" or "shell" (native.exe runs)
          pc,       \* where the installer process is
          step,     \* the file it copies or deletes next
          disk,     \* what is stored of each file
          dir,      \* INSTALL_DIR exists
          boot,     \* the BootExecute value
          key,      \* the values of Services\BadAppleAudio
          relaxed,  \* bcdedit settings that are on
          late,     \* bcdedit commands still running after their 30 s wait
          driver,   \* the boot loaded the driver
          told,     \* the last message of the installer
          bootWas,  \* history: boot when the installer started
          hurt      \* history: failures the installer went on after
                    \* (WinMain says which outlive an attempt)

vars == <<machine, pc, step, disk, dir, boot, key, relaxed, late, driver,
          told, bootWas, hurt>>
--------------------------------------------------------------------------------
Init == /\ machine = "windows"
        /\ pc = "idle"
        /\ step = 1
        /\ disk = [f \in Files |-> "absent"]
        /\ dir = FALSE
        /\ boot = "autochk"
        /\ key = "none"
        /\ relaxed = {}
        /\ late = {}
        /\ driver = FALSE
        /\ told = "nothing"
        /\ bootWas = "autochk"
        /\ hurt = {}

\* ShowErr: the message box and ExitProcess(1).
ShowErr == pc' = "idle" /\ step' = 1 /\ told' = "error"

\* Failures of an earlier attempt that still matter: BootExecute stayed
\* armed over them, or a bcdedit of it is still running.
Outstanding == (hurt \cap {"overwrite", "restore"}) \cup (IF late = {} THEN {} ELSE {"late"})

\* WinMain: the command line decides, the administrator check comes first.
WinMain ==
  /\ machine = "windows" /\ pc = "idle"
  /\ bootWas' = boot
  /\ \/ ShowErr
     \/ pc' \in {"mkdir", "restore"} /\ step' = 1 /\ told' = "nothing"
     \/ pc' = "idle" /\ step' = 1 /\ told' = "nothing"  \* the user declines
  /\ hurt' = Outstanding
  /\ UNCHANGED <<machine, disk, dir, boot, key, relaxed, late, driver>>

CreateInstallDir ==
  /\ pc = "mkdir"
  /\ \/ /\ dir' = TRUE
        /\ pc' = "copy"
        /\ UNCHANGED <<step, told>>
     \/ /\ ~dir
        /\ ShowErr
        /\ UNCHANGED dir
  /\ UNCHANGED <<machine, disk, boot, key, relaxed, late, driver, bootWas, hurt>>

\* CopyFileA truncates the destination first, which nothing restores: what
\* an earlier installation armed is broken until the copy is complete.
StartCopy ==
  /\ pc = "copy" /\ step \in Copied
  /\ \/ /\ disk' = [disk EXCEPT ![step] = "partial"]
        /\ pc' = "copying"
        /\ hurt' = IF boot = "native" THEN hurt \cup {"overwrite"} ELSE hurt
        /\ UNCHANGED <<step, told>>
     \/ /\ ShowErr                             \* the source is missing
        /\ UNCHANGED <<disk, hurt>>
  /\ UNCHANGED <<machine, dir, boot, key, relaxed, late, driver, bootWas>>

\* Mutant of FinishCopy: the last file is forgotten.
FinishCopy_Short ==
  /\ pc = "copying"
  /\ disk' = [disk EXCEPT ![step] = "whole"]
  /\ step' = IF step = DriversSys - 1 THEN 1 ELSE step + 1
  /\ pc' = IF step = DriversSys - 1 THEN "setboot" ELSE "copy"
  /\ UNCHANGED <<machine, dir, boot, key, relaxed, late, driver, told, bootWas, hurt>>

FinishCopy ==
  /\ pc = "copying"
  /\ \/ /\ disk' = [disk EXCEPT ![step] = "whole"]
        /\ step' = IF step = DriversSys THEN 1 ELSE step + 1
        /\ pc' = IF step = DriversSys THEN "setboot" ELSE "copy"
        /\ UNCHANGED told
     \/ /\ ShowErr
        /\ disk' \in {disk, [disk EXCEPT ![step] = "absent"]}
  /\ UNCHANGED <<machine, dir, boot, key, relaxed, late, driver, bootWas, hurt>>

SetBootExecute ==
  /\ pc = "setboot"
  /\ \/ /\ boot' = "native"
        /\ pc' = "setkey"
        /\ hurt' = hurt \ {"overwrite", "restore"}
        /\ UNCHANGED <<step, told>>
     \/ /\ ShowErr
        /\ UNCHANGED <<boot, hurt>>
  /\ UNCHANGED <<machine, disk, dir, key, relaxed, late, driver, bootWas>>

\* Mutant of CreateDriverServiceKey: the values of an existing key are not
\* written again.
CreateDriverServiceKey_KeepsOld ==
  /\ pc = "setkey"
  /\ \/ key' = (IF key = "none" THEN "whole" ELSE key) /\ UNCHANGED hurt
     \/ /\ key' \in {key, IF key = "none" THEN "partial" ELSE "whole"}
        /\ hurt' = hurt \cup {"key"}
  /\ pc' = "sign"
  /\ UNCHANGED <<machine, step, disk, dir, boot, relaxed, late, driver, told, bootWas>>

\* All its calls succeed; or some do not, and it says nothing: it returns
\* when the key cannot be created, and goes on when a value is not written.
CreateDriverServiceKey ==
  /\ pc = "setkey"
  /\ \/ key' = "whole" /\ UNCHANGED hurt
     \/ /\ key' \in {key, IF key = "none" THEN "partial" ELSE "whole"}
        /\ hurt' = hurt \cup {"key"}
  /\ pc' = "sign"
  /\ UNCHANGED <<machine, step, disk, dir, boot, relaxed, late, driver, told, bootWas>>

\* RunSilent gives a command 30 s; the exit codes are not looked at.  done
\* are the commands that took effect, slow those still running afterwards.
RunBcdedit(value) ==
  \E done \in SUBSET Settings : \E slow \in SUBSET (Settings \ done) :
    /\ relaxed' = IF value = "on" THEN relaxed \cup done ELSE relaxed \ done
    /\ late' = late \cup ({value} \X slow)
    /\ hurt' = (hurt \ {value}) \cup (IF done = Settings THEN {} ELSE {value})
                                \cup (IF slow = {} THEN {} ELSE {"late"})

DisableDriverSigning ==
  /\ pc = "sign"
  /\ RunBcdedit("on")
  /\ pc' = "report"
  /\ UNCHANGED <<machine, step, disk, dir, boot, key, driver, told, bootWas>>

\* A command that outlived its wait takes effect, or fails after all.
LateBcdedit ==
  /\ machine = "windows"
  /\ \E c \in late :
       /\ late' = late \ {c}
       /\ relaxed' \in {relaxed, IF c[1] = "on" THEN relaxed \cup {c[2]}
                                                ELSE relaxed \ {c[2]}}
  /\ UNCHANGED <<machine, pc, step, disk, dir, boot, key, driver, told, bootWas, hurt>>

\* Mutant of ReportInstalled: the installer goes on while Windows reboots.
ReportInstalled_Lingers ==
  /\ pc = "report"
  /\ told' = "installed"
  /\ machine' = "boot" /\ late' = {} /\ driver' = FALSE
  /\ UNCHANGED <<pc, step, disk, dir, boot, key, relaxed, bootWas, hurt>>

\* "Installation complete!", and a reboot if the user wants one.
ReportInstalled ==
  /\ pc = "report"
  /\ told' = "installed"
  /\ pc' = "idle"
  /\ \/ UNCHANGED <<machine, late, driver>>
     \/ machine' = "boot" /\ late' = {} /\ driver' = FALSE
  /\ UNCHANGED <<step, disk, dir, boot, key, relaxed, bootWas, hurt>>
--------------------------------------------------------------------------------
\* Returns silently when the key cannot be opened or the value not written.
RestoreBootExecute ==
  /\ pc = "restore"
  /\ \/ boot' = "autochk" /\ hurt' = hurt \ {"overwrite", "restore"}
     \/ UNCHANGED boot /\ hurt' = hurt \cup {"restore"}
  /\ pc' = "unsign"
  /\ UNCHANGED <<machine, step, disk, dir, key, relaxed, late, driver, told, bootWas>>

RestoreDriverSigning ==
  /\ pc = "unsign"
  /\ RunBcdedit("off")
  /\ pc' = "delete"
  /\ UNCHANGED <<machine, step, disk, dir, boot, key, driver, told, bootWas>>

\* Mutant of Deleted: the first file of the list is skipped.
Deleted_SkipsFirst(s) == IF s = DriversSys THEN InstallerExe ELSE s + 1

\* DoUninstall deletes the installer itself last.
Deleted(s) == IF s = DriversSys THEN InstallerExe ELSE s

DeleteFile ==
  /\ pc = "delete" /\ step \in Copied
  /\ \/ disk' = [disk EXCEPT ![Deleted(step)] = "absent"] /\ UNCHANGED hurt
     \/ /\ disk[Deleted(step)] # "absent"
        /\ UNCHANGED disk
        /\ hurt' = hurt \cup {"delete"}
  /\ step' = step + 1
  /\ UNCHANGED <<machine, pc, dir, boot, key, relaxed, late, driver, told, bootWas>>

\* RemoveDirectory and "NativeShell has been uninstalled."
ReportUninstalled ==
  /\ pc = "delete" /\ step > DriversSys
  /\ dir' = (dir /\ \E f \in InstallDirFiles : disk[f] # "absent")
  /\ told' = "uninstalled"
  /\ pc' = "idle"
  /\ step' = 1
  /\ UNCHANGED <<machine, disk, boot, key, relaxed, late, driver, bootWas, hurt>>
--------------------------------------------------------------------------------
\* Power is lost, or the user restarts: the installer is gone wherever it
\* was, with its messages.
PowerLoss ==
  /\ machine # "boot"
  /\ machine' = "boot"
  /\ pc' = "idle" /\ step' = 1 /\ told' = "nothing"
  /\ late' = {}
  /\ driver' = FALSE
  /\ UNCHANGED <<disk, dir, boot, key, relaxed, bootWas, hurt>>

\* Boot drivers first (an incomplete key may or may not be enough), then the
\* BootExecute program, then Windows.
Boot ==
  /\ machine = "boot"
  /\ driver' \in {FALSE, key # "none" /\ disk[DriversSys] = "whole" /\ relaxed # {}}
  /\ driver' \/ key # "whole" \/ disk[DriversSys] # "whole" \/ relaxed = {}
  /\ machine' = IF boot = "native" /\ disk[NativeExe] = "whole" THEN "shell" ELSE "windows"
  /\ UNCHANGED <<pc, step, disk, dir, boot, key, relaxed, late, told, bootWas, hurt>>

\* The menu's [4] Exit: Windows continues booting.
ShellExit ==
  /\ machine = "shell"
  /\ machine' = "windows"
  /\ UNCHANGED <<pc, step, disk, dir, boot, key, relaxed, late, driver, told, bootWas, hurt>>

DoInstall == \/ CreateInstallDir \/ StartCopy \/ FinishCopy \/ SetBootExecute
             \/ CreateDriverServiceKey \/ DisableDriverSigning \/ ReportInstalled

DoUninstall == \/ RestoreBootExecute \/ RestoreDriverSigning
               \/ DeleteFile \/ ReportUninstalled

Next == WinMain \/ DoInstall \/ DoUninstall \/ LateBcdedit
        \/ PowerLoss \/ Boot \/ ShellExit

Spec == Init /\ [][Next]_vars
--------------------------------------------------------------------------------
Failures == {"overwrite", "restore", "on", "off", "late", "delete", "key"}

(***************************************************************************)
(* Every variable has its type, and the installer only runs in Windows.    *)
(***************************************************************************)
TypeOK ==
  /\ machine \in {"windows", "boot", "shell"}
  /\ pc \in {"idle", "mkdir", "copy", "copying", "setboot", "setkey", "sign",
             "report", "restore", "unsign", "delete"}
  /\ step \in 1..(DriversSys + 1)
  /\ disk \in [Files -> {"absent", "partial", "whole"}]
  /\ dir \in BOOLEAN
  /\ boot \in {"autochk", "native"}
  /\ key \in {"none", "partial", "whole"}
  /\ relaxed \subseteq Settings
  /\ late \subseteq {"on", "off"} \X Settings
  /\ driver \in BOOLEAN
  /\ told \in {"nothing", "error", "installed", "uninstalled"}
  /\ bootWas \in {"autochk", "native"}
  /\ hurt \subseteq Failures
  /\ pc # "idle" => machine = "windows"

(***************************************************************************)
(* Whenever the machine may boot, BootExecute names the native shell only  *)
(* if everything DoInstall copies is there whole, wherever in an install   *)
(* or an uninstall the power was lost and whichever call failed -- unless  *)
(* a reinstallation overwrote the files of an armed one and did not get to *)
(* arm it again, or an uninstallation could not restore BootExecute.       *)
(***************************************************************************)
BootSafe ==
  boot = "native" /\ hurt \cap {"overwrite", "restore"} = {} =>
    \A f \in Copied : disk[f] = "whole"

(***************************************************************************)
(* An installation that ends in an error message leaves BootExecute as it  *)
(* found it: every call that can end DoInstall comes before the value is   *)
(* written, or is the one that writes it.                                  *)
(***************************************************************************)
FailedInstallKeepsBoot == told = "error" => boot = bootWas

(***************************************************************************)
(* An uninstallation that reports success has undone what its own calls    *)
(* were allowed to: the boot value is back if writing it was not refused,  *)
(* the signing settings if no bcdedit of it failed and none was running    *)
(* on, the directory is gone if no file refused to be deleted -- whatever  *)
(* earlier attempts failed at or were cut off in.                          *)
(***************************************************************************)
UninstallRestores ==
  told = "uninstalled" =>
    /\ "restore" \notin hurt => boot = "autochk"
    /\ hurt \cap {"off", "late"} = {} => relaxed = {}
    /\ "delete" \notin hurt => ~dir /\ \A f \in InstallDirFiles : disk[f] = "absent"

(***************************************************************************)
(* An installation that reports success has armed the boot with a whole    *)
(* installation, always; its driver key is whole if no registry call of it *)
(* failed, and the signing settings are relaxed if no bcdedit of it failed *)
(* and none was running on -- whatever earlier attempts failed at or were  *)
(* cut off in.                                                             *)
(***************************************************************************)
InstallComplete ==
  told = "installed" =>
    /\ boot = "native" /\ \A f \in Copied : disk[f] = "whole"
    /\ "key" \notin hurt => key = "whole"
    /\ hurt \cap {"on", "late"} = {} => relaxed = Settings
================================================================================
