---------------------------- MODULE Installer_proofs ----------------------------
(***************************************************************************)
(* Proofs about Installer, for any number of files and any settings.       *)
(***************************************************************************)
EXTENDS Installer, TLAPS

Unrestored == {"overwrite", "restore"}

\* What DoInstall has achieved when it is at pc.
InstallProgress ==
  /\ pc = "mkdir" => step = 1
  /\ pc \in {"copy", "copying"} => \A f \in Copied : f < step => disk[f] = "whole"
  /\ pc = "setboot" => \A f \in Copied : disk[f] = "whole"
  /\ pc \in {"setkey", "sign", "report"} =>
       boot = "native" /\ \A f \in Copied : disk[f] = "whole"
  /\ pc \in {"copy", "copying"} => step \in Copied
  /\ pc = "copying" => boot = "autochk" \/ "overwrite" \in hurt

\* What DoUninstall has achieved when it is at pc.
UninstallProgress ==
  pc \in {"unsign", "delete"} => boot = "autochk" \/ "restore" \in hurt

\* BootExecute and the messages of the run in progress.
RunProgress ==
  /\ pc # "idle" => told = "nothing"
  /\ pc \in {"mkdir", "copy", "copying", "setboot"} => boot = bootWas

IInv == /\ TypeOK
        /\ InstallProgress
        /\ UninstallProgress
        /\ RunProgress
        /\ BootSafe
        /\ FailedInstallKeepsBoot

LEMMA NativeExeCopied == 1 \in Copied /\ 1 \in Files /\ Copied \subseteq Files
  BY DriversSysAssumption DEF Copied, Files

LEMMA FailuresLemma == {"overwrite", "restore", "on", "off", "late", "delete", "key"} \subseteq Failures
  BY DEF Failures

\* What outlives an attempt keeps its type and what it says of the boot value.
LEMMA OutstandingLemma ==
  ASSUME TypeOK
  PROVE  Outstanding \subseteq Failures /\ Outstanding \cap Unrestored = hurt \cap Unrestored
  BY DEF TypeOK, Outstanding, Failures, Unrestored

LEMMA InitIInv == Init => IInv
<1> SUFFICES ASSUME Init PROVE IInv
  OBVIOUS
<1>1. TypeOK
  <2>1. 1 \in 1..(DriversSys + 1)
    BY DriversSysAssumption
  <2>2. disk \in [Files -> {"absent", "partial", "whole"}]
    BY DEF Init
  <2>3. relaxed = {} /\ late = {} /\ hurt = {}
    BY DEF Init
  <2>4. relaxed \subseteq Settings /\ late \subseteq {"on", "off"} \X Settings /\ hurt \subseteq Failures
    BY <2>3
  <2>5. QED
    BY <2>1, <2>2, <2>4 DEF Init, TypeOK
<1>2. InstallProgress /\ UninstallProgress /\ RunProgress
  BY DEF Init, InstallProgress, UninstallProgress, RunProgress
<1>3. BootSafe /\ FailedInstallKeepsBoot
  BY DEF Init, BootSafe, FailedInstallKeepsBoot
<1>4. QED
  BY <1>1, <1>2, <1>3 DEF IInv

\* One iteration of a bcdedit pair does not touch what the invariant says of
\* the other failures.
LEMMA BcdeditLemma ==
  ASSUME TypeOK, NEW value \in {"on", "off"}, RunBcdedit(value)
  PROVE  /\ relaxed' \subseteq Settings
         /\ late' \subseteq {"on", "off"} \X Settings
         /\ hurt' \subseteq Failures
         /\ hurt' \cap Unrestored = hurt \cap Unrestored
  BY DEF TypeOK, RunBcdedit, Unrestored, Failures

LEMMA StepType == TypeOK /\ InstallProgress /\ [Next]_vars => TypeOK'
<1> SUFFICES ASSUME TypeOK, InstallProgress, [Next]_vars PROVE TypeOK'
  OBVIOUS
<1> USE DriversSysAssumption
<1>1. CASE WinMain
  <2>1. hurt' \subseteq Failures
    BY <1>1, OutstandingLemma DEF WinMain
  <2>2. QED
    BY <1>1, <2>1 DEF WinMain, ShowErr, TypeOK
<1>2. CASE CreateInstallDir
  <2>1. step' \in 1..(DriversSys + 1)
    BY <1>2 DEF CreateInstallDir, ShowErr, TypeOK
  <2>2. dir' \in BOOLEAN
    <3>1. dir' = TRUE \/ dir' = dir
      BY <1>2 DEF CreateInstallDir
    <3>2. QED
      BY <3>1, Zenon DEF TypeOK
  <2>3. /\ pc' \in {"idle", "copy"} /\ told' \in {"nothing", "error", "installed", "uninstalled"}
        /\ machine' = "windows"
    BY <1>2 DEF CreateInstallDir, ShowErr, TypeOK
  <2>4. QED
    BY <1>2, <2>1, <2>2, <2>3 DEF CreateInstallDir, TypeOK
<1>3. CASE StartCopy
  <2>1. hurt' \subseteq Failures
    BY <1>3 DEF StartCopy, TypeOK, Failures
  <2>2. disk' \in [Files -> {"absent", "partial", "whole"}]
    BY <1>3 DEF StartCopy, TypeOK
  <2>3. QED
    BY <1>3, <2>1, <2>2 DEF StartCopy, ShowErr, TypeOK
<1>4. CASE FinishCopy
  <2>1. disk' \in [Files -> {"absent", "partial", "whole"}]
    BY <1>4 DEF FinishCopy, TypeOK
  <2>2. step' \in 1..(DriversSys + 1)
    BY <1>4 DEF FinishCopy, ShowErr, TypeOK, InstallProgress, Copied
  <2>3. QED
    BY <1>4, <2>1, <2>2 DEF FinishCopy, ShowErr, TypeOK
<1>5. CASE SetBootExecute
  <2>1. hurt' \subseteq Failures
    BY <1>5 DEF SetBootExecute, TypeOK
  <2>2. QED
    BY <1>5, <2>1 DEF SetBootExecute, ShowErr, TypeOK
<1>6. CASE CreateDriverServiceKey
  BY <1>6 DEF CreateDriverServiceKey, TypeOK, Failures
<1>7. CASE DisableDriverSigning
  <2>1. RunBcdedit("on")
    BY <1>7 DEF DisableDriverSigning
  <2>2. QED
    BY <1>7, <2>1, BcdeditLemma DEF DisableDriverSigning, TypeOK
<1>8. CASE ReportInstalled
  BY <1>8 DEF ReportInstalled, TypeOK
<1>9. CASE RestoreBootExecute
  BY <1>9 DEF RestoreBootExecute, TypeOK, Failures
<1>10. CASE RestoreDriverSigning
  <2>1. RunBcdedit("off")
    BY <1>10 DEF RestoreDriverSigning
  <2>2. QED
    BY <1>10, <2>1, BcdeditLemma DEF RestoreDriverSigning, TypeOK
<1>11. CASE DeleteFile
  <2>1. disk' \in [Files -> {"absent", "partial", "whole"}]
    BY <1>11 DEF DeleteFile, TypeOK
  <2>2. step' \in 1..(DriversSys + 1)
    BY <1>11 DEF DeleteFile, Copied
  <2>3. hurt' \subseteq Failures
    BY <1>11 DEF DeleteFile, TypeOK, Failures
  <2>4. QED
    BY <1>11, <2>1, <2>2, <2>3 DEF DeleteFile, TypeOK
<1>12. CASE ReportUninstalled
  BY <1>12 DEF ReportUninstalled, TypeOK
<1>13. CASE LateBcdedit
  BY <1>13 DEF LateBcdedit, TypeOK
<1>14. CASE PowerLoss
  <2>1. 1 \in 1..(DriversSys + 1)
    OBVIOUS
  <2>2. late' \subseteq {"on", "off"} \X Settings
    BY <1>14 DEF PowerLoss
  <2>3. QED
    BY <1>14, <2>1, <2>2 DEF PowerLoss, TypeOK
<1>15. CASE Boot
  BY <1>15 DEF Boot, TypeOK
<1>16. CASE ShellExit
  BY <1>16 DEF ShellExit, TypeOK
<1>17. CASE UNCHANGED vars
  BY <1>17 DEF vars, TypeOK
<1>18. QED
  BY <1>1, <1>2, <1>3, <1>4, <1>5, <1>6, <1>7, <1>8, <1>9, <1>10, <1>11, <1>12,
     <1>13, <1>14, <1>15, <1>16, <1>17 DEF Next, DoInstall, DoUninstall

\* Steps outside DoInstall, and its last ones, that keep the files and the
\* boot value, or make the boot value safe.
LEMMA StepInstall == IInv /\ [Next]_vars => InstallProgress'
<1> SUFFICES ASSUME IInv, [Next]_vars PROVE InstallProgress'
  OBVIOUS
<1> USE DriversSysAssumption DEF IInv
<1>1. CASE WinMain
  BY <1>1 DEF WinMain, ShowErr, InstallProgress
<1>2. CASE CreateInstallDir
  <2>1. step' = 1
    BY <1>2 DEF CreateInstallDir, ShowErr, InstallProgress
  <2>2. QED
    BY <1>2, <2>1 DEF CreateInstallDir, ShowErr, InstallProgress, Copied
<1>3. CASE StartCopy
  <2>1. CASE pc' = "idle"
    BY <2>1 DEF InstallProgress
  <2>2. CASE pc' # "idle"
    <3>1. /\ disk' = [disk EXCEPT ![step] = "partial"] /\ pc' = "copying"
          /\ step' = step /\ step \in Copied /\ pc = "copy" /\ boot' = boot
          /\ hurt' = IF boot = "native" THEN hurt \cup {"overwrite"} ELSE hurt
      BY <1>3, <2>2 DEF StartCopy, ShowErr
    <3>2. \A f \in Copied : f < step' => disk'[f] = "whole"
      BY <3>1, NativeExeCopied DEF InstallProgress, TypeOK, Copied
    <3>3. boot' = "autochk" \/ "overwrite" \in hurt'
      BY <3>1 DEF TypeOK
    <3>4. QED
      BY <3>1, <3>2, <3>3 DEF InstallProgress
  <2>3. QED
    BY <2>1, <2>2
<1>4. CASE FinishCopy
  <2>1. CASE pc' = "idle"
    BY <2>1 DEF InstallProgress
  <2>2. CASE pc' # "idle"
    <3>1. /\ disk' = [disk EXCEPT ![step] = "whole"]
          /\ step' = IF step = DriversSys THEN 1 ELSE step + 1
          /\ pc' = IF step = DriversSys THEN "setboot" ELSE "copy"
          /\ pc = "copying" /\ step \in Copied
      BY <1>4, <2>2 DEF FinishCopy, ShowErr, InstallProgress
    <3>2. \A f \in Copied : f <= step => disk'[f] = "whole"
      BY <3>1, NativeExeCopied DEF InstallProgress, TypeOK, Copied
    <3>3. CASE step = DriversSys
      BY <3>1, <3>2, <3>3 DEF InstallProgress, Copied
    <3>4. CASE step # DriversSys
      BY <3>1, <3>2, <3>4 DEF InstallProgress, Copied
    <3>5. QED
      BY <3>3, <3>4
  <2>3. QED
    BY <2>1, <2>2
<1>5. CASE SetBootExecute
  BY <1>5 DEF SetBootExecute, ShowErr, InstallProgress
<1>6. CASE CreateDriverServiceKey
  BY <1>6 DEF CreateDriverServiceKey, InstallProgress
<1>7. CASE DisableDriverSigning
  BY <1>7 DEF DisableDriverSigning, InstallProgress
<1>8. CASE ReportInstalled \/ ReportUninstalled
  BY <1>8 DEF ReportInstalled, ReportUninstalled, InstallProgress
<1>9. CASE RestoreBootExecute
  BY <1>9 DEF RestoreBootExecute, InstallProgress
<1>10. CASE RestoreDriverSigning
  BY <1>10 DEF RestoreDriverSigning, InstallProgress
<1>11. CASE DeleteFile
  BY <1>11 DEF DeleteFile, InstallProgress
<1>12. CASE LateBcdedit
  BY <1>12 DEF LateBcdedit, InstallProgress
<1>13. CASE PowerLoss
  BY <1>13 DEF PowerLoss, InstallProgress
<1>14. CASE Boot \/ ShellExit
  BY <1>14 DEF Boot, ShellExit, InstallProgress
<1>15. CASE UNCHANGED vars
  BY <1>15 DEF vars, InstallProgress
<1>16. QED
  BY <1>1, <1>2, <1>3, <1>4, <1>5, <1>6, <1>7, <1>8, <1>9, <1>10, <1>11, <1>12,
     <1>13, <1>14, <1>15 DEF Next, DoInstall, DoUninstall

LEMMA StepUninstall == IInv /\ [Next]_vars => UninstallProgress'
<1> SUFFICES ASSUME IInv, [Next]_vars PROVE UninstallProgress'
  OBVIOUS
<1> USE DEF IInv, UninstallProgress
<1>1. CASE RestoreBootExecute
  BY <1>1 DEF RestoreBootExecute
<1>2. CASE RestoreDriverSigning
  <2>1. RunBcdedit("off")
    BY <1>2 DEF RestoreDriverSigning
  <2>2. hurt' \cap Unrestored = hurt \cap Unrestored
    BY <2>1, BcdeditLemma
  <2>3. QED
    BY <1>2, <2>2 DEF RestoreDriverSigning, Unrestored
<1>3. CASE DeleteFile
  BY <1>3 DEF DeleteFile
<1>4. CASE WinMain \/ DoInstall
  BY <1>4 DEF WinMain, DoInstall, ShowErr, CreateInstallDir, StartCopy, FinishCopy,
     SetBootExecute, CreateDriverServiceKey, DisableDriverSigning, ReportInstalled
<1>5. CASE ReportUninstalled \/ LateBcdedit \/ PowerLoss \/ Boot \/ ShellExit
  BY <1>5 DEF ReportUninstalled, LateBcdedit, PowerLoss, Boot, ShellExit
<1>6. CASE UNCHANGED vars
  BY <1>6 DEF vars
<1>7. QED
  BY <1>1, <1>2, <1>3, <1>4, <1>5, <1>6 DEF Next, DoUninstall

LEMMA StepRun == IInv /\ [Next]_vars => RunProgress' /\ FailedInstallKeepsBoot'
<1> SUFFICES ASSUME IInv, [Next]_vars PROVE RunProgress' /\ FailedInstallKeepsBoot'
  OBVIOUS
<1> USE DEF IInv, RunProgress, FailedInstallKeepsBoot
<1>1. CASE WinMain
  BY <1>1 DEF WinMain, ShowErr
<1>2. CASE CreateInstallDir \/ StartCopy \/ FinishCopy
  BY <1>2 DEF CreateInstallDir, StartCopy, FinishCopy, ShowErr
<1>3. CASE SetBootExecute
  BY <1>3 DEF SetBootExecute, ShowErr
<1>4. CASE CreateDriverServiceKey \/ DisableDriverSigning \/ ReportInstalled
  BY <1>4 DEF CreateDriverServiceKey, DisableDriverSigning, ReportInstalled
<1>5. CASE RestoreBootExecute \/ RestoreDriverSigning
  BY <1>5 DEF RestoreBootExecute, RestoreDriverSigning
<1>6. CASE DeleteFile \/ ReportUninstalled
  BY <1>6 DEF DeleteFile, ReportUninstalled
<1>7. CASE LateBcdedit \/ PowerLoss \/ Boot \/ ShellExit
  BY <1>7 DEF LateBcdedit, PowerLoss, Boot, ShellExit
<1>8. CASE UNCHANGED vars
  BY <1>8 DEF vars
<1>9. QED
  BY <1>1, <1>2, <1>3, <1>4, <1>5, <1>6, <1>7, <1>8 DEF Next, DoInstall, DoUninstall

\* The steps that arm the boot, touch the files of an armed one, or forgive
\* a failure are the ones BootSafe is about.
LEMMA StepBoot == IInv /\ [Next]_vars => BootSafe'
<1> SUFFICES ASSUME IInv, [Next]_vars PROVE BootSafe'
  OBVIOUS
<1> USE DEF IInv, BootSafe
<1>1. CASE StartCopy
  BY <1>1 DEF StartCopy, ShowErr
<1>2. CASE FinishCopy
  <2>1. boot' = boot /\ hurt' = hurt /\ (boot = "autochk" \/ "overwrite" \in hurt)
    BY <1>2 DEF FinishCopy, InstallProgress
  <2>2. QED
    BY <2>1
<1>3. CASE SetBootExecute
  <2>1. disk' = disk /\ \A f \in Copied : disk[f] = "whole"
    BY <1>3 DEF SetBootExecute, InstallProgress
  <2>2. QED
    BY <2>1
<1>4. CASE RestoreBootExecute
  BY <1>4 DEF RestoreBootExecute
<1>5. CASE DisableDriverSigning \/ RestoreDriverSigning
  <2>1. PICK value \in {"on", "off"} : RunBcdedit(value)
    BY <1>5 DEF DisableDriverSigning, RestoreDriverSigning
  <2>2. hurt' \cap Unrestored = hurt \cap Unrestored
    BY <2>1, BcdeditLemma
  <2>3. boot' = boot /\ disk' = disk
    BY <1>5 DEF DisableDriverSigning, RestoreDriverSigning
  <2>4. QED
    BY <2>2, <2>3 DEF Unrestored
<1>6. CASE DeleteFile
  <2>1. boot' = boot /\ hurt \subseteq hurt' /\ (boot = "autochk" \/ "restore" \in hurt)
    BY <1>6 DEF DeleteFile, UninstallProgress
  <2>2. QED
    BY <2>1
<1>7. CASE CreateDriverServiceKey
  BY <1>7 DEF CreateDriverServiceKey
<1>8. CASE WinMain \/ CreateInstallDir \/ ReportInstalled \/ ReportUninstalled
  <2>1. hurt' \cap Unrestored = hurt \cap Unrestored /\ boot' = boot /\ disk' = disk
    BY <1>8, OutstandingLemma DEF WinMain, CreateInstallDir, ReportInstalled, ReportUninstalled
  <2>2. QED
    BY <2>1 DEF Unrestored
<1>9. CASE LateBcdedit \/ PowerLoss \/ Boot \/ ShellExit
  BY <1>9 DEF LateBcdedit, PowerLoss, Boot, ShellExit
<1>10. CASE UNCHANGED vars
  BY <1>10 DEF vars
<1>11. QED
  BY <1>1, <1>2, <1>3, <1>4, <1>5, <1>6, <1>7, <1>8, <1>9, <1>10
     DEF Next, DoInstall, DoUninstall

(***************************************************************************)
(* The inductive invariant holds of every behavior of the installer.       *)
(***************************************************************************)
THEOREM Invariance == Spec => []IInv
<1>1. IInv /\ [Next]_vars => IInv'
  <2>1. IInv => TypeOK /\ InstallProgress
    BY DEF IInv
  <2>2. QED
    BY <2>1, StepType, StepInstall, StepUninstall, StepRun, StepBoot DEF IInv
<1>2. QED
  BY InitIInv, <1>1, PTL DEF Spec

(***************************************************************************)
(* Type correctness: in particular the installer never outlives Windows.   *)
(***************************************************************************)
THEOREM TypeCorrect == Spec => []TypeOK
<1>1. IInv => TypeOK
  BY DEF IInv
<1>2. QED
  BY <1>1, Invariance, PTL

(***************************************************************************)
(* Wherever the power is lost, a boot that runs native.exe finds everything *)
(* DoInstall copies, except after the two failures the property names.     *)
(***************************************************************************)
THEOREM BootIsSafe == Spec => []BootSafe
<1>1. IInv => BootSafe
  BY DEF IInv
<1>2. QED
  BY <1>1, Invariance, PTL

(***************************************************************************)
(* An installation that ends in an error message has not changed the boot. *)
(***************************************************************************)
THEOREM ErrorsKeepBoot == Spec => []FailedInstallKeepsBoot
<1>1. IInv => FailedInstallKeepsBoot
  BY DEF IInv
<1>2. QED
  BY <1>1, Invariance, PTL

-----------------------------------------------------------------------------
\* What a run has achieved at pc, unless a call of its own failed at it, and
\* what its success message stands for until the next run: nothing settles
\* it any more, unless a bcdedit command outlived its wait.
Settled ==
  /\ late # {} => "late" \in hurt
  /\ pc \in {"sign", "report"} => key = "whole" \/ "key" \in hurt
  /\ pc = "report" => relaxed = Settings \/ hurt \cap {"on", "late"} # {}
  /\ pc \in {"restore", "unsign"} => step = 1
  /\ pc = "delete" => relaxed = {} \/ hurt \cap {"off", "late"} # {}
  /\ pc = "delete" => "delete" \in hurt \/ \A s \in Copied : s < step => disk[Deleted(s)] = "absent"
  /\ told \in {"installed", "uninstalled"} => pc = "idle"
  /\ InstallComplete
  /\ UninstallRestores

LEMMA InitSettled == Init => Settled
  BY DEF Init, Settled, InstallComplete, UninstallRestores

\* The bcdedit commands have set everything, or left a trace in hurt.
LEMMA RelaxedLemma ==
  ASSUME TypeOK, Settled, NEW value \in {"on", "off"}, RunBcdedit(value)
  PROVE  /\ late' # {} => "late" \in hurt'
         /\ hurt' \cap {value, "late"} = {} => relaxed' = IF value = "on" THEN Settings ELSE {}
         /\ "key" \in hurt => "key" \in hurt'
         /\ "delete" \in hurt => "delete" \in hurt'
<1>1. PICK done \in SUBSET Settings : \E slow \in SUBSET (Settings \ done) :
        /\ relaxed' = IF value = "on" THEN relaxed \cup done ELSE relaxed \ done
        /\ late' = late \cup ({value} \X slow)
        /\ hurt' = (hurt \ {value}) \cup (IF done = Settings THEN {} ELSE {value})
                                    \cup (IF slow = {} THEN {} ELSE {"late"})
  BY DEF RunBcdedit
<1>2. PICK slow \in SUBSET (Settings \ done) :
        /\ relaxed' = IF value = "on" THEN relaxed \cup done ELSE relaxed \ done
        /\ late' = late \cup ({value} \X slow)
        /\ hurt' = (hurt \ {value}) \cup (IF done = Settings THEN {} ELSE {value})
                                    \cup (IF slow = {} THEN {} ELSE {"late"})
  BY <1>1
<1>3. late' # {} => "late" \in hurt'
  <2>1. CASE slow = {}
    <3>1. late' = late
      BY <1>2, <2>1
    <3>2. QED
      BY <1>2, <3>1 DEF Settled
  <2>2. CASE slow # {}
    BY <1>2, <2>2
  <2>3. QED
    BY <2>1, <2>2
<1>4. hurt' \cap {value, "late"} = {} => done = Settings
  BY <1>2
<1>5. hurt' \cap {value, "late"} = {} => relaxed' = IF value = "on" THEN Settings ELSE {}
  BY <1>2, <1>4 DEF TypeOK
<1>6. ("key" \in hurt => "key" \in hurt') /\ ("delete" \in hurt => "delete" \in hurt')
  BY <1>2
<1>7. QED
  BY <1>3, <1>5, <1>6

\* Every file of the install directory is deleted under some step.
LEMMA DeletedLemma ==
  ASSUME NEW f \in InstallDirFiles
  PROVE  \E s \in Copied : Deleted(s) = f
<1>1. CASE f = InstallerExe
  <2>1. DriversSys \in Copied /\ Deleted(DriversSys) = f
    BY <1>1, DriversSysAssumption DEF Copied, Deleted
  <2>2. QED
    BY <2>1
<1>2. CASE f # InstallerExe
  <2>1. f \in Copied /\ Deleted(f) = f
    BY <1>2, DriversSysAssumption DEF InstallDirFiles, InstallerExe, Copied, Deleted
  <2>2. QED
    BY <2>1
<1>3. QED
  BY <1>1, <1>2

LEMMA StepSettled == IInv /\ Settled /\ [Next]_vars => Settled'
<1> SUFFICES ASSUME IInv, Settled, [Next]_vars PROVE Settled'
  OBVIOUS
<1> USE DEF IInv, Settled, InstallComplete, UninstallRestores
<1>1. CASE WinMain
  <2>1. /\ pc' \in {"idle", "mkdir", "restore"} /\ step' = 1 /\ told' \in {"nothing", "error"}
        /\ late' = late /\ (late # {} => "late" \in hurt')
    BY <1>1 DEF WinMain, ShowErr, Outstanding
  <2>2. QED
    BY <2>1
<1>2. CASE CreateInstallDir
  BY <1>2 DEF CreateInstallDir, ShowErr, RunProgress
<1>3. CASE StartCopy
  <2>1. CASE pc' = "idle"
    BY <1>3, <2>1 DEF StartCopy, ShowErr
  <2>2. CASE pc' # "idle"
    <3>1. /\ pc' = "copying" /\ told' = "nothing" /\ late' = late /\ hurt \subseteq hurt'
      BY <1>3, <2>2 DEF StartCopy, ShowErr, RunProgress
    <3>2. QED
      BY <3>1
  <2>3. QED
    BY <2>1, <2>2
<1>4. CASE FinishCopy
  <2>1. /\ pc' \in {"idle", "setboot", "copy"} /\ told' \in {"nothing", "error"}
        /\ late' = late /\ hurt' = hurt
    BY <1>4 DEF FinishCopy, ShowErr, RunProgress
  <2>2. QED
    BY <2>1
<1>5. CASE SetBootExecute
  <2>1. /\ pc' \in {"idle", "setkey"} /\ told' \in {"nothing", "error"}
        /\ late' = late /\ ("late" \in hurt => "late" \in hurt')
    BY <1>5 DEF SetBootExecute, ShowErr, RunProgress
  <2>2. QED
    BY <2>1
<1>6. CASE CreateDriverServiceKey
  <2>1. /\ pc' = "sign" /\ told' = "nothing" /\ late' = late
        /\ "late" \in hurt => "late" \in hurt'
        /\ key' = "whole" \/ "key" \in hurt'
    BY <1>6 DEF CreateDriverServiceKey, RunProgress
  <2>2. QED
    BY <2>1
<1>7. CASE DisableDriverSigning
  <2>1. /\ late' # {} => "late" \in hurt'
        /\ hurt' \cap {"on", "late"} = {} => relaxed' = Settings
        /\ "key" \in hurt => "key" \in hurt'
    BY <1>7, RelaxedLemma DEF DisableDriverSigning
  <2>2. pc = "sign" /\ pc' = "report" /\ told' = "nothing" /\ key' = key
    BY <1>7 DEF DisableDriverSigning, RunProgress
  <2>3. QED
    BY <2>1, <2>2
<1>8. CASE ReportInstalled
  <2>1. /\ pc = "report" /\ pc' = "idle" /\ told' = "installed" /\ hurt' = hurt
        /\ late' \in {late, {}} /\ boot' = boot /\ disk' = disk /\ key' = key /\ relaxed' = relaxed
    BY <1>8 DEF ReportInstalled
  <2>2. boot = "native" /\ \A f \in Copied : disk[f] = "whole"
    BY <2>1 DEF InstallProgress
  <2>3. QED
    BY <2>1, <2>2
<1>9. CASE RestoreBootExecute
  BY <1>9 DEF RestoreBootExecute, RunProgress
<1>10. CASE RestoreDriverSigning
  <2>1. /\ late' # {} => "late" \in hurt'
        /\ hurt' \cap {"off", "late"} = {} => relaxed' = {}
    BY <1>10, RelaxedLemma DEF RestoreDriverSigning
  <2>2. pc = "unsign" /\ pc' = "delete" /\ told' = "nothing" /\ step' = 1
    BY <1>10 DEF RestoreDriverSigning, RunProgress
  <2>3. \A s \in Copied : ~(s < 1)
    BY DriversSysAssumption DEF Copied
  <2>4. QED
    BY <2>1, <2>2, <2>3
<1>11. CASE DeleteFile
  <2>1. /\ pc = "delete" /\ step \in Copied /\ pc' = "delete" /\ told' = "nothing"
        /\ step' = step + 1 /\ relaxed' = relaxed /\ late' = late /\ hurt \subseteq hurt'
        /\ (hurt \cap {"off", "late"} # {} => hurt' \cap {"off", "late"} # {})
        /\ "delete" \notin hurt' => disk' = [disk EXCEPT ![Deleted(step)] = "absent"]
    BY <1>11 DEF DeleteFile, RunProgress
  <2>2. ASSUME "delete" \notin hurt', NEW s \in Copied, s < step'
        PROVE  disk'[Deleted(s)] = "absent"
    <3>1. /\ Deleted(s) \in Files /\ Deleted(step) \in Files
          /\ s = step \/ s < step
      BY <2>1, <2>2, DriversSysAssumption DEF Copied, Deleted, Files, InstallerExe
    <3>2. disk' = [disk EXCEPT ![Deleted(step)] = "absent"] /\ "delete" \notin hurt
      BY <2>1, <2>2
    <3>3. disk \in [Files -> {"absent", "partial", "whole"}]
      BY DEF TypeOK
    <3>4. QED
      BY <2>1, <3>1, <3>2, <3>3
  <2>3. QED
    BY <2>1, <2>2
<1>12. CASE ReportUninstalled
  <2>1. /\ pc = "delete" /\ step > DriversSys /\ pc' = "idle" /\ told' = "uninstalled"
        /\ dir' = (dir /\ \E f \in InstallDirFiles : disk[f] # "absent")
        /\ disk' = disk /\ boot' = boot /\ relaxed' = relaxed /\ late' = late /\ hurt' = hurt
    BY <1>12 DEF ReportUninstalled
  <2>2. ASSUME "delete" \notin hurt
        PROVE  \A f \in InstallDirFiles : disk[f] = "absent"
    <3>1. \A s \in Copied : s < step
      BY <2>1, DriversSysAssumption DEF Copied, TypeOK
    <3>2. QED
      BY <2>1, <2>2, <3>1, DeletedLemma
  <2>3. /\ "restore" \notin hurt => boot = "autochk"
        /\ hurt \cap {"off", "late"} = {} => relaxed = {}
    BY <2>1 DEF UninstallProgress
  <2>4. QED
    BY <2>1, <2>2, <2>3
<1>13. CASE LateBcdedit
  <2>1. /\ late # {} /\ late' \subseteq late /\ hurt' = hurt /\ "late" \in hurt
        /\ UNCHANGED <<pc, step, disk, dir, boot, key, told>>
    BY <1>13 DEF LateBcdedit
  <2>2. QED
    BY <2>1
<1>14. CASE PowerLoss
  BY <1>14 DEF PowerLoss
<1>15. CASE Boot \/ ShellExit
  <2>1. UNCHANGED <<pc, step, disk, dir, boot, key, relaxed, late, told, hurt>>
    BY <1>15 DEF Boot, ShellExit
  <2>2. QED
    BY <2>1
<1>16. CASE UNCHANGED vars
  BY <1>16 DEF vars
<1>17. QED
  BY <1>1, <1>2, <1>3, <1>4, <1>5, <1>6, <1>7, <1>8, <1>9, <1>10, <1>11, <1>12,
     <1>13, <1>14, <1>15, <1>16 DEF Next, DoInstall, DoUninstall

LEMMA SettledInvariance == Spec => []Settled
  BY InitSettled, StepSettled, Invariance, PTL DEF Spec

(***************************************************************************)
(* "Installation complete!" always stands for a whole, armed installation; *)
(* for its key and its signing settings too where no call of this attempt  *)
(* at them failed and no bcdedit was running on; all of it still when      *)
(* Windows has rebooted.                                                   *)
(***************************************************************************)
THEOREM InstallsCompletely == Spec => []InstallComplete
<1>1. Settled => InstallComplete
  BY DEF Settled
<1>2. QED
  BY <1>1, SettledInvariance, PTL

(***************************************************************************)
(* "NativeShell has been uninstalled." stands for each of the boot value,  *)
(* the signing settings and the directory being as before any installation *)
(* unless a call of this attempt at it failed or a bcdedit was running on. *)
(***************************************************************************)
THEOREM UninstallsCompletely == Spec => []UninstallRestores
<1>1. Settled => UninstallRestores
  BY DEF Settled
<1>2. QED
  BY <1>1, SettledInvariance, PTL

================================================================================
