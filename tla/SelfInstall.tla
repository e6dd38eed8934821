------------------------------ MODULE SelfInstall ------------------------------
(***************************************************************************)
(* AudioInit when the driver's device cannot be opened (audio.c): the      *)
(* embedded driver is written to a file, unless a file of its size is      *)
(* there, and the service key is created.  A step is a call of the system, *)
(* which may be refused; the machine may restart between any two.          *)
(*                                                                         *)
(* The file's name is the same in every directory: the search for the      *)
(* drive's root stops at the first character of "\??\", so that the whole  *)
(* path is replaced, four characters of it are taken off, and              *)
(* NtFileOpenFile puts "\??\" in front of the rest:                        *)
(* \??\dows\System32\drivers\BadAppleAudio.sys.  Windows defines no DOS    *)
(* device "dows"; where nothing else has defined it, no open succeeds.     *)
(*                                                                         *)
(* External: the files, the registry and the DOS devices.  What a write    *)
(* has written is on the disk when it returns.                             *)
(***************************************************************************)
CONSTANT Values      \* Type, Start, ErrorControl, ImagePath

VARIABLES at,      \* the call AudioInit makes next, or "idle"
          dows,    \* there is a DOS device of that name
          file,    \* "absent", "partial" or "whole" (driverSize bytes)
          key,     \* the values of the service key
          service, \* the service key exists
          told     \* what the last self-install told the user

installVars == <<at, dows, file, key, service, told>>
--------------------------------------------------------------------------------
InstallInit == /\ at = "idle"
               /\ dows \in BOOLEAN
               /\ file = "absent"
               /\ key = {} /\ service = FALSE
               /\ told = "nothing"

\* NtCreateFile on the device has failed.
AudioInit ==
  /\ at = "idle"
  /\ at' = "open"
  /\ told' = "nothing"
  /\ UNCHANGED <<dows, file, key, service>>

End(message) == at' = "idle" /\ told' = message

\* Mutant of OpenExisting: a file of any size will do.
OpenExisting_AnySize ==
  /\ at = "open"
  /\ at' \in {"create"} \cup IF dows /\ file # "absent" THEN {"key"} ELSE {}
  /\ UNCHANGED <<dows, file, key, service, told>>

\* The file is opened for its size, which stays 0 if it cannot be had.
OpenExisting ==
  /\ at = "open"
  /\ at' \in {"create"} \cup IF dows /\ file = "whole" THEN {"key"} ELSE {}
  /\ UNCHANGED <<dows, file, key, service, told>>

CreateFile ==
  /\ at = "create"
  /\ \/ /\ dows
        /\ file' = "partial"
        /\ at' = "write"
        /\ UNCHANGED told
     \/ End("failed") /\ UNCHANGED file
  /\ UNCHANGED <<dows, key, service>>

\* A write that is refused or stops short leaves what it has written.
WriteFile ==
  /\ at = "write"
  /\ \/ /\ file' = "whole"
        /\ at' = "key"
        /\ UNCHANGED told
     \/ End("failed") /\ UNCHANGED file
  /\ UNCHANGED <<dows, key, service>>

\* The result of NtCreateKey counts, those of NtSetValueKey do not.
AudioCreateServiceKey ==
  /\ at = "key"
  /\ \/ /\ service' = TRUE
        /\ \E set \in SUBSET Values : key' = key \cup set
        /\ End("installed")
     \/ End("failed") /\ UNCHANGED <<key, service>>
  /\ UNCHANGED <<dows, file>>

AudioWriteDriverToFile == OpenExisting \/ CreateFile \/ WriteFile

\* The machine restarts wherever AudioInit was.
Restart == End("nothing") /\ UNCHANGED <<dows, file, key, service>>
--------------------------------------------------------------------------------
InstallTypeOK ==
  /\ at \in {"idle", "open", "create", "write", "key"}
  /\ dows \in BOOLEAN
  /\ file \in {"absent", "partial", "whole"}
  /\ key \subseteq Values /\ service \in BOOLEAN
  /\ told \in {"nothing", "failed", "installed"}
  /\ ~dows => at \notin {"write", "key"} /\ file = "absent" /\ ~service /\ told # "installed"
================================================================================
