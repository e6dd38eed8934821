SPECIFICATION Spec
CONSTANTS
  DriversSys = 3
  Settings = {"testsigning", "nointegritychecks"}
INVARIANTS
  TypeOK
  BootSafe
  UninstallRestores
  InstallComplete
