CONSTANTS
  k1 = k1
  k2 = k2
  Crates <- MCCrates
  crateList <- MCList
  Slots <- MCSlots
  SlotsOf <- MCSlotsOf
  Volts = {1, 2}
  Unset = {1}
  Files <- MCFiles
  ReadPeriod = 2
  CheckPeriod = 4
  CrateLines <- MCCrateLines
  Installed <- MCInstalled
  Names = {"W1", "G1"}
  Voltages = {1}
  Unwritten <- MCUnwritten
  MaxCalls = 4
SPECIFICATION MCSpec
INVARIANTS
  CrateAccess
  NeverTerminates
  RestoreApplies
  ShowsWhatIsSet
PROPERTIES
  MenuReturns
