SPECIFICATION MCSpec
CONSTANTS
  InitialDisks <- MCDisks
  MaxSouls = 4
  MaxIds = 5
  MaxEdits = 2
  MaxOutages = 2
  Servers = {1, 2, 3, 4}
  Profiles = {11, 12}
  Templates = {21}
  Sources = {31, 32}
  Endpoints = {91, 92}
  Overriding = {21}
  RecPopulations <- MCPopulations
  MaxCommands = 2
  MaxRejections = 1
  Ports = {1, 2}
  SerialSetups <- MCSerialSetups
  MaxOpens = 3
  MaxAutoRestarts = 1
  MaxLocalSessions = 3
  MaxShells = 2
INVARIANTS MacrosSound RecordsSound TransferSound SerialSound LocalSound
CHECK_DEADLOCK FALSE
