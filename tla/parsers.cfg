SPECIFICATION Spec
CONSTANTS
  BufSize = 128
  Regions <- MCRegions
  UserDirs <- MCUserDirs
  Messages <- MCMessages
  Devices <- MCDevices
  Servers <- MCServers
  FileSystems <- MCFileSystems
  ConfigDirs <- MCConfigDirs
  Indices <- MCIndices
INVARIANTS
  SniffsCompleteMessages
  SniffsNothingElse
  PeersAreReadBack
  UnroutedServersAreFlagged
  ListedIsFound
  PinnedToTunnel
