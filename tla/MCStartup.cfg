SPECIFICATION Spec
CONSTANTS
  f = f
  g = g
  dev = dev
  Files = {f, g}
  Devices = {dev}
  DeviceSize = 7
  FileSizes <- MCFileSizes
  Online = {0, 1, 2, 3}
  SectorSize = 2
  FillBuf = 3
  Commands <- MCCommands
  OffHalf = 4096
  UIntMod = 128
  Kibi = 8
  DefaultBlock = 4
INVARIANTS
  TypeOK
  FilesHoldTargets
  StartsApart
  RoundRobin
PROPERTIES
  OnlyShortFilesReplaced
  SetupEnds
