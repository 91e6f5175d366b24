CONSTANTS
  Names = {"a", "b", ".", "..", "HD"}
  Volume = "HD"
  Nodes = {1, 2, 3}
  PathNodes = {1, 2}
  AllOpenNodes = 2
  NameOrder <- MCOrder
  MaxDirStreams = 2
  CallPaths <- MCCallPaths
  AllPaths <- MCAllPaths
  EnvNames = {"HOME", "TERM", "USER"}
  EnvValues = {"short", "long"}
  default_env <- MCDefault
  MaxEnvVars = 3
  MaxEnvSize = 14
  Size <- MCSize
SPECIFICATION MCSpec
INVARIANTS AllTypeOK NoEntryTwice NoEntryMissed TranslationMeans TranslatorsAgree CwdAgrees HeldStays
PROPERTIES MkdirWhereNamed ImplementsEnvMap
\* A full disk, or a program that has nothing left to do, may stop.
CHECK_DEADLOCK FALSE
