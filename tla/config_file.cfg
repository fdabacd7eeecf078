SPECIFICATION Spec
CONSTANTS
  Names <- AllNames
  Values <- AllValues
  Number <- AllNumbers
  AbsolutePaths <- Absolute
  ConfigDir = "config"
  Skipped = Skipped
  NoConfig = NoConfig
  Files <- AllFiles
INVARIANTS TypeOK StackOpen Usable NestingRight LoadedAsWritten
