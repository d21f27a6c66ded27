SPECIFICATION Spec
CONSTANTS
  Strings <- Dollars
  Env <- Variables
  Lists <- Colons
  Outputs <- SearchPaths
  Directory <- Directories
  IncludeLists <- Includes
  Preset <- Presets
  ArgLists <- Arguments
  Names <- FileNames
  FileSets <- FilesThere
  WorkingDir <- WorkDir
  MaxEntries = 3
  Misuse = {}
PROPERTIES
  Returns
