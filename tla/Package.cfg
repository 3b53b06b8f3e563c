CONSTANTS
  Name <- Names
  NoName = ""
  strhash <- Hash
  HMAP_INIT = 4
  MaxArena = 12
  File <- Files
  Requires <- Required
  Scripts <- Imported
  Exports <- Exported
  Classes <- Defined
  Consts <- Loaded
  Broken <- Fragile
  PN_konoha = "konoha"
  MaxSpaces = 5
  MaxEntries = 3
SPECIFICATION Spec
INVARIANTS ListsPartitionArena LoadedOnce ImportedSeen TwiceOnlyReloaded
PROPERTIES CodesKept NamesKept
CHECK_DEADLOCK FALSE
