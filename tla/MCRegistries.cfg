CONSTANTS
  IdOrder <- MCIdOrder
  Versions <- MCVersions
  Triple <- MCTriple
  Collation <- MCCollation
  TextPlace <- MCTextPlace
  HasSlash = {"1.10.0/rc.ts"}
  EndsLikeFile = {"1.10.0-rc.ts", "1.10.0/rc.ts", "com.User.1.10.0.rc.ts"}
  Words <- MCWords
  SourcePaths <- MCSourcePaths
  Headers <- MCHeaders
  MaxEntries = 3
  None = None
SPECIFICATION Spec
CHECK_DEADLOCK FALSE
INVARIANTS RenamingIsImmaterial LatestIsLastListed EveryMigrationAnswered EverySchemaAddressable PathsKeptApart
