CONSTANTS
  Words <- MCWords
  Builds = {1, 2}
  CommandLines <- MCCommandLines
  Trees <- MCTrees
  Defines <- MCDefines
  Uses <- MCUses
  Rejected = {"bad"}
  Library <- MCLibrary
  Missing = Missing
  MaxKills = 1
SPECIFICATION Spec
INVARIANTS TypeOK SuccessIsWhole OutputOldOrWhole
PROPERTY GoodBuildsSucceed
CHECK_DEADLOCK FALSE
