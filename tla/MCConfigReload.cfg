SPECIFICATION ReloadSpec
CONSTANTS
  Char <- MCChar
  Env <- MCEnv
  Texts <- MCTexts
  MaxChanges = 3
  RemoteTexts <- MCRemoteTexts
INVARIANTS ReloadTypeOK FreshWhenQuiet
PROPERTY Settles
CHECK_DEADLOCK FALSE
