SPECIFICATION TwiceSpec
CONSTANT Configs <- MCConfigs
CHECK_DEADLOCK FALSE
INVARIANTS
  ExhalesReachableOnce
  NetworkIsDeterministic
  NetworkFollowsPushLinks
PROPERTY Terminates
