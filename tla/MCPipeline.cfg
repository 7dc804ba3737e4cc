SPECIFICATION FairSpec
CONSTANTS
  Threads = 2
  Files = 4
INVARIANTS TypeOK TokensSettled ExitMeansParsed BehindSpinningUnread
PROPERTIES OthersParsed GoodRunsExit Compiles
