SPECIFICATION LiveSpec
CONSTANTS
  Threads = {t1, t2}
  Sess = {s1}
  None = None
  MaxSessionLimit = 2
  SeqMax = 9
  MaxAdds = 2
  MaxKills = 1
  MaxFaults = 1
CHECK_DEADLOCK FALSE
INVARIANTS
  UsersKeepRecord
  OwnAnswer
  NoRecordLost
PROPERTY Answered
