\* Both VM plugins.  VM2: two OEM domains, one trusted application, two session numbers,
\* one fault, two SD handles with clients.  VM1: two requests and one command, three numbers,
\* up to three users of a session, one lost connection.
SPECIFICATION SpecP
CONSTANTS
  OemSDs = {a, b}
  TAs = {t}
  MaxSeq = 2
  MaxFaults = 1
  MaxHeld = 2
  Sars = {s1, s2}
  Cmd = c
  MaxNo = 3
  MaxCount = 3
  MaxLost = 1
VIEW Seen
SYMMETRY Symmetry
INVARIANTS
  SDSessionsKept
  RecordOutlivesUsers
PROPERTIES
  SarVerdict
CHECK_DEADLOCK FALSE
