SPECIFICATION Spec
CONSTANTS
  r1 = r1  r2 = r2  c1 = c1  c2 = c2  c3 = c3  c4 = c4
  a = a  b = b  u1 = u1  u2 = u2  w1 = w1  adm = adm
  Records <- RecordsDef
  ChangeIds <- Changes4
  Texts <- TextsDef
  Users <- TwoUsers
  Workers = {}
  Admins = {}
  NoRec = NoRec  NoData = NoData  NoItem = NoItem
  NoChange = NoChange  NoEntry = NoEntry  Idle = Idle
SYMMETRY Symmetry
CHECK_DEADLOCK FALSE
INVARIANTS UndoneOnce HistoryMatchesRows
PROPERTIES VersionsIncrease UndoKeepsNewerWork
