SPECIFICATION FairSpec
CONSTANTS
  p1 = p1
  p2 = p2
  t1 = t1
  t2 = t2
  t3 = t3
  short = short
  long = long
  Process = {p1, p2}
  Thread = {t1, t2, t3}
  NoThread = NoThread
  Owner <- MCOwner
  Main <- MCMain
  File = {short, long}
  Size <- MCSize
  Off = Off
  Missing = Missing
  MaxLines = 1
PROPERTIES LinesOfAProcessSurvive LogReturns
