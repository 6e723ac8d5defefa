SPECIFICATION ConsoleFairSpec
CONSTANTS
  Callers = {console}
  console = console
  MaxId = 4
  Root = "root"
  Tables <- MCTables
  Scripts <- MCScripts
  BuffSize = 8
  StackDepth = 2
  MaxSessions = 2
INVARIANTS
  ReplyIsOwn
  BlockedIsExpected
  LinesAreObeyed
PROPERTY ConsoleComesBack
CHECK_DEADLOCK FALSE
