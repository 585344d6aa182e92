\* A terminal and a log side by side, one retry, a log of two lines, and a write that
\* vanishes.
CONSTANTS
  ExecSessions = {e}
  LogSessions = {l}
  MaxRetries = 1
  MaxDials = 0
  MaxLines = 2
  MaxVanished = 1
SPECIFICATION FairSpec
INVARIANTS
  TypeOK
  StopIsQuiet
  LossPerAttempt
  LogFlushed
PROPERTIES
  TerminalCloses
\* A closed log session and a crashed process wait for ever.
CHECK_DEADLOCK FALSE
