SPECIFICATION Spec
CONSTANTS
  Conn1 = c1
  Conn2 = c2
  Conns = {c1, c2}
  Programs <- MCPrograms
  Replies <- MCReplies
  Loops = {"reaper"}
  WriteBuffer = 5
  SocketBuffer = 6
  ReaperBuffer = 1
  ReadBuffer = 6
  MaxBulk = 3
  MaxMultiBulk = 3
  Token <- MCToken
  Numeral <- MCNumeral
INVARIANT RepliesBeforeDeadline
CHECK_DEADLOCK FALSE
