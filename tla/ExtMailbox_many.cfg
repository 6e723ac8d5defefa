SPECIFICATION MailboxSpec
CONSTANTS
  Callers = {c1, c2}
  MaxId = 4
INVARIANT ReplyIsOwn
CHECK_DEADLOCK FALSE
