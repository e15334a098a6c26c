SPECIFICATION FairSpec
CONSTANTS
  s1 = s1
  s2 = s2
  r1 = r1
  r2 = r2
  None = None
  Sender = {s1, s2}
  Receiver = {r1, r2}
  MaxItems = 2
  Task = {s1, s2, r1, r2}
  Sem = {"queue", "items"}
PROPERTIES
  ImplementsFifo
  AllReceived
\* senders may stop, and receivers wait for ever
CHECK_DEADLOCK FALSE
