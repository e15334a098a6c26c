SPECIFICATION Ext2Spec
CONSTANTS
  None = None
  Task = {t1, t2}
  Block = {0, 1}
  Value = {"a", "b"}
  Zero = "a"
  MaxBlocks = 1
INVARIANTS
  BypassCoherent
  BulkReadSeesLatest
  Recoverable
