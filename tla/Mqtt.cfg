SPECIFICATION Spec
CONSTANTS
  Lists <- TwoLists
  Topics = {ta, tb}
  Reliable = {"b2"}
  Subs <- SubSlots
  RxCap = 2
  MaxId = 50
  Kinds <- MsgKinds
  LineCap = 2
  MaxMsgs = 3
  MaxCmds = 2
  MaxEvents = 4
  MaxFalls = 2
INVARIANTS QueueExact Resubscribed Published
PROPERTIES Recovers
CHECK_DEADLOCK FALSE
