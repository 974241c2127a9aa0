SPECIFICATION Spec
CONSTANTS
  s1 = s1  s2 = s2  c1 = c1  c2 = c2
  NoServer = NoServer
  Servers <- OneServer
  Calls <- OneCall
  Intents <- EveryIntent
  MaxPolls = 2
  Faults <- TimeoutOnly
PROPERTY UnpublishLeavesNoAttach
