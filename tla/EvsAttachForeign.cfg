SPECIFICATION Spec
CONSTANTS
  s1 = s1  s2 = s2  c1 = c1  c2 = c2
  NoServer = NoServer
  Servers <- TwoServers
  Calls <- TwoCalls
  Intents <- PublishOnly
  MaxPolls = 2
  Faults <- FailingJobs
INVARIANT PublishSuccessNamesServer
