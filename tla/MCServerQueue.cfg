CONSTANTS
  Client = {c1, c2}
  NoJob = NoJob
  SignalThreads = {"main", "other"}
SPECIFICATION FairSpec
INVARIANTS
  TypeOK
  NoDanglingJob
  NoUseAfterClose
  NoStrandedJob
  ListenerGivenUp
PROPERTIES
  ImplementsService
  EveryClientLeaves
  StopEndsProcess
  NextConnectionEndsStop
