SPECIFICATION FairSpec
CONSTANTS
  Senders = {s1, s2}
  Worker = Worker
  Owner = Owner
  plain = plain
  chained = chained
  Callbacks <- MCCallbacks
  FollowUp <- MCFollowUp
  Quit = Quit
  None = None
  MaxSends = 2
  MaxLen = 9
INVARIANT
  TypeOK
PROPERTIES
  ActorSpec
  JoinReturns
  EverySendRuns
