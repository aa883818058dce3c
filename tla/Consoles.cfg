SPECIFICATION FairSpec
CONSTANTS
  Called = {"getKafkaLag"}
  Window = 2
  MaxCalls = 2
  Question <- MCQuestion
  MaxQuestions = 2
  MaxTicks = 2
CHECK_DEADLOCK FALSE
INVARIANTS TypeOK AnswersFollowQuestions BlockedRunsNothing RateIsBounded RefusalIsEarned
PROPERTIES SnapshotNeverGoesBack WaitingEndsOrTicks
