SPECIFICATION PlanningSpec
CONSTANTS
  Leaf = {1, 2, 3, 4}
  Path <- MCPath
  Ids = {1, 2, 3, 4, 10, 11, 99}
  File = {"a", "b", "c"}
  MaxWrites = 2
  Plans <- MCPlans
  Limits = {0, 1, 3}
  Replies <- MCReplies
  MaxRounds = 2
  MaxEdits = 2
  MaxPlans = 2
CHECK_DEADLOCK FALSE
INVARIANTS DependenciesFirst WaveMembersIndependent RefusesOnlyCycles
PROPERTIES CallEnds PlanForPresentAnswers ArmedPlanBuildable PlanReachesPage
