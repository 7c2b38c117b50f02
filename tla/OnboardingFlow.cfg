SPECIFICATION Spec
CONSTANTS
  N = 5
  Kind <- MCKind
  SeedSteps = {2}
  Optional = {4}
  MaxRounds = 3
INVARIANTS ApprovalSurvivesNoEdit TypeChangeRevokesAll OneOpenGrill GrillBounded
PROPERTY FinalWordStands
