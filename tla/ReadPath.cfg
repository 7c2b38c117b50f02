SPECIFICATION RetrievalSpec
CONSTANTS
  File = {"x.py", "d/x.py", "y.py"}
  Library = {"lib"}
  Commit = {"c1"}
  Touches <- MCTouches
  Obs = {"o1", "o2", "o3"}
  About <- MCAbout
  Cites <- MCCites
  Path = {"x.py", "d/x.py", "y.py", "/r/d/x.py"}
  Tails <- MCTails
  Run = {r1, r2}
  r1 = r1
  r2 = r2
  Imports <- MCImports
  Trees <- MCTrees
  Stores <- MCStores
  MaxEdits = 1
  Category = {"code", "diagnostics", "knowledge"}
  Cat <- MCCat
  Ladder <- MCLadder
  Fractions <- MCFractions
  MinEntry = 3
  Cap = 2
  ImpactDepth = 3
  Marks = {0, 1, 2}
  Passing = 2
  Queries <- MCQueries
INVARIANTS IndexRebuilds ImpactIsReach PackageAccounts
