SPECIFICATION AnswerSpec
CONSTANTS
  Bsl = {module1, module2}
  Descr = {descriptor}
  MaxVersion = 1
  Lost = Lost
  None = None
  Interrupts = TRUE
  EditsDuring = FALSE
  Outages = TRUE
  module1 = module1
  module2 = module2
  descriptor = descriptor
  Parts = {"update", "declared", "refs", "output", "lists", "branches", "loops", "handlers", "search", "path", "answers", "subsystems", "moves", "opens"}
  Lookups <- MCLookups
  Programs <- MCPrograms
  Searched <- MCSearched
  InGit <- MCInGit
  Printed <- MCPrinted
  Referred <- MCReferred
  Tabled <- MCTabled
  Contained <- MCContained
  Told <- MCTold
  Movers = {1, 2, 3}
  Users = {1, 2}
  Rule <- MCRule
  Kinds = {"start", "info", "cli"}
  Shapes <- MCShapes
  MaxRebuilds = 1
SYMMETRY Perms
CHECK_DEADLOCK FALSE
INVARIANTS Recoverable NeverHalfBuilt SnapshotHonest
           LookupsHonest LaunchTargets SearchesAccounted OutputHonest
PROPERTIES CaughtUp
