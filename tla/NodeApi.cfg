SPECIFICATION Spec
CONSTANTS
  alice = alice
  nobody = nobody
  breach = breach
  plain = plain
  Principals = {alice}
  Trees <- MCTrees
  Registries <- MCRegistries
  NoRegistry = {nobody}
  Home <- MCHome
  Kinds = {breach, plain}
  Filters <- MCFilters
  Servers <- MCServers
  MaxName = 5
  MaxCylinders = 4
  MaxLimit = 2
  MaxDisturbed = 2
SYMMETRY MCSymmetry
INVARIANTS
  TypeOK
  TransportsAgree
  WalkExact
  WalkBounds
  NoFalseRefusal
