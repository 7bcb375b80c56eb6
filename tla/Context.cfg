CONSTANTS
  Tasks = {a, b}
  Values = {0, 1}
  NoTask = NoTask
SPECIFICATION Spec
INVARIANTS
  ContextMatches
PROPERTIES
  ProcessorsAreVirtual
