\* Three nodes and three dependencies: cycles of every length up to three,
\* self-dependencies, duplicates, chains, forks and joins, and among them one
\* dependency on, or of, a foreign node.
SPECIFICATION Spec
CONSTANTS
  Nodes = {n1, n2, n3}
  Others = {x}
  MaxDeps = 3
  MaxForeign = 1
INVARIANT CountsAreExact
PROPERTY SortsOrRejects
