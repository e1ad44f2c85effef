\* Two clones and a history of three commits; two files, each with one of two
\* contents, and three commands after two branches have parted.
CONSTANTS
  Clone = {k1, k2}
  Oid = {c1, c2, c3}
  c1 = c1
  NoOid = NoOid
  Parents <- Fork
  Path = {f, g}
  Blob = {a, b}
  a = a
  NoBlob = NoBlob
  Branch = {main, topic}
  Root <- SameEverywhere
  MaxCommits = 5
  MaxCommands = 3
CHECK_DEADLOCK FALSE
SYMMETRY Symmetry
SPECIFICATION ClientSpec
INVARIANTS TypesOK RemoteComplete MergeKeepsBothSides
PROPERTIES BranchKept KeepsEdits CommitsKept
