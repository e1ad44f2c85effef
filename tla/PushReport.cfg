CONSTANTS
  Session = {s1, s2}
  Ref = {main}
  main = main
  Heads = {main}
  Oid = {c1, c2}
  c1 = c1
  NoOid = NoOid
  Parents <- Fork
SYMMETRY Symmetry
CHECK_DEADLOCK FALSE
SPECIFICATION PushSpec
INVARIANTS ReportIsTrue
