CONSTANTS
  Proc = {p1, p2}
  Oid = {a}
  NoOid = NoOid
  Requests <- Changes
SPECIFICATION FairSpec
INVARIANTS TypeOK
PROPERTIES CallsReturn OrphanIsTakenOver
