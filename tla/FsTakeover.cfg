CONSTANTS
  Proc = {p1, p2}
  Oid = {a, b}
  NoOid = NoOid
  Requests <- Changes
SPECIFICATION OrphanSpec
PROPERTIES StaleWritersRejected
