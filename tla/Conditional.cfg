\* S3 and GCS, each with a library that sends a request once or twice.
CONSTANTS
  Proc = {p1, p2}
  Oid = {a, b}
  NoOid = NoOid
  Requests <- Changes
  MaxSends = 2
  MaxGen = 4
SYMMETRY Symmetry
SPECIFICATION Spec
INVARIANTS TypeOK AppliedAtMostOnce
PROPERTIES ImplementsAtomicRef StaleWritersRejected
