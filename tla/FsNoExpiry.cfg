\* Three processes, none of whose leases reaches its lifetime.
CONSTANTS
  Proc = {p1, p2, p3}
  Oid = {a, b}
  NoOid = NoOid
  Requests <- Changes
SYMMETRY Symmetry
SPECIFICATION NoExpirySpec
INVARIANTS LeaseExclusive
PROPERTIES ImplementsAtomicRef
