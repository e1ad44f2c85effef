\* Refs: two callers of one process, two refs, one object id.  Board: two
\* requests after three stories.  Administration: two callers, two names and places.
CONSTANTS
  Call = {k1, k2}
  NoCall = NoCall
  Broker = {b1}
  b1 = b1
  BrokerOf <- OneBroker
  Ref = {main, tag}
  Oid = {a}
  NoOid = NoOid
  MaxTries = 2
  Process = {p1, p2}
  Lane = {"backlog", "doing"}
  MaxRequests = 2
  Name = {n1, n2}
  Place = {here, there}
  Local = {here}
  Owner = {o1}
  Nothing = Nothing
CHECK_DEADLOCK FALSE
SYMMETRY Symmetry
SPECIFICATION BrokerSpec
INVARIANTS TypeOK AgreeWhenQuiet IssuesHold ListingsHold
PROPERTIES ReconcileRepairs ReconcileIsSafe OrderHolds
