\* Refs: two callers, each of a process of its own.  The rest as small as can be.
CONSTANTS
  Call = {k1, k2}
  NoCall = NoCall
  Broker = {b1, b2}
  b1 = b1
  BrokerOf <- EachItsOwn
  Ref = {main}
  Oid = {a}
  NoOid = NoOid
  MaxTries = 2
  Process = {p1}
  Lane = {"backlog", "doing"}
  MaxRequests = 1
  Name = {n1}
  Place = {here}
  Local = {here}
  Owner = {o1}
  Nothing = Nothing
CHECK_DEADLOCK FALSE
SPECIFICATION BrokerSpec
PROPERTIES ReconcileIsSafe
