\* Requests: two, the first of an admin.  Accounts: three requests of two overlapping
\* ones, two users with a key each.  Signed: two keys.  CI: two runs, one is kept.
CONSTANTS
  Call = {c1, c2}
  c1 = c1
  c2 = c2
  Admin = {c1}
  Cloud = {"gcp", "aws"}
  Ref = {main, topic}
  Guarded = {main}
  Source = topic
  Target = main
  Oid = {a, b}
  NoOid = NoOid
  MaxPr = 1
  Session = {s1, s2}
  root = root
  ada = ada
  k0 = k0
  k1 = k1
  User = {root, ada}
  Root = root
  Key = {k0, k1}
  KeyOf <- UserOf
  Team = {t1}
  Name = {n1, n2}
  n1 = n1
  None = None
  Granted = {"read"}
  Appointed = {"user"}
  MaxRequests = 3
  Keys = 2
  Window = 2
  Skew = 1
  MaxTime = 5
  MaxAccepted = 2
  Cap = 1
  MaxStamps = 3
SYMMETRY Symmetry
CHECK_DEADLOCK FALSE
SPECIFICATION ServiceSpec
INVARIANTS TypeOK MergedHasMoved SerialAgrees MembershipsHold CallsHold RunsHold
PROPERTIES ProtectionHolds SwapIsPrecise AccountsRepaired
