\* Dialogs with rows beyond the window and the page, fields of two bytes; two commands of two
\* people on three brokers, the second after the first or during it; one operation of a menu on a
\* broker of three users, disturbed once; two of init and clone in one directory; two requests of
\* the browser for a cache; histories of four commits; two actions on a work tree of
\* two files, besides those that end a request;
\* two changes of two watched files and a channel of two events; two requests of a terminal and a
\* browser, one record of each kind and two names of repositories; two commits of which builds are
\* started, and a log of three entries in pages of two.
CONSTANTS
  Command = {c1, c2}
  Person = {ada, bob}
  NoOne = NoOne
  c1 = c1
  c2 = c2
  bob = bob
  gcp = gcp
  aws = aws
  r1 = r1
  r2 = r2
  Target <- Targets
  Aws = {aws}
  Choices <- Selections
  MaxDeploys = 2
  MaxCommands = 2
  Height = 3
  PerPage = 2
  Limit = 2
  MaxItems = 4
  MaxFields = 2
  PerProvider = 1
  MaxProfiles = 2
  MaxKeys = 1
  Polls = 2
  MaxExpired = 1
  User = {"root", "ann", "bob"}
  Root = "root"
  Key = {"k1", "k2", "k3"}
  Team = {"home", "other"}
  Home = "home"
  Granted = {"read", "developer"}
  None = None
  Rounds = 1
  MaxOthers = 1
  Process = {"p1", "p2"}
  Dir = {1}
  File = "file"
  Bucket = {"s3"}
  MaxStarts = 2
  Handler = {h1, h2}
  Id = {1, 2}
  Part = {1, 2}
  MaxVersion = 3
  NoFile = NoFile
  Mixed = Mixed
  N = 4
  Path = {"f", "g"}
  Blob = {"x", "y"}
  NoBlob = "none"
  Branch = {trunk, side}
  Main = trunk
  trunk = trunk
  side = side
  MaxCommits = 5
  MaxActions = 2
  Watched = {"a", "b"}
  Capacity = 2
  MaxChanges = 2
  MaxRefused = 1
CHECK_DEADLOCK FALSE
SPECIFICATION ToolsSpec
INVARIANTS DeploymentHolds
PROPERTIES DialogsHold CommandsAreComplete WebHolds
