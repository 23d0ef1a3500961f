SPECIFICATION Spec
CONSTANTS
  JobIds = {j1, j2}
  JobCallers = {c1}
  AutoHosts = {h1, h2}
  AutoWorkspaces = {w1}
  AutoCursors = {r1, r2}
  EveryRuns = 1
  SeenLimit = 1
  MaxCounts = 2
  MaxAttempts = 2
  Approvers = {a1, a2}
  MaxChanged = 2
  RpcCapacity = 1
  MaxRequests = 3
  LinesSent <- MCLines
  MaxEvents = 1
  McpCallers = {c1, c2}
  MaxProcesses = 2
  MaxIds = 3
  MaxLines = 2
  MaxCalls = 3
  SignInTasks <- MCTasks
  MaxTokens = 3
  Urls = {1, 2}
  Rotating = {"s1"}
  SkillCallers = {k1, k2}
  MaxSkillTexts = 3
  MaxSeconds = 1
  Programs = {g1, g2}
  Providers = {p1}
  ModelNames = {m1}
  MaxChanges = 2
  Linkers = {l1, l2}
  OtherServers = {o1}
  MaxLinkCalls = 2
  Rememberers = {r1, r2}
  MaxMemories = 2
  Importers = {i1, i2}
  Servers = {s1}
  SkillTrees = {t1}
  Prompts = {q1}
  Notes = {n1, n2}
  RecallLimit = 1
  MaxImports = 2
  Main = Main
  Children = {c1}
  StartRules <- MCStartRules
  ModesSet = {"ask", "auto"}
  CallsMade = {"words", "compound"}
  MaxAsked = 2
  MaxTexts = 2
  MaxTurns = 2
  MaxSessions = 3
  Capacity = 1
  Chains <- MCChains
  Retries = 1
  MaxPieces = 2
  MaxMade = 2
  Parts = 2
  Layout <- MCLayout
  Contents = {1, 2}
  MaxEdits = 3
  FileRuns = {r1, r2}
  MaxFileTexts = 3
  Patience = 2
  PlanSteps = {"a"}
  MaxPlanPath = 5
VIEW Moves
INVARIANTS
  TypeOK
  WorkIsToldRight
  AppliedIsTested
  RpcOneAnswer
  ServersAnswer
  AccessKept
  
  ConsentHolds
  SessionHolds
  SaidIsSo
PROPERTIES
  BothOrNeither
CHECK_DEADLOCK FALSE
