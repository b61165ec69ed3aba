SPECIFICATION Spec
CONSTANTS
  None = None
  Requests = {r1, r2}
  Confidence <- MCConfidence
  Asked <- MCAsked
  Configs <- MCConfigs
  PiiEnv <- MCEnv
  HasKey = FALSE
  Blocklist = {"bad"}
  MaxTokensLimit = 8
  Price <- MCPrice
  SpendLimit = 5
  MaxKeys = 2
  Ceiling = 7
  Pricing <- MCPricing
  Capture = FALSE
  Secrets <- MCSecrets
  Replies <- MCReplies
  Failures <- MCFailures
  Chunks <- MCChunks
  LogQueries <- MCQueries
  SpentBefore <- MCSpent
  MaxChanges = 1
  MaxChunks = 1
  BufferLimit = 1
  MaxUsage = 2
  MaxLogs = 1
  AuditCapacity = 1
INVARIANTS PiiWithheld ResponseWithheld AccountedOnce BudgetBounded AuditConserved StatisticsTold
SYMMETRY Symmetry
