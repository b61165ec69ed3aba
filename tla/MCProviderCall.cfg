SPECIFICATION Spec
CONSTANTS
  None = None
  MaxLine = 7
  PromptTokens = 3
  CompletionTokens = 4
  Calls = {c1, c2}
  Asks <- MCAsks
  Wires <- MCWires
  Answers <- MCAnswers
  Refusals <- MCRefusals
  Deadline = 3
  ReadGap = 1
  AnthropicGap = 2
  StreamGap = 2
INVARIANTS TranslationKept BufferBounded ActiveStreamLives RepliesKept
PROPERTY CallsEnd
CHECK_DEADLOCK FALSE
