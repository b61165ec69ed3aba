SPECIFICATION FairLocksSpec
CONSTANTS
  chat = chat
  proxy = proxy
  mutation = mutation
  reload = reload
  Tasks = {chat, proxy, mutation, reload}
  Handler <- HandlerOf
  Workers = 2
  MaxReloads = 2
INVARIANT ConsistentSelect
PROPERTY CallsEnd
CHECK_DEADLOCK FALSE
