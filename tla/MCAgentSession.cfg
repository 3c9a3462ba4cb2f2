CONSTANTS
  list = list  get = get  portfolio_ = portfolio_
  search = search
  m1 = m1  m2 = m2
  Tools = {list, get, portfolio_, search}
  OtherTool = not_a_tool
  MaxTurns = 2
  MaxUses = 2
  Together = {list}
  MaxChats = 2
  ServerOf <- MCServerOf
  ToolOf <- MCToolOf
  Markets = {m1, m2}
  Batch <- MCBatch
  DefaultLimit = 1
  GetLimit = 3
  MaxDeaths = 1
SPECIFICATION SessionSpec
INVARIANTS
  RequestsAreWellFormed
  ListedMarketsAreFound
PROPERTY CommandExits
CHECK_DEADLOCK FALSE
