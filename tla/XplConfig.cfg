CONSTANTS
  n1 = n1
  n2 = n2
  v = v
  w = w
  Definition <- Definitions2
  BuiltinPrefix = {}
  Value = {v, w}
  g = g
  h = h
  Lists <- AllLists
  Group <- Texts
  Token <- Tokens
  Id = {a}
  Minutes = {1}
  MaxBody = 2
  Block = 5
  FreshId = FreshId
  DEFAULT_MINUTES = 5
  NoService = NoService
  NoFile = NoFile
  Nothing = Nothing
SPECIFICATION Spec
SYMMETRY ValueSymmetry
INVARIANTS
  RoundTrip
  HasItsItems
  ResponseReplaces
  AnswerRestores
