CONSTANTS
  p = p
  a = a
  i1 = i1
  i2 = i2
  yes = yes
  no = no
  Accounts = {p, a}
  Ids = {i1, i2}
  Choices = {yes, no}
  Ending = {a}
  MaxAsks = 3
SPECIFICATION FairSpec
CHECK_DEADLOCK FALSE
INVARIANTS
  Inv
  AnswerMatchesQuestion
  OneAnswerPerAsk
PROPERTY
  DecisionIsDelivered
