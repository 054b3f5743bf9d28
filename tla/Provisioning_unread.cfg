SPECIFICATION Spec
CONSTANTS
  a = a
  b = b
  ka = ka
  kb = kb
  rule = rule
  None = None
  Id = {a, b}
  Text = {ka, kb, rule}
  Workers = {w1}
  Requests <- SudoRequests
  PrefixOf <- Nothing
  PartOf <- Nothing
  SedFinds <- Plain
  OldSudoers = {"unended"}
  OldKeys <- Nothing
  Failures = {}
  ByHand = {}
  MaxLines = 6
INVARIANT
  GrantedRuleIsRead
