SPECIFICATION Spec
CONSTANTS
  a = a
  b = b
  ka = ka
  kb = kb
  rule = rule
  None = None
  Id = {a, b}
  Text = {ka, kb, rule}
  Workers = {w1}
  Requests <- KeyAndSudoRequests
  PrefixOf <- PrefixAB
  PartOf <- PartKAKB
  SedFinds <- Plain
  OldSudoers = {"ended"}
  OldKeys <- SpacedFiles
  Failures = {"command", "death"}
  ByHand = {"foreign"}
  MaxLines = 7
PROPERTIES
  KeysAreALog
  RulesAreALog
