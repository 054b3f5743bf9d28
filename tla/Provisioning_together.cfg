SPECIFICATION Spec
CONSTANTS
  a = a
  b = b
  ka = ka
  kb = kb
  rule = rule
  None = None
  Id = {a, b}
  Text = {ka, kb, rule}
  Workers = {w1, w2}
  Requests <- KeyRequests
  PrefixOf <- PrefixAB
  PartOf <- Nothing
  SedFinds <- Plain
  OldSudoers = {"ended"}
  OldKeys <- AnyFiles
  Failures = {"command", "death"}
  ByHand = {}
  MaxLines = 6
INVARIANT
  KeyUnderItsComment
