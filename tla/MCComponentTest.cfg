CONSTANTS
  a1 = a1
  a2 = a2
  b1 = b1
  list = list
  grown = grown
  detail = detail
  Ability = {a1, a2, b1}
  Page = {list, grown, detail}
  NoAbility = NoAbility
  BundleOf <- MCBundleOf
  Components <- MCComponents
  PagesOf <- MCPagesOf
  Excluded <- MCExcluded
  Modulus = 4
  CountCap = 3
  InputCap = 1
  MissedReads = 2
  Bundles = 2
  PageBackMax = 1
  LaunchMax = 1
SPECIFICATION Spec
INVARIANTS
  CountsAgree
  OldScreenIsCurrent
  InOrder
PROPERTIES
  FinishedExplained
  EndsOnceQuiet
