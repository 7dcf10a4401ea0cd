CONSTANTS
  a1 = a1
  a2 = a2
  b1 = b1
  list = list
  grown = grown
  detail = detail
  Ability = {a1}
  Page = {list, grown, detail}
  NoAbility = NoAbility
  BundleOf <- MCBundleOf
  Components <- TwoPages
  PagesOf <- MCPagesOf
  Excluded <- NoneExcluded
  Modulus = 8
  CountCap = 4
  InputCap = 1
  MissedReads = 2
  Bundles = 1
  PageBackMax = 1
  LaunchMax = 1
SPECIFICATION Spec
INVARIANT TraversesAll
