CONSTANTS
  a1 = a1
  b1 = b1
  list = list
  grown = grown
  dialog = dialog
  form = form
  Ability = {a1, b1}
  Page = {list, grown, dialog, form}
  NoAbility = NoAbility
  BundleOf <- MCBundleOf
  Components <- MCComponents
  PagesOf <- MCPagesOf
  PathOf <- MCPathOf
  Blocked <- MCBlocked
  Dialog <- MCDialog
  TypeOf <- MCTypeOf
  FocusTypes <- MCFocusTypes
  FocusNum = 2
  MaxInputNum = 1
  Draws = {0, 1}
  Modulus = 8
  CountCap = 0
  InputCap = 2
  MissedReads = 0
SPECIFICATION Spec
INVARIANTS
  BackMeansDone
PROPERTY FocusPageIsLeft
