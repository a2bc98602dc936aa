CONSTANTS
  Wallet0 <- WalletSmall
  Marks <- MarksTwo
  Sizes = {2}
  MaxTrade = 4
  Budget = 8
  Gas = {0, 1}
  Slips <- SlipsBoth
  MaxRuns = 3
SPECIFICATION Spec
INVARIANTS TypeOK BookExplainsWallet FoldRaisesOnlyForGas BudgetPassedOnce BasisConserved PageListsSettled
PROPERTY NoSpendWhileUnsettled
CHECK_DEADLOCK FALSE
