SPECIFICATION MCSpec
CONSTANTS
  a = a
  b = b
  Units <- MCUnits
  Letter <- MCLetter
  Tokens <- MCTokens
  Numbers = {0, 1}
  Requested = {0}
  AmsAuto = TRUE
  MaxWaiting = 1
  MaxArranges = 1
  MaxRestarts = 1
INVARIANT OneUnitAnswers
PROPERTY UnitsFound
