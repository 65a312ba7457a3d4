CONSTANTS
  Elements <- Found
  MaxLen = 3
SPECIFICATION NetSpec
INVARIANTS
  AnswerIsShown
  CarefulCallsDontPanic
