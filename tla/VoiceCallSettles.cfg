\* Calls both ways; a retry of ATD, none of ATH or of the answer.
CONSTANTS
  Number = {n1}
  NoNumber = NoNumber
  MaxStartRetry = 1
  MaxAnswerRetry = 0
  MaxHangUpRetry = 0
  Traffic = {"incoming"}
SPECIFICATION FairSpec
PROPERTIES
  CallSettles
