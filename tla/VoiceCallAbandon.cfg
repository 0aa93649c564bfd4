\* Outgoing calls, nothing else.
CONSTANTS
  Number = {n1}
  NoNumber = NoNumber
  MaxStartRetry = 0
  MaxAnswerRetry = 0
  MaxHangUpRetry = 0
  Traffic = {}
SPECIFICATION Spec
PROPERTIES
  EndCallHangsUp
