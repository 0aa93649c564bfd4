\* All the traffic on the modem; a retry of ATD, none of ATH.
CONSTANTS
  Number = {n1}
  NoNumber = NoNumber
  MaxStartRetry = 1
  MaxAnswerRetry = 0
  MaxHangUpRetry = 0
  Traffic = {"gsm", "sms", "incoming"}
SPECIFICATION Spec
INVARIANTS
  TypeOK
  OneRequest
  DialHasNoRequest
PROPERTIES
  ImplementsService
