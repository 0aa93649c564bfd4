\* Outgoing calls while Gsm_Task reinitialises the modem.
CONSTANTS
  Number = {n1}
  NoNumber = NoNumber
  MaxStartRetry = 0
  MaxAnswerRetry = 0
  MaxHangUpRetry = 0
  Traffic = {"gsm"}
SPECIFICATION Spec
PROPERTIES
  DialIsReal
