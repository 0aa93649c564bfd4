\* FAMILY_VER1, no retry of a failed call.
CONSTANTS
  Number = {n1}
  NoNumber = NoNumber
  Mode = {"FAMILY_VER1"}
  SmsMode = {}
  UploadMode = {}
  Places = {{0}}
  Dtmf = {FALSE}
  MaxStartCallRetry = 0
  MaxVer2Retry = 0
  MaxPromptRetry = 0
  MaxSmsRetry = 0
SPECIFICATION FairSpec
PROPERTIES
  SosGivesUp
