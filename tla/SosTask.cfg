\* The three modes; one phone number, in no place of the list, in its third or in
\* the first two; an upload may set CALL_CENTER, the shorter list.  One retry of a
\* failed call, one more wait for a call back.
CONSTANTS
  Number = {n1}
  NoNumber = NoNumber
  Mode = {"CALL_CENTER", "FAMILY_VER1", "FAMILY_VER2"}
  SmsMode = {"CALL_CENTER", "FAMILY_VER1"}
  UploadMode = {"CALL_CENTER"}
  Places = {{}, {2}, {0, 1}}
  Dtmf = {TRUE, FALSE}
  MaxStartCallRetry = 1
  MaxVer2Retry = 1
  MaxPromptRetry = 0
  MaxSmsRetry = 0
SPECIFICATION FairSpec
INVARIANTS
  TypeOK
  CallsConfigured
PROPERTIES
  SosLeavesNoRequest
  SosComesToRest
  EveryNumberTried
  ImplementsEmergency
