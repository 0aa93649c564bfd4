\* Three places in the queue and the list, of which none, the last or the last two
\* are filled when a message begins; one more attempt for a recipient, one retry of
\* the message of an SOS.
CONSTANTS
  SMS_MAX_NUMBER = 3
  Places = {{}, {2}, {1, 2}}
  white = TRUE
  SMS_RESEND_CNT_MAX = 1
  MaxSosSmsRetry = 1
SPECIFICATION FairSpec
INVARIANTS
  TypeOK
  MessageMeetsRecipients
  FreshCount
  ServesARecipient
  CancelIsLast
PROPERTIES
  EveryRecipientServed
  MessagesHoldNoCall
  PendingIsSent
