SPECIFICATION Spec
CHECK_DEADLOCK FALSE
CONSTANTS
  BtcBuffer = 3
  BtcLengthMax = 2
  ShortMax = 3
  SendBuffer = 4
  SmtpBuffer = 10
  HttpBuffer = 8
  SizeMax = 31
  SslReadBuffer = 4
  RecordMax = 2
  IntMax = 5
  Scenarios <- AllScenarios
INVARIANTS
  DeliveredAsSent
  NobodyStalls
  HandshakesAgree
  RepliesObeyed
  SecureAfterUpgrade
  MailArrives
  HttpDelivered
  TlsDelivered
