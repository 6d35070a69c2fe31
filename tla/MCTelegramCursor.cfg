SPECIFICATION LiveSpec
CONSTANTS
  short = short
  long = long
  endless = endless
  Messages <- MCMessages
  PartsOf <- MCPartsOf
  Inputs <- MCInputs
  QueueDepth = 2
  MaxAttempts = 2
  CmdSendLimit = 1
  MaxPosts = 2
  MaxCuts = 2
  ChannelDepth = 1
  MaxEvents = 1
  Durable = TRUE
INVARIANTS TypeOK OnceInOrder ForgottenIsHandled SendsAreTrue
PROPERTIES RestartsLoseOnlyOta UpdatesAreHandled
