SPECIFICATION LiveSpec
CONSTANTS
  old = old  good = good  small = small  panics = panics
  doc = doc  url = url  cut = cut  long = long  usage = usage
  Pins = {"right", "wrong", "none"}
  MaxTries = 3
  InitAttempts = 2
  MaxMishaps = 2
  Requests = {doc, url, cut, long, usage}
  Batches <- MCBatches
  Url = {url}
  Invalid = {usage}
  ImageOf <- MCImageOf
  Announced <- MCAnnounced
  Served <- MCServed
  Unknown = Unknown
  Length <- MCLength
  Bad = {panics}
  First = old
  Torn = Torn
  SlotSize = 2
  MaxBatches = 2
INVARIANTS Recoverable PinSpared
PROPERTIES OnlyNewestSelected PacketDataOff ListensAgain ComesUp
