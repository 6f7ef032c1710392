SPECIFICATION FairSpec
CONSTANTS
  PeerScripts <- Scripts
  NotifThrows = TRUE
  MaxSends = 1
  BufTokens = 3
  MaxIovLen = 2
  NoGroup = NoGroup
INVARIANTS NothingAfterCloseFrame NotifiedOnce ValidatorReady
PROPERTIES ClosingIsReported QuietAfterClose GivenUpIsDestroyed PeerCloseIsAnswered
CHECK_DEADLOCK FALSE
