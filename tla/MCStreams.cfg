CONSTANTS
  Prices = {0, 1}
  MaxMinutes = 4
  Limit = 2
  Lookback = 2
  Period = 3
  Up = 1
  Down = 0
  MaxWire = 2
  Idle = 2
  MaxBackoff = 4
  MaxAge = 3
  Default = v0
  Values = {v0, v1}
  MaxUpdates = 2
  MaxClock = 1
  MaxReports = 1
  MaxLives = 2
  BadSends = 2
SPECIFICATION StreamsSpec
INVARIANTS CandlesTypeOK StoreOrdered StoreTrue StoreComplete EntryInQuietMarket ConvertAgrees FeedTypeOK PriceIsFresh
INVARIANTS TelegramTypeOK TakenOnce NonePassedOver NoneForgotten SettingsAsTold
PROPERTIES FeedComesBack  
CHECK_DEADLOCK FALSE
