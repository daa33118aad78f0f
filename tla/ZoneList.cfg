SPECIFICATION ListLiveSpec
CONSTANTS
  MaxWrites = 3
PROPERTIES ListEventuallyCurrent ListNeverOlder StopsWhenConnected
CHECK_DEADLOCK FALSE
