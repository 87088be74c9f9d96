\* Three requests at a time.
SPECIFICATION FlightsSpec
CONSTANTS
  Requests = {r1, r2, r3}
  Ttl = 1
  MaxTime = 2
  MaxFetches = 3
  None = None
INVARIANTS
  OneFetch
  ForcedIsFresh
  NeverOlder
PROPERTIES
  FetchesSpaced
  RequestsEnd
