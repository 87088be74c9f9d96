\* Three votes of one voter at a time; votes of others touch other rows.
SPECIFICATION PollSpec
CONSTANTS
  Voters = {v1}
  Options = {o1, o2}
  Requests = {r1, r2, r3}
  None = None
INVARIANTS
  OneAnswer
  LatestStands
PROPERTIES
  VotesEnd
