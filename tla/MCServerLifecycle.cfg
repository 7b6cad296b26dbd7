SPECIFICATION FairSpec
CONSTANTS
  u1 = u1
  u2 = u2
  Users = {u1, u2}
  MaxLaunches = 2
  MaxConns = 2
  MaxKills = 1
  MaxStops = 1
INVARIANTS TypeOK ServesAlone SessionKept
PROPERTIES StopCutsNone StartServes ConnectionsAccepted
\* with all its launches, connections and kills used up the model stops
CHECK_DEADLOCK FALSE
