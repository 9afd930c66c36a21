\* One owner with two tokens that expire one after the other, one machine, two
\* connections of machines and one browser, of which two may stay.
SPECIFICATION Spec
CONSTANTS
  o1 = o1
  m1 = m1
  t1 = t1
  t2 = t2
  Owners = {o1}
  Machines = {m1}
  Tokens = {t1, t2}
  Addrs = {x}
  AgentConns = {a1, a2}
  BrowserConns = {b1}
  None = None
  TokenOwner <- MCTokenOwner
  TokenExp <- MCTokenExp
  MaxHandshakes = 2
  MaxFailures = 1
  FailWindow = 0
  MaxActive = 2
  MaxPerAddress = 2
  MaxOwners = 1
  MaxMachines = 1
  MaxPerOwner = 1
  MaxSpentNonces = 2
  MaxEnrolments = 2
  Minute = 1
  MaxNow = 1
  MaxFaults = 1
SYMMETRY MCSymmetry
INVARIANTS OpenAgentIsRouted LimiterBalances PresenceSettles TokenEnrolsOnce
CHECK_DEADLOCK FALSE
