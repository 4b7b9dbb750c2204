CONSTANTS
  a = a
  b = b
  h = h
  Fallback = Fallback
  NoIp = NoIp
  NoHost = NoHost
  Leased <- MCLeased
  Leases <- MCLeases
  Hosts <- MCHosts
  Factor = 3
  Word = 8
  Timeout = 1
  RetryAfter = 3
  MaxInbox = 2
SPECIFICATION Spec
INVARIANT LeaseIsKept
