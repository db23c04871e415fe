\* Three writers on two hosts, three rows, four clock values.
CONSTANTS
  w1 = w1
  w2 = w2
  w3 = w3
  h1 = h1
  h2 = h2
  NoWriter = NoWriter
  Writers <- MCWriters
  Hosts <- MCHosts
  HostOf <- MCHostOf
  MaxRows = 3
  MaxTime = 3
SPECIFICATION FairSpec
INVARIANTS
  TypeOK
  LinearUnlessClock

  
