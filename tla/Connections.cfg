CONSTANTS
  MaxClients = 2
  Nobody = Nobody
  MaxFd = 3
  MaxAddresses = 2
SPECIFICATION FairSpec
INVARIANTS AcceptedRequest OwnDescriptors ClientClosed
PROPERTIES MessageEnds
\* The program stops when every connection is closed or its peer keeps silent.
CHECK_DEADLOCK FALSE
