\* One link left, which loses messages; processes crash and are restarted.
SPECIFICATION FairSpec
CONSTANTS
  A = A
  B = B
  Link = {udp}
  Latency = 2
  Window = 5
  Delays = {0, 2}
  StartDelay = 8
  Lossy = {udp}
  Addressed = {A}
  MayCrash = TRUE
  Copy = {1}
PROPERTIES
  NoVacancy
  Failover
