CONSTANTS
  Client = {g1, g2}
  Version = {65, 66, 68}
  TD = {1, 2}
  OurHighest = 66
  Nobody = nobody
SPECIFICATION Spec
PROPERTY
  TDNeverFalls
