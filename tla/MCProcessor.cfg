SPECIFICATION FairSpec
CONSTANTS
  p1 = p1
  p2 = p2
  b1 = b1
  b2 = b2
  Pods = {p1, p2}
  Old = p1
  Buyers = {b1, b2}
  Batch = 2
  Cap = 1
  MaxTrouble = 1

  
  
PROPERTIES
  StopsEnd
  
