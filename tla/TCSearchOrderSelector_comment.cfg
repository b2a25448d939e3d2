\* As TCSearchOrderSelector.cfg, with the reports of whole searches only.
SPECIFICATION SpecOfXacts
CONSTANTS
  Period = 3
  CntSize = 4
  NLevel = 3
PROPERTY OrderFollowsHits
