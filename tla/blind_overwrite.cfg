SPECIFICATION PagesSpec
CONSTANTS
  t1 = t1  t2 = t2
  Pages = {t1, t2}
  Openings <- OneRule
  Edits = {e1, e2}
  MostSubmissions = 2
  MostLosses = 1
PROPERTY NoBlindOverwrite
CHECK_DEADLOCK FALSE
