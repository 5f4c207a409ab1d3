CONSTANTS
  Args <- MCArgs
  MaxRearms = 2
  NumCpus = 12
  Families <- MCFamilies
  IdBits <- MCIdBits
  Texts <- MCTexts
  Rates <- MCRates
SPECIFICATION ToolSpec
INVARIANTS
  SettingsKept
  OnlineCpusFound
  RowsUnderNames
  RateDecoded
