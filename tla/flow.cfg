CONSTANTS
  Id <- MCId
  Plain = ""
  Netlists <- MCNetlists
  BuiltNames <- MCBuiltNames
  MaxTop = 4
  MaxResults = 2
  Half = 4
  Texts <- MCTexts
  MaxShown = 2
  Largest = 3
  Schemas <- MCSchemas
SPECIFICATION FrontSpec
INVARIANTS StagesSawOneNetlist WaysAgree EmptyExactlyRefused NeverSignoff
  FirstFaultReported WrongSummaryShows FrontEndsAgree PdkAsDeclared
