SPECIFICATION MatchSpec
CONSTANTS
  Catalogue <- MCCatalogue
  Answers <- MCAnswers
  DistrictOf <- MCDistrictOf
  FieldNoiseWords = {"any", "degree"}
  AnyWords = {"any"}
  RelatednessWords = {"related"}
  WideningDescriptorWords = {"technical"}
  Blank = Blank
  Unset = Unset
CHECK_DEADLOCK FALSE
INVARIANTS
  QuestionsAreOpen
PROPERTIES
  DecidedIsFinal
  NothingToFillInIsFinal
