\* Backups, federations, insights, admission, the analysis of a profile, upgrade paths.
SPECIFICATION MCSpec
CONSTANTS
    Backups <- OneEdit
    Watched <- TwoOfEach
    Objects <- TwoEdits
    Releases <- AllReleases
 
INVARIANT RecommendationsAreSound
INVARIANT PathsLeadUp
PROPERTY ReportsAreBacked
PROPERTY ReportsSettle
PROPERTY DeletionsComplete
CHECK_DEADLOCK FALSE
