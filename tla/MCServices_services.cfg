SPECIFICATION ServicesSpec
CONSTANTS
 Users = {u1, u2, u3}
 Orgs = {o1, o2}
 Members = {p1, p2}
 NoSeat = NoSeat
 NoOrg = NoOrg
 MaxActs = 2
 Callers = {p1, p2}
 TalkRuns = {o1, o2}
 Talks = {t1}
 TalkKeys = {k1}
 NoKey = NoKey
 NoTalk = NoTalk
 MaxReplayed = 3
 MaxCalls = 1
 Generations = {p1, p2}
 MaxRetries = 1
 BaseDelay = 2
 MaxDelay = 1
 NoHint = NoHint
 MaxSeries = 2
 OtherLabel = "other"
 Hints <- HintsAsked
 Buckets <- TwoBuckets
 Books <- PriceBooks
 Collation <- ByName
 GroupLimits = {1, 2}
 Editors = {p1, p2}
 MaxEditions = 2
 Installed = {"tool"}
 MaxSteps = 3
 MaxBytes = 1
 FirstDrafts <- AnyDraft
 LaterDrafts <- OneStep
 Written <- Uses
INVARIANTS TypesOK RoundTrip StatementsApply RunTurnsInOrder ResultsFollowTheirRequests MeasuresAddUp LedgerTellsWhatWasSpent RunsAreOnOneSoundEdition
PROPERTIES DowngradeSparesOlderRows LeavingErasesNoRecord LastOwnerGoesOnlyUnseen OwnershipIsGranted OthersStayOnlyUnseen
SYMMETRY Symmetry
CHECK_DEADLOCK FALSE
