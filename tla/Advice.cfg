SPECIFICATION AdviceSpec
CONSTANTS
    noForecast = noForecast
    noAdvice = noAdvice
    DayLen = 12
    SlotLen = 2
    NoForecast = noForecast
    Options <- MCItineraries
    KindOf <- Kind
    Cost <- Score
    Forecasts <- MCForecasts
    MaxWait = 2
    MaxCandidates = 3
    NoAdvice = noAdvice
CHECK_DEADLOCK FALSE
INVARIANTS EveryKindStays FirstCheapest InOrder RainIsReported RainOnlyCosts
