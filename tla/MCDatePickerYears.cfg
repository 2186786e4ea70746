\* Two years, the second a leap year.
SPECIFICATION Spec
CONSTANTS
    MinYear = 1971
    MaxYear = 1972
    Todays <- SomeDays
INVARIANTS TypeOK DateSupported ViewSupported PageComplete
PROPERTIES ChoiceInView StepsOneDay
