SPECIFICATION FairSpec
CONSTANTS
    Ahci = {TRUE, FALSE}
    Wide = {TRUE, FALSE}
    Power = {TRUE, FALSE}
    Twice = {TRUE}
    Forced = {TRUE, FALSE}
    MaxFaults = 2
INVARIANTS SettingsKept RightUnlessResetFirst 
           ResetOkMeansAnswered 
PROPERTY CommandsEnd
