SPECIFICATION Spec
CONSTANTS
    Ahci = {TRUE}
    Wide = {FALSE}
    Power = {FALSE}
    Twice = {FALSE}
    Forced = {FALSE}
    MaxFaults = 1
INVARIANT ReadIsWhatWasAsked
