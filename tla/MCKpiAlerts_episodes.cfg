SPECIFICATION FairSpec
CONSTANTS
    Messages = {m1, m2}
    MaxRetries = 3
    MaxFaults = 2
INVARIANTS TypeOK OneAlertPerRival
PROPERTIES ImplementsEpisodes SustainedBreachIsRecorded SustainedRecoveryRearms
