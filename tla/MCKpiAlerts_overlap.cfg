SPECIFICATION Spec
CONSTANTS
    Messages = {m1, m2}
    MaxRetries = 0
    MaxFaults = 0
SYMMETRY Symmetry
INVARIANT OneAlertPerEpisode
