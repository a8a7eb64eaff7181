SPECIFICATION Spec
CONSTANTS
    Expressions <- MCExpressions
    Instants <- MCInstants
    Typed = {0, 60, Fraction}
    Fraction = Fraction
    Weekdays = {0, 1, 5}
INVARIANTS
    TypeOK
    MatcherFollowsCron
    StoredNeverFails
    PresetFiresAsShown
    SummaryIsTrue
