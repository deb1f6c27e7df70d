SPECIFICATION BackoffSpec
CONSTANTS
    BaseMinutes = {5}
    MaxMinutes = {60}
    MaxErrors = 30
INVARIANTS
    BackoffMatchesContract
