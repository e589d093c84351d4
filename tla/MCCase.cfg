CONSTANTS
    MaxGen = 2
    Repairs = 1
    Rounds = 1
    NULL = NULL
SPECIFICATION Spec
INVARIANTS DoneIsDecided DoneHasVoted
PROPERTIES WhatStandsStays SavedOnceByTheLast
CHECK_DEADLOCK FALSE
