SPECIFICATION FairSpec
PROPERTY EveryStepAnswered
