SPECIFICATION FairSpec
INVARIANT TypeOK
PROPERTIES StepAnswered MutationBlocksFrames PauseParks LockstepAnswered QuitJoins
