SPECIFICATION FairSpec
INVARIANTS TypeOK HandoffReleasesStreams OnlyBridgesAreDiscarded
PROPERTIES HandedOffServiceIsLeftAlone ExitIsAnswered
CHECK_DEADLOCK FALSE
