CONSTANT MaxRetries = 3
SPECIFICATION UnwatchSpec
INVARIANT NotWatchedMeansItWasNot
