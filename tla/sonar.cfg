CONSTANTS
    Chunks <- MCChunks
    Calls <- MCCalls
SPECIFICATION FairSpec
INVARIANT TypeOK
INVARIANT SentBuffersAreStill
INVARIANT EchoIsOwn
PROPERTY JobEnds
PROPERTY CallReturns
PROPERTY SonarServiceSpec
