CONSTANTS
    Chunks <- MCChunks
    Uploads <- MCUploads
SPECIFICATION FairSpec
INVARIANT TypeOK
INVARIANT Verified
INVARIANT CalmCallsSucceed
PROPERTY FwRecovers
PROPERTY CallReturns
