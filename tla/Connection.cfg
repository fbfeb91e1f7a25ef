SPECIFICATION FairSpec
INVARIANTS TypeOK ClosedExactlyOnce NeverQuiet OperationsBounded ForbiddenNeverServed 
PROPERTIES NoRevival SignalCloses SilentPeerDropped ImplementsSession
