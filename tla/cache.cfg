SPECIFICATION Spec
CONSTANTS
    f1 = f1
    f2 = f2
    f3 = f3
    f4 = f4
    NoFile = NoFile
    NoDocument = NoDocument
    InitSize = 1
    MaxFd = 3
    Path <- MCPath
    File <- MCFile
    Inode <- MCInode
    Dirname <- MCDirname
    NextPow2 <- MCNextPow2
INVARIANT TypeOK
INVARIANT NoLeak
INVARIANT FiledRight
PROPERTY SlotsKept
PROPERTY CallsReturn
PROPERTY ImplementsStore
