SPECIFICATION ServiceSpec
CONSTANTS
    Upload = {"x", "y"}
    Content = {"a", "b"}
    Pdf = {"a"}
    Parts = 2
    Token = {"t1", "t2"}
    Owner <- COwner
    Call = {1, 2}
    Commands = 5
INVARIANTS
    CasTypeOK NoTornBlob StoreFollowsJar
PROPERTIES
    KeepsPromise UploadsEnd DeadSessionLeadsOut
CHECK_DEADLOCK FALSE
