SPECIFICATION PagesSpec
CONSTANTS
    Desk = {"documents","panel","tree","merge","snapshot","users","dipa","edit","filter"}
    Blob = {"p", "q"}
    Sender = {"d1", "d2", "d3"}
    Mover = {"m1", "m2"}
    Panel = {"A", "B"}
    Docs = {"a1", "a2", "b1"}
    Hak = {"dokumen:create", "dokumen:read", "dokumen:update", "dokumen:delete"}
    MaxChanges = 2
    Home <- CHome
    RowId = {"r1", "r2", "r3", "r4"}
    MaxSum = 1
    Codes <- CCodes
    Periode = {"p1", "p2"}
    Caller = {"c1", "c2", "c3"}
    MaxEdition = 3
    UserId = {"u1", "u2"}
    Self = "u1"
    Word = {"x", "y"}
    Blank = ""
    Absent = "absent"
    File = {"f1", "f2", "g"}
    PdfFile = {"f1", "f2"}
    Slot = {"s1", "s2"}
    DipaId = {"i1", "i2"}
    Masa <- CMasa
    NowMonth = "now"
    RowSet <- CRow
    MaxSaves = 2
    MaxBudget = 4
INVARIANTS
    ListedIsKept UploadComesLast ReorderStands
    DraftOfThisNode OwnDocsShown
    EveryRowOnce TopIsSumOfLeaves MergedRight
    LatestAnswerStands
    SavedWhole
    DipaListed
    OwnBudgetShown SavedAsReported
PROPERTIES
    DraftKept DeletedStaysDeleted
CHECK_DEADLOCK FALSE
