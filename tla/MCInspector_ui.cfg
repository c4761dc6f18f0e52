CONSTANTS
    Window = {w1}
    Editor = {e1}
    Request = {q1, q2}
    Limit = 2
    MaxVersion = 2
    None = None
    Handler = {h1, h2}
    TraceId = {x, y}
    Texts = {"plain", "broken"}
    MaxRecords = 2
    MaxKills = 1
    DebugRun = {1, 2}
    Viewer = {3}
    StoreOf <- StoresOfRuns
    Captured = {2}
    Port = {t1, t2}
    Stranger = Stranger
    MaxStrangers = 1
    MaxRunKills = 1
    MaxUiDeaths = 1
    Nobody = Nobody
    HostRequest = {r1, r2, r3}
    Deep = {r1, r2}
    MaxChildren = 2
    MaxModelCalls = 1
SYMMETRY InspectorSymmetry
SPECIFICATION InspectorSpec
INVARIANTS
    AnsweredIsInDiscussion
    SameVersionSameMessages
    StoresAreExact
    ManifestIsBacked
    RequestIsUnderWay
PROPERTIES
    AskedOnCurrentMessages
    GivenUiServesRun
    OnlyLentRoutesAreUsed
CHECK_DEADLOCK FALSE
