CONSTANTS
    None = None
    Absent = Absent
    Garbage = Garbage
    Tree = Tree
    OtherTree = OtherTree
    EmptyModel = EmptyModel
    Exceptions = Exceptions
    OtherExceptions = OtherExceptions
    NullJson = NullJson
    Report = Report
    OtherReport = OtherReport
    NoHash = NoHash
    IllTyped = IllTyped
    Manifests <- MCManifests
    Models = {Tree, OtherTree, EmptyModel}
    Residuals = {Exceptions}
    Reports = {Report}
    TreeHash <- MCTreeHash
    ManifestHash <- MCManifestHash
    MaxChanges = 1
SPECIFICATION Spec
INVARIANTS QuietVerdict VerdictWasEarned ReportAgreesWithExit
