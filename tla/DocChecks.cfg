CONSTANTS
    None = None
    Absent = Absent
    Garbage = Garbage
    Tree = Tree
    OtherTree = OtherTree
    EmptyModel = EmptyModel
    Exceptions = Exceptions
    OtherExceptions = OtherExceptions
    NullJson = NullJson
    Report = Report
    OtherReport = OtherReport
    NoHash = NoHash
    IllTyped = IllTyped
    Manifests <- MCManifests
    Models = {Tree, OtherTree, EmptyModel}
    Residuals = {Exceptions, OtherExceptions}
    Reports = {Report, OtherReport}
    TreeHash <- MCTreeHash
    ManifestHash <- MCManifestHash
    MaxChanges = 0
SPECIFICATION Spec
INVARIANTS DocumentedChecks
