----------------------------- MODULE BundleVerify -----------------------------
(***************************************************************************)
(* `proofcodec-verify bundle <path>`: cmd_bundle (cli.py) with             *)
(* ProofBundle.load, verify_bundle and format_verification_report          *)
(* (proof/bundle.py), next to another process that changes the directory:  *)
(* an archive being unpacked over it, a file being downloaded.  A step     *)
(* reads the directory once.                                               *)
(*                                                                         *)
(* A file is Absent, Garbage (not JSON, or half of it; of manifest.json    *)
(* also JSON that is no object, on which load fails too) or its content:   *)
(* of the others load takes any JSON value.  "reports" stands for the      *)
(* three files load parses and verify_bundle never looks at, with the      *)
(* contents of verification.json, "residual.v18" for the four binary       *)
(* extensions, of which only the existence matters.                        *)
(***************************************************************************)
EXTENDS Integers

CONSTANTS
    Manifests,          \* contents of manifest.json
    Models,             \* contents of model.json; EmptyModel: an empty object,
    EmptyModel,         \* or any other value that counts as false
    Residuals,          \* contents of a residual; NullJson: null
    NullJson,
    Reports,            \* contents of verification.json
    NoHash,             \* the empty string
    IllTyped,           \* a count of mismatches that is no number
    TreeHash(_),        \* _compute_tree_hash
    ManifestHash(_),    \* BundleManifest.compute_hash
    None, Absent, Garbage,
    MaxChanges          \* bound on the other process

VARIABLES
    dir,        \* the directory
    seen,       \* history: what each file has been since the start
    changes,    \* how often the other process changed one
    json,       \* --json
    call,       \* the caller of load: verify_bundle, or cmd_bundle itself
    pc,
    manifest,   \* bundle.manifest, model_data and residual_data of that load
    model,
    residual,
    result,     \* what verify_bundle returned
    report,     \* what was printed
    exit        \* the exit status

bundle == <<manifest, model, residual>>
vars == <<dir, seen, changes, json, call, pc, bundle, result, report, exit>>

FileNames == {"manifest.json", "model.json", "residual.json", "residual.v18", "reports"}

Contents(file) ==
    {Absent} \cup
    CASE file = "manifest.json" -> Manifests \cup {Garbage}
      [] file = "model.json" -> Models \cup {Garbage}
      [] file = "residual.json" -> Residuals \cup {NullJson, Garbage}
      [] file = "residual.v18" -> Residuals
      [] file = "reports" -> Reports \cup {Garbage}

\* The other process replaces, truncates or removes a file
Change(file) ==
    /\ changes < MaxChanges
    /\ exit = None
    /\ \E content \in Contents(file) \ {dir[file]} :
           /\ dir' = [dir EXCEPT ![file] = content]
           /\ seen' = [seen EXCEPT ![file] = @ \cup {content}]
    /\ changes' = changes + 1
    /\ UNCHANGED <<json, call, pc, bundle, result, report, exit>>

-----------------------------------------------------------------------------
(* Manifests *)

\* from_dict wants an endgame, which the flattening of a nested one defaults
Parses(raw) == raw \notin {Absent, Garbage} /\ (raw.nested \/ raw.has_endgame)

\* Both forms give these fields, except that flattening drops the hash of the
\* report; a manifest_hash in the file is dropped too.  The fields left out
\* have the types the dataclass declares.
FromDict(raw) ==
    [model_hash |-> raw.model_hash, residual_hash |-> raw.residual_hash,
     verification_hash |-> IF raw.nested THEN NoHash ELSE raw.verification_hash,
     mismatches |-> raw.mismatches]

\* None is no exit status and no report.
ASSUME NoneAssumption ==
    /\ None \notin {0, 1}
    /\ \A verdict \in BOOLEAN, m \in {None} \cup {FromDict(raw) : raw \in Manifests} :
           None # [verdict |-> verdict, manifest |-> m]

\* to_dict computes the hash it is compared with from the same fields
ToDictHash(m) == ManifestHash(m)

-----------------------------------------------------------------------------
(* cmd_bundle *)

NotVerified ==
    [is_valid |-> FALSE, model_included |-> TRUE, mismatches |-> 0,
     errors |-> {"not loaded"}]

Init ==
    /\ dir \in [FileNames -> UNION {Contents(f) : f \in FileNames}]
    /\ \A f \in FileNames : dir[f] \in Contents(f)
    /\ seen = [f \in FileNames |-> {dir[f]}]
    /\ changes = 0
    /\ json \in BOOLEAN
    /\ call = "verify_bundle"
    /\ pc = "start"
    /\ manifest = None
    /\ model = EmptyModel
    /\ residual = Absent
    /\ result = NotVerified
    /\ report = None
    /\ exit = None

Goto(label) ==
    pc' = label /\ UNCHANGED <<dir, seen, changes, json, call, bundle, result, report, exit>>

Exit(status) ==
    /\ pc' = "exited"
    /\ exit' = status
    /\ UNCHANGED <<dir, seen, changes, json, call, bundle, result, report>>

Start ==
    /\ pc = "start"
    /\ IF dir["manifest.json"] = Absent THEN Exit(1) ELSE Goto("manifest")

LoadFailsQuietly ==  \* mutant: cmd_bundle ignores the second failure
    IF call = "verify_bundle"
    THEN /\ call' = "cmd_bundle"
         /\ result' = NotVerified
         /\ pc' = "manifest"
         /\ UNCHANGED <<dir, seen, changes, json, bundle, report, exit>>
    ELSE Goto("exit")

\* load raises: verify_bundle catches it and cmd_bundle loads again all the
\* same; there it ends the program with a traceback and no report.
LoadFails ==
    IF call = "verify_bundle"
    THEN /\ call' = "cmd_bundle"
         /\ result' = NotVerified
         /\ pc' = "manifest"
         /\ UNCHANGED <<dir, seen, changes, json, bundle, report, exit>>
    ELSE Exit(1)

LoadManifest ==
    /\ pc = "manifest"
    /\ IF Parses(dir["manifest.json"])
       THEN /\ manifest' = FromDict(dir["manifest.json"])
            /\ pc' = "model"
            /\ UNCHANGED <<dir, seen, changes, json, call, model, residual,
                           result, report, exit>>
       ELSE LoadFails

LoadModel ==
    /\ pc = "model"
    /\ IF dir["model.json"] = Garbage THEN LoadFails
       ELSE /\ model' = IF dir["model.json"] = Absent THEN EmptyModel
                        ELSE dir["model.json"]
            /\ pc' = "residual"
            /\ UNCHANGED <<dir, seen, changes, json, call, manifest, residual,
                           result, report, exit>>

LoadResidual ==
    /\ pc = "residual"
    /\ IF dir["residual.json"] = Garbage THEN LoadFails
       ELSE /\ residual' = IF dir["residual.json"] = NullJson THEN Absent
                           ELSE dir["residual.json"]
            /\ pc' = "reports"
            /\ UNCHANGED <<dir, seen, changes, json, call, manifest, model,
                           result, report, exit>>

LoadReports ==
    /\ pc = "reports"
    /\ IF dir["reports"] = Garbage THEN LoadFails
       ELSE Goto(IF call = "verify_bundle" THEN "checks" ELSE "print")

ModelIncluded == model # EmptyModel

AnyModel == TRUE  \* mutant: the included model is not hashed

\* A model that is not distributed, or an empty one, is trusted
ModelHashValid == ModelIncluded => TreeHash(model) = manifest.model_hash

ManifestValid == ToDictHash(manifest) = ManifestHash(manifest)

ResidualFileOnly == dir["residual.v18"] # Absent  \* mutant: v15 bundles fail

HasResidual == residual # Absent \/ dir["residual.v18"] # Absent

Errors ==
    {e \in {"model", "manifest", "residual"} :
        \/ e = "model" /\ ~ModelHashValid
        \/ e = "manifest" /\ ~ManifestValid
        \/ e = "residual" /\ manifest.mismatches > 0 /\ ~HasResidual}

\* The checks of verify_bundle; neither the residual's hash nor the contents
\* of the reports are among them.  What is no number is not compared with 0:
\* the exception passes cmd_bundle and ends the program.
VerifyBundle ==
    /\ pc = "checks"
    /\ IF manifest.mismatches = IllTyped THEN Exit(1)
       ELSE /\ result' = [is_valid |-> Errors = {} /\ ModelHashValid /\ ManifestValid,
                          model_included |-> ModelIncluded,
                          mismatches |-> manifest.mismatches,
                          errors |-> Errors]
            /\ call' = "cmd_bundle"
            /\ pc' = "manifest"
            /\ UNCHANGED <<dir, seen, changes, json, bundle, report, exit>>

\* format_verification_report, or the result as JSON
PrintReport ==
    /\ pc = "print"
    /\ report' = [verdict |-> result.is_valid,
                  manifest |-> IF json THEN None ELSE manifest]
    /\ pc' = "exit"
    /\ UNCHANGED <<dir, seen, changes, json, call, bundle, result, exit>>

ExitWithVerdict ==
    /\ pc = "exit"
    /\ Exit(IF result.is_valid THEN 0 ELSE 1)

Terminating == pc = "exited" /\ UNCHANGED vars

Step ==
    \/ Start \/ LoadManifest \/ LoadModel \/ LoadResidual \/ LoadReports
    \/ VerifyBundle \/ PrintReport \/ ExitWithVerdict

Next == Step \/ Terminating \/ \E file \in FileNames : Change(file)

Spec == Init /\ [][Next]_vars

-----------------------------------------------------------------------------
(* Correctness *)

\* The checks that verify_bundle makes, of files that do not change: that all
\* of them load, and the first three of the four its docstring lists.  The
\* fourth, consistency of the verification report, is not made: DocumentedChecks.
PassesChecks(d) ==
    /\ Parses(d["manifest.json"])
    /\ \A f \in {"model.json", "residual.json", "reports"} : d[f] # Garbage
    /\ d["model.json"] \notin {Absent, EmptyModel} =>
           TreeHash(d["model.json"]) = d["manifest.json"].model_hash
    /\ d["manifest.json"].mismatches # IllTyped
    /\ d["manifest.json"].mismatches > 0 =>
           d["residual.json"] \notin {Absent, NullJson} \/ d["residual.v18"] # Absent

\* A directory nobody touches gets exit status 0 exactly when it passes these
\* checks: neither the second load nor what else may raise turns a verdict
\* around.  A text report then shows the manifest that was verified.
QuietVerdict ==
    (exit # None /\ changes = 0) =>
        /\ (exit = 0) = PassesChecks(dir)
        /\ (exit = 0 /\ ~json) => report.manifest = FromDict(dir["manifest.json"])

\* Whatever changes meanwhile, exit status 0 rests on a bundle that passes
\* the checks, made of files the directory did hold (cmd_bundle loads it twice).
VerdictWasEarned ==
    exit = 0 =>
        \E m \in seen["manifest.json"], t \in seen["model.json"],
           r \in seen["residual.json"], v \in seen["residual.v18"],
           w \in seen["reports"] :
            PassesChecks([f \in FileNames |->
                      CASE f = "manifest.json" -> m
                        [] f = "model.json" -> t
                        [] f = "residual.json" -> r
                        [] f = "residual.v18" -> v
                        [] f = "reports" -> w])

\* No report contradicts the exit status, and a missing one means failure.
ReportAgreesWithExit ==
    exit # None => IF report = None THEN exit = 1
                   ELSE report.verdict = (exit = 0)

\* What the manifest says of the residual, and of the verification report.
ResidualAsHashed ==
    dir["residual.v18"] # Absent =>
        dir["manifest.json"].residual_hash = dir["residual.v18"]

ReportAsHashed ==
    dir["reports"] # Absent =>
        FromDict(dir["manifest.json"]).verification_hash \in {NoHash, dir["reports"]}

\* "The manifest contains SHA-256 hashes of both artifacts.
\* `proofcodec-verify` checks hashes" (README, How Verification Works), and
\* "4. Verification report consistency" (docstring of verify_bundle): either
\* check, if it were made, would stop a bundle that fails both.
DocumentedChecks ==
    (exit = 0 /\ changes = 0) => ResidualAsHashed \/ ReportAsHashed
=============================================================================
