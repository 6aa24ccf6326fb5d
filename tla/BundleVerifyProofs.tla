-------------------------- MODULE BundleVerifyProofs --------------------------
(***************************************************************************)
(* Theorems about BundleVerify: what an exit status and a report rest on,  *)
(* for every set of contents, every hash and any number of changes by the  *)
(* other process.                                                          *)
(***************************************************************************)
EXTENDS BundleVerify, TLAPS

-----------------------------------------------------------------------------
(* The inductive invariant *)

Read == {"model", "residual", "reports", "checks", "print"}
ModelRead == {"residual", "reports", "checks", "print"}
ResidualRead == {"reports", "checks", "print"}

\* A manifest is loaded from a file of content raw, and so are the others.
ManifestOf(raw) == Parses(raw) /\ manifest = FromDict(raw)

ModelOf(raw) ==
    raw # Garbage /\ model = (IF raw = Absent THEN EmptyModel ELSE raw)

ResidualOf(raw) ==
    raw # Garbage /\ residual = (IF raw = NullJson THEN Absent ELSE raw)

TypeOK ==
    /\ dir \in [FileNames -> UNION {Contents(f) : f \in FileNames}]
    /\ \A f \in FileNames : dir[f] \in Contents(f)
    /\ DOMAIN seen = FileNames
    /\ \A f \in FileNames : dir[f] \in seen[f]
    /\ changes \in Nat
    /\ call \in {"verify_bundle", "cmd_bundle"}
    /\ pc \in {"start", "manifest"} \cup Read \cup {"exit", "exited"}
    /\ manifest \in {None} \cup {FromDict(raw) : raw \in Manifests}
    /\ result.is_valid \in BOOLEAN

\* Where the command is decides what is known of call, report and exit.
Control ==
    /\ pc = "start" => call = "verify_bundle"
    /\ pc = "checks" => call = "verify_bundle"
    /\ pc \in {"print", "exit"} => call = "cmd_bundle"
    /\ call = "verify_bundle" => result.is_valid = FALSE
    /\ pc \notin {"exit", "exited"} => report = None
    /\ pc = "exit" => report # None /\ report.verdict = result.is_valid
    /\ exit # None => pc = "exited"

\* What the first load keeps, the directory did hold.
FirstLoad ==
    call = "verify_bundle" =>
        /\ pc \in Read => \E raw \in seen["manifest.json"] : ManifestOf(raw)
        /\ pc \in ModelRead => \E raw \in seen["model.json"] : ModelOf(raw)
        /\ pc \in ResidualRead => \E raw \in seen["residual.json"] : ResidualOf(raw)
        /\ pc = "checks" => \E raw \in seen["reports"] : raw # Garbage

\* The files that were held make a bundle that passes the checks.
Earned ==
    \E m \in seen["manifest.json"], t \in seen["model.json"],
       r \in seen["residual.json"], v \in seen["residual.v18"],
       w \in seen["reports"] :
        PassesChecks([f \in FileNames |->
                  CASE f = "manifest.json" -> m
                    [] f = "model.json" -> t
                    [] f = "residual.json" -> r
                    [] f = "residual.v18" -> v
                    [] f = "reports" -> w])

ValidIsEarned == (result.is_valid \/ exit = 0) => Earned

\* Nobody changed the directory: both loads are of what it holds.
QuietLoad ==
    changes = 0 =>
        /\ pc \in Read => ManifestOf(dir["manifest.json"])
        /\ pc \in ModelRead => ModelOf(dir["model.json"])
        /\ pc \in ResidualRead => ResidualOf(dir["residual.json"])
        /\ pc \in {"checks", "print", "exit"} => dir["reports"] # Garbage
        /\ (call = "cmd_bundle" /\ pc # "exited") => result.is_valid = PassesChecks(dir)
        /\ (pc = "exit" /\ ~json) => report.manifest = FromDict(dir["manifest.json"])

IInv ==
    /\ TypeOK
    /\ Control
    /\ FirstLoad
    /\ ValidIsEarned
    /\ QuietLoad
    /\ QuietVerdict
    /\ ReportAgreesWithExit

-----------------------------------------------------------------------------
(* The checks *)

\* The checks of verify_bundle, on what it loaded and the file it looks for,
\* are those of these contents.
LEMMA ChecksDecide ==
    ASSUME NEW d,
           ManifestOf(d["manifest.json"]), ModelOf(d["model.json"]),
           ResidualOf(d["residual.json"]), d["reports"] # Garbage,
           d["residual.v18"] = dir["residual.v18"]
    PROVE  PassesChecks(d)
           <=> /\ manifest.mismatches # IllTyped
               /\ Errors = {} /\ ModelHashValid /\ ManifestValid
  <1> DEFINE m == d["manifest.json"]
             t == d["model.json"]
             enough == manifest.mismatches > 0 => HasResidual
  <1>1. ManifestValid
    BY DEF ManifestValid, ToDictHash
  <1>2. Errors = {} <=> (ModelHashValid /\ enough)
    BY <1>1 DEF Errors
  <1>3. Parses(m) /\ manifest.model_hash = m.model_hash
                 /\ manifest.mismatches = m.mismatches
    BY DEF ManifestOf, FromDict
  <1>4. ModelHashValid <=>
            (t \notin {Absent, EmptyModel} => TreeHash(t) = m.model_hash)
    BY <1>3 DEF ModelOf, ModelHashValid, ModelIncluded
  <1>5. enough <=> (m.mismatches > 0 => d["residual.json"] \notin {Absent, NullJson}
                                        \/ d["residual.v18"] # Absent)
    BY <1>3 DEF ResidualOf, HasResidual
  <1>6. \A f \in {"model.json", "residual.json", "reports"} : d[f] # Garbage
    BY DEF ModelOf, ResidualOf
  <1>7. PassesChecks(d) <=>
            /\ t \notin {Absent, EmptyModel} => TreeHash(t) = m.model_hash
            /\ m.mismatches # IllTyped
            /\ m.mismatches > 0 => d["residual.json"] \notin {Absent, NullJson}
                                   \/ d["residual.v18"] # Absent
    BY <1>3, <1>6 DEF PassesChecks
  <1> HIDE DEF m, t, enough
  <1> QED
    BY <1>1, <1>2, <1>3, <1>4, <1>5, <1>7

\* A directory that fails a load does not pass.
LEMMA GarbageFails ==
    ASSUME NEW d,
           \/ ~Parses(d["manifest.json"])
           \/ \E f \in {"model.json", "residual.json", "reports"} : d[f] = Garbage
    PROVE  ~PassesChecks(d)
  BY DEF PassesChecks

\* What was held stays held.
LEMMA EarnedStays ==
    ASSUME Earned, \A f \in FileNames : seen[f] \subseteq seen'[f]
    PROVE  Earned'
  <1>1. \A f \in {"manifest.json", "model.json", "residual.json",
                  "residual.v18", "reports"} : seen[f] \subseteq seen'[f]
    BY DEF FileNames
  <1>2. PICK m \in seen["manifest.json"], t \in seen["model.json"],
             r \in seen["residual.json"], v \in seen["residual.v18"],
             w \in seen["reports"] :
            PassesChecks([f \in FileNames |->
                      CASE f = "manifest.json" -> m
                        [] f = "model.json" -> t
                        [] f = "residual.json" -> r
                        [] f = "residual.v18" -> v
                        [] f = "reports" -> w])
    BY Zenon DEF Earned
  <1>3. /\ m \in seen'["manifest.json"] /\ t \in seen'["model.json"]
        /\ r \in seen'["residual.json"] /\ v \in seen'["residual.v18"]
        /\ w \in seen'["reports"]
    BY <1>1
  <1> QED
    BY <1>2, <1>3, Zenon DEF Earned

-----------------------------------------------------------------------------
(* The invariant holds at the start and is kept by every step *)

\* The command starts with nothing loaded.
LEMMA InitIInv == Init => IInv
  <1> SUFFICES ASSUME Init PROVE IInv
    OBVIOUS
  <1>1. TypeOK
    BY DEF Init, TypeOK, NotVerified
  <1>2. Control /\ FirstLoad
    BY DEF Init, Control, FirstLoad, NotVerified, Read, ModelRead, ResidualRead
  <1>3. exit # 0 /\ result.is_valid = FALSE
    BY NoneAssumption DEF Init, NotVerified
  <1>4. QuietLoad
    BY DEF Init, QuietLoad, Read, ModelRead, ResidualRead
  <1> QED
    BY <1>1, <1>2, <1>3, <1>4
    DEF Init, IInv, ValidIsEarned, QuietVerdict, ReportAgreesWithExit

\* Another process may change any file between two reads.
LEMMA ChangeKeeps ==
    ASSUME IInv, NEW file \in FileNames, Change(file)
    PROVE  IInv'
  <1>1. PICK content \in Contents(file) \ {dir[file]} :
            /\ dir' = [dir EXCEPT ![file] = content]
            /\ seen' = [seen EXCEPT ![file] = @ \cup {content}]
    BY DEF Change
  <1>2. /\ changes' = changes + 1 /\ exit = None
        /\ UNCHANGED <<json, call, pc, bundle, result, report, exit>>
    BY DEF Change
  <1>3. /\ call' = call /\ pc' = pc /\ manifest' = manifest /\ model' = model
        /\ residual' = residual /\ result' = result /\ report' = report
        /\ exit' = exit /\ json' = json
    BY <1>2 DEF bundle
  <1>4. /\ DOMAIN seen = FileNames /\ DOMAIN dir = FileNames
        /\ \A f \in FileNames : dir[f] \in Contents(f) /\ dir[f] \in seen[f]
    BY DEF IInv, TypeOK
  <1>5. \A f \in FileNames : seen[f] \subseteq seen'[f]
    BY <1>1, <1>4
  <1>6. \A f \in FileNames : dir'[f] \in Contents(f) /\ dir'[f] \in seen'[f]
    BY <1>1, <1>4
  <1>7. DOMAIN seen' = FileNames /\ DOMAIN dir' = FileNames
    BY <1>1, <1>4
  <1>8. dir' = [f \in FileNames |-> dir'[f]]
    BY <1>1, <1>4
  <1>9. dir' \in [FileNames -> UNION {Contents(f) : f \in FileNames}]
    BY <1>6, <1>8
  <1>10. changes' \in Nat /\ changes' # 0
    BY <1>2 DEF IInv, TypeOK
  <1>11. TypeOK'
    BY <1>3, <1>6, <1>7, <1>9, <1>10 DEF IInv, TypeOK
  <1>12. Control'
    BY <1>3 DEF IInv, Control
  <1>13. FirstLoad'
    <2>1. \A f \in {"manifest.json", "model.json", "residual.json", "reports"} :
              seen[f] \subseteq seen'[f]
      BY <1>5 DEF FileNames
    <2> QED
      BY <1>3, <2>1 DEF IInv, FirstLoad, ManifestOf, ModelOf, ResidualOf
  <1>14. ValidIsEarned'
    BY <1>3, <1>5, EarnedStays DEF IInv, ValidIsEarned
  <1>15. QuietLoad' /\ QuietVerdict'
    BY <1>10 DEF QuietLoad, QuietVerdict
  <1>16. ReportAgreesWithExit'
    BY <1>3 DEF IInv, ReportAgreesWithExit
  <1> QED
    BY <1>11, <1>12, <1>13, <1>14, <1>15, <1>16 DEF IInv

\* A step that only moves on or ends the program leaves the rest alone.
Kept ==
    UNCHANGED <<dir, seen, changes, json, bundle, result, report>>

\* The variables one by one.
LEMMA KeptFields ==
    ASSUME Kept
    PROVE  /\ dir' = dir /\ seen' = seen /\ changes' = changes /\ json' = json
           /\ manifest' = manifest /\ model' = model /\ residual' = residual
           /\ result' = result /\ report' = report
  BY DEF Kept, bundle

\* The program ends without a report, for lack of a readable directory.
LEMMA ExitKeeps ==
    ASSUME IInv, Exit(1), pc \notin {"exit", "exited"},
           changes = 0 => ~PassesChecks(dir)
    PROVE  IInv'
  <1>1. /\ pc' = "exited" /\ exit' = 1 /\ call' = call /\ Kept
        /\ report = None
    BY DEF Exit, Kept, IInv, Control
  <1>2. /\ dir' = dir /\ seen' = seen /\ changes' = changes /\ json' = json
        /\ manifest' = manifest /\ model' = model /\ residual' = residual
        /\ result' = result /\ report' = report
    BY <1>1, KeptFields
  <1>3. TypeOK'
    BY <1>1, <1>2 DEF IInv, TypeOK
  <1>4. Control' /\ FirstLoad' /\ QuietLoad'
    BY <1>1, <1>2
    DEF IInv, Control, FirstLoad, QuietLoad, Read, ModelRead, ResidualRead
  <1>5. exit' # 0
    BY <1>1
  <1>6. ValidIsEarned'
    <2>1. result.is_valid => Earned
      BY DEF IInv, ValidIsEarned
    <2>2. Earned => Earned'
      BY <1>2, EarnedStays
    <2> QED
      BY <1>2, <1>5, <2>1, <2>2 DEF ValidIsEarned
  <1>7. QuietVerdict'
    <2>1. changes' = 0 => ~PassesChecks(dir')
      BY <1>2
    <2>2. (exit' # None /\ changes' = 0) => (exit' = 0) = PassesChecks(dir')
      BY <1>5, <2>1, Zenon DEF PassesChecks
    <2> QED
      BY <1>5, <2>2, Zenon DEF QuietVerdict, PassesChecks, Parses
  <1>8. ReportAgreesWithExit'
    BY <1>1, <1>2 DEF ReportAgreesWithExit
  <1> QED
    BY <1>3, <1>4, <1>6, <1>7, <1>8 DEF IInv

\* load raises: in the first load it is taken for an invalid bundle.
LEMMA LoadFailsKeeps ==
    ASSUME IInv, LoadFails, pc \in {"manifest"} \cup Read,
           changes = 0 => ~PassesChecks(dir)
    PROVE  IInv'
  <1>1. CASE call = "verify_bundle"
    <2>1. /\ call' = "cmd_bundle" /\ pc' = "manifest" /\ result' = NotVerified
          /\ dir' = dir /\ seen' = seen /\ changes' = changes /\ json' = json
          /\ manifest' = manifest /\ report' = report /\ exit' = exit
      BY <1>1 DEF LoadFails, bundle
    <2>2. result'.is_valid = FALSE
      BY <2>1 DEF NotVerified
    <2>3. exit = None /\ report = None
      BY DEF IInv, Control, Read
    <2>4. TypeOK'
      BY <2>1, <2>2 DEF IInv, TypeOK
    <2>5. Control' /\ FirstLoad'
      BY <2>1, <2>2, <2>3
      DEF IInv, Control, FirstLoad, Read, ModelRead, ResidualRead
    <2>6. ValidIsEarned'
      BY <2>1, <2>2, <2>3, NoneAssumption DEF ValidIsEarned
    <2>7. QuietLoad'
      BY <2>1, <2>2 DEF QuietLoad, Read, ModelRead, ResidualRead, PassesChecks
    <2>8. QuietVerdict' /\ ReportAgreesWithExit'
      BY <2>1, <2>3 DEF QuietVerdict, ReportAgreesWithExit
    <2> QED
      BY <2>4, <2>5, <2>6, <2>7, <2>8 DEF IInv
  <1>2. CASE call # "verify_bundle"
    <2>1. Exit(1)
      BY <1>2 DEF LoadFails
    <2>2. pc \notin {"exit", "exited"}
      BY DEF Read
    <2> QED
      BY <2>1, <2>2, ExitKeeps
  <1> QED
    BY <1>1, <1>2

\* Without a manifest there is nothing to verify.
LEMMA StartKeeps ==
    ASSUME IInv, Start
    PROVE  IInv'
  <1>1. CASE dir["manifest.json"] = Absent
    <2>1. Exit(1) /\ pc \notin {"exit", "exited"}
      BY <1>1 DEF Start
    <2>2. ~PassesChecks(dir)
      BY <1>1 DEF PassesChecks, Parses
    <2> QED
      BY <2>1, <2>2, ExitKeeps
  <1>2. CASE dir["manifest.json"] # Absent
    <2>1. pc = "start" /\ pc' = "manifest" /\ exit' = exit /\ call' = call /\ Kept
      BY <1>2 DEF Start, Goto, Kept
    <2>2. /\ dir' = dir /\ seen' = seen /\ changes' = changes /\ json' = json
          /\ manifest' = manifest /\ model' = model /\ residual' = residual
          /\ result' = result /\ report' = report
      BY <2>1, KeptFields
    <2>3. exit = None /\ call = "verify_bundle"
      BY <2>1 DEF IInv, Control
    <2>4. TypeOK' /\ Control'
      BY <2>1, <2>2 DEF IInv, TypeOK, Control
    <2>5. FirstLoad' /\ QuietLoad'
      BY <2>1, <2>2, <2>3 DEF FirstLoad, QuietLoad, Read, ModelRead, ResidualRead
    <2>6. ValidIsEarned'
      BY <2>1, <2>2 DEF IInv, ValidIsEarned, Earned
    <2>7. QuietVerdict' /\ ReportAgreesWithExit'
      BY <2>1, <2>3 DEF QuietVerdict, ReportAgreesWithExit
    <2> QED
      BY <2>4, <2>5, <2>6, <2>7 DEF IInv
  <1> QED
    BY <1>1, <1>2

\* The manifest is read, or the load fails.
LEMMA LoadManifestKeeps ==
    ASSUME IInv, LoadManifest
    PROVE  IInv'
  <1> DEFINE raw == dir["manifest.json"]
  <1>1. CASE ~Parses(raw)
    <2>1. LoadFails /\ pc \in {"manifest"} \cup Read
      BY <1>1 DEF LoadManifest
    <2> QED
      BY <1>1, <2>1, LoadFailsKeeps, GarbageFails
  <1>2. CASE Parses(raw)
    <2>1. /\ pc = "manifest" /\ pc' = "model" /\ manifest' = FromDict(raw)
          /\ dir' = dir /\ seen' = seen /\ changes' = changes /\ json' = json
          /\ call' = call /\ result' = result /\ report' = report /\ exit' = exit
      BY <1>2 DEF LoadManifest
    <2>2. exit = None
      BY <2>1 DEF IInv, Control
    <2>3. raw \in Manifests /\ raw \in seen["manifest.json"]
      <3>1. /\ raw \in Contents("manifest.json")
            /\ raw \in seen["manifest.json"]
        BY DEF IInv, TypeOK, FileNames
      <3> QED
        BY <1>2, <3>1 DEF Contents, Parses
    <2>4. TypeOK'
      BY <2>1, <2>3 DEF IInv, TypeOK, Read
    <2>5. Control'
      BY <2>1 DEF IInv, Control
    <2>6. ManifestOf(raw)'
      BY <1>2, <2>1 DEF ManifestOf, Parses, FromDict
    <2>7. FirstLoad' /\ QuietLoad'
      BY <2>1, <2>3, <2>6
      DEF IInv, FirstLoad, QuietLoad, Read, ModelRead, ResidualRead, PassesChecks, Parses,
          ManifestOf
    <2>8. ValidIsEarned'
      BY <2>1 DEF IInv, ValidIsEarned, Earned
    <2>9. QuietVerdict' /\ ReportAgreesWithExit'
      BY <2>1, <2>2 DEF QuietVerdict, ReportAgreesWithExit
    <2> QED
      BY <2>4, <2>5, <2>7, <2>8, <2>9 DEF IInv
  <1> QED
    BY <1>1, <1>2

\* The tree is read, or the load fails.
LEMMA LoadModelKeeps ==
    ASSUME IInv, LoadModel
    PROVE  IInv'
  <1> DEFINE raw == dir["model.json"]
  <1>1. CASE raw = Garbage
    <2>1. LoadFails /\ pc \in {"manifest"} \cup Read
      BY <1>1 DEF LoadModel, Read
    <2> QED
      BY <1>1, <2>1, LoadFailsKeeps, GarbageFails
  <1>2. CASE raw # Garbage
    <2>1. /\ pc = "model" /\ pc' = "residual"
          /\ model' = (IF raw = Absent THEN EmptyModel ELSE raw)
          /\ dir' = dir /\ seen' = seen /\ changes' = changes /\ json' = json
          /\ call' = call /\ manifest' = manifest /\ residual' = residual
          /\ result' = result /\ report' = report /\ exit' = exit
      BY <1>2 DEF LoadModel
    <2>2. exit = None
      BY <2>1 DEF IInv, Control
    <2>3. raw \in seen["model.json"]
      BY DEF IInv, TypeOK, FileNames
    <2>4. TypeOK' /\ Control'
      BY <2>1 DEF IInv, TypeOK, Control, Read
    <2>5. ModelOf(raw)'
      BY <1>2, <2>1 DEF ModelOf
    <2>6. FirstLoad' /\ QuietLoad'
      BY <2>1, <2>3, <2>5
      DEF IInv, FirstLoad, QuietLoad, Read, ModelRead, ResidualRead, PassesChecks, Parses,
          ManifestOf, ModelOf
    <2>7. ValidIsEarned'
      BY <2>1 DEF IInv, ValidIsEarned, Earned
    <2>8. QuietVerdict' /\ ReportAgreesWithExit'
      BY <2>1, <2>2 DEF QuietVerdict, ReportAgreesWithExit
    <2> QED
      BY <2>4, <2>6, <2>7, <2>8 DEF IInv
  <1> QED
    BY <1>1, <1>2

\* The residual is read, or the load fails.
LEMMA LoadResidualKeeps ==
    ASSUME IInv, LoadResidual
    PROVE  IInv'
  <1> DEFINE raw == dir["residual.json"]
  <1>1. CASE raw = Garbage
    <2>1. LoadFails /\ pc \in {"manifest"} \cup Read
      BY <1>1 DEF LoadResidual, Read
    <2> QED
      BY <1>1, <2>1, LoadFailsKeeps, GarbageFails
  <1>2. CASE raw # Garbage
    <2>1. /\ pc = "residual" /\ pc' = "reports"
          /\ residual' = (IF raw = NullJson THEN Absent ELSE raw)
          /\ dir' = dir /\ seen' = seen /\ changes' = changes /\ json' = json
          /\ call' = call /\ manifest' = manifest /\ model' = model
          /\ result' = result /\ report' = report /\ exit' = exit
      BY <1>2 DEF LoadResidual
    <2>2. exit = None
      BY <2>1 DEF IInv, Control
    <2>3. raw \in seen["residual.json"]
      BY DEF IInv, TypeOK, FileNames
    <2>4. TypeOK' /\ Control'
      BY <2>1 DEF IInv, TypeOK, Control, Read
    <2>5. ResidualOf(raw)'
      BY <1>2, <2>1 DEF ResidualOf
    <2>6. FirstLoad' /\ QuietLoad'
      BY <2>1, <2>3, <2>5
      DEF IInv, FirstLoad, QuietLoad, Read, ModelRead, ResidualRead, PassesChecks, Parses,
          ManifestOf, ModelOf, ResidualOf
    <2>7. ValidIsEarned'
      BY <2>1 DEF IInv, ValidIsEarned, Earned
    <2>8. QuietVerdict' /\ ReportAgreesWithExit'
      BY <2>1, <2>2 DEF QuietVerdict, ReportAgreesWithExit
    <2> QED
      BY <2>4, <2>6, <2>7, <2>8 DEF IInv
  <1> QED
    BY <1>1, <1>2

\* The other files parse, or the load fails.
LEMMA LoadReportsKeeps ==
    ASSUME IInv, LoadReports
    PROVE  IInv'
  <1> DEFINE raw == dir["reports"]
  <1>1. CASE raw = Garbage
    <2>1. LoadFails /\ pc \in {"manifest"} \cup Read
      BY <1>1 DEF LoadReports, Read
    <2>2. ~PassesChecks(dir)
      BY <1>1 DEF PassesChecks
    <2> QED
      BY <2>1, <2>2, LoadFailsKeeps
  <1>2. CASE raw # Garbage
    <2>1. /\ pc = "reports" /\ exit' = exit /\ call' = call /\ Kept
          /\ pc' = (IF call = "verify_bundle" THEN "checks" ELSE "print")
      BY <1>2 DEF LoadReports, Goto, Kept
    <2>2. /\ dir' = dir /\ seen' = seen /\ changes' = changes /\ json' = json
          /\ manifest' = manifest /\ model' = model /\ residual' = residual
          /\ result' = result /\ report' = report
      BY <2>1, KeptFields
    <2>3. exit = None
      BY <2>1 DEF IInv, Control
    <2>4. raw \in seen["reports"]
      BY DEF IInv, TypeOK, FileNames
    <2>5. TypeOK' /\ Control'
      BY <2>1, <2>2 DEF IInv, TypeOK, Control, Read
    <2>6. FirstLoad' /\ QuietLoad'
      BY <1>2, <2>1, <2>2, <2>4
      DEF IInv, FirstLoad, QuietLoad, Read, ModelRead, ResidualRead, PassesChecks, Parses,
          ManifestOf, ModelOf, ResidualOf
    <2>7. ValidIsEarned'
      BY <2>1, <2>2 DEF IInv, ValidIsEarned, Earned
    <2>8. QuietVerdict' /\ ReportAgreesWithExit'
      BY <2>1, <2>3 DEF QuietVerdict, ReportAgreesWithExit
    <2> QED
      BY <2>5, <2>6, <2>7, <2>8 DEF IInv
  <1> QED
    BY <1>1, <1>2

\* What the checks pass, the directory held piece by piece.
LEMMA ValidWasHeld ==
    ASSUME IInv, pc = "checks", manifest.mismatches # IllTyped,
           Errors = {}, ModelHashValid, ManifestValid
    PROVE  Earned
  <1>1. call = "verify_bundle"
    BY DEF IInv, Control
  <1>2. PICK m \in seen["manifest.json"], t \in seen["model.json"],
             r \in seen["residual.json"], w \in seen["reports"] :
            ManifestOf(m) /\ ModelOf(t) /\ ResidualOf(r) /\ w # Garbage
    BY <1>1 DEF IInv, FirstLoad, Read, ModelRead, ResidualRead
  <1> DEFINE v == dir["residual.v18"]
             d == [f \in FileNames |->
                      CASE f = "manifest.json" -> m
                        [] f = "model.json" -> t
                        [] f = "residual.json" -> r
                        [] f = "residual.v18" -> v
                        [] f = "reports" -> w]
  <1>3. v \in seen["residual.v18"]
    BY DEF IInv, TypeOK, FileNames
  <1>4. /\ d["manifest.json"] = m /\ d["model.json"] = t
        /\ d["residual.json"] = r /\ d["residual.v18"] = v
        /\ d["reports"] = w
    BY DEF FileNames
  <1>5. PassesChecks(d)
    <2> HIDE DEF d
    <2> QED
      BY <1>2, <1>4, ChecksDecide
  <1> QED
    BY <1>3, <1>5, Zenon DEF Earned

\* Nobody changed the directory: the checks are those of what it holds.
LEMMA ChecksOfDirectory ==
    ASSUME IInv, pc = "checks", changes = 0
    PROVE  PassesChecks(dir)
           <=> /\ manifest.mismatches # IllTyped
               /\ Errors = {} /\ ModelHashValid /\ ManifestValid
  <1>1. /\ ManifestOf(dir["manifest.json"]) /\ ModelOf(dir["model.json"])
        /\ ResidualOf(dir["residual.json"]) /\ dir["reports"] # Garbage
    BY DEF IInv, QuietLoad, Read, ModelRead, ResidualRead
  <1> QED
    BY <1>1, ChecksDecide

\* A count that is no number ends the program without a report.
LEMMA IllTypedKeeps ==
    ASSUME IInv, VerifyBundle, manifest.mismatches = IllTyped
    PROVE  IInv'
  <1>1. pc = "checks" /\ Exit(1)
    BY DEF VerifyBundle
  <1>2. changes = 0 => ~PassesChecks(dir)
    BY <1>1, ChecksOfDirectory
  <1> QED
    BY <1>1, <1>2, ExitKeeps

\* The verdict is earned before the second load starts.
LEMMA VerdictKeeps ==
    ASSUME IInv, VerifyBundle, manifest.mismatches # IllTyped
    PROVE  IInv'
  <1>1. /\ pc = "checks" /\ pc' = "manifest" /\ call' = "cmd_bundle"
        /\ dir' = dir /\ seen' = seen /\ changes' = changes /\ json' = json
        /\ manifest' = manifest /\ model' = model /\ residual' = residual
        /\ report' = report /\ exit' = exit
    BY DEF VerifyBundle, bundle
  <1>2. result'.is_valid = (Errors = {} /\ ModelHashValid /\ ManifestValid)
    BY DEF VerifyBundle
  <1>3. exit = None /\ report = None
    BY <1>1 DEF IInv, Control
  <1>4. TypeOK'
    BY <1>1, <1>2 DEF IInv, TypeOK
  <1>5. Control' /\ FirstLoad'
    BY <1>1, <1>3 DEF Control, FirstLoad
  <1>6. ValidIsEarned'
    BY ZenonT(60), <1>1, <1>2, <1>3, ValidWasHeld, NoneAssumption DEF ValidIsEarned, Earned
  <1>7. QuietLoad'
    <2>1. changes = 0 =>
              (Errors = {} /\ ModelHashValid /\ ManifestValid) = PassesChecks(dir)
      <3>1. SUFFICES ASSUME changes = 0
                     PROVE  (Errors = {} /\ ModelHashValid /\ ManifestValid)
                                <=> PassesChecks(dir)
        BY Zenon DEF PassesChecks
      <3> QED
        BY <1>1, <3>1, ChecksOfDirectory
    <2> QED
      BY <1>1, <1>2, <2>1
      DEF QuietLoad, Read, ModelRead, ResidualRead, PassesChecks, Parses
  <1>8. QuietVerdict' /\ ReportAgreesWithExit'
    BY <1>1, <1>3 DEF QuietVerdict, ReportAgreesWithExit
  <1> QED
    BY <1>4, <1>5, <1>6, <1>7, <1>8 DEF IInv

\* Either way.
LEMMA VerifyBundleKeeps ==
    ASSUME IInv, VerifyBundle
    PROVE  IInv'
  BY IllTypedKeeps, VerdictKeeps

\* The report shows the verdict, and the manifest of the second load.
LEMMA PrintReportKeeps ==
    ASSUME IInv, PrintReport
    PROVE  IInv'
  <1>1. /\ pc = "print" /\ pc' = "exit"
        /\ dir' = dir /\ seen' = seen /\ changes' = changes /\ json' = json
        /\ manifest' = manifest /\ model' = model /\ residual' = residual
        /\ call' = call /\ result' = result /\ exit' = exit
        /\ report' = [verdict |-> result.is_valid,
                      manifest |-> IF json THEN None ELSE manifest]
    BY DEF PrintReport, bundle
  <1>2. /\ exit = None /\ call = "cmd_bundle" /\ result.is_valid \in BOOLEAN
        /\ manifest \in {None} \cup {FromDict(raw) : raw \in Manifests}
    BY <1>1 DEF IInv, Control, TypeOK
  <1>3. report' # None
    BY <1>1, <1>2, NoneAssumption
  <1>4. TypeOK'
    BY <1>1 DEF IInv, TypeOK
  <1>5. Control' /\ FirstLoad'
    BY <1>1, <1>2, <1>3 DEF IInv, Control, FirstLoad
  <1>6. ValidIsEarned'
    BY <1>1 DEF IInv, ValidIsEarned, Earned
  <1>7. QuietLoad'
    BY <1>1, <1>2
    DEF IInv, QuietLoad, Read, ModelRead, ResidualRead, PassesChecks, Parses, ManifestOf
  <1>8. QuietVerdict' /\ ReportAgreesWithExit'
    BY <1>1, <1>2 DEF QuietVerdict, ReportAgreesWithExit
  <1> QED
    BY <1>4, <1>5, <1>6, <1>7, <1>8 DEF IInv

\* The exit status is the verdict.
LEMMA ExitWithVerdictKeeps ==
    ASSUME IInv, ExitWithVerdict
    PROVE  IInv'
  <1>1. /\ pc = "exit" /\ pc' = "exited" /\ call' = call /\ Kept
        /\ exit' = (IF result.is_valid THEN 0 ELSE 1)
    BY DEF ExitWithVerdict, Exit, Kept
  <1>2. /\ dir' = dir /\ seen' = seen /\ changes' = changes /\ json' = json
        /\ manifest' = manifest /\ model' = model /\ residual' = residual
        /\ result' = result /\ report' = report
    BY <1>1, KeptFields
  <1>3. /\ call = "cmd_bundle" /\ result.is_valid \in BOOLEAN
        /\ report # None /\ report.verdict = result.is_valid
    BY <1>1 DEF IInv, Control, TypeOK
  <1>4. TypeOK'
    BY <1>1, <1>2 DEF IInv, TypeOK
  <1>5. Control' /\ FirstLoad' /\ QuietLoad'
    BY <1>1, <1>2, <1>3
    DEF Control, FirstLoad, QuietLoad, Read, ModelRead, ResidualRead
  <1>6. exit' = 0 <=> result.is_valid
    BY <1>1, <1>3
  <1>7. ValidIsEarned'
    <2>1. result.is_valid => Earned
      BY DEF IInv, ValidIsEarned
    <2>2. Earned => Earned'
      BY <1>2, EarnedStays
    <2> QED
      BY <1>2, <1>6, <2>1, <2>2 DEF ValidIsEarned
  <1>8. QuietVerdict'
    <2>1. changes = 0 =>
              /\ result.is_valid = PassesChecks(dir)
              /\ ~json => report.manifest = FromDict(dir["manifest.json"])
      BY <1>1, <1>3 DEF IInv, QuietLoad
    <2>2. changes' = 0 => (exit' = 0) = PassesChecks(dir')
      BY <1>2, <1>6, <2>1, Zenon DEF PassesChecks
    <2>3. (changes' = 0 /\ ~json') => report'.manifest = FromDict(dir'["manifest.json"])
      BY <1>2, <2>1
    <2> QED
      BY <2>2, <2>3 DEF QuietVerdict, PassesChecks, Parses
  <1>9. ReportAgreesWithExit'
    BY <1>1, <1>2, <1>3 DEF ReportAgreesWithExit
  <1> QED
    BY <1>4, <1>5, <1>7, <1>8, <1>9 DEF IInv

\* A step that changes nothing.
LEMMA StutterKeeps ==
    ASSUME IInv, UNCHANGED vars
    PROVE  IInv'
  <1>1. /\ dir' = dir /\ seen' = seen /\ changes' = changes /\ json' = json
        /\ call' = call /\ pc' = pc /\ manifest' = manifest /\ model' = model
        /\ residual' = residual /\ result' = result /\ report' = report
        /\ exit' = exit
    BY DEF vars, bundle
  <1>2. TypeOK' /\ Control'
    BY <1>1 DEF IInv, TypeOK, Control
  <1>3. FirstLoad' /\ QuietLoad'
    BY ZenonT(60), <1>1 DEF IInv, FirstLoad, QuietLoad, ManifestOf, ModelOf, ResidualOf, PassesChecks,
                Parses
  <1>4. ValidIsEarned'
    BY <1>1 DEF IInv, ValidIsEarned, Earned
  <1>5. QuietVerdict' /\ ReportAgreesWithExit'
    BY <1>1 DEF IInv, QuietVerdict, ReportAgreesWithExit, PassesChecks, Parses
  <1> QED
    BY <1>2, <1>3, <1>4, <1>5 DEF IInv

-----------------------------------------------------------------------------
(* The theorems *)

\* The invariant holds in every state of the command and its disturber.
THEOREM Inductive == Spec => []IInv
  <1>1. ASSUME IInv, [Next]_vars
        PROVE  IInv'
    BY <1>1, ChangeKeeps, StartKeeps, LoadManifestKeeps, LoadModelKeeps,
       LoadResidualKeeps, LoadReportsKeeps, VerifyBundleKeeps, PrintReportKeeps,
       ExitWithVerdictKeeps, StutterKeeps DEF Next, Step, Terminating
  <1> QED
    BY InitIInv, <1>1, PTL DEF Spec

\* Exit status 0 rests on contents the directory did hold, which pass the
\* checks, whatever the other process does and however often (cmd_bundle).
THEOREM Verdict == Spec => []VerdictWasEarned
  <1>1. IInv => VerdictWasEarned
    BY Zenon DEF IInv, ValidIsEarned, Earned, VerdictWasEarned
  <1> QED
    BY Inductive, <1>1, PTL

\* Undisturbed, the exit status is 0 exactly for a directory that passes the
\* checks verify_bundle makes, and the text report shows the manifest that was verified (cmd_bundle).
THEOREM Quiet == Spec => []QuietVerdict
  <1>1. IInv => QuietVerdict
    BY DEF IInv
  <1> QED
    BY Inductive, <1>1, PTL

\* No report contradicts the exit status, and a missing one means failure
\* (format_verification_report, cmd_bundle).
THEOREM Report == Spec => []ReportAgreesWithExit
  <1>1. IInv => ReportAgreesWithExit
    BY DEF IInv
  <1> QED
    BY Inductive, <1>1, PTL
=============================================================================
