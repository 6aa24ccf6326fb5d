---------------------------- MODULE MCBundleVerify ----------------------------
(***************************************************************************)
(* An instance of BundleVerify: contents are their own hashes.             *)
(***************************************************************************)
EXTENDS BundleVerify, FiniteSets

CONSTANTS Tree, OtherTree, Exceptions, OtherExceptions, Report, OtherReport

Raw(nested, hasEndgame, modelHash, mismatches) ==
    [nested |-> nested, has_endgame |-> hasEndgame, model_hash |-> modelHash,
     residual_hash |-> Exceptions, verification_hash |-> Report,
     mismatches |-> mismatches]

\* Flat and nested manifests, exact and not, one without an endgame and one
\* whose count is no number
MCManifests ==
    {Raw(FALSE, TRUE, Tree, 0), Raw(TRUE, FALSE, Tree, 2),
     Raw(FALSE, TRUE, OtherTree, 2), Raw(FALSE, FALSE, Tree, 0),
     Raw(FALSE, TRUE, Tree, IllTyped)}

MCTreeHash(tree) == tree
MCManifestHash(m) == 
    <<m.model_hash, m.residual_hash, m.verification_hash, m.mismatches>>
=============================================================================
