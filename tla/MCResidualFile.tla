---------------------------- MODULE MCResidualFile ----------------------------
(***************************************************************************)
(* Instances of ResidualFile: files of two leaves as an encoder writes     *)
(* them, read as they are or with one field or one byte damaged, by the    *)
(* Python and by the JavaScript reader.                                    *)
(***************************************************************************)
EXTENDS ResidualReaders, FileSamples

\* The classes a written file means, and the prediction it means for labels
MCMeant(f, i) ==
    MCDecode(StreamOf(f.blobs[i], f.header.partition_mode), 2, 4, 2,
             IF f.header.label_codec = CONDITIONAL_1BIT THEN 1 ELSE None,
             IF f.header.version_major >= 30 THEN f.header.n_classes ELSE 0)
=============================================================================
