--------------------------- MODULE MCUploadStore ----------------------------
(* UploadStore with the symmetries of its sets.                            *)
EXTENDS UploadStore, TLC

\* Uploads and slugs are interchangeable; hashes are not (Infected).
Symmetry ==
  Permutations(Uploads) \union Permutations(Slugs)

=============================================================================
