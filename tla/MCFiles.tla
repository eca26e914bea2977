------------------------------- MODULE MCFiles -------------------------------
(* Bounds for Files: uploads, single files, copies, directories, readers      *)
(* that write to another file; in three suites nested locks share a place in *)
(* the table.                                                               *)
EXTENDS Files

\* The places of the locks; that of log is 1.
Places(f, a, as, b, bs) ==
  [l \in Locks |-> CASE l = "log" -> 1 [] l = "a" -> a [] l = "a/sub" -> as
                     [] l = "b" -> b [] l = "b/sub" -> bs [] OTHER -> f]

Nested == [ops |-> {"CopyDir"}, place |-> Places(2, 3, 3, 5, 6)]
Crossed == [ops |-> {"CopyDir"}, place |-> Places(2, 3, 4, 4, 3)]
Uploads == [ops |-> {"Save", "ChunkSave", "ChunkList", "ChunkMerge"}, place |-> Places(2, 3, 4, 5, 6)]

MCSuites ==
  {Uploads, Nested, Crossed,
   [ops |-> {"Write", "Append", "Read", "ReadStream"}, place |-> Places(2, 3, 4, 5, 6)],
   [ops |-> {"Write", "Read", "Callback"}, place |-> Places(2, 3, 4, 5, 6)],
   [ops |-> {"Write", "Read", "Callback"}, place |-> Places(1, 3, 4, 5, 6)],
   [ops |-> {"Copy", "Append"}, place |-> Places(2, 3, 4, 5, 6)],
   [ops |-> {"CopyDir", "Unpack"}, place |-> Places(2, 3, 4, 5, 6)]}
NestedSuites == {Nested}
UploadSuites == {[Uploads EXCEPT !.ops = {"ChunkSave", "ChunkMerge"}]}
MCListing == <<10, 2>>
==============================================================================
