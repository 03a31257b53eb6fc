------------------------------ MODULE MCDataFiles ------------------------------
(* Instances of DataFileNotes for TLC: two files, and the copies of one of *)
(* them up to the copy of its copy.                                        *)
EXTENDS DataFileNotes

MCTmpOf == [p \in {"a", "b", "tmp_a"} |->
                CASE p = "a" -> "tmp_a" [] p = "b" -> "tmp_b" [] p = "tmp_a" -> "tmp_tmp_a"]
MCPaths == {"a", "b", "tmp_a", "tmp_b", "tmp_tmp_a"}
MCDataOf == [p \in MCPaths |-> IF p \in {"b", "tmp_b"} THEN "data of b" ELSE "data of a"]
=============================================================================
