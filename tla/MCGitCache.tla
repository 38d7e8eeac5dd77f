----------------------------- MODULE MCGitCache -----------------------------
(***************************************************************************)
(* Small repositories for GitCache.                                        *)
(***************************************************************************)
EXTENDS GitCache

CONSTANTS c1, c2

\* Two directories, one in the other: the cone of either has the files of both.
NestedFiles == {"base", "parts/one", "parts/gone"}
NestedDirOf == [f \in NestedFiles |-> IF f = "base" THEN "." ELSE "parts"]
NestedCone  == [d \in {".", "parts"} |-> {".", "parts"}]

\* Two directories side by side.
SiblingFiles == {"a/one", "b/two"}
SiblingDirOf == [f \in SiblingFiles |-> IF f = "a/one" THEN "a" ELSE "b"]
SiblingCone  == [d \in {"a", "b"} |-> {d}]

FilesOf(files) == [o \in {c1, c2} |-> IF o = c1 THEN files \ {"parts/gone"} ELSE files]
NestedFilesIn  == FilesOf(NestedFiles)
SiblingFilesIn == FilesOf(SiblingFiles)

=============================================================================
