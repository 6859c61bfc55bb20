-------------------------- MODULE MCContentsQueue --------------------------
(***************************************************************************)
(* ContentsQueue on directories of gzip files.  "a" needs three buffers,   *)
(* so that it goes through the queue twice, "b" two and "c" just one; "z"  *)
(* passes the filter of lex_dir() but is no gzip file; "x" does not pass.  *)
(***************************************************************************)
EXTENDS ContentsQueue, TLC

DirAXZ == <<"a", "x", "z">>
DirABCX == <<"a", "x", "b", "c">>


MCWanted == Entries \ {"x"}
MCShots == [e \in Entries |-> CASE e = "a" -> 3 [] e = "b" -> 2 [] e = "c" -> 1
                                 [] OTHER -> 0]

AllFaults == FaultKinds
NoFaults == {}
\* The failures after which no thread leaves its unit of holdup_sem behind.
CleanFaults == {"opendir", "spawn", "join", "closedir", "infbuf", "readdir"}

ThreadSymmetry == Permutations(Threads)
=============================================================================
