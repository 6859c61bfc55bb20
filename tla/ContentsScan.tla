---------------------------- MODULE ContentsScan ----------------------------
(***************************************************************************)
(* What lex_contents_dir() promises its caller, whatever its threads do:   *)
(* every buffer of every wanted file is searched at most once, the call    *)
(* reports success only when all of them have been, and it searches        *)
(* nothing after it has answered.                                          *)
(***************************************************************************)
CONSTANT Buffers         \* every buffer of every file to be searched

VARIABLES
  searched,              \* how often each buffer has been searched
  status                 \* "running", then how the call ended

scanvars == <<searched, status>>

Outcomes == {"ok", "error", "aborted"}

ScanInit ==
  /\ searched = [b \in Buffers |-> 0]
  /\ status = "running"

Search(b) ==
  /\ status = "running" /\ searched[b] = 0
  /\ searched' = [searched EXCEPT ![b] = 1]
  /\ status' \in {"running", "aborted"}

Succeed ==
  /\ status = "running" /\ \A b \in Buffers : searched[b] = 1
  /\ status' = "ok" /\ UNCHANGED searched

Fail == status = "running" /\ status' = "error" /\ UNCHANGED searched

ScanNext == (\E b \in Buffers : Search(b)) \/ Succeed \/ Fail

ScanSpec == ScanInit /\ [][ScanNext]_scanvars
=============================================================================
