--------------------------- MODULE MCShowVersions ---------------------------
(***************************************************************************)
(* ShowVersions, and PkgDir below it, on three package lists and an entry  *)
(* "x" that lex_dir() skips.  Three packages of the name "a" differ in     *)
(* version, one of them by its epoch; "c" is on no list.                   *)
(***************************************************************************)
EXTENDS ShowVersions

MCDir == <<"p", "x", "q", "r">>
MCLists == {"p", "q", "r"}
MCPackages == [p |-> <<"a", "b", "a">>, x |-> <<"c">>, q |-> <<"a">>, r |-> <<"b", "a">>]

One == <<49>>            \* "1"
Two == <<50>>            \* "2", which debcmp() finds equal to "1"
Ten == <<49, 48>>        \* "10"
Epoch == <<49, 58, 49>>  \* "1:1"

MCVersionOf == [p |-> <<One, One, Ten>>, x |-> <<One>>, q |-> <<Epoch>>, r |-> <<One, One>>]
MCWalkOrder == <<"a", "b", "c">>

CommandLine(args, all, installed) == [args |-> args, all |-> all, installed |-> installed]

MCCalls == {
  CommandLine(FALSE, FALSE, [a |-> One, b |-> Two, c |-> One]),
  CommandLine(FALSE, FALSE, [a |-> Epoch, b |-> Ten, c |-> NoVersion]),
  CommandLine(FALSE, TRUE, [a |-> Ten, b |-> One, c |-> One]),
  CommandLine(TRUE, FALSE, [a |-> Ten]),
  CommandLine(TRUE, TRUE, [b |-> One])}

\* One call that lists all of its packages in the versions it has installed.
InstalledCalls == {CommandLine(FALSE, FALSE, [a |-> Ten, b |-> One, c |-> One])}
=============================================================================
