------------------------------ MODULE MCPkgLex ------------------------------
(***************************************************************************)
(* PkgLex on texts put together from whole pieces, so that several records *)
(* meet every alignment of the chunks.  Two lexers share the chunks of a   *)
(* filtered package list; one lexer, as create_pkglist() runs it, gets     *)
(* every kind of file, of trie argument and of malformed record.           *)
(***************************************************************************)
EXTENDS PkgLex, SequencesExt

CONSTANTS l1, l2

MCNames == {"a", "b"}

\* Records that a package list accepts, in two and in three lines, and one that
\* names its version first; an empty line; a record that the end cuts short; a
\* record with no version, with a status, with two versions.
Short == <<"a", NL, "V", NL, NL>>
Long == <<"D", NL, "V", NL, "b", "D", NL, NL>>
Again == <<"V", NL, "a", NL, NL>>
Empty == <<NL>>
Cut == <<"a", NL, "V", NL>>
NoVersion == <<"a", NL, NL>>
Installed == <<"a", NL, "S", NL, NL>>
Twice == <<"V", NL, "a", NL, "V", NL, NL>>

\* Texts of at most n pieces.
Texts(pieces, n) == {FlattenSeq(s) : s \in UNION {[1..k -> pieces] : k \in 0..n}}

Calls(crew, texts, csizes, files, dfas, faults) ==
  [text : texts, csize : csizes, statusfile : files, dfa : dfas, known : {{"a"}},
   crew : {crew}, faults : faults]

MCInputs ==
  Calls({l1, l2}, Texts({Short, Long, Empty}, 3), {3, 7}, {FALSE}, {"filter"}, {{}})
    \cup
  Calls({l1}, Texts({Short, Again, Empty, Cut, NoVersion, Installed, Twice}, 2), {2, 4},
        BOOLEAN, DfaModes, {{}, {"mapit", "pkglist", "package", "augment"}})
=============================================================================
