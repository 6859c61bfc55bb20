----------------------------- MODULE ContentsLex -----------------------------
(***************************************************************************)
(* lex_content() of src/lib/contents.c: one buffer of a contents file, as  *)
(* inflate() filled it, is read line by line.  A line is a file name,      *)
(* white space, and the packages that hold the file; a line whose name     *)
(* matches the automaton is printed, without the package's section.  In a  *)
(* file's first buffer nothing is printed before the line FILE LOCATION.   *)
(*                                                                         *)
(* Characters are codes, but for the words FILE and LOCATION, which are    *)
(* one character each.  hol and val are what the code's pointers point at, *)
(* up to the NUL that ends it.                                             *)
(***************************************************************************)
EXTENDS Trie

NUL == 0
Newline == 10
Space == 32
Slash == 47
FileWord == 1000
LocationWord == 1001

IsSpace(c) == c = Space
ToLower(c) == IF c \in 65..90 THEN c + 32 ELSE c

\* The lexer's variables at a buffer's start, and what it has printed.
Fresh(pastheader) ==
  [s |-> "HOL", hol |-> <<>>, val |-> <<>>, pastheader |-> pastheader, printed |-> <<>>]

Matches(name) == MatchAgainst(name) # NoObject

\* Mutation: a line that does not match keeps its state past its end.
EndOfLine_SinkKept(l) ==
  LET whole == l.s = "VAL"
      header == l.hol = <<FileWord>> /\ l.val = <<LocationWord>>
  IN [s |-> IF l.s = "SINK" THEN "SINK" ELSE "HOL", hol |-> <<>>, val |-> <<>>,
      pastheader |-> l.pastheader \/ (whole /\ header),
      printed |-> IF whole /\ l.pastheader
                    THEN Append(l.printed, [name |-> l.hol, packages |-> l.val]) ELSE l.printed]

\* Mutation: what comes before the header is printed like the rest.
EndOfLine_HeaderPrinted(l) ==
  LET whole == l.s = "VAL"
      header == l.hol = <<FileWord>> /\ l.val = <<LocationWord>>
  IN [s |-> "HOL", hol |-> <<>>, val |-> <<>>, pastheader |-> l.pastheader \/ (whole /\ header),
      printed |-> IF whole /\ ~header
                    THEN Append(l.printed, [name |-> l.hol, packages |-> l.val]) ELSE l.printed]

\* A newline, in any state.
EndOfLine(l) ==
  LET whole == l.s = "VAL"
      header == l.hol = <<FileWord>> /\ l.val = <<LocationWord>>
  IN [s |-> "HOL", hol |-> <<>>, val |-> <<>>, pastheader |-> l.pastheader \/ (whole /\ header),
      printed |-> IF whole /\ l.pastheader
                    THEN Append(l.printed, [name |-> l.hol, packages |-> l.val]) ELSE l.printed]

\* A character of the name, lowered when case does not count.
Named(l, c, nocase) ==
  [l EXCEPT !.s = "MATCHING", !.hol = Append(@, IF nocase /\ l.pastheader THEN ToLower(c) ELSE c)]

\* Mutation: the name itself must be a pattern.
EndOfName_Exact(l) ==
  [l EXCEPT !.s = IF l.pastheader => Match(l.hol) # NoObject THEN "INTER" ELSE "SINK"]

\* The white space behind the name: in the file proper, the name is searched.
EndOfName(l) ==
  [l EXCEPT !.s = IF l.pastheader => Matches(l.hol) THEN "INTER" ELSE "SINK"]

\* In a line of the file proper the value begins behind the first slash.
Between(l, c) ==
  CASE l.pastheader /\ c = Slash -> [l EXCEPT !.s = "VAL"]
    [] ~l.pastheader /\ ~IsSpace(c) -> [l EXCEPT !.s = "VAL", !.val = <<c>>]
    [] OTHER -> l

Step(l, c, nocase) ==
  CASE c = Newline -> EndOfLine(l)
    [] c # Newline /\ l.s \in {"HOL", "MATCHING"} /\ ~IsSpace(c) -> Named(l, c, nocase)
    [] c = Space /\ l.s = "MATCHING" -> EndOfName(l)
    [] c # Newline /\ l.s = "INTER" -> Between(l, c)
    [] c # Newline /\ l.s = "VAL" -> [l EXCEPT !.val = Append(@, c)]
    [] OTHER -> l

\* The loop over a buffer, from the state l on.
LexFrom(l, buffer, nocase) ==
  LET after[i \in 0..Len(buffer)] == IF i = 0 THEN l ELSE Step(after[i - 1], buffer[i], nocase)
  IN after[Len(buffer)]

\* lex_content(): the buffer, *pastheader and nocase.
LexContent(buffer, pastheader, nocase) == LexFrom(Fresh(pastheader), buffer, nocase)

\* Mutation: the newlines stay.
LeftBehind_Newlines(buffer) == buffer

\* What it leaves in the buffer: every line ends with a NUL now.  (So do the names that
\* matched, and their letters have been lowered.)
LeftBehind(buffer) == [i \in DOMAIN buffer |-> IF buffer[i] = Newline THEN NUL ELSE buffer[i]]

\* The calls of lex_content_map_nextshot() and lex_content_map_oneshot().
NextShot(buffer, nocase) == LexContent(buffer, TRUE, nocase).printed
OneShot(buffer, nocase) == LexContent(buffer, FALSE, nocase).printed
=============================================================================
