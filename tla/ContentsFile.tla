---------------------------- MODULE ContentsFile ----------------------------
(***************************************************************************)
(* Contents files, put together from lines, and what lex_content() is to   *)
(* print of them, wherever they are cut into buffers.                      *)
(***************************************************************************)
EXTENDS ContentsLex, TrieMap

CONSTANT Lines

\* A line without its newline: white space or none, the name, the white space and the
\* sections behind it, and the packages that the line gives, <<>> if it gives none.
Line(head, name, tail, packages) == [head |-> head, name |-> name, tail |-> tail, packages |-> packages]

Character(c) == c \in 1..127 /\ c # Newline

\* The packages are what stands behind the first slash, which is at k.
GivesAt(line, k) ==
  /\ line.tail[k] = Slash /\ \A i \in 1..k - 1 : line.tail[i] # Slash
  /\ line.packages = SubSeq(line.tail, k + 1, Len(line.tail))

LinesAssumption ==
  \A line \in Lines :
    /\ line.head \in Seq({Space}) /\ line.name \in Seq(Int) /\ line.tail \in Seq(Int)
    /\ \A i \in 1..Len(line.name) : Character(line.name[i]) /\ ~IsSpace(line.name[i])
    /\ \A i \in 1..Len(line.tail) : Character(line.tail[i])
    /\ line.tail # <<>> => line.name # <<>> /\ IsSpace(line.tail[1])
    /\ IF line.packages = <<>> THEN \A i \in 1..Len(line.tail) : line.tail[i] # Slash
                               ELSE \E k \in 1..Len(line.tail) : GivesAt(line, k)

ASSUME LinesAssumption

TextOf(line) == line.head \o line.name \o line.tail \o <<Newline>>
Header == <<FileWord, Space, LocationWord, Newline>>

Texted(lines) == {TextOf(line) : line \in lines}
Giving == {line \in Lines : line.packages # <<>>}

\* What is to be printed of a line when there is one pattern.
Wanted(line, nocase) ==
  LET name == IF nocase THEN [i \in DOMAIN line.name |-> ToLower(line.name[i])] ELSE line.name
  IN IF line.packages # <<>> /\ Occurs(bmg.match, name)
       THEN <<[name |-> name, packages |-> line.packages]>> ELSE <<>>

\* A call has just added a pattern, and the automaton can be searched with.
Ready == Settled /\ bmg.ptr # "freed" /\ answer.ret = 0 /\ answer.str # <<>>

\* With one search term, the search of a file past its header prints the lines whose
\* name contains it, in their order, each with its own packages, and nothing else:
\* of every line that, whatever comes behind it.
LinesFound ==
  Ready /\ bmg.ptr = "set" =>
    \A line \in Lines, rest \in Texted(Lines) \cup {<<>>}, nocase \in BOOLEAN :
      NextShot(TextOf(line) \o rest, nocase) = Wanted(line, nocase) \o NextShot(rest, nocase)

\* Nothing is printed of what comes before the header line, whatever it matches, and
\* everything behind it as if it were the whole file.
HeaderSkipped ==
  Ready =>
    \A before, after \in Texted(Giving), nocase \in BOOLEAN :
      /\ OneShot(before \o Header \o after, nocase) = NextShot(after, nocase)
      /\ OneShot(before \o after, nocase) = <<>>

\* Wherever the buffers of a file are cut, the lines that are whole in one of them
\* are found as they are in the whole file, and the line that is cut, if one is,
\* yields at most one line.
CutLosesOneLine ==
  Ready =>
    \A first, last \in Texted(Giving) : \A k \in 0..Len(first) :
      LET cut == SubSeq(first, k + 1, Len(first))
      IN /\ NextShot(first \o last, FALSE) = NextShot(first, FALSE) \o NextShot(last, FALSE)
         /\ NextShot(last \o SubSeq(first, 1, k), FALSE) =
              NextShot(last, FALSE) \o (IF cut = <<>> THEN NextShot(first, FALSE) ELSE <<>>)
         /\ NextShot(cut \o last, FALSE) = NextShot(cut, FALSE) \o NextShot(last, FALSE)
         /\ Len(NextShot(cut, FALSE)) <= 1

\* lex_content_map_nextshot() has the whole buffer lexed, also when inflate() has filled
\* only its beginning: what an earlier call left in the rest is never printed again.
StaleTailSilent ==
  Ready =>
    \A old, new \in Texted(Giving) :
      LET buffer == LeftBehind(new \o old) IN
      \A n \in 0..Len(new) :
        NextShot(SubSeq(new, 1, n) \o SubSeq(buffer, n + 1, Len(buffer)), FALSE) =
          NextShot(SubSeq(new, 1, n), FALSE)
=============================================================================
