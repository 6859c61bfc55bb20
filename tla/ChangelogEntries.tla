--------------------------- MODULE ChangelogEntries ---------------------------
(***************************************************************************)
(* What a changelog says, from the layout of the file and not from its     *)
(* lexer: an entry is a header line, an empty line, the changes and the    *)
(* trailer, as deb-changelog(5) and this repository's debian/changelog     *)
(* have it.                                                                *)
(***************************************************************************)
EXTENDS Changelog

\* The first of the places from "from" on; the text's end, n, if there is none.
First(from, places, n) ==
  CHOOSE p \in from..from + n :
    (p >= n \/ p \in places) /\ \A q \in from..p - 1 : q < n /\ q \notin places

\* The first character from "from" on that is not of these kinds.
Past(t, from, kinds) == First(from, {p \in 0..Len(t) - 1 : t[p + 1] \notin kinds}, Len(t))

\* The character at a place is one of these.
Is(t, place, kinds) == place < Len(t) /\ t[place + 1] \in kinds

White == {NL, SP}
InLine == Chars \ {NL}
Word == {"L", "G", "-"}
Trail == <<SP, "-", "-", SP>>
Trailers(t) == {p \in 0..Len(t) - 5 : t[p + 1] = NL /\ SubSeq(t, p + 2, p + 5) = Trail}

\* The newlines behind which there is only white space up to "to".
LastLines(t, to) ==
  {p \in 0..Len(t) - 1 : t[p + 1] = NL /\ \A q \in p..to - 1 : q < Len(t) => t[q + 1] \in White}

HasUrgency(t, distEnd) == distEnd < Len(t) /\ t[distEnd + 1] = ";"

\* Where the parts of the first entry from "from" on begin and end.  The changes end with
\* the last line before the trailer that is not blank.
Layout(t, from) ==
  LET src == Past(t, from, White)
      srcEnd == Past(t, src, PkgChars)
      paren == Past(t, srcEnd, {SP})
      verEnd == Past(t, paren + 1, VerChars)
      distAt == Past(t, verEnd + 1, {SP})
      distEnd == Past(t, distAt, Word \cup {SP})
      key == Past(t, distEnd + 1, {SP})
      headEnd == Past(t, distEnd, InLine)
      trailer == First(headEnd, Trailers(t), Len(t))
      maintEnd == Past(t, trailer + 5, InLine \ {">"})
      date == Past(t, maintEnd + 1, {SP})
  IN [src |-> src, srcEnd |-> srcEnd, paren |-> paren, verEnd |-> verEnd, distAt |-> distAt,
      distEnd |-> distEnd, key |-> key, urgEnd |-> Past(t, key + 1, Word), headEnd |-> headEnd,
      changesEnd |-> First(headEnd, LastLines(t, trailer), Len(t)), trailer |-> trailer,
      maintEnd |-> maintEnd, date |-> date, dateEnd |-> Past(t, date, InLine)]

\* There is an entry with these parts: the header is one line, with or without an urgency
\* or distributions (changelog.c, lines 156-158, names changelogs without), an empty line
\* follows it, and there are changes.
InFormat(t, p) ==
  /\ Is(t, p.srcEnd, {SP}) /\ Is(t, p.paren, {"("}) /\ Is(t, p.verEnd, {")"})
  /\ Is(t, p.distEnd, {";", NL}) /\ (p.distAt < p.distEnd => t[p.distEnd] # SP)
  /\ HasUrgency(t, p.distEnd) => Is(t, p.key, {"U"}) /\ p.key + 1 < p.urgEnd
  /\ Is(t, p.headEnd, {NL}) /\ \A q \in p.src..p.headEnd - 1 : t[q + 1] # NL
  /\ p.src = 0 \/ t[p.src] = NL
  /\ Is(t, p.headEnd + 1, {NL})
  /\ p.trailer < Len(t) /\ \E k \in p.headEnd + 2..p.trailer - 1 : t[k + 1] \notin White
  /\ p.trailer + 5 < p.maintEnd /\ Is(t, p.maintEnd, {">"})
  /\ p.date < p.dateEnd /\ Is(t, p.dateEnd, {NL})

\* The header has nothing of the two things that the lexer does not know: digits in a
\* distribution (isdebdistchar) and a comma behind the urgency, with further keywords.
Plain(t, p) ==
  /\ \A q \in p.distAt..p.distEnd - 1 : t[q + 1] \in DistChars \cup {SP}
  /\ HasUrgency(t, p.distEnd) => Is(t, p.urgEnd, White)

Between(from, to) == Slice(from, to - from)

EntryOf(t, p) ==
  [source |-> Between(p.src, p.srcEnd), version |-> Between(p.paren + 1, p.verEnd),
   dist |-> IF p.distAt = p.distEnd THEN NoSlice ELSE Between(p.distAt, p.distEnd),
   urg |-> IF HasUrgency(t, p.distEnd) THEN Between(p.key + 1, p.urgEnd) ELSE NoSlice,
   maintainer |-> Between(p.trailer + 5, p.maintEnd + 1), date |-> Between(p.date, p.dateEnd),
   text |-> Between(p.src, p.changesEnd)]

\* The entry, its text cut behind some line: the header is in it, and nothing but changes
\* follows.
IsEntry(t, p, e) ==
  /\ e = [EntryOf(t, p) EXCEPT !.text = e.text]
  /\ e.text.from = p.src /\ p.headEnd <= End(e.text) /\ End(e.text) <= p.changesEnd
  /\ Is(t, End(e.text), {NL})

\* The i-th entry is looked for behind the one before it.
StartOf(entries, i) == IF i = 1 THEN 0 ELSE End(entries[i - 1].date) + 1
LayoutOf(i) == Layout(in.text, StartOf(list, i))
Expected(i) == InFormat(in.text, LayoutOf(i)) /\ Plain(in.text, LayoutOf(i))

\* For any text an entry of the list that has the format is that entry: source, version,
\* distributions, urgency, maintainer and date are the file's, none of them taken from
\* an entry before or behind it, and the text is lines of its own.  And unless a call has
\* failed, no entry that has the format follows the last one of the list.  How much of
\* the text is there ChangesWhole asks.
EntriesExact ==
  phase = "returned" =>
    /\ \A i \in DOMAIN list : Expected(i) => IsEntry(in.text, LayoutOf(i), list[i])
    /\ in.faults = {} => ~Expected(Len(list) + 1)

\* The text of an entry is the header and all the changes, which rapt-parsechangelog
\* prints to "match the output of dpkg-parsechangelogs exactly" (line 24 there).
ChangesWhole ==
  phase = "returned" =>
    \A i \in DOMAIN list : Expected(i) => list[i].text = EntryOf(in.text, LayoutOf(i)).text
=============================================================================
