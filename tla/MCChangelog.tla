----------------------------- MODULE MCChangelog -----------------------------
(***************************************************************************)
(* Changelog on texts put together from entries, so that one knows what    *)
(* should come out, and on texts in which a stretch of the header or the   *)
(* trailer is every short string.                                          *)
(***************************************************************************)
EXTENDS ChangelogEntries, SequencesExt

StringsUpTo(n, chars) == UNION {[1..k -> chars] : k \in 0..n}

\* An entry: what stands in its fields, and between them.  The changes begin behind the
\* header's newline and end where "rest" begins.
Parts(src, ver, dst, mid, urgency, changes, rest, who, gap, when) ==
  [src |-> src, ver |-> ver, dst |-> dst, mid |-> mid, urgency |-> urgency, changes |-> changes,
   rest |-> rest, who |-> who, gap |-> gap, when |-> when]

L1 == <<"L">>
OneChange == <<NL, NL, SP, "*", "L">>
TwoChanges == <<NL, NL, SP, "*", NL, NL, SP, "L", SP>>
Full == Parts(<<"L", "G">>, <<"G", ":", "G">>, L1, <<";", SP, "U">>, <<"L", "L">>,
              TwoChanges, <<NL, NL>>, <<"L", SP, "L", ">">>, <<SP, SP>>, <<"L", SP, "G">>)
Comment == Parts(L1, <<"G">>, <<"L", SP, "L">>, <<";", "U">>, L1,
                 <<SP, "*">> \o OneChange, <<NL>>, <<"L", ">">>, <<SP>>, <<"G">>)
NoUrgency == Parts(L1, <<"G">>, <<"-", "L">>, <<>>, <<>>, TwoChanges, <<NL, SP, NL>>, <<"L", ">">>, <<>>, L1)
NoDist == Parts(L1, <<"G">>, <<>>, <<>>, <<>>, OneChange, <<NL>>, <<"L", "G", ">">>, <<SP>>, L1)

\* These have the format.
Good == {Full, Comment, NoUrgency, NoDist}

\* These have not, and the lexer takes them: a colon for the urgency, an underscore in the
\* version and no changes, a date in the next line, changes right behind the header.
Odd == {Parts(L1, <<"G">>, <<>>, <<":">>, <<>>, OneChange, <<NL>>, <<"L", ">">>, <<SP>>, L1),
        Parts(L1, <<"G", "_">>, L1, <<>>, <<>>, <<>>, <<NL, NL>>, <<"L", ">">>, <<SP>>, L1),
        Parts(L1, <<"G">>, L1, <<>>, <<>>, OneChange, <<NL>>, <<"L", ">">>, <<NL>>, L1),
        Parts(L1, <<"G">>, L1, <<";", "U">>, L1, <<NL, SP, "L">>, <<NL>>, <<"L", ">">>, <<SP>>, L1)}

\* Texts at which the lexing stops, one for each way out; texts that end too early.
Bad == {<<"(">>, <<"L", SP, "*">>, <<"L", SP, "(", SP>>, <<"L", SP, "(", "G", ")", "*">>,
        <<"L", SP, "(", "G", ")", "L", ";", "L">>,
        <<"L", SP, "(", "G", ")", NL, NL, SP, "-", "-", SP, "L", NL>>}
Cut == {<<"L", SP, "(", "G", ")", ";", "U">>, <<"L", SP, "(", "G", ")", NL, NL, SP, "-">>}

Lead(p) == IF p.urgency = <<>> THEN <<>> ELSE <<SP, NL>>
HeaderOf(p) == p.src \o <<SP, "(">> \o p.ver \o <<")", SP>> \o p.dst \o p.mid \o p.urgency
TextOf(p) == Lead(p) \o HeaderOf(p) \o p.changes \o p.rest \o Trail \o p.who \o p.gap \o p.when \o <<NL>>

\* The entry that TextOf(p) is when it begins at "start".
EntryFrom(p, start) ==
  LET at == start + Len(Lead(p))
      ver == at + Len(p.src) + 2
      dst == ver + Len(p.ver) + 2
      rest == at + Len(HeaderOf(p)) + Len(p.changes)
      who == rest + Len(p.rest) + Len(Trail)
      when == who + Len(p.who) + Len(p.gap)
  IN [source |-> Slice(at, Len(p.src)), version |-> Slice(ver, Len(p.ver)),
      dist |-> IF p.dst = <<>> THEN NoSlice ELSE Slice(dst, Len(p.dst)),
      urg |-> IF p.urgency = <<>> THEN NoSlice
              ELSE Slice(dst + Len(p.dst) + Len(p.mid), Len(p.urgency)),
      maintainer |-> Slice(who, Len(p.who)), date |-> Slice(when, Len(p.when)),
      text |-> Slice(at, rest - at)]

TextOfAll(ps) == FlattenSeq([i \in DOMAIN ps |-> TextOf(ps[i])])
EntriesOf(ps) == [i \in DOMAIN ps |-> EntryFrom(ps[i], Len(TextOfAll(SubSeq(ps, 1, i - 1))))]

\* Some entries, in every order, and what stops the lexing.
SomeEntries == UNION {[1..n -> Good \cup Odd] : n \in 0..2}
Stops == {<<>>} \cup Cut \cup {bad \o TextOf(NoDist) : bad \in Bad}

Composed ==
  {[text |-> TextOfAll(ps) \o stop, faults |-> faults] :
     ps \in SomeEntries, stop \in Stops, faults \in {{}, {"mapit", "malloc", "strndup"}}}

\* A header, and the end of an entry, with any short string in place of its middle.
Garbled ==
  {[text |-> <<"L", SP, "(", "G", ")">> \o middle \o <<NL>> \o Trail \o <<"L", ">", SP, "L", NL>>
               \o TextOf(Full), faults |-> {}] :
     middle \in StringsUpTo(4, {NL, SP, "L", ";", ":", "U"})}
    \cup
  {[text |-> <<"L", SP, "(", "G", ")", NL, NL>> \o Trail \o middle \o TextOf(Full),
    faults |-> {}] :
     middle \in StringsUpTo(5, {NL, SP, "L", ">"})}

MCInputs == Composed \cup Garbled

\* For the entries that have the format, what was put together is what the text says.
ASSUME ComposedAssumption ==
  \A ps \in SomeEntries, stop \in Stops :
    LET text == TextOfAll(ps) \o stop
        entries == EntriesOf(ps)
    IN \A i \in 1..Len(ps) + 1 :
         LET p == Layout(text, StartOf(entries, i))
             found == InFormat(text, p) /\ Plain(text, p)
         IN /\ found = (i <= Len(ps) /\ ps[i] \in Good)
            /\ found => entries[i] = EntryOf(text, p)
=============================================================================
