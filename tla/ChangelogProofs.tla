--------------------------- MODULE ChangelogProofs ---------------------------
(***************************************************************************)
(* Proofs about Changelog: for every text and every fault, the variables   *)
(* keep their types, the entries of the list lie apart in the text with    *)
(* their fields one behind the other and made of the characters a field    *)
(* has, the caller can reach all of them, and those that have the format   *)
(* of ChangelogEntries are read as the format has them.                    *)
(*                                                                         *)
(* The inductive invariant says, for each state of the lexer, which slices *)
(* are complete by then and in which order they and the position stand in  *)
(* the text.  What a growing slice holds rests on it: the character at the *)
(* position is the one a longer slice gains.  That nothing is missed rests *)
(* on a second one: in each state the position lies between two of the     *)
(* places at which the lexer changes its state (Lexed).  The last part     *)
(* shows that these places are the format's wherever there is an entry in  *)
(* the format, however differently the two are found.                      *)
(***************************************************************************)
EXTENDS ChangelogEntries, FiniteSetTheorems, TLAPS

AfterSource == States \ {"RESET", "SOURCE"}
AfterVersion == AfterSource \ {"VERSION_LPAREN", "VERSION"}
AfterDist == {"DISTDELIM", "URGENCY", "URGDELIM", "URGLINE", "CHANGES", "MAINT", "DATE"}
AfterUrg == {"URGLINE", "CHANGES", "MAINT", "DATE"}

SourcePlaced ==
  /\ state = "SOURCE" =>
       /\ 0 <= source.from /\ 0 <= source.len /\ End(source) = pos
       /\ source.len = 0 => pos < length /\ ~IsSpace(Char)
  /\ state \in AfterSource =>
       cl.source = source /\ 0 <= source.from /\ 0 < source.len /\ End(source) < pos

VersionPlaced ==
  /\ state = "VERSION" =>
       End(source) < version.from /\ 0 <= version.len /\ End(version) = pos
  /\ state \in AfterVersion =>
       /\ cl.version = version
       /\ End(source) < version.from /\ 0 <= version.len /\ End(version) < pos

DistPlaced ==
  /\ state \notin AfterDist \cup {"RESET"} => cl.dist = NoSlice
  /\ state = "DIST" => End(version) < dist.from /\ 0 <= dist.len /\ End(dist) = pos
  /\ state \in AfterDist /\ cl.dist # NoSlice =>
       /\ End(version) < cl.dist.from /\ End(cl.dist) <= pos
       /\ state # "DISTDELIM" => End(cl.dist) < pos

UrgPlaced ==
  /\ state \notin AfterUrg \cup {"RESET"} => cl.urg = NoSlice
  /\ state = "URGDELIM" =>
       /\ End(version) < urg.from /\ End(urg) = pos
       /\ cl.dist # NoSlice => End(cl.dist) < urg.from
  /\ state \in AfterUrg /\ cl.urg # NoSlice =>
       /\ End(version) < cl.urg.from /\ End(cl.urg) < pos
       /\ cl.dist # NoSlice => End(cl.dist) < cl.urg.from

ChangesPlaced ==
  /\ state \notin {"CHANGES", "MAINT", "DATE"} => endchange = NoPosition
  /\ state \in {"MAINT", "DATE"} => endchange # NoPosition /\ endchange < maint.from
  /\ endchange # NoPosition =>
       /\ endchange < pos /\ End(version) < endchange
       /\ cl.dist # NoSlice => End(cl.dist) <= endchange
       /\ cl.urg # NoSlice => End(cl.urg) < endchange

TrailerPlaced ==
  /\ state = "MAINT" => pos = maint.from + maint.len + 1
  /\ state = "DATE" =>
       DateFrom <= pos /\ cl.maintainer.from = maint.from /\ End(cl.maintainer) <= DateFrom

\* The entry that is being read is in its place.
EntryPlaced ==
  SourcePlaced /\ VersionPlaced /\ DistPlaced /\ UrgPlaced /\ ChangesPlaced /\ TrailerPlaced

\* It lies behind the last one of the list.
BehindLast ==
  list # <<>> => End(list[Len(list)].date) < IF state = "RESET" THEN pos ELSE source.from

IInv == TypeOK /\ EntriesApart /\ (phase # "returned" => EntryPlaced /\ BehindLast)

-----------------------------------------------------------------------------
(* Types.                                                                   *)

LEMMA InputFacts ==
  ASSUME in \in Inputs
  PROVE  /\ length \in Nat /\ in.text \in Seq(Chars)
         /\ \A i \in 1..length : in.text[i] \in Chars
  BY ChangelogAssumption DEF length

\* A slice made by the code is one.
LEMMA SliceFacts ==
  /\ \A from, len \in Int : Slice(from, len) \in Slices
  /\ NoSlice \in Slices /\ EmptyEntry \in Entries /\ NoEntry \in Entries
  BY DEF Slice, Slices, NoSlice, EmptyEntry, NoEntry, Entries

LEMMA InitTypes == ASSUME Init PROVE TypeOK
  BY InputFacts, SliceFacts DEF Init, TypeOK, States, NoPosition

\* The entry stays one when a field gets a slice.
LEMMA FieldTypes ==
  ASSUME NEW e \in Entries, NEW slice \in Slices
  PROVE  /\ [e EXCEPT !.source = slice] \in Entries /\ [e EXCEPT !.version = slice] \in Entries
         /\ [e EXCEPT !.dist = slice] \in Entries /\ [e EXCEPT !.urg = slice] \in Entries
         /\ [e EXCEPT !.maintainer = slice] \in Entries
         /\ [e EXCEPT !.date = slice] \in Entries /\ [e EXCEPT !.text = slice] \in Entries
  BY DEF Entries

\* What a slice becomes when it grows by one character.
LEMMA LongerFacts ==
  ASSUME NEW slice \in Slices
  PROVE  /\ Longer(slice) \in Slices
         /\ Longer(slice).from = slice.from /\ Longer(slice).len = slice.len + 1
  BY DEF Longer, Slices

\* What a turn of the loop keeps when it goes on with the same entry list.
LEMMA StepTypes ==
  ASSUME TypeOK, pos < length, NEW s \in States, NEW n \in {0, 1}, Go(s, n),
         UNCHANGED <<in, phase, list, endchange, result>>, cl' \in Entries,
         source' \in Slices, version' \in Slices, dist' \in Slices, urg' \in Slices,
         maint' \in Slices
  PROVE  TypeOK'
  BY InputFacts DEF TypeOK, Go, result, length

\* A case that only goes on keeps the types.
LEMMA PassTypes ==
  ASSUME TypeOK, pos < length, NEW s \in States, Pass(s)
  PROVE  TypeOK'
  BY InputFacts DEF TypeOK, Pass, Go, scratch, slices, result, length

LEMMA OutTypes ==
  ASSUME TypeOK, Err \/ Abort \/ EndOfText
  PROVE  TypeOK'
  BY SliceFacts DEF TypeOK, Err, Abort, EndOfText, Leave, Head0, scratch, slices, length

\* So does a case that keeps a field.
LEMMA KeepTypes ==
  ASSUME TypeOK, pos < length, NEW s \in States, NEW n \in {0, 1}, Go(s, n), NEW field, NEW slice,
         Keep(field, slice), [cl EXCEPT ![field] = slice] \in Entries
  PROVE  TypeOK'
  BY InputFacts DEF TypeOK, Keep, Go, scratch, slices, result, length

LEMMA TypeStep ==
  ASSUME TypeOK, [Next]_vars
  PROVE  TypeOK'
<1> USE DEF TypeOK
<1>1. length \in Nat /\ pos \in Nat
  BY InputFacts
<1>2. CASE Call
  BY <1>2 DEF Call, scratch, slices, length
<1>3. CASE EndOfText
  BY <1>3, OutTypes
<1>4. CASE Reset
  BY <1>1, <1>4, PassTypes, OutTypes, SliceFacts
     DEF Reset, At, Go, scratch, slices, result, length, States
<1>5. CASE Source
  <2>1. [cl EXCEPT !["source"] = source] \in Entries
    BY FieldTypes
  <2>2. CASE Keep("source", source) /\ Go("VERSION_LPAREN", 1)
    BY <1>5, <2>1, <2>2, KeepTypes DEF Source, At, States
  <2>3. CASE source' = Longer(source) /\ Go("SOURCE", 1)
              /\ UNCHANGED <<in, phase, cl, list, version, dist, urg, maint, endchange, result>>
    BY <1>5, <2>3, LongerFacts, StepTypes DEF Source, At, States
  <2> QED
    BY <1>5, <2>2, <2>3, OutTypes DEF Source
<1>6. CASE LParen
  BY <1>1, <1>6, PassTypes, OutTypes, SliceFacts
     DEF LParen, At, Go, scratch, slices, result, length, States
<1>7. CASE Version
  <2>1. [cl EXCEPT !["version"] = version] \in Entries
    BY FieldTypes
  <2>2. CASE Keep("version", version) /\ Go("VERSION_RPAREN", 1)
    BY <1>7, <2>1, <2>2, KeepTypes DEF Version, At, States
  <2>3. CASE version' = Longer(version) /\ Go("VERSION", 1)
              /\ UNCHANGED <<in, phase, cl, list, source, dist, urg, maint, endchange, result>>
    BY <1>7, <2>3, LongerFacts, StepTypes DEF Version, At, States
  <2> QED
    BY <1>7, <2>2, <2>3, OutTypes DEF Version
<1>8. CASE RParen
  BY <1>1, <1>8, PassTypes, SliceFacts
     DEF RParen, At, Go, scratch, slices, result, length, States
<1>9. CASE Dist
  <2>1. [cl EXCEPT !["dist"] = dist] \in Entries
    BY FieldTypes
  <2>2. ASSUME NEW s \in States, NEW n \in {0, 1}, Go(s, n), Keep("dist", dist)
        PROVE  TypeOK'
    BY <1>9, <2>1, <2>2, KeepTypes DEF Dist, At
  <2>3. ASSUME NEW s \in States, NEW n \in {0, 1}, Go(s, n),
               UNCHANGED <<in, phase, cl, list, scratch, result>>
        PROVE  TypeOK'
    BY <1>9, <2>3, StepTypes DEF Dist, At, scratch, slices
  <2>4. CASE dist' = Longer(dist) /\ Go("DIST", 1)
              /\ UNCHANGED <<in, phase, cl, list, source, version, urg, maint, endchange, result>>
    BY <1>9, <2>4, LongerFacts, StepTypes DEF Dist, At, States
  <2>5. {"DISTDELIM", "CHANGES"} \subseteq States
    BY DEF States
  <2>6. CASE Err
    BY <2>6, OutTypes
  <2>7. CASE /\ IF dist.len = 0 THEN UNCHANGED <<in, phase, cl, list, scratch, result>>
                               ELSE Keep("dist", dist)
             /\ IF Char = ";" THEN Go("DISTDELIM", 0) ELSE Go("CHANGES", 1)
    BY <2>2, <2>3, <2>5, <2>7
  <2> QED
    BY <1>9, <2>4, <2>6, <2>7 DEF Dist
<1>10. CASE DistDelim
  BY <1>10, PassTypes DEF DistDelim, At, States
<1>11. CASE Urgency
  BY <1>1, <1>11, PassTypes, OutTypes, SliceFacts
     DEF Urgency, At, Go, scratch, slices, result, length, States
<1>12. CASE UrgDelim
  <2>1. [cl EXCEPT !["urg"] = urg] \in Entries
    BY FieldTypes
  <2>2. CASE Keep("urg", urg) /\ Go("URGLINE", 1)
    BY <1>12, <2>1, <2>2, KeepTypes DEF UrgDelim, At, States
  <2>3. CASE urg' = Longer(urg) /\ Go("URGDELIM", 1)
              /\ UNCHANGED <<in, phase, cl, list, source, version, dist, maint, endchange, result>>
    BY <1>12, <2>3, LongerFacts, StepTypes DEF UrgDelim, At, States
  <2> QED
    BY <1>12, <2>2, <2>3, OutTypes DEF UrgDelim
<1>13. CASE UrgLine
  BY <1>13, PassTypes DEF UrgLine, At, States
<1>14. CASE Changes
  BY <1>1, <1>14, SliceFacts
     DEF Changes, Trailer, At, Go, NoPosition, result, length, States
<1>15. CASE Maint
  <2>1. Slice(maint.from, maint.len + 2) \in Slices
    <3>1. maint.from \in Int /\ maint.len + 2 \in Int
      BY DEF Slices
    <3> QED
      BY <3>1, SliceFacts
  <2>2. [cl EXCEPT !["maintainer"] = Slice(maint.from, maint.len + 2)] \in Entries
    BY <2>1, FieldTypes
  <2>3. CASE Keep("maintainer", Slice(maint.from, maint.len + 2)) /\ Go("DATE", 1)
    BY <1>15, <2>2, <2>3, KeepTypes DEF Maint, At, States
  <2>4. CASE maint' = Longer(maint) /\ Go("MAINT", 1)
              /\ UNCHANGED <<in, phase, cl, list, source, version, dist, urg, endchange, result>>
    BY <1>15, <2>4, LongerFacts, StepTypes DEF Maint, At, States
  <2> QED
    BY <1>15, <2>3, <2>4, OutTypes DEF Maint
<1>16. CASE DateEnds
  <2>1. DateFrom \in Int /\ pos \in Int /\ source.from \in Int /\ endchange \in Int
    BY <1>1 DEF DateFrom, Slices, NoPosition
  <2>2. Date \in Slices /\ Text \in Slices
    BY <2>1 DEF Date, Text, Slice, Slices
  <2>3. [cl EXCEPT !.date = Date, !.text = Text] \in Entries
    BY <2>2 DEF Entries
  <2>4. CASE /\ list' = Append(list, [cl EXCEPT !.date = Date, !.text = Text])
             /\ cl' = NoEntry /\ endchange' = NoPosition
             /\ Go("RESET", 1)
             /\ UNCHANGED <<in, phase, slices, result>>
    <3>1. list' \in Seq(Entries)
      BY <2>3, <2>4
    <3> QED
      BY <1>1, <1>16, <2>4, <3>1, SliceFacts
         DEF DateEnds, At, Go, NoPosition, slices, result, length, States
  <2> QED
    BY <1>16, <2>4, OutTypes DEF DateEnds
<1>17. CASE DateChar
  BY <1>1, <1>17, LongerFacts DEF DateChar, At, Go, result, length, States
<1>18. CASE UNCHANGED vars
  BY <1>18 DEF vars, scratch, slices, result, length
<1> QED
  BY <1>2, <1>3, <1>4, <1>5, <1>6, <1>7, <1>8, <1>9, <1>10, <1>11, <1>12, <1>13, <1>14,
     <1>15, <1>16, <1>17, <1>18
     DEF Next, Header, Returned

\* The variables keep their types: in particular the position passes the text's end by
\* one character at most, wherever the trailer is looked for (changelog.c, line 231).
THEOREM TypeCorrect == Spec => []TypeOK
<1>1. Init => TypeOK
  BY InitTypes
<1>2. TypeOK /\ [Next]_vars => TypeOK'
  BY TypeStep
<1> QED
  BY <1>1, <1>2, PTL DEF Spec

-----------------------------------------------------------------------------
(* Lexed.                                                                  *)

\* Positions and lengths are numbers.
LEMMA IntFacts ==
  ASSUME TypeOK
  PROVE  /\ pos \in Int /\ 0 <= pos /\ length \in Int /\ endchange \in Int
         /\ source.from \in Int /\ source.len \in Int /\ version.from \in Int /\ version.len \in Int
         /\ dist.from \in Int /\ dist.len \in Int /\ urg.from \in Int /\ urg.len \in Int
         /\ maint.from \in Int /\ maint.len \in Int
         /\ cl.dist.from \in Int /\ cl.dist.len \in Int /\ cl.urg.from \in Int /\ cl.urg.len \in Int
         /\ cl.maintainer.from \in Int /\ cl.maintainer.len \in Int
<1>1. pos \in Int /\ 0 <= pos /\ length \in Int /\ endchange \in Int
  BY InputFacts DEF TypeOK, NoPosition
<1>2. cl.dist \in Slices /\ cl.urg \in Slices /\ cl.maintainer \in Slices
  BY DEF TypeOK, Entries
<1> QED
  BY <1>1, <1>2 DEF TypeOK, Slices

\* A field that is kept is the slice, and the others stay.
LEMMA FieldFacts ==
  ASSUME NEW e \in Entries, NEW slice
  PROVE  /\ LET f == [e EXCEPT !["source"] = slice]
            IN f.source = slice /\ f.dist = e.dist /\ f.urg = e.urg
         /\ LET f == [e EXCEPT !["version"] = slice]
            IN f.version = slice /\ f.source = e.source /\ f.dist = e.dist /\ f.urg = e.urg
         /\ LET f == [e EXCEPT !["dist"] = slice]
            IN f.dist = slice /\ f.source = e.source /\ f.version = e.version /\ f.urg = e.urg
         /\ LET f == [e EXCEPT !["urg"] = slice]
            IN f.urg = slice /\ f.source = e.source /\ f.version = e.version /\ f.dist = e.dist
         /\ LET f == [e EXCEPT !["maintainer"] = slice]
            IN /\ f.maintainer = slice /\ f.source = e.source /\ f.version = e.version
               /\ f.dist = e.dist /\ f.urg = e.urg
  BY DEF Entries

\* The date of the last entry of the list is a slice.
LEMMA LastFacts ==
  ASSUME TypeOK
  PROVE  list # <<>> => list[Len(list)].date.from \in Int /\ list[Len(list)].date.len \in Int
<1>1. ASSUME list # <<>>
      PROVE  list[Len(list)].date \in Slices
  <2>1. list[Len(list)] \in Entries
    BY <1>1 DEF TypeOK
  <2> QED
    BY <2>1 DEF Entries
<1> QED
  BY <1>1 DEF Slices

\* The date and the changes of an entry that ends here.
LEMMA DateFacts ==
  ASSUME TypeOK
  PROVE  /\ Date \in Slices /\ Text \in Slices /\ End(Date) = pos
         /\ Date.from = DateFrom /\ Date.len = pos - DateFrom
         /\ Text.from = source.from /\ End(Text) = endchange
<1>1. DateFrom \in Int /\ pos \in Int /\ source.from \in Int /\ endchange \in Int
  BY IntFacts DEF DateFrom
<1> QED
  BY <1>1 DEF Date, Text, Slice, Slices, End

\* A turn of the loop that only goes on leaves the entry that is read in its place.
LEMMA PassPlaced ==
  ASSUME TypeOK, EntryPlaced, BehindLast, NEW s, Pass(s),
         \/ state \in {"RESET", "VERSION_LPAREN", "VERSION_RPAREN", "URGENCY", "URGLINE"} /\ s = state
         \/ state = "DISTDELIM" /\ s = "URGENCY"
         \/ state = "URGLINE" /\ s = "CHANGES"
  PROVE  EntryPlaced' /\ BehindLast'
<1>1. pos' = pos + 1 /\ state' = s /\ UNCHANGED <<cl, list, scratch>>
  BY DEF Pass, Go
<1>2. BehindLast'
  <2>1. state' = "RESET" <=> state = "RESET"
    BY <1>1
  <2>2. list' = list /\ source' = source
    BY <1>1 DEF scratch, slices
  <2>3. ASSUME list # <<>>
        PROVE  End(list[Len(list)].date) < IF state = "RESET" THEN pos + 1 ELSE source.from
    <3>1. PICK e \in Int : e = End(list[Len(list)].date)
      BY <2>3, LastFacts DEF End
    <3>2. e < IF state = "RESET" THEN pos ELSE source.from
      BY <2>3, <3>1 DEF BehindLast
    <3>3. pos \in Int
      BY IntFacts
    <3>4. e < IF state = "RESET" THEN pos + 1 ELSE source.from
      BY <3>2, <3>3
    <3> QED
      BY <3>1, <3>4
  <2> QED
    BY <1>1, <2>1, <2>2, <2>3 DEF BehindLast
<1> USE <1>1, IntFacts DEF AfterSource, AfterVersion, AfterDist, AfterUrg, States, End, scratch, slices
<1>3. SourcePlaced'
  BY DEF EntryPlaced, SourcePlaced
<1>4. VersionPlaced'
  BY DEF EntryPlaced, VersionPlaced
<1>5. DistPlaced'
  BY DEF EntryPlaced, DistPlaced, VersionPlaced
<1>6. UrgPlaced'
  BY DEF EntryPlaced, UrgPlaced, VersionPlaced, DistPlaced
<1>7. ChangesPlaced'
  BY DEF EntryPlaced, ChangesPlaced, VersionPlaced, DistPlaced, UrgPlaced
<1>8. TrailerPlaced'
  BY DEF EntryPlaced, TrailerPlaced
<1> QED
  BY <1>2, <1>3, <1>4, <1>5, <1>6, <1>7, <1>8 DEF EntryPlaced

\* Every turn that does not end the lexing leaves it in its place.
LEMMA PlacedStep ==
  ASSUME TypeOK, phase # "returned" => EntryPlaced /\ BehindLast, [Next]_vars, phase' # "returned"
  PROVE  EntryPlaced' /\ BehindLast'
<1>1. ~EndOfText /\ ~Err /\ ~Abort
  BY DEF EndOfText, Err, Abort, Leave
<1> USE IntFacts DEF AfterSource, AfterVersion, AfterDist, AfterUrg, States, End
<1>2. CASE Call
  BY <1>2 DEF Call, scratch, slices, length, Char, DateFrom, EntryPlaced, SourcePlaced, VersionPlaced,
              DistPlaced, UrgPlaced, ChangesPlaced, TrailerPlaced, BehindLast
<1>3. CASE Reset
  <2>1. phase = "lexing" /\ state = "RESET"
    BY <1>3 DEF Reset, At
  <2>2. CASE /\ cl' = EmptyEntry /\ source' = Slice(pos, 0) /\ Go("SOURCE", 0) /\ ~IsSpace(Char)
            /\ UNCHANGED <<in, phase, list, version, dist, urg, maint, endchange, result>>
    <3>1. EntryPlaced /\ BehindLast /\ state = "RESET" /\ state' = "SOURCE" /\ pos' = pos
      BY <2>1, <2>2 DEF Go
    <3>2. pos < length /\ length' = length /\ Char' = Char
      BY <1>3, <2>2, <3>1 DEF Reset, At, length, Char
    <3> USE <2>2, <3>1, <3>2 DEF Slice, EmptyEntry, IsSpace
    <3>3. SourcePlaced' /\ VersionPlaced'
      BY DEF EntryPlaced, SourcePlaced, VersionPlaced
    <3>4. DistPlaced' /\ UrgPlaced'
      BY DEF EntryPlaced, DistPlaced, UrgPlaced, VersionPlaced
    <3>5. ChangesPlaced'
      BY DEF EntryPlaced, ChangesPlaced, VersionPlaced, DistPlaced, UrgPlaced
    <3>6. TrailerPlaced'
      BY DEF EntryPlaced, TrailerPlaced
    <3>7. BehindLast'
      BY LastFacts DEF BehindLast
    <3> QED
      BY <3>3, <3>4, <3>5, <3>6, <3>7 DEF EntryPlaced
  <2> QED
    BY <1>1, <1>3, <2>2, PassPlaced DEF Reset, At
<1>4. CASE Source
  <2>1. phase = "lexing" /\ state = "SOURCE"
    BY <1>4 DEF Source, At
  <2>2. CASE Keep("source", source) /\ Go("VERSION_LPAREN", 1) /\ IsSpace(Char)
    <3>1. EntryPlaced /\ BehindLast /\ state = "SOURCE" /\ state' = "VERSION_LPAREN" /\ pos' = pos + 1
      BY <2>1, <2>2 DEF Go
    <3>2. cl'.source = source /\ cl'.dist = cl.dist /\ cl'.urg = cl.urg
      BY <2>2, FieldFacts DEF TypeOK, Keep
    <3>3. UNCHANGED <<list, scratch>>
      BY <2>2 DEF Keep
    <3> USE <2>2, <3>1, <3>2, <3>3 DEF scratch, slices
    <3>4. SourcePlaced' /\ VersionPlaced'
      BY DEF EntryPlaced, SourcePlaced, VersionPlaced
    <3>5. DistPlaced' /\ UrgPlaced'
      BY DEF EntryPlaced, DistPlaced, UrgPlaced, VersionPlaced
    <3>6. ChangesPlaced'
      BY DEF EntryPlaced, ChangesPlaced, VersionPlaced, DistPlaced, UrgPlaced
    <3>7. TrailerPlaced'
      BY DEF EntryPlaced, TrailerPlaced
    <3>8. BehindLast'
      BY LastFacts DEF BehindLast
    <3> QED
      BY <3>4, <3>5, <3>6, <3>7, <3>8 DEF EntryPlaced
  <2>3. CASE source' = Longer(source) /\ Go("SOURCE", 1)
            /\ UNCHANGED <<in, phase, cl, list, version, dist, urg, maint, endchange, result>>
    <3>1. EntryPlaced /\ BehindLast /\ state = "SOURCE" /\ state' = "SOURCE" /\ pos' = pos + 1
      BY <2>1, <2>3 DEF Go
    <3>2. source'.from = source.from /\ source'.len = source.len + 1
      BY <2>3, LongerFacts DEF TypeOK
    <3> USE <2>3, <3>1, <3>2
    <3>3. SourcePlaced' /\ VersionPlaced'
      BY DEF EntryPlaced, SourcePlaced, VersionPlaced
    <3>4. DistPlaced' /\ UrgPlaced'
      BY DEF EntryPlaced, DistPlaced, UrgPlaced, VersionPlaced
    <3>5. ChangesPlaced'
      BY DEF EntryPlaced, ChangesPlaced, VersionPlaced, DistPlaced, UrgPlaced
    <3>6. TrailerPlaced'
      BY DEF EntryPlaced, TrailerPlaced
    <3>7. BehindLast'
      BY LastFacts DEF BehindLast
    <3> QED
      BY <3>3, <3>4, <3>5, <3>6, <3>7 DEF EntryPlaced
  <2> QED
    BY <1>1, <1>4, <2>2, <2>3 DEF Source
<1>5. CASE LParen
  <2>1. phase = "lexing" /\ state = "VERSION_LPAREN"
    BY <1>5 DEF LParen, At
  <2>2. CASE version' = Slice(pos + 1, 0) /\ Go("VERSION", 1)
            /\ UNCHANGED <<in, phase, cl, list, source, dist, urg, maint, endchange, result>>
    <3>1. EntryPlaced /\ BehindLast /\ state = "VERSION_LPAREN" /\ state' = "VERSION" /\ pos' = pos + 1
      BY <2>1, <2>2 DEF Go
    <3> USE <2>2, <3>1 DEF Slice
    <3>2. SourcePlaced' /\ VersionPlaced'
      BY DEF EntryPlaced, SourcePlaced, VersionPlaced
    <3>3. DistPlaced' /\ UrgPlaced'
      BY DEF EntryPlaced, DistPlaced, UrgPlaced, VersionPlaced
    <3>4. ChangesPlaced'
      BY DEF EntryPlaced, ChangesPlaced, VersionPlaced, DistPlaced, UrgPlaced
    <3>5. TrailerPlaced'
      BY DEF EntryPlaced, TrailerPlaced
    <3>6. BehindLast'
      BY LastFacts DEF BehindLast
    <3> QED
      BY <3>2, <3>3, <3>4, <3>5, <3>6 DEF EntryPlaced
  <2> QED
    BY <1>1, <1>5, <2>2, PassPlaced DEF LParen, At
<1>6. CASE Version
  <2>1. phase = "lexing" /\ state = "VERSION"
    BY <1>6 DEF Version, At
  <2>2. CASE Keep("version", version) /\ Go("VERSION_RPAREN", 1)
    <3>1. EntryPlaced /\ BehindLast /\ state = "VERSION" /\ state' = "VERSION_RPAREN" /\ pos' = pos + 1
      BY <2>1, <2>2 DEF Go
    <3>2. cl'.version = version /\ cl'.source = cl.source /\ cl'.dist = cl.dist /\ cl'.urg = cl.urg
      BY <2>2, FieldFacts DEF TypeOK, Keep
    <3>3. UNCHANGED <<list, scratch>>
      BY <2>2 DEF Keep
    <3> USE <2>2, <3>1, <3>2, <3>3 DEF scratch, slices
    <3>4. SourcePlaced' /\ VersionPlaced'
      BY DEF EntryPlaced, SourcePlaced, VersionPlaced
    <3>5. DistPlaced' /\ UrgPlaced'
      BY DEF EntryPlaced, DistPlaced, UrgPlaced, VersionPlaced
    <3>6. ChangesPlaced'
      BY DEF EntryPlaced, ChangesPlaced, VersionPlaced, DistPlaced, UrgPlaced
    <3>7. TrailerPlaced'
      BY DEF EntryPlaced, TrailerPlaced
    <3>8. BehindLast'
      BY LastFacts DEF BehindLast
    <3> QED
      BY <3>4, <3>5, <3>6, <3>7, <3>8 DEF EntryPlaced
  <2>3. CASE version' = Longer(version) /\ Go("VERSION", 1)
            /\ UNCHANGED <<in, phase, cl, list, source, dist, urg, maint, endchange, result>>
    <3>1. EntryPlaced /\ BehindLast /\ state = "VERSION" /\ state' = "VERSION" /\ pos' = pos + 1
      BY <2>1, <2>3 DEF Go
    <3>2. version'.from = version.from /\ version'.len = version.len + 1
      BY <2>3, LongerFacts DEF TypeOK
    <3> USE <2>3, <3>1, <3>2
    <3>3. SourcePlaced' /\ VersionPlaced'
      BY DEF EntryPlaced, SourcePlaced, VersionPlaced
    <3>4. DistPlaced' /\ UrgPlaced'
      BY DEF EntryPlaced, DistPlaced, UrgPlaced, VersionPlaced
    <3>5. ChangesPlaced'
      BY DEF EntryPlaced, ChangesPlaced, VersionPlaced, DistPlaced, UrgPlaced
    <3>6. TrailerPlaced'
      BY DEF EntryPlaced, TrailerPlaced
    <3>7. BehindLast'
      BY LastFacts DEF BehindLast
    <3> QED
      BY <3>3, <3>4, <3>5, <3>6, <3>7 DEF EntryPlaced
  <2> QED
    BY <1>1, <1>6, <2>2, <2>3 DEF Version
<1>7. CASE RParen
  <2>1. phase = "lexing" /\ state = "VERSION_RPAREN"
    BY <1>7 DEF RParen, At
  <2>2. CASE dist' = Slice(pos, 0) /\ Go("DIST", 0)
            /\ UNCHANGED <<in, phase, cl, list, source, version, urg, maint, endchange, result>>
    <3>1. EntryPlaced /\ BehindLast /\ state = "VERSION_RPAREN" /\ state' = "DIST" /\ pos' = pos
      BY <2>1, <2>2 DEF Go
    <3> USE <2>2, <3>1 DEF Slice
    <3>2. SourcePlaced' /\ VersionPlaced'
      BY DEF EntryPlaced, SourcePlaced, VersionPlaced
    <3>3. DistPlaced' /\ UrgPlaced'
      BY DEF EntryPlaced, DistPlaced, UrgPlaced, VersionPlaced
    <3>4. ChangesPlaced'
      BY DEF EntryPlaced, ChangesPlaced, VersionPlaced, DistPlaced, UrgPlaced
    <3>5. TrailerPlaced'
      BY DEF EntryPlaced, TrailerPlaced
    <3>6. BehindLast'
      BY LastFacts DEF BehindLast
    <3> QED
      BY <3>2, <3>3, <3>4, <3>5, <3>6 DEF EntryPlaced
  <2> QED
    BY <1>1, <1>7, <2>2, PassPlaced DEF RParen, At
<1>8. CASE Dist
  <2>1. phase = "lexing" /\ state = "DIST"
    BY <1>8 DEF Dist, At
  <2>2. CASE UNCHANGED <<in, phase, cl, list, scratch, result>> /\ Go("DISTDELIM", 0)
    <3>1. EntryPlaced /\ BehindLast /\ state = "DIST" /\ state' = "DISTDELIM" /\ pos' = pos
      BY <2>1, <2>2 DEF Go
    <3> USE <2>2, <3>1 DEF scratch, slices
    <3>2. SourcePlaced' /\ VersionPlaced'
      BY DEF EntryPlaced, SourcePlaced, VersionPlaced
    <3>3. DistPlaced' /\ UrgPlaced'
      BY DEF EntryPlaced, DistPlaced, UrgPlaced, VersionPlaced
    <3>4. ChangesPlaced'
      BY DEF EntryPlaced, ChangesPlaced, VersionPlaced, DistPlaced, UrgPlaced
    <3>5. TrailerPlaced'
      BY DEF EntryPlaced, TrailerPlaced
    <3>6. BehindLast'
      BY LastFacts DEF BehindLast
    <3> QED
      BY <3>2, <3>3, <3>4, <3>5, <3>6 DEF EntryPlaced
  <2>3. CASE Keep("dist", dist) /\ Go("DISTDELIM", 0)
    <3>1. EntryPlaced /\ BehindLast /\ state = "DIST" /\ state' = "DISTDELIM" /\ pos' = pos
      BY <2>1, <2>3 DEF Go
    <3>2. cl'.dist = dist /\ cl'.source = cl.source /\ cl'.version = cl.version /\ cl'.urg = cl.urg
      BY <2>3, FieldFacts DEF TypeOK, Keep
    <3>3. UNCHANGED <<list, scratch>>
      BY <2>3 DEF Keep
    <3> USE <2>3, <3>1, <3>2, <3>3 DEF scratch, slices
    <3>4. SourcePlaced' /\ VersionPlaced'
      BY DEF EntryPlaced, SourcePlaced, VersionPlaced
    <3>5. DistPlaced' /\ UrgPlaced'
      BY DEF EntryPlaced, DistPlaced, UrgPlaced, VersionPlaced
    <3>6. ChangesPlaced'
      BY DEF EntryPlaced, ChangesPlaced, VersionPlaced, DistPlaced, UrgPlaced
    <3>7. TrailerPlaced'
      BY DEF EntryPlaced, TrailerPlaced
    <3>8. BehindLast'
      BY LastFacts DEF BehindLast
    <3> QED
      BY <3>4, <3>5, <3>6, <3>7, <3>8 DEF EntryPlaced
  <2>4. CASE UNCHANGED <<in, phase, cl, list, scratch, result>> /\ Go("CHANGES", 1)
    <3>1. EntryPlaced /\ BehindLast /\ state = "DIST" /\ state' = "CHANGES" /\ pos' = pos + 1
      BY <2>1, <2>4 DEF Go
    <3> USE <2>4, <3>1 DEF scratch, slices
    <3>2. SourcePlaced' /\ VersionPlaced'
      BY DEF EntryPlaced, SourcePlaced, VersionPlaced
    <3>3. DistPlaced' /\ UrgPlaced'
      BY DEF EntryPlaced, DistPlaced, UrgPlaced, VersionPlaced
    <3>4. ChangesPlaced'
      BY DEF EntryPlaced, ChangesPlaced, VersionPlaced, DistPlaced, UrgPlaced
    <3>5. TrailerPlaced'
      BY DEF EntryPlaced, TrailerPlaced
    <3>6. BehindLast'
      BY LastFacts DEF BehindLast
    <3> QED
      BY <3>2, <3>3, <3>4, <3>5, <3>6 DEF EntryPlaced
  <2>5. CASE Keep("dist", dist) /\ Go("CHANGES", 1)
    <3>1. EntryPlaced /\ BehindLast /\ state = "DIST" /\ state' = "CHANGES" /\ pos' = pos + 1
      BY <2>1, <2>5 DEF Go
    <3>2. cl'.dist = dist /\ cl'.source = cl.source /\ cl'.version = cl.version /\ cl'.urg = cl.urg
      BY <2>5, FieldFacts DEF TypeOK, Keep
    <3>3. UNCHANGED <<list, scratch>>
      BY <2>5 DEF Keep
    <3> USE <2>5, <3>1, <3>2, <3>3 DEF scratch, slices
    <3>4. SourcePlaced' /\ VersionPlaced'
      BY DEF EntryPlaced, SourcePlaced, VersionPlaced
    <3>5. DistPlaced' /\ UrgPlaced'
      BY DEF EntryPlaced, DistPlaced, UrgPlaced, VersionPlaced
    <3>6. ChangesPlaced'
      BY DEF EntryPlaced, ChangesPlaced, VersionPlaced, DistPlaced, UrgPlaced
    <3>7. TrailerPlaced'
      BY DEF EntryPlaced, TrailerPlaced
    <3>8. BehindLast'
      BY LastFacts DEF BehindLast
    <3> QED
      BY <3>4, <3>5, <3>6, <3>7, <3>8 DEF EntryPlaced
  <2>6. CASE dist' = Longer(dist) /\ Go("DIST", 1)
            /\ UNCHANGED <<in, phase, cl, list, source, version, urg, maint, endchange, result>>
    <3>1. EntryPlaced /\ BehindLast /\ state = "DIST" /\ state' = "DIST" /\ pos' = pos + 1
      BY <2>1, <2>6 DEF Go
    <3>2. dist'.from = dist.from /\ dist'.len = dist.len + 1
      BY <2>6, LongerFacts DEF TypeOK
    <3> USE <2>6, <3>1, <3>2
    <3>3. SourcePlaced' /\ VersionPlaced'
      BY DEF EntryPlaced, SourcePlaced, VersionPlaced
    <3>4. DistPlaced' /\ UrgPlaced'
      BY DEF EntryPlaced, DistPlaced, UrgPlaced, VersionPlaced
    <3>5. ChangesPlaced'
      BY DEF EntryPlaced, ChangesPlaced, VersionPlaced, DistPlaced, UrgPlaced
    <3>6. TrailerPlaced'
      BY DEF EntryPlaced, TrailerPlaced
    <3>7. BehindLast'
      BY LastFacts DEF BehindLast
    <3> QED
      BY <3>3, <3>4, <3>5, <3>6, <3>7 DEF EntryPlaced
  <2> QED
    BY <1>1, <1>8, <2>2, <2>3, <2>4, <2>5, <2>6 DEF Dist
<1>9. CASE DistDelim
  BY <1>9, PassPlaced DEF DistDelim, At
<1>10. CASE Urgency
  <2>1. phase = "lexing" /\ state = "URGENCY"
    BY <1>10 DEF Urgency, At
  <2>2. CASE urg' = Slice(pos + 1, 0) /\ Go("URGDELIM", 1)
            /\ UNCHANGED <<in, phase, cl, list, source, version, dist, maint, endchange, result>>
    <3>1. EntryPlaced /\ BehindLast /\ state = "URGENCY" /\ state' = "URGDELIM" /\ pos' = pos + 1
      BY <2>1, <2>2 DEF Go
    <3> USE <2>2, <3>1 DEF Slice
    <3>2. SourcePlaced' /\ VersionPlaced'
      BY DEF EntryPlaced, SourcePlaced, VersionPlaced
    <3>3. DistPlaced' /\ UrgPlaced'
      BY DEF EntryPlaced, DistPlaced, UrgPlaced, VersionPlaced
    <3>4. ChangesPlaced'
      BY DEF EntryPlaced, ChangesPlaced, VersionPlaced, DistPlaced, UrgPlaced
    <3>5. TrailerPlaced'
      BY DEF EntryPlaced, TrailerPlaced
    <3>6. BehindLast'
      BY LastFacts DEF BehindLast
    <3> QED
      BY <3>2, <3>3, <3>4, <3>5, <3>6 DEF EntryPlaced
  <2> QED
    BY <1>1, <1>10, <2>2, PassPlaced DEF Urgency, At
<1>11. CASE UrgDelim
  <2>1. phase = "lexing" /\ state = "URGDELIM"
    BY <1>11 DEF UrgDelim, At
  <2>2. CASE Keep("urg", urg) /\ Go("URGLINE", 1)
    <3>1. EntryPlaced /\ BehindLast /\ state = "URGDELIM" /\ state' = "URGLINE" /\ pos' = pos + 1
      BY <2>1, <2>2 DEF Go
    <3>2. cl'.urg = urg /\ cl'.source = cl.source /\ cl'.version = cl.version /\ cl'.dist = cl.dist
      BY <2>2, FieldFacts DEF TypeOK, Keep
    <3>3. UNCHANGED <<list, scratch>>
      BY <2>2 DEF Keep
    <3> USE <2>2, <3>1, <3>2, <3>3 DEF scratch, slices
    <3>4. SourcePlaced' /\ VersionPlaced'
      BY DEF EntryPlaced, SourcePlaced, VersionPlaced
    <3>5. DistPlaced' /\ UrgPlaced'
      BY DEF EntryPlaced, DistPlaced, UrgPlaced, VersionPlaced
    <3>6. ChangesPlaced'
      BY DEF EntryPlaced, ChangesPlaced, VersionPlaced, DistPlaced, UrgPlaced
    <3>7. TrailerPlaced'
      BY DEF EntryPlaced, TrailerPlaced
    <3>8. BehindLast'
      BY LastFacts DEF BehindLast
    <3> QED
      BY <3>4, <3>5, <3>6, <3>7, <3>8 DEF EntryPlaced
  <2>3. CASE urg' = Longer(urg) /\ Go("URGDELIM", 1)
            /\ UNCHANGED <<in, phase, cl, list, source, version, dist, maint, endchange, result>>
    <3>1. EntryPlaced /\ BehindLast /\ state = "URGDELIM" /\ state' = "URGDELIM" /\ pos' = pos + 1
      BY <2>1, <2>3 DEF Go
    <3>2. urg'.from = urg.from /\ urg'.len = urg.len + 1
      BY <2>3, LongerFacts DEF TypeOK
    <3> USE <2>3, <3>1, <3>2
    <3>3. SourcePlaced' /\ VersionPlaced'
      BY DEF EntryPlaced, SourcePlaced, VersionPlaced
    <3>4. DistPlaced' /\ UrgPlaced'
      BY DEF EntryPlaced, DistPlaced, UrgPlaced, VersionPlaced
    <3>5. ChangesPlaced'
      BY DEF EntryPlaced, ChangesPlaced, VersionPlaced, DistPlaced, UrgPlaced
    <3>6. TrailerPlaced'
      BY DEF EntryPlaced, TrailerPlaced
    <3>7. BehindLast'
      BY LastFacts DEF BehindLast
    <3> QED
      BY <3>3, <3>4, <3>5, <3>6, <3>7 DEF EntryPlaced
  <2> QED
    BY <1>1, <1>11, <2>2, <2>3 DEF UrgDelim
<1>12. CASE UrgLine
  BY <1>12, PassPlaced DEF UrgLine, At
<1>13. CASE Changes
  <2>1. phase = "lexing" /\ state = "CHANGES"
    BY <1>13 DEF Changes, At
  <2>2. CASE /\ endchange' = (IF Char = NL /\ endchange = NoPosition THEN pos ELSE endchange)
            /\ maint' = Slice(pos + 5, 0) /\ Char = NL /\ Go("MAINT", 6)
            /\ UNCHANGED <<in, phase, cl, list, source, version, dist, urg, result>>
    <3>1. EntryPlaced /\ BehindLast /\ state = "CHANGES" /\ state' = "MAINT" /\ pos' = pos + 6
      BY <2>1, <2>2 DEF Go
    <3> USE <2>2, <3>1 DEF Slice, NoPosition
    <3>2. SourcePlaced' /\ VersionPlaced'
      BY DEF EntryPlaced, SourcePlaced, VersionPlaced
    <3>3. DistPlaced' /\ UrgPlaced'
      BY DEF EntryPlaced, DistPlaced, UrgPlaced, VersionPlaced
    <3>4. ChangesPlaced'
      BY DEF EntryPlaced, ChangesPlaced, VersionPlaced, DistPlaced, UrgPlaced
    <3>5. TrailerPlaced'
      BY DEF EntryPlaced, TrailerPlaced
    <3>6. BehindLast'
      BY LastFacts DEF BehindLast
    <3> QED
      BY <3>2, <3>3, <3>4, <3>5, <3>6 DEF EntryPlaced
  <2>3. CASE /\ endchange' = (IF Char = NL /\ endchange = NoPosition THEN pos ELSE endchange)
            /\ UNCHANGED maint /\ Go("CHANGES", 1)
            /\ UNCHANGED <<in, phase, cl, list, source, version, dist, urg, result>>
    <3>1. EntryPlaced /\ BehindLast /\ state = "CHANGES" /\ state' = "CHANGES" /\ pos' = pos + 1
      BY <2>1, <2>3 DEF Go
    <3> USE <2>3, <3>1 DEF NoPosition
    <3>2. SourcePlaced' /\ VersionPlaced'
      BY DEF EntryPlaced, SourcePlaced, VersionPlaced
    <3>3. DistPlaced' /\ UrgPlaced'
      BY DEF EntryPlaced, DistPlaced, UrgPlaced, VersionPlaced
    <3>4. ChangesPlaced'
      BY DEF EntryPlaced, ChangesPlaced, VersionPlaced, DistPlaced, UrgPlaced
    <3>5. TrailerPlaced'
      BY DEF EntryPlaced, TrailerPlaced
    <3>6. BehindLast'
      BY LastFacts DEF BehindLast
    <3> QED
      BY <3>2, <3>3, <3>4, <3>5, <3>6 DEF EntryPlaced
  <2> QED
    BY <1>1, <1>13, <2>2, <2>3 DEF Changes
<1>14. CASE Maint
  <2>1. phase = "lexing" /\ state = "MAINT"
    BY <1>14 DEF Maint, At
  <2>2. CASE Keep("maintainer", Slice(maint.from, maint.len + 2)) /\ Go("DATE", 1)
    <3>1. EntryPlaced /\ BehindLast /\ state = "MAINT" /\ state' = "DATE" /\ pos' = pos + 1
      BY <2>1, <2>2 DEF Go
    <3>2. /\ cl'.maintainer = Slice(maint.from, maint.len + 2)
          /\ cl'.source = cl.source /\ cl'.version = cl.version
          /\ cl'.dist = cl.dist /\ cl'.urg = cl.urg
      BY <2>2, FieldFacts DEF TypeOK, Keep
    <3>3. UNCHANGED <<list, scratch>>
      BY <2>2 DEF Keep
    <3> USE <2>2, <3>1, <3>2, <3>3 DEF scratch, slices, Slice, DateFrom
    <3>4. SourcePlaced' /\ VersionPlaced'
      BY DEF EntryPlaced, SourcePlaced, VersionPlaced
    <3>5. DistPlaced' /\ UrgPlaced'
      BY DEF EntryPlaced, DistPlaced, UrgPlaced, VersionPlaced
    <3>6. ChangesPlaced'
      BY DEF EntryPlaced, ChangesPlaced, VersionPlaced, DistPlaced, UrgPlaced
    <3>7. TrailerPlaced'
      BY DEF EntryPlaced, TrailerPlaced
    <3>8. BehindLast'
      BY LastFacts DEF BehindLast
    <3> QED
      BY <3>4, <3>5, <3>6, <3>7, <3>8 DEF EntryPlaced
  <2>3. CASE maint' = Longer(maint) /\ Go("MAINT", 1)
            /\ UNCHANGED <<in, phase, cl, list, source, version, dist, urg, endchange, result>>
    <3>1. EntryPlaced /\ BehindLast /\ state = "MAINT" /\ state' = "MAINT" /\ pos' = pos + 1
      BY <2>1, <2>3 DEF Go
    <3>2. maint'.from = maint.from /\ maint'.len = maint.len + 1
      BY <2>3, LongerFacts DEF TypeOK
    <3> USE <2>3, <3>1, <3>2
    <3>3. SourcePlaced' /\ VersionPlaced'
      BY DEF EntryPlaced, SourcePlaced, VersionPlaced
    <3>4. DistPlaced' /\ UrgPlaced'
      BY DEF EntryPlaced, DistPlaced, UrgPlaced, VersionPlaced
    <3>5. ChangesPlaced'
      BY DEF EntryPlaced, ChangesPlaced, VersionPlaced, DistPlaced, UrgPlaced
    <3>6. TrailerPlaced'
      BY DEF EntryPlaced, TrailerPlaced
    <3>7. BehindLast'
      BY LastFacts DEF BehindLast
    <3> QED
      BY <3>3, <3>4, <3>5, <3>6, <3>7 DEF EntryPlaced
  <2> QED
    BY <1>1, <1>14, <2>2, <2>3 DEF Maint
<1>15. CASE DateEnds
  <2>1. /\ EntryPlaced /\ BehindLast /\ state = "DATE" /\ state' = "RESET" /\ pos' = pos + 1
        /\ list' = Append(list, [cl EXCEPT !.date = Date, !.text = Text])
        /\ cl' = NoEntry /\ endchange' = NoPosition /\ UNCHANGED slices
    BY <1>1, <1>15 DEF DateEnds, At, Go
  <2>2. End(list'[Len(list')].date) = pos
    <3>1. list \in Seq(Entries) /\ cl \in Entries /\ Date \in Slices /\ Text \in Slices
      BY DateFacts DEF TypeOK
    <3>2. [cl EXCEPT !.date = Date, !.text = Text] \in Entries
      BY <3>1 DEF Entries
    <3>3. [cl EXCEPT !.date = Date, !.text = Text].date = Date
      BY <3>1 DEF Entries
    <3>4. list'[Len(list')] = [cl EXCEPT !.date = Date, !.text = Text]
      BY <2>1, <3>1, <3>2
    <3>5. End(Date) = pos
      BY DateFacts
    <3> QED
      BY <3>3, <3>4, <3>5
  <2> USE <2>1, <2>2 DEF slices
  <2>3. SourcePlaced' /\ VersionPlaced'
    BY DEF EntryPlaced, SourcePlaced, VersionPlaced
  <2>4. DistPlaced' /\ UrgPlaced'
    BY DEF EntryPlaced, DistPlaced, UrgPlaced, VersionPlaced
  <2>5. ChangesPlaced'
    BY DEF EntryPlaced, ChangesPlaced, VersionPlaced, DistPlaced, UrgPlaced
  <2>6. TrailerPlaced'
    BY DEF EntryPlaced, TrailerPlaced
  <2>7. BehindLast'
    BY LastFacts DEF BehindLast
  <2> QED
    BY <2>3, <2>4, <2>5, <2>6, <2>7 DEF EntryPlaced
<1>16. CASE DateChar
  <2>1. phase = "lexing" /\ state = "DATE"
    BY <1>16 DEF DateChar, At
  <2>2. CASE maint' = Longer(maint) /\ DateFrom = pos /\ Go("DATE", 1)
            /\ UNCHANGED <<in, phase, cl, list, source, version, dist, urg, endchange, result>>
    <3>1. EntryPlaced /\ BehindLast /\ state = "DATE" /\ state' = "DATE" /\ pos' = pos + 1
      BY <2>1, <2>2 DEF Go
    <3>2. maint'.from = maint.from /\ maint'.len = maint.len + 1
      BY <2>2, LongerFacts DEF TypeOK
    <3> USE <2>2, <3>1, <3>2 DEF DateFrom
    <3>3. SourcePlaced' /\ VersionPlaced'
      BY DEF EntryPlaced, SourcePlaced, VersionPlaced
    <3>4. DistPlaced' /\ UrgPlaced'
      BY DEF EntryPlaced, DistPlaced, UrgPlaced, VersionPlaced
    <3>5. ChangesPlaced'
      BY DEF EntryPlaced, ChangesPlaced, VersionPlaced, DistPlaced, UrgPlaced
    <3>6. TrailerPlaced'
      BY DEF EntryPlaced, TrailerPlaced
    <3>7. BehindLast'
      BY LastFacts DEF BehindLast
    <3> QED
      BY <3>3, <3>4, <3>5, <3>6, <3>7 DEF EntryPlaced
  <2>3. CASE maint' = maint /\ Go("DATE", 1)
            /\ UNCHANGED <<in, phase, cl, list, source, version, dist, urg, endchange, result>>
    <3>1. EntryPlaced /\ BehindLast /\ state = "DATE" /\ state' = "DATE" /\ pos' = pos + 1
      BY <2>1, <2>3 DEF Go
    <3> USE <2>3, <3>1 DEF DateFrom
    <3>2. SourcePlaced' /\ VersionPlaced'
      BY DEF EntryPlaced, SourcePlaced, VersionPlaced
    <3>3. DistPlaced' /\ UrgPlaced'
      BY DEF EntryPlaced, DistPlaced, UrgPlaced, VersionPlaced
    <3>4. ChangesPlaced'
      BY DEF EntryPlaced, ChangesPlaced, VersionPlaced, DistPlaced, UrgPlaced
    <3>5. TrailerPlaced'
      BY DEF EntryPlaced, TrailerPlaced
    <3>6. BehindLast'
      BY LastFacts DEF BehindLast
    <3> QED
      BY <3>2, <3>3, <3>4, <3>5, <3>6 DEF EntryPlaced
  <2> QED
    BY <1>1, <1>16, <2>2, <2>3 DEF DateChar
<1>17. CASE UNCHANGED vars
  BY <1>17 DEF vars, scratch, slices, result, length, Char, DateFrom, EntryPlaced, SourcePlaced,
     VersionPlaced, DistPlaced, UrgPlaced, ChangesPlaced, TrailerPlaced, BehindLast
<1> QED
  BY <1>1, <1>2, <1>3, <1>4, <1>5, <1>6, <1>7, <1>8, <1>9, <1>10, <1>11, <1>12,
     <1>13, <1>14, <1>15, <1>16, <1>17
     DEF Next, Header, Returned

\* An entry that ends here is well placed.
LEMMA Completed ==
  ASSUME TypeOK, EntryPlaced, state = "DATE", DateFrom # pos, pos < length
  PROVE  WellPlaced([cl EXCEPT !.date = Date, !.text = Text])
<1> DEFINE e == [cl EXCEPT !.date = Date, !.text = Text]
<1>1. /\ e.date = Date /\ e.text = Text /\ e.dist = cl.dist /\ e.urg = cl.urg
      /\ e.maintainer = cl.maintainer /\ e.source = cl.source /\ e.version = cl.version
  BY DEF TypeOK, Entries
<1>2. e.source = source /\ e.version = version
  BY <1>1 DEF EntryPlaced, SourcePlaced, VersionPlaced, AfterSource, AfterVersion, States
<1> HIDE DEF e
<1>3. DateFrom \in Int
  BY IntFacts DEF DateFrom
<1> USE IntFacts, <1>1, <1>2, <1>3
        DEF EntryPlaced, AfterSource, AfterVersion, AfterDist, AfterUrg, States, End
<1>4. 0 <= source.from /\ 0 < source.len
  BY DEF SourcePlaced
<1>5. End(source) < version.from /\ 0 <= version.len
  BY DEF VersionPlaced
<1>6. cl.dist # NoSlice => End(version) < cl.dist.from /\ End(cl.dist) <= endchange
  BY DEF DistPlaced, ChangesPlaced
<1>7. /\ cl.urg # NoSlice => End(version) < cl.urg.from /\ End(cl.urg) < endchange
      /\ cl.dist # NoSlice /\ cl.urg # NoSlice => End(cl.dist) < cl.urg.from
  BY DEF UrgPlaced, ChangesPlaced
<1>8. End(version) < endchange /\ endchange < cl.maintainer.from
  BY DEF ChangesPlaced, TrailerPlaced
<1>9. End(cl.maintainer) <= DateFrom /\ 0 < pos - DateFrom
  BY DEF TrailerPlaced
<1>10. /\ Date.from = DateFrom /\ Date.len = pos - DateFrom /\ End(Date) = pos
       /\ Text.from = source.from /\ End(Text) = endchange
  BY DateFacts
<1>11. WellPlaced(e)
  BY <1>4, <1>5, <1>6, <1>7, <1>8, <1>9, <1>10 DEF WellPlaced
<1> QED
  BY <1>11 DEF e

\* Only an entry that ends changes the list.
LEMMA ListSteps ==
  ASSUME [Next]_vars
  PROVE  UNCHANGED <<in, list>> \/ (DateEnds /\ ~Err)
<1>1. Err \/ Abort \/ Call \/ EndOfText \/ UNCHANGED vars => UNCHANGED <<in, list>>
  BY DEF Err, Abort, Call, EndOfText, vars
<1>2. ASSUME NEW s, Pass(s)
      PROVE  UNCHANGED <<in, list>>
  BY <1>2 DEF Pass
<1>3. ASSUME NEW field, NEW slice, Keep(field, slice)
      PROVE  UNCHANGED <<in, list>>
  BY <1>3 DEF Keep
<1>4. Reset \/ Source \/ LParen \/ Version \/ RParen => UNCHANGED <<in, list>>
  BY <1>1, <1>2, <1>3 DEF Reset, Source, LParen, Version, RParen
<1>5. Dist \/ DistDelim \/ Urgency \/ UrgDelim \/ UrgLine => UNCHANGED <<in, list>>
  BY <1>1, <1>2, <1>3 DEF Dist, DistDelim, Urgency, UrgDelim, UrgLine
<1>6. Changes \/ Maint \/ DateChar => UNCHANGED <<in, list>>
  BY <1>1, <1>3 DEF Changes, Maint, DateChar
<1> QED
  BY <1>1, <1>4, <1>5, <1>6 DEF Next, Header, Returned

\* The list only ever gets an entry that is well placed and lies behind its last one.
LEMMA ApartStep ==
  ASSUME IInv, [Next]_vars
  PROVE  EntriesApart'
<1>1. CASE DateEnds /\ ~Err
  <2>1. /\ phase = "lexing" /\ state = "DATE" /\ DateFrom # pos /\ pos < length
        /\ list' = Append(list, [cl EXCEPT !.date = Date, !.text = Text]) /\ in' = in
    BY <1>1 DEF DateEnds, At
  <2> DEFINE e == [cl EXCEPT !.date = Date, !.text = Text]
  <2>2. WellPlaced(e)
    BY <2>1, Completed DEF IInv
  <2>3. list # <<>> => End(list[Len(list)].date) < e.source.from
    <3>1. e.source = source
      BY <2>1 DEF IInv, TypeOK, Entries, EntryPlaced, SourcePlaced, AfterSource, States
    <3> QED
      BY <2>1, <3>1 DEF IInv, BehindLast
  <2>4. list \in Seq(Entries) /\ e \in Entries
    <3>1. cl \in Entries /\ Date \in Slices /\ Text \in Slices
      BY DateFacts DEF IInv, TypeOK
    <3> QED
      BY <3>1 DEF IInv, TypeOK, Entries
  <2> HIDE DEF e
  <2>5. /\ Len(list') = Len(list) + 1 /\ Len(list) \in Nat /\ DOMAIN list' = 1..Len(list) + 1
        /\ list'[Len(list) + 1] = e /\ \A i \in 1..Len(list) : list'[i] = list[i]
    BY <2>1, <2>4 DEF e
  <2>6. \A x : WellPlaced(x)' <=> WellPlaced(x)
    BY <2>1 DEF WellPlaced, length
  <2>7. ASSUME NEW i \in DOMAIN list'
        PROVE  WellPlaced(list'[i])
    <3>1. CASE i = Len(list) + 1
      BY <2>2, <2>5, <3>1
    <3>2. CASE i \in 1..Len(list)
      BY <2>4, <2>5, <3>2 DEF IInv, EntriesApart
    <3> QED
      BY <2>5, <3>1, <3>2
  <2>8. ASSUME NEW i \in 1..Len(list') - 1
        PROVE  End(list'[i].date) < list'[i + 1].source.from
    <3>1. CASE i = Len(list)
      <4>1. list # <<>> /\ list'[i] = list[Len(list)] /\ list'[i + 1] = e
        BY <2>5, <3>1
      <4> QED
        BY <2>3, <3>1, <4>1
    <3>2. CASE i \in 1..Len(list) - 1
      <4>1. list'[i] = list[i] /\ list'[i + 1] = list[i + 1]
        BY <2>5, <3>2
      <4> QED
        BY <3>2, <4>1 DEF IInv, EntriesApart
    <3> QED
      BY <2>5, <3>1, <3>2
  <2> QED
    BY <2>6, <2>7, <2>8 DEF EntriesApart, End
<1>2. CASE UNCHANGED <<in, list>>
  BY <1>2 DEF IInv, EntriesApart, WellPlaced, length, End
<1>3. UNCHANGED <<in, list>> \/ (DateEnds /\ ~Err)
  BY ListSteps
<1> QED
  BY <1>1, <1>2, <1>3

LEMMA InitPlaced == ASSUME Init PROVE IInv
<1>1. TypeOK
  BY InitTypes
<1>2. list = <<>> /\ state = "RESET" /\ endchange = NoPosition
  BY DEF Init
<1>3. EntriesApart
  BY <1>2 DEF EntriesApart
<1>4. EntryPlaced
  BY <1>2 DEF EntryPlaced, SourcePlaced, VersionPlaced, DistPlaced, UrgPlaced, ChangesPlaced,
              TrailerPlaced, AfterSource, AfterVersion, AfterDist, AfterUrg, States
<1> QED
  BY <1>1, <1>2, <1>3, <1>4 DEF IInv, BehindLast

LEMMA PlacedInv == IInv /\ [Next]_vars => IInv'
<1> SUFFICES ASSUME IInv, [Next]_vars
             PROVE  IInv'
  OBVIOUS
<1>1. TypeOK'
  BY TypeStep DEF IInv
<1>2. EntriesApart'
  BY ApartStep
<1>3. phase' # "returned" => EntryPlaced' /\ BehindLast'
  BY PlacedStep DEF IInv
<1> QED
  BY <1>1, <1>2, <1>3 DEF IInv

\* Every entry of the list is well placed and they lie one behind the other: no pointer
\* into an earlier entry is used for a later one, whatever the text and the faults.
THEOREM EntriesApartCorrect == Spec => []EntriesApart
<1>1. Init => IInv
  BY InitPlaced
<1>2. IInv => EntriesApart
  BY DEF IInv
<1> QED
  BY <1>1, <1>2, PlacedInv, PTL DEF Spec

-----------------------------------------------------------------------------
(* What is handed over.                                                     *)

\* Until the call returns *cptr is NULL, from the time it is written on, and no entry is
\* in the list before the lexing begins.
Handed ==
  /\ phase = "calling" => list = <<>>
  /\ phase = "lexing" => cptr = "null"
  /\ phase = "returned" => ret = Head0 /\ cptr \in {ret, "null"}

LEMMA HandedStep ==
  ASSUME TypeOK, Handed, [Next]_vars
  PROVE  Handed'
<1> USE DEF Handed, Head0
<1>1. CASE Call
  BY <1>1 DEF Call
<1>2. CASE phase = "lexing" /\ (Err \/ Abort \/ EndOfText)
  <2>1. phase' = "returned" /\ list' = list /\ ret' = Head0
    BY <1>2 DEF Err, Abort, EndOfText, Leave
  <2>2. cptr' \in {ret', "null"}
    BY <1>2 DEF Err, Abort, EndOfText, Leave
  <2> QED
    BY <2>1, <2>2
<1>3. CASE phase = "lexing" /\ phase' = "lexing" /\ UNCHANGED result
  BY <1>3 DEF result
<1>4. CASE UNCHANGED vars
  BY <1>4 DEF vars, result
<1>5. \/ Call \/ UNCHANGED vars
      \/ phase = "lexing" /\ (Err \/ Abort \/ EndOfText)
      \/ phase = "lexing" /\ phase' = "lexing" /\ UNCHANGED result
  <2>1. ASSUME phase = "lexing", NEW s, Pass(s)
        PROVE  phase' = "lexing" /\ UNCHANGED result
    BY <2>1 DEF Pass
  <2>2. ASSUME phase = "lexing", NEW field, NEW slice, Keep(field, slice)
        PROVE  phase' = "lexing" /\ UNCHANGED result
    BY <2>2 DEF Keep
  <2> DEFINE Goal == /\ phase = "lexing"
                     /\ Err \/ Abort \/ (phase' = "lexing" /\ UNCHANGED result)
  <2>3. Reset \/ Source \/ LParen \/ Version \/ RParen => Goal
    BY <2>1, <2>2 DEF Reset, Source, LParen, Version, RParen, At
  <2>4. Dist \/ DistDelim \/ Urgency \/ UrgDelim \/ UrgLine => Goal
    BY <2>1, <2>2 DEF Dist, DistDelim, Urgency, UrgDelim, UrgLine, At
  <2>5. Changes \/ Maint \/ DateEnds \/ DateChar => Goal
    BY <2>2 DEF Changes, Maint, DateEnds, DateChar, At
  <2> QED
    BY <2>3, <2>4, <2>5 DEF Next, Header, Returned, EndOfText
<1> QED
  BY <1>1, <1>2, <1>3, <1>4, <1>5

\* Every way out leaves the caller a way to the entries completed until then, and to none
\* when there are none.
THEOREM ReachableCorrect == Spec => []EntriesReachable
<1>1. Init => TypeOK /\ Handed
  BY InitTypes DEF Init, Handed
<1>2. TypeOK /\ Handed /\ [Next]_vars => TypeOK' /\ Handed'
  BY TypeStep, HandedStep
<1>3. Handed => EntriesReachable
  BY DEF Handed, EntriesReachable, Head0
<1> QED
  BY <1>1, <1>2, <1>3, PTL DEF Spec

-----------------------------------------------------------------------------
(* Characters.                                                              *)

\* All the characters of the slice are among chars.
Only(text, slice, chars) == \A i \in slice.from + 1..End(slice) : text[i] \in chars

InWord == Chars \ {NL, SP}
InDist == DistChars \cup {SP}
InVersion == VerChars \cup {"_"}

\* The maintainer behind its first character, and so far as it is read.
Behind(slice) == Slice(slice.from + 1, slice.len - 1)
MaintBehind == Slice(maint.from + 1, maint.len)

\* A slice that grows has the characters it may have, and so has the field it is kept in.
HeaderClean ==
  /\ state = "SOURCE" => Only(in.text, source, PkgChars)
  /\ state \in AfterSource => Only(in.text, cl.source, PkgChars)
  /\ state = "VERSION" => Only(in.text, version, InVersion)
  /\ state \in AfterVersion => Only(in.text, cl.version, InVersion)
  /\ state = "DIST" => Only(in.text, dist, InDist)
  /\ state = "URGDELIM" => Only(in.text, urg, InWord)
  /\ state # "RESET" => Only(in.text, cl.dist, InDist) /\ Only(in.text, cl.urg, InWord)

ChangesClean == endchange # NoPosition => in.text[endchange + 1] = NL

TrailerClean ==
  /\ state = "MAINT" => Only(in.text, MaintBehind, InLine)
  /\ state = "DATE" =>
       /\ in.text[End(cl.maintainer)] = ">" /\ Only(in.text, Behind(cl.maintainer), InLine)
       /\ Only(in.text, Date, InLine)
       /\ DateFrom # pos => in.text[DateFrom + 1] # SP

EntryClean == HeaderClean /\ ChangesClean /\ TrailerClean

CleanInv == FieldsClean /\ (phase # "returned" => EntryClean)

LEMMA OnlyEmpty ==
  ASSUME NEW text, NEW chars
  PROVE  /\ \A from \in Int : Only(text, Slice(from, 0), chars)
         /\ Only(text, NoSlice, chars)
  BY DEF Only, Slice, NoSlice, End

\* A slice that the lexer begins.
LEMMA OnlyBegun ==
  ASSUME TypeOK, NEW text, NEW chars, NEW n \in Nat
  PROVE  Only(text, Slice(pos + n, 0), chars)
<1>1. pos + n \in Int
  BY IntFacts
<1> QED
  BY <1>1, OnlyEmpty

LEMMA OnlyLonger ==
  ASSUME NEW text, NEW chars, NEW slice \in Slices, Only(text, slice, chars),
         text[End(slice) + 1] \in chars
  PROVE  Only(text, Longer(slice), chars)
<1>1. /\ Longer(slice).from = slice.from /\ End(Longer(slice)) = End(slice) + 1
      /\ slice.from \in Int /\ End(slice) \in Int
  BY LongerFacts DEF Slices, End
<1>2. \A i \in slice.from + 1..End(slice) + 1 : i \in slice.from + 1..End(slice) \/ i = End(slice) + 1
  BY <1>1
<1> QED
  BY <1>1, <1>2 DEF Only

LEMMA LongerSlice ==
  ASSUME NEW from \in Int, NEW len \in Int
  PROVE  /\ Slice(from, len) \in Slices /\ Longer(Slice(from, len)) = Slice(from, len + 1)
         /\ End(Slice(from, len)) = from + len
  BY DEF Slice, Slices, Longer, End

LEMMA CharFacts ==
  ASSUME TypeOK, pos < length
  PROVE  Char \in Chars
<1>1. length \in Nat /\ pos \in Nat /\ \A i \in 1..length : in.text[i] \in Chars
  BY InputFacts DEF TypeOK
<1>2. pos + 1 \in 1..length
  BY <1>1
<1> QED
  BY <1>1, <1>2 DEF Char

\* A turn that only goes on has read nothing for the entry.
LEMMA PassClean ==
  ASSUME TypeOK, EntryClean, NEW s, Pass(s),
         \/ state \in {"RESET", "VERSION_LPAREN", "VERSION_RPAREN", "URGENCY", "URGLINE"} /\ s = state
         \/ state = "DISTDELIM" /\ s = "URGENCY"
         \/ state = "URGLINE" /\ s = "CHANGES"
  PROVE  EntryClean'
<1>1. state' = s /\ UNCHANGED <<in, cl, scratch>>
  BY DEF Pass, Go
<1> USE <1>1 DEF scratch, slices, EntryClean, AfterSource, AfterVersion, States
<1>2. HeaderClean'
  BY DEF HeaderClean
<1>3. ChangesClean' /\ TrailerClean'
  BY DEF ChangesClean, TrailerClean
<1> QED
  BY <1>2, <1>3

LEMMA HeaderCleanStep ==
  ASSUME TypeOK, EntryPlaced, EntryClean, phase' # "returned",
         Source \/ LParen \/ Version \/ RParen
  PROVE  EntryClean'
<1>1. ~Err /\ ~Abort
  BY DEF Err, Abort, Leave
<1>2. in.text[pos + 1] = Char
  BY DEF Char
<1> USE DEF AfterSource, AfterVersion, States, EntryClean
<1>3. CASE Source
  <2>1. state = "SOURCE"
    BY <1>3 DEF Source, At
  <2>2. CASE Keep("source", source) /\ Go("VERSION_LPAREN", 1)
    <3>1. cl'.source = source /\ cl'.dist = cl.dist /\ cl'.urg = cl.urg
      BY <2>2, FieldFacts DEF TypeOK, Keep
    <3>2. state' = "VERSION_LPAREN" /\ UNCHANGED <<in, scratch>>
      BY <2>2 DEF Keep, Go
    <3>3. HeaderClean'
      BY <2>1, <3>1, <3>2 DEF HeaderClean
    <3> QED
      BY <2>1, <3>2, <3>3 DEF ChangesClean, TrailerClean, scratch
  <2>3. CASE source' = Longer(source) /\ Go("SOURCE", 1) /\ Char \in PkgChars
            /\ UNCHANGED <<in, phase, cl, list, version, dist, urg, maint, endchange, result>>
    <3>1. End(source) = pos /\ source \in Slices
      BY <2>1 DEF EntryPlaced, SourcePlaced, TypeOK
    <3>2. Only(in.text, source, PkgChars)
      BY <2>1 DEF HeaderClean
    <3>3. Only(in.text, Longer(source), PkgChars)
      BY <1>2, <2>3, <3>1, <3>2, OnlyLonger
    <3>4. HeaderClean'
      BY <2>1, <2>3, <3>3 DEF HeaderClean, Go
    <3> QED
      BY <2>1, <2>3, <3>4 DEF ChangesClean, TrailerClean, Go
  <2> QED
    BY <1>1, <1>3, <2>2, <2>3 DEF Source
<1>4. CASE LParen
  <2>1. state = "VERSION_LPAREN"
    BY <1>4 DEF LParen, At
  <2>2. CASE version' = Slice(pos + 1, 0) /\ Go("VERSION", 1)
            /\ UNCHANGED <<in, phase, cl, list, source, dist, urg, maint, endchange, result>>
    <3>1. Only(in.text, Slice(pos + 1, 0), InVersion)
      BY OnlyBegun
    <3>2. HeaderClean'
      BY <2>1, <2>2, <3>1 DEF HeaderClean, Go
    <3> QED
      BY <2>1, <2>2, <3>2 DEF ChangesClean, TrailerClean, Go
  <2> QED
    BY <1>1, <1>4, <2>1, <2>2, PassClean DEF LParen
<1>5. CASE Version
  <2>1. state = "VERSION"
    BY <1>5 DEF Version, At
  <2>2. CASE Keep("version", version) /\ Go("VERSION_RPAREN", 1)
    <3>1. /\ cl'.version = version /\ cl'.source = cl.source
          /\ cl'.dist = cl.dist /\ cl'.urg = cl.urg
      BY <2>2, FieldFacts DEF TypeOK, Keep
    <3>2. state' = "VERSION_RPAREN" /\ UNCHANGED <<in, scratch>>
      BY <2>2 DEF Keep, Go
    <3>3. HeaderClean'
      BY <2>1, <3>1, <3>2 DEF HeaderClean
    <3> QED
      BY <2>1, <3>2, <3>3 DEF ChangesClean, TrailerClean, scratch
  <2>3. CASE version' = Longer(version) /\ Go("VERSION", 1) /\ Char \in InVersion
            /\ UNCHANGED <<in, phase, cl, list, source, dist, urg, maint, endchange, result>>
    <3>1. End(version) = pos /\ version \in Slices
      BY <2>1 DEF EntryPlaced, VersionPlaced, TypeOK
    <3>2. Only(in.text, version, InVersion)
      BY <2>1 DEF HeaderClean
    <3>3. Only(in.text, Longer(version), InVersion)
      BY <1>2, <2>3, <3>1, <3>2, OnlyLonger
    <3>4. HeaderClean'
      BY <2>1, <2>3, <3>3 DEF HeaderClean, Go
    <3> QED
      BY <2>1, <2>3, <3>4 DEF ChangesClean, TrailerClean, Go
  <2> QED
    BY <1>1, <1>5, <2>2, <2>3 DEF Version, InVersion
<1>6. CASE RParen
  <2>1. state = "VERSION_RPAREN"
    BY <1>6 DEF RParen, At
  <2>2. CASE dist' = Slice(pos, 0) /\ Go("DIST", 0)
            /\ UNCHANGED <<in, phase, cl, list, source, version, urg, maint, endchange, result>>
    <3>1. Only(in.text, Slice(pos, 0), InDist)
      BY OnlyEmpty, IntFacts
    <3>2. HeaderClean'
      BY <2>1, <2>2, <3>1 DEF HeaderClean, Go
    <3> QED
      BY <2>1, <2>2, <3>2 DEF ChangesClean, TrailerClean, Go
  <2> QED
    BY <1>6, <2>1, <2>2, PassClean DEF RParen
<1> QED
  BY <1>3, <1>4, <1>5, <1>6

LEMMA TermsCleanStep ==
  ASSUME TypeOK, EntryPlaced, EntryClean, phase' # "returned",
         Dist \/ DistDelim \/ Urgency \/ UrgDelim \/ UrgLine
  PROVE  EntryClean'
<1>1. ~Err
  BY DEF Err, Leave
<1>2. in.text[pos + 1] = Char
  BY DEF Char
<1> USE DEF AfterSource, AfterVersion, States, EntryClean
<1>3. CASE Dist
  <2>1. state = "DIST" /\ endchange = NoPosition
    BY <1>3 DEF Dist, At, EntryPlaced, ChangesPlaced
  <2>2. ASSUME NEW s \in {"DISTDELIM", "CHANGES"}, state' = s,
               cl'.source = cl.source, cl'.version = cl.version, cl'.urg = cl.urg,
               cl'.dist \in {dist, cl.dist}, UNCHANGED <<in, scratch>>
        PROVE  EntryClean'
    <3>1. HeaderClean'
      BY <2>1, <2>2 DEF HeaderClean
    <3> QED
      BY <2>1, <2>2, <3>1 DEF ChangesClean, TrailerClean, scratch
  <2>3. CASE /\ IF dist.len = 0 THEN UNCHANGED <<in, phase, cl, list, scratch, result>>
                               ELSE Keep("dist", dist)
             /\ IF Char = ";" THEN Go("DISTDELIM", 0) ELSE Go("CHANGES", 1)
    <3>1. PICK s \in {"DISTDELIM", "CHANGES"} : state' = s
      BY <2>3 DEF Go
    <3>2. CASE UNCHANGED <<in, phase, cl, list, scratch, result>>
      BY <2>2, <3>1, <3>2
    <3>3. CASE Keep("dist", dist)
      <4>1. /\ cl'.dist = dist /\ cl'.source = cl.source
            /\ cl'.version = cl.version /\ cl'.urg = cl.urg
        BY <3>3, FieldFacts DEF TypeOK, Keep
      <4>2. UNCHANGED <<in, scratch>>
        BY <3>3 DEF Keep
      <4> QED
        BY <2>2, <3>1, <4>1, <4>2
    <3> QED
      BY <2>3, <3>2, <3>3
  <2>4. CASE dist' = Longer(dist) /\ Go("DIST", 1) /\ Char \in InDist
            /\ UNCHANGED <<in, phase, cl, list, source, version, urg, maint, endchange, result>>
    <3>1. End(dist) = pos /\ dist \in Slices
      BY <2>1 DEF EntryPlaced, DistPlaced, TypeOK
    <3>2. Only(in.text, dist, InDist)
      BY <2>1 DEF HeaderClean
    <3>3. Only(in.text, Longer(dist), InDist)
      BY <1>2, <2>4, <3>1, <3>2, OnlyLonger
    <3>4. HeaderClean'
      BY <2>1, <2>4, <3>3 DEF HeaderClean, Go
    <3> QED
      BY <2>1, <2>4, <3>4 DEF ChangesClean, TrailerClean, Go
  <2> QED
    BY <1>1, <1>3, <2>3, <2>4 DEF Dist, InDist
<1>4. CASE DistDelim
  BY <1>4, PassClean DEF DistDelim, At
<1>5. CASE Urgency
  <2>1. state = "URGENCY"
    BY <1>5 DEF Urgency, At
  <2>2. CASE urg' = Slice(pos + 1, 0) /\ Go("URGDELIM", 1)
            /\ UNCHANGED <<in, phase, cl, list, source, version, dist, maint, endchange, result>>
    <3>1. Only(in.text, Slice(pos + 1, 0), InWord)
      BY OnlyBegun
    <3>2. HeaderClean'
      BY <2>1, <2>2, <3>1 DEF HeaderClean, Go
    <3> QED
      BY <2>1, <2>2, <3>2 DEF ChangesClean, TrailerClean, Go
  <2> QED
    BY <1>1, <1>5, <2>1, <2>2, PassClean DEF Urgency
<1>6. CASE UrgDelim
  <2>1. state = "URGDELIM" /\ pos < length
    BY <1>6 DEF UrgDelim, At
  <2>2. CASE Keep("urg", urg) /\ Go("URGLINE", 1)
    <3>1. /\ cl'.urg = urg /\ cl'.source = cl.source
          /\ cl'.version = cl.version /\ cl'.dist = cl.dist
      BY <2>2, FieldFacts DEF TypeOK, Keep
    <3>2. state' = "URGLINE" /\ UNCHANGED <<in, scratch>>
      BY <2>2 DEF Keep, Go
    <3>3. HeaderClean'
      BY <2>1, <3>1, <3>2 DEF HeaderClean
    <3> QED
      BY <2>1, <3>2, <3>3 DEF ChangesClean, TrailerClean, scratch
  <2>3. CASE urg' = Longer(urg) /\ Go("URGDELIM", 1) /\ ~IsSpace(Char)
            /\ UNCHANGED <<in, phase, cl, list, source, version, dist, maint, endchange, result>>
    <3>1. End(urg) = pos /\ urg \in Slices
      BY <2>1 DEF EntryPlaced, UrgPlaced, TypeOK
    <3>2. Only(in.text, urg, InWord) /\ Char \in InWord
      BY <2>1, <2>3, CharFacts DEF HeaderClean, InWord, IsSpace
    <3>3. Only(in.text, Longer(urg), InWord)
      BY <1>2, <3>1, <3>2, OnlyLonger
    <3>4. HeaderClean'
      BY <2>1, <2>3, <3>3 DEF HeaderClean, Go
    <3> QED
      BY <2>1, <2>3, <3>4 DEF ChangesClean, TrailerClean, Go
  <2> QED
    BY <1>1, <1>6, <2>2, <2>3 DEF UrgDelim
<1>7. CASE UrgLine
  BY <1>7, PassClean DEF UrgLine, At
<1> QED
  BY <1>3, <1>4, <1>5, <1>6, <1>7

LEMMA EntryCleanStep ==
  ASSUME TypeOK, EntryPlaced, EntryClean, phase' # "returned",
         Changes \/ Maint \/ DateChar
  PROVE  EntryClean'
<1>1. ~Err
  BY DEF Err, Leave
<1>2. in.text[pos + 1] = Char /\ pos < length /\ Char \in Chars /\ in' = in
  BY <1>1, CharFacts DEF Char, Changes, Maint, DateChar, At, Keep
<1> USE DEF AfterSource, AfterVersion, States, EntryClean
<1>3. CASE Changes
  <2>1. state = "CHANGES" /\ state' \in {"CHANGES", "MAINT"} /\ cl' = cl
    BY <1>3 DEF Changes, At, Go
  <2>2. HeaderClean'
    BY <1>2, <2>1 DEF HeaderClean
  <2>3. ChangesClean'
    BY <1>2, <1>3 DEF ChangesClean, Changes
  <2>4. state' = "MAINT" => maint' = Slice(pos + 5, 0)
    BY <1>3, <2>1 DEF Changes, Go
  <2>5. state' = "MAINT" => MaintBehind' = Slice(pos + 6, 0)
    BY <2>4, IntFacts DEF MaintBehind, Slice
  <2>6. Only(in.text, Slice(pos + 6, 0), InLine)
    BY OnlyBegun
  <2>7. TrailerClean'
    BY <1>2, <2>1, <2>5, <2>6 DEF TrailerClean
  <2> QED
    BY <2>2, <2>3, <2>7
<1>4. CASE Maint
  <2>1. /\ state = "MAINT" /\ Only(in.text, MaintBehind, InLine)
        /\ pos = maint.from + maint.len + 1 /\ maint \in Slices
    BY <1>4 DEF Maint, At, TrailerClean, EntryPlaced, TrailerPlaced, TypeOK
  <2>2. maint.from \in Int /\ maint.len \in Int
    BY <2>1 DEF Slices
  <2>3. Char \in InLine => Only(in.text, Slice(maint.from + 1, maint.len + 1), InLine)
    <3>1. /\ MaintBehind \in Slices /\ End(MaintBehind) = pos
          /\ Longer(MaintBehind) = Slice(maint.from + 1, maint.len + 1)
      <4>1. PICK from \in Int : from = maint.from + 1
        BY <2>2
      <4>2. Longer(Slice(from, maint.len)) = Slice(from, maint.len + 1)
            /\ Slice(from, maint.len) \in Slices /\ End(Slice(from, maint.len)) = from + maint.len
        BY <2>2, LongerSlice
      <4> QED
        BY <2>1, <2>2, <4>1, <4>2 DEF MaintBehind
    <3> QED
      BY <1>2, <2>1, <3>1, OnlyLonger
  <2>4. CASE Keep("maintainer", Slice(maint.from, maint.len + 2)) /\ Go("DATE", 1) /\ Char = ">"
    <3>1. /\ cl'.maintainer = Slice(maint.from, maint.len + 2) /\ cl'.source = cl.source
          /\ cl'.version = cl.version /\ cl'.dist = cl.dist /\ cl'.urg = cl.urg
      BY <2>4, FieldFacts DEF TypeOK, Keep
    <3>2. state' = "DATE" /\ pos' = pos + 1 /\ UNCHANGED scratch
      BY <2>4 DEF Keep, Go
    <3>3. HeaderClean' /\ ChangesClean'
      BY <1>2, <2>1, <3>1, <3>2 DEF HeaderClean, ChangesClean, scratch
    <3>4. End(cl'.maintainer) = pos + 1 /\ Behind(cl'.maintainer) = Slice(maint.from + 1, maint.len + 1)
      BY <2>1, <2>2, <3>1 DEF Behind, Slice, End
    <3>5. Char \in InLine
      BY <2>4 DEF InLine, Chars, NL
    <3>6. DateFrom' = pos + 1 /\ Date' = Slice(pos + 1, 0)
      BY <2>1, <2>2, <3>2 DEF DateFrom, Date, scratch, slices
    <3>7. Only(in.text, Slice(pos + 1, 0), InLine)
      BY OnlyBegun
    <3>8. TrailerClean'
      BY <1>2, <2>3, <2>4, <3>1, <3>2, <3>4, <3>5, <3>6, <3>7 DEF TrailerClean
    <3> QED
      BY <3>3, <3>8
  <2>5. CASE maint' = Longer(maint) /\ Go("MAINT", 1) /\ Char # NL
            /\ UNCHANGED <<in, phase, cl, list, source, version, dist, urg, endchange, result>>
    <3>1. MaintBehind' = Slice(maint.from + 1, maint.len + 1)
      BY <2>1, <2>5, LongerFacts DEF MaintBehind
    <3>2. HeaderClean' /\ ChangesClean'
      BY <2>1, <2>5 DEF HeaderClean, ChangesClean, Go
    <3>3. TrailerClean'
      BY <1>2, <2>3, <2>5, <3>1 DEF TrailerClean, Go, InLine
    <3> QED
      BY <3>2, <3>3
  <2> QED
    BY <1>1, <1>4, <2>4, <2>5 DEF Maint
<1>5. CASE DateChar
  <2>1. /\ state = "DATE" /\ state' = "DATE" /\ pos' = pos + 1 /\ DateFrom <= pos
        /\ UNCHANGED <<in, cl, endchange>>
    BY <1>5 DEF DateChar, At, Go, EntryPlaced, TrailerPlaced
  <2>2. HeaderClean' /\ ChangesClean'
    BY <2>1 DEF HeaderClean, ChangesClean
  <2>3. DateFrom \in Int /\ pos \in Int /\ maint \in Slices
    <3>1. pos \in Int /\ maint \in Slices
      BY IntFacts DEF TypeOK
    <3>2. maint.from \in Int /\ maint.len \in Int
      BY <3>1 DEF Slices
    <3> QED
      BY <3>1, <3>2 DEF DateFrom
  <2>4. CASE IsSpace(Char) /\ DateFrom = pos
    <3>1. DateFrom' = pos + 1
      <4>1. maint' = Longer(maint) /\ maint.from \in Int /\ maint.len \in Int
        BY <1>5, <2>3, <2>4 DEF DateChar, Slices
      <4> QED
        BY <2>3, <2>4, <4>1, LongerFacts DEF DateFrom
    <3>2. Date' = Slice(pos + 1, 0)
      BY <2>1, <2>3, <3>1 DEF Date
    <3>3. Only(in.text, Slice(pos + 1, 0), InLine)
      BY OnlyBegun
    <3>4. TrailerClean'
      BY <2>1, <3>1, <3>2, <3>3 DEF TrailerClean
    <3> QED
      BY <2>2, <3>4
  <2>5. CASE ~(IsSpace(Char) /\ DateFrom = pos)
    <3>1. DateFrom' = DateFrom
      BY <1>5, <2>5 DEF DateChar, DateFrom
    <3>2. Char \in InLine
      BY <1>2, <1>5, <2>5 DEF DateChar, IsSpace, InLine
    <3>3. Date' = Longer(Date) /\ End(Date) = pos /\ Date \in Slices
      <4>1. (pos + 1) - DateFrom = (pos - DateFrom) + 1
        BY <2>3
      <4> QED
        BY <2>1, <2>3, <3>1, <4>1, LongerSlice DEF Date
    <3>4. Only(in.text, Longer(Date), InLine)
      BY <1>2, <2>1, <3>2, <3>3, OnlyLonger DEF TrailerClean
    <3>5. in.text[DateFrom + 1] # SP
      BY <1>2, <2>1, <2>5 DEF TrailerClean, IsSpace
    <3>6. TrailerClean'
      BY <2>1, <3>1, <3>3, <3>4, <3>5 DEF TrailerClean
    <3> QED
      BY <2>2, <3>6
  <2> QED
    BY <2>4, <2>5
<1> QED
  BY <1>3, <1>4, <1>5

\* A turn that begins an entry, or ends one.
LEMMA ResetClean ==
  ASSUME TypeOK, EntryPlaced, EntryClean, phase' # "returned", Reset \/ DateEnds
  PROVE  EntryClean'
<1>1. ~Err
  BY DEF Err, Leave
<1> USE DEF AfterSource, AfterVersion, States, EntryClean
<1>2. CASE Reset
  <2>1. state = "RESET" /\ endchange = NoPosition
    BY <1>2 DEF Reset, At, EntryPlaced, ChangesPlaced
  <2>2. CASE /\ cl' = EmptyEntry /\ source' = Slice(pos, 0) /\ Go("SOURCE", 0)
             /\ UNCHANGED <<in, phase, list, version, dist, urg, maint, endchange, result>>
    <3>1. Only(in.text, Slice(pos, 0), PkgChars)
      BY OnlyEmpty, IntFacts
    <3>2. /\ cl'.dist = NoSlice /\ cl'.urg = NoSlice
          /\ Only(in.text, NoSlice, InDist) /\ Only(in.text, NoSlice, InWord)
      BY <2>2, OnlyEmpty DEF EmptyEntry
    <3>3. HeaderClean'
      BY <2>2, <3>1, <3>2 DEF HeaderClean, Go
    <3> QED
      BY <2>1, <2>2, <3>3 DEF ChangesClean, TrailerClean, Go
  <2> QED
    BY <1>1, <1>2, <2>1, <2>2, PassClean DEF Reset
<1>3. CASE DateEnds
  BY <1>1, <1>3 DEF DateEnds, Go, HeaderClean, ChangesClean, TrailerClean
<1> QED
  BY <1>2, <1>3

\* A slice is the record of its two fields.
LEMMA RecordOfSlice ==
  ASSUME NEW m \in [from : Int, len : Int]
  PROVE  \E a \in Int, b \in Int : m = [from |-> a, len |-> b]
<1>1. m = [from |-> m.from, len |-> m.len] /\ m.from \in Int /\ m.len \in Int
  OBVIOUS
<1> QED
  BY <1>1

\* The entry that ends is clean.
LEMMA CompletedClean ==
  ASSUME TypeOK, EntryPlaced, EntryClean, state = "DATE", DateFrom # pos
  PROVE  Clean([cl EXCEPT !.date = Date, !.text = Text])
<1> DEFINE e == [cl EXCEPT !.date = Date, !.text = Text]
<1>1. /\ e.date = Date /\ e.text = Text /\ e.dist = cl.dist /\ e.urg = cl.urg
      /\ e.maintainer = cl.maintainer /\ e.source = cl.source /\ e.version = cl.version
      /\ cl.maintainer \in Slices
  BY DEF TypeOK, Entries
<1> HIDE DEF e
<1>2. /\ Only(in.text, cl.source, PkgChars) /\ Only(in.text, cl.version, InVersion)
      /\ Only(in.text, cl.dist, InDist) /\ Only(in.text, cl.urg, InWord)
      /\ in.text[End(cl.maintainer)] = ">" /\ Only(in.text, Behind(cl.maintainer), InLine)
      /\ Only(in.text, Date, InLine) /\ in.text[DateFrom + 1] # SP
      /\ endchange # NoPosition /\ in.text[endchange + 1] = NL
  BY DEF EntryClean, HeaderClean, ChangesClean, TrailerClean, AfterSource, AfterVersion, States,
         EntryPlaced, ChangesPlaced
<1>3. \A slice, chars : Only(in.text, slice, chars) => CharsOf(slice) \subseteq chars
  BY DEF Only, CharsOf
<1>4. NL \notin InLine /\ InWord \cap {NL, SP} = {}
  BY DEF InLine, InWord
<1>5. [cl.maintainer EXCEPT !.from = @ + 1, !.len = @ - 1] = Behind(cl.maintainer)
  <2>1. ASSUME NEW m \in Slices PROVE [m EXCEPT !.from = @ + 1, !.len = @ - 1] = Behind(m)
    <3>1. PICK a \in Int, b \in Int : m = [from |-> a, len |-> b]
      BY RecordOfSlice DEF Slices
    <3>2. [m EXCEPT !.from = m.from + 1] = [from |-> a + 1, len |-> b]
      BY <3>1
    <3>3. [[from |-> a + 1, len |-> b] EXCEPT !.len = m.len - 1] = [from |-> a + 1, len |-> b - 1]
      BY <3>1
    <3>4. Behind(m) = [from |-> a + 1, len |-> b - 1]
      BY <3>1 DEF Behind, Slice
    <3> QED
      BY <3>2, <3>3, <3>4
  <2> QED
    BY <1>1, <2>1
<1>6. End(Text) = endchange /\ Date.from = DateFrom
  BY DateFacts
<1>7. CharsOf(e.source) \subseteq PkgChars /\ CharsOf(e.version) \subseteq VerChars \cup {"_"}
      /\ CharsOf(e.dist) \subseteq DistChars \cup {SP} /\ CharsOf(e.urg) \cap {NL, SP} = {}
  <2>1. CharsOf(e.urg) \subseteq InWord
    BY <1>1, <1>2, <1>3
  <2> QED
    BY <1>1, <1>2, <1>3, <1>4, <2>1 DEF InVersion, InDist
<1>8. /\ in.text[End(e.maintainer)] = ">" /\ in.text[End(e.text) + 1] = NL
      /\ in.text[e.date.from + 1] # SP
  BY <1>1, <1>2, <1>6
<1>9. NL \notin CharsOf([e.maintainer EXCEPT !.from = @ + 1, !.len = @ - 1]) /\ NL \notin CharsOf(e.date)
  <2>1. CharsOf(Behind(cl.maintainer)) \subseteq InLine /\ CharsOf(Date) \subseteq InLine
    BY <1>2, <1>3
  <2> QED
    BY <1>1, <1>4, <1>5, <2>1
<1>10. Clean(e)
  BY <1>7, <1>8, <1>9 DEF Clean
<1> QED
  BY <1>10 DEF e

LEMMA CleanStep ==
  ASSUME IInv, CleanInv, [Next]_vars
  PROVE  CleanInv'
<1>1. FieldsClean'
  <2>1. ASSUME in' = in PROVE \A e : Clean(e)' <=> Clean(e)
    BY <2>1 DEF Clean, CharsOf
  <2>2. CASE DateEnds /\ ~Err
    <3>1. /\ phase = "lexing" /\ state = "DATE" /\ DateFrom # pos
          /\ list' = Append(list, [cl EXCEPT !.date = Date, !.text = Text]) /\ in' = in
      BY <2>2 DEF DateEnds, At
    <3>2. PICK e : e = [cl EXCEPT !.date = Date, !.text = Text]
      OBVIOUS
    <3>3. Clean(e)
      BY <3>1, <3>2, CompletedClean DEF IInv, CleanInv
    <3>4. list \in Seq(Entries) /\ e \in Entries
      <4>1. cl \in Entries /\ Date \in Slices /\ Text \in Slices
        BY DateFacts DEF IInv, TypeOK
      <4> QED
        BY <3>2, <4>1 DEF IInv, TypeOK, Entries
    <3>5. /\ DOMAIN list' = 1..Len(list) + 1 /\ DOMAIN list = 1..Len(list) /\ Len(list) \in Nat
          /\ list'[Len(list) + 1] = e /\ \A i \in 1..Len(list) : list'[i] = list[i]
      BY <3>1, <3>2, <3>4
    <3>6. ASSUME NEW i \in DOMAIN list' PROVE Clean(list'[i])
      <4>1. i = Len(list) + 1 \/ i \in 1..Len(list)
        BY <3>5
      <4> QED
        BY <3>3, <3>5, <4>1 DEF CleanInv, FieldsClean
    <3> QED
      BY <2>1, <3>1, <3>6 DEF FieldsClean
  <2>3. CASE UNCHANGED <<in, list>>
    BY <2>1, <2>3 DEF CleanInv, FieldsClean
  <2> QED
    BY <2>2, <2>3, ListSteps
<1>2. ASSUME phase' # "returned" PROVE EntryClean'
  <2>1. phase = "returned" => UNCHANGED vars
    BY <1>2 DEF Next, Call, EndOfText, Reset, Header, Source, LParen, Version, RParen, Dist, DistDelim,
                Urgency, UrgDelim, UrgLine, Changes, Maint, DateEnds, DateChar, Returned, At
  <2>2. TypeOK /\ EntryPlaced /\ EntryClean
    BY <1>2, <2>1 DEF IInv, CleanInv, vars
  <2>3. CASE Call \/ UNCHANGED vars
    <3>1. UNCHANGED <<in, state, pos, cl, scratch>>
      BY <2>3 DEF Call, vars
    <3>2. HeaderClean' /\ ChangesClean'
      BY <2>2, <3>1 DEF EntryClean, HeaderClean, ChangesClean, scratch, slices
    <3>3. TrailerClean'
      BY <2>2, <3>1 DEF EntryClean, TrailerClean, Date, DateFrom, MaintBehind, scratch, slices
    <3> QED
      BY <3>2, <3>3 DEF EntryClean
  <2>4. CASE Reset \/ DateEnds
    BY <1>2, <2>2, <2>4, ResetClean
  <2>5. CASE Source \/ LParen \/ Version \/ RParen
    BY <1>2, <2>2, <2>5, HeaderCleanStep
  <2>6. CASE Dist \/ DistDelim \/ Urgency \/ UrgDelim \/ UrgLine
    BY <1>2, <2>2, <2>6, TermsCleanStep
  <2>7. CASE Changes \/ Maint \/ DateChar
    BY <1>2, <2>2, <2>7, EntryCleanStep
  <2>8. ~EndOfText
    BY <1>2 DEF EndOfText, Leave
  <2> QED
    BY <2>3, <2>4, <2>5, <2>6, <2>7, <2>8 DEF Next, Header, Returned
<1> QED
  BY <1>1, <1>2 DEF CleanInv

\* Whatever the text and the faults, every field of every entry in the list has only the
\* characters it may have: the names and the version those of their kind, the maintainer
\* and the date no newline, and a newline follows the text.
THEOREM FieldsCleanCorrect == Spec => []FieldsClean
<1>1. Init => IInv /\ CleanInv
  <2> SUFFICES ASSUME Init PROVE IInv /\ CleanInv
    OBVIOUS
  <2>1. list = <<>> /\ state = "RESET" /\ endchange = NoPosition
    BY DEF Init
  <2> QED
    BY <2>1, InitPlaced DEF CleanInv, FieldsClean, EntryClean, HeaderClean, ChangesClean, TrailerClean,
                            AfterSource, AfterVersion, States
<1>2. IInv /\ CleanInv /\ [Next]_vars => IInv' /\ CleanInv'
  BY PlacedInv, CleanStep
<1>3. CleanInv => FieldsClean
  BY DEF CleanInv
<1> QED
  BY <1>1, <1>2, <1>3, PTL DEF Spec

-----------------------------------------------------------------------------
(* The places of an entry.                                                  *)

\* A set of naturals that is not empty has a least element.
LEMMA LeastPlace ==
  ASSUME NEW T \in SUBSET Nat, T # {}
  PROVE  \E n \in T : \A k \in T : n <= k
<1> DEFINE Below == {1..n : n \in T}
<1>1. Below \subseteq FiniteSubsetsOf(Nat) /\ Below # {}
  <2>1. \A n \in T : n \in Int /\ 1..n \in SUBSET Nat
    OBVIOUS
  <2>2. \A n \in T : 1..n \in FiniteSubsetsOf(Nat)
    BY <2>1, FS_Interval DEF FiniteSubsetsOf
  <2> QED
    BY <2>2
<1>2. PICK x \in Below : \A y \in Below : <<y, x>> \notin StrictSubsetOrdering(Nat)
  <2> HIDE DEF Below
  <2> QED
    BY <1>1, FS_StrictSubsetOrderingWellFounded, WFMin
<1>3. PICK n \in T : x = 1..n
  OBVIOUS
<1>4. ASSUME NEW k \in T, k < n PROVE FALSE
  <2>1. /\ 1..k \in SUBSET Nat /\ 1..n \in SUBSET Nat /\ 1..k \subseteq 1..n
        /\ n \in 1..n /\ n \notin 1..k
    BY <1>4
  <2>2. <<1..k, 1..n>> \in StrictSubsetOrdering(Nat)
    BY <2>1 DEF StrictSubsetOrdering
  <2> QED
    BY <1>2, <1>3, <2>2
<1> QED
  BY <1>4

\* The first place is one, unless it is behind the end, and none before it is.
LEMMA FirstFacts ==
  ASSUME NEW from \in Nat, NEW n \in Nat, NEW places
  PROVE  LET p == First(from, places, n) IN
           /\ p \in Nat /\ from <= p
           /\ p >= n \/ p \in places
           /\ \A q \in from..p - 1 : q < n /\ q \notin places
<1> DEFINE T == {p \in from..from + n : p >= n \/ p \in places}
<1>1. T \in SUBSET Nat /\ from + n \in T
  OBVIOUS
<1>2. PICK p \in T : \A k \in T : p <= k
  BY <1>1, LeastPlace
<1>3. p \in from..from + n /\ p \in Nat /\ (p >= n \/ p \in places)
  OBVIOUS
<1>4. ASSUME NEW q \in from..p - 1 PROVE q < n /\ q \notin places
  <2>1. q \in from..from + n /\ q \in Nat /\ ~(p <= q)
    BY <1>3
  <2>2. q \notin T
    BY <1>2, <2>1
  <2> QED
    BY <2>1, <2>2
<1> DEFINE R(x) == (x >= n \/ x \in places) /\ \A q \in from..x - 1 : q < n /\ q \notin places
<1>5. R(p)
  BY <1>3, <1>4
<1>6. First(from, places, n) = CHOOSE x \in from..from + n : R(x)
  BY DEF First
<1> HIDE DEF R, T
<1>7. First(from, places, n) \in from..from + n /\ R(First(from, places, n))
  BY <1>3, <1>5, <1>6
<1> QED
  BY <1>7 DEF R

\* Up to the first character of another kind all characters are of these kinds.
LEMMA PastFacts ==
  ASSUME NEW t \in Seq(Chars), NEW from \in Nat, NEW kinds
  PROVE  LET p == Past(t, from, kinds) IN
           /\ p \in Nat /\ from <= p
           /\ p < Len(t) => t[p + 1] \notin kinds
           /\ \A q \in from..p - 1 : q < Len(t) /\ t[q + 1] \in kinds
<1> DEFINE places == {q \in 0..Len(t) - 1 : t[q + 1] \notin kinds}
<1>1. Len(t) \in Nat /\ Past(t, from, kinds) = First(from, places, Len(t))
  BY DEF Past
<1>2. PICK p : p = First(from, places, Len(t))
  OBVIOUS
<1>3. /\ p \in Nat /\ from <= p /\ (p >= Len(t) \/ p \in places)
      /\ \A q \in from..p - 1 : q < Len(t) /\ q \notin places
  <2> HIDE DEF places
  <2> QED
    BY <1>1, <1>2, FirstFacts
<1>4. p < Len(t) => t[p + 1] \notin kinds
  BY <1>1, <1>3
<1>5. ASSUME NEW q \in from..p - 1 PROVE q < Len(t) /\ t[q + 1] \in kinds
  <2>1. q \in Int /\ 0 <= q /\ q < Len(t) /\ q \notin places
    BY <1>3
  <2>2. q \in 0..Len(t) - 1
    BY <1>1, <2>1
  <2> QED
    BY <2>1, <2>2
<1> QED
  BY <1>1, <1>2, <1>3, <1>4, <1>5

\* The places in the text at which the lexer goes from one state to the next when it takes
\* an entry that begins behind "from", each the first of its kind behind the one before.
Lexed(t, from) ==
  LET src == Past(t, from, White)
      srcEnd == Past(t, src, PkgChars)
      paren == Past(t, srcEnd, White)
      verEnd == Past(t, paren + 1, VerChars \cup {"_"})
      distAt == Past(t, verEnd + 1, {SP})
      distEnd == Past(t, distAt, DistChars \cup {SP})
      key == Past(t, distEnd + 1, White)
      urgEnd == Past(t, key + 1, Chars \ White)
      lineEnd == Past(t, urgEnd + 1, Chars \ {NL})
      body == (IF HasUrgency(t, distEnd) THEN lineEnd ELSE distEnd) + 1
      trailer == First(body, Trailers(t), Len(t))
      maintEnd == Past(t, trailer + 6, Chars \ {">", NL})
      date == Past(t, maintEnd + 1, White)
  IN [src |-> src, srcEnd |-> srcEnd, paren |-> paren, verEnd |-> verEnd, distAt |-> distAt,
      distEnd |-> distEnd, key |-> key, urgEnd |-> urgEnd, lineEnd |-> lineEnd, body |-> body,
      textEnd |-> Past(t, body, Chars \ {NL}), trailer |-> trailer, maintEnd |-> maintEnd,
      date |-> date, dateEnd |-> Past(t, date, Chars \ {NL})]

\* At every place stands what the lexer wants there.
Taken(t, p) ==
  /\ Is(t, p.srcEnd, White) /\ Is(t, p.paren, {"("}) /\ Is(t, p.verEnd, {")"})
  /\ Is(t, p.distEnd, {";", NL, ":"})
  /\ HasUrgency(t, p.distEnd) => Is(t, p.key, {"U"}) /\ Is(t, p.urgEnd, White) /\ Is(t, p.lineEnd, {NL})
  /\ p.trailer < Len(t) /\ Is(t, p.maintEnd, {">"}) /\ Is(t, p.dateEnd, {NL})

\* What it makes of them.
TakenEntry(t, p) ==
  [source |-> Between(p.src, p.srcEnd), version |-> Between(p.paren + 1, p.verEnd),
   dist |-> IF p.distAt = p.distEnd THEN NoSlice ELSE Between(p.distAt, p.distEnd),
   urg |-> IF HasUrgency(t, p.distEnd) THEN Between(p.key + 1, p.urgEnd) ELSE NoSlice,
   maintainer |-> Between(p.trailer + 5, p.maintEnd + 1), date |-> Between(p.date, p.dateEnd),
   text |-> Between(p.src, p.textEnd)]

LexedOf(t, entries, i) == Lexed(t, StartOf(entries, i))

TakenEntries(t, entries) ==
  \A i \in DOMAIN entries :
    LET p == LexedOf(t, entries, i) IN Taken(t, p) /\ entries[i] = TakenEntry(t, p)

TakenAll(t, entries) == ~Taken(t, LexedOf(t, entries, Len(entries) + 1))

\* The lexer is nothing but these definitions: they are what the format is compared with.
TakenExact ==
  phase = "returned" => TakenEntries(in.text, list) /\ (in.faults = {} => TakenAll(in.text, list))

\* Each place is found from the one before it.
Chain(t, from, p) ==
  /\ p.src = Past(t, from, White)
  /\ p.srcEnd = Past(t, p.src, PkgChars)
  /\ p.paren = Past(t, p.srcEnd, White)
  /\ p.verEnd = Past(t, p.paren + 1, VerChars \cup {"_"})
  /\ p.distAt = Past(t, p.verEnd + 1, {SP})
  /\ p.distEnd = Past(t, p.distAt, DistChars \cup {SP})
  /\ p.key = Past(t, p.distEnd + 1, White)
  /\ p.urgEnd = Past(t, p.key + 1, Chars \ White)
  /\ p.lineEnd = Past(t, p.urgEnd + 1, Chars \ {NL})
  /\ p.body = (IF HasUrgency(t, p.distEnd) THEN p.lineEnd ELSE p.distEnd) + 1
  /\ p.textEnd = Past(t, p.body, Chars \ {NL})
  /\ p.trailer = First(p.body, Trailers(t), Len(t))
  /\ p.maintEnd = Past(t, p.trailer + 6, Chars \ {">", NL})
  /\ p.date = Past(t, p.maintEnd + 1, White)
  /\ p.dateEnd = Past(t, p.date, Chars \ {NL})

\* So the definition of the places has it.
LEMMA PlaceFacts ==
  ASSUME NEW t, NEW from
  PROVE  Chain(t, from, Lexed(t, from))
  BY DEF Lexed, Chain

\* They lie in this order.
Ordered(p) ==
  /\ p.src \in Nat /\ p.srcEnd \in Nat /\ p.paren \in Nat /\ p.verEnd \in Nat
  /\ p.distAt \in Nat /\ p.distEnd \in Nat /\ p.key \in Nat /\ p.urgEnd \in Nat
  /\ p.lineEnd \in Nat /\ p.body \in Nat /\ p.textEnd \in Nat /\ p.trailer \in Nat
  /\ p.maintEnd \in Nat /\ p.date \in Nat /\ p.dateEnd \in Nat
  /\ p.src <= p.srcEnd /\ p.srcEnd <= p.paren /\ p.paren + 1 <= p.verEnd
  /\ p.verEnd + 1 <= p.distAt /\ p.distAt <= p.distEnd /\ p.distEnd + 1 <= p.key
  /\ p.key + 1 <= p.urgEnd /\ p.urgEnd + 1 <= p.lineEnd /\ p.distEnd < p.body
  /\ p.body <= p.textEnd /\ p.body <= p.trailer /\ p.trailer + 6 <= p.maintEnd
  /\ p.maintEnd + 1 <= p.date /\ p.date <= p.dateEnd

\* None of them lies before the one it is found from.
LEMMA PlaceOrder ==
  ASSUME NEW t \in Seq(Chars), NEW from \in Nat, NEW p, Chain(t, from, p)
  PROVE  Ordered(p) /\ from <= p.src
<1>1. \A q \in Nat : \A kinds : Past(t, q, kinds) \in Nat /\ q <= Past(t, q, kinds)
  BY PastFacts
<1>2. p.src \in Nat /\ from <= p.src
  <2>1. p.src = Past(t, from, White)
    BY DEF Chain
  <2>2. from \in Nat
    OBVIOUS
  <2> QED
    BY <1>1, <2>1, <2>2
<1>3. p.srcEnd \in Nat /\ p.src <= p.srcEnd
  <2>1. p.srcEnd = Past(t, p.src, PkgChars)
    BY DEF Chain
  <2>2. p.src \in Nat
    BY <1>2
  <2> QED
    BY <1>1, <2>1, <2>2
<1>4. p.paren \in Nat /\ p.srcEnd <= p.paren
  <2>1. p.paren = Past(t, p.srcEnd, White)
    BY DEF Chain
  <2>2. p.srcEnd \in Nat
    BY <1>3
  <2> QED
    BY <1>1, <2>1, <2>2
<1>5. p.verEnd \in Nat /\ p.paren + 1 <= p.verEnd
  <2>1. p.verEnd = Past(t, p.paren + 1, VerChars \cup {"_"})
    BY DEF Chain
  <2>2. p.paren + 1 \in Nat
    BY <1>4
  <2> QED
    BY <1>1, <2>1, <2>2
<1>6. p.distAt \in Nat /\ p.verEnd + 1 <= p.distAt
  <2>1. p.distAt = Past(t, p.verEnd + 1, {SP})
    BY DEF Chain
  <2>2. p.verEnd + 1 \in Nat
    BY <1>5
  <2> QED
    BY <1>1, <2>1, <2>2
<1>7. p.distEnd \in Nat /\ p.distAt <= p.distEnd
  <2>1. p.distEnd = Past(t, p.distAt, DistChars \cup {SP})
    BY DEF Chain
  <2>2. p.distAt \in Nat
    BY <1>6
  <2> QED
    BY <1>1, <2>1, <2>2
<1>8. p.key \in Nat /\ p.distEnd + 1 <= p.key
  <2>1. p.key = Past(t, p.distEnd + 1, White)
    BY DEF Chain
  <2>2. p.distEnd + 1 \in Nat
    BY <1>7
  <2> QED
    BY <1>1, <2>1, <2>2
<1>9. p.urgEnd \in Nat /\ p.key + 1 <= p.urgEnd
  <2>1. p.urgEnd = Past(t, p.key + 1, Chars \ White)
    BY DEF Chain
  <2>2. p.key + 1 \in Nat
    BY <1>8
  <2> QED
    BY <1>1, <2>1, <2>2
<1>10. p.lineEnd \in Nat /\ p.urgEnd + 1 <= p.lineEnd
  <2>1. p.lineEnd = Past(t, p.urgEnd + 1, Chars \ {NL})
    BY DEF Chain
  <2>2. p.urgEnd + 1 \in Nat
    BY <1>9
  <2> QED
    BY <1>1, <2>1, <2>2
<1>11. p.body \in Nat /\ p.distEnd < p.body
  <2>1. p.body = p.lineEnd + 1 \/ p.body = p.distEnd + 1
    BY DEF Chain
  <2>2. \A a, b, c, d \in Nat : a + 1 <= b /\ b + 1 <= c /\ c + 1 <= d => a < d + 1
    OBVIOUS
  <2>3. p.distEnd < p.lineEnd + 1
    BY <1>7, <1>8, <1>9, <1>10, <2>2
  <2> QED
    BY <1>7, <1>10, <2>1, <2>3
<1>12. p.textEnd \in Nat /\ p.body <= p.textEnd
  <2>1. p.textEnd = Past(t, p.body, Chars \ {NL})
    BY DEF Chain
  <2>2. p.body \in Nat
    BY <1>11
  <2> QED
    BY <1>1, <2>1, <2>2
<1>13. p.trailer \in Nat /\ p.body <= p.trailer
  <2>1. p.trailer = First(p.body, Trailers(t), Len(t))
    BY DEF Chain
  <2>2. Len(t) \in Nat
    OBVIOUS
  <2> QED
    BY <1>11, <2>1, <2>2, FirstFacts
<1>14. p.maintEnd \in Nat /\ p.trailer + 6 <= p.maintEnd
  <2>1. p.maintEnd = Past(t, p.trailer + 6, Chars \ {">", NL})
    BY DEF Chain
  <2>2. p.trailer + 6 \in Nat
    BY <1>13
  <2> QED
    BY <1>1, <2>1, <2>2
<1>15. p.date \in Nat /\ p.maintEnd + 1 <= p.date
  <2>1. p.date = Past(t, p.maintEnd + 1, White)
    BY DEF Chain
  <2>2. p.maintEnd + 1 \in Nat
    BY <1>14
  <2> QED
    BY <1>1, <2>1, <2>2
<1>16. p.dateEnd \in Nat /\ p.date <= p.dateEnd
  <2>1. p.dateEnd = Past(t, p.date, Chars \ {NL})
    BY DEF Chain
  <2>2. p.date \in Nat
    BY <1>15
  <2> QED
    BY <1>1, <2>1, <2>2
<1> QED
  BY <1>2, <1>3, <1>4, <1>5, <1>6, <1>7, <1>8, <1>9, <1>10, <1>11, <1>12, <1>13, <1>14, <1>15,
     <1>16 DEF Ordered

-----------------------------------------------------------------------------
(* What the lexer has read.                                                 *)

\* The places of the entry that is being read, and where the search for it began.
Here == LexedOf(in.text, list, Len(list) + 1)
Begin == IF list = <<>> THEN 0 ELSE End(list[Len(list)].date) + 1

\* The position is on its way between two places.
OnWay(from, to) == from <= pos /\ pos <= to

\* Up to the version: where the position and the slices are.
HeaderRead(p) ==
  /\ state = "RESET" => OnWay(Begin, p.src)
  /\ state = "SOURCE" => OnWay(p.src, p.srcEnd) /\ source = Between(p.src, pos)
  /\ state \in AfterSource => Is(in.text, p.srcEnd, White) /\ source = Between(p.src, p.srcEnd)
  /\ state = "VERSION_LPAREN" => OnWay(p.srcEnd + 1, p.paren)
  /\ state = "VERSION" => OnWay(p.paren + 1, p.verEnd) /\ version = Between(p.paren + 1, pos)
  /\ state \in AfterSource \ {"VERSION_LPAREN"} => Is(in.text, p.paren, {"("})
  /\ state \in AfterVersion =>
       Is(in.text, p.verEnd, {")"}) /\ version = Between(p.paren + 1, p.verEnd)

\* Distributions and urgency.
TermsRead(p) ==
  /\ state = "VERSION_RPAREN" => OnWay(p.verEnd + 1, p.distAt)
  /\ state = "DIST" => OnWay(p.distAt, p.distEnd) /\ dist = Between(p.distAt, pos)
  /\ state \in AfterDist =>
       /\ Is(in.text, p.distEnd, {";", NL, ":"})
       /\ cl.dist = IF p.distAt = p.distEnd THEN NoSlice ELSE Between(p.distAt, p.distEnd)
  /\ state \in {"DISTDELIM", "URGENCY", "URGDELIM", "URGLINE"} => HasUrgency(in.text, p.distEnd)
  /\ state = "DISTDELIM" => pos = p.distEnd
  /\ state = "URGENCY" => OnWay(p.distEnd + 1, p.key)
  /\ state = "URGDELIM" => OnWay(p.key + 1, p.urgEnd) /\ urg = Between(p.key + 1, pos)
  /\ state = "URGLINE" => OnWay(p.urgEnd + 1, p.lineEnd)
  /\ state \in AfterUrg \cup {"URGDELIM"} /\ HasUrgency(in.text, p.distEnd) =>
       Is(in.text, p.key, {"U"})
  /\ state \in AfterUrg =>
       /\ HasUrgency(in.text, p.distEnd) => Is(in.text, p.urgEnd, White)
       /\ cl.urg = IF HasUrgency(in.text, p.distEnd) THEN Between(p.key + 1, p.urgEnd) ELSE NoSlice

\* Changes and trailer.
ChangesRead(p) ==
  /\ state \in {"CHANGES", "MAINT", "DATE"} /\ HasUrgency(in.text, p.distEnd) =>
       Is(in.text, p.lineEnd, {NL})
  /\ state = "CHANGES" =>
       /\ OnWay(p.body, p.trailer)
       /\ endchange = NoPosition => pos <= p.textEnd
       /\ endchange # NoPosition => endchange = p.textEnd
  /\ state \in {"MAINT", "DATE"} => p.trailer < length /\ endchange = p.textEnd
  /\ state = "MAINT" =>
       OnWay(p.trailer + 6, p.maintEnd) /\ maint = Slice(p.trailer + 5, pos - (p.trailer + 6))
  /\ state = "DATE" =>
       /\ Is(in.text, p.maintEnd, {">"})
       /\ cl.maintainer = Between(p.trailer + 5, p.maintEnd + 1)
       /\ \/ OnWay(p.maintEnd + 1, p.date) /\ DateFrom = pos
          \/ OnWay(p.date + 1, p.dateEnd) /\ DateFrom = p.date

\* The lexer is where the text says.
ReadAs(p) == HeaderRead(p) /\ TermsRead(p) /\ ChangesRead(p)
Reading == Begin \in Nat /\ ReadAs(Here)

\* Each entry is looked for at a place of the text.
Starts == \A i \in 1..Len(list) + 1 : StartOf(list, i) \in Nat

\* What is on the list is the text's, what is being read is the next, and at the end there
\* is no next.
ExactInv ==
  /\ Starts
  /\ TakenEntries(in.text, list)
  /\ phase # "returned" => Reading
  /\ phase = "returned" /\ in.faults = {} => TakenAll(in.text, list)

\* The places of the entry that is being read are a chain, in order, behind its beginning.
LEMMA HereFacts ==
  ASSUME TypeOK, Begin \in Nat
  PROVE  Chain(in.text, Begin, Here) /\ Ordered(Here) /\ Begin <= Here.src
<1>1. list \in Seq(Entries) /\ in.text \in Seq(Chars)
  BY InputFacts DEF TypeOK
<1>2. Len(list) \in Nat /\ (list = <<>> <=> Len(list) + 1 = 1) /\ Len(list) + 1 - 1 = Len(list)
  BY <1>1
<1>3. Here = Lexed(in.text, Begin)
  BY <1>2 DEF Here, LexedOf, StartOf, Begin
<1>4. Chain(in.text, Begin, Here)
  BY <1>3, PlaceFacts
<1> QED
  BY <1>1, <1>4, PlaceOrder

\* On its way to a place the position stays on it as long as the characters allow, and
\* is there when they do not.
LEMMA Turn ==
  ASSUME TypeOK, pos < length, NEW from \in Nat, NEW kinds, OnWay(from, Past(in.text, from, kinds))
  PROVE  /\ Char \in kinds => pos + 1 <= Past(in.text, from, kinds)
         /\ Char \notin kinds => pos = Past(in.text, from, kinds)
<1>1. in.text \in Seq(Chars) /\ pos \in Nat /\ length = Len(in.text)
  BY InputFacts DEF TypeOK, length
<1>2. PICK to : to = Past(in.text, from, kinds)
  OBVIOUS
<1>3. /\ to \in Nat /\ (to < length => in.text[to + 1] \notin kinds)
      /\ \A q \in from..to - 1 : in.text[q + 1] \in kinds
  BY <1>1, <1>2, PastFacts
<1>4. from <= pos /\ pos <= to
  BY <1>2 DEF OnWay
<1>5. CASE pos = to
  BY <1>2, <1>3, <1>5 DEF Char
<1>6. CASE pos # to
  <2>1. pos \in from..to - 1
    BY <1>1, <1>3, <1>4, <1>6
  <2>2. Char \in kinds
    BY <1>3, <2>1 DEF Char
  <2> QED
    BY <1>1, <1>2, <1>3, <1>4, <1>6, <2>2
<1> QED
  BY <1>5, <1>6

\* The slice between two positions when it begins, and when it grows.
LEMMA BetweenFacts ==
  \A a, b \in Int : Between(a, a) = Slice(a, 0) /\ Longer(Between(a, b)) = Between(a, b + 1)
  BY DEF Between, Slice, Longer

\* A step on the way, and the slice up to the position.
LEMMA OneFurther ==
  ASSUME TypeOK, NEW from \in Int, NEW to \in Int, OnWay(from, to), pos + 1 <= to, pos' = pos + 1
  PROVE  OnWay(from, to)' /\ Longer(Between(from, pos)) = Between(from, pos')
  BY IntFacts, BetweenFacts DEF OnWay

\* The lexer goes on from here.
LEMMA Lexing ==
  ASSUME TypeOK, phase' # "returned"
  PROVE  /\ ~Err /\ ~Abort /\ ~EndOfText
         /\ in.text \in Seq(Chars) /\ length = Len(in.text) /\ pos \in Nat
         /\ pos < length => Char \in Chars
  BY InputFacts DEF Err, Abort, EndOfText, Leave, TypeOK, length, Char

\* All that is known before a step: the same for each of the lemmas that follow.
ReadAssumptions(p) ==
  TypeOK /\ EntryPlaced /\ Begin \in Nat /\ Chain(in.text, Begin, p) /\ Ordered(p) /\ ReadAs(p)

\* One lemma for each case of the loop: the position goes on to the next place, and when it
\* leaves one behind, the character there is the one that belongs there.  White space first.
LEMMA ReadReset ==
  ASSUME NEW p, ReadAssumptions(p), Reset, phase' # "returned"
  PROVE  ReadAs(p)'
<1> USE DEF ReadAssumptions
<1>1. phase = "lexing" /\ state = "RESET" /\ pos < length /\ ~Err
  BY Lexing DEF Reset, At
<1>2. OnWay(Begin, p.src) /\ p.src = Past(in.text, Begin, White)
  BY <1>1 DEF ReadAs, HeaderRead, Chain
<1>3. (Char \in White => pos + 1 <= p.src) /\ (Char \notin White => pos = p.src)
  BY <1>1, <1>2, Turn
<1>4. CASE IsSpace(Char) /\ Pass("RESET")
  <2>1. state' = "RESET" /\ pos' = pos + 1 /\ Begin' = Begin
    BY <1>4 DEF Pass, Go, Begin
  <2>2. OnWay(Begin, p.src)'
    BY <1>2, <1>3, <1>4, <2>1, IntFacts DEF OnWay, IsSpace, White
  <2> QED
    BY <2>1, <2>2 DEF ReadAs, HeaderRead, TermsRead, ChangesRead, AfterSource, AfterVersion,
                      AfterDist, AfterUrg, States
<1>5. CASE ~IsSpace(Char) /\ source' = Slice(pos, 0) /\ Go("SOURCE", 0)
  <2>1. pos = p.src /\ state' = "SOURCE" /\ pos' = pos
    BY <1>3, <1>5, IntFacts DEF IsSpace, White, Go
  <2>2. OnWay(p.src, p.srcEnd)'
    BY <2>1 DEF OnWay, Ordered
  <2>3. source' = Between(p.src, pos)'
    BY <1>5, <2>1, BetweenFacts, IntFacts
  <2> QED
    BY <2>1, <2>2, <2>3 DEF ReadAs, HeaderRead, TermsRead, ChangesRead, AfterSource, AfterVersion,
                            AfterDist, AfterUrg, States
<1> QED
  BY <1>1, <1>4, <1>5 DEF Reset

\* The name, and the white space that ends it.
LEMMA ReadSource ==
  ASSUME NEW p, ReadAssumptions(p), Source, phase' # "returned"
  PROVE  ReadAs(p)'
<1> USE DEF ReadAssumptions
<1>1. phase = "lexing" /\ state = "SOURCE" /\ pos < length /\ ~Err /\ ~Abort
  BY Lexing DEF Source, At
<1>2. /\ OnWay(p.src, p.srcEnd) /\ source = Between(p.src, pos)
      /\ p.srcEnd = Past(in.text, p.src, PkgChars) /\ p.src \in Nat /\ p.srcEnd \in Nat
  BY <1>1 DEF ReadAs, HeaderRead, Chain, Ordered
<1>3. (Char \in PkgChars => pos + 1 <= p.srcEnd) /\ (Char \notin PkgChars => pos = p.srcEnd)
  BY <1>1, <1>2, Turn
<1>4. CASE IsSpace(Char) /\ Keep("source", source) /\ Go("VERSION_LPAREN", 1)
  <2>1. pos = p.srcEnd /\ state' = "VERSION_LPAREN" /\ pos' = p.srcEnd + 1 /\ source' = source /\ in' = in
    BY <1>3, <1>4 DEF IsSpace, PkgChars, NL, SP, Go, Keep, scratch, slices
  <2>2. Is(in.text, p.srcEnd, White)'
    BY <1>1, <1>4, <2>1 DEF Is, White, IsSpace, Char, length
  <2>3. p.paren = Past(in.text, p.srcEnd, White) /\ p.srcEnd <= p.paren
    BY DEF Chain, Ordered
  <2>4. pos + 1 <= p.paren
    <3>1. OnWay(p.srcEnd, p.paren)
      BY <1>2, <2>1, <2>3 DEF OnWay
    <3>2. Char \in White
      BY <1>4 DEF IsSpace, White
    <3> QED
      BY <1>1, <1>2, <2>3, <3>1, <3>2, Turn
  <2>5. OnWay(p.srcEnd + 1, p.paren)'
    BY <1>2, <2>1, <2>4, IntFacts DEF OnWay
  <2>6. source' = Between(p.src, p.srcEnd)
    BY <1>2, <2>1
  <2> QED
    BY <2>1, <2>2, <2>5, <2>6 DEF ReadAs, HeaderRead, TermsRead, ChangesRead, AfterSource,
       AfterVersion, AfterDist, AfterUrg, States
<1>5. CASE Char \in PkgChars /\ source' = Longer(source) /\ Go("SOURCE", 1)
  <2>1. state' = "SOURCE" /\ pos' = pos + 1
    BY <1>5 DEF Go
  <2>2. OnWay(p.src, p.srcEnd)'
    BY <1>2, <1>3, <1>5, <2>1, IntFacts DEF OnWay
  <2>3. source' = Between(p.src, pos)'
    BY <1>2, <1>5, <2>1, BetweenFacts, IntFacts
  <2> QED
    BY <2>1, <2>2, <2>3 DEF ReadAs, HeaderRead, TermsRead, ChangesRead, AfterSource, AfterVersion,
                            AfterDist, AfterUrg, States
<1> QED
  BY <1>1, <1>4, <1>5 DEF Source

\* White space, and the parenthesis that ends it.
LEMMA ReadLParen ==
  ASSUME NEW p, ReadAssumptions(p), LParen, phase' # "returned"
  PROVE  ReadAs(p)'
<1> USE DEF ReadAssumptions
<1>1. phase = "lexing" /\ state = "VERSION_LPAREN" /\ pos < length /\ ~Abort
  BY Lexing DEF LParen, At
<1>2. /\ OnWay(p.srcEnd + 1, p.paren) /\ source = Between(p.src, p.srcEnd)
      /\ Is(in.text, p.srcEnd, White)
      /\ p.paren = Past(in.text, p.srcEnd, White) /\ p.srcEnd \in Nat /\ p.paren \in Nat
  BY <1>1 DEF ReadAs, HeaderRead, Chain, Ordered, AfterSource, States
<1>3. (Char \in White => pos + 1 <= p.paren) /\ (Char \notin White => pos = p.paren)
  <2>1. OnWay(p.srcEnd, p.paren)
    BY <1>2, IntFacts DEF OnWay
  <2> QED
    BY <1>1, <1>2, <2>1, Turn
<1>4. CASE IsSpace(Char) /\ Pass("VERSION_LPAREN")
  <2>1. /\ state' = "VERSION_LPAREN" /\ pos' = pos + 1 /\ source' = source /\ in' = in
    BY <1>4 DEF Pass, Go, scratch, slices
  <2>2. OnWay(p.srcEnd + 1, p.paren)'
    BY <1>2, <1>3, <1>4, <2>1, IntFacts DEF OnWay, IsSpace, White
  <2> QED
    BY <1>2, <2>1, <2>2 DEF ReadAs, HeaderRead, TermsRead, ChangesRead, AfterSource,
       AfterVersion, AfterDist, AfterUrg, States
<1>5. CASE Char = "(" /\ version' = Slice(pos + 1, 0) /\ Go("VERSION", 1) /\ UNCHANGED <<in, source>>
  <2>1. pos = p.paren /\ state' = "VERSION" /\ pos' = p.paren + 1
    BY <1>3, <1>5 DEF White, NL, SP, Go
  <2>2. OnWay(p.paren + 1, p.verEnd)'
    BY <1>2, <2>1 DEF OnWay, Ordered
  <2>3. version' = Between(p.paren + 1, pos)'
    BY <1>2, <1>5, <2>1, BetweenFacts
  <2>4. Is(in.text, p.paren, {"("})'
    BY <1>1, <1>5, <2>1 DEF Is, Char, length
  <2> QED
    BY <1>2, <1>5, <2>1, <2>2, <2>3, <2>4 DEF ReadAs, HeaderRead, TermsRead, ChangesRead, AfterSource,
       AfterVersion, AfterDist, AfterUrg, States
<1> QED
  BY <1>1, <1>4, <1>5 DEF LParen

\* The version, and the parenthesis that ends it.
LEMMA ReadVersion ==
  ASSUME NEW p, ReadAssumptions(p), Version, phase' # "returned"
  PROVE  ReadAs(p)'
<1> USE DEF ReadAssumptions
<1>1. phase = "lexing" /\ state = "VERSION" /\ pos < length /\ ~Err
  BY Lexing DEF Version, At
<1>2. /\ OnWay(p.paren + 1, p.verEnd) /\ source = Between(p.src, p.srcEnd)
      /\ Is(in.text, p.srcEnd, White) /\ Is(in.text, p.paren, {"("})
      /\ version = Between(p.paren + 1, pos)
      /\ p.verEnd = Past(in.text, p.paren + 1, VerChars \cup {"_"})
  BY <1>1 DEF ReadAs, HeaderRead, Chain, AfterSource, States
<1>3. p.paren + 1 \in Nat /\ p.verEnd \in Nat /\ p.verEnd + 1 <= p.distAt
  BY DEF Ordered
<1>4. /\ Char \in VerChars \cup {"_"} => pos + 1 <= p.verEnd
      /\ Char \notin VerChars \cup {"_"} => pos = p.verEnd
  BY <1>1, <1>2, <1>3, Turn
<1>5. CASE Char = ")" /\ Keep("version", version) /\ Go("VERSION_RPAREN", 1)
  <2>1. /\ pos = p.verEnd /\ state' = "VERSION_RPAREN" /\ pos' = p.verEnd + 1
        /\ source' = source /\ version' = version /\ in' = in
    BY <1>4, <1>5 DEF VerChars, Go, Keep, scratch, slices
  <2>2. Is(in.text, p.verEnd, {")"})'
    BY <1>1, <1>5, <2>1 DEF Is, Char, length
  <2>3. OnWay(p.verEnd + 1, p.distAt)'
    BY <1>3, <2>1 DEF OnWay
  <2> QED
    BY <1>2, <2>1, <2>2, <2>3 DEF ReadAs, HeaderRead, TermsRead, ChangesRead, AfterSource,
       AfterVersion, AfterDist, AfterUrg, States
<1>6. CASE /\ Char \in VerChars \cup {"_"} /\ version' = Longer(version) /\ Go("VERSION", 1)
           /\ UNCHANGED <<in, source>>
  <2>1. state' = "VERSION" /\ pos' = pos + 1
    BY <1>6 DEF Go
  <2>2. pos + 1 <= p.verEnd
    BY <1>4, <1>6
  <2>3. PICK from \in Int : from = p.paren + 1
    BY <1>3
  <2>4. OnWay(from, p.verEnd) /\ version = Between(from, pos)
    BY <1>2, <2>3
  <2>5. p.verEnd \in Int
    BY <1>3
  <2>6. OnWay(from, p.verEnd)' /\ Longer(version) = Between(from, pos')
    BY <2>1, <2>2, <2>4, <2>5, OneFurther
  <2> QED
    BY <1>2, <1>6, <2>1, <2>3, <2>6 DEF ReadAs, HeaderRead, TermsRead, ChangesRead, AfterSource,
       AfterVersion, AfterDist, AfterUrg, States
<1> QED
  BY <1>1, <1>5, <1>6 DEF Version

\* Blanks before the distributions.
LEMMA ReadRParen ==
  ASSUME NEW p, ReadAssumptions(p), RParen
  PROVE  ReadAs(p)'
<1> USE DEF ReadAssumptions
<1>1. phase = "lexing" /\ state = "VERSION_RPAREN" /\ pos < length
  BY DEF RParen, At
<1>2. /\ OnWay(p.verEnd + 1, p.distAt) /\ HeaderRead(p)
      /\ p.distAt = Past(in.text, p.verEnd + 1, {SP})
  BY <1>1 DEF ReadAs, TermsRead, Chain
<1>3. p.verEnd + 1 \in Nat /\ p.distAt \in Nat
  BY DEF Ordered
<1>4. (Char = SP => pos + 1 <= p.distAt) /\ (Char # SP => pos = p.distAt)
  BY <1>1, <1>2, <1>3, Turn
<1>5. CASE Char = SP /\ Pass("VERSION_RPAREN")
  <2>1. state' = "VERSION_RPAREN" /\ pos' = pos + 1 /\ UNCHANGED <<in, source, version>>
    BY <1>5 DEF Pass, Go, scratch, slices
  <2>2. OnWay(p.verEnd + 1, p.distAt)'
    BY <1>2, <1>3, <1>4, <1>5, <2>1, IntFacts DEF OnWay
  <2> QED
    BY <1>1, <1>2, <2>1, <2>2 DEF ReadAs, HeaderRead, TermsRead, ChangesRead, AfterSource,
       AfterVersion, AfterDist, AfterUrg, States
<1>6. CASE Char # SP /\ dist' = Slice(pos, 0) /\ Go("DIST", 0) /\ UNCHANGED <<in, source, version>>
  <2>1. pos = p.distAt /\ state' = "DIST" /\ pos' = pos
    BY <1>4, <1>6, IntFacts DEF Go
  <2>2. OnWay(p.distAt, p.distEnd)'
    BY <2>1 DEF OnWay, Ordered
  <2>3. dist' = Between(p.distAt, pos)'
    BY <1>3, <1>6, <2>1, BetweenFacts
  <2> QED
    BY <1>1, <1>2, <1>6, <2>1, <2>2, <2>3 DEF ReadAs, HeaderRead, TermsRead, ChangesRead, AfterSource,
       AfterVersion, AfterDist, AfterUrg, States
<1> QED
  BY <1>5, <1>6 DEF RParen

\* No urgency unless the distributions end with a semicolon.
LEMMA UrgencyFacts ==
  ASSUME NEW p, ReadAssumptions(p), pos < length, pos = p.distEnd
  PROVE  HasUrgency(in.text, p.distEnd) <=> Char = ";"
  BY DEF HasUrgency, Char, length

\* The header has ended: nothing of the changes is read yet.
LEMMA ChangesBegin ==
  ASSUME NEW p, ReadAssumptions(p), state' = "CHANGES", pos' = p.body, in' = in,
         endchange' = NoPosition, HasUrgency(in.text, p.distEnd) => Is(in.text, p.lineEnd, {NL})
  PROVE  ChangesRead(p)'
<1>1. OnWay(p.body, p.trailer)' /\ pos' <= p.textEnd
  BY DEF ReadAssumptions, Ordered, OnWay
<1> QED
  BY <1>1 DEF ChangesRead, Is

\* The distributions, and the semicolon or the newline that ends them.
LEMMA ReadDist ==
  ASSUME NEW p, ReadAssumptions(p), Dist, phase' # "returned"
  PROVE  ReadAs(p)'
<1> USE DEF ReadAssumptions
<1>1. phase = "lexing" /\ state = "DIST" /\ pos < length /\ ~Err
  BY Lexing DEF Dist, At
<1>2. /\ OnWay(p.distAt, p.distEnd) /\ dist = Between(p.distAt, pos)
      /\ p.distEnd = Past(in.text, p.distAt, DistChars \cup {SP}) /\ HeaderRead(p)
  BY <1>1 DEF ReadAs, TermsRead, Chain
<1>3. p.distAt \in Nat /\ p.distEnd \in Nat /\ p.distAt \in Int /\ p.distEnd \in Int
  BY DEF Ordered
<1>4. /\ Char \in {SP} \cup DistChars => pos + 1 <= p.distEnd
      /\ Char \notin {SP} \cup DistChars => pos = p.distEnd
  <2>1. {SP} \cup DistChars = DistChars \cup {SP}
    OBVIOUS
  <2> QED
    BY <1>1, <1>2, <1>3, <2>1, Turn
<1>5. cl.dist = NoSlice /\ cl.urg = NoSlice /\ endchange = NoPosition /\ cl \in Entries
  BY <1>1 DEF EntryPlaced, DistPlaced, UrgPlaced, ChangesPlaced, AfterDist, AfterUrg, TypeOK
<1>6. CASE /\ Char \in {";", NL, ":"}
           /\ IF dist.len = 0 THEN UNCHANGED <<in, phase, cl, list, scratch, result>>
                              ELSE Keep("dist", dist)
           /\ IF Char = ";" THEN Go("DISTDELIM", 0) ELSE Go("CHANGES", 1)
  <2>1. pos = p.distEnd
    BY <1>4, <1>6 DEF DistChars, NL, SP
  <2>2. Is(in.text, p.distEnd, {";", NL, ":"})
    BY <1>1, <1>6, <2>1 DEF Is, Char, length
  <2>3. UNCHANGED <<in, source, version, dist, urg, endchange>>
    BY <1>6 DEF Keep, scratch, slices
  <2>4. cl'.urg = NoSlice /\ cl'.dist = IF dist.len = 0 THEN NoSlice ELSE dist
    <3>1. cl' = IF dist.len = 0 THEN cl ELSE [cl EXCEPT !["dist"] = dist]
      BY <1>6 DEF Keep
    <3>2. LET f == [cl EXCEPT !["dist"] = dist] IN f.dist = dist /\ f.urg = cl.urg
      BY <1>5, FieldFacts
    <3> QED
      BY <1>5, <3>1, <3>2
  <2>5. dist = Between(p.distAt, p.distEnd) /\ (dist.len = 0 <=> p.distAt = p.distEnd)
    BY <1>2, <1>3, <2>1 DEF Between, Slice
  <2>6. cl'.dist = IF p.distAt = p.distEnd THEN NoSlice ELSE Between(p.distAt, p.distEnd)
    BY <2>4, <2>5
  <2>7. HasUrgency(in.text, p.distEnd) <=> Char = ";"
    BY <1>1, <2>1, UrgencyFacts
  <2>8. CASE Char = ";"
    <3>1. state' = "DISTDELIM" /\ pos' = p.distEnd
      <4>1. Go("DISTDELIM", 0)
        BY <1>6, <2>8
      <4> QED
        BY <1>3, <2>1, <4>1 DEF Go
    <3>2. HeaderRead(p)'
      BY <1>1, <1>2, <2>3, <3>1 DEF HeaderRead, AfterSource, AfterVersion, States
    <3>3. TermsRead(p)' /\ ChangesRead(p)'
      BY <2>2, <2>3, <2>6, <2>7, <2>8, <3>1 DEF TermsRead, ChangesRead, AfterDist, AfterUrg, Is, HasUrgency
    <3> QED
      BY <3>2, <3>3 DEF ReadAs
  <2>9. CASE Char # ";"
    <3>1. state' = "CHANGES" /\ pos' = p.distEnd + 1
      BY <1>6, <2>1, <2>9 DEF Go
    <3>2. HeaderRead(p)'
      BY <1>1, <1>2, <2>3, <3>1 DEF HeaderRead, AfterSource, AfterVersion, States
    <3>3. TermsRead(p)'
      BY <2>2, <2>3, <2>4, <2>6, <2>7, <2>9, <3>1 DEF TermsRead, AfterDist, AfterUrg, Is, HasUrgency
    <3>4. p.body = p.distEnd + 1
      BY <2>7, <2>9 DEF Chain
    <3>5. ChangesRead(p)'
      BY <1>5, <2>3, <2>7, <2>9, <3>1, <3>4, ChangesBegin
    <3> QED
      BY <3>2, <3>3, <3>5 DEF ReadAs
  <2> QED
    BY <2>8, <2>9
<1>7. CASE /\ Char \in {SP} \cup DistChars /\ dist' = Longer(dist) /\ Go("DIST", 1)
           /\ UNCHANGED <<in, source, version>>
  <2>1. state' = "DIST" /\ pos' = pos + 1
    BY <1>7 DEF Go
  <2>2. OnWay(p.distAt, p.distEnd)' /\ Longer(dist) = Between(p.distAt, pos')
    BY <1>2, <1>3, <1>4, <1>7, <2>1, OneFurther
  <2> QED
    BY <1>1, <1>2, <1>7, <2>1, <2>2 DEF ReadAs, HeaderRead, TermsRead, ChangesRead, AfterSource,
       AfterVersion, AfterDist, AfterUrg, States
<1> QED
  BY <1>1, <1>6, <1>7 DEF Dist

\* The semicolon.
LEMMA ReadDistDelim ==
  ASSUME NEW p, ReadAssumptions(p), DistDelim
  PROVE  ReadAs(p)'
<1> USE DEF ReadAssumptions
<1>1. state = "DISTDELIM" /\ state' = "URGENCY" /\ pos' = pos + 1 /\ UNCHANGED <<in, cl, source, version>>
  BY DEF DistDelim, At, Pass, Go, scratch, slices
<1>2. pos = p.distEnd
  BY <1>1 DEF ReadAs, TermsRead
<1>3. OnWay(p.distEnd + 1, p.key)'
  BY <1>1, <1>2 DEF OnWay, Ordered
<1> QED
  BY <1>1, <1>3 DEF ReadAs, HeaderRead, TermsRead, ChangesRead, AfterSource, AfterVersion, AfterDist,
                    AfterUrg, States, Is, HasUrgency

\* White space, and the keyword.
LEMMA ReadUrgency ==
  ASSUME NEW p, ReadAssumptions(p), Urgency, phase' # "returned"
  PROVE  ReadAs(p)'
<1> USE DEF ReadAssumptions
<1>1. phase = "lexing" /\ state = "URGENCY" /\ pos < length /\ ~Err
  BY Lexing DEF Urgency, At
<1>2. OnWay(p.distEnd + 1, p.key) /\ p.key = Past(in.text, p.distEnd + 1, White) /\ HeaderRead(p)
  BY <1>1 DEF ReadAs, TermsRead, Chain
<1>3. p.distEnd + 1 \in Nat /\ p.key \in Nat /\ p.key + 1 <= p.urgEnd
  BY DEF Ordered
<1>4. (Char \in White => pos + 1 <= p.key) /\ (Char \notin White => pos = p.key)
  BY <1>1, <1>2, <1>3, Turn
<1>5. CASE IsSpace(Char) /\ Pass("URGENCY")
  <2>1. /\ state' = "URGENCY" /\ pos' = pos + 1 /\ UNCHANGED <<in, cl, source, version>>
    BY <1>5 DEF Pass, Go, scratch, slices
  <2>2. OnWay(p.distEnd + 1, p.key)'
    BY <1>2, <1>3, <1>4, <1>5, <2>1, IntFacts DEF OnWay, IsSpace, White
  <2> QED
    BY <1>1, <2>1, <2>2 DEF ReadAs, HeaderRead, TermsRead, ChangesRead, AfterSource,
       AfterVersion, AfterDist, AfterUrg, States, Is, HasUrgency
<1>6. CASE Char = "U" /\ urg' = Slice(pos + 1, 0) /\ Go("URGDELIM", 1)
           /\ UNCHANGED <<in, cl, source, version>>
  <2>1. pos = p.key /\ state' = "URGDELIM" /\ pos' = p.key + 1
    BY <1>4, <1>6 DEF White, NL, SP, Go
  <2>2. Is(in.text, p.key, {"U"})'
    BY <1>1, <1>6, <2>1 DEF Is, Char, length
  <2>3. OnWay(p.key + 1, p.urgEnd)' /\ urg' = Between(p.key + 1, pos')
    <3>1. p.key + 1 \in Int
      BY <1>3
    <3> QED
      BY <1>3, <1>6, <2>1, <3>1, BetweenFacts DEF OnWay
  <2> QED
    BY <1>1, <1>6, <2>1, <2>2, <2>3 DEF ReadAs, HeaderRead, TermsRead, ChangesRead, AfterSource,
       AfterVersion, AfterDist, AfterUrg, States, Is, HasUrgency
<1> QED
  BY <1>1, <1>5, <1>6 DEF Urgency

\* The urgency, and the white space that ends it.
LEMMA ReadUrgDelim ==
  ASSUME NEW p, ReadAssumptions(p), UrgDelim, phase' # "returned"
  PROVE  ReadAs(p)'
<1> USE DEF ReadAssumptions
<1>1. phase = "lexing" /\ state = "URGDELIM" /\ pos < length /\ ~Err /\ Char \in Chars
  BY Lexing DEF UrgDelim, At
<1>2. /\ OnWay(p.key + 1, p.urgEnd) /\ urg = Between(p.key + 1, pos)
      /\ p.urgEnd = Past(in.text, p.key + 1, Chars \ White) /\ HasUrgency(in.text, p.distEnd)
  BY <1>1 DEF ReadAs, TermsRead, Chain
<1>3. p.key + 1 \in Nat /\ p.urgEnd \in Nat /\ p.urgEnd + 1 <= p.lineEnd
  BY DEF Ordered
<1>4. (~IsSpace(Char) => pos + 1 <= p.urgEnd) /\ (IsSpace(Char) => pos = p.urgEnd)
  <2>1. Char \in Chars \ White <=> ~IsSpace(Char)
    BY <1>1 DEF IsSpace, White
  <2> QED
    BY <1>1, <1>2, <1>3, <2>1, Turn
<1>5. CASE IsSpace(Char) /\ Keep("urg", urg) /\ Go("URGLINE", 1)
  <2>1. /\ pos = p.urgEnd /\ state' = "URGLINE" /\ pos' = p.urgEnd + 1
        /\ UNCHANGED <<in, source, version>>
    BY <1>4, <1>5 DEF Keep, Go, scratch, slices
  <2>2. cl'.urg = Between(p.key + 1, p.urgEnd) /\ cl'.dist = cl.dist
    <3>1. cl' = [cl EXCEPT !["urg"] = urg] /\ cl \in Entries
      BY <1>5 DEF Keep, TypeOK
    <3>2. LET f == [cl EXCEPT !["urg"] = urg] IN f.urg = urg /\ f.dist = cl.dist
      BY <3>1, FieldFacts
    <3> QED
      BY <1>2, <2>1, <3>1, <3>2
  <2>3. Is(in.text, p.urgEnd, White)
    BY <1>1, <1>5, <2>1 DEF Is, Char, length, IsSpace, White
  <2>4. OnWay(p.urgEnd + 1, p.lineEnd)'
    BY <1>3, <2>1 DEF OnWay
  <2>5. HeaderRead(p)'
    BY <1>1, <2>1 DEF ReadAs, HeaderRead, AfterSource, AfterVersion, States
  <2>6. TermsRead(p)'
    BY <1>1, <1>2, <2>1, <2>2, <2>3, <2>4 DEF ReadAs, TermsRead, AfterDist, AfterUrg
  <2> QED
    BY <2>1, <2>5, <2>6 DEF ReadAs, ChangesRead
<1>6. CASE ~IsSpace(Char) /\ urg' = Longer(urg) /\ Go("URGDELIM", 1)
           /\ UNCHANGED <<in, cl, source, version>>
  <2>1. state' = "URGDELIM" /\ pos' = pos + 1 /\ pos + 1 <= p.urgEnd
    BY <1>4, <1>6 DEF Go
  <2>2. PICK from \in Int : from = p.key + 1
    BY <1>3
  <2>3. OnWay(from, p.urgEnd) /\ urg = Between(from, pos)
    BY <1>2, <2>2
  <2>4. p.urgEnd \in Int
    BY <1>3
  <2>5. OnWay(from, p.urgEnd)' /\ Longer(urg) = Between(from, pos')
    BY <2>1, <2>3, <2>4, OneFurther
  <2> QED
    BY <1>1, <1>6, <2>1, <2>2, <2>5 DEF ReadAs, HeaderRead, TermsRead, ChangesRead, AfterSource,
       AfterVersion, AfterDist, AfterUrg, States, Is, HasUrgency
<1> QED
  BY <1>1, <1>5, <1>6 DEF UrgDelim

\* The rest of the line.
LEMMA ReadUrgLine ==
  ASSUME NEW p, ReadAssumptions(p), UrgLine
  PROVE  ReadAs(p)'
<1> USE DEF ReadAssumptions
<1>1. phase = "lexing" /\ state = "URGLINE" /\ pos < length
  BY DEF UrgLine, At
<1>2. /\ OnWay(p.urgEnd + 1, p.lineEnd) /\ HasUrgency(in.text, p.distEnd)
      /\ p.lineEnd = Past(in.text, p.urgEnd + 1, Chars \ {NL})
  BY <1>1 DEF ReadAs, TermsRead, Chain
<1>3. p.urgEnd + 1 \in Nat /\ p.lineEnd \in Nat
  BY DEF Ordered
<1>4. (Char # NL => pos + 1 <= p.lineEnd) /\ (Char = NL => pos = p.lineEnd)
  <2>1. Char \in Chars
    BY <1>1, InputFacts DEF TypeOK, Char, length
  <2>2. Char \in Chars \ {NL} <=> Char # NL
    BY <2>1
  <2> QED
    BY <1>1, <1>2, <1>3, <2>2, Turn
<1>5. pos' = pos + 1 /\ UNCHANGED <<in, cl, source, version, endchange>>
  BY DEF UrgLine, Pass, Go, scratch, slices
<1>6. CASE Char # NL
  <2>1. state' = "URGLINE"
    BY <1>6 DEF UrgLine, Pass, Go
  <2>2. OnWay(p.urgEnd + 1, p.lineEnd)'
    BY <1>2, <1>3, <1>4, <1>5, <1>6, IntFacts DEF OnWay
  <2> QED
    BY <1>1, <1>5, <2>1, <2>2 DEF ReadAs, HeaderRead, TermsRead, ChangesRead, AfterSource,
       AfterVersion, AfterDist, AfterUrg, States, Is, HasUrgency
<1>7. CASE Char = NL
  <2>1. state' = "CHANGES" /\ pos = p.lineEnd
    BY <1>4, <1>7 DEF UrgLine, Pass, Go
  <2>2. Is(in.text, p.lineEnd, {NL}) /\ p.body = pos'
    <3>1. Is(in.text, p.lineEnd, {NL})
      BY <1>1, <1>7, <2>1 DEF Is, Char, length
    <3>2. p.body = p.lineEnd + 1
      BY <1>2 DEF Chain
    <3> QED
      BY <1>5, <2>1, <3>1, <3>2
  <2>3. endchange = NoPosition
    BY <1>1 DEF EntryPlaced, ChangesPlaced
  <2>4. ChangesRead(p)'
    BY <1>5, <2>1, <2>2, <2>3, ChangesBegin
  <2>5. HeaderRead(p)' /\ TermsRead(p)'
    BY <1>1, <1>5, <2>1 DEF ReadAs, HeaderRead, TermsRead, AfterSource, AfterVersion, AfterDist, AfterUrg,
                            States, Is, HasUrgency
  <2> QED
    BY <2>4, <2>5 DEF ReadAs
<1> QED
  BY <1>6, <1>7

\* Where the text has no trailer the lexer goes on to it, and where it has one it is there.
LEMMA TrailerTurn ==
  ASSUME TypeOK, pos < length, NEW from \in Nat, NEW to, to = First(from, Trailers(in.text), Len(in.text)),
         OnWay(from, to)
  PROVE  /\ Char = NL /\ Trailer => pos = to /\ to < length
         /\ ~(Char = NL /\ Trailer) => pos + 1 <= to
<1>1. in.text \in Seq(Chars) /\ pos \in Nat /\ length = Len(in.text) /\ length \in Nat
  BY InputFacts DEF TypeOK, length
<1>2. /\ to \in Nat /\ (to >= length \/ to \in Trailers(in.text))
      /\ \A q \in from..to - 1 : q \notin Trailers(in.text)
  BY <1>1, FirstFacts
<1>3. from <= pos /\ pos <= to
  BY DEF OnWay
<1>4. pos \in Trailers(in.text) <=> Char = NL /\ Trailer
  <2>1. pos \in 0..Len(in.text) - 5 <=> length - pos >= 5
    BY <1>1
  <2> QED
    BY <2>1 DEF Trailers, Trailer, Trail, Char
<1>5. CASE pos = to
  <2>1. to < length /\ to \in Trailers(in.text)
    BY <1>1, <1>2, <1>5
  <2> QED
    BY <1>4, <1>5, <2>1
<1>6. CASE pos # to
  <2>1. pos \in from..to - 1
    BY <1>1, <1>2, <1>3, <1>6
  <2>2. ~(Char = NL /\ Trailer)
    BY <1>2, <1>4, <2>1
  <2> QED
    BY <1>1, <1>2, <1>3, <1>6, <2>2
<1> QED
  BY <1>5, <1>6

\* The changes, and the trailer that ends them.
LEMMA ReadChanges ==
  ASSUME NEW p, ReadAssumptions(p), Changes
  PROVE  ReadAs(p)'
<1> USE DEF ReadAssumptions
<1>1. /\ state = "CHANGES" /\ pos < length /\ UNCHANGED <<in, cl, source, version>>
      /\ endchange' = IF Char = NL /\ endchange = NoPosition THEN pos ELSE endchange
  BY DEF Changes, At
<1>2. /\ OnWay(p.body, p.trailer) /\ (endchange = NoPosition => pos <= p.textEnd)
      /\ endchange # NoPosition => endchange = p.textEnd
      /\ HasUrgency(in.text, p.distEnd) => Is(in.text, p.lineEnd, {NL})
      /\ p.trailer = First(p.body, Trailers(in.text), Len(in.text))
      /\ p.textEnd = Past(in.text, p.body, Chars \ {NL})
  BY <1>1 DEF ReadAs, ChangesRead, Chain
<1>3. /\ p.body \in Nat /\ p.trailer \in Nat /\ p.textEnd \in Nat /\ p.maintEnd \in Nat
      /\ p.trailer + 6 <= p.maintEnd /\ p.body <= p.textEnd
  BY DEF Ordered
<1>4. HeaderRead(p) /\ TermsRead(p)
  BY DEF ReadAs
<1>5. /\ Char = NL /\ Trailer => pos = p.trailer /\ p.trailer < length
      /\ ~(Char = NL /\ Trailer) => pos + 1 <= p.trailer
  BY <1>1, <1>2, <1>3, TrailerTurn
<1>6. /\ endchange' = NoPosition => Char # NL /\ pos + 1 <= p.textEnd
      /\ endchange' # NoPosition => endchange' = p.textEnd
  <2>1. CASE endchange # NoPosition
    BY <1>1, <1>2, <2>1
  <2>2. CASE endchange = NoPosition
    <3>1. OnWay(p.body, p.textEnd)
      BY <1>2, <2>2 DEF OnWay
    <3>2. Char \in Chars \ {NL} <=> Char # NL
      BY <1>1, InputFacts DEF TypeOK, Char, length
    <3>3. (Char # NL => pos + 1 <= p.textEnd) /\ (Char = NL => pos = p.textEnd)
      BY <1>1, <1>2, <1>3, <3>1, <3>2, Turn
    <3>4. pos # NoPosition
      BY IntFacts DEF NoPosition
    <3> QED
      BY <1>1, <2>2, <3>3, <3>4
  <2> QED
    BY <2>1, <2>2
<1>7. ASSUME state' \in {"CHANGES", "MAINT"}
      PROVE  HeaderRead(p)' /\ TermsRead(p)'
  BY <1>1, <1>4, <1>7 DEF HeaderRead, TermsRead, AfterSource, AfterVersion, AfterDist, AfterUrg, States,
                          Is, HasUrgency
<1>8. CASE /\ Char = NL /\ Trailer /\ maint' = Slice(pos + 5, 0) /\ Go("MAINT", 6)
  <2>1. state' = "MAINT" /\ pos' = pos + 6 /\ pos = p.trailer /\ p.trailer < length
    BY <1>5, <1>8 DEF Go
  <2>2. OnWay(p.trailer + 6, p.maintEnd)' /\ maint' = Slice(p.trailer + 5, pos' - (p.trailer + 6))
    <3>1. pos' - (p.trailer + 6) = 0
      BY <1>3, <2>1
    <3>2. OnWay(p.trailer + 6, p.maintEnd)'
      BY <1>3, <2>1 DEF OnWay
    <3> QED
      BY <1>8, <2>1, <3>1, <3>2
  <2>3. endchange' = p.textEnd
    BY <1>6, <1>8
  <2>4. ChangesRead(p)'
    BY <1>1, <1>2, <2>1, <2>2, <2>3 DEF ChangesRead, length
  <2> QED
    BY <1>7, <2>1, <2>4 DEF ReadAs
<1>9. CASE ~(Char = NL /\ Trailer) /\ Go("CHANGES", 1)
  <2>1. state' = "CHANGES" /\ pos' = pos + 1
    BY <1>9 DEF Go
  <2>2. OnWay(p.body, p.trailer)'
    <3>1. p.body <= pos /\ pos + 1 <= p.trailer /\ p.body \in Int /\ pos \in Int
      <4>1. pos \in Int /\ p.body \in Int
        BY <1>3, IntFacts
      <4>2. p.body <= pos
        BY <1>2 DEF OnWay
      <4> QED
        BY <1>5, <1>9, <4>1, <4>2
    <3> QED
      BY <2>1, <3>1 DEF OnWay
  <2>3. ChangesRead(p)'
    BY <1>1, <1>2, <1>6, <2>1, <2>2 DEF ChangesRead
  <2> QED
    BY <1>7, <2>1, <2>3 DEF ReadAs
<1> QED
  BY <1>8, <1>9 DEF Changes

\* The maintainer, and the bracket that ends it.
LEMMA ReadMaint ==
  ASSUME NEW p, ReadAssumptions(p), Maint, phase' # "returned"
  PROVE  ReadAs(p)'
<1> USE DEF ReadAssumptions
<1>1. phase = "lexing" /\ state = "MAINT" /\ pos < length /\ ~Err /\ Char \in Chars
  BY Lexing DEF Maint, At
<1>2. /\ OnWay(p.trailer + 6, p.maintEnd) /\ maint = Slice(p.trailer + 5, pos - (p.trailer + 6))
      /\ p.trailer < length /\ endchange = p.textEnd
      /\ HasUrgency(in.text, p.distEnd) => Is(in.text, p.lineEnd, {NL})
      /\ p.maintEnd = Past(in.text, p.trailer + 6, Chars \ {">", NL})
  BY <1>1 DEF ReadAs, ChangesRead, Chain
<1>3. p.trailer + 6 \in Nat /\ p.maintEnd \in Nat /\ p.maintEnd + 1 <= p.date /\ p.trailer \in Nat
  BY DEF Ordered
<1>4. HeaderRead(p) /\ TermsRead(p)
  BY DEF ReadAs
<1>5. (Char \notin {">", NL} => pos + 1 <= p.maintEnd) /\ (Char \in {">", NL} => pos = p.maintEnd)
  <2>1. Char \in Chars \ {">", NL} <=> Char \notin {">", NL}
    BY <1>1
  <2> QED
    BY <1>1, <1>2, <1>3, <2>1, Turn
<1>6. CASE Char = ">" /\ Go("DATE", 1) /\ Keep("maintainer", Slice(maint.from, maint.len + 2))
  <2>1. /\ state' = "DATE" /\ pos' = pos + 1 /\ pos = p.maintEnd
        /\ UNCHANGED <<in, source, version, maint, endchange>>
    BY <1>5, <1>6 DEF Go, Keep, scratch, slices
  <2>2. maint.from = p.trailer + 5 /\ maint.len = pos - (p.trailer + 6)
    BY <1>2 DEF Slice
  <2>3. Slice(maint.from, maint.len + 2) = Between(p.trailer + 5, p.maintEnd + 1)
    <3>1. maint.len + 2 = (p.maintEnd + 1) - (p.trailer + 5)
      BY <1>3, <2>1, <2>2
    <3>2. Between(p.trailer + 5, p.maintEnd + 1) = Slice(p.trailer + 5, (p.maintEnd + 1) - (p.trailer + 5))
      BY DEF Between
    <3> QED
      BY <2>2, <3>1, <3>2
  <2>4. cl'.maintainer = Between(p.trailer + 5, p.maintEnd + 1) /\ cl'.dist = cl.dist /\ cl'.urg = cl.urg
    <3> DEFINE slice == Slice(maint.from, maint.len + 2)
    <3>1. cl' = [cl EXCEPT !["maintainer"] = slice] /\ cl \in Entries
      BY <1>6 DEF Keep, TypeOK
    <3> HIDE DEF slice
    <3>2. LET f == [cl EXCEPT !["maintainer"] = slice]
          IN  f.maintainer = slice /\ f.dist = cl.dist /\ f.urg = cl.urg
      BY <3>1, FieldFacts
    <3> QED
      BY <2>3, <3>1, <3>2 DEF slice
  <2>5. Is(in.text, p.maintEnd, {">"})
    BY <1>1, <1>6, <2>1 DEF Is, Char, length
  <2>6. OnWay(p.maintEnd + 1, p.date)' /\ DateFrom' = pos'
    <3>1. maint.from + maint.len + 2 = p.maintEnd + 1
      BY <1>3, <2>1, <2>2
    <3>2. OnWay(p.maintEnd + 1, p.date)'
      BY <1>3, <2>1 DEF OnWay
    <3> QED
      BY <2>1, <3>1, <3>2 DEF DateFrom
  <2>7. ChangesRead(p)'
    BY <1>2, <2>1, <2>4, <2>5, <2>6 DEF ChangesRead, length
  <2>8. HeaderRead(p)' /\ TermsRead(p)'
    BY <1>1, <1>4, <2>1, <2>4 DEF HeaderRead, TermsRead, AfterSource, AfterVersion, AfterDist, AfterUrg,
                                  States, Is, HasUrgency
  <2> QED
    BY <2>7, <2>8 DEF ReadAs
<1>7. CASE /\ Char \notin {">", NL} /\ maint' = Longer(maint) /\ Go("MAINT", 1)
           /\ UNCHANGED <<in, cl, source, version, endchange>>
  <2>1. state' = "MAINT" /\ pos' = pos + 1
    BY <1>7 DEF Go
  <2>2. OnWay(p.trailer + 6, p.maintEnd)'
    BY <1>2, <1>3, <1>5, <1>7, <2>1, IntFacts DEF OnWay
  <2>3. maint' = Slice(p.trailer + 5, pos' - (p.trailer + 6))
    <3>1. pos' - (p.trailer + 6) = pos - (p.trailer + 6) + 1
      BY <1>3, <2>1, IntFacts
    <3> QED
      BY <1>2, <1>7, <3>1 DEF Longer, Slice
  <2>4. ChangesRead(p)'
    BY <1>2, <1>7, <2>1, <2>2, <2>3 DEF ChangesRead, length
  <2>5. HeaderRead(p)' /\ TermsRead(p)'
    BY <1>1, <1>4, <1>7, <2>1 DEF HeaderRead, TermsRead, AfterSource, AfterVersion, AfterDist, AfterUrg,
                                  States, Is, HasUrgency
  <2> QED
    BY <2>4, <2>5 DEF ReadAs
<1> QED
  BY <1>1, <1>6, <1>7 DEF Maint

\* White space before the date, and the date.
LEMMA ReadDateChar ==
  ASSUME NEW p, ReadAssumptions(p), DateChar
  PROVE  ReadAs(p)'
<1> USE DEF ReadAssumptions
<1>1. /\ state = "DATE" /\ pos < length /\ ~(Char = NL /\ DateFrom # pos)
      /\ state' = "DATE" /\ pos' = pos + 1 /\ UNCHANGED <<in, cl, source, version, endchange>>
      /\ maint' = IF IsSpace(Char) /\ DateFrom = pos THEN Longer(maint) ELSE maint
  BY DEF DateChar, At, Go
<1>2. ChangesRead(p) /\ p.date = Past(in.text, p.maintEnd + 1, White)
      /\ p.dateEnd = Past(in.text, p.date, Chars \ {NL})
  BY DEF ReadAs, Chain
<1>3. p.maintEnd + 1 \in Nat /\ p.date \in Nat /\ p.dateEnd \in Nat /\ p.date <= p.dateEnd
  BY DEF Ordered
<1>4. Char \in Chars /\ pos \in Int /\ DateFrom \in Int
  <2>1. DateFrom \in Int
    BY IntFacts DEF DateFrom
  <2>2. Char \in Chars
    BY <1>1, InputFacts DEF TypeOK, Char, length
  <2> QED
    BY <2>1, <2>2, IntFacts
<1>5. HeaderRead(p)' /\ TermsRead(p)'
  BY <1>1 DEF ReadAs, HeaderRead, TermsRead, AfterSource, AfterVersion, AfterDist, AfterUrg, States,
              Is, HasUrgency
<1>6. ASSUME \/ OnWay(p.maintEnd + 1, p.date)' /\ DateFrom' = pos'
             \/ OnWay(p.date + 1, p.dateEnd)' /\ DateFrom' = p.date
      PROVE  ReadAs(p)'
  <2>1. ChangesRead(p)'
    BY <1>1, <1>2, <1>6 DEF ChangesRead, length
  <2> QED
    BY <1>5, <2>1 DEF ReadAs
<1>7. CASE OnWay(p.maintEnd + 1, p.date) /\ DateFrom = pos
  <2>1. (Char \in White => pos + 1 <= p.date) /\ (Char \notin White => pos = p.date)
    BY <1>1, <1>2, <1>3, <1>7, Turn
  <2>2. CASE IsSpace(Char)
    <3>1. DateFrom' = pos'
      <4>1. maint' = Longer(maint) /\ maint \in Slices
        BY <1>1, <1>7, <2>2 DEF TypeOK
      <4> QED
        BY <1>1, <1>7, <4>1, LongerFacts, IntFacts DEF DateFrom
    <3>2. OnWay(p.maintEnd + 1, p.date)'
      BY <1>1, <1>3, <1>4, <1>7, <2>1, <2>2 DEF OnWay, IsSpace, White
    <3> QED
      BY <1>6, <3>1, <3>2
  <2>3. CASE ~IsSpace(Char)
    <3>1. pos = p.date /\ DateFrom' = p.date
      BY <1>1, <1>7, <2>1, <2>3 DEF DateFrom, IsSpace, White
    <3>2. OnWay(p.date, p.dateEnd) /\ Char \in Chars \ {NL}
      BY <1>3, <1>4, <2>3, <3>1 DEF OnWay, IsSpace
    <3>3. pos + 1 <= p.dateEnd
      BY <1>1, <1>2, <1>3, <3>2, Turn
    <3>4. OnWay(p.date + 1, p.dateEnd)'
      BY <1>1, <1>3, <3>1, <3>3 DEF OnWay
    <3> QED
      BY <1>6, <3>1, <3>4
  <2> QED
    BY <2>2, <2>3
<1>8. CASE OnWay(p.date + 1, p.dateEnd) /\ DateFrom = p.date
  <2>1. DateFrom # pos /\ OnWay(p.date, p.dateEnd)
    BY <1>3, <1>4, <1>8 DEF OnWay
  <2>2. DateFrom' = p.date /\ Char \in Chars \ {NL}
    BY <1>1, <1>4, <1>8, <2>1 DEF DateFrom
  <2>3. pos + 1 <= p.dateEnd
    BY <1>1, <1>2, <1>3, <2>1, <2>2, Turn
  <2>4. OnWay(p.date + 1, p.dateEnd)'
    BY <1>1, <1>3, <1>4, <1>8, <2>3 DEF OnWay
  <2> QED
    BY <1>6, <2>2, <2>4
<1> QED
  BY <1>1, <1>2, <1>7, <1>8 DEF ChangesRead

\* The entry that ends here is the text's, and the next one is looked for behind it.
LEMMA ReadDateEnds ==
  ASSUME NEW p, ReadAssumptions(p), DateEnds, ~Err
  PROVE  /\ Taken(in.text, p)
         /\ list' = Append(list, TakenEntry(in.text, p))
         /\ End(TakenEntry(in.text, p).date) = pos
         /\ state' = "RESET" /\ pos' = pos + 1 /\ endchange' = NoPosition /\ phase' = phase /\ in' = in
<1> USE DEF ReadAssumptions
<1>1. /\ state = "DATE" /\ pos < length /\ Char = NL /\ DateFrom # pos
      /\ list' = Append(list, [cl EXCEPT !.date = Date, !.text = Text])
      /\ state' = "RESET" /\ pos' = pos + 1 /\ endchange' = NoPosition /\ phase' = phase /\ in' = in
  BY DEF DateEnds, At, Go
<1>2. HeaderRead(p) /\ TermsRead(p) /\ ChangesRead(p) /\ p.dateEnd = Past(in.text, p.date, Chars \ {NL})
  BY DEF ReadAs, Chain
<1>3. p.date \in Nat /\ p.dateEnd \in Nat /\ pos \in Int
  BY IntFacts DEF Ordered
<1>4. OnWay(p.date + 1, p.dateEnd) /\ DateFrom = p.date
  BY <1>1, <1>2 DEF ChangesRead
<1>5. pos = p.dateEnd
  <2>1. OnWay(p.date, p.dateEnd)
    BY <1>3, <1>4 DEF OnWay
  <2>2. Char \notin Chars \ {NL}
    BY <1>1
  <2> QED
    BY <1>1, <1>2, <1>3, <2>1, <2>2, Turn
<1>6. Is(in.text, p.dateEnd, {NL})
  BY <1>1, <1>5 DEF Is, Char, length
<1>7. /\ Is(in.text, p.srcEnd, White) /\ Is(in.text, p.paren, {"("}) /\ Is(in.text, p.verEnd, {")"})
      /\ source = Between(p.src, p.srcEnd) /\ version = Between(p.paren + 1, p.verEnd)
  BY <1>1, <1>2 DEF HeaderRead, AfterSource, AfterVersion, States
<1>8. /\ Is(in.text, p.distEnd, {";", NL, ":"})
      /\ cl.dist = IF p.distAt = p.distEnd THEN NoSlice ELSE Between(p.distAt, p.distEnd)
      /\ HasUrgency(in.text, p.distEnd) => Is(in.text, p.key, {"U"}) /\ Is(in.text, p.urgEnd, White)
      /\ cl.urg = IF HasUrgency(in.text, p.distEnd) THEN Between(p.key + 1, p.urgEnd) ELSE NoSlice
  BY <1>1, <1>2 DEF TermsRead, AfterDist, AfterUrg
<1>9. /\ HasUrgency(in.text, p.distEnd) => Is(in.text, p.lineEnd, {NL})
      /\ p.trailer < length /\ endchange = p.textEnd
      /\ Is(in.text, p.maintEnd, {">"}) /\ cl.maintainer = Between(p.trailer + 5, p.maintEnd + 1)
  BY <1>1, <1>2 DEF ChangesRead
<1>10. Taken(in.text, p)
  BY <1>6, <1>7, <1>8, <1>9 DEF Taken, length
<1>11. cl.source = source /\ cl.version = version /\ cl \in Entries
  BY <1>1 DEF EntryPlaced, SourcePlaced, VersionPlaced, AfterSource, AfterVersion, States, TypeOK
<1>12. source.from = p.src
  BY <1>7 DEF Between, Slice
<1>13. Date = Between(p.date, p.dateEnd) /\ Text = Between(p.src, p.textEnd)
  BY <1>4, <1>5, <1>9, <1>12 DEF Date, Text, Between
<1>14. [cl EXCEPT !.date = Date, !.text = Text] = TakenEntry(in.text, p)
  <2> DEFINE e == [cl EXCEPT !.date = Date, !.text = Text]
  <2>1. /\ e \in Entries
        /\ e.source = cl.source /\ e.version = cl.version /\ e.dist = cl.dist /\ e.urg = cl.urg
        /\ e.maintainer = cl.maintainer /\ e.date = Date /\ e.text = Text
    <3>1. Date \in Slices /\ Text \in Slices
      BY DateFacts
    <3> QED
      BY <1>11, <3>1 DEF Entries
  <2> HIDE DEF e
  <2>2. e = [source |-> e.source, version |-> e.version, dist |-> e.dist, urg |-> e.urg,
             maintainer |-> e.maintainer, date |-> e.date, text |-> e.text]
    BY <2>1 DEF Entries
  <2>3. e = TakenEntry(in.text, p)
    BY <1>7, <1>8, <1>9, <1>11, <1>13, <2>1, <2>2 DEF TakenEntry
  <2> QED
    BY <2>3 DEF e
<1>15. End(Between(p.date, p.dateEnd)) = pos
  BY <1>3, <1>5 DEF End, Between, Slice
<1>16. TakenEntry(in.text, p).date = Between(p.date, p.dateEnd)
  BY DEF TakenEntry
<1> QED
  BY <1>1, <1>10, <1>14, <1>15, <1>16

\* The text ends, or has another character than the one that belongs where the position
\* is: it has no further entry.
LEMMA NoFurther ==
  ASSUME NEW p, ReadAssumptions(p), phase = "lexing", [Next]_vars, phase' = "returned", in.faults = {}
  PROVE  ~Taken(in.text, p)
<1> USE DEF ReadAssumptions
<1>1. length = Len(in.text) /\ length \in Nat /\ pos \in Nat /\ (pos < length => Char \in Chars)
  BY InputFacts DEF TypeOK, length, Char
<1>2. ~MayFail("mapit") /\ ~MayFail("malloc") /\ ~MayFail("strndup")
  BY DEF MayFail
<1>3. CASE EndOfText
  <2>1. pos >= length
    BY <1>3 DEF EndOfText
  <2>2. ASSUME NEW to \in Nat, NEW kinds, pos <= to
        PROVE  ~Is(in.text, to, kinds) /\ ~(to < length)
    BY <1>1, <2>1, <2>2 DEF Is
  <2>3. /\ p.src \in Nat /\ p.srcEnd \in Nat /\ p.paren \in Nat /\ p.verEnd \in Nat
        /\ p.distAt \in Nat /\ p.distEnd \in Nat /\ p.key \in Nat /\ p.urgEnd \in Nat
        /\ p.lineEnd \in Nat /\ p.trailer \in Nat /\ p.maintEnd \in Nat /\ p.date \in Nat
        /\ p.dateEnd \in Nat
        /\ p.src <= p.srcEnd /\ p.paren <= p.verEnd /\ p.distAt <= p.distEnd
        /\ p.key <= p.lineEnd /\ p.urgEnd <= p.lineEnd /\ p.date <= p.dateEnd
    BY DEF Ordered
  <2>4. \A a, b \in Nat : pos <= a /\ a <= b => pos <= b
    BY <1>1
  <2>5. CASE state \in {"RESET", "SOURCE"}
    <3>1. pos <= p.src \/ pos <= p.srcEnd
      BY <2>5 DEF ReadAs, HeaderRead, OnWay
    <3>2. pos <= p.srcEnd
      BY <2>3, <2>4, <3>1
    <3> QED
      BY <2>2, <2>3, <3>2 DEF Taken
  <2>6. CASE state \in {"VERSION_LPAREN", "VERSION"}
    <3>1. pos <= p.paren \/ pos <= p.verEnd
      BY <2>6 DEF ReadAs, HeaderRead, OnWay
    <3>2. pos <= p.verEnd
      BY <2>3, <2>4, <3>1
    <3> QED
      BY <2>2, <2>3, <3>2 DEF Taken
  <2>7. CASE state \in {"VERSION_RPAREN", "DIST"}
    <3>1. pos <= p.distAt \/ pos <= p.distEnd
      BY <2>7 DEF ReadAs, TermsRead, OnWay
    <3>2. pos <= p.distEnd
      BY <2>3, <2>4, <3>1
    <3> QED
      BY <2>2, <2>3, <3>2 DEF Taken
  <2>8. CASE state = "DISTDELIM"
    <3>1. pos = p.distEnd
      BY <2>8 DEF ReadAs, TermsRead
    <3>2. pos <= p.distEnd
      BY <1>1, <3>1
    <3> QED
      BY <2>2, <2>3, <3>2 DEF Taken
  <2>9. CASE state \in {"URGENCY", "URGDELIM", "URGLINE"}
    <3>1. HasUrgency(in.text, p.distEnd) /\ (pos <= p.key \/ pos <= p.urgEnd \/ pos <= p.lineEnd)
      BY <2>9 DEF ReadAs, TermsRead, OnWay
    <3>2. pos <= p.lineEnd
      BY <2>3, <2>4, <3>1
    <3> QED
      BY <2>2, <2>3, <3>1, <3>2 DEF Taken
  <2>10. CASE state = "CHANGES"
    <3>1. pos <= p.trailer
      BY <2>10 DEF ReadAs, ChangesRead, OnWay
    <3> QED
      BY <1>1, <2>2, <2>3, <3>1 DEF Taken
  <2>11. CASE state = "MAINT"
    <3>1. pos <= p.maintEnd
      BY <2>11 DEF ReadAs, ChangesRead, OnWay
    <3> QED
      BY <2>2, <2>3, <3>1 DEF Taken
  <2>12. CASE state = "DATE"
    <3>1. pos <= p.date \/ pos <= p.dateEnd
      BY <2>12 DEF ReadAs, ChangesRead, OnWay
    <3>2. pos <= p.dateEnd
      BY <2>3, <2>4, <3>1
    <3> QED
      BY <2>2, <2>3, <3>2 DEF Taken
  <2> QED
    BY <2>5, <2>6, <2>7, <2>8, <2>9, <2>10, <2>11, <2>12 DEF TypeOK, States
<1>4. ASSUME NEW to, NEW kinds, pos = to, Char \notin kinds, pos < length
      PROVE  ~Is(in.text, to, kinds)
  BY <1>4 DEF Is, Char
<1>5. CASE Source
  <2>1. state = "SOURCE" /\ pos < length /\ Char \notin White /\ Char \notin PkgChars
    BY <1>2, <1>5 DEF Source, At, IsSpace, White, Keep
  <2>2. OnWay(p.src, p.srcEnd) /\ p.srcEnd = Past(in.text, p.src, PkgChars)
    BY <2>1 DEF ReadAs, HeaderRead, Chain
  <2>3. p.src \in Nat
    BY DEF Ordered
  <2>4. pos = p.srcEnd
    BY <2>1, <2>2, <2>3, Turn
  <2> QED
    BY <1>4, <2>1, <2>4 DEF Taken
<1>6. CASE LParen
  <2>1. state = "VERSION_LPAREN" /\ pos < length /\ Char \notin White /\ Char # "("
    BY <1>6 DEF LParen, At, IsSpace, White, Pass
  <2>2. OnWay(p.srcEnd + 1, p.paren) /\ p.paren = Past(in.text, p.srcEnd, White)
    BY <2>1 DEF ReadAs, HeaderRead, Chain
  <2>3. p.srcEnd \in Nat
    BY DEF Ordered
  <2>4. OnWay(p.srcEnd, p.paren)
    BY <1>1, <2>2, <2>3 DEF OnWay
  <2>5. pos = p.paren
    BY <2>1, <2>2, <2>3, <2>4, Turn
  <2>6. ~Is(in.text, p.paren, {"("})
    BY <1>4, <2>1, <2>5
  <2> QED
    BY <2>6 DEF Taken
<1>7. CASE Version
  <2>1. state = "VERSION" /\ pos < length /\ Char \notin VerChars \cup {"_"} /\ Char # ")"
    BY <1>2, <1>7 DEF Version, At, Keep
  <2>2. OnWay(p.paren + 1, p.verEnd) /\ p.verEnd = Past(in.text, p.paren + 1, VerChars \cup {"_"})
    BY <2>1 DEF ReadAs, HeaderRead, Chain
  <2>3. p.paren + 1 \in Nat
    BY DEF Ordered
  <2>4. pos = p.verEnd
    BY <2>1, <2>2, <2>3, Turn
  <2>5. ~Is(in.text, p.verEnd, {")"})
    BY <1>4, <2>1, <2>4
  <2> QED
    BY <2>5 DEF Taken
<1>8. CASE Dist
  <2>1. state = "DIST" /\ pos < length /\ Char \notin {";", NL, ":"} /\ Char \notin DistChars \cup {SP}
    <3>1. /\ state = "DIST" /\ pos < length /\ phase' # phase
          /\ Char \notin {";", NL, ":", SP} \cup DistChars \/ phase' = phase
      BY <1>2, <1>8 DEF Dist, At, Keep
    <3> QED
      BY <3>1
  <2>2. OnWay(p.distAt, p.distEnd) /\ p.distEnd = Past(in.text, p.distAt, DistChars \cup {SP})
    BY <2>1 DEF ReadAs, TermsRead, Chain
  <2>3. p.distAt \in Nat
    BY DEF Ordered
  <2>4. pos = p.distEnd
    BY <2>1, <2>2, <2>3, Turn
  <2>5. ~Is(in.text, p.distEnd, {";", NL, ":"})
    BY <1>4, <2>1, <2>4
  <2> QED
    BY <2>5 DEF Taken
<1>9. CASE Urgency
  <2>1. state = "URGENCY" /\ pos < length /\ Char \notin White /\ Char # "U"
    BY <1>9 DEF Urgency, At, Pass, IsSpace, White
  <2>2. OnWay(p.distEnd + 1, p.key) /\ p.key = Past(in.text, p.distEnd + 1, White)
        /\ HasUrgency(in.text, p.distEnd)
    BY <2>1 DEF ReadAs, TermsRead, Chain
  <2>3. p.distEnd + 1 \in Nat
    BY DEF Ordered
  <2>4. pos = p.key
    BY <2>1, <2>2, <2>3, Turn
  <2>5. ~Is(in.text, p.key, {"U"})
    BY <1>4, <2>1, <2>4
  <2> QED
    BY <2>2, <2>5 DEF Taken
<1>10. CASE Maint
  <2>1. state = "MAINT" /\ pos < length /\ Char = NL
    BY <1>2, <1>10 DEF Maint, At, Keep
  <2>2. OnWay(p.trailer + 6, p.maintEnd) /\ p.maintEnd = Past(in.text, p.trailer + 6, Chars \ {">", NL})
    BY <2>1 DEF ReadAs, ChangesRead, Chain
  <2>3. p.trailer + 6 \in Nat
    BY DEF Ordered
  <2>4. Char \notin Chars \ {">", NL} /\ Char \notin {">"}
    BY <2>1 DEF NL
  <2>5. pos = p.maintEnd
    BY <2>1, <2>2, <2>3, <2>4, Turn
  <2>6. ~Is(in.text, p.maintEnd, {">"})
    BY <1>4, <2>1, <2>4, <2>5
  <2> QED
    BY <2>6 DEF Taken
<1>11. ~Call /\ ~Reset /\ ~RParen /\ ~DistDelim /\ ~Returned
  BY <1>2 DEF Call, Reset, RParen, DistDelim, Pass, Returned
<1>12. ~UrgDelim /\ ~UrgLine /\ ~Changes
  BY <1>2 DEF UrgDelim, UrgLine, Changes, Pass, Keep
<1>13. ~DateEnds /\ ~DateChar
  BY <1>2 DEF DateEnds, DateChar
<1>14. ~UNCHANGED vars
  BY DEF vars
<1> QED
  BY <1>3, <1>5, <1>6, <1>7, <1>8, <1>9, <1>10, <1>11, <1>12, <1>13, <1>14 DEF Next, Header

\* As long as nothing is appended the entry that is read is the same.
LEMMA SameEntry ==
  ASSUME UNCHANGED <<in, list>>, NEW p, p = Here, Begin \in Nat, ReadAs(p)'
  PROVE  Reading'
<1>1. Here' = p /\ Begin' = Begin
  BY DEF Here, Begin
<1>2. HeaderRead(p)' /\ TermsRead(p)' /\ ChangesRead(p)'
  BY DEF ReadAs
<1>3. HeaderRead(Here)'
  BY <1>1, <1>2 DEF HeaderRead
<1>4. TermsRead(Here)'
  BY <1>1, <1>2 DEF TermsRead
<1>5. ChangesRead(Here)'
  BY <1>1, <1>2 DEF ChangesRead
<1> QED
  BY <1>1, <1>3, <1>4, <1>5 DEF Reading, ReadAs

\* A step that appends nothing and does not return.
LEMMA ReadOn ==
  ASSUME NEW p, ReadAssumptions(p), [Next]_vars, phase # "returned", phase' # "returned",
         ~(DateEnds /\ ~Err)
  PROVE  ReadAs(p)'
<1>1. ~EndOfText /\ ~Err
  BY DEF EndOfText, Leave, Err
<1>2. ~Returned
  BY DEF Returned
<1>3. CASE Call \/ UNCHANGED vars
  <2>1. UNCHANGED <<in, state, pos, cl, list, scratch>>
    BY <1>3 DEF Call, vars
  <2>2. ReadAs(p)
    BY DEF ReadAssumptions
  <2>3. HeaderRead(p)'
    BY <2>1, <2>2 DEF ReadAs, HeaderRead, OnWay, Begin, Is, scratch, slices
  <2>4. TermsRead(p)'
    BY <2>1, <2>2 DEF ReadAs, TermsRead, OnWay, Is, HasUrgency, scratch, slices
  <2>5. ChangesRead(p)'
    BY <2>1, <2>2 DEF ReadAs, ChangesRead, OnWay, Is, HasUrgency, length, DateFrom, scratch, slices
  <2> QED
    BY <2>3, <2>4, <2>5 DEF ReadAs
<1>4. CASE Reset \/ Source \/ LParen \/ Version \/ RParen
  BY <1>4, ReadReset, ReadSource, ReadLParen, ReadVersion, ReadRParen
<1>5. CASE Dist
  BY <1>5, ReadDist
<1>6. CASE DistDelim \/ Urgency \/ UrgDelim \/ UrgLine
  BY <1>6, ReadDistDelim, ReadUrgency, ReadUrgDelim, ReadUrgLine
<1>7. CASE Changes \/ Maint \/ DateChar
  BY <1>7, ReadChanges, ReadMaint, ReadDateChar
<1> QED
  BY <1>1, <1>2, <1>3, <1>4, <1>5, <1>6, <1>7 DEF Next, Header

\* An entry is appended, and the next is looked for behind it.
LEMMA ExactAppend ==
  ASSUME IInv, ExactInv, TypeOK', DateEnds, ~Err
  PROVE  ExactInv'
<1>1. phase = "lexing" /\ TypeOK /\ EntryPlaced /\ Reading /\ TakenEntries(in.text, list)
  BY DEF DateEnds, At, IInv, ExactInv
<1>2. PICK p : p = Here
  OBVIOUS
<1>3. ReadAssumptions(p)
  BY <1>1, <1>2, HereFacts DEF ReadAssumptions, Reading
<1>4. /\ Taken(in.text, p) /\ list' = Append(list, TakenEntry(in.text, p))
      /\ End(TakenEntry(in.text, p).date) = pos
      /\ state' = "RESET" /\ pos' = pos + 1 /\ endchange' = NoPosition /\ phase' = phase /\ in' = in
  BY <1>3, ReadDateEnds
<1>5. list \in Seq(Entries) /\ list' \in Seq(Entries) /\ Len(list) \in Nat /\ pos \in Nat
  BY <1>1 DEF TypeOK
<1>6. /\ Len(list') = Len(list) + 1 /\ list'[Len(list) + 1] = TakenEntry(in.text, p)
      /\ \A i \in 1..Len(list) : list'[i] = list[i]
      /\ DOMAIN list' = 1..Len(list) + 1 /\ DOMAIN list = 1..Len(list) /\ list' # <<>>
  BY <1>4, <1>5
<1>7. ASSUME NEW i \in 1..Len(list) + 1
      PROVE  /\ StartOf(list', i) = StartOf(list, i)
             /\ LexedOf(in.text, list', i) = LexedOf(in.text, list, i)
  <2>1. CASE i = 1
    BY <2>1 DEF LexedOf, StartOf
  <2>2. CASE i # 1
    <3>1. i - 1 \in 1..Len(list)
      BY <1>5, <2>2
    <3>2. list'[i - 1] = list[i - 1]
      BY <1>6, <3>1
    <3> QED
      BY <2>2, <3>2 DEF LexedOf, StartOf
  <2> QED
    BY <2>1, <2>2
<1>8. TakenEntries(in.text, list)'
  <2>1. ASSUME NEW i \in 1..Len(list) + 1
        PROVE  LET q == LexedOf(in.text, list', i) IN
                 Taken(in.text, q) /\ list'[i] = TakenEntry(in.text, q)
    <3>1. CASE i \in 1..Len(list)
      BY <1>1, <1>6, <1>7, <3>1 DEF TakenEntries
    <3>2. CASE i = Len(list) + 1
      BY <1>2, <1>4, <1>6, <1>7, <3>2 DEF Here
    <3> QED
      BY <1>5, <3>1, <3>2
  <2> QED
    BY <1>4, <1>6, <2>1 DEF TakenEntries
<1>9. Begin' = pos + 1 /\ Begin' \in Nat
  <2>1. list'[Len(list')] = TakenEntry(in.text, p)
    BY <1>6
  <2> QED
    BY <1>4, <1>5, <1>6, <2>1 DEF Begin
<1>10. Starts'
  <2>1. ASSUME NEW i \in 1..Len(list) + 2 PROVE StartOf(list', i) \in Nat
    <3>1. CASE i \in 1..Len(list) + 1
      BY <1>7, <3>1 DEF ExactInv, Starts
    <3>2. CASE i = Len(list) + 2
      <4>1. i # 1 /\ i - 1 = Len(list')
        BY <1>5, <1>6, <3>2
      <4> QED
        BY <1>6, <1>9, <4>1 DEF StartOf, Begin
    <3> QED
      BY <1>5, <3>1, <3>2
  <2> QED
    BY <1>5, <1>6, <2>1 DEF Starts
<1>11. Begin' <= Here'.src
  <2>1. PICK from \in Nat : from = Begin'
    BY <1>9
  <2>2. Here' = Lexed(in.text, from)
    <3>1. Len(list') # 0 /\ Len(list') + 1 # 1 /\ (Len(list') + 1) - 1 = Len(list')
      BY <1>5, <1>6
    <3> QED
      BY <1>4, <1>6, <2>1, <3>1 DEF Here, LexedOf, StartOf, Begin
  <2>3. from <= Lexed(in.text, from).src
    <3>1. in.text \in Seq(Chars)
      BY <1>1, InputFacts DEF TypeOK
    <3> QED
      BY <3>1, PlaceFacts, PlaceOrder
  <2> QED
    BY <2>1, <2>2, <2>3
<1>12. ReadAs(Here)'
  <2>1. OnWay(Begin, Here.src)'
    BY <1>4, <1>5, <1>9, <1>11 DEF OnWay
  <2> QED
    BY <1>4, <2>1 DEF ReadAs, HeaderRead, TermsRead, ChangesRead, AfterSource, AfterVersion,
                      AfterDist, AfterUrg, States
<1> QED
  BY <1>1, <1>4, <1>8, <1>9, <1>10, <1>12 DEF ExactInv, Reading

\* Any step.
LEMMA ExactStep ==
  ASSUME IInv, ExactInv, [Next]_vars
  PROVE  ExactInv'
<1>1. TypeOK'
  BY TypeStep DEF IInv
<1>2. CASE DateEnds /\ ~Err
  BY <1>1, <1>2, ExactAppend
<1>3. CASE UNCHANGED <<in, list>> /\ ~(DateEnds /\ ~Err)
  <2>1. TakenEntries(in.text, list)' /\ Starts'
    BY <1>3 DEF ExactInv, TakenEntries, Starts
  <2>2. CASE phase = "returned"
    <3>1. UNCHANGED vars
      BY <2>2 DEF Next, Call, EndOfText, Reset, Header, Source, LParen, Version, RParen, Dist,
                  DistDelim, Urgency, UrgDelim, UrgLine, Changes, Maint, DateEnds, DateChar,
                  Returned, At
    <3> QED
      BY <2>1, <2>2, <3>1 DEF ExactInv, vars
  <2>3. CASE phase # "returned"
    <3>1. PICK p : p = Here
      OBVIOUS
    <3>2. ReadAssumptions(p) /\ Begin \in Nat
      BY <2>3, <3>1, HereFacts DEF ReadAssumptions, ExactInv, Reading, IInv
    <3>3. phase' # "returned" => Reading'
      BY <1>3, <2>3, <3>1, <3>2, ReadOn, SameEntry
    <3>4. ASSUME phase' = "returned", in.faults = {} PROVE TakenAll(in.text, list)
      <4>1. phase # "calling"
        BY <2>3, <3>4 DEF Next, Call, MayFail, EndOfText, Reset, Header, Source, LParen, Version,
             RParen, Dist, DistDelim, Urgency, UrgDelim, UrgLine, Changes, Maint, DateEnds,
             DateChar, Returned, At, vars
      <4>2. phase = "lexing"
        BY <2>3, <4>1 DEF IInv, TypeOK
      <4> QED
        BY <3>1, <3>2, <3>4, <4>2, NoFurther DEF TakenAll, Here
    <3> QED
      BY <1>3, <2>1, <3>3, <3>4 DEF ExactInv, TakenAll
  <2> QED
    BY <2>2, <2>3
<1> QED
  BY <1>2, <1>3, ListSteps

\* The list is what the lexer's places in the text say, up to the first entry it does not
\* take.
LEMMA TakenCorrect == Spec => [](TakenExact /\ TypeOK /\ Starts)
<1>1. Init => IInv /\ ExactInv
  <2> SUFFICES ASSUME Init PROVE IInv /\ ExactInv
    OBVIOUS
  <2>1. list = <<>> /\ state = "RESET" /\ pos = 0 /\ endchange = NoPosition /\ phase = "calling"
    BY DEF Init
  <2>2. IInv /\ TypeOK
    BY InitPlaced DEF IInv
  <2>3. Begin = 0
    BY <2>1 DEF Begin
  <2>4. Begin <= Here.src
    BY <2>2, <2>3, HereFacts
  <2>5. ReadAs(Here)
    BY <2>1, <2>3, <2>4 DEF ReadAs, HeaderRead, TermsRead, ChangesRead, OnWay, AfterSource, AfterVersion,
                            AfterDist, AfterUrg, States
  <2> QED
    BY <2>1, <2>2, <2>3, <2>5 DEF ExactInv, Reading, TakenEntries, Starts, StartOf
<1>2. IInv /\ ExactInv /\ [Next]_vars => IInv' /\ ExactInv'
  BY PlacedInv, ExactStep
<1>3. IInv /\ ExactInv => TakenExact /\ TypeOK /\ Starts
  BY DEF ExactInv, TakenExact, IInv
<1> QED
  BY <1>1, <1>2, <1>3, PTL DEF Spec
-----------------------------------------------------------------------------
(* The lexer and the format.                                                *)

\* A place that is one of these, with none before it, is the first.
LEMMA FirstIs ==
  ASSUME NEW from \in Nat, NEW n \in Nat, NEW places, NEW p \in Nat,
         from <= p, p < n, p \in places, \A q \in from..p - 1 : q \notin places
  PROVE  First(from, places, n) = p
<1>1. PICK r : r = First(from, places, n)
  OBVIOUS
<1>2. /\ r \in Nat /\ from <= r /\ (r >= n \/ r \in places)
      /\ \A q \in from..r - 1 : q < n /\ q \notin places
  BY <1>1, FirstFacts
<1>3. ~(r < p)
  BY <1>2
<1>4. ~(p < r)
  BY <1>2
<1> QED
  BY <1>1, <1>2, <1>3, <1>4

\* The same for the first character of another kind.
LEMMA PastIs ==
  ASSUME NEW t \in Seq(Chars), NEW from \in Nat, NEW kinds, NEW p \in Nat,
         from <= p, p < Len(t), t[p + 1] \notin kinds, \A q \in from..p - 1 : t[q + 1] \in kinds
  PROVE  Past(t, from, kinds) = p
<1>1. PICK r : r = Past(t, from, kinds)
  OBVIOUS
<1>2. /\ r \in Nat /\ from <= r /\ (r < Len(t) => t[r + 1] \notin kinds)
      /\ \A q \in from..r - 1 : q < Len(t) /\ t[q + 1] \in kinds
  BY <1>1, PastFacts
<1>3. ~(r < p)
  <2>1. Len(t) \in Nat
    OBVIOUS
  <2> QED
    BY <1>2, <2>1
<1>4. ~(p < r)
  BY <1>2
<1> QED
  BY <1>1, <1>2, <1>3, <1>4

\* Where the parts of an entry are, one found from the other.
LaidOut(t, from, p) ==
  /\ p.src = Past(t, from, White)
  /\ p.srcEnd = Past(t, p.src, PkgChars)
  /\ p.paren = Past(t, p.srcEnd, {SP})
  /\ p.verEnd = Past(t, p.paren + 1, VerChars)
  /\ p.distAt = Past(t, p.verEnd + 1, {SP})
  /\ p.distEnd = Past(t, p.distAt, Word \cup {SP})
  /\ p.key = Past(t, p.distEnd + 1, {SP})
  /\ p.urgEnd = Past(t, p.key + 1, Word)
  /\ p.headEnd = Past(t, p.distEnd, InLine)
  /\ p.trailer = First(p.headEnd, Trailers(t), Len(t))
  /\ p.changesEnd = First(p.headEnd, LastLines(t, p.trailer), Len(t))
  /\ p.maintEnd = Past(t, p.trailer + 5, InLine \ {">"})
  /\ p.date = Past(t, p.maintEnd + 1, {SP})
  /\ p.dateEnd = Past(t, p.date, InLine)

LEMMA LayoutFacts ==
  ASSUME NEW t, NEW from
  PROVE  LaidOut(t, from, Layout(t, from))
  BY Zenon DEF Layout, LaidOut

\* They are natural numbers, none before the one it is found from.
LEMMA LayoutOrder ==
  ASSUME NEW t \in Seq(Chars), NEW from \in Nat, NEW p, LaidOut(t, from, p)
  PROVE  /\ p.src \in Nat /\ p.srcEnd \in Nat /\ p.paren \in Nat /\ p.verEnd \in Nat
         /\ p.distAt \in Nat /\ p.distEnd \in Nat /\ p.key \in Nat /\ p.urgEnd \in Nat
         /\ p.headEnd \in Nat /\ p.trailer \in Nat /\ p.changesEnd \in Nat
         /\ p.maintEnd \in Nat /\ p.date \in Nat /\ p.dateEnd \in Nat
         /\ p.src <= p.srcEnd /\ p.srcEnd <= p.paren /\ p.paren + 1 <= p.verEnd
         /\ p.verEnd + 1 <= p.distAt /\ p.distAt <= p.distEnd /\ p.distEnd + 1 <= p.key
         /\ p.key + 1 <= p.urgEnd /\ p.distEnd <= p.headEnd /\ p.headEnd <= p.trailer
         /\ p.headEnd <= p.changesEnd /\ p.trailer + 5 <= p.maintEnd
         /\ p.maintEnd + 1 <= p.date /\ p.date <= p.dateEnd
<1>1. \A q \in Nat : \A kinds : Past(t, q, kinds) \in Nat /\ q <= Past(t, q, kinds)
  BY PastFacts
<1>2. \A q \in Nat : \A places : First(q, places, Len(t)) \in Nat /\ q <= First(q, places, Len(t))
  <2>1. Len(t) \in Nat
    OBVIOUS
  <2> QED
    BY <2>1, FirstFacts
<1>3. \A q \in Nat : q + 1 \in Nat /\ q + 5 \in Nat
  OBVIOUS
<1>4. p.src \in Nat /\ p.srcEnd \in Nat /\ p.src <= p.srcEnd
  BY <1>1 DEF LaidOut
<1>5. p.paren \in Nat /\ p.srcEnd <= p.paren
  BY <1>1, <1>4 DEF LaidOut
<1>6. p.verEnd \in Nat /\ p.paren + 1 <= p.verEnd
  BY <1>1, <1>3, <1>5 DEF LaidOut
<1>7. p.distAt \in Nat /\ p.verEnd + 1 <= p.distAt
  BY <1>1, <1>3, <1>6 DEF LaidOut
<1>8. p.distEnd \in Nat /\ p.distAt <= p.distEnd
  BY <1>1, <1>7 DEF LaidOut
<1>9. p.key \in Nat /\ p.distEnd + 1 <= p.key
  BY <1>1, <1>3, <1>8 DEF LaidOut
<1>10. p.urgEnd \in Nat /\ p.key + 1 <= p.urgEnd
  BY <1>1, <1>3, <1>9 DEF LaidOut
<1>11. p.headEnd \in Nat /\ p.distEnd <= p.headEnd
  BY <1>1, <1>8 DEF LaidOut
<1>12. p.trailer \in Nat /\ p.headEnd <= p.trailer
  BY <1>2, <1>11 DEF LaidOut
<1>13. p.changesEnd \in Nat /\ p.headEnd <= p.changesEnd
  BY <1>2, <1>11 DEF LaidOut
<1>14. p.maintEnd \in Nat /\ p.trailer + 5 <= p.maintEnd
  BY <1>1, <1>3, <1>12 DEF LaidOut
<1>15. p.date \in Nat /\ p.maintEnd + 1 <= p.date
  BY <1>1, <1>3, <1>14 DEF LaidOut
<1>16. p.dateEnd \in Nat /\ p.date <= p.dateEnd
  BY <1>1, <1>15 DEF LaidOut
<1> QED
  BY <1>4, <1>5, <1>6, <1>7, <1>8, <1>9, <1>10, <1>11, <1>12, <1>13, <1>14, <1>15, <1>16

\* An entry that has the format and that the lexer can take, with the lexer's places.
FormatAssumptions(t, from, p, r) ==
  /\ t \in Seq(Chars) /\ from \in Nat
  /\ LaidOut(t, from, p) /\ InFormat(t, p) /\ Plain(t, p) /\ Chain(t, from, r)

\* Up to the distributions the lexer goes from place to place with the format.
LEMMA SameHeader ==
  ASSUME NEW t, NEW from, NEW p, NEW r, FormatAssumptions(t, from, p, r)
  PROVE  /\ r.src = p.src /\ r.srcEnd = p.srcEnd /\ r.paren = p.paren /\ r.verEnd = p.verEnd
         /\ r.distAt = p.distAt /\ r.distEnd = p.distEnd
<1> USE DEF FormatAssumptions
<1>1. \A q \in Nat : \A kinds : LET e == Past(t, q, kinds) IN
        \A k \in q..e - 1 : k < Len(t) /\ t[k + 1] \in kinds
  BY PastFacts
<1>2. r.src = p.src /\ r.srcEnd = p.srcEnd
  BY DEF LaidOut, Chain
<1>3. r.paren = p.paren
  <2>1. p.paren < Len(t) /\ t[p.paren + 1] \notin White
    BY DEF InFormat, Is, White, NL, SP
  <2>2. \A q \in p.srcEnd..p.paren - 1 : t[q + 1] \in White
    <3>1. p.srcEnd \in Nat /\ p.paren = Past(t, p.srcEnd, {SP})
      BY LayoutOrder DEF LaidOut
    <3> QED
      BY <1>1, <3>1 DEF White
  <2>3. p.srcEnd \in Nat /\ p.paren \in Nat /\ p.srcEnd <= p.paren
    BY LayoutOrder
  <2>4. Past(t, p.srcEnd, White) = p.paren
    BY <2>1, <2>2, <2>3, PastIs
  <2> QED
    BY <1>2, <2>4 DEF Chain
<1>4. r.verEnd = p.verEnd
  <2>1. p.verEnd < Len(t) /\ t[p.verEnd + 1] \notin VerChars \cup {"_"}
    BY DEF InFormat, Is, VerChars
  <2>2. \A q \in p.paren + 1..p.verEnd - 1 : t[q + 1] \in VerChars \cup {"_"}
    <3>1. p.paren + 1 \in Nat
      BY LayoutOrder
    <3>2. p.verEnd = Past(t, p.paren + 1, VerChars)
      BY DEF LaidOut
    <3>3. \A q \in p.paren + 1..p.verEnd - 1 : t[q + 1] \in VerChars
      BY <3>1, <3>2, PastFacts
    <3> QED
      BY <3>3
  <2>3. p.paren + 1 \in Nat /\ p.verEnd \in Nat /\ p.paren + 1 <= p.verEnd
    BY LayoutOrder
  <2>4. Past(t, p.paren + 1, VerChars \cup {"_"}) = p.verEnd
    BY <2>1, <2>2, <2>3, PastIs
  <2> QED
    BY <1>3, <2>4 DEF Chain
<1>5. r.distAt = p.distAt
  BY <1>4 DEF LaidOut, Chain
<1>6. r.distEnd = p.distEnd
  <2>1. p.distEnd < Len(t) /\ t[p.distEnd + 1] \notin DistChars \cup {SP}
    BY DEF InFormat, Is, DistChars, NL, SP
  <2>2. \A q \in p.distAt..p.distEnd - 1 : t[q + 1] \in DistChars \cup {SP}
    BY DEF Plain
  <2>3. p.distAt \in Nat /\ p.distEnd \in Nat /\ p.distAt <= p.distEnd
    BY LayoutOrder
  <2>4. Past(t, p.distAt, DistChars \cup {SP}) = p.distEnd
    BY <2>1, <2>2, <2>3, PastIs
  <2> QED
    BY <1>5, <2>4 DEF Chain
<1> QED
  BY <1>2, <1>3, <1>4, <1>5, <1>6

\* The urgency is the format's too.  The lexer's body begins behind the header's newline,
\* or, when that newline ended the urgency, behind the empty line.
LEMMA SameUrgency ==
  ASSUME NEW t, NEW from, NEW p, NEW r, FormatAssumptions(t, from, p, r)
  PROVE  /\ r.body \in {p.headEnd + 1, p.headEnd + 2}
         /\ HasUrgency(t, p.distEnd) =>
              /\ r.key = p.key /\ r.urgEnd = p.urgEnd
              /\ Is(t, r.urgEnd, White) /\ Is(t, r.lineEnd, {NL})
<1> USE DEF FormatAssumptions
<1>1. \A q \in Nat : \A kinds : LET e == Past(t, q, kinds) IN
        /\ e < Len(t) => t[e + 1] \notin kinds
        /\ \A k \in q..e - 1 : k < Len(t) /\ t[k + 1] \in kinds
  BY PastFacts
<1>2. /\ p.distEnd \in Nat /\ p.key \in Nat /\ p.urgEnd \in Nat /\ p.headEnd \in Nat
      /\ p.distEnd + 1 <= p.key /\ p.key + 1 <= p.urgEnd /\ p.distEnd <= p.headEnd
  BY LayoutOrder
<1>3. /\ p.headEnd + 1 < Len(t) /\ t[p.headEnd + 1] = NL /\ t[(p.headEnd + 1) + 1] = NL
      /\ p.headEnd < Len(t)
  BY DEF InFormat, Is
<1>4. \A k \in p.distEnd..p.headEnd - 1 : t[k + 1] \in InLine
  BY <1>1, <1>2 DEF LaidOut
<1>5. r.distEnd = p.distEnd
  BY SameHeader
<1>6. CASE ~HasUrgency(t, p.distEnd)
  <2>1. t[p.distEnd + 1] = NL
    BY <1>6 DEF InFormat, Is, HasUrgency
  <2>2. p.headEnd = p.distEnd
    BY <1>2, <1>4, <2>1 DEF InLine
  <2> QED
    BY <1>5, <1>6, <2>2 DEF Chain
<1>7. CASE HasUrgency(t, p.distEnd)
  <2>1. /\ t[p.key + 1] = "U" /\ p.key < Len(t)
        /\ t[p.urgEnd + 1] \in White /\ p.urgEnd < Len(t)
    BY <1>7 DEF InFormat, Plain, Is
  <2>2. \A k \in p.distEnd + 1..p.key - 1 : t[k + 1] = SP
    BY <1>1, <1>2 DEF LaidOut
  <2>3. \A k \in p.key + 1..p.urgEnd - 1 : t[k + 1] \in Word
    BY <1>1, <1>2 DEF LaidOut
  <2>4. r.key = p.key
    <3>1. Past(t, p.distEnd + 1, White) = p.key
      <4>1. t[p.key + 1] \notin White /\ p.distEnd + 1 \in Nat
        BY <1>2, <2>1 DEF White, NL, SP
      <4>2. \A k \in p.distEnd + 1..p.key - 1 : t[k + 1] \in White
        BY <2>2 DEF White
      <4> QED
        BY <1>2, <2>1, <4>1, <4>2, PastIs
    <3> QED
      BY <1>5, <3>1 DEF Chain
  <2>5. r.urgEnd = p.urgEnd
    <3>1. \A k \in p.key + 1..p.urgEnd - 1 : t[k + 1] \in Chars \ White
      BY <2>3 DEF Word, White, Chars, NL, SP
    <3>2. Past(t, p.key + 1, Chars \ White) = p.urgEnd
      <4>1. p.key + 1 \in Nat /\ t[p.urgEnd + 1] \notin Chars \ White
        BY <1>2, <2>1
      <4> QED
        BY <1>2, <2>1, <3>1, <4>1, PastIs
    <3> QED
      BY <2>4, <3>2 DEF Chain
  <2>6. p.urgEnd <= p.headEnd
    <3>1. SUFFICES ASSUME p.headEnd < p.urgEnd PROVE FALSE
      BY <1>2
    <3>2. p.headEnd # p.distEnd
      BY <1>3, <1>7 DEF HasUrgency, NL
    <3>3. \/ p.headEnd \in p.distEnd + 1..p.key - 1
          \/ p.headEnd = p.key
          \/ p.headEnd \in p.key + 1..p.urgEnd - 1
      BY <1>2, <3>1, <3>2
    <3> QED
      BY <1>3, <2>1, <2>2, <2>3, <3>3 DEF NL, SP, Word
  <2>7. CASE p.urgEnd = p.headEnd
    <3>1. Past(t, p.urgEnd + 1, Chars \ {NL}) = p.headEnd + 1
      <4>1. /\ p.headEnd + 1 \in Nat /\ p.headEnd + 1 < Len(t)
            /\ t[(p.headEnd + 1) + 1] \notin Chars \ {NL}
            /\ \A q \in p.headEnd + 1..(p.headEnd + 1) - 1 : t[q + 1] \in Chars \ {NL}
        BY <1>2, <1>3
      <4> QED
        BY <2>7, <4>1, PastIs
    <3>2. r.lineEnd = p.headEnd + 1
      BY <2>5, <3>1 DEF Chain
    <3>3. r.body = p.headEnd + 2
      <4>1. r.body = r.lineEnd + 1
        BY <1>5, <1>7 DEF Chain
      <4> QED
        BY <1>2, <3>2, <4>1
    <3>4. Is(t, r.lineEnd, {NL})
      BY <1>3, <3>2 DEF Is
    <3> QED
      BY <2>1, <2>4, <2>5, <3>3, <3>4 DEF Is
  <2>8. CASE p.urgEnd # p.headEnd
    <3>1. Past(t, p.urgEnd + 1, Chars \ {NL}) = p.headEnd
      <4>1. p.urgEnd + 1 \in Nat /\ p.urgEnd + 1 <= p.headEnd
        BY <1>2, <2>6, <2>8
      <4>2. \A q \in p.urgEnd + 1..p.headEnd - 1 : t[q + 1] \in Chars \ {NL}
        BY <1>2, <1>4 DEF InLine
      <4>3. t[p.headEnd + 1] \notin Chars \ {NL}
        BY <1>3
      <4> QED
        BY <1>2, <1>3, <4>1, <4>2, <4>3, PastIs
    <3>2. r.lineEnd = p.headEnd
      BY <2>5, <3>1 DEF Chain
    <3>3. r.body = p.headEnd + 1 /\ Is(t, r.lineEnd, {NL})
      BY <1>2, <1>3, <1>5, <1>7, <3>2 DEF Chain, Is
    <3> QED
      BY <2>1, <2>4, <2>5, <3>3 DEF Is
  <2> QED
    BY <2>7, <2>8
<1> QED
  BY <1>6, <1>7

\* No trailer lies between the header and the lexer's body: the lexer finds the format's,
\* and with it maintainer and date.
LEMMA SameTrailer ==
  ASSUME NEW t, NEW from, NEW p, NEW r, FormatAssumptions(t, from, p, r)
  PROVE  /\ r.trailer = p.trailer /\ r.maintEnd = p.maintEnd
         /\ r.date = p.date /\ r.dateEnd = p.dateEnd
<1> USE DEF FormatAssumptions
<1>1. \A q \in Nat : \A kinds : LET e == Past(t, q, kinds) IN
        /\ e < Len(t) => t[e + 1] \notin kinds
        /\ \A k \in q..e - 1 : k < Len(t) /\ t[k + 1] \in kinds
  BY PastFacts
<1>2. /\ p.headEnd \in Nat /\ p.trailer \in Nat /\ p.maintEnd \in Nat
      /\ p.date \in Nat /\ p.dateEnd \in Nat /\ Len(t) \in Nat
      /\ p.headEnd <= p.trailer /\ p.trailer + 5 <= p.maintEnd
      /\ p.maintEnd + 1 <= p.date /\ p.date <= p.dateEnd
  BY LayoutOrder
<1>3. r.trailer = p.trailer
  <2>1. p.trailer < Len(t) /\ p.headEnd + 2 <= p.trailer
    <3>1. PICK k \in p.headEnd + 2..p.trailer - 1 : TRUE
      BY DEF InFormat
    <3>2. p.trailer < Len(t)
      BY DEF InFormat
    <3> QED
      BY <1>2, <3>1, <3>2
  <2>2. /\ p.trailer >= Len(t) \/ p.trailer \in Trailers(t)
        /\ \A q \in p.headEnd..p.trailer - 1 : q \notin Trailers(t)
    <3>1. p.trailer = First(p.headEnd, Trailers(t), Len(t))
      BY DEF LaidOut
    <3> QED
      BY <1>2, <3>1, FirstFacts
  <2>3. r.body \in Nat /\ p.headEnd <= r.body /\ r.body <= p.trailer
    <3>1. r.body \in {p.headEnd + 1, p.headEnd + 2}
      BY SameUrgency
    <3> QED
      BY <1>2, <2>1, <3>1
  <2>4. p.trailer \in Trailers(t) /\ \A q \in r.body..p.trailer - 1 : q \notin Trailers(t)
    BY <1>2, <2>1, <2>2, <2>3
  <2>5. First(r.body, Trailers(t), Len(t)) = p.trailer
    BY <1>2, <2>1, <2>3, <2>4, FirstIs
  <2> QED
    BY <2>5 DEF Chain
<1>4. r.maintEnd = p.maintEnd
  <2>1. p.maintEnd < Len(t) /\ t[p.maintEnd + 1] \notin Chars \ {">", NL}
    BY DEF InFormat, Is
  <2>2. p.trailer + 6 \in Nat /\ p.trailer + 6 <= p.maintEnd
    <3>1. p.trailer + 5 < p.maintEnd
      BY DEF InFormat
    <3> QED
      BY <1>2, <3>1
  <2>3. \A q \in p.trailer + 6..p.maintEnd - 1 : t[q + 1] \in Chars \ {">", NL}
    <3>1. \A q \in p.trailer + 5..p.maintEnd - 1 : t[q + 1] \in InLine \ {">"}
      <4>1. p.trailer + 5 \in Nat
        BY <1>2
      <4>2. p.maintEnd = Past(t, p.trailer + 5, InLine \ {">"})
        BY DEF LaidOut
      <4> QED
        BY <1>1, <4>1, <4>2
    <3> QED
      BY <1>2, <3>1 DEF InLine
  <2>4. Past(t, p.trailer + 6, Chars \ {">", NL}) = p.maintEnd
    BY <1>2, <2>1, <2>2, <2>3, PastIs
  <2> QED
    BY <1>3, <2>4 DEF Chain
<1>5. r.date = p.date
  <2>1. p.date < p.dateEnd /\ p.dateEnd < Len(t)
    BY DEF InFormat, Is
  <2>2. t[p.date + 1] \in InLine
    <3>1. p.dateEnd = Past(t, p.date, InLine)
      BY DEF LaidOut
    <3>2. p.date \in p.date..p.dateEnd - 1
      BY <1>2, <2>1
    <3> QED
      BY <1>1, <1>2, <3>1, <3>2
  <2>3. p.maintEnd + 1 \in Nat /\ p.date = Past(t, p.maintEnd + 1, {SP})
    BY <1>2 DEF LaidOut
  <2>4. p.date < Len(t)
    BY <1>2, <2>1
  <2>5. t[p.date + 1] \notin {SP} /\ \A q \in p.maintEnd + 1..p.date - 1 : t[q + 1] \in {SP}
    BY <1>1, <2>3, <2>4
  <2>6. t[p.date + 1] \notin White /\ \A q \in p.maintEnd + 1..p.date - 1 : t[q + 1] \in White
    BY <2>2, <2>5 DEF White, InLine
  <2>7. Past(t, p.maintEnd + 1, White) = p.date
    BY <1>2, <2>3, <2>4, <2>6, PastIs
  <2> QED
    BY <1>4, <2>7 DEF Chain
<1>6. r.dateEnd = p.dateEnd
  BY <1>5 DEF LaidOut, Chain, InLine
<1> QED
  BY <1>3, <1>4, <1>5, <1>6

\* The first newline of the lexer's body is not behind the changes.
LEMMA TextInChanges ==
  ASSUME NEW t, NEW from, NEW p, NEW r, FormatAssumptions(t, from, p, r)
  PROVE  /\ r.textEnd \in Nat /\ p.headEnd <= r.textEnd /\ r.textEnd <= p.changesEnd
         /\ Is(t, r.textEnd, {NL})
<1> USE DEF FormatAssumptions
<1>1. /\ p.headEnd \in Nat /\ p.trailer \in Nat /\ p.changesEnd \in Nat /\ Len(t) \in Nat
      /\ p.headEnd <= p.trailer /\ p.headEnd <= p.changesEnd
  BY LayoutOrder
<1>2. p.trailer < Len(t) /\ t[p.trailer + 1] = NL
  <2>1. p.trailer < Len(t)
    BY DEF InFormat
  <2>2. p.trailer \in Trailers(t)
    <3>1. p.trailer = First(p.headEnd, Trailers(t), Len(t))
      BY DEF LaidOut
    <3> QED
      BY <1>1, <2>1, <3>1, FirstFacts
  <2> QED
    BY <2>1, <2>2 DEF Trailers
<1>3. /\ p.changesEnd >= Len(t) \/ p.changesEnd \in LastLines(t, p.trailer)
      /\ \A q \in p.headEnd..p.changesEnd - 1 : q \notin LastLines(t, p.trailer)
  <2>1. p.changesEnd = First(p.headEnd, LastLines(t, p.trailer), Len(t))
    BY DEF LaidOut
  <2> QED
    BY <1>1, <2>1, FirstFacts
<1>4. p.changesEnd <= p.trailer
  <2>1. p.trailer \in LastLines(t, p.trailer)
    BY <1>1, <1>2 DEF LastLines
  <2> QED
    BY <1>1, <1>3, <2>1
<1>5. /\ p.changesEnd < Len(t) /\ t[p.changesEnd + 1] = NL
      /\ \A q \in p.changesEnd..p.trailer - 1 : q < Len(t) => t[q + 1] \in White
  BY <1>1, <1>2, <1>3, <1>4 DEF LastLines
<1>6. p.headEnd + 2 < p.changesEnd
  <2>1. PICK k \in p.headEnd + 2..p.trailer - 1 : t[k + 1] \notin White
    BY DEF InFormat
  <2>2. k \in Nat /\ k < Len(t) /\ k <= p.trailer - 1 /\ p.headEnd + 2 <= k
    BY <1>1, <1>2, <2>1
  <2>3. k \notin p.changesEnd..p.trailer - 1
    BY <1>5, <2>1, <2>2
  <2> QED
    BY <1>1, <2>2, <2>3
<1>7. /\ r.body \in Nat /\ p.headEnd <= r.body /\ r.body <= p.changesEnd
  BY <1>1, <1>6, SameUrgency
<1>8. /\ r.textEnd \in Nat /\ r.body <= r.textEnd
      /\ r.textEnd < Len(t) => t[r.textEnd + 1] \notin Chars \ {NL}
      /\ \A q \in r.body..r.textEnd - 1 : t[q + 1] \in Chars \ {NL}
  <2>1. r.textEnd = Past(t, r.body, Chars \ {NL})
    BY DEF Chain
  <2> QED
    BY <1>7, <2>1, PastFacts
<1>9. r.textEnd <= p.changesEnd
  BY <1>1, <1>5, <1>7, <1>8
<1>10. r.textEnd < Len(t) /\ t[r.textEnd + 1] \in Chars
  <2>1. r.textEnd < Len(t) /\ r.textEnd + 1 \in 1..Len(t)
    BY <1>1, <1>5, <1>8, <1>9
  <2> QED
    BY <2>1
<1> QED
  BY <1>1, <1>7, <1>8, <1>9, <1>10 DEF Is

\* The lexer takes every entry that has the format, and what it makes of it is that entry.
LEMMA FormatTaken ==
  ASSUME NEW t, NEW from, NEW p, NEW r, FormatAssumptions(t, from, p, r)
  PROVE  Taken(t, r) /\ IsEntry(t, p, TakenEntry(t, r))
<1>1. /\ r.src = p.src /\ r.srcEnd = p.srcEnd /\ r.paren = p.paren /\ r.verEnd = p.verEnd
      /\ r.distAt = p.distAt /\ r.distEnd = p.distEnd
  BY SameHeader
<1>2. HasUrgency(t, p.distEnd) =>
        r.key = p.key /\ r.urgEnd = p.urgEnd /\ Is(t, r.urgEnd, White) /\ Is(t, r.lineEnd, {NL})
  BY SameUrgency
<1>3. r.trailer = p.trailer /\ r.maintEnd = p.maintEnd /\ r.date = p.date /\ r.dateEnd = p.dateEnd
  BY SameTrailer
<1>4. InFormat(t, p)
  BY DEF FormatAssumptions
<1>5. Taken(t, r)
  <2>1. Is(t, r.srcEnd, White) /\ Is(t, r.paren, {"("}) /\ Is(t, r.verEnd, {")"})
    BY <1>1, <1>4 DEF InFormat, Is, White
  <2>2. Is(t, r.distEnd, {";", NL, ":"})
    BY <1>1, <1>4 DEF InFormat, Is
  <2>3. HasUrgency(t, r.distEnd) =>
          Is(t, r.key, {"U"}) /\ Is(t, r.urgEnd, White) /\ Is(t, r.lineEnd, {NL})
    BY <1>1, <1>2, <1>4 DEF InFormat
  <2>4. r.trailer < Len(t) /\ Is(t, r.maintEnd, {">"}) /\ Is(t, r.dateEnd, {NL})
    BY <1>3, <1>4 DEF InFormat
  <2> QED
    BY <2>1, <2>2, <2>3, <2>4 DEF Taken
<1>6. PICK e : e = TakenEntry(t, r)
  OBVIOUS
<1>7. e = [EntryOf(t, p) EXCEPT !.text = e.text] /\ e.text = Between(p.src, r.textEnd)
  <2>1. e = [source |-> Between(p.src, p.srcEnd), version |-> Between(p.paren + 1, p.verEnd),
             dist |-> IF p.distAt = p.distEnd THEN NoSlice ELSE Between(p.distAt, p.distEnd),
             urg |-> IF HasUrgency(t, p.distEnd) THEN Between(p.key + 1, p.urgEnd) ELSE NoSlice,
             maintainer |-> Between(p.trailer + 5, p.maintEnd + 1),
             date |-> Between(p.date, p.dateEnd), text |-> Between(p.src, r.textEnd)]
    BY <1>1, <1>2, <1>3, <1>6 DEF TakenEntry
  <2> QED
    BY <2>1 DEF EntryOf
<1>8. e.text.from = p.src /\ End(e.text) = r.textEnd
  <2>1. p.src \in Nat /\ r.textEnd \in Nat
    BY LayoutOrder, TextInChanges DEF FormatAssumptions
  <2> QED
    BY <1>7, <2>1 DEF Between, Slice, End
<1> QED
  BY <1>5, <1>6, <1>7, <1>8, TextInChanges DEF IsEntry

\* Whatever the text and the faults, an entry of the list that has the format is that
\* entry, each field at its place and the text cut behind one of its own lines; and unless
\* a call has failed no entry that has the format follows the last one.
THEOREM EntriesExactCorrect == Spec => []EntriesExact
<1>1. TakenExact /\ TypeOK /\ Starts => EntriesExact
  <2> SUFFICES ASSUME TakenExact, TypeOK, Starts, phase = "returned"
               PROVE  EntriesExact
    BY DEF EntriesExact
  <2>1. TakenEntries(in.text, list) /\ (in.faults = {} => TakenAll(in.text, list))
    BY DEF TakenExact
  <2>2. in.text \in Seq(Chars) /\ Len(list) \in Nat /\ DOMAIN list = 1..Len(list)
    BY InputFacts DEF TypeOK
  <2>3. ASSUME NEW i \in 1..Len(list) + 1, Expected(i)
        PROVE  LET r == LexedOf(in.text, list, i) IN
                 Taken(in.text, r) /\ IsEntry(in.text, LayoutOf(i), TakenEntry(in.text, r))
    <3>1. PICK from \in Nat : from = StartOf(list, i)
      BY DEF Starts
    <3>2. FormatAssumptions(in.text, from, Layout(in.text, from), Lexed(in.text, from))
      BY <2>2, <2>3, <3>1, LayoutFacts, PlaceFacts DEF FormatAssumptions, Expected, LayoutOf
    <3> QED
      BY <3>1, <3>2, FormatTaken DEF LexedOf, LayoutOf
  <2>4. ASSUME NEW i \in DOMAIN list, Expected(i)
        PROVE  IsEntry(in.text, LayoutOf(i), list[i])
    BY <2>1, <2>2, <2>3, <2>4 DEF TakenEntries
  <2>5. ASSUME in.faults = {} PROVE ~Expected(Len(list) + 1)
    BY <2>1, <2>2, <2>3, <2>5 DEF TakenAll
  <2> QED
    BY <2>4, <2>5 DEF EntriesExact
<1> QED
  BY <1>1, TakenCorrect, PTL

=============================================================================
