------------------------------ MODULE Changelog ------------------------------
(***************************************************************************)
(* lex_changelog() of src/lib/changelog.c: a Debian changelog, newest      *)
(* entry first, is read character by character, and every entry that is    *)
(* read to its date goes to the end of the list that is returned.          *)
(*                                                                         *)
(* A character is of the kind that the lexer tells apart: "L" a letter,    *)
(* "G" a digit, "U" all of "urgency=" or "priority=", "*" any that is      *)
(* valid nowhere.  Positions are the code's, so that the first is 0.  A    *)
(* string that the code duplicates is its slice of the text.  A case that  *)
(* falls through into the next one is a step that stays where it is.       *)
(***************************************************************************)
EXTENDS Integers, Sequences

CONSTANT Inputs  \* the calls considered: text, and faults that may occur

NL == "newline"
SP == "blank"
Chars == {NL, SP, "L", "G", "-", "(", ")", ";", ":", ">", "_", "U", "*"}

ASSUME ChangelogAssumption ==
  \A in \in Inputs : in.text \in Seq(Chars) /\ in.faults \subseteq {"mapit", "malloc", "strndup"}

VARIABLES
  in,        \* the call's input
  phase,     \* "calling", "lexing" or "returned"
  state,     \* STATE_..., while lexing
  pos,
  cl,        \* the entry that is being read, NoEntry for NULL
  list,      \* the entries that hang on head, in list order
  source, version, dist, urg, maint,  \* each pointer with its length
  endchange, \* NULL is NoPosition
  ret,       \* what is returned, "none" yet, "null" or "head"
  cptr       \* *cptr: "none" yet, "null" or "head"

slices == <<source, version, dist, urg, maint>>
scratch == <<slices, endchange>>
result == <<ret, cptr>>
vars == <<in, phase, state, pos, cl, list, scratch, result>>

Slice(from, len) == [from |-> from, len |-> len]
NoSlice == Slice(-1, 0)
NoPosition == -1
EmptyEntry == [source |-> NoSlice, version |-> NoSlice, dist |-> NoSlice, urg |-> NoSlice,
               maintainer |-> NoSlice, date |-> NoSlice, text |-> NoSlice]
NoEntry == [EmptyEntry EXCEPT !.source = Slice(-2, 0)]

length == Len(in.text)
Char == in.text[pos + 1]
IsSpace(c) == c \in {NL, SP}
PkgChars == {"L", "G", "-"}
VerChars == {"L", "G", "-", ":"}
DistChars == {"L", "-"}

Init ==
  /\ in \in Inputs
  /\ phase = "calling" /\ state = "RESET" /\ pos = 0
  /\ cl = NoEntry /\ list = <<>>
  /\ source = NoSlice /\ version = NoSlice /\ dist = NoSlice /\ urg = NoSlice /\ maint = NoSlice
  /\ endchange = NoPosition
  /\ ret = "none" /\ cptr = "none"

-----------------------------------------------------------------------------
(* The ways out.                                                            *)

MayFail(kind) == kind \in in.faults
Head0 == IF list = <<>> THEN "null" ELSE "head"

Leave == phase' = "returned" /\ ret' = Head0 /\ cl' = NoEntry

\* err: the entries before this one go to *cptr.
Err == Leave /\ cptr' = Head0 /\ UNCHANGED <<in, state, pos, list, scratch>>

\* Mutation: an invalid line returns NULL, as an error was meant to.
Abort_Null ==
  /\ phase' = "returned" /\ ret' = "null" /\ cl' = NoEntry
  /\ UNCHANGED <<in, state, pos, list, scratch, cptr>>

\* An invalid line: as for dpkg-parsechangelog, no error; *cptr is not written.
Abort == Leave /\ UNCHANGED <<in, state, pos, list, scratch, cptr>>

\* lex_changelog(), and lex_changelog_map() before its loop.
Call ==
  /\ phase = "calling"
  /\ cptr' = "null"
  /\ \/ phase' = "lexing" /\ UNCHANGED ret
     \/ MayFail("mapit") /\ phase' = "returned" /\ ret' = "null"
  /\ UNCHANGED <<in, state, pos, cl, list, scratch>>

\* The end of the text; an entry that is not complete is forgotten.
EndOfText ==
  /\ phase = "lexing" /\ pos >= length
  /\ Leave /\ cptr' = Head0
  /\ UNCHANGED <<in, state, pos, list, scratch>>

-----------------------------------------------------------------------------
(* The cases of the loop.                                                   *)

At(s) == phase = "lexing" /\ pos < length /\ state = s
Go(s, n) == state' = s /\ pos' = pos + n
Longer(slice) == [slice EXCEPT !.len = @ + 1]

\* A case that does nothing but go on.
Pass(s) == Go(s, 1) /\ UNCHANGED <<in, phase, cl, list, scratch, result>>

\* strndup() of a slice into a field of the entry.
Keep(field, slice) ==
  cl' = [cl EXCEPT ![field] = slice] /\ UNCHANGED <<in, phase, list, scratch, result>>

Reset ==
  /\ At("RESET")
  /\ \/ IsSpace(Char) /\ Pass("RESET")
     \/ /\ ~IsSpace(Char)
        /\ cl' = EmptyEntry
        /\ source' = Slice(pos, 0)
        /\ Go("SOURCE", 0)
        /\ UNCHANGED <<in, phase, list, version, dist, urg, maint, endchange, result>>
     \/ ~IsSpace(Char) /\ MayFail("malloc") /\ Err

Source ==
  /\ At("SOURCE")
  /\ \/ IsSpace(Char) /\ Keep("source", source) /\ Go("VERSION_LPAREN", 1)
     \/ IsSpace(Char) /\ MayFail("strndup") /\ Err
     \/ ~IsSpace(Char) /\ Char \notin PkgChars /\ Abort
     \/ /\ Char \in PkgChars
        /\ source' = Longer(source)
        /\ Go("SOURCE", 1)
        /\ UNCHANGED <<in, phase, cl, list, version, dist, urg, maint, endchange, result>>

LParen ==
  /\ At("VERSION_LPAREN")
  /\ \/ IsSpace(Char) /\ Pass("VERSION_LPAREN")
     \/ /\ Char = "("
        /\ version' = Slice(pos + 1, 0)
        /\ Go("VERSION", 1)
        /\ UNCHANGED <<in, phase, cl, list, source, dist, urg, maint, endchange, result>>
     \/ ~IsSpace(Char) /\ Char # "(" /\ Abort

\* An underscore is invalid, and taken with a warning.
Version ==
  /\ At("VERSION")
  /\ \/ Char = ")" /\ Keep("version", version) /\ Go("VERSION_RPAREN", 1)
     \/ Char = ")" /\ MayFail("strndup") /\ Err
     \/ Char \notin VerChars \cup {"_", ")"} /\ Err
     \/ /\ Char \in VerChars \cup {"_"}
        /\ version' = Longer(version)
        /\ Go("VERSION", 1)
        /\ UNCHANGED <<in, phase, cl, list, source, dist, urg, maint, endchange, result>>

RParen ==
  /\ At("VERSION_RPAREN")
  /\ \/ Char = SP /\ Pass("VERSION_RPAREN")
     \/ /\ Char # SP
        /\ dist' = Slice(pos, 0)
        /\ Go("DIST", 0)
        /\ UNCHANGED <<in, phase, cl, list, source, version, urg, maint, endchange, result>>

\* Mutation: the header has one distribution.
Dist_OneOnly ==
  /\ At("DIST")
  /\ \/ /\ Char \in {";", NL, ":"}
        /\ IF dist.len = 0 THEN UNCHANGED <<in, phase, cl, list, scratch, result>>
                           ELSE Keep("dist", dist)
        /\ IF Char = ";" THEN Go("DISTDELIM", 0) ELSE Go("CHANGES", 1)
     \/ Char \in {";", NL, ":"} /\ dist.len > 0 /\ MayFail("strndup") /\ Err
     \/ Char \notin {";", NL, ":"} \cup DistChars /\ Err
     \/ /\ Char \in DistChars
        /\ dist' = Longer(dist)
        /\ Go("DIST", 1)
        /\ UNCHANGED <<in, phase, cl, list, source, version, urg, maint, endchange, result>>

\* The distributions end with a semicolon, or with the header.
Dist ==
  /\ At("DIST")
  /\ \/ /\ Char \in {";", NL, ":"}
        /\ IF dist.len = 0 THEN UNCHANGED <<in, phase, cl, list, scratch, result>>
                           ELSE Keep("dist", dist)
        /\ IF Char = ";" THEN Go("DISTDELIM", 0) ELSE Go("CHANGES", 1)
     \/ Char \in {";", NL, ":"} /\ dist.len > 0 /\ MayFail("strndup") /\ Err
     \/ Char \notin {";", NL, ":", SP} \cup DistChars /\ Err
     \/ /\ Char \in {SP} \cup DistChars
        /\ dist' = Longer(dist)
        /\ Go("DIST", 1)
        /\ UNCHANGED <<in, phase, cl, list, source, version, urg, maint, endchange, result>>

\* Reached with a semicolon only.
DistDelim == At("DISTDELIM") /\ Char = ";" /\ Pass("URGENCY")

\* Behind the keyword the code reads on without asking whether the text has ended;
\* an entry that ends there is forgotten whatever it reads.
Urgency ==
  /\ At("URGENCY")
  /\ \/ IsSpace(Char) /\ Pass("URGENCY")
     \/ /\ Char = "U"
        /\ urg' = Slice(pos + 1, 0)
        /\ Go("URGDELIM", 1)
        /\ UNCHANGED <<in, phase, cl, list, source, version, dist, maint, endchange, result>>
     \/ ~IsSpace(Char) /\ Char # "U" /\ Err

UrgDelim ==
  /\ At("URGDELIM")
  /\ \/ IsSpace(Char) /\ Keep("urg", urg) /\ Go("URGLINE", 1)
     \/ IsSpace(Char) /\ MayFail("strndup") /\ Err
     \/ /\ ~IsSpace(Char)
        /\ urg' = Longer(urg)
        /\ Go("URGDELIM", 1)
        /\ UNCHANGED <<in, phase, cl, list, source, version, dist, maint, endchange, result>>

UrgLine == At("URGLINE") /\ Pass(IF Char = NL THEN "CHANGES" ELSE "URGLINE")

\* Mutation: what lies behind the text's end is taken for the rest of the trailer.
Trailer_PastEnd ==
  \A i \in 1..4 : pos + 1 + i <= length => in.text[pos + 1 + i] = <<SP, "-", "-", SP>>[i]

\* The newline at pos is followed by " -- ".
Trailer == length - pos >= 5 /\ SubSeq(in.text, pos + 2, pos + 5) = <<SP, "-", "-", SP>>

\* The end of the changes is the first newline here.  The maintainer's first character
\* is passed over with the trailer.
Changes ==
  /\ At("CHANGES")
  /\ endchange' = IF Char = NL /\ endchange = NoPosition THEN pos ELSE endchange
  /\ \/ /\ Char = NL /\ Trailer
        /\ maint' = Slice(pos + 5, 0)
        /\ Go("MAINT", 6)
     \/ /\ ~(Char = NL /\ Trailer)
        /\ Go("CHANGES", 1) /\ UNCHANGED maint
  /\ UNCHANGED <<in, phase, cl, list, source, version, dist, urg, result>>

\* Mutation: the maintainer may go on in the next line.
Maint_NextLine ==
  /\ At("MAINT")
  /\ \/ /\ Char = ">" /\ Go("DATE", 1)
        /\ Keep("maintainer", Slice(maint.from, maint.len + 2))
     \/ Char = ">" /\ MayFail("strndup") /\ Err
     \/ /\ Char # ">"
        /\ maint' = Longer(maint)
        /\ Go("MAINT", 1)
        /\ UNCHANGED <<in, phase, cl, list, source, version, dist, urg, endchange, result>>

\* The first character and the angle bracket are not in maint's length.
Maint ==
  /\ At("MAINT")
  /\ \/ /\ Char = ">" /\ Go("DATE", 1)
        /\ Keep("maintainer", Slice(maint.from, maint.len + 2))
     \/ Char = ">" /\ MayFail("strndup") /\ Err
     \/ Char = NL /\ Err
     \/ /\ Char \notin {">", NL}
        /\ maint' = Longer(maint)
        /\ Go("MAINT", 1)
        /\ UNCHANGED <<in, phase, cl, list, source, version, dist, urg, endchange, result>>

DateFrom == maint.from + maint.len + 2
Date == Slice(DateFrom, pos - DateFrom)
Text == Slice(source.from, endchange - source.from)

\* Mutation: the end of the changes is not forgotten with the entry.
DateEnds_EndKept ==
  /\ At("DATE") /\ Char = NL /\ DateFrom # pos
  /\ \/ /\ list' = Append(list, [cl EXCEPT !.date = Date, !.text = Text])
        /\ cl' = NoEntry
        /\ Go("RESET", 1)
        /\ UNCHANGED <<in, phase, slices, endchange, result>>
     \/ MayFail("strndup") /\ Err

\* The entry is complete and goes to the end of the list.
DateEnds ==
  /\ At("DATE") /\ Char = NL /\ DateFrom # pos
  /\ \/ /\ list' = Append(list, [cl EXCEPT !.date = Date, !.text = Text])
        /\ cl' = NoEntry
        /\ endchange' = NoPosition
        /\ Go("RESET", 1)
        /\ UNCHANGED <<in, phase, slices, result>>
     \/ MayFail("strndup") /\ Err

\* All white space before the date is passed over, a newline too.
DateChar ==
  /\ At("DATE") /\ ~(Char = NL /\ DateFrom # pos)
  /\ maint' = IF IsSpace(Char) /\ DateFrom = pos THEN Longer(maint) ELSE maint
  /\ Go("DATE", 1)
  /\ UNCHANGED <<in, phase, cl, list, source, version, dist, urg, endchange, result>>

Header == Source \/ LParen \/ Version \/ RParen \/ Dist \/ DistDelim \/ Urgency \/ UrgDelim \/ UrgLine

Returned == phase = "returned" /\ UNCHANGED vars

Next == Call \/ EndOfText \/ Reset \/ Header \/ Changes \/ Maint \/ DateEnds \/ DateChar \/ Returned

Spec == Init /\ [][Next]_vars

-----------------------------------------------------------------------------
(* Properties.                                                              *)

Slices == [from : Int, len : Int]
Entries == [source : Slices, version : Slices, dist : Slices, urg : Slices,
            maintainer : Slices, date : Slices, text : Slices]

States == {"RESET", "SOURCE", "VERSION_LPAREN", "VERSION", "VERSION_RPAREN", "DIST", "DISTDELIM",
           "URGENCY", "URGDELIM", "URGLINE", "CHANGES", "MAINT", "DATE"}

\* The variables keep their types.
TypeOK ==
  /\ in \in Inputs
  /\ phase \in {"calling", "lexing", "returned"} /\ state \in States
  /\ pos \in 0..length + 1
  /\ cl \in Entries /\ list \in Seq(Entries)
  /\ source \in Slices /\ version \in Slices /\ dist \in Slices /\ urg \in Slices
  /\ maint \in Slices
  /\ endchange \in 0..length - 1 \cup {NoPosition}
  /\ ret \in {"none", "null", "head"} /\ cptr \in {"none", "null", "head"}

End(slice) == slice.from + slice.len
CharsOf(slice) == {in.text[i] : i \in slice.from + 1..End(slice)}

WellPlaced(e) ==
  /\ 0 <= e.source.from /\ 0 < e.source.len
  /\ End(e.source) < e.version.from /\ 0 <= e.version.len
  /\ e.dist # NoSlice => End(e.version) < e.dist.from /\ End(e.dist) <= End(e.text)
  /\ e.urg # NoSlice => End(e.version) < e.urg.from /\ End(e.urg) < End(e.text)
  /\ e.dist # NoSlice /\ e.urg # NoSlice => End(e.dist) < e.urg.from
  /\ e.text.from = e.source.from /\ End(e.version) < End(e.text)
  /\ End(e.text) < e.maintainer.from
  /\ End(e.maintainer) <= e.date.from /\ 0 < e.date.len
  /\ End(e.date) < length

\* In every entry of the list the fields lie inside the text one behind the other, the
\* text ends before the maintainer, and an entry ends before the next begins: no
\* pointer of an earlier entry is used for a later one.
EntriesApart ==
  /\ \A i \in DOMAIN list : WellPlaced(list[i])
  /\ \A i \in 1..Len(list) - 1 : End(list[i].date) < list[i + 1].source.from

Clean(e) ==
  /\ CharsOf(e.source) \subseteq PkgChars
  /\ CharsOf(e.version) \subseteq VerChars \cup {"_"}
  /\ CharsOf(e.dist) \subseteq DistChars \cup {SP}
  /\ CharsOf(e.urg) \cap {NL, SP} = {}
  /\ in.text[End(e.maintainer)] = ">" /\ in.text[End(e.text) + 1] = NL
  /\ NL \notin CharsOf([e.maintainer EXCEPT !.from = @ + 1, !.len = @ - 1])
  /\ NL \notin CharsOf(e.date) /\ in.text[e.date.from + 1] # SP

\* Every field of an entry has the characters it may have, whatever stood between the
\* fields: the maintainer ends with its angle bracket, the date is one line and does
\* not begin with white space, and a newline is what follows the text.
FieldsClean == \A i \in DOMAIN list : Clean(list[i])

\* Whatever ends the lexing, the caller can reach every entry completed until then, as
\* the return value or through *cptr, and is handed nothing when there is none
\* (changelog.c, lines 282-284, and raptorial.h, lines 171-172).
EntriesReachable ==
  phase = "returned" => IF list = <<>> THEN "head" \notin {ret, cptr} ELSE "head" \in {ret, cptr}
=============================================================================
