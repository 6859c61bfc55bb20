------------------------------- MODULE PkgLex -------------------------------
(***************************************************************************)
(* lex_packages_file() and lex_status_file() of src/lib/packages.c: a      *)
(* Packages or dpkg status file is cut into chunks of csize bytes; each    *)
(* lexer takes the next chunk (get_new_offset), skips the record that the  *)
(* chunk before it left unfinished, and lexes every record that starts     *)
(* inside the chunk, reading past the chunk's end to finish the last one.  *)
(* The objects go to a private list that is spliced into the shared        *)
(* package list when the lexer is through, and, when a trie ("dfa")        *)
(* filters the list, to the trie object of their name as they are made.    *)
(*                                                                         *)
(* One character of the text stands for what the lexer tells apart: a      *)
(* newline; at the head of a line, a name n for "Package: n", "V" for a    *)
(* Version line and "S" for "Status: install "; "D" for anything else.     *)
(* Past the head of a line only newlines matter, as in the code.           *)
(***************************************************************************)
EXTENDS Integers, Sequences, FiniteSets

CONSTANTS
  Lexers,    \* the threads there are to run lex_chunks()
  Names,     \* package names
  Inputs     \* the calls considered: text, csize, statusfile, dfa argument,
             \* crew, the lexers that run (create_pkglist() runs just one), and
             \* faults, the failures that the environment may inject

NL == "newline"
Chars == Names \cup {NL, "V", "S", "D"}

\* The dfa argument: NULL, a pointer to NULL, or a pointer to a trie.
DfaModes == {"none", "build", "filter"}

\* A chunk must be able to hold the two characters before the next one.  Only
\* one lexer may build a trie: nothing orders its construction otherwise.
ASSUME LexAssumption ==
  /\ IsFiniteSet(Lexers) /\ Lexers # {}
  /\ Names \cap {NL, "V", "S", "D", "null"} = {}
  /\ \A in \in Inputs :
       /\ in.text \in Seq(Chars)
       /\ in.csize \in Nat /\ in.csize >= 2
       /\ in.statusfile \in BOOLEAN
       /\ in.dfa \in DfaModes /\ in.known \subseteq Names
       /\ in.faults \subseteq {"mapit", "pkglist", "package", "augment"}
       /\ in.crew \subseteq Lexers /\ in.crew # {}
       /\ in.dfa = "build" => Cardinality(in.crew) = 1

VARIABLES
  pp,        \* struct pkgparse's constant part: the call's input
  main,      \* where the caller stands: "calling", "lexing", "returned"
  ret,       \* what it returns: "none" yet, "null" or "list"
  err,       \* has *err been written?
  offset,    \* pp->offset: start of the next chunk
  pobjs,     \* the package list's objects, in list order
  pcount,    \* the package list's count
  chain,     \* chain[n]: objects hung under the trie's object for n, newest first
  root,      \* root[n]: the object augment_dfa() stored for n, by record
  pc,        \* where each lexer stands
  lo, hi,    \* the lexer's chunk: start and end
  cur,       \* c: the character it looks at
  st,        \* state, with EXPECT and DELIM folded into PDATA
  rec,       \* where the record it is in began
  delim,     \* the name that a Package: line carries
  field,     \* pname, pver and pstatus
  mine,      \* the lexer's own list, in file order
  begun      \* history: how often each position was taken for a record's start

callvars == <<pp, main, ret, err>>
listvars == <<pobjs, pcount, root>>
linevars == <<st, rec, delim, field>>
vars == <<callvars, offset, listvars, chain, pc, lo, hi, cur, linevars, mine, begun>>

Len0 == Len(pp.text)
CharAt(i) == pp.text[i + 1]
Positions == 0..(Len0 - 1)

NoFields == [name |-> "null", ver |-> FALSE, stat |-> FALSE]

Init ==
  /\ pp \in Inputs
  /\ main = "calling" /\ ret = "none" /\ err = FALSE
  /\ offset = 0
  /\ pobjs = <<>> /\ pcount = 0
  /\ chain = [n \in Names |-> <<>>]
  /\ root = [n \in Names |-> -1]
  /\ pc = [l \in Lexers |-> IF l \in pp.crew THEN "offset" ELSE "done"]
  /\ lo = [l \in Lexers |-> 0]
  /\ hi = [l \in Lexers |-> 0]
  /\ cur = [l \in Lexers |-> 0]
  /\ st = [l \in Lexers |-> "RESET"]
  /\ rec = [l \in Lexers |-> 0]
  /\ delim = [l \in Lexers |-> "null"]
  /\ field = [l \in Lexers |-> NoFields]
  /\ mine = [l \in Lexers |-> <<>>]
  /\ begun = [p \in Positions |-> 0]

-----------------------------------------------------------------------------
(* The steps of a lexer.                                                    *)

MayFail(kind) == kind \in pp.faults
At(l, label) == main = "lexing" /\ pc[l] = label
Goto(l, label) == pc' = [pc EXCEPT ![l] = label]
SetState(l, s) == st' = [st EXCEPT ![l] = s]
Step(l) == cur' = [cur EXCEPT ![l] = @ + 1]

\* get_new_offset(): the chunk after the one at offset.
NextOffset == IF Len0 - offset < pp.csize THEN Len0 ELSE offset + pp.csize

\* Mutation: the last chunk is not cut to the length of the text.
ChunkEnd_Uncut == offset + pp.csize
ChunkEnd == IF pp.csize + offset > Len0 THEN Len0 ELSE offset + pp.csize

\* Mutation: the search for a record starts with the chunk.
SkipFrom_Start == offset
SkipFrom == offset - 2

\* The locked section of get_new_offset() and the head of lex_chunk().
TakeChunk(l) ==
  /\ At(l, "offset") /\ offset < Len0
  /\ offset' = NextOffset
  /\ lo' = [lo EXCEPT ![l] = offset]
  /\ hi' = [hi EXCEPT ![l] = ChunkEnd]
  /\ IF offset = 0
       THEN /\ cur' = [cur EXCEPT ![l] = 0]
            /\ SetState(l, "RESET") /\ Goto(l, "lex")
       ELSE /\ cur' = [cur EXCEPT ![l] = SkipFrom]
            /\ SetState(l, "PDATA") /\ Goto(l, "skip")
  /\ field' = [field EXCEPT ![l] = NoFields]
  /\ UNCHANGED <<callvars, listvars, chain, rec, delim, mine, begun>>

NoMoreChunks(l) ==
  /\ At(l, "offset") /\ offset = Len0
  /\ Goto(l, "splice")
  /\ UNCHANGED <<callvars, offset, listvars, chain, lo, hi, cur, linevars, mine, begun>>

\* Look for the first double newline, from two characters before the chunk on.
SkipChar(l) ==
  /\ At(l, "skip") /\ cur[l] < hi[l]
  /\ Step(l)
  /\ \/ CharAt(cur[l]) = NL /\ st[l] = "NLINE" /\ SetState(l, "RESET") /\ Goto(l, "lex")
     \/ CharAt(cur[l]) = NL /\ st[l] # "NLINE" /\ SetState(l, "NLINE") /\ UNCHANGED pc
     \/ CharAt(cur[l]) # NL /\ SetState(l, "PDATA") /\ UNCHANGED pc
  /\ UNCHANGED <<callvars, offset, listvars, chain, lo, hi, rec, delim, field, mine, begun>>

SkipAll(l) ==
  /\ At(l, "skip") /\ cur[l] = hi[l]
  /\ SetState(l, "RESET") /\ Goto(l, "lex")
  /\ UNCHANGED <<callvars, offset, listvars, chain, lo, hi, cur, rec, delim, field, mine, begun>>

\* Mutation: the chunk's end does not stop a lexer that is between records.
Lexing_PastEnd(l) == At(l, "lex") /\ cur[l] < Len0

\* The loop's condition: inside the chunk, or inside a record that started there.
Lexing(l) ==
  /\ At(l, "lex")
  /\ cur[l] < hi[l] \/ (st[l] # "RESET" /\ cur[l] < Len0)

\* A character other than a newline.
LexChar(l) ==
  /\ Lexing(l) /\ CharAt(cur[l]) # NL
  /\ Step(l)
  /\ LET ch == CharAt(cur[l]) IN
     IF st[l] \in {"RESET", "NLINE"}
       THEN /\ SetState(l, CASE ch \in Names -> "PKG" [] ch = "V" -> "VER"
                             [] ch = "S" -> "STAT" [] OTHER -> "PDATA")
            /\ delim' = [delim EXCEPT ![l] = IF ch \in Names THEN ch ELSE "null"]
       ELSE UNCHANGED <<st, delim>>
  /\ IF st[l] = "RESET"
       THEN /\ rec' = [rec EXCEPT ![l] = cur[l]]
            /\ begun' = [begun EXCEPT ![cur[l]] = @ + 1]
       ELSE UNCHANGED <<rec, begun>>
  /\ UNCHANGED <<callvars, offset, listvars, chain, pc, lo, hi, field, mine>>

\* A newline between records.
LexBlank(l) ==
  /\ Lexing(l) /\ CharAt(cur[l]) = NL /\ st[l] = "RESET"
  /\ Step(l)
  /\ UNCHANGED <<callvars, offset, listvars, chain, pc, lo, hi, linevars, mine, begun>>

\* Mutation: only a second Package: line is refused.
Repeated_NameOnly(l) == st[l] = "PKG" /\ field[l].name # "null"

\* The line names a field that the record already has.
Repeated(l) ==
  \/ st[l] = "PKG" /\ field[l].name # "null"
  \/ st[l] = "VER" /\ field[l].ver
  \/ st[l] = "STAT" /\ field[l].stat

\* The newline that ends a line of a record.
LexLine(l) ==
  /\ Lexing(l) /\ CharAt(cur[l]) = NL /\ st[l] \notin {"RESET", "NLINE"}
  /\ IF Repeated(l)
       THEN Goto(l, "err") /\ UNCHANGED <<cur, st, field>>
       ELSE /\ Step(l) /\ SetState(l, "NLINE")
            /\ field' = CASE st[l] = "PKG" -> [field EXCEPT ![l].name = delim[l]]
                          [] st[l] = "VER" -> [field EXCEPT ![l].ver = TRUE]
                          [] st[l] = "STAT" -> [field EXCEPT ![l].stat = TRUE]
                          [] OTHER -> field
            /\ UNCHANGED pc
  /\ UNCHANGED <<callvars, offset, listvars, chain, lo, hi, rec, delim, mine, begun>>

\* What the end of a record must find, and whether it makes an object.
Complete(f) == f.name # "null" /\ (f.ver \/ pp.statusfile)
Selected(f) ==
  /\ ~pp.statusfile \/ f.stat
  /\ pp.dfa = "filter" => f.name \in pp.known

\* The newline that ends a record.
EndsRecord(l) == Lexing(l) /\ CharAt(cur[l]) = NL /\ st[l] = "NLINE"

BadRecord(l) ==
  /\ EndsRecord(l)
  /\ ~Complete(field[l]) \/ (Selected(field[l]) /\ MayFail("package"))
  /\ Goto(l, "err")
  /\ UNCHANGED <<callvars, offset, listvars, chain, lo, hi, cur, linevars, mine, begun>>

\* The object made for the record, and where it is hung.
Pkgobj(l) == [rec |-> rec[l], name |-> field[l].name, ver |-> field[l].ver]

\* Mutation: the new object does not take over the ones hung before it.
GoodRecord_Unlinked(l) ==
  /\ EndsRecord(l) /\ Complete(field[l])
  /\ IF Selected(field[l])
       THEN /\ mine' = [mine EXCEPT ![l] = Append(@, Pkgobj(l))]
            /\ chain' = IF pp.dfa = "filter"
                          THEN [chain EXCEPT ![field[l].name] = <<Pkgobj(l)>>]
                          ELSE chain
       ELSE UNCHANGED <<mine, chain>>
  /\ field' = [field EXCEPT ![l] = NoFields]
  /\ SetState(l, "RESET") /\ Step(l)
  /\ UNCHANGED <<callvars, offset, listvars, pc, lo, hi, rec, delim, begun>>

GoodRecord(l) ==
  /\ EndsRecord(l) /\ Complete(field[l])
  /\ IF Selected(field[l])
       THEN /\ mine' = [mine EXCEPT ![l] = Append(@, Pkgobj(l))]
            /\ chain' = IF pp.dfa = "filter"
                          THEN [chain EXCEPT ![field[l].name] = <<Pkgobj(l)>> \o @]
                          ELSE chain
       ELSE UNCHANGED <<mine, chain>>
  /\ field' = [field EXCEPT ![l] = NoFields]
  /\ SetState(l, "RESET") /\ Step(l)
  /\ UNCHANGED <<callvars, offset, listvars, pc, lo, hi, rec, delim, begun>>

\* lex_chunk() returns: -1 if the text ended inside a record.
EndChunk(l) ==
  /\ At(l, "lex") /\ ~Lexing(l)
  /\ Goto(l, IF st[l] = "RESET" THEN "offset" ELSE "err")
  /\ UNCHANGED <<callvars, offset, listvars, chain, lo, hi, cur, linevars, mine, begun>>

\* Mutation: a later object replaces the one the trie has.
FirstNamed_Last(list, lost, n) ==
  LET named == {i \in (1..Len(list)) \ lost : list[i].name = n} IN
  IF named = {} THEN -1 ELSE list[CHOOSE i \in named : \A j \in named : i >= j].rec

\* The first object of a list with a given name that is not among the lost ones, by
\* its record; -1: none.
FirstNamed(list, lost, n) ==
  LET named == {i \in (1..Len(list)) \ lost : list[i].name = n} IN
  IF named = {} THEN -1 ELSE list[CHOOSE i \in named : \A j \in named : i <= j].rec

\* The loop over augment_dfa().  It refuses a name that it already knows, and runs
\* out of memory at any of the objects (the lost ones, which may have a vertex path
\* but no value); its answer is not looked at.  Not taken: the failed allocation that
\* frees the trie and leaves the pointer to it, after which all is undefined.
EnterNames(l) ==
  \E lost \in SUBSET (1..Len(mine[l])) :
    /\ lost = {} \/ MayFail("augment")
    /\ root' = [n \in Names |-> IF root[n] = -1 THEN FirstNamed(mine[l], lost, n) ELSE root[n]]

\* The locked section at the end of lex_chunks().
Splice(l) ==
  /\ At(l, "splice")
  /\ IF pp.dfa = "build" THEN EnterNames(l) ELSE UNCHANGED root
  /\ pcount' = pcount + Len(mine[l])
  /\ pobjs' = mine[l] \o pobjs
  /\ Goto(l, "done")
  /\ UNCHANGED <<callvars, offset, chain, lo, hi, cur, linevars, mine, begun>>

\* The err: label: the lexer's own objects are freed, and stay hung in the trie.
Free(l) ==
  /\ At(l, "err")
  /\ mine' = [mine EXCEPT ![l] = <<>>]
  /\ Goto(l, "failed")
  /\ UNCHANGED <<callvars, offset, listvars, chain, lo, hi, cur, linevars, begun>>

LexerStep(l) ==
  \/ TakeChunk(l) \/ NoMoreChunks(l) \/ SkipChar(l) \/ SkipAll(l)
  \/ LexChar(l) \/ LexBlank(l) \/ LexLine(l) \/ BadRecord(l) \/ GoodRecord(l)
  \/ EndChunk(l) \/ Splice(l) \/ Free(l)

-----------------------------------------------------------------------------
(* The caller: lex_packages_file_internal() and create_pkglist().           *)

lexvars == <<pp, offset, listvars, chain, pc, lo, hi, cur, linevars, mine, begun>>

Call ==
  /\ main = "calling"
  /\ \/ main' = "lexing" /\ UNCHANGED <<ret, err>>
     \/ /\ MayFail("mapit") \/ MayFail("pkglist")
        /\ main' = "returned" /\ ret' = "null" /\ err' = TRUE
  /\ UNCHANGED lexvars

\* lex_chunks() has come back; a failure leaves *err alone.
Return ==
  /\ main = "lexing" /\ \A l \in Lexers : pc[l] \in {"done", "failed"}
  /\ main' = "returned"
  /\ ret' = IF \E l \in Lexers : pc[l] = "failed" THEN "null" ELSE "list"
  /\ UNCHANGED <<err, lexvars>>

Returned == main = "returned" /\ UNCHANGED vars

Next == Call \/ Return \/ (\E l \in Lexers : LexerStep(l)) \/ Returned

Spec == Init /\ [][Next]_vars

-----------------------------------------------------------------------------
(* What the text says, independently of how it is cut into chunks.          *)

Newline(i) == i \in Positions /\ CharAt(i) = NL

\* A record starts after an empty line, or with the text (past one newline).
RecordStart(p) ==
  /\ p \in Positions /\ ~Newline(p)
  /\ p = 0 \/ (Newline(p - 1) /\ (p = 1 \/ Newline(p - 2)))
RecordStarts == {p \in Positions : RecordStart(p)}

\* The lines of the record that starts at p: the heads, up to its empty line.
EmptyLines(p) == {q \in Positions : q > p /\ Newline(q) /\ Newline(q - 1)}
Heads(p) == {i \in Positions : /\ i >= p /\ \A q \in EmptyLines(p) : i < q
                               /\ ~Newline(i) /\ (i = p \/ Newline(i - 1))}
Lines(p, kinds) == {i \in Heads(p) : CharAt(i) \in kinds}
NameOf(p) == CharAt(CHOOSE i \in Lines(p, Names) : TRUE)

WellFormed(p) ==
  /\ EmptyLines(p) # {}
  /\ Cardinality(Lines(p, Names)) = 1
  /\ Cardinality(Lines(p, {"V"})) = 1 \/ (pp.statusfile /\ Lines(p, {"V"}) = {})
  /\ Cardinality(Lines(p, {"S"})) <= 1

Listed(p) ==
  /\ pp.statusfile => Lines(p, {"S"}) # {}
  /\ pp.dfa = "filter" => NameOf(p) \in pp.known

\* The object that belongs to the record at p.
ObjectOf(p) == [rec |-> p, name |-> NameOf(p), ver |-> Lines(p, {"V"}) # {}]
Objects(list) == {list[i] : i \in 1..Len(list)}

-----------------------------------------------------------------------------
(* Properties.                                                              *)

States == {"RESET", "NLINE", "PDATA", "PKG", "VER", "STAT"}
LexerPCs == {"offset", "skip", "lex", "splice", "err", "done", "failed"}

\* The variables keep their types; no lexer reads outside the text.
TypeOK ==
  /\ pp \in Inputs /\ main \in {"calling", "lexing", "returned"}
  /\ ret \in {"none", "null", "list"} /\ err \in BOOLEAN
  /\ offset \in 0..Len0 /\ pcount \in Nat
  /\ root \in [Names -> Positions \cup {-1}]
  /\ pc \in [Lexers -> LexerPCs] /\ st \in [Lexers -> States]
  /\ lo \in [Lexers -> 0..Len0] /\ hi \in [Lexers -> 0..Len0] /\ cur \in [Lexers -> 0..Len0]
  /\ rec \in [Lexers -> Nat]
  /\ delim \in [Lexers -> Names \cup {"null"}]
  /\ field \in [Lexers -> [name : Names \cup {"null"}, ver : BOOLEAN, stat : BOOLEAN]]
  /\ begun \in [Positions -> Nat]

\* Wherever the chunks are cut, a record is begun once at most, by one lexer, and
\* nothing but a record is (the comment at lines 137-143 and 175-181).
BegunOnce == \A p \in Positions : begun[p] <= 1 /\ (begun[p] = 1 => RecordStart(p))

\* The list that is returned holds one object for each record the text lists, with
\* that record's name, and no other; the count agrees with it.
ListExact ==
  ret = "list" =>
    /\ Objects(pobjs) = {ObjectOf(p) : p \in {q \in RecordStarts : Listed(q)}}
    /\ Len(pobjs) = Cardinality(Objects(pobjs)) /\ pcount = Len(pobjs)

\* The text is refused if some record of it is malformed, and only then unless the
\* environment fails the call.
RefusedWhenMalformed ==
  main = "returned" =>
    LET malformed == \E p \in RecordStarts : ~WellFormed(p) IN
    (malformed => ret = "null") /\ (ret = "null" => malformed \/ pp.faults # {})

\* When the lexing succeeds, what hangs under a name of the trie is exactly what
\* the list holds of that name, each object once.
ChainsMatchList ==
  ret = "list" /\ pp.dfa = "filter" =>
    \A n \in Names :
      /\ Objects(chain[n]) = {o \in Objects(pobjs) : o.name = n}
      /\ Len(chain[n]) = Cardinality(Objects(chain[n]))

\* A trie that is being built never has an object that is not on the list, and none
\* at all when the call fails and frees its objects.  While memory lasts it knows every
\* name of the list, by its first record; without it a name may be missing, or known
\* by a later record, in a list that is returned all the same.
RootsAreFirst ==
  pp.dfa = "build" =>
    \A n \in Names :
      LET recs == {o.rec : o \in {o \in Objects(pobjs) : o.name = n}} IN
      /\ root[n] \in recs \cup {-1}
      /\ ret = "null" => root[n] = -1
      /\ "augment" \notin pp.faults /\ recs # {} =>
           root[n] \in recs /\ \A r \in recs : root[n] <= r
=============================================================================
