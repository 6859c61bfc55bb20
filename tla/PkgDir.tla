------------------------------- MODULE PkgDir -------------------------------
(***************************************************************************)
(* lex_packages_dir() of src/lib/packages.c: a pool of threads walks the   *)
(* directory of package lists.  A thread lexes every list it is handed,    *)
(* one lexer per file, names the list after the file and puts it on the    *)
(* cache; the packages it makes are hung, as it goes, under the objects of *)
(* the trie that filters them, which all the threads share.                *)
(*                                                                         *)
(* How one file is lexed is PkgLex's subject.  Here a file is the sequence *)
(* of names of its packages that the trie knows, in file order, and        *)
(* whether the text is well-formed to its end.                             *)
(***************************************************************************)
EXTENDS DirStream, FiniteSets

CONSTANTS
  Threads,    \* the threads libblossom starts
  Lists,      \* the entries whose name passes lex_dir()'s tests
  Packages,   \* Packages[e]: names of the packages in e that the trie selects
  Suspects,   \* the entries that may hold a malformed text
  Faults      \* the failures the environment may inject in this run

FaultKinds == {"cache", "opendir", "spawn", "join", "closedir", "readdir", "mapit", "strndup"}

ASSUME PkgDirAssumption ==
  /\ IsFiniteSet(Threads) /\ Threads # {}
  /\ "none" \notin Entries /\ Lists \subseteq Entries /\ Suspects \subseteq Entries
  /\ DOMAIN Packages = Entries
  /\ \A e \in Entries : Packages[e] \in Seq({Packages[e][i] : i \in DOMAIN Packages[e]})
  /\ Faults \subseteq FaultKinds

VARIABLES
  malformed, \* the entries that lex_chunks() gives up on, at their end
  main,     \* where the caller stands in lex_packages_dir()
  ret,      \* what it returns: "none" yet, "null" or "cache"
  pc,       \* where each pool thread stands
  pdent,    \* the dirent pointer each thread got last
  named,    \* the entry that uridelim, dist and distdelim were found in
  file,     \* the entry that was opened under the name read then
  made,     \* packages of that file made so far
  chain,    \* chain[n]: the objects hung under the trie's object for n, newest first
  cache     \* the cache's lists, newest first

mainvars == <<malformed, main, ret>>
vars == <<dirvars, mainvars, pc, pdent, named, file, made, chain, cache>>

NamesIn(e) == {Packages[e][i] : i \in 1..Len(Packages[e])}
Names == UNION {NamesIn(e) : e \in Entries}

\* A package by its file and its place there.
Pkg(e, i) == [file |-> e, nth |-> i]

Init ==
  /\ DirInit
  /\ malformed \in SUBSET Suspects
  /\ main = "calling" /\ ret = "none"
  /\ pc = [t \in Threads |-> "readdir"]
  /\ pdent = [t \in Threads |-> 0]
  /\ named = [t \in Threads |-> "none"]
  /\ file = [t \in Threads |-> "none"]
  /\ made = [t \in Threads |-> 0]
  /\ chain = [n \in Names |-> <<>>]
  /\ cache = <<>>

-----------------------------------------------------------------------------
(* lex_dir(), a pool thread.                                                *)

MayFail(kind) == kind \in Faults
At(t, label) == main = "joining" /\ pc[t] = label
Goto(t, label) == pc' = [pc EXCEPT ![t] = label]
EntryOf(t) == EntryAt(pdent[t])

Readdir(t) ==
  /\ At(t, "readdir")
  /\ Advance
  /\ pdent' = [pdent EXCEPT ![t] = NextSlot]
  /\ Goto(t, "inspect")
  /\ UNCHANGED <<mainvars, named, file, made, chain, cache>>

ReaddirEnds(t) ==
  /\ At(t, "readdir")
  /\ \/ AtEnd /\ Goto(t, "done")
     \/ MayFail("readdir") /\ Goto(t, "failed")
  /\ UNCHANGED <<dirvars, mainvars, pdent, named, file, made, chain, cache>>

\* The type, the delimiters and the suffix, all through the dirent pointer.
Inspect(t) ==
  /\ At(t, "inspect")
  /\ named' = [named EXCEPT ![t] = EntryOf(t)]
  /\ Goto(t, IF EntryOf(t) \in Lists THEN "open" ELSE "readdir")
  /\ UNCHANGED <<dirvars, mainvars, pdent, file, made, chain, cache>>

\* Mutation: the count of the file before is carried on.
Open_NoReset(t) ==
  /\ At(t, "open")
  /\ file' = [file EXCEPT ![t] = EntryOf(t)]
  /\ Goto(t, "lexing")
  /\ UNCHANGED <<dirvars, mainvars, pdent, named, made, chain, cache>>

\* lex_packages_file_internal(): the name is read again to open the file.
Open(t) ==
  /\ At(t, "open")
  /\ file' = [file EXCEPT ![t] = EntryOf(t)]
  /\ made' = [made EXCEPT ![t] = 0]
  /\ \/ Goto(t, "lexing")
     \/ MayFail("mapit") /\ Goto(t, "failed")
  /\ UNCHANGED <<dirvars, mainvars, pdent, named, chain, cache>>

\* Mutations: the chain is cut off behind the new package, or grows at its end.
Hang_Unlinked(t) ==
  /\ At(t, "lexing") /\ made[t] < Len(Packages[file[t]])
  /\ made' = [made EXCEPT ![t] = @ + 1]
  /\ LET n == Packages[file[t]][made[t] + 1] IN
     chain' = [chain EXCEPT ![n] = <<Pkg(file[t], made[t] + 1)>>]
  /\ UNCHANGED <<dirvars, mainvars, pc, pdent, named, file, cache>>

Hang_Last(t) ==
  /\ At(t, "lexing") /\ made[t] < Len(Packages[file[t]])
  /\ made' = [made EXCEPT ![t] = @ + 1]
  /\ LET n == Packages[file[t]][made[t] + 1] IN
     chain' = [chain EXCEPT ![n] = Append(@, Pkg(file[t], made[t] + 1))]
  /\ UNCHANGED <<dirvars, mainvars, pc, pdent, named, file, cache>>

\* One package made, and hung under its name in the trie, with that object's lock.
Hang(t) ==
  /\ At(t, "lexing") /\ made[t] < Len(Packages[file[t]])
  /\ made' = [made EXCEPT ![t] = @ + 1]
  /\ LET n == Packages[file[t]][made[t] + 1] IN
     chain' = [chain EXCEPT ![n] = <<Pkg(file[t], made[t] + 1)>> \o @]
  /\ UNCHANGED <<dirvars, mainvars, pc, pdent, named, file, cache>>

\* Mutation: the lexer's error is dropped, and what it has lexed published.
Lexed_Dropped(t) ==
  /\ At(t, "lexing") /\ made[t] = Len(Packages[file[t]])
  /\ Goto(t, "publish")
  /\ UNCHANGED <<dirvars, mainvars, pdent, named, file, made, chain, cache>>

Lexed(t) ==
  /\ At(t, "lexing") /\ made[t] = Len(Packages[file[t]])
  /\ Goto(t, IF file[t] \in malformed THEN "failed" ELSE "publish")
  /\ UNCHANGED <<dirvars, mainvars, pdent, named, file, made, chain, cache>>

\* The distribution is copied from where the delimiters were found, out of what
\* the dirent buffer holds by now.  (The length asked for the uri is negative, as
\* an unsigned enormous: the uri is all of the name that is there by now.)
Publish(t) ==
  /\ At(t, "publish")
  /\ \/ /\ cache' = <<[file |-> file[t], pcount |-> made[t], uri |-> EntryOf(t),
                       dist |-> IF EntryOf(t) = named[t] THEN named[t] ELSE "garbage"]>>
                     \o cache
        /\ Goto(t, "readdir")
     \/ MayFail("strndup") /\ Goto(t, "failed") /\ UNCHANGED cache
  /\ UNCHANGED <<dirvars, mainvars, pdent, named, file, made, chain>>

ThreadStep(t) ==
  \/ Readdir(t) \/ ReaddirEnds(t) \/ Inspect(t) \/ Open(t) \/ Hang(t) \/ Lexed(t) \/ Publish(t)

-----------------------------------------------------------------------------
(* The caller: lex_packages_dir() and lex_listdir().                        *)

poolvars == <<malformed, dirvars, pc, pdent, named, file, made, chain>>

\* free_package_cache() takes the lists off the cache; the packages stay.
GiveUp == main' = "returned" /\ ret' = "null" /\ cache' = <<>>

Call ==
  /\ main = "calling"
  /\ \/ main' = "joining" /\ UNCHANGED <<ret, cache>>
     \/ (\E kind \in {"cache", "opendir", "spawn"} : MayFail(kind)) /\ GiveUp
  /\ UNCHANGED poolvars

Join ==
  /\ main = "joining" /\ \A t \in Threads : pc[t] \in {"done", "failed"}
  /\ \/ (\A t \in Threads : pc[t] = "done") /\ main' = "closing" /\ UNCHANGED <<ret, cache>>
     \/ ((\E t \in Threads : pc[t] = "failed") \/ MayFail("join")) /\ GiveUp
  /\ UNCHANGED poolvars

Closedir ==
  /\ main = "closing"
  /\ \/ main' = "returned" /\ ret' = "cache" /\ UNCHANGED cache
     \/ MayFail("closedir") /\ GiveUp
  /\ UNCHANGED poolvars

Returned == main = "returned" /\ UNCHANGED vars

CallerStep == Call \/ Join \/ Closedir

WalkStep == CallerStep \/ \E t \in Threads : ThreadStep(t)

Next == WalkStep \/ Returned

Spec == Init /\ [][Next]_vars

-----------------------------------------------------------------------------
(* Properties.                                                              *)

Elements(s) == {s[i] : i \in 1..Len(s)}
PkgsNamed(e, n) == {Pkg(e, i) : i \in {j \in 1..Len(Packages[e]) : Packages[e][j] = n}}

\* The variables keep their types.
TypeOK ==
  /\ DirTypeOK
  /\ main \in {"calling", "joining", "closing", "returned"}
  /\ ret \in {"none", "null", "cache"}
  /\ pc \in [Threads -> {"readdir", "inspect", "open", "lexing", "publish", "done", "failed"}]
  /\ pdent \in [Threads -> 0..(BatchSize - 1)]
  /\ named \in [Threads -> Entries \cup {"none"}] /\ file \in [Threads -> Entries \cup {"none"}]
  /\ \A t \in Threads : made[t] \in 0..(IF file[t] = "none" THEN 0 ELSE Len(Packages[file[t]]))

\* A successful call has lexed every package list of the directory, each once,
\* and named each after its own file (raptorial.h, lines 49-50); one that cannot be
\* lexed is never passed over in silence.
EveryListOnce ==
  ret = "cache" =>
    /\ Lists \cap malformed = {}
    /\ Elements(cache) =
         {[file |-> e, pcount |-> Len(Packages[e]), uri |-> e, dist |-> e] : e \in Lists}
    /\ Len(cache) = Cardinality(Lists)

\* Concurrent pushes lose nothing and double nothing: after a successful call the
\* trie object of a name holds exactly the packages of that name in all lists.
ChainsComplete ==
  ret = "cache" =>
    \A n \in Names :
      /\ Elements(chain[n]) = UNION {PkgsNamed(e, n) : e \in Lists}
      /\ Len(chain[n]) = Cardinality(Elements(chain[n]))

\* Under every name, the packages of one file hang in reverse file order, whatever
\* the other threads push in between.
FileOrderKept ==
  \A n \in Names : \A i, j \in 1..Len(chain[n]) :
    i < j /\ chain[n][i].file = chain[n][j].file => chain[n][i].nth > chain[n][j].nth
=============================================================================
