---------------------------- MODULE ShowVersions ----------------------------
(***************************************************************************)
(* rapt-show-versions, src/bin/rapt-show-versions.c, with find_installed   *)
(* and find_newest of src/lib/packages.c: when the threads of PkgDir have  *)
(* filled the chains of the trie's objects, walk_dfa() hands over one      *)
(* object after the other, and what is said of a package is worked out     *)
(* from its chain, in whatever order the threads have left it.             *)
(*                                                                         *)
(* The command line and the status file are read before the walk, on which *)
(* they have no influence here: Names are the names they entered in the    *)
(* trie (one that augment_dfa() found no memory for is not among them).    *)
(* They are chosen when they first matter.                                 *)
(***************************************************************************)
EXTENDS PkgDir, VersionCmp

CONSTANTS
  VersionOf,  \* VersionOf[e][i]: version of the i-th package of entry e
  WalkOrder,  \* the trie's names in the order of walk_dfa()
  Calls,      \* args: are the names given on the command line?  all: --allversions?
              \* installed: versions in the status file, NoVersion if a record has none
  PrintFails  \* may printf() fail?

NoVersion == <<>>

\* The versions there are, and debcmp() of them.
Versions == ((UNION {Elements(VersionOf[e]) : e \in Entries})
               \cup (UNION {{c.installed[n] : n \in DOMAIN c.installed} : c \in Calls}))
            \ {NoVersion}
Compare == [v \in Versions |-> [w \in Versions |-> Debcmp(v, w)]]

\* A package of a list has a version: lex_chunk() gives up on a record without one.
\* walk_dfa() comes to each name once.  Names that are not given on the command line
\* come from the status file.  debcmp() is not asked about versions on which it reads
\* past their end; so it orders them (DebcmpTransitive), and what find_newest keeps as
\* it goes along is the newest of all.
ASSUME ShowVersionsAssumption ==
  /\ \A e \in Entries :
       /\ VersionOf[e] \in Seq(Elements(VersionOf[e])) /\ Len(VersionOf[e]) = Len(Packages[e])
       /\ NoVersion \notin Elements(VersionOf[e])
  /\ "null" \notin Entries
  /\ WalkOrder \in Seq(Names) /\ Elements(WalkOrder) = Names
  /\ \A i, j \in 1..Len(WalkOrder) : WalkOrder[i] = WalkOrder[j] => i = j
  /\ \A c \in Calls :
       /\ c.args \in BOOLEAN /\ c.all \in BOOLEAN /\ DOMAIN c.installed \subseteq Names
       /\ ~c.args => DOMAIN c.installed = Names
       /\ c.args => \A n \in DOMAIN c.installed : c.installed[n] # NoVersion
  /\ \A v \in Versions : v \in Seq(Int \ {NUL})
  /\ \A v, w \in Versions : ~Overruns(v, w)
  /\ PrintFails \in BOOLEAN

VARIABLES
  call,   \* the element of Calls
  walked, \* objects that walk_dfa() has handed over
  lines,  \* lines printed
  exit    \* "none" yet, "success" or "failure"

reportvars == <<call, walked, lines, exit>>
showvars == <<vars, reportvars>>

NoCall == [args |-> FALSE, all |-> FALSE, installed |-> <<>>]

ShowInit ==
  /\ Init
  /\ call = NoCall /\ walked = 0 /\ lines = <<>> /\ exit = "none"

-----------------------------------------------------------------------------
(* What hangs under the object of a name.                                   *)

\* pkgobj_dist(): the name that the package's list was given.
Offer(p) == [version |-> VersionOf[p.file][p.nth],
             dist |-> (CHOOSE list \in Elements(cache) : list.file = p.file).dist]

\* A name of the command line is a stub; the status file's package hangs below it,
\* there since before the walk, from a list without a distribution.
Older(n) == IF call.args /\ n \in DOMAIN call.installed
              THEN <<[version |-> call.installed[n], dist |-> "null"]>> ELSE <<>>

\* pkgobj_matchbegin(), pkgobj_matchnext().
ChainOf(n) == [i \in DOMAIN chain[n] |-> Offer(chain[n][i])] \o Older(n)

\* The version of the trie's own object: a stub has none.
OwnVersion(n) == IF call.args THEN NoVersion ELSE call.installed[n]

\* NULL, as an answer.
None == [version |-> NoVersion, dist |-> "none"]

\* pkgcache_find_installed(): the first of the chain that compares equal.
FindInstalled(own, pkgs) ==
  LET same == {i \in DOMAIN pkgs : Compare[pkgs[i].version][own] = 0}
  IN IF own = NoVersion \/ same = {} THEN None ELSE pkgs[Least(same)]

\* Mutation: the comparison is turned around.
FindNewest_Oldest(pkgs) ==
  LET oldest == {i \in DOMAIN pkgs :
                   \A j \in DOMAIN pkgs : Compare[pkgs[i].version][pkgs[j].version] <= 0}
  IN IF pkgs = <<>> THEN None ELSE pkgs[Least(oldest)]

\* pkgcache_find_newest(): the package that no other is newer than, the first of several.
FindNewest(pkgs) ==
  LET newest == {i \in DOMAIN pkgs :
                   \A j \in DOMAIN pkgs : Compare[pkgs[i].version][pkgs[j].version] >= 0}
  IN IF pkgs = <<>> THEN None ELSE pkgs[Least(newest)]

-----------------------------------------------------------------------------
(* The callbacks of walk_dfa() and the program's end.                       *)

Line(n, kind, from, to, dist) ==
  [name |-> n, kind |-> kind, from |-> from, to |-> to, dist |-> dist]

\* filtered_output_callback().
Summary(n, ipo, newpo) ==
  CASE ipo = None /\ newpo = None -> Line(n, "neither", NoVersion, NoVersion, "none")
    [] ipo = None /\ newpo # None -> Line(n, "available", NoVersion, newpo.version, newpo.dist)
    [] ipo # None /\ newpo = None -> Line(n, "unavailable", ipo.version, NoVersion, "none")
    [] ipo # None /\ newpo # None ->
         IF Compare[newpo.version][ipo.version] > 0
           THEN Line(n, "upgradeable", ipo.version, newpo.version, ipo.dist)
           ELSE Line(n, "uptodate", ipo.version, NoVersion, newpo.dist)

\* all_output_callback().
Listing(n, pkgs) ==
  [i \in DOMAIN pkgs |-> Line(n, "version", NoVersion, pkgs[i].version, pkgs[i].dist)]

\* What is printed for a name with these packages on its chain.
Output(n, pkgs) ==
  IF call.all THEN Listing(n, pkgs)
              ELSE <<Summary(n, FindInstalled(OwnVersion(n), pkgs), FindNewest(pkgs))>>

Reporting == main = "returned" /\ exit = "none" /\ call # NoCall

StartReport ==
  /\ main = "returned" /\ exit = "none" /\ call = NoCall
  /\ \/ ret = "cache" /\ call' \in Calls /\ UNCHANGED exit
     \/ ret = "null" /\ exit' = "failure" /\ UNCHANGED call
  /\ UNCHANGED <<vars, walked, lines>>

\* Mutation: the walk goes on when the callback fails.
ReportObject_GoesOn ==
  /\ Reporting /\ walked < Len(WalkOrder)
  /\ walked' = walked + 1
  /\ \E pkgs \in {ChainOf(WalkOrder[walked + 1])} :
     \E out \in {Output(WalkOrder[walked + 1], pkgs)} :
     \/ lines' = lines \o out
     \/ PrintFails /\ \E k \in 0..Len(out) - 1 : lines' = lines \o SubSeq(out, 1, k)
  /\ UNCHANGED <<vars, call, exit>>

ReportObject ==
  /\ Reporting /\ walked < Len(WalkOrder)
  /\ walked' = walked + 1
  /\ \E pkgs \in {ChainOf(WalkOrder[walked + 1])} :
     \E out \in {Output(WalkOrder[walked + 1], pkgs)} :
     \/ lines' = lines \o out /\ UNCHANGED exit
     \/ /\ PrintFails /\ exit' = "failure"
        /\ \E k \in 0..Len(out) - 1 : lines' = lines \o SubSeq(out, 1, k)
  /\ UNCHANGED <<vars, call>>

EndReport ==
  /\ Reporting /\ walked = Len(WalkOrder)
  /\ exit' = "success"
  /\ UNCHANGED <<vars, call, walked, lines>>

Exited == exit # "none" /\ UNCHANGED showvars

Report == StartReport \/ ReportObject \/ EndReport

ShowNext == (WalkStep /\ UNCHANGED reportvars) \/ Report \/ Exited

ShowSpec == ShowInit /\ [][ShowNext]_showvars

-----------------------------------------------------------------------------
(* Properties.                                                              *)

\* The packages of one name that the lists of the directory hold, by list and place.
Listed(n) == UNION {PkgsNamed(e, n) : e \in Lists}
Held(n) == IF n \in DOMAIN call.installed THEN call.installed[n] ELSE NoVersion
Offered(n) == {VersionOf[p.file][p.nth] : p \in Listed(n)}
                \cup (IF call.args THEN {Held(n)} \ {NoVersion} ELSE {})

Newest(v, versions) == v \in versions /\ \A w \in versions : Compare[v][w] >= 0

SummaryTrue(line) ==
  LET offered == Offered(line.name)
      own == OwnVersion(line.name)
      found == own # NoVersion /\ \E v \in offered : Compare[v][own] = 0
  IN /\ (line.kind = "neither") = (offered = {})
     /\ (line.kind \in {"upgradeable", "uptodate"}) = found
     /\ line.kind = "available" => Newest(line.to, offered)
     /\ line.kind = "upgradeable" => Newest(line.to, offered) /\ Compare[line.to][own] > 0
     /\ line.kind = "uptodate" => \A v \in offered : Compare[own][v] >= 0
     /\ line.kind \in {"upgradeable", "uptodate"} =>
          line.from \in offered /\ Compare[line.from][own] = 0
     /\ line.kind # "unavailable"

\* A summary that was printed to its end has one line for every name in the trie, in
\* the trie's order, and each says what follows from the lists as sets, whatever the
\* threads made of the order of the chains (rapt-show-versions.c, lines 48-81).
SummariesTrue ==
  exit = "success" /\ ~call.all =>
    /\ [i \in DOMAIN lines |-> lines[i].name] = WalkOrder
    /\ \A i \in DOMAIN lines : SummaryTrue(lines[i])

\* With --allversions, every package of the lists whose name is in the trie is printed
\* once, with its version and its own list's distribution, and names stay together.
AllVersionsListed ==
  exit = "success" /\ call.all =>
    /\ \A n \in Names :
         LET printed == {i \in DOMAIN lines : lines[i].name = n}
         IN /\ Cardinality(printed) = Cardinality(Listed(n)) + Len(Older(n))
            /\ \A p \in Listed(n) :
                 LET same(q) == q.file = p.file /\ VersionOf[q.file][q.nth] = VersionOf[p.file][p.nth]
                 IN Cardinality({q \in Listed(n) : same(q)}) =
                      Cardinality({i \in printed : lines[i].dist = p.file
                                                   /\ lines[i].to = VersionOf[p.file][p.nth]})
    /\ \A i \in 1..Len(lines) - 1 :
         \E j, k \in DOMAIN WalkOrder :
           j <= k /\ WalkOrder[j] = lines[i].name /\ WalkOrder[k] = lines[i + 1].name

\* rapt-show-versions.xml, lines 82-85: "By default, all installed packages will be
\* summarized (the installed version, and available upgrades, will be listed, one
\* line per installed package)."
InstalledSummarised ==
  exit = "success" /\ ~call.all =>
    \A n \in DOMAIN call.installed :
      \E i \in DOMAIN lines : lines[i].name = n /\ lines[i].from = call.installed[n]
=============================================================================
