-------------------------- MODULE ShowVersionsProofs --------------------------
(***************************************************************************)
(* Proofs about PkgDir and about ShowVersions, which extends it.           *)
(*                                                                         *)
(* Of the directory walk, for every number of threads, every directory,    *)
(* every list of packages and every set of faults:                         *)
(*                                                                         *)
(*   TypeOK            however often the dirent buffer is refilled         *)
(*   FileOrderKept     under OneFill, as are the next two                  *)
(*   ChainsComplete    nothing hung twice, nothing lost                    *)
(*   EveryListOnce     each list on the cache once, under its own name     *)
(*                                                                         *)
(* A list is followed from the readdir that hands it out: it is in one     *)
(* thread's hands until it is on the cache, and its packages hang in the   *)
(* chains up to the one that the thread has come to.                       *)
(*                                                                         *)
(* Of the report, SummariesTrue and AllVersionsListed: what is printed is  *)
(* what the package lists say as sets, for any directory that one refill   *)
(* of readdir's buffer brings in, any number of threads, and any versions  *)
(* that debcmp() is defined on.  The proofs rest on the walk's for what a  *)
(* chain holds when the walk is over, though not in which order, and on    *)
(* VersionCmpProofs for the order of the versions (the strings x, y and z  *)
(* that come with it are not looked at here).  Plain says what hangs under *)
(* a name without a look at the cache.  The invariant says that what was   *)
(* printed so far is the output for the names walked so far.               *)
(***************************************************************************)
EXTENDS ShowVersions, DirStreamProofs, VersionCmpProofs, FunctionTheorems

-----------------------------------------------------------------------------
(* The walk: the invariant without OneFill.                                 *)

PCs == {"readdir", "inspect", "open", "lexing", "publish", "done", "failed"}
InHand == {"inspect", "open", "lexing", "publish"}
Busy == {t \in Threads : pc[t] \in InHand}

\* The entry that a busy thread was handed.
Taken(t) == Dir[pdent[t] + 1]

\* How many of its packages the thread has hung.
HungOf(t) == IF pc[t] \in {"lexing", "publish"} THEN made[t] ELSE 0

Package == [file : Entries, nth : Nat]
List == [file : Entries, pcount : Nat, uri : Entries, dist : Entries \cup {"garbage"}]

\* The dirents that are still read are slots of the buffer.
SlotsValid == \A t \in Busy : ValidSlot(pdent[t])

\* What TypeOK does not say of the counts, the chains and the cache.
SharedTypeOK ==
  made \in [Threads -> Nat] /\ chain \in [Names -> Seq(Package)] /\ cache \in Seq(List)

FileOpened == \A t \in Threads : pc[t] \in {"lexing", "publish"} => file[t] \in Entries

TypeInv == TypeOK /\ SharedTypeOK /\ SlotsValid /\ FileOpened

-----------------------------------------------------------------------------
(* The invariant under OneFill.                                             *)

SlotsBehind == \A t \in Busy : pdent[t] < dirpos

Apart == \A t, u \in Busy : pdent[t] = pdent[u] => t = u

\* The name read through the dirent is that of the entry handed out, each time.
NamesRight ==
  \A t \in Busy :
    /\ pc[t] # "inspect" => Taken(t) \in Lists /\ named[t] = Taken(t)
    /\ pc[t] \in {"lexing", "publish"} => file[t] = Taken(t)
    /\ pc[t] = "publish" => made[t] = Len(Packages[Taken(t)]) /\ Taken(t) \notin malformed

\* Under a name hang packages of that name, out of lists that were handed out.
ChainRight ==
  \A n \in Names : \A i \in 1..Len(chain[n]) :
    LET p == chain[n][i] IN
    /\ p.file \in Handed \cap Lists
    /\ p.nth \in 1..Len(Packages[p.file]) /\ Packages[p.file][p.nth] = n

\* Nothing hangs of a list that the thread which lexes it has not come to.
NoneBeyond ==
  \A t \in Busy : \A n \in Names : \A i \in 1..Len(chain[n]) :
    chain[n][i].file = Taken(t) => chain[n][i].nth <= HungOf(t)

Hung(e, k) == Pkg(e, k) \in Elements(chain[Packages[e][k]])

\* All that the thread has come to hangs.
NoneMissing == \A t \in Busy : \A k \in 1..HungOf(t) : Hung(Taken(t), k)

\* A list that was lexed to its end, and is in nobody's hands.
Finished(e) ==
  /\ e \in (Handed \cap Lists) \ malformed
  /\ \A k \in 1..Len(Packages[e]) : Hung(e, k)
  /\ \A t \in Busy : Taken(t) # e

Record(e) == [file |-> e, pcount |-> Len(Packages[e]), uri |-> e, dist |-> e]

CacheRight ==
  /\ \A i \in 1..Len(cache) :
       cache[i] = Record(cache[i].file) /\ Finished(cache[i].file)
  /\ \A i, j \in 1..Len(cache) : cache[i].file = cache[j].file => i = j

\* Unless a thread has failed, a list that was handed out is in some thread's hands or
\* on the cache.
NoneLost ==
  \/ \E t \in Threads : pc[t] = "failed"
  \/ ret = "null"
  \/ \A e \in Handed \cap Lists :
       (\E t \in Busy : Taken(t) = e) \/ (\E i \in 1..Len(cache) : cache[i].file = e)

\* A thread is done when the directory has come to its end.
EndSeen == \A t \in Threads : pc[t] = "done" => AtEnd

\* The caller reports success when all the threads are done.
ReportRight ==
  /\ main \in {"calling", "joining", "closing"} => ret = "none"
  /\ main = "closing" \/ ret = "cache" => \A t \in Threads : pc[t] = "done"

DirInv ==
  /\ OneBatch /\ SlotsBehind /\ Apart /\ NamesRight
  /\ ChainRight /\ NoneBeyond /\ FileOrderKept /\ NoneMissing
  /\ CacheRight /\ NoneLost /\ EndSeen /\ ReportRight

-----------------------------------------------------------------------------
(* Types.                                                                   *)

LEMMA PackageTypes ==
  /\ Len(Dir) \in Nat
  /\ \A e \in Entries : Packages[e] \in Seq(Names) /\ Len(Packages[e]) \in Nat
  /\ \A e \in Entries : \A k \in 1..Len(Packages[e]) : Packages[e][k] \in Names
<1>1. ASSUME NEW e \in Entries
      PROVE  Packages[e] \in Seq(Names)
  <2>1. Packages[e] \in Seq({Packages[e][i] : i \in DOMAIN Packages[e]})
    BY PkgDirAssumption
  <2>2. \A i \in DOMAIN Packages[e] : i \in 1..Len(Packages[e])
    BY <2>1
  <2>3. \A i \in DOMAIN Packages[e] : Packages[e][i] \in Names
    BY <2>2 DEF Names, NamesIn
  <2>4. Len(Packages[e]) \in Nat /\ Packages[e] = [i \in 1..Len(Packages[e]) |-> Packages[e][i]]
    BY SMTT(30), <2>1
  <2> QED BY <2>2, <2>3, <2>4
<1>2. Len(Dir) \in Nat
  BY DirAssumption
<1> QED BY <1>1, <1>2

\* A push keeps what is below it.
LEMMA PushFacts ==
  ASSUME NEW S, NEW s \in Seq(S), NEW first \in S, NEW q, q = <<first>> \o s
  PROVE  /\ q \in Seq(S) /\ Len(s) \in Nat /\ Len(q) = Len(s) + 1
         /\ q[1] = first /\ 1 \in 1..Len(q)
         /\ \A i \in 1..Len(q) : i = 1 \/ (i - 1 \in 1..Len(s) /\ q[i] = s[i - 1])
         /\ \A i \in 1..Len(s) : i + 1 \in 1..Len(q) /\ q[i + 1] = s[i]
  OBVIOUS

LEMMA InitType ==
  ASSUME Init
  PROVE  TypeInv
<1> USE DEF Init
<1>1. DirTypeOK
  BY DirAssumption DEF DirInit, DirTypeOK
<1>2. 0 \in 0..(BatchSize - 1)
  BY DirAssumption
<1>3. TypeOK
  BY <1>1, <1>2 DEF TypeOK
<1>4. /\ made \in [Threads -> Nat]
      /\ chain \in [Names -> Seq(Package)] /\ cache \in Seq(List)
  OBVIOUS
<1> QED BY <1>3, <1>4 DEF TypeInv, SharedTypeOK, SlotsValid, Busy, InHand, FileOpened

\* A thread that goes on without a new dirent or a new file.
LEMMA PlainType ==
  ASSUME TypeInv, NEW t \in Threads, NEW l \in PCs, Goto(t, l),
         UNCHANGED <<dirvars, mainvars, pdent, file, made>>,
         l \in InHand => t \in Busy,
         l \in {"lexing", "publish"} => file[t] \in Entries,
         named' \in [Threads -> Entries \cup {"none"}], SharedTypeOK'
  PROVE  TypeInv'
<1> USE DEF TypeInv, Goto, PCs
<1>1. TypeOK'
  BY DEF TypeOK, DirTypeOK, dirvars, mainvars
<1>2. \A u \in Threads : pc'[u] = IF u = t THEN l ELSE pc[u]
  BY DEF TypeOK
<1>3. SlotsValid'
  BY <1>2 DEF SlotsValid, ValidSlot, Busy, dirvars
<1>4. FileOpened'
  BY <1>2 DEF FileOpened
<1> QED BY <1>1, <1>3, <1>4

LEMMA TypeStep ==
  ASSUME TypeInv, [Next]_vars
  PROVE  TypeInv'
<1> USE DEF At, InHand
<1>1. ASSUME NEW t \in Threads, Readdir(t)
      PROVE  TypeInv'
  <2>1. /\ Advance /\ pdent' = [pdent EXCEPT ![t] = NextSlot] /\ Goto(t, "inspect")
        /\ UNCHANGED <<mainvars, named, file, made, chain, cache>>
    BY <1>1 DEF Readdir
  <2>2. /\ DirTypeOK' /\ NextSlot \in 0..(BatchSize - 1) /\ NextSlot < fetched'
        /\ fetched' >= fetched /\ fetched \in Nat /\ fetched' \in Nat
    BY <2>1, AdvanceType, DirAssumption DEF TypeInv, TypeOK, DirTypeOK
  <2>3. TypeOK'
    BY <2>1, <2>2 DEF TypeInv, TypeOK, Goto, mainvars
  <2>4. \A u \in Threads : /\ pc'[u] = IF u = t THEN "inspect" ELSE pc[u]
                           /\ pdent'[u] = IF u = t THEN NextSlot ELSE pdent[u]
    BY <2>1 DEF TypeInv, TypeOK, Goto
  <2>5. ASSUME NEW u \in Busy'
        PROVE  ValidSlot(pdent[u])'
    <3>1. CASE u = t
      BY <2>2, <2>4, <3>1 DEF ValidSlot, Busy
    <3>2. CASE u # t
      <4>1. u \in Threads /\ ValidSlot(pdent[u]) /\ pdent'[u] = pdent[u]
        BY <2>4, <3>2 DEF TypeInv, SlotsValid, Busy
      <4> QED BY <2>2, <4>1 DEF ValidSlot
    <3> QED BY <3>1, <3>2
  <2>6. SlotsValid' /\ FileOpened' /\ SharedTypeOK'
    BY <2>1, <2>4, <2>5 DEF TypeInv, SlotsValid, FileOpened, SharedTypeOK
  <2> QED BY <2>3, <2>6 DEF TypeInv
<1>2. ASSUME NEW t \in Threads, ReaddirEnds(t)
      PROVE  TypeInv'
  <2>1. /\ \E l \in {"done", "failed"} : Goto(t, l)
        /\ UNCHANGED <<dirvars, mainvars, pdent, named, file, made, chain, cache>>
    BY <1>2 DEF ReaddirEnds
  <2> QED BY <2>1, PlainType DEF TypeInv, TypeOK, SharedTypeOK, PCs
<1>3. ASSUME NEW t \in Threads, Inspect(t)
      PROVE  TypeInv'
  <2>1. EntryOf(t) \in Entries /\ t \in Busy
    BY <1>3, EntryAtType DEF Inspect, TypeInv, TypeOK, SlotsValid, Busy, EntryOf
  <2>2. /\ \E l \in {"open", "readdir"} : Goto(t, l)
        /\ named' = [named EXCEPT ![t] = EntryOf(t)]
        /\ UNCHANGED <<dirvars, mainvars, pdent, file, made, chain, cache>>
    BY <1>3 DEF Inspect
  <2> QED BY <2>1, <2>2, PlainType DEF TypeInv, TypeOK, SharedTypeOK, PCs
<1>4. ASSUME NEW t \in Threads, Open(t)
      PROVE  TypeInv'
  <2>1. EntryOf(t) \in Entries /\ t \in Busy
    BY <1>4, EntryAtType DEF Open, TypeInv, TypeOK, SlotsValid, Busy, EntryOf
  <2>2. /\ \E l \in {"lexing", "failed"} : Goto(t, l)
        /\ file' = [file EXCEPT ![t] = EntryOf(t)] /\ made' = [made EXCEPT ![t] = 0]
        /\ UNCHANGED <<dirvars, mainvars, pdent, named, chain, cache>>
    BY <1>4 DEF Open
  <2>3. \A u \in Threads : /\ file'[u] = IF u = t THEN EntryOf(t) ELSE file[u]
                           /\ made'[u] = IF u = t THEN 0 ELSE made[u]
                           /\ u # t => pc'[u] = pc[u]
    BY <2>2 DEF TypeInv, TypeOK, SharedTypeOK, Goto
  <2>4. \A u \in Threads :
          made'[u] \in 0..(IF file'[u] = "none" THEN 0 ELSE Len(Packages[file'[u]]))
    BY <2>1, <2>3, PackageTypes DEF TypeInv, TypeOK
  <2>5. TypeOK'
    BY <2>1, <2>2, <2>4 DEF TypeInv, TypeOK, DirTypeOK, Goto, dirvars, mainvars
  <2>6. SlotsValid' /\ FileOpened' /\ SharedTypeOK'
    BY <2>1, <2>2, <2>3
       DEF TypeInv, SlotsValid, Busy, ValidSlot, FileOpened, SharedTypeOK, dirvars
  <2> QED BY <2>5, <2>6 DEF TypeInv
<1>5. ASSUME NEW t \in Threads, Hang(t)
      PROVE  TypeInv'
  <2> DEFINE n == Packages[file[t]][made[t] + 1]
             p == Pkg(file[t], made[t] + 1)
  <2>1. /\ pc[t] = "lexing" /\ made[t] < Len(Packages[file[t]])
        /\ made' = [made EXCEPT ![t] = @ + 1] /\ chain' = [chain EXCEPT ![n] = <<p>> \o @]
        /\ UNCHANGED <<dirvars, mainvars, pc, pdent, named, file, cache>>
    BY <1>5 DEF Hang
  <2>2. file[t] \in Entries /\ file[t] # "none" /\ made[t] \in Nat
    BY <2>1, PkgDirAssumption DEF TypeInv, TypeOK, FileOpened
  <2>3. /\ Len(Packages[file[t]]) \in Nat /\ made[t] + 1 \in 1..Len(Packages[file[t]])
        /\ n \in Names /\ p \in Package
    BY <2>1, <2>2, PackageTypes DEF Pkg, Package
  <2>4. chain' \in [Names -> Seq(Package)]
    BY <2>1, <2>3, PushFacts DEF TypeInv, SharedTypeOK
  <2>5. \A u \in Threads :
          made'[u] \in 0..(IF file'[u] = "none" THEN 0 ELSE Len(Packages[file'[u]]))
    BY <2>1, <2>2, <2>3 DEF TypeInv, TypeOK, SharedTypeOK
  <2>6. TypeOK'
    BY <2>1, <2>5 DEF TypeInv, TypeOK, DirTypeOK, dirvars, mainvars
  <2>7. made' \in [Threads -> Nat]
    BY <2>1, <2>2 DEF TypeInv, SharedTypeOK
  <2> QED BY <2>1, <2>4, <2>6, <2>7
          DEF TypeInv, SlotsValid, Busy, ValidSlot, FileOpened, SharedTypeOK, dirvars
<1>6. ASSUME NEW t \in Threads, Lexed(t)
      PROVE  TypeInv'
  <2>1. /\ \E l \in {"publish", "failed"} : Goto(t, l)
        /\ pc[t] = "lexing" /\ UNCHANGED <<dirvars, mainvars, pdent, named, file, made, chain, cache>>
    BY <1>6 DEF Lexed
  <2>2. t \in Busy /\ file[t] \in Entries
    BY <2>1 DEF Busy, TypeInv, FileOpened
  <2> QED BY <2>1, <2>2, PlainType DEF TypeInv, TypeOK, SharedTypeOK, PCs
<1>7. ASSUME NEW t \in Threads, Publish(t)
      PROVE  TypeInv'
  <2> DEFINE list == [file |-> file[t], pcount |-> made[t], uri |-> EntryOf(t),
                      dist |-> IF EntryOf(t) = named[t] THEN named[t] ELSE "garbage"]
  <2>1. /\ \E l \in {"readdir", "failed"} : Goto(t, l)
        /\ pc[t] = "publish" /\ UNCHANGED <<dirvars, mainvars, pdent, named, file, made, chain>>
        /\ cache' = cache \/ cache' = <<list>> \o cache
    BY <1>7 DEF Publish
  <2>2. EntryOf(t) \in Entries /\ file[t] \in Entries /\ made[t] \in Nat
    BY <2>1, EntryAtType, PackageTypes, PkgDirAssumption
       DEF TypeInv, TypeOK, SlotsValid, Busy, EntryOf, FileOpened
  <2>3. list \in List
    BY <2>2 DEF List
  <2>4. cache' \in Seq(List)
    <3> HIDE DEF list
    <3>1. cache \in Seq(List)
      BY DEF TypeInv, SharedTypeOK
    <3> QED BY <2>1, <2>3, <3>1, PushFacts
  <2>5. SharedTypeOK'
    BY <2>1, <2>4 DEF TypeInv, SharedTypeOK
  <2>6. named' \in [Threads -> Entries \cup {"none"}]
    BY <2>1 DEF TypeInv, TypeOK
  <2> HIDE DEF list
  <2> QED BY <2>1, <2>5, <2>6, PlainType DEF PCs
<1>8. CASE CallerStep
  <2>1. /\ UNCHANGED <<malformed, dirpos, base, fetched, pc, pdent, named, file, made, chain>>
        /\ main' \in {"calling", "joining", "closing", "returned"}
        /\ ret' \in {"none", "null", "cache"} /\ cache' \in {cache, <<>>}
    BY <1>8 DEF poolvars, dirvars, CallerStep, Call, Join, Closedir, GiveUp, TypeInv, TypeOK
  <2>2. TypeOK'
    BY <2>1 DEF TypeInv, TypeOK, DirTypeOK
  <2>3. SharedTypeOK'
    <3>1. cache \in Seq(List) /\ <<>> \in Seq(List)
      BY DEF TypeInv, SharedTypeOK
    <3> QED BY <2>1, <3>1 DEF TypeInv, SharedTypeOK
  <2> QED BY <2>1, <2>2, <2>3 DEF TypeInv, SlotsValid, Busy, ValidSlot, FileOpened
<1>9. CASE UNCHANGED vars
  BY <1>9 DEF vars, dirvars, mainvars, TypeInv, TypeOK, SharedTypeOK, DirTypeOK, SlotsValid, Busy,
              ValidSlot, FileOpened
<1> QED BY <1>1, <1>2, <1>3, <1>4, <1>5, <1>6, <1>7, <1>8, <1>9
        DEF Next, WalkStep, ThreadStep, Returned

LEMMA TypeInvariant == Spec => []TypeInv
<1> QED BY InitType, TypeStep, PTL DEF Spec

\* The variables keep their types, and a dirent that is still read is a slot of the
\* buffer, whether or not the buffer has been refilled since.
THEOREM TypeCorrect == Spec => []TypeOK
<1>1. TypeInv => TypeOK
  BY DEF TypeInv
<1> QED BY <1>1, TypeInvariant, PTL

-----------------------------------------------------------------------------
(* What a step of a thread does to the list it has: one of five moves.      *)

Others(t) ==
  \A u \in Threads \ {t} : pc'[u] = pc[u] /\ pdent'[u] = pdent[u] /\ made'[u] = made[u]

\* The thread has no list any more, or had none.
Drop(t) ==
  /\ t \notin Busy' /\ UNCHANGED <<dirpos, chain, cache>>
  /\ pc'[t] = "failed" \/ t \notin Busy \/ Taken(t) \notin Lists

\* readdir hands out the next entry.
Receive(t) ==
  /\ t \notin Busy /\ t \in Busy' /\ HungOf(t)' = 0
  /\ dirpos < Len(Dir) /\ dirpos' = dirpos + 1 /\ pdent'[t] = dirpos
  /\ UNCHANGED <<chain, cache>>

\* The list passes the tests, is opened, or is lexed to its end.
Stay(t) ==
  /\ t \in Busy /\ t \in Busy' /\ pdent'[t] = pdent[t] /\ HungOf(t)' = HungOf(t)
  /\ UNCHANGED <<dirpos, chain, cache>>

\* The next package of the list, and its name.
NextPkg(t) == Pkg(Taken(t), HungOf(t) + 1)
NextName(t) == Packages[Taken(t)][HungOf(t) + 1]

\* It is hung under that name.
HangNext(t) ==
  /\ t \in Busy /\ t \in Busy' /\ pdent'[t] = pdent[t] /\ HungOf(t)' = HungOf(t) + 1
  /\ Taken(t) \in Lists /\ HungOf(t) + 1 \in 1..Len(Packages[Taken(t)])
  /\ chain' = [chain EXCEPT ![NextName(t)] = <<NextPkg(t)>> \o @]
  /\ UNCHANGED <<dirpos, cache>>

\* The list is put on the cache.
PutOnCache(t) ==
  /\ t \in Busy /\ t \notin Busy' /\ HungOf(t) = Len(Packages[Taken(t)])
  /\ Taken(t) \in Lists \ malformed
  /\ cache' = <<Record(Taken(t))>> \o cache
  /\ UNCHANGED <<dirpos, chain>>

Moves(t) ==
  /\ main = "joining" /\ pc[t] # "failed" /\ UNCHANGED mainvars /\ Others(t)
  /\ Drop(t) \/ Receive(t) \/ Stay(t) \/ HangNext(t) \/ PutOnCache(t)

\* Nobody else's list is touched.
LEMMA OthersSame ==
  ASSUME NEW t \in Threads, Others(t), NEW u \in Threads \ {t}
  PROVE  /\ u \in Busy' <=> u \in Busy
         /\ pc'[u] = pc[u] /\ pdent'[u] = pdent[u]
         /\ Taken(u)' = Taken(u) /\ HungOf(u)' = HungOf(u)
  BY DEF Others, Busy, Taken, HungOf

\* The entry in a thread's hands is the one that is read through its dirent.
LEMMA TakenFacts ==
  ASSUME OneFill, TypeInv, OneBatch, SlotsBehind, NEW t \in Busy
  PROVE  /\ EntryOf(t) = Taken(t) /\ Taken(t) \in Entries /\ Taken(t) \in Handed
         /\ t \in Threads /\ pdent[t] \in Nat /\ pdent[t] < dirpos /\ HungOf(t) \in Nat
<1>1. DirTypeOK /\ t \in Threads /\ pdent[t] \in Nat /\ pdent[t] < dirpos /\ made[t] \in Nat
  BY DirAssumption DEF TypeInv, TypeOK, SharedTypeOK, SlotsBehind, Busy
<1> QED BY <1>1, EntryStays DEF EntryOf, Taken, HungOf

LEMMA TakenApart ==
  ASSUME OneFill, TypeInv, OneBatch, SlotsBehind, Apart,
         NEW t \in Busy, NEW u \in Busy, Taken(t) = Taken(u)
  PROVE  t = u
<1>1. /\ pdent[t] \in Nat /\ pdent[t] < dirpos /\ pdent[u] \in Nat /\ pdent[u] < dirpos
      /\ dirpos <= Len(Dir) /\ dirpos \in Nat /\ Len(Dir) \in Nat
  BY TakenFacts, HandedFacts DEF TypeInv, TypeOK
<1>2. /\ pdent[t] + 1 \in 1..Len(Dir) /\ pdent[u] + 1 \in 1..Len(Dir)
      /\ Dir[pdent[t] + 1] = Dir[pdent[u] + 1]
  BY <1>1 DEF Taken
<1>3. pdent[t] = pdent[u]
  <2>1. pdent[t] + 1 = pdent[u] + 1
    BY <1>2, DirAssumption
  <2> QED BY <1>1, <2>1
<1> QED BY <1>3 DEF Apart

LEMMA StepMoves ==
  ASSUME OneFill, TypeInv, OneBatch, SlotsBehind, NamesRight, EndSeen,
         NEW t \in Threads, ThreadStep(t)
  PROVE  Moves(t) /\ OneBatch' /\ SlotsBehind' /\ NamesRight' /\ EndSeen'
<1> USE DEF At, InHand
<1>a. /\ pc \in [Threads -> PCs] /\ pdent \in [Threads -> 0..(BatchSize - 1)]
      /\ named \in [Threads -> Entries \cup {"none"}]
      /\ file \in [Threads -> Entries \cup {"none"}] /\ made \in [Threads -> Nat]
  BY DEF TypeInv, TypeOK, SharedTypeOK, PCs
<1>1. CASE Readdir(t)
  <2>1. /\ main = "joining" /\ pc[t] = "readdir" /\ Advance
        /\ pdent' = [pdent EXCEPT ![t] = NextSlot] /\ Goto(t, "inspect")
        /\ UNCHANGED <<mainvars, named, file, made, chain, cache>>
    BY <1>1 DEF Readdir
  <2>2. OneBatch' /\ NextSlot = dirpos /\ dirpos < Len(Dir) /\ dirpos' = dirpos + 1
    BY <2>1, BatchStep DEF TypeInv, TypeOK
  <2>3. /\ Others(t) /\ pc'[t] = "inspect" /\ pdent'[t] = dirpos
        /\ \A u \in Threads \ {t} : pc'[u] = pc[u] /\ pdent'[u] = pdent[u]
    BY <1>a, <2>1, <2>2 DEF Goto, Others
  <2>4. Receive(t)
    BY <2>1, <2>2, <2>3 DEF Receive, Busy, HungOf
  <2>5. dirpos \in Nat
    BY HandedFacts DEF TypeInv, TypeOK
  <2>6. SlotsBehind'
    <3>1. pdent'[t] < dirpos'
      BY <2>2, <2>3, <2>5
    <3>2. ASSUME NEW u \in Threads \ {t}, u \in Busy' PROVE pdent'[u] < dirpos'
      <4>1. u \in Busy /\ pdent'[u] = pdent[u]
        BY <2>3, <3>2 DEF Busy
      <4>2. pdent[u] \in Int /\ pdent[u] < dirpos
        BY <1>a, <4>1 DEF SlotsBehind
      <4> QED
        BY <2>2, <2>5, <4>1, <4>2
    <3> QED
      BY <3>1, <3>2 DEF SlotsBehind, Busy
  <2>7. NamesRight'
    BY <2>1, <2>3 DEF NamesRight, Busy, Taken, mainvars
  <2>8. EndSeen'
    <3>1. ~AtEnd
      BY <2>1 DEF Advance
    <3> QED BY <2>3, <3>1 DEF EndSeen
  <2> QED BY <2>1, <2>2, <2>3, <2>4, <2>6, <2>7, <2>8 DEF Moves
<1>2. CASE ReaddirEnds(t)
  <2>1. /\ main = "joining" /\ pc[t] = "readdir"
        /\ (AtEnd /\ Goto(t, "done")) \/ Goto(t, "failed")
        /\ UNCHANGED <<dirvars, mainvars, pdent, named, file, made, chain, cache>>
    BY <1>2 DEF ReaddirEnds
  <2>2. /\ Others(t) /\ pc'[t] \in {"done", "failed"} /\ (pc'[t] = "done" => AtEnd)
        /\ \A u \in Threads \ {t} : pc'[u] = pc[u]
    BY <1>a, <2>1 DEF Goto, Others
  <2>3. Drop(t)
    BY <2>1, <2>2 DEF Drop, Busy, dirvars
  <2>4. OneBatch' /\ SlotsBehind' /\ NamesRight' /\ EndSeen'
    BY <2>1, <2>2 DEF OneBatch, SlotsBehind, NamesRight, EndSeen, Busy, Taken, AtEnd,
                      dirvars, mainvars
  <2> QED BY <2>1, <2>2, <2>3, <2>4 DEF Moves
<1>3. CASE Inspect(t)
  <2>1. /\ main = "joining" /\ pc[t] = "inspect" /\ t \in Busy
        /\ named' = [named EXCEPT ![t] = EntryOf(t)]
        /\ Goto(t, IF EntryOf(t) \in Lists THEN "open" ELSE "readdir")
        /\ UNCHANGED <<dirvars, mainvars, pdent, file, made, chain, cache>>
    BY <1>3 DEF Inspect, Busy
  <2>2. EntryOf(t) = Taken(t)
    BY <2>1, TakenFacts
  <2>3. /\ Others(t) /\ pc'[t] = (IF Taken(t) \in Lists THEN "open" ELSE "readdir")
        /\ named'[t] = Taken(t)
        /\ \A u \in Threads \ {t} : pc'[u] = pc[u] /\ named'[u] = named[u]
    BY <1>a, <2>1, <2>2 DEF Goto, Others
  <2>4. Drop(t) \/ Stay(t)
    BY <2>1, <2>3 DEF Drop, Stay, Busy, HungOf, dirvars
  <2>5. OneBatch' /\ SlotsBehind' /\ EndSeen'
    BY <2>1, <2>3 DEF OneBatch, SlotsBehind, EndSeen, Busy, AtEnd, dirvars
  <2>6. NamesRight'
    BY <2>1, <2>3 DEF NamesRight, Busy, Taken, mainvars
  <2> QED BY <2>1, <2>3, <2>4, <2>5, <2>6 DEF Moves
<1>4. CASE Open(t)
  <2>1. /\ main = "joining" /\ pc[t] = "open" /\ t \in Busy
        /\ file' = [file EXCEPT ![t] = EntryOf(t)] /\ made' = [made EXCEPT ![t] = 0]
        /\ Goto(t, "lexing") \/ Goto(t, "failed")
        /\ UNCHANGED <<dirvars, mainvars, pdent, named, chain, cache>>
    BY <1>4 DEF Open, Busy
  <2>2. EntryOf(t) = Taken(t)
    BY <2>1, TakenFacts
  <2>3. /\ Others(t) /\ pc'[t] \in {"lexing", "failed"} /\ file'[t] = Taken(t) /\ made'[t] = 0
        /\ \A u \in Threads \ {t} : pc'[u] = pc[u] /\ file'[u] = file[u] /\ made'[u] = made[u]
    BY <1>a, <2>1, <2>2 DEF Goto, Others
  <2>4. Drop(t) \/ Stay(t)
    BY <2>1, <2>3 DEF Drop, Stay, Busy, HungOf, dirvars
  <2>5. OneBatch' /\ SlotsBehind' /\ EndSeen'
    BY <2>1, <2>3 DEF OneBatch, SlotsBehind, EndSeen, Busy, AtEnd, dirvars
  <2>6. NamesRight'
    BY <2>1, <2>3 DEF NamesRight, Busy, Taken, mainvars
  <2> QED BY <2>1, <2>3, <2>4, <2>5, <2>6 DEF Moves
<1>5. CASE Hang(t)
  <2>1. /\ main = "joining" /\ pc[t] = "lexing" /\ t \in Busy
        /\ made[t] < Len(Packages[file[t]]) /\ made' = [made EXCEPT ![t] = @ + 1]
        /\ chain' = [chain EXCEPT ![Packages[file[t]][made[t] + 1]] =
                       <<Pkg(file[t], made[t] + 1)>> \o @]
        /\ UNCHANGED <<dirvars, mainvars, pc, pdent, named, file, cache>>
    BY <1>5 DEF Hang, Busy
  <2>2. file[t] = Taken(t) /\ HungOf(t) = made[t] /\ Taken(t) \in Lists /\ Taken(t) \in Entries
    BY <2>1, TakenFacts DEF NamesRight, HungOf
  <2>3. /\ Others(t) /\ made'[t] = made[t] + 1
        /\ \A u \in Threads \ {t} : made'[u] = made[u]
    BY <1>a, <2>1 DEF Others
  <2>4. HungOf(t) + 1 \in 1..Len(Packages[Taken(t)])
    BY <1>a, <2>1, <2>2, PackageTypes
  <2>5. HangNext(t)
    BY <2>1, <2>2, <2>3, <2>4 DEF HangNext, NextName, NextPkg, Busy, HungOf, dirvars
  <2>6. OneBatch' /\ SlotsBehind' /\ EndSeen'
    BY <2>1, <2>3 DEF OneBatch, SlotsBehind, EndSeen, Busy, AtEnd, dirvars
  <2>7. NamesRight'
    BY <2>1, <2>3 DEF NamesRight, Busy, Taken, mainvars
  <2> QED BY <2>1, <2>3, <2>5, <2>6, <2>7 DEF Moves
<1>6. CASE Lexed(t)
  <2>1. /\ main = "joining" /\ pc[t] = "lexing" /\ t \in Busy
        /\ made[t] = Len(Packages[file[t]])
        /\ Goto(t, IF file[t] \in malformed THEN "failed" ELSE "publish")
        /\ UNCHANGED <<dirvars, mainvars, pdent, named, file, made, chain, cache>>
    BY <1>6 DEF Lexed, Busy
  <2>2. file[t] = Taken(t)
    BY <2>1 DEF NamesRight
  <2>3. /\ Others(t) /\ pc'[t] = (IF Taken(t) \in malformed THEN "failed" ELSE "publish")
        /\ \A u \in Threads \ {t} : pc'[u] = pc[u]
    BY <1>a, <2>1, <2>2 DEF Goto, Others
  <2>4. Drop(t) \/ Stay(t)
    BY <2>1, <2>3 DEF Drop, Stay, Busy, HungOf, dirvars
  <2>5. OneBatch' /\ SlotsBehind' /\ EndSeen'
    BY <2>1, <2>3 DEF OneBatch, SlotsBehind, EndSeen, Busy, AtEnd, dirvars
  <2>6. NamesRight'
    BY <2>1, <2>2, <2>3 DEF NamesRight, Busy, Taken, mainvars
  <2> QED BY <2>1, <2>3, <2>4, <2>5, <2>6 DEF Moves
<1>7. CASE Publish(t)
  <2>1. /\ main = "joining" /\ pc[t] = "publish" /\ t \in Busy
        /\ \/ /\ cache' = <<[file |-> file[t], pcount |-> made[t], uri |-> EntryOf(t),
                             dist |-> IF EntryOf(t) = named[t] THEN named[t] ELSE "garbage"]>>
                          \o cache
              /\ Goto(t, "readdir")
           \/ Goto(t, "failed") /\ UNCHANGED cache
        /\ UNCHANGED <<dirvars, mainvars, pdent, named, file, made, chain>>
    BY <1>7 DEF Publish, Busy
  <2>2. /\ EntryOf(t) = Taken(t) /\ named[t] = Taken(t) /\ file[t] = Taken(t)
        /\ made[t] = Len(Packages[Taken(t)]) /\ Taken(t) \in Lists \ malformed
    BY <2>1, TakenFacts DEF NamesRight
  <2>3. /\ Others(t) /\ pc'[t] \in {"readdir", "failed"}
        /\ \/ pc'[t] = "failed" /\ UNCHANGED cache
           \/ cache' = <<Record(Taken(t))>> \o cache
        /\ \A u \in Threads \ {t} : pc'[u] = pc[u]
    BY <1>a, <2>1, <2>2 DEF Goto, Others, Record
  <2>4. Drop(t) \/ PutOnCache(t)
    BY <2>1, <2>2, <2>3 DEF Drop, PutOnCache, Busy, HungOf, dirvars
  <2>5. OneBatch' /\ SlotsBehind' /\ EndSeen'
    BY <2>1, <2>3 DEF OneBatch, SlotsBehind, EndSeen, Busy, AtEnd, dirvars
  <2>6. NamesRight'
    BY <2>1, <2>3 DEF NamesRight, Busy, Taken, mainvars
  <2> QED BY <2>1, <2>3, <2>4, <2>5, <2>6 DEF Moves
<1> QED BY <1>1, <1>2, <1>3, <1>4, <1>5, <1>6, <1>7 DEF ThreadStep

-----------------------------------------------------------------------------
(* The moves keep the invariant.                                            *)

LEMMA HangFacts ==
  ASSUME OneFill, TypeInv, OneBatch, SlotsBehind, NEW t \in Threads, HangNext(t)
  PROVE  /\ NextName(t) \in Names /\ NextPkg(t) \in Elements(chain'[NextName(t)])
         /\ \A m \in Names : /\ Len(chain[m]) \in Nat /\ Len(chain'[m]) \in Nat
                             /\ Elements(chain[m]) \subseteq Elements(chain'[m])
         /\ \A m \in Names : \A i \in 1..Len(chain'[m]) :
              \/ m = NextName(t) /\ i = 1 /\ chain'[m][i] = NextPkg(t)
              \/ /\ m = NextName(t) /\ i - 1 \in 1..Len(chain[m])
                 /\ chain'[m][i] = chain[m][i - 1]
              \/ /\ m # NextName(t) /\ i \in 1..Len(chain[m])
                 /\ chain'[m][i] = chain[m][i]
<1>1. /\ NextName(t) \in Names /\ NextPkg(t) \in Package
  <2>1. Taken(t) \in Entries /\ HungOf(t) \in Nat /\ HungOf(t) + 1 \in 1..Len(Packages[Taken(t)])
    BY TakenFacts DEF HangNext
  <2> QED BY <2>1, PackageTypes DEF NextName, NextPkg, Pkg, Package
<1>2. chain \in [Names -> Seq(Package)] /\ \A m \in Names : Len(chain[m]) \in Nat
  BY DEF TypeInv, SharedTypeOK
<1>3. /\ chain'[NextName(t)] = <<NextPkg(t)>> \o chain[NextName(t)]
      /\ \A m \in Names : m # NextName(t) => chain'[m] = chain[m]
  BY <1>1, <1>2 DEF HangNext
<1> HIDE DEF NextName, NextPkg
<1> DEFINE n == NextName(t)
<1>4. /\ chain'[n] \in Seq(Package) /\ Len(chain'[n]) = Len(chain[n]) + 1
      /\ chain'[n][1] = NextPkg(t) /\ 1 \in 1..Len(chain'[n])
      /\ \A i \in 1..Len(chain'[n]) :
           i = 1 \/ (i - 1 \in 1..Len(chain[n]) /\ chain'[n][i] = chain[n][i - 1])
      /\ \A i \in 1..Len(chain[n]) : i + 1 \in 1..Len(chain'[n]) /\ chain'[n][i + 1] = chain[n][i]
  BY <1>1, <1>2, <1>3, PushFacts
<1>5. NextPkg(t) \in Elements(chain'[n]) /\ Elements(chain[n]) \subseteq Elements(chain'[n])
  BY <1>4 DEF Elements
<1>6. ASSUME NEW m \in Names
      PROVE  /\ Len(chain[m]) \in Nat /\ Len(chain'[m]) \in Nat
             /\ Elements(chain[m]) \subseteq Elements(chain'[m])
             /\ m # n => chain'[m] = chain[m]
  <2>1. Len(chain[m]) \in Nat /\ Len(chain'[n]) \in Nat
    BY <1>2, <1>4
  <2> HIDE DEF n
  <2>2. CASE m = n
    BY <1>5, <2>1, <2>2
  <2>3. CASE m # n
    <3>1. chain'[m] = chain[m]
      BY <1>3, <2>3 DEF n
    <3> QED BY <2>1, <2>3, <3>1
  <2> QED BY <2>2, <2>3
<1>7. ASSUME NEW m \in Names, NEW i \in 1..Len(chain'[m])
      PROVE  \/ m = n /\ i = 1 /\ chain'[m][i] = NextPkg(t)
             \/ m = n /\ i - 1 \in 1..Len(chain[m]) /\ chain'[m][i] = chain[m][i - 1]
             \/ m # n /\ i \in 1..Len(chain[m]) /\ chain'[m][i] = chain[m][i]
  <2> HIDE DEF n
  <2>1. CASE m = n
    BY <1>4, <1>7, <2>1
  <2>2. CASE m # n
    BY <1>6, <1>7, <2>2
  <2> QED BY <2>1, <2>2
<1> QED BY <1>1, <1>5, <1>6, <1>7

\* Two threads have different lists.
LEMMA ApartStep ==
  ASSUME OneFill, TypeInv, OneBatch, SlotsBehind, Apart, NEW t \in Threads, Moves(t)
  PROVE  Apart'
<1>1. Others(t) /\ Busy' \subseteq Threads /\ Busy \subseteq Threads
  BY DEF Moves, Busy
<1>2. ASSUME NEW u \in Busy', NEW v \in Busy', pdent'[u] = pdent'[v], u # t, v # t
      PROVE  u = v
  BY <1>1, <1>2, OthersSame DEF Apart
<1>3. ASSUME t \in Busy', NEW u \in Busy', pdent'[u] = pdent'[t], u # t
      PROVE  FALSE
  <2>1. u \in Busy /\ pdent'[u] = pdent[u]
    BY <1>1, <1>3, OthersSame
  <2>2. CASE Receive(t)
    <3>1. pdent[u] \in Nat /\ dirpos \in Nat /\ pdent[u] < dirpos /\ pdent[u] = dirpos
      BY <1>3, <2>1, <2>2, TakenFacts, HandedFacts DEF Receive, TypeInv, TypeOK
    <3> QED BY <3>1
  <2>3. CASE ~Receive(t)
    <3>1. t \in Busy /\ pdent'[t] = pdent[t]
      BY <1>3, <2>3 DEF Moves, Drop, Stay, HangNext, PutOnCache
    <3> QED BY <1>3, <2>1, <3>1 DEF Apart
  <2> QED BY <2>2, <2>3
<1> QED BY <1>2, <1>3 DEF Apart

\* What hangs in the chains, and in which order.
LEMMA ChainStep ==
  ASSUME OneFill, TypeInv, DirInv, NEW t \in Threads, Moves(t)
  PROVE  ChainRight' /\ NoneBeyond' /\ FileOrderKept'
<1> USE DEF DirInv
<1>1. /\ Others(t) /\ UNCHANGED malformed /\ Busy' \subseteq Threads /\ Busy \subseteq Threads
      /\ \A m \in Names : Len(chain[m]) \in Nat
  BY DEF Moves, mainvars, Busy, TypeInv, SharedTypeOK
<1>2. CASE HangNext(t)
  <2> DEFINE e == Taken(t)
             k == HungOf(t) + 1
  <2>1. /\ t \in Busy /\ UNCHANGED dirpos /\ Taken(t)' = e /\ HungOf(t)' = k
        /\ e \in Lists /\ k \in 1..Len(Packages[e])
    BY <1>2 DEF HangNext, Taken
  <2>2. /\ e \in Handed /\ Handed' = Handed /\ HungOf(t) \in Nat /\ k \in Nat
    BY <2>1, TakenFacts DEF Handed
  <2>3. /\ NextPkg(t).file = e /\ NextPkg(t).nth = k /\ NextName(t) = Packages[e][k]
    BY DEF NextPkg, NextName, Pkg
  <2> HIDE DEF e, k
  <2>4. ChainRight'
    <3>1. ASSUME NEW m \in Names, NEW i \in 1..Len(chain'[m])
          PROVE  /\ chain'[m][i].file \in Handed \cap Lists
                 /\ chain'[m][i].nth \in 1..Len(Packages[chain'[m][i].file])
                 /\ Packages[chain'[m][i].file][chain'[m][i].nth] = m
      <4>1. \/ m = NextName(t) /\ chain'[m][i] = NextPkg(t)
            \/ \E j \in 1..Len(chain[m]) : chain'[m][i] = chain[m][j]
        BY <1>2, HangFacts
      <4> QED BY <2>1, <2>2, <2>3, <4>1 DEF ChainRight
    <3> QED BY <2>2, <3>1 DEF ChainRight
  <2>5. \A u \in Busy' : u # t => Taken(u)' # e
    <3>1. ASSUME NEW u \in Busy', u # t
          PROVE  Taken(u)' # e
      <4>1. u \in Busy /\ Taken(u)' = Taken(u)
        BY <1>1, <3>1, OthersSame
      <4> QED BY <2>1, <3>1, <4>1, TakenApart DEF e
    <3> QED BY <3>1
  <2>6. NoneBeyond'
    <3>1. ASSUME NEW u \in Busy', NEW m \in Names, NEW i \in 1..Len(chain'[m]),
                 chain'[m][i].file = Taken(u)'
          PROVE  chain'[m][i].nth <= HungOf(u)'
      <4>1. CASE chain'[m][i] = NextPkg(t)
        BY <2>1, <2>2, <2>3, <2>5, <3>1, <4>1
      <4>2. CASE chain'[m][i] # NextPkg(t)
        <5>1. PICK j \in 1..Len(chain[m]) : chain'[m][i] = chain[m][j]
          BY <1>2, <4>2, HangFacts
        <5>2. CASE u = t
          <6>1. chain[m][j].nth <= HungOf(t) /\ chain[m][j].nth \in Nat
            <7>1. chain[m][j].file = Taken(t)
              BY <2>1, <3>1, <5>1, <5>2 DEF e
            <7>2. chain[m][j] \in Package
              BY DEF TypeInv, SharedTypeOK
            <7> QED BY <2>1, <7>1, <7>2 DEF NoneBeyond, Package
          <6>2. chain[m][j].nth <= k
            BY <2>2, <6>1 DEF k
          <6> QED BY <2>1, <5>1, <5>2, <6>2
        <5>3. CASE u # t
          <6>1. u \in Busy /\ Taken(u)' = Taken(u) /\ HungOf(u)' = HungOf(u)
            BY <1>1, <5>3, OthersSame
          <6> QED BY <3>1, <5>1, <6>1 DEF NoneBeyond
        <5> QED BY <5>2, <5>3
      <4> QED BY <4>1, <4>2
    <3> QED BY <3>1 DEF NoneBeyond
  <2>7. FileOrderKept'
    <3>1. ASSUME NEW m \in Names, NEW i \in 1..Len(chain'[m]), NEW j \in 1..Len(chain'[m]),
                 i < j, chain'[m][i].file = chain'[m][j].file
          PROVE  chain'[m][i].nth > chain'[m][j].nth
      <4>0. Len(chain'[m]) \in Nat /\ i \in Int /\ j \in Int /\ 1 <= i
        BY <1>2, HangFacts
      <4>1. CASE m # NextName(t)
        <5>1. /\ i \in 1..Len(chain[m]) /\ chain'[m][i] = chain[m][i]
              /\ j \in 1..Len(chain[m]) /\ chain'[m][j] = chain[m][j]
          BY <1>2, <4>1, HangFacts
        <5> QED BY <3>1, <5>1 DEF FileOrderKept
      <4>2. CASE m = NextName(t) /\ i # 1
        <5>1. /\ i - 1 \in 1..Len(chain[m]) /\ chain'[m][i] = chain[m][i - 1]
              /\ j - 1 \in 1..Len(chain[m]) /\ chain'[m][j] = chain[m][j - 1]
          BY SMTT(30), <1>2, <3>1, <4>0, <4>2, HangFacts
        <5>2. i - 1 < j - 1
          BY <3>1, <4>0
        <5> QED BY <3>1, <5>1, <5>2 DEF FileOrderKept
      <4>3. CASE m = NextName(t) /\ i = 1
        <5>1. /\ chain'[m][i] = NextPkg(t)
              /\ j - 1 \in 1..Len(chain[m]) /\ chain'[m][j] = chain[m][j - 1]
          BY SMTT(30), <1>1, <1>2, <3>1, <4>0, <4>3, HangFacts
        <5>2. chain[m][j - 1] \in Package /\ chain[m][j - 1].file = Taken(t)
          BY <2>3, <3>1, <5>1 DEF TypeInv, SharedTypeOK, e
        <5>3. chain[m][j - 1].nth <= HungOf(t) /\ chain[m][j - 1].nth \in Nat
          BY <2>1, <5>1, <5>2 DEF NoneBeyond, Package
        <5>4. chain[m][j - 1].nth < k
          BY <2>2, <5>3 DEF k
        <5> QED BY <2>2, <2>3, <5>1, <5>3, <5>4
      <4> QED BY <4>1, <4>2, <4>3
    <3> QED BY <3>1 DEF FileOrderKept
  <2> QED BY <2>4, <2>6, <2>7
<1>3. CASE Receive(t)
  <2>1. /\ UNCHANGED chain /\ t \notin Busy /\ Handed \subseteq Handed'
        /\ Taken(t)' \notin Handed
    <3>1. DirTypeOK /\ dirpos < Len(Dir) /\ dirpos' = dirpos + 1 /\ pdent'[t] = dirpos
      BY <1>3 DEF Receive, TypeInv, TypeOK
    <3> QED BY <1>3, <3>1, FreshEntry DEF Receive, Taken
  <2>2. ChainRight' /\ FileOrderKept'
    BY <2>1 DEF ChainRight, FileOrderKept
  <2>3. NoneBeyond'
    <3>1. ASSUME NEW u \in Busy', NEW m \in Names, NEW i \in 1..Len(chain[m]),
                 chain[m][i].file = Taken(u)'
          PROVE  chain[m][i].nth <= HungOf(u)'
      <4>1. u # t
        BY <2>1, <3>1 DEF ChainRight
      <4>2. u \in Busy /\ Taken(u)' = Taken(u) /\ HungOf(u)' = HungOf(u)
        BY <1>1, <4>1, OthersSame
      <4> QED BY <3>1, <4>2 DEF NoneBeyond
    <3> QED BY <2>1, <3>1 DEF NoneBeyond
  <2> QED BY <2>2, <2>3
<1>4. CASE Drop(t) \/ Stay(t) \/ PutOnCache(t)
  <2>1. /\ UNCHANGED <<chain, Handed>>
        /\ t \in Busy' => t \in Busy /\ Taken(t)' = Taken(t) /\ HungOf(t)' = HungOf(t)
    BY <1>4 DEF Drop, Stay, PutOnCache, Handed, Taken
  <2>2. ChainRight' /\ FileOrderKept'
    BY <2>1 DEF ChainRight, FileOrderKept
  <2>3. \A u \in Busy' : u \in Busy /\ Taken(u)' = Taken(u) /\ HungOf(u)' = HungOf(u)
    BY <1>1, <2>1, OthersSame
  <2>4. NoneBeyond'
    BY <2>1, <2>3 DEF NoneBeyond
  <2> QED BY <2>2, <2>4
<1> QED BY <1>2, <1>3, <1>4 DEF Moves

LEMMA InitInv ==
  ASSUME Init
  PROVE  DirInv
<1> USE DEF Init
<1>1. OneBatch /\ Handed = {}
  BY DEF DirInit, OneBatch, Handed
<1>2. Busy = {} /\ \A n \in Names : Len(chain[n]) = 0
  BY DEF Busy, InHand
<1>3. Len(cache) = 0
  OBVIOUS
<1>4. ChainRight /\ NoneBeyond /\ FileOrderKept /\ NoneMissing
  BY <1>2 DEF ChainRight, NoneBeyond, FileOrderKept, NoneMissing
<1>5. CacheRight /\ NoneLost
  BY <1>1, <1>3 DEF CacheRight, NoneLost
<1>6. SlotsBehind /\ Apart /\ NamesRight /\ EndSeen /\ ReportRight
  BY <1>2 DEF SlotsBehind, Apart, NamesRight, EndSeen, ReportRight
<1> QED BY <1>1, <1>4, <1>5, <1>6 DEF DirInv

\* What hangs, what is on the cache, and that nothing is lost in between.
LEMMA CacheStep ==
  ASSUME OneFill, TypeInv, DirInv, NEW t \in Threads, Moves(t)
  PROVE  NoneMissing' /\ CacheRight' /\ NoneLost'
<1> USE DEF DirInv
<1>1. /\ Others(t) /\ UNCHANGED <<malformed, ret>> /\ pc[t] # "failed"
      /\ Busy' \subseteq Threads /\ Busy \subseteq Threads
      /\ Len(cache) \in Nat /\ cache \in Seq(List)
  BY DEF Moves, mainvars, Busy, TypeInv, SharedTypeOK
\* What hangs stays, and so does what the others have.
<1>2. \A e \in Entries : \A k \in 1..Len(Packages[e]) : Hung(e, k) => Hung(e, k)'
  <2>1. CASE HangNext(t)
    <3>1. \A m \in Names : Elements(chain[m]) \subseteq Elements(chain'[m])
      BY <2>1, HangFacts
    <3> QED BY <3>1, PackageTypes DEF Hung
  <2>2. CASE ~HangNext(t)
    BY <2>2 DEF Moves, Drop, Receive, Stay, PutOnCache, Hung
  <2> QED BY <2>1, <2>2
<1>3. \A u \in Busy' : u # t => u \in Busy /\ Taken(u)' = Taken(u) /\ HungOf(u)' = HungOf(u)
  BY <1>1, OthersSame
<1>4. \A u \in Busy : u # t => u \in Busy' /\ Taken(u)' = Taken(u)
  BY <1>1, OthersSame
\* A thread has not hung more than there is.
<1>5. \A u \in Busy : /\ Taken(u) \in Entries /\ HungOf(u) \in Nat
                      /\ \A k \in 1..HungOf(u) : k \in 1..Len(Packages[Taken(u)])
  <2>1. ASSUME NEW u \in Busy
        PROVE  HungOf(u) \in 0..Len(Packages[Taken(u)])
    <3>1. Taken(u) \in Entries /\ Len(Packages[Taken(u)]) \in Nat /\ u \in Threads
      BY TakenFacts, PackageTypes
    <3>2. CASE pc[u] \in {"lexing", "publish"}
      BY <3>1, <3>2, PkgDirAssumption DEF HungOf, TypeInv, TypeOK, NamesRight
    <3>3. CASE pc[u] \notin {"lexing", "publish"}
      BY <3>1, <3>3 DEF HungOf
    <3> QED BY <3>2, <3>3
  <2>2. \A u \in Busy : Taken(u) \in Entries /\ Len(Packages[Taken(u)]) \in Nat
    BY TakenFacts, PackageTypes
  <2> QED BY <2>1, <2>2
<1>6. NoneMissing'
  <2>1. ASSUME NEW u \in Busy', NEW e, e = Taken(u)', NEW k \in 1..HungOf(u)'
        PROVE  Hung(e, k)'
    <3>1. CASE u \in Busy /\ Taken(u)' = Taken(u) /\ HungOf(u)' = HungOf(u)
      BY <1>2, <1>5, <2>1, <3>1 DEF NoneMissing
    <3>2. CASE u = t /\ Receive(t)
      BY <2>1, <3>2 DEF Receive
    <3>3. CASE u = t /\ HangNext(t)
      <4>1. t \in Busy /\ e = Taken(t) /\ HungOf(t)' = HungOf(t) + 1 /\ HungOf(t) \in Nat
        BY <1>5, <2>1, <3>3 DEF HangNext, Taken
      <4>2. CASE k = HungOf(t) + 1
        BY <3>3, <4>1, <4>2, HangFacts DEF Hung, NextPkg, NextName
      <4>3. CASE k # HungOf(t) + 1
        <5>1. k \in 1..HungOf(t)
          BY <2>1, <3>3, <4>1, <4>3
        <5> QED BY <1>2, <1>5, <4>1, <5>1 DEF NoneMissing
      <4> QED BY <4>2, <4>3
    <3> QED BY <1>3, <2>1, <3>1, <3>2, <3>3 DEF Moves, Drop, Stay, PutOnCache, Taken
  <2> QED BY <2>1 DEF NoneMissing
\* What is finished stays so.
<1>7. \A e : Finished(e) => Finished(e)'
  <2>1. SUFFICES ASSUME NEW e, Finished(e)
                 PROVE  Finished(e)'
    OBVIOUS
  <2>2. Handed \subseteq Handed' /\ (t \in Busy' /\ t \notin Busy => Taken(t)' \notin Handed)
    <3>1. CASE Receive(t)
      <4>1. DirTypeOK /\ dirpos < Len(Dir) /\ dirpos' = dirpos + 1 /\ pdent'[t] = dirpos
        BY <3>1 DEF Receive, TypeInv, TypeOK
      <4> QED BY <4>1, FreshEntry DEF Taken
    <3>2. CASE ~Receive(t)
      BY <3>2 DEF Moves, Drop, Stay, HangNext, PutOnCache, Handed
    <3> QED BY <3>1, <3>2
  <2>3. e \in (Handed' \cap Lists) \ malformed'
    BY <1>1, <2>1, <2>2 DEF Finished
  <2>4. \A k \in 1..Len(Packages[e]) : Hung(e, k)'
    <3>1. e \in Entries
      BY <2>1, HandedFacts DEF Finished, TypeInv, TypeOK
    <3> QED BY <1>2, <2>1, <3>1 DEF Finished
  <2>5. ASSUME NEW u \in Busy'
        PROVE  Taken(u)' # e
    <3>1. CASE u # t
      BY <1>3, <2>1, <2>5, <3>1 DEF Finished
    <3>2. CASE u = t /\ t \notin Busy
      BY <2>1, <2>2, <2>5, <3>2 DEF Finished
    <3>3. CASE u = t /\ t \in Busy
      <4>1. pdent'[t] = pdent[t]
        <5>1. t \in Busy' /\ t \in Busy
          BY <2>5, <3>3
        <5> QED BY <5>1 DEF Moves, Drop, Receive, Stay, HangNext, PutOnCache
      <4> QED BY <2>1, <3>3, <4>1 DEF Finished, Taken
    <3> QED BY <3>1, <3>2, <3>3
  <2> QED BY <2>3, <2>4, <2>5 DEF Finished
<1>8. CASE PutOnCache(t)
  <2>0. PICK d : d = Taken(t)
    OBVIOUS
  <2>1. /\ t \in Busy /\ t \notin Busy' /\ d \in Lists \ malformed /\ d \in Handed
        /\ HungOf(t) = Len(Packages[d]) /\ Handed' = Handed
        /\ cache' = <<Record(d)>> \o cache /\ Record(d) \in List
    <3>1. t \in Busy /\ d \in Entries /\ d \in Handed /\ Len(Packages[d]) \in Nat
      BY <1>8, <2>0, TakenFacts, PackageTypes DEF PutOnCache
    <3> QED BY <1>8, <2>0, <3>1 DEF PutOnCache, Handed, Record, List
  <2>2. Finished(d)'
    <3>1. \A k \in 1..Len(Packages[d]) : Hung(d, k) /\ k \in 1..HungOf(t)
      BY <2>0, <2>1 DEF NoneMissing
    <3>2. \A k \in 1..Len(Packages[d]) : Hung(d, k)'
      BY <1>2, <1>5, <2>0, <2>1, <3>1
    <3>3. \A u \in Busy' : Taken(u)' # d
      BY <1>3, <2>0, <2>1, TakenApart
    <3> QED BY <1>1, <2>1, <3>2, <3>3 DEF Finished
  <2>3. \A i \in 1..Len(cache) : cache[i].file # d
    BY <2>0, <2>1 DEF CacheRight, Finished
  <2>4. /\ cache' \in Seq(List) /\ Len(cache') \in Nat /\ Len(cache') = Len(cache) + 1
        /\ cache'[1] = Record(d) /\ 1 \in 1..Len(cache')
        /\ \A i \in 1..Len(cache') :
             i = 1 \/ (i - 1 \in 1..Len(cache) /\ cache'[i] = cache[i - 1])
        /\ \A i \in 1..Len(cache) : i + 1 \in 1..Len(cache') /\ cache'[i + 1] = cache[i]
    BY <1>1, <2>1, PushFacts
  <2>5. cache'[1].file = d
    BY <2>4 DEF Record
  <2>6. ASSUME NEW i \in 1..Len(cache')
        PROVE  cache'[i] = Record(cache'[i].file) /\ \A e : e = cache'[i].file => Finished(e)'
    <3>1. CASE i = 1
      BY <2>2, <2>4, <2>5, <3>1
    <3>2. CASE i # 1
      BY <1>7, <2>4, <3>2 DEF CacheRight
    <3> QED BY <3>1, <3>2
  <2>7. ASSUME NEW i \in 1..Len(cache'), NEW j \in 1..Len(cache'),
               cache'[i].file = cache'[j].file
        PROVE  i = j
    <3>1. CASE i = 1 \/ j = 1
      BY <2>3, <2>4, <2>5, <2>7, <3>1
    <3>2. CASE i # 1 /\ j # 1
      <4>1. /\ i - 1 \in 1..Len(cache) /\ cache'[i] = cache[i - 1]
            /\ j - 1 \in 1..Len(cache) /\ cache'[j] = cache[j - 1]
        BY <2>4, <3>2
      <4>2. i - 1 = j - 1
        BY <2>7, <4>1 DEF CacheRight
      <4>3. i \in Int /\ j \in Int
        BY <2>4
      <4> QED BY <4>2, <4>3
    <3> QED BY <3>1, <3>2
  <2>8. CacheRight'
    <3>1. \A i \in 1..Len(cache') :
            cache'[i] = Record(cache'[i].file) /\ Finished(cache[i].file)'
      BY <2>6
    <3> QED BY <2>7, <3>1 DEF CacheRight, Record
  <2>9. NoneLost'
    <3>1. CASE (\E u \in Threads : pc[u] = "failed") \/ ret = "null"
      BY <1>1, <3>1 DEF NoneLost, Others
    <3>2. CASE \A e \in Handed \cap Lists :
                 (\E u \in Busy : Taken(u) = e) \/ (\E i \in 1..Len(cache) : cache[i].file = e)
      <4>1. ASSUME NEW e \in Handed \cap Lists
            PROVE  \/ \E u \in Busy' : Taken(u)' = e
                   \/ \E i \in 1..Len(cache') : cache'[i].file = e
        <5>1. CASE \E i \in 1..Len(cache) : cache[i].file = e
          BY <2>4, <5>1
        <5>2. CASE e = d
          BY <2>4, <2>5, <5>2
        <5>3. CASE e # d /\ \E u \in Busy : Taken(u) = e
          BY <1>4, <2>0, <5>3
        <5> QED BY <3>2, <5>1, <5>2, <5>3
      <4> QED BY <2>1, <4>1 DEF NoneLost
    <3> QED BY <3>1, <3>2 DEF NoneLost
  <2> QED BY <1>6, <2>8, <2>9
<1>9. CASE ~PutOnCache(t)
  <2>1. UNCHANGED cache
    BY <1>9 DEF Moves, Drop, Receive, Stay, HangNext
  <2>2. CacheRight'
    <3>1. \A i \in 1..Len(cache) : cache[i] = Record(cache[i].file) /\ Finished(cache[i].file)'
      <4>1. \A i \in 1..Len(cache) : \A e : e = cache[i].file => Finished(e)'
        BY <1>7 DEF CacheRight
      <4> QED BY <2>1, <4>1 DEF CacheRight
    <3> QED BY <2>1, <3>1 DEF CacheRight, Record
  <2>3. NoneLost'
    <3>1. CASE (\E u \in Threads : pc[u] = "failed") \/ ret = "null" \/ pc'[t] = "failed"
      BY <1>1, <3>1 DEF NoneLost, Others
    <3>2. CASE pc'[t] # "failed" /\ \A e \in Handed \cap Lists :
                 (\E u \in Busy : Taken(u) = e) \/ (\E i \in 1..Len(cache) : cache[i].file = e)
      <4>1. ASSUME NEW e \in Handed \cap Lists
            PROVE  \/ \E u \in Busy' : Taken(u)' = e
                   \/ \E i \in 1..Len(cache') : cache'[i].file = e
        <5>1. CASE \E i \in 1..Len(cache) : cache[i].file = e
          BY <2>1, <5>1
        <5>2. CASE t \in Busy /\ Taken(t) = e
          <6>1. t \in Busy' /\ pdent'[t] = pdent[t]
            BY <1>9, <3>2, <5>2 DEF Moves, Drop, Receive, Stay, HangNext
          <6> QED BY <5>2, <6>1 DEF Taken
        <5>3. CASE \E u \in Busy : u # t /\ Taken(u) = e
          BY <1>4, <5>3
        <5> QED BY <3>2, <5>1, <5>2, <5>3
      <4>2. \A e \in Handed' : e \in Handed \/ (t \in Busy' /\ Taken(t)' = e)
        <5>1. CASE Receive(t)
          <6>1. /\ DirTypeOK /\ dirpos < Len(Dir) /\ dirpos' = dirpos + 1
                /\ t \in Busy' /\ Taken(t)' = Dir[dirpos + 1]
            BY <5>1 DEF Receive, TypeInv, TypeOK, Taken
          <6> QED BY <6>1, FreshEntry
        <5>2. CASE ~Receive(t)
          BY <1>9, <5>2 DEF Moves, Drop, Stay, HangNext, Handed
        <5> QED BY <5>1, <5>2
      <4> QED BY <4>1, <4>2 DEF NoneLost
    <3> QED BY <3>1, <3>2 DEF NoneLost
  <2> QED BY <1>6, <2>2, <2>3
<1> QED BY <1>8, <1>9

LEMMA CallerKeeps ==
  ASSUME TypeInv, DirInv, CallerStep
  PROVE  DirInv'
<1> USE DEF DirInv
<1>1. /\ UNCHANGED <<malformed, dirpos, base, fetched, pc, pdent, named, file, made, chain>>
      /\ \/ main' \in {"joining", "closing"} /\ UNCHANGED <<ret, cache>> /\ ret = "none"
         \/ main' = "returned" /\ ret' = "cache" /\ UNCHANGED cache
         \/ main' = "returned" /\ ret' = "null" /\ cache' = <<>>
      /\ main' = "closing" \/ ret' = "cache" => \A t \in Threads : pc[t] = "done"
  BY DEF CallerStep, Call, Join, Closedir, GiveUp, poolvars, dirvars, ReportRight
<1>2. OneBatch' /\ SlotsBehind' /\ Apart' /\ EndSeen' /\ ReportRight'
  BY <1>1 DEF OneBatch, SlotsBehind, Apart, Busy, EndSeen, AtEnd, ReportRight
<1>3. NamesRight'
  BY <1>1 DEF NamesRight, Busy, Taken
<1>4. ChainRight' /\ NoneBeyond' /\ FileOrderKept' /\ NoneMissing'
  BY <1>1 DEF ChainRight, NoneBeyond, FileOrderKept, NoneMissing, Hung, Busy, Taken, HungOf, Handed
<1>5. \A e : Finished(e) => Finished(e)'
  BY <1>1 DEF Finished, Hung, Busy, Taken, Handed
<1>6. CASE UNCHANGED cache
  <2>1. CacheRight'
    <3>1. \A i \in 1..Len(cache) : cache[i] = Record(cache[i].file) /\ Finished(cache[i].file)'
      <4>1. \A i \in 1..Len(cache) : \A e : e = cache[i].file => Finished(e)'
        BY <1>5 DEF CacheRight
      <4> QED BY <1>6, <4>1 DEF CacheRight
    <3> QED BY <1>6, <3>1 DEF CacheRight, Record
  <2>2. NoneLost'
    BY <1>1, <1>6 DEF NoneLost, Busy, Taken, Handed, ReportRight, CallerStep, Call, Join, Closedir
  <2> QED BY <1>2, <1>3, <1>4, <2>1, <2>2
<1>7. CASE ret' = "null" /\ cache' = <<>>
  <2>1. Len(cache') = 0
    BY <1>7
  <2>2. CacheRight' /\ NoneLost'
    BY <1>7, <2>1 DEF CacheRight, NoneLost
  <2> QED BY <1>2, <1>3, <1>4, <2>2
<1> QED BY <1>1, <1>6, <1>7

LEMMA DirStep ==
  ASSUME OneFill, TypeInv, DirInv, [Next]_vars
  PROVE  DirInv'
<1>1. ASSUME NEW t \in Threads, ThreadStep(t)
      PROVE  DirInv'
  <2>1. Moves(t) /\ OneBatch' /\ SlotsBehind' /\ NamesRight' /\ EndSeen'
    BY <1>1, StepMoves DEF DirInv
  <2>2. Apart' /\ ChainRight' /\ NoneBeyond' /\ FileOrderKept'
    BY <2>1, ApartStep, ChainStep DEF DirInv
  <2>3. NoneMissing' /\ CacheRight' /\ NoneLost'
    BY <2>1, CacheStep
  <2>4. ReportRight'
    BY <2>1 DEF DirInv, Moves, ReportRight, mainvars
  <2> QED BY <2>1, <2>2, <2>3, <2>4 DEF DirInv
<1>2. CASE CallerStep
  BY <1>2, CallerKeeps
<1>3. CASE UNCHANGED vars
  <2>1. /\ UNCHANGED <<malformed, main, ret, dirpos, base, fetched>>
        /\ UNCHANGED <<pc, pdent, named, file, made, chain, cache>>
    BY <1>3 DEF vars, dirvars, mainvars
  <2>2. OneBatch' /\ SlotsBehind' /\ Apart' /\ EndSeen' /\ ReportRight'
    BY <2>1 DEF DirInv, OneBatch, SlotsBehind, Apart, Busy, EndSeen, AtEnd, ReportRight
  <2>3. NamesRight'
    BY <2>1 DEF DirInv, NamesRight, Busy, Taken
  <2>4. ChainRight' /\ NoneBeyond' /\ FileOrderKept' /\ NoneMissing'
    BY <2>1 DEF DirInv, ChainRight, NoneBeyond, FileOrderKept, NoneMissing, Hung, Busy, Taken,
                HungOf, Handed
  <2>5. CacheRight' /\ NoneLost'
    BY <2>1 DEF DirInv, CacheRight, NoneLost, Finished, Hung, Busy, Taken, Handed
  <2> QED BY <2>2, <2>3, <2>4, <2>5 DEF DirInv
<1> QED BY <1>1, <1>2, <1>3 DEF Next, WalkStep, Returned

LEMMA DirInvariant == ASSUME OneFill PROVE Spec => [](TypeInv /\ DirInv)
<1>1. Init => TypeInv /\ DirInv
  BY InitType, InitInv
<1>2. TypeInv /\ DirInv /\ [Next]_vars => (TypeInv /\ DirInv)'
  BY TypeStep, DirStep
<1> QED BY <1>1, <1>2, PTL DEF Spec

-----------------------------------------------------------------------------
(* What the invariant says of a successful call.                            *)

LEMMA Counting ==
  ASSUME NEW S, NEW n \in Nat, NEW f \in [1..n -> S],
         \A i, j \in 1..n : f[i] = f[j] => i = j,
         \A e \in S : \E i \in 1..n : f[i] = e
  PROVE  Cardinality(S) = n
<1>1. f \in Bijection(1..n, S)
  BY DEF Bijection, Injection, Surjection, IsInjective
<1> QED BY <1>1, FS_CountingElements DEF ExistsBijection

LEMMA AllOnCache ==
  ASSUME TypeInv, DirInv, ret = "cache"
  PROVE  \A e \in Lists : \E i \in 1..Len(cache) : cache[i].file = e
<1>1. \A t \in Threads : pc[t] = "done"
  BY DEF DirInv, ReportRight
<1>2. Busy = {} /\ Handed = Entries
  BY <1>1, HandedFacts, PkgDirAssumption DEF Busy, InHand, DirInv, EndSeen, TypeInv, TypeOK
<1> QED BY <1>1, <1>2, PkgDirAssumption DEF DirInv, NoneLost

LEMMA ListsRight ==
  ASSUME TypeInv, DirInv
  PROVE  EveryListOnce
<1> SUFFICES ASSUME ret = "cache"
             PROVE  /\ Lists \cap malformed = {}
                    /\ Elements(cache) = {Record(e) : e \in Lists}
                    /\ Len(cache) = Cardinality(Lists)
  BY DEF EveryListOnce, Record
<1>1. \A i \in 1..Len(cache) :
        /\ cache[i] = Record(cache[i].file)
        /\ cache[i].file \in Lists /\ cache[i].file \notin malformed
  BY DEF DirInv, CacheRight, Finished
<1>2. Lists \cap malformed = {} /\ Elements(cache) = {Record(e) : e \in Lists}
  BY <1>1, AllOnCache DEF Elements
<1>3. Len(cache) = Cardinality(Lists)
  <2> DEFINE f == [i \in 1..Len(cache) |-> cache[i].file]
  <2>1. Len(cache) \in Nat /\ f \in [1..Len(cache) -> Lists]
    BY <1>1 DEF TypeInv, SharedTypeOK
  <2>2. \A i, j \in 1..Len(cache) : f[i] = f[j] => i = j
    BY DEF DirInv, CacheRight
  <2>3. \A e \in Lists : \E i \in 1..Len(cache) : f[i] = e
    BY AllOnCache
  <2> HIDE DEF f
  <2> QED BY <2>1, <2>2, <2>3, Counting
<1> QED BY <1>2, <1>3

LEMMA ChainsRight ==
  ASSUME TypeInv, DirInv
  PROVE  ChainsComplete
<1> SUFFICES ASSUME ret = "cache", NEW n \in Names
             PROVE  /\ Elements(chain[n]) = UNION {PkgsNamed(e, n) : e \in Lists}
                    /\ Len(chain[n]) = Cardinality(Elements(chain[n]))
  BY DEF ChainsComplete
<1>1. /\ chain[n] \in Seq(Package) /\ Len(chain[n]) \in Nat
      /\ \A i \in 1..Len(chain[n]) : /\ chain[n][i] \in Package
                                     /\ chain[n][i].nth \in Nat
  <2>1. chain[n] \in Seq(Package) /\ \A p \in Package : p.nth \in Nat
    BY DEF TypeInv, SharedTypeOK, Package
  <2>2. Len(chain[n]) \in Nat /\ \A i \in 1..Len(chain[n]) : chain[n][i] \in Package
    BY <2>1
  <2> QED BY <2>1, <2>2
<1>2. ASSUME NEW i \in 1..Len(chain[n])
      PROVE  \E e \in Lists : chain[n][i] \in PkgsNamed(e, n)
  <2> DEFINE p == chain[n][i]
  <2>1. p = Pkg(p.file, p.nth)
    BY <1>1 DEF Package, Pkg
  <2>2. p.file \in Lists /\ p.nth \in 1..Len(Packages[p.file]) /\ Packages[p.file][p.nth] = n
    BY DEF DirInv, ChainRight
  <2> HIDE DEF p
  <2>3. p \in PkgsNamed(p.file, n)
    BY <2>1, <2>2 DEF PkgsNamed
  <2> QED BY <2>2, <2>3 DEF p
<1>3. ASSUME NEW e \in Lists, NEW p \in PkgsNamed(e, n)
      PROVE  p \in Elements(chain[n])
  <2>1. PICK k \in 1..Len(Packages[e]) : Packages[e][k] = n /\ p = Pkg(e, k)
    BY DEF PkgsNamed
  <2>2. Hung(e, k)
    BY AllOnCache DEF DirInv, CacheRight, Finished
  <2> QED BY <2>1, <2>2 DEF Hung
<1>4. Elements(chain[n]) = UNION {PkgsNamed(e, n) : e \in Lists}
  BY <1>2, <1>3 DEF Elements
<1>5. ASSUME NEW i \in 1..Len(chain[n]), NEW j \in 1..Len(chain[n]), chain[n][i] = chain[n][j]
      PROVE  i = j
  <2>1. i \in Int /\ j \in Int /\ chain[n][i].nth \in Nat
    BY <1>1
  <2>2. ~(i < j) /\ ~(j < i)
    BY <1>5, <2>1 DEF DirInv, FileOrderKept
  <2> QED BY <2>1, <2>2
<1>6. Len(chain[n]) = Cardinality(Elements(chain[n]))
  <2> DEFINE f == chain[n]
             l == Len(chain[n])
             S == Elements(chain[n])
  <2>1. l \in Nat /\ f \in [1..l -> S]
    BY <1>1 DEF Elements
  <2>2. \A e \in S : \E i \in 1..l : f[i] = e
    BY DEF Elements
  <2>3. \A i, j \in 1..l : f[i] = f[j] => i = j
    BY <1>5
  <2> HIDE DEF f, l, S
  <2>4. Cardinality(S) = l
    BY <2>1, <2>2, <2>3, Counting
  <2> QED BY <2>4 DEF S, l
<1> QED BY <1>4, <1>6

\* However the threads interleave, the packages of one list hang under a name in
\* reverse file order.
THEOREM OrderCorrect == ASSUME OneFill PROVE Spec => []FileOrderKept
<1>1. DirInv => FileOrderKept
  BY DEF DirInv
<1> QED BY <1>1, DirInvariant, PTL

\* A successful lex_packages_dir() has hung every package of every list under its name,
\* and none twice.
THEOREM ChainsCorrect == ASSUME OneFill PROVE Spec => []ChainsComplete
<1>1. TypeInv /\ DirInv => ChainsComplete
  BY ChainsRight
<1> QED BY <1>1, DirInvariant, PTL

\* A successful lex_packages_dir() has put every list on the cache once, under its own
\* name, with all of its packages counted; it never succeeds over a malformed one.
THEOREM ListsCorrect == ASSUME OneFill PROVE Spec => []EveryListOnce
<1>1. TypeInv /\ DirInv => EveryListOnce
  BY ListsRight
<1> QED BY <1>1, DirInvariant, PTL

-----------------------------------------------------------------------------
(* The report.                                                              *)

Offering == [version : Versions, dist : Entries \cup {"null"}]
Given == Versions \cup {NoVersion}
Kinds == {"neither", "available", "unavailable", "upgradeable", "uptodate", "version"}
OutputLine == [name : Names, kind : Kinds, from : Given, to : Given,
               dist : Entries \cup {"null", "none"}]

\* The package p, named after its own list.
OfferOf(p) == [version |-> VersionOf[p.file][p.nth], dist |-> p.file]

Plain(n) == [i \in 1..Len(chain[n]) |-> OfferOf(chain[n][i])] \o Older(n)

SummaryOf(n) == Summary(n, FindInstalled(OwnVersion(n), Plain(n)), FindNewest(Plain(n)))

\* The lines of the j-th name are those behind place lo.
Block(j, lo) ==
  /\ lo + Len(Plain(WalkOrder[j])) <= Len(lines)
  /\ \A i \in 1..Len(lines) :
       lines[i].name = WalkOrder[j] <=> i \in lo + 1..lo + Len(Plain(WalkOrder[j]))
  /\ \A i \in 1..Len(Plain(WalkOrder[j])) :
       lines[lo + i] = Listing(WalkOrder[j], Plain(WalkOrder[j]))[i]

Summaries ==
  /\ Len(lines) = walked
  /\ \A j \in 1..walked : lines[j] = SummaryOf(WalkOrder[j])

\* Every line is one of a name that was walked, and names keep the walk's order.
Listings ==
  /\ \A j \in 1..walked : \E lo \in Nat : Block(j, lo)
  /\ \A i \in 1..Len(lines) : \E j \in 1..walked : lines[i].name = WalkOrder[j]
  /\ \A i \in 1..Len(lines) - 1 : \E j, k \in 1..walked :
       j <= k /\ lines[i].name = WalkOrder[j] /\ lines[i + 1].name = WalkOrder[k]

ShowInv ==
  /\ walked \in 0..Len(WalkOrder)
  /\ call = NoCall => walked = 0 /\ lines = <<>> /\ exit \in {"none", "failure"}
  /\ call # NoCall => call \in Calls /\ main = "returned" /\ ret = "cache"
  /\ exit = "success" => walked = Len(WalkOrder) /\ call # NoCall
  /\ call # NoCall /\ exit # "failure" =>
       /\ lines \in Seq(OutputLine)
       /\ ~call.all => Summaries
       /\ call.all => Listings

-----------------------------------------------------------------------------
(* The order of the versions.                                               *)

LEMMA CompareOrder ==
  ASSUME NEW v \in Versions, NEW w \in Versions
  PROVE  /\ Compare[v][w] = Debcmp(v, w) /\ Compare[v][w] \in Int
         /\ Compare[v][w] < 0 <=> Compare[w][v] > 0
         /\ Compare[v][w] > 0 <=> Compare[w][v] < 0
<1>1. \A a, b \in Versions : Compare[a][b] = Debcmp(a, b)
  BY DEF Compare
<1>2. v \in Str /\ w \in Str /\ ~Overruns(v, w)
  BY ShowVersionsAssumption DEF Str
<1> QED
  BY <1>1, <1>2, DebcmpAntisymmetric

LEMMA CompareTransitive ==
  ASSUME NEW u \in Versions, NEW v \in Versions, NEW w \in Versions,
         Compare[u][v] >= 0, Compare[v][w] >= 0
  PROVE  Compare[u][w] >= 0
<1>1. u \in Str /\ v \in Str /\ w \in Str /\ ~Overruns(w, v) /\ ~Overruns(v, u)
  BY ShowVersionsAssumption DEF Str
<1>2. Compare[v][u] <= 0 /\ Compare[w][v] <= 0
  BY CompareOrder
<1>3. Debcmp(v, u) <= 0 /\ Debcmp(w, v) <= 0
  BY <1>2, CompareOrder
<1>4. Debcmp(w, u) <= 0
  BY <1>1, <1>3, DebcmpTransitive
<1>5. Compare[w][u] <= 0
  BY <1>4, CompareOrder
<1> QED
  BY <1>5, CompareOrder

\* Among finitely many versions there is one that no other is newer than: if not, the
\* sets of what is newer than one would get smaller and smaller.
LEMMA NewestExists ==
  ASSUME NEW n \in Nat, n # 0, NEW f \in [1..n -> Versions]
  PROVE  \E i \in 1..n : \A j \in 1..n : Compare[f[i]][f[j]] >= 0
<1> DEFINE Newer(i) == {j \in 1..n : ~(Compare[f[i]][f[j]] >= 0)}
<1>1. {Newer(i) : i \in 1..n} \subseteq FiniteSubsetsOf(1..n) /\ {Newer(i) : i \in 1..n} # {}
  <2>1. \A i \in 1..n : Newer(i) \in SUBSET (1..n)
    OBVIOUS
  <2>2. IsFiniteSet(1..n) /\ 1 \in 1..n
    BY FS_Interval
  <2> HIDE DEF Newer
  <2>3. \A i \in 1..n : IsFiniteSet(Newer(i))
    BY <2>1, <2>2, FS_Subset
  <2> QED
    BY <2>1, <2>2, <2>3 DEF FiniteSubsetsOf
<1>2. PICK S \in {Newer(i) : i \in 1..n} :
        \A T \in {Newer(i) : i \in 1..n} : <<T, S>> \notin StrictSubsetOrdering(1..n)
  <2> HIDE DEF Newer
  <2> QED
    BY <1>1, FS_StrictSubsetOrderingWellFounded, WFMin
<1>3. PICK i \in 1..n : S = Newer(i)
  OBVIOUS
<1>4. ASSUME NEW j \in 1..n, ~(Compare[f[i]][f[j]] >= 0) PROVE FALSE
  <2>1. f[i] \in Versions /\ f[j] \in Versions
    OBVIOUS
  <2>2. Compare[f[j]][f[i]] >= 0 /\ Compare[f[j]][f[j]] >= 0
    BY <1>4, <2>1, CompareOrder
  <2>3. Newer(j) \subseteq Newer(i)
    <3> SUFFICES ASSUME NEW k \in 1..n, Compare[f[i]][f[k]] >= 0
                 PROVE  Compare[f[j]][f[k]] >= 0
      OBVIOUS
    <3>1. f[k] \in Versions
      OBVIOUS
    <3> QED
      BY <2>1, <2>2, <3>1, CompareTransitive
  <2>4. j \in Newer(i) /\ j \notin Newer(j)
    BY <1>4, <2>2
  <2>5. Newer(j) \in SUBSET (1..n) /\ Newer(i) \in SUBSET (1..n)
    OBVIOUS
  <2> HIDE DEF Newer
  <2>6. <<Newer(j), Newer(i)>> \in StrictSubsetOrdering(1..n)
    BY <2>3, <2>4, <2>5 DEF StrictSubsetOrdering
  <2> QED
    BY <1>2, <1>3, <2>6
<1> QED
  BY <1>4

-----------------------------------------------------------------------------
(* What hangs under a name when the walk is over.                           *)

\* A listed package's place, its version and its list.
LEMMA ListedFacts ==
  ASSUME NEW n \in Names, NEW p \in Listed(n)
  PROVE  /\ p.file \in Lists /\ p.file \in Entries /\ p.nth \in 1..Len(Packages[p.file])
         /\ p = Pkg(p.file, p.nth) /\ VersionOf[p.file][p.nth] \in Versions
         /\ OfferOf(p) \in Offering /\ OfferOf(p).version = VersionOf[p.file][p.nth]
         /\ OfferOf(p).dist = p.file
<1>1. PICK e \in Lists : p \in PkgsNamed(e, n)
  BY DEF Listed
<1>2. PICK i \in 1..Len(Packages[e]) : p = Pkg(e, i)
  BY <1>1 DEF PkgsNamed
<1>3. /\ p.file = e /\ p.nth = i /\ e \in Entries
      /\ VersionOf[e] \in Seq(Elements(VersionOf[e])) /\ Len(VersionOf[e]) = Len(Packages[e])
      /\ NoVersion \notin Elements(VersionOf[e])
  BY <1>2, ShowVersionsAssumption, PkgDirAssumption DEF Pkg
<1>4. VersionOf[e][i] \in Elements(VersionOf[e])
  BY <1>2, <1>3 DEF Elements
<1>5. VersionOf[e][i] \in Versions
  BY <1>3, <1>4 DEF Versions
<1> QED
  BY <1>2, <1>3, <1>5 DEF OfferOf, Offering

\* The name that a package's list was given is its own.
LEMMA OfferIs ==
  ASSUME TypeInv, DirInv, ret = "cache", NEW n \in Names, NEW p \in Listed(n)
  PROVE  Offer(p) = OfferOf(p)
<1>1. Elements(cache) = {Record(e) : e \in Lists}
  BY ListsRight DEF EveryListOnce, Record
<1>2. p.file \in Lists
  BY ListedFacts
<1>3. Record(p.file) \in Elements(cache) /\ Record(p.file).file = p.file
  BY <1>1, <1>2 DEF Record
<1>4. PICK l : l = CHOOSE list \in Elements(cache) : list.file = p.file
  OBVIOUS
<1>5. l \in Elements(cache) /\ l.file = p.file
  BY <1>3, <1>4
<1>6. l.dist = p.file
  BY <1>1, <1>5 DEF Record
<1>7. Offer(p) = [version |-> VersionOf[p.file][p.nth], dist |-> l.dist]
  BY <1>4 DEF Offer
<1> QED
  BY <1>6, <1>7 DEF OfferOf

\* The package of the status file, where it hangs below a name of the command line.
LEMMA OlderFacts ==
  ASSUME call \in Calls, NEW n \in Names
  PROVE  /\ Older(n) \in Seq(Offering)
         /\ \/ Older(n) = <<>> /\ ~(call.args /\ n \in DOMAIN call.installed)
            \/ /\ call.args /\ n \in DOMAIN call.installed /\ Len(Older(n)) = 1
               /\ Older(n)[1].version = call.installed[n] /\ Older(n)[1].dist = "null"
               /\ call.installed[n] \in Versions
<1>1. CASE ~(call.args /\ n \in DOMAIN call.installed)
  BY <1>1 DEF Older
<1>2. CASE call.args /\ n \in DOMAIN call.installed
  <2>1. call.installed[n] # NoVersion
    BY <1>2, ShowVersionsAssumption
  <2>2. call.installed[n] \in {call.installed[m] : m \in DOMAIN call.installed}
    BY <1>2
  <2>3. call.installed[n] \in UNION {{c.installed[m] : m \in DOMAIN c.installed} : c \in Calls}
    BY <2>2
  <2>4. call.installed[n] \in Versions
    BY <2>1, <2>3 DEF Versions
  <2>5. Older(n) = <<[version |-> call.installed[n], dist |-> "null"]>>
    BY <1>2 DEF Older
  <2>6. [version |-> call.installed[n], dist |-> "null"] \in Offering
    BY <2>4 DEF Offering
  <2> QED
    BY <1>2, <2>4, <2>5, <2>6
<1> QED
  BY <1>1, <1>2

\* The chain holds the listed packages, each once, and then what hung there before.
LEMMA ChainFacts ==
  ASSUME TypeInv, DirInv, ret = "cache", call \in Calls, NEW n \in Names
  PROVE  /\ ChainOf(n) = Plain(n) /\ Plain(n) \in Seq(Offering)
         /\ Len(chain[n]) \in Nat /\ Len(chain[n]) = Cardinality(Listed(n))
         /\ Len(Older(n)) \in Nat /\ Len(Plain(n)) = Len(chain[n]) + Len(Older(n))
         /\ Elements(chain[n]) = Listed(n)
         /\ \A i \in 1..Len(chain[n]) :
              chain[n][i] \in Listed(n) /\ Plain(n)[i] = OfferOf(chain[n][i])
         /\ \A i \in 1..Len(Older(n)) : Plain(n)[Len(chain[n]) + i] = Older(n)[i]
<1>1. chain[n] \in Seq(Package) /\ Len(chain[n]) \in Nat /\ DOMAIN chain[n] = 1..Len(chain[n])
  BY DEF TypeInv, SharedTypeOK
<1>2. Elements(chain[n]) = Listed(n) /\ Len(chain[n]) = Cardinality(Listed(n))
  BY ChainsRight DEF ChainsComplete, Listed
<1>3. \A i \in 1..Len(chain[n]) : chain[n][i] \in Listed(n)
  BY <1>2 DEF Elements
<1> DEFINE first == [i \in 1..Len(chain[n]) |-> OfferOf(chain[n][i])]
<1>4. first \in Seq(Offering) /\ Len(first) = Len(chain[n])
      /\ \A i \in 1..Len(chain[n]) : first[i] = OfferOf(chain[n][i])
  <2>1. \A i \in 1..Len(chain[n]) : OfferOf(chain[n][i]) \in Offering
    BY <1>3, ListedFacts
  <2>2. first \in [1..Len(chain[n]) -> Offering]
    BY <2>1
  <2> QED
    BY <1>1, <2>2
<1>5. [i \in DOMAIN chain[n] |-> Offer(chain[n][i])] = first
  <2>1. \A i \in 1..Len(chain[n]) : Offer(chain[n][i]) = OfferOf(chain[n][i])
    BY <1>3, OfferIs
  <2> QED
    BY <1>1, <2>1
<1>6. ChainOf(n) = Plain(n) /\ Plain(n) = first \o Older(n)
  BY <1>5 DEF ChainOf, Plain
<1>7. Older(n) \in Seq(Offering) /\ Len(Older(n)) \in Nat
  BY OlderFacts
<1> HIDE DEF first
<1>8. /\ first \o Older(n) \in Seq(Offering) /\ Len(first \o Older(n)) = Len(first) + Len(Older(n))
      /\ \A i \in 1..Len(first) : (first \o Older(n))[i] = first[i]
      /\ \A i \in 1..Len(Older(n)) : (first \o Older(n))[Len(first) + i] = Older(n)[i]
  BY SMTT(30), <1>4, <1>7
<1> QED
  BY <1>1, <1>2, <1>3, <1>4, <1>6, <1>7, <1>8

LEMMA OfferedIs ==
  ASSUME TypeInv, DirInv, ret = "cache", call \in Calls, NEW n \in Names
  PROVE  Offered(n) = {Plain(n)[i].version : i \in 1..Len(Plain(n))}
<1>1. /\ Len(chain[n]) \in Nat /\ Len(Older(n)) \in Nat
      /\ Len(Plain(n)) = Len(chain[n]) + Len(Older(n))
      /\ Elements(chain[n]) = Listed(n)
      /\ \A i \in 1..Len(chain[n]) :
           chain[n][i] \in Listed(n) /\ Plain(n)[i] = OfferOf(chain[n][i])
      /\ \A i \in 1..Len(Older(n)) : Plain(n)[Len(chain[n]) + i] = Older(n)[i]
  BY ChainFacts
<1>2. {VersionOf[p.file][p.nth] : p \in Listed(n)} = {Plain(n)[i].version : i \in 1..Len(chain[n])}
  <2>1. \A i \in 1..Len(chain[n]) :
          Plain(n)[i].version = VersionOf[chain[n][i].file][chain[n][i].nth]
    BY <1>1, ListedFacts
  <2>2. ASSUME NEW p \in Listed(n)
        PROVE  VersionOf[p.file][p.nth] \in {Plain(n)[i].version : i \in 1..Len(chain[n])}
    <3>1. PICK i \in 1..Len(chain[n]) : chain[n][i] = p
      BY <1>1 DEF Elements
    <3>2. Plain(n)[i].version = VersionOf[p.file][p.nth]
      BY <2>1, <3>1
    <3> QED
      BY <3>2
  <2>3. ASSUME NEW i \in 1..Len(chain[n])
        PROVE  Plain(n)[i].version \in {VersionOf[p.file][p.nth] : p \in Listed(n)}
    <3>1. chain[n][i] \in Listed(n)
      BY <1>1
    <3> QED
      BY <2>1, <3>1
  <2> QED
    BY <2>2, <2>3
<1>3. CASE Older(n) = <<>> /\ ~(call.args /\ n \in DOMAIN call.installed)
  <2>1. Len(Plain(n)) = Len(chain[n])
    BY <1>1, <1>3
  <2>2. (IF call.args THEN {Held(n)} \ {NoVersion} ELSE {}) = {}
    BY <1>3 DEF Held
  <2> QED
    BY <1>2, <2>1, <2>2 DEF Offered
<1>4. CASE /\ call.args /\ n \in DOMAIN call.installed /\ Len(Older(n)) = 1
           /\ Older(n)[1].version = call.installed[n] /\ call.installed[n] \in Versions
  <2>1. /\ Len(Plain(n)) = Len(chain[n]) + 1
        /\ Plain(n)[Len(chain[n]) + 1].version = call.installed[n]
    BY <1>1, <1>4
  <2>2. (IF call.args THEN {Held(n)} \ {NoVersion} ELSE {}) = {call.installed[n]}
    BY <1>4 DEF Held, Versions
  <2>3. 1..Len(Plain(n)) = (1..Len(chain[n])) \cup {Len(chain[n]) + 1}
    BY <1>1, <2>1
  <2> QED
    BY ZenonT(30), <1>2, <2>1, <2>2, <2>3 DEF Offered
<1> QED
  BY <1>3, <1>4, OlderFacts

-----------------------------------------------------------------------------
(* The two queries, and the summary made of them.                           *)

LEMMA PkgsFacts ==
  ASSUME NEW pkgs \in Seq(Offering)
  PROVE  /\ Len(pkgs) \in Nat /\ DOMAIN pkgs = 1..Len(pkgs)
         /\ pkgs = <<>> <=> Len(pkgs) = 0
         /\ \A i \in 1..Len(pkgs) :
              /\ pkgs[i] \in Offering /\ pkgs[i] # None
              /\ pkgs[i].version \in Versions /\ pkgs[i].version # NoVersion
<1>1. \A i \in 1..Len(pkgs) : pkgs[i] \in Offering
  OBVIOUS
<1>2. \A p \in Offering : p.version \in Versions /\ p.version # NoVersion
  BY DEF Offering, Versions
<1>3. None.version = NoVersion
  BY DEF None
<1> QED
  BY <1>1, <1>2, <1>3

\* pkgcache_find_installed() finds a package of the version asked for, if there is one.
LEMMA InstalledFound ==
  ASSUME NEW pkgs \in Seq(Offering), NEW own
  PROVE  \/ /\ FindInstalled(own, pkgs) = None
            /\ own = NoVersion \/ \A i \in 1..Len(pkgs) : Compare[pkgs[i].version][own] # 0
         \/ /\ own # NoVersion
            /\ \E i \in 1..Len(pkgs) :
                 /\ FindInstalled(own, pkgs) = pkgs[i]
                 /\ Compare[pkgs[i].version][own] = 0
<1> DEFINE same == {i \in DOMAIN pkgs : Compare[pkgs[i].version][own] = 0}
<1>1. Len(pkgs) \in Nat /\ DOMAIN pkgs = 1..Len(pkgs)
  BY PkgsFacts
<1>2. FindInstalled(own, pkgs) = IF own = NoVersion \/ same = {} THEN None ELSE pkgs[Least(same)]
  BY DEF FindInstalled
<1>3. CASE own = NoVersion \/ same = {}
  BY <1>1, <1>2, <1>3
<1>4. CASE ~(own = NoVersion \/ same = {})
  <2>1. same \in SUBSET Nat
    BY <1>1
  <2>2. Least(same) \in same
    <3> HIDE DEF same
    <3> QED
      BY <1>4, <2>1, LeastOfNaturals
  <2>3. Least(same) \in 1..Len(pkgs) /\ Compare[pkgs[Least(same)].version][own] = 0
    BY <1>1, <2>2
  <2> HIDE DEF same
  <2> QED
    BY <1>2, <1>4, <2>3
<1> QED
  BY <1>3, <1>4

\* pkgcache_find_newest() finds one that no other is newer than, if there is any.
LEMMA NewestFound ==
  ASSUME NEW pkgs \in Seq(Offering)
  PROVE  \/ pkgs = <<>> /\ FindNewest(pkgs) = None
         \/ \E i \in 1..Len(pkgs) :
              /\ FindNewest(pkgs) = pkgs[i]
              /\ \A j \in 1..Len(pkgs) : Compare[pkgs[i].version][pkgs[j].version] >= 0
<1> DEFINE newest == {i \in DOMAIN pkgs :
                        \A j \in DOMAIN pkgs : Compare[pkgs[i].version][pkgs[j].version] >= 0}
<1>1. Len(pkgs) \in Nat /\ DOMAIN pkgs = 1..Len(pkgs)
  BY PkgsFacts
<1>2. FindNewest(pkgs) = IF pkgs = <<>> THEN None ELSE pkgs[Least(newest)]
  BY DEF FindNewest
<1>3. CASE pkgs = <<>>
  BY <1>2, <1>3
<1>4. CASE pkgs # <<>>
  <2>1. Len(pkgs) # 0
    BY <1>4, PkgsFacts
  <2>2. \E f \in [1..Len(pkgs) -> Versions] : \A i \in 1..Len(pkgs) : f[i] = pkgs[i].version
    <3>1. [i \in 1..Len(pkgs) |-> pkgs[i].version] \in [1..Len(pkgs) -> Versions]
      BY PkgsFacts
    <3> QED
      BY <3>1
  <2>3. PICK f \in [1..Len(pkgs) -> Versions] : \A i \in 1..Len(pkgs) : f[i] = pkgs[i].version
    BY <2>2
  <2>4. newest \in SUBSET Nat /\ newest # {}
    <3>1. PICK k \in 1..Len(pkgs) : \A j \in 1..Len(pkgs) : Compare[f[k]][f[j]] >= 0
      BY <1>1, <2>1, NewestExists
    <3>2. \A j \in 1..Len(pkgs) : Compare[pkgs[k].version][pkgs[j].version] >= 0
      BY <2>3, <3>1
    <3>3. k \in DOMAIN pkgs /\ \A j \in DOMAIN pkgs : Compare[pkgs[k].version][pkgs[j].version] >= 0
      BY <1>1, <3>2
    <3>4. newest \subseteq DOMAIN pkgs /\ k \in newest
      BY <3>3
    <3> HIDE DEF newest
    <3> QED
      BY <1>1, <3>4
  <2>5. Least(newest) \in newest
    <3> HIDE DEF newest
    <3> QED
      BY <2>4, LeastOfNaturals
  <2>6. /\ Least(newest) \in 1..Len(pkgs)
        /\ \A j \in 1..Len(pkgs) : Compare[pkgs[Least(newest)].version][pkgs[j].version] >= 0
    BY <1>1, <2>5
  <2> HIDE DEF newest
  <2> QED
    BY <1>2, <1>4, <2>6
<1> QED
  BY <1>3, <1>4

\* The trie's own object has no version, or one that is compared.
LEMMA OwnFacts ==
  ASSUME call \in Calls, ~call.all, NEW n \in Names
  PROVE  OwnVersion(n) \in Given
<1>1. CASE call.args
  BY <1>1 DEF OwnVersion, Given
<1>2. CASE ~call.args
  <2>1. n \in DOMAIN call.installed
    BY <1>2, ShowVersionsAssumption
  <2>2. call.installed[n] \in {call.installed[m] : m \in DOMAIN call.installed}
    BY <2>1
  <2>3. call.installed[n] \in UNION {{c.installed[m] : m \in DOMAIN c.installed} : c \in Calls}
    BY <2>2
  <2> QED
    BY <1>2, <2>3 DEF OwnVersion, Given, Versions
<1> QED
  BY <1>1, <1>2

\* What is said of a name follows from the versions that are offered.
LEMMA SummaryCorrect ==
  ASSUME TypeInv, DirInv, ret = "cache", call \in Calls, ~call.all, NEW n \in Names
  PROVE  SummaryTrue(SummaryOf(n)) /\ SummaryOf(n).name = n /\ SummaryOf(n) \in OutputLine
<1> DEFINE pkgs == Plain(n)
           own == OwnVersion(n)
           ipo == FindInstalled(own, pkgs)
           newpo == FindNewest(pkgs)
           line == SummaryOf(n)
           offered == Offered(n)
<1>1. /\ pkgs \in Seq(Offering) /\ offered = {pkgs[i].version : i \in 1..Len(pkgs)}
      /\ own \in Given
  BY ChainFacts, OfferedIs, OwnFacts
<1>2. /\ Len(pkgs) \in Nat /\ (pkgs = <<>> <=> Len(pkgs) = 0)
      /\ \A i \in 1..Len(pkgs) :
           /\ pkgs[i] \in Offering /\ pkgs[i] # None /\ pkgs[i].version \in offered
           /\ pkgs[i].version \in Versions /\ pkgs[i].version # NoVersion
      /\ offered \subseteq Versions
      /\ \A v \in offered : \E i \in 1..Len(pkgs) : v = pkgs[i].version
  BY <1>1, PkgsFacts
<1>3. line = Summary(n, ipo, newpo)
  BY DEF SummaryOf
<1>4. \/ ipo = None /\ (own = NoVersion \/ \A i \in 1..Len(pkgs) : Compare[pkgs[i].version][own] # 0)
      \/ own # NoVersion /\ \E i \in 1..Len(pkgs) : ipo = pkgs[i] /\ Compare[pkgs[i].version][own] = 0
  BY <1>1, InstalledFound
<1>5. \/ pkgs = <<>> /\ newpo = None
      \/ \E i \in 1..Len(pkgs) :
           /\ newpo = pkgs[i]
           /\ \A j \in 1..Len(pkgs) : Compare[pkgs[i].version][pkgs[j].version] >= 0
  BY <1>1, NewestFound
<1> DEFINE found == own # NoVersion /\ \E v \in offered : Compare[v][own] = 0
<1> SUFFICES /\ line.name = n /\ line \in OutputLine
             /\ (line.kind = "neither") = (offered = {})
             /\ (line.kind \in {"upgradeable", "uptodate"}) = found
             /\ line.kind = "available" => Newest(line.to, offered)
             /\ line.kind = "upgradeable" => Newest(line.to, offered) /\ Compare[line.to][own] > 0
             /\ line.kind = "uptodate" => \A v \in offered : Compare[own][v] >= 0
             /\ line.kind \in {"upgradeable", "uptodate"} =>
                  line.from \in offered /\ Compare[line.from][own] = 0
             /\ line.kind # "unavailable"
  BY DEF SummaryTrue
<1> HIDE DEF pkgs, own, line, ipo, newpo, offered
<1>6. CASE pkgs = <<>>
  <2>1. offered = {} /\ ipo = None /\ newpo = None
    BY <1>2, <1>4, <1>5, <1>6
  <2>2. line = Line(n, "neither", NoVersion, NoVersion, "none")
    BY <1>3, <2>1 DEF Summary
  <2>3. line.name = n /\ line.kind = "neither" /\ line \in OutputLine
    BY <2>2 DEF Line, OutputLine, Kinds, Given
  <2> QED
    BY <2>1, <2>3
<1>7. CASE pkgs # <<>>
  <2>1. PICK k \in 1..Len(pkgs) :
          /\ newpo = pkgs[k]
          /\ \A j \in 1..Len(pkgs) : Compare[pkgs[k].version][pkgs[j].version] >= 0
    BY <1>5, <1>7
  <2>2. /\ newpo # None /\ newpo \in Offering /\ newpo.version \in offered /\ offered # {}
        /\ newpo.version \in Versions /\ \A v \in offered : Compare[newpo.version][v] >= 0
    BY <1>2, <2>1
  <2>3. Newest(newpo.version, offered)
    BY <2>2 DEF Newest
  <2>4. CASE ipo = None
    <3>1. line = Line(n, "available", NoVersion, newpo.version, newpo.dist)
      BY <1>3, <2>2, <2>4 DEF Summary
    <3>2. /\ line.name = n /\ line.kind = "available" /\ line.to = newpo.version
          /\ line \in OutputLine
      BY <2>2, <3>1 DEF Line, OutputLine, Kinds, Given, Offering
    <3>3. ~found
      BY <1>2, <1>4, <2>4
    <3> QED
      BY <2>2, <2>3, <3>2, <3>3
  <2>5. ASSUME own # NoVersion, NEW m \in 1..Len(pkgs), ipo = pkgs[m],
               Compare[pkgs[m].version][own] = 0
        PROVE  /\ line.name = n /\ line \in OutputLine
               /\ line.kind \in {"upgradeable", "uptodate"} /\ found
               /\ line.kind = "upgradeable" => Newest(line.to, offered) /\ Compare[line.to][own] > 0
               /\ line.kind = "uptodate" => \A v \in offered : Compare[own][v] >= 0
               /\ line.from \in offered /\ Compare[line.from][own] = 0
    <3>1. /\ ipo # None /\ ipo \in Offering /\ ipo.version \in offered /\ ipo.version \in Versions
          /\ Compare[ipo.version][own] = 0 /\ own \in Versions /\ found
      BY <1>1, <1>2, <2>5 DEF Given
    <3>2. Compare[own][ipo.version] >= 0 /\ Compare[newpo.version][ipo.version] \in Int
      BY <2>2, <3>1, CompareOrder
    <3>3. CASE Compare[newpo.version][ipo.version] > 0
      <4>1. line = Line(n, "upgradeable", ipo.version, newpo.version, ipo.dist)
        BY <1>3, <2>2, <3>1, <3>3 DEF Summary
      <4>2. /\ line.name = n /\ line.kind = "upgradeable" /\ line.to = newpo.version
            /\ line.from = ipo.version /\ line \in OutputLine
        BY <2>2, <3>1, <4>1 DEF Line, OutputLine, Kinds, Given, Offering
      <4>3. Compare[newpo.version][own] > 0
        <5>1. SUFFICES ASSUME ~(Compare[newpo.version][own] > 0) PROVE FALSE
          OBVIOUS
        <5>2. Compare[own][newpo.version] >= 0
          BY <2>2, <3>1, <5>1, CompareOrder
        <5>3. Compare[ipo.version][own] >= 0
          BY <3>1
        <5>4. Compare[ipo.version][newpo.version] >= 0
          BY <2>2, <3>1, <5>2, <5>3, CompareTransitive
        <5> QED
          BY <2>2, <3>1, <3>3, <5>4, CompareOrder
      <4> QED
        BY <2>3, <3>1, <4>2, <4>3
    <3>4. CASE ~(Compare[newpo.version][ipo.version] > 0)
      <4>1. line = Line(n, "uptodate", ipo.version, NoVersion, newpo.dist)
        BY <1>3, <2>2, <3>1, <3>4 DEF Summary
      <4>2. /\ line.name = n /\ line.kind = "uptodate" /\ line.from = ipo.version
            /\ line \in OutputLine
        BY <2>2, <3>1, <4>1 DEF Line, OutputLine, Kinds, Given, Offering
      <4>3. Compare[ipo.version][newpo.version] >= 0
        BY <2>2, <3>1, <3>4, CompareOrder
      <4>4. Compare[own][newpo.version] >= 0
        BY <2>2, <3>1, <3>2, <4>3, CompareTransitive
      <4>5. ASSUME NEW v \in offered PROVE Compare[own][v] >= 0
        <5>1. v \in Versions /\ Compare[newpo.version][v] >= 0
          BY <1>2, <2>2
        <5> QED
          BY <2>2, <3>1, <4>4, <5>1, CompareTransitive
      <4> QED
        BY <3>1, <4>2, <4>5
    <3> QED
      BY <3>3, <3>4
  <2>6. CASE ipo # None
    <3>1. PICK m \in 1..Len(pkgs) : ipo = pkgs[m] /\ Compare[pkgs[m].version][own] = 0
      BY <1>4, <2>6
    <3>2. own # NoVersion
      BY <1>4, <2>6
    <3> QED
      BY <2>2, <2>5, <3>1, <3>2
  <2> QED
    BY <2>4, <2>6
<1> QED
  BY <1>6, <1>7

-----------------------------------------------------------------------------
(* The invariant.                                                           *)

LEMMA PlainSame ==
  ASSUME chain' = chain, call' = call
  PROVE  \A n : Plain(n)' = Plain(n) /\ SummaryOf(n)' = SummaryOf(n)
<1>1. \A n : Plain(n)' = Plain(n)
  BY DEF Plain, Older
<1>2. \A n : OwnVersion(n)' = OwnVersion(n)
  BY DEF OwnVersion
<1> QED
  BY <1>1, <1>2 DEF SummaryOf

LEMMA OutputSame ==
  ASSUME chain' = chain, call' = call, lines' = lines, walked' = walked
  PROVE  (Summaries' <=> Summaries) /\ (Listings' <=> Listings)
<1>1. \A n : Plain(n)' = Plain(n) /\ SummaryOf(n)' = SummaryOf(n)
  BY PlainSame
<1>2. Summaries' <=> Summaries
  BY <1>1 DEF Summaries
<1>3. \A j, lo : Block(j, lo)' <=> Block(j, lo)
  BY <1>1 DEF Block
<1> QED
  BY <1>2, <1>3 DEF Listings

LEMMA ListingFacts ==
  ASSUME NEW n \in Names, NEW pkgs \in Seq(Offering)
  PROVE  /\ Listing(n, pkgs) \in Seq(OutputLine) /\ Len(Listing(n, pkgs)) = Len(pkgs)
         /\ \A i \in 1..Len(pkgs) : /\ Listing(n, pkgs)[i].name = n
                                    /\ Listing(n, pkgs)[i].to = pkgs[i].version
                                    /\ Listing(n, pkgs)[i].dist = pkgs[i].dist
<1>1. Len(pkgs) \in Nat /\ DOMAIN pkgs = 1..Len(pkgs)
  BY PkgsFacts
<1>2. \A i \in 1..Len(pkgs) : Line(n, "version", NoVersion, pkgs[i].version, pkgs[i].dist) \in OutputLine
  <2>1. \A i \in 1..Len(pkgs) : pkgs[i] \in Offering
    BY PkgsFacts
  <2> QED
    BY <2>1 DEF Line, OutputLine, Offering, Kinds, Given
<1>3. Listing(n, pkgs) = [i \in 1..Len(pkgs) |->
                            Line(n, "version", NoVersion, pkgs[i].version, pkgs[i].dist)]
  BY <1>1 DEF Listing
<1>4. Listing(n, pkgs) \in [1..Len(pkgs) -> OutputLine]
  BY <1>2, <1>3
<1>5. \A i \in 1..Len(pkgs) :
        Listing(n, pkgs)[i] = Line(n, "version", NoVersion, pkgs[i].version, pkgs[i].dist)
  BY <1>3
<1> QED
  BY <1>1, <1>4, <1>5 DEF Line

LEMMA ShowStart ==
  ASSUME ShowInit
  PROVE  TypeInv /\ DirInv /\ ShowInv
<1>1. Init /\ call = NoCall /\ walked = 0 /\ lines = <<>> /\ exit = "none"
  BY DEF ShowInit
<1>2. Len(WalkOrder) \in Nat
  BY ShowVersionsAssumption
<1>3. ShowInv
  BY <1>1, <1>2 DEF ShowInv
<1> QED
  BY <1>1, <1>3, InitType, InitInv

\* The name that is reported next.
LEMMA NextFacts ==
  ASSUME walked \in 0..Len(WalkOrder), walked < Len(WalkOrder)
  PROVE  /\ walked + 1 \in 1..Len(WalkOrder) /\ walked + 1 \in Nat /\ walked \in Nat
         /\ WalkOrder[walked + 1] \in Names
         /\ \A j \in 1..walked : /\ j \in 1..Len(WalkOrder) /\ WalkOrder[j] \in Names
                                 /\ WalkOrder[j] # WalkOrder[walked + 1]
         /\ 1..walked + 1 = (1..walked) \cup {walked + 1}
<1>1. Len(WalkOrder) \in Nat /\ WalkOrder \in Seq(Names)
  BY ShowVersionsAssumption
<1>2. /\ walked + 1 \in 1..Len(WalkOrder) /\ walked + 1 \in Nat /\ walked \in Nat
      /\ \A j \in 1..walked : j \in 1..Len(WalkOrder) /\ j # walked + 1
      /\ 1..walked + 1 = (1..walked) \cup {walked + 1}
  BY <1>1
<1>3. \A j \in 1..Len(WalkOrder) : WalkOrder[j] \in Names
  BY <1>1
<1>4. \A i, j \in 1..Len(WalkOrder) : WalkOrder[i] = WalkOrder[j] => i = j
  BY ShowVersionsAssumption
<1> QED
  BY <1>2, <1>3, <1>4

\* One more summary line.
LEMMA SummaryStep ==
  ASSUME TypeInv, DirInv, ShowInv, Reporting, exit # "failure", ~call.all,
         walked < Len(WalkOrder), walked' = walked + 1, UNCHANGED <<vars, call>>,
         lines' = lines \o Output(WalkOrder[walked + 1], ChainOf(WalkOrder[walked + 1]))
  PROVE  lines' \in Seq(OutputLine) /\ Summaries'
<1> DEFINE n == WalkOrder[walked + 1]
<1>1. /\ call # NoCall /\ call \in Calls /\ ret = "cache" /\ walked \in 0..Len(WalkOrder)
      /\ lines \in Seq(OutputLine) /\ Summaries
  BY DEF ShowInv, Reporting
<1>2. n \in Names /\ walked \in Nat /\ 1..walked + 1 = (1..walked) \cup {walked + 1}
  BY <1>1, NextFacts
<1> HIDE DEF n
<1>3. Output(n, ChainOf(n)) = <<SummaryOf(n)>> /\ SummaryOf(n) \in OutputLine
  <2>1. ChainOf(n) = Plain(n)
    BY <1>1, <1>2, ChainFacts
  <2>2. SummaryOf(n) \in OutputLine
    BY <1>1, <1>2, SummaryCorrect
  <2> QED
    BY <2>1, <2>2 DEF Output, SummaryOf
<1>4. lines' = lines \o <<SummaryOf(n)>>
  BY <1>3 DEF n
<1>5. /\ lines' \in Seq(OutputLine) /\ Len(lines') = walked + 1 /\ lines'[walked + 1] = SummaryOf(n)
      /\ \A j \in 1..walked : lines'[j] = lines[j]
  BY <1>1, <1>2, <1>3, <1>4 DEF Summaries
<1>6. \A m : SummaryOf(m)' = SummaryOf(m)
  BY PlainSame DEF vars
<1>7. \A j \in 1..walked + 1 : lines'[j] = SummaryOf(WalkOrder[j])
  BY <1>1, <1>2, <1>5 DEF Summaries, n
<1> QED
  BY <1>5, <1>6, <1>7 DEF Summaries

LEMMA Joined ==
  ASSUME NEW s \in Seq(OutputLine), NEW t \in Seq(OutputLine)
  PROVE  /\ s \o t \in Seq(OutputLine) /\ Len(s \o t) = Len(s) + Len(t)
         /\ \A i \in 1..Len(s) : (s \o t)[i] = s[i]
         /\ \A i \in 1..Len(t) : (s \o t)[Len(s) + i] = t[i]
  OBVIOUS

\* One more block of lines.
LEMMA ListingStep ==
  ASSUME TypeInv, DirInv, ShowInv, Reporting, exit # "failure", call.all,
         walked < Len(WalkOrder), walked' = walked + 1, UNCHANGED <<vars, call>>,
         lines' = lines \o Output(WalkOrder[walked + 1], ChainOf(WalkOrder[walked + 1]))
  PROVE  lines' \in Seq(OutputLine) /\ Listings'
<1> DEFINE n == WalkOrder[walked + 1]
           out == Listing(n, Plain(n))
<1>1. /\ call # NoCall /\ call \in Calls /\ ret = "cache" /\ walked \in 0..Len(WalkOrder)
      /\ lines \in Seq(OutputLine) /\ Len(lines) \in Nat /\ Listings
  BY DEF ShowInv, Reporting
<1>2. /\ n \in Names /\ walked \in Nat /\ walked + 1 \in Nat
      /\ 1..walked + 1 = (1..walked) \cup {walked + 1}
      /\ \A j \in 1..walked : WalkOrder[j] \in Names /\ WalkOrder[j] # n
  BY <1>1, NextFacts
<1>3. /\ \A m \in Names : Plain(m) \in Seq(Offering) /\ Len(Plain(m)) \in Nat
      /\ ChainOf(n) = Plain(n)
  <2>1. \A m \in Names : ChainOf(m) = Plain(m) /\ Plain(m) \in Seq(Offering)
    BY <1>1, ChainFacts
  <2> QED
    BY <1>2, <2>1, PkgsFacts
<1>4. /\ out \in Seq(OutputLine) /\ Len(out) = Len(Plain(n)) /\ Len(out) \in Nat
      /\ \A i \in 1..Len(out) : out[i].name = n
  BY <1>2, <1>3, ListingFacts
<1>5. lines' = lines \o out
  BY <1>3 DEF Output
<1>6. \A m : Plain(m)' = Plain(m)
  BY PlainSame DEF vars
<1>7. WalkOrder[walked + 1] = n
  OBVIOUS
<1>8. out = Listing(n, Plain(n))
  OBVIOUS
<1> HIDE DEF n, out
<1>9. /\ lines' \in Seq(OutputLine) /\ Len(lines') = Len(lines) + Len(out)
      /\ \A i \in 1..Len(lines) : lines'[i] = lines[i]
      /\ \A i \in 1..Len(out) : lines'[Len(lines) + i] = out[i]
  BY <1>1, <1>4, <1>5, Joined
<1>10. \A i \in 1..Len(lines') :
         \/ i \in 1..Len(lines) /\ lines'[i] = lines[i]
         \/ i \in Len(lines) + 1..Len(lines) + Len(out) /\ lines'[i].name = n
  <2> SUFFICES ASSUME NEW i \in 1..Len(lines'), i \notin 1..Len(lines)
               PROVE  i \in Len(lines) + 1..Len(lines) + Len(out) /\ lines'[i].name = n
    BY <1>9
  <2>1. i - Len(lines) \in 1..Len(out) /\ Len(lines) + (i - Len(lines)) = i
    BY <1>1, <1>4, <1>9
  <2>2. lines'[Len(lines) + (i - Len(lines))] = out[i - Len(lines)]
    BY <1>9, <2>1
  <2> QED
    BY <1>1, <1>4, <1>9, <2>1, <2>2
<1>11. ASSUME NEW j \in 1..walked PROVE \E lo \in Nat : Block(j, lo)'
  <2>1. PICK lo \in Nat : Block(j, lo)
    BY <1>1 DEF Listings
  <2>2. Len(Plain(WalkOrder[j])) \in Nat /\ WalkOrder[j] # n
    BY <1>2, <1>3
  <2>3. lo + Len(Plain(WalkOrder[j])) <= Len(lines')
    BY <1>1, <1>4, <1>9, <2>1, <2>2 DEF Block
  <2>4. ASSUME NEW i \in 1..Len(lines')
        PROVE  lines'[i].name = WalkOrder[j] <=> i \in lo + 1..lo + Len(Plain(WalkOrder[j]))
    <3>1. CASE i \in 1..Len(lines) /\ lines'[i] = lines[i]
      BY <2>1, <3>1 DEF Block
    <3>2. CASE i \in Len(lines) + 1..Len(lines) + Len(out) /\ lines'[i].name = n
      <4>1. i > lo + Len(Plain(WalkOrder[j]))
        BY <1>1, <2>1, <2>2, <3>2 DEF Block
      <4> QED
        BY <2>2, <3>2, <4>1
    <3> QED
      BY <1>10, <3>1, <3>2
  <2>5. ASSUME NEW i \in 1..Len(Plain(WalkOrder[j]))
        PROVE  lines'[lo + i] = Listing(WalkOrder[j], Plain(WalkOrder[j]))[i]
    <3>1. lo + i \in 1..Len(lines) /\ lines[lo + i] = Listing(WalkOrder[j], Plain(WalkOrder[j]))[i]
      BY <1>1, <2>1, <2>2 DEF Block
    <3> QED
      BY <1>9, <3>1
  <2> QED
    BY <1>6, <2>3, <2>4, <2>5 DEF Block
<1>12. ASSUME NEW j, NEW lo, j = walked + 1, lo = Len(lines) PROVE Block(j, lo)'
  <2>1. ASSUME NEW i \in 1..Len(lines')
        PROVE  lines'[i].name = n <=> i \in lo + 1..lo + Len(out)
    <3>1. CASE i \in 1..Len(lines) /\ lines'[i] = lines[i]
      <4>1. PICK k \in 1..walked : lines[i].name = WalkOrder[k]
        BY <1>1, <3>1 DEF Listings
      <4>2. lines'[i].name # n
        BY <1>2, <3>1, <4>1
      <4> QED
        BY <1>1, <1>4, <1>12, <3>1, <4>2
    <3> QED
      BY <1>10, <1>12, <3>1
  <2>2. WalkOrder[j] = n /\ Plain(WalkOrder[j])' = Plain(n)
    BY <1>6, <1>7, <1>12
  <2>3. lo + Len(Plain(n)) <= Len(lines')
    BY <1>1, <1>4, <1>9, <1>12
  <2>4. \A i \in 1..Len(Plain(n)) : lines'[lo + i] = Listing(n, Plain(n))[i]
    BY <1>4, <1>8, <1>9, <1>12
  <2> QED
    BY <1>4, <2>1, <2>2, <2>3, <2>4 DEF Block
<1>13. \A j \in 1..walked + 1 : \E lo \in Nat : Block(j, lo)'
  <2>1. \A j : j = walked + 1 => \E lo \in Nat : Block(j, lo)'
    BY <1>1, <1>12
  <2> QED
    BY <1>2, <1>11, <2>1
<1>14. ASSUME NEW i \in 1..Len(lines') PROVE \E j \in 1..walked + 1 : lines'[i].name = WalkOrder[j]
  <2>1. CASE i \in 1..Len(lines) /\ lines'[i] = lines[i]
    BY <1>1, <1>2, <2>1 DEF Listings
  <2>2. CASE lines'[i].name = n
    BY <1>2, <1>7, <2>2
  <2> QED
    BY <1>10, <2>1, <2>2
<1>15. ASSUME NEW i \in 1..Len(lines') - 1
       PROVE  \E j, k \in 1..walked + 1 :
                j <= k /\ lines'[i].name = WalkOrder[j] /\ lines'[i + 1].name = WalkOrder[k]
  <2>1. i \in 1..Len(lines') /\ i + 1 \in 1..Len(lines')
    BY <1>1, <1>4, <1>9
  <2>2. CASE i + 1 \in 1..Len(lines)
    <3>1. i \in 1..Len(lines) - 1 /\ lines'[i] = lines[i] /\ lines'[i + 1] = lines[i + 1]
      BY <1>1, <1>9, <2>1, <2>2
    <3>2. PICK j \in 1..walked, k \in 1..walked :
            j <= k /\ lines[i].name = WalkOrder[j] /\ lines[i + 1].name = WalkOrder[k]
      BY <1>1, <3>1 DEF Listings
    <3> QED
      BY <1>2, <3>1, <3>2
  <2>3. CASE i + 1 \notin 1..Len(lines)
    <3>1. lines'[i + 1].name = WalkOrder[walked + 1]
      BY <1>7, <1>10, <2>1, <2>3
    <3>2. PICK j \in 1..walked + 1 : lines'[i].name = WalkOrder[j]
      BY <1>14, <2>1
    <3>3. j <= walked + 1 /\ walked + 1 \in 1..walked + 1
      BY <1>2
    <3> QED
      BY <3>1, <3>2, <3>3
  <2> QED
    BY <2>2, <2>3
<1> QED
  BY <1>9, <1>13, <1>14, <1>15 DEF Listings

\* Nobody walks the directory when the caller has returned.
LEMMA WalkOver ==
  ASSUME main = "returned"
  PROVE  ~WalkStep
<1>1. \A t \in Threads : ~ThreadStep(t)
  BY DEF ThreadStep, Readdir, ReaddirEnds, Inspect, Open, Hang, Lexed, Publish, At
<1>2. ~CallerStep
  BY DEF CallerStep, Call, Join, Closedir
<1> QED
  BY <1>1, <1>2 DEF WalkStep

LEMMA ReportStep ==
  ASSUME TypeInv, DirInv, ShowInv, ReportObject
  PROVE  ShowInv'
<1>1. /\ Reporting /\ walked < Len(WalkOrder) /\ walked' = walked + 1
      /\ UNCHANGED <<vars, call>> /\ main' = main /\ ret' = ret /\ call' = call
  BY DEF ReportObject, vars, mainvars
<1>2. /\ exit = "none" /\ call # NoCall /\ call \in Calls /\ main = "returned" /\ ret = "cache"
      /\ walked \in 0..Len(WalkOrder) /\ Len(WalkOrder) \in Nat
  BY <1>1, ShowVersionsAssumption DEF Reporting, ShowInv
<1>3. walked' \in 0..Len(WalkOrder)
  BY <1>1, <1>2
<1>4. CASE exit' = "failure"
  BY <1>1, <1>2, <1>3, <1>4 DEF ShowInv
<1>5. CASE /\ lines' = lines \o Output(WalkOrder[walked + 1], ChainOf(WalkOrder[walked + 1]))
           /\ exit' = exit
  <2>1. ~call.all => lines' \in Seq(OutputLine) /\ Summaries'
    BY <1>1, <1>2, <1>5, SummaryStep
  <2>2. call.all => lines' \in Seq(OutputLine) /\ Listings'
    BY <1>1, <1>2, <1>5, ListingStep
  <2>3. call.all \in BOOLEAN
    BY <1>2, ShowVersionsAssumption
  <2> QED
    BY <1>1, <1>2, <1>3, <1>5, <2>1, <2>2, <2>3 DEF ShowInv
<1> QED
  BY <1>4, <1>5 DEF ReportObject

LEMMA ShowStep ==
  ASSUME OneFill, TypeInv, DirInv, ShowInv, [ShowNext]_showvars
  PROVE  (TypeInv /\ DirInv /\ ShowInv)'
<1>1. [Next]_vars
  BY DEF ShowNext, Next, Report, StartReport, ReportObject, EndReport, Exited, showvars
<1>2. TypeInv' /\ DirInv'
  BY <1>1, TypeStep, DirStep
<1> SUFFICES ShowInv'
  BY <1>2
<1>3. Len(WalkOrder) \in Nat
  BY ShowVersionsAssumption
<1>4. CASE WalkStep /\ UNCHANGED reportvars
  <2>1. call = NoCall
    BY <1>4, WalkOver DEF ShowInv
  <2>2. call' = call /\ walked' = walked /\ lines' = lines /\ exit' = exit
    BY <1>4 DEF reportvars
  <2> QED
    BY <2>1, <2>2 DEF ShowInv
<1>5. CASE StartReport
  <2>1. /\ exit = "none" /\ main = "returned" /\ call = NoCall /\ walked = 0 /\ lines = <<>>
        /\ walked' = 0 /\ lines' = <<>> /\ main' = main /\ ret' = ret
    BY <1>5 DEF StartReport, ShowInv, vars, mainvars
  <2>2. CASE exit' = "failure" /\ call' = call
    BY <1>3, <2>1, <2>2 DEF ShowInv
  <2>3. CASE ret = "cache" /\ call' \in Calls /\ exit' = exit
    <3>1. Summaries' /\ Listings'
      BY <2>1 DEF Summaries, Listings
    <3> QED
      BY <1>3, <2>1, <2>3, <3>1 DEF ShowInv
  <2> QED
    BY <1>5, <2>2, <2>3 DEF StartReport
<1>6. CASE ReportObject
  BY <1>6, ReportStep
<1>7. CASE EndReport
  <2>1. /\ Reporting /\ walked = Len(WalkOrder) /\ exit' = "success"
        /\ call' = call /\ walked' = walked /\ lines' = lines
        /\ main' = main /\ ret' = ret /\ chain' = chain
    BY <1>7 DEF EndReport, vars, mainvars
  <2>2. (Summaries' <=> Summaries) /\ (Listings' <=> Listings)
    BY <2>1, OutputSame
  <2> QED
    BY <2>1, <2>2 DEF ShowInv, Reporting
<1>8. CASE UNCHANGED showvars
  <2>1. /\ call' = call /\ walked' = walked /\ lines' = lines /\ exit' = exit
        /\ main' = main /\ ret' = ret /\ chain' = chain
    BY <1>8 DEF showvars, reportvars, vars, mainvars
  <2>2. (Summaries' <=> Summaries) /\ (Listings' <=> Listings)
    BY <2>1, OutputSame
  <2> QED
    BY <2>1, <2>2 DEF ShowInv
<1> QED
  BY <1>4, <1>5, <1>6, <1>7, <1>8 DEF ShowNext, Report, Exited

LEMMA ShowInvariant == ASSUME OneFill PROVE ShowSpec => [](TypeInv /\ DirInv /\ ShowInv)
<1>1. ShowInit => TypeInv /\ DirInv /\ ShowInv
  BY ShowStart
<1>2. (TypeInv /\ DirInv /\ ShowInv) /\ [ShowNext]_showvars => (TypeInv /\ DirInv /\ ShowInv)'
  BY ShowStep
<1> QED
  BY <1>1, <1>2, PTL DEF ShowSpec

-----------------------------------------------------------------------------
(* What is printed in the end.                                              *)

LEMMA SummariesRight ==
  ASSUME TypeInv, DirInv, ShowInv
  PROVE  SummariesTrue
<1> SUFFICES ASSUME exit = "success", ~call.all
             PROVE  /\ [i \in DOMAIN lines |-> lines[i].name] = WalkOrder
                    /\ \A i \in DOMAIN lines : SummaryTrue(lines[i])
  BY DEF SummariesTrue
<1>1. /\ walked = Len(WalkOrder) /\ call \in Calls /\ ret = "cache"
      /\ lines \in Seq(OutputLine) /\ Summaries
  BY DEF ShowInv
<1>2. /\ WalkOrder \in Seq(Names) /\ Len(WalkOrder) \in Nat
      /\ \A i \in 1..Len(WalkOrder) : WalkOrder[i] \in Names
  BY ShowVersionsAssumption
<1>3. DOMAIN lines = 1..Len(WalkOrder)
  BY <1>1 DEF Summaries
<1>4. \A i \in 1..Len(WalkOrder) : /\ lines[i] = SummaryOf(WalkOrder[i])
                                   /\ SummaryTrue(lines[i]) /\ lines[i].name = WalkOrder[i]
  <2> SUFFICES ASSUME NEW i \in 1..Len(WalkOrder)
               PROVE  /\ lines[i] = SummaryOf(WalkOrder[i])
                      /\ SummaryTrue(lines[i]) /\ lines[i].name = WalkOrder[i]
    OBVIOUS
  <2>1. lines[i] = SummaryOf(WalkOrder[i]) /\ WalkOrder[i] \in Names
    BY <1>1, <1>2 DEF Summaries
  <2>2. SummaryTrue(SummaryOf(WalkOrder[i])) /\ SummaryOf(WalkOrder[i]).name = WalkOrder[i]
    BY <1>1, <2>1, SummaryCorrect
  <2> QED
    BY <2>1, <2>2
<1>5. [i \in DOMAIN lines |-> lines[i].name] = WalkOrder
  <2>1. WalkOrder = [i \in 1..Len(WalkOrder) |-> WalkOrder[i]]
    BY <1>2
  <2>2. [i \in DOMAIN lines |-> lines[i].name] = [i \in 1..Len(WalkOrder) |-> WalkOrder[i]]
    BY <1>3, <1>4
  <2> QED
    BY <2>1, <2>2
<1> QED
  BY <1>3, <1>4, <1>5

\* No package hangs twice under a name.
LEMMA ChainOnce ==
  ASSUME TypeInv, DirInv, ret = "cache", call \in Calls, NEW n \in Names
  PROVE  \A i, j \in 1..Len(chain[n]) : chain[n][i] = chain[n][j] => i = j
<1> DEFINE k == Len(chain[n])
           listed == Listed(n)
<1>1. k \in Nat /\ k = Cardinality(listed) /\ Elements(chain[n]) = listed
  BY ChainFacts
<1>2. chain[n] \in [1..k -> listed] /\ \A p \in listed : \E i \in 1..k : chain[n][i] = p
  <2>1. chain[n] \in Seq(Package)
    BY DEF TypeInv, SharedTypeOK
  <2>2. chain[n] = [i \in 1..k |-> chain[n][i]]
    BY <2>1
  <2> QED
    BY <1>1, <2>2 DEF Elements
<1> HIDE DEF k, listed
<1>3. chain[n] \in Surjection(1..k, listed)
  BY <1>2, Fun_IsSurj
<1>4. IsFiniteSet(1..k) /\ Cardinality(1..k) = k
  BY <1>1, FS_Interval
<1>5. chain[n] \in Injection(1..k, listed)
  BY <1>1, <1>3, <1>4, FS_Surjection
<1> QED
  BY <1>5 DEF Injection, IsInjective, k

LEMMA BehindCount ==
  ASSUME NEW a \in Nat, NEW b \in Nat
  PROVE  IsFiniteSet(a + 1..a + b) /\ Cardinality(a + 1..a + b) = b
<1>1. a + 1 \in Int /\ a + b \in Int
  OBVIOUS
<1> DEFINE low == a + 1
           high == a + b
<1>2. /\ IsFiniteSet(low..high)
      /\ Cardinality(low..high) = IF low > high THEN 0 ELSE high - low + 1
  <2> HIDE DEF low, high
  <2>1. low \in Int /\ high \in Int
    BY <1>1 DEF low, high
  <2> QED
    BY <2>1, FS_Interval
<1>3. (IF low > high THEN 0 ELSE high - low + 1) = b
  OBVIOUS
<1> QED
  BY <1>2, <1>3

\* A name has a line for each of its packages and each version older than all of them,
\* and a package's version as many under its list as the list has it.
CountsRight(n, printed) ==
  /\ Cardinality(printed) = Cardinality(Listed(n)) + Len(Older(n))
  /\ \A p \in Listed(n) :
       LET same(q) == q.file = p.file /\ VersionOf[q.file][q.nth] = VersionOf[p.file][p.nth]
       IN Cardinality({q \in Listed(n) : same(q)}) =
            Cardinality({i \in printed : lines[i].dist = p.file
                                         /\ lines[i].to = VersionOf[p.file][p.nth]})

\* The block of a name has a line for each of its packages, and one for the older one.
LEMMA BlockRight ==
  ASSUME TypeInv, DirInv, ret = "cache", call \in Calls, lines \in Seq(OutputLine),
         NEW j, WalkOrder[j] \in Names, NEW lo \in Nat, Block(j, lo), NEW n, n = WalkOrder[j],
         NEW printed, printed = {i \in DOMAIN lines : lines[i].name = n}
  PROVE  CountsRight(n, printed)
<1> DEFINE k == Len(chain[n])
           m == Len(Plain(n))
<1>1. /\ Plain(n) \in Seq(Offering) /\ k \in Nat /\ k = Cardinality(Listed(n))
      /\ Len(Older(n)) \in Nat /\ m = k + Len(Older(n)) /\ m \in Nat
      /\ Elements(chain[n]) = Listed(n)
      /\ \A i \in 1..k : chain[n][i] \in Listed(n) /\ Plain(n)[i] = OfferOf(chain[n][i])
      /\ \A i \in 1..Len(Older(n)) : Plain(n)[k + i] = Older(n)[i]
  <2>1. n \in Names
    OBVIOUS
  <2>2. Plain(n) \in Seq(Offering)
    BY <2>1, ChainFacts
  <2>3. m \in Nat
    BY <2>2
  <2> QED
    BY <2>1, <2>3, ChainFacts
<1>2. /\ Len(Listing(n, Plain(n))) = m
      /\ \A i \in 1..m : /\ Listing(n, Plain(n))[i].to = Plain(n)[i].version
                         /\ Listing(n, Plain(n))[i].dist = Plain(n)[i].dist
  BY <1>1, ListingFacts
<1>3. /\ Len(lines) \in Nat /\ DOMAIN lines = 1..Len(lines) /\ lo + m <= Len(lines)
      /\ \A i \in 1..Len(lines) : lines[i].name = n <=> i \in lo + 1..lo + m
      /\ \A i \in 1..m : lines[lo + i] = Listing(n, Plain(n))[i]
  BY DEF Block
<1>4. \A i \in 1..m : lines[lo + i].to = Plain(n)[i].version /\ lines[lo + i].dist = Plain(n)[i].dist
  BY <1>2, <1>3
<1>5. \A i \in 1..Len(Older(n)) : Older(n)[i].dist = "null"
  BY OlderFacts
<1> HIDE DEF k, m
<1>6. printed = lo + 1..lo + m
  BY SMTT(30), <1>1, <1>3
<1>7. IsFiniteSet(printed) /\ Cardinality(printed) = m
  <2>1. m \in Nat
    BY <1>1
  <2> QED
    BY <1>6, <2>1, BehindCount
<1>8. ASSUME NEW p \in Listed(n)
      PROVE  Cardinality({q \in Listed(n) : /\ q.file = p.file
                                            /\ VersionOf[q.file][q.nth] = VersionOf[p.file][p.nth]})
             = Cardinality({i \in printed : lines[i].dist = p.file
                                            /\ lines[i].to = VersionOf[p.file][p.nth]})
  <2> DEFINE S == {q \in Listed(n) : /\ q.file = p.file
                                     /\ VersionOf[q.file][q.nth] = VersionOf[p.file][p.nth]}
             T == {i \in printed : lines[i].dist = p.file
                                   /\ lines[i].to = VersionOf[p.file][p.nth]}
  <2>1. p.file # "null"
    BY ListedFacts, ShowVersionsAssumption
  <2>2. \A i \in 1..k : lo + i \in T <=> chain[n][i] \in S
    <3> SUFFICES ASSUME NEW i \in 1..k PROVE lo + i \in T <=> chain[n][i] \in S
      OBVIOUS
    <3>1. k \in Nat /\ m \in Nat /\ k <= m
      BY <1>1
    <3>2. i \in 1..m /\ lo + i \in printed
      BY <1>6, <3>1
    <3>3. chain[n][i] \in Listed(n) /\ Plain(n)[i] = OfferOf(chain[n][i])
      BY <1>1
    <3>4. /\ OfferOf(chain[n][i]).version = VersionOf[chain[n][i].file][chain[n][i].nth]
          /\ OfferOf(chain[n][i]).dist = chain[n][i].file
      BY <3>3, ListedFacts
    <3>5. /\ lines[lo + i].to = VersionOf[chain[n][i].file][chain[n][i].nth]
          /\ lines[lo + i].dist = chain[n][i].file
      BY <1>4, <3>2, <3>3, <3>4
    <3> QED
      BY <3>2, <3>3, <3>5
  <2>3. \A i \in T : i - lo \in 1..k /\ lo + (i - lo) = i
    <3> SUFFICES ASSUME NEW i \in printed, lines[i].dist = p.file
                 PROVE  i - lo \in 1..k /\ lo + (i - lo) = i
      OBVIOUS
    <3>1. i - lo \in 1..m /\ lo + (i - lo) = i
      BY SMTT(30), <1>1, <1>6
    <3>2. CASE i - lo \notin 1..k
      <4>1. i - lo - k \in 1..Len(Older(n)) /\ k + (i - lo - k) = i - lo
        BY <1>1, <3>1, <3>2
      <4>2. Plain(n)[k + (i - lo - k)].dist = "null"
        BY ZenonT(30), <1>1, <1>5, <4>1
      <4>3. lines[lo + (i - lo)].dist = "null"
        BY <1>4, <3>1, <4>1, <4>2
      <4> QED
        BY <2>1, <3>1, <4>3
    <3> QED
      BY <3>1, <3>2
  <2>4. T \subseteq printed /\ S \subseteq Listed(n)
    OBVIOUS
  <2> HIDE DEF S, T
  <2> DEFINE f == [i \in T |-> chain[n][i - lo]]
  <2>5. f \in [T -> S]
    <3>1. \A i \in T : chain[n][i - lo] \in S
      BY <2>2, <2>3
    <3> QED
      BY <3>1
  <2>6. \A a, b \in T : f[a] = f[b] => a = b
    <3> SUFFICES ASSUME NEW a \in T, NEW b \in T, chain[n][a - lo] = chain[n][b - lo] PROVE a = b
      OBVIOUS
    <3>1. a - lo = b - lo
      BY <2>3, ChainOnce DEF k
    <3> QED
      BY <2>3, <3>1
  <2>7. \A q \in S : \E i \in T : f[i] = q
    <3> SUFFICES ASSUME NEW q \in S PROVE \E i \in T : chain[n][i - lo] = q
      OBVIOUS
    <3>1. q \in Elements(chain[n])
      BY <1>1, <2>4
    <3>2. PICK i \in 1..k : chain[n][i] = q
      BY <3>1 DEF Elements, k
    <3>3. lo + i \in T /\ (lo + i) - lo = i
      BY <1>1, <2>2, <3>2
    <3> QED
      BY <3>2, <3>3
  <2> HIDE DEF f
  <2>8. f \in Bijection(T, S)
    BY <2>5, <2>6, <2>7, Fun_IsBij
  <2>9. ExistsBijection(T, S) /\ IsFiniteSet(T)
    BY <1>7, <2>4, <2>8, FS_Subset DEF ExistsBijection
  <2>10. Cardinality(S) = Cardinality(T)
    BY <2>9, FS_Bijection
  <2> QED
    BY <2>10 DEF S, T
<1> QED
  BY <1>1, <1>7, <1>8 DEF CountsRight

LEMMA ListingsRight ==
  ASSUME TypeInv, DirInv, ShowInv
  PROVE  AllVersionsListed
<1> SUFFICES ASSUME exit = "success", call.all PROVE AllVersionsListed
  BY DEF AllVersionsListed
<1>1. /\ walked = Len(WalkOrder) /\ call \in Calls /\ ret = "cache"
      /\ lines \in Seq(OutputLine) /\ Listings
  BY DEF ShowInv
<1>2. /\ Len(WalkOrder) \in Nat /\ DOMAIN WalkOrder = 1..Len(WalkOrder)
      /\ \A n \in Names : \E j \in 1..Len(WalkOrder) : WalkOrder[j] = n
  BY ShowVersionsAssumption DEF Elements
<1>3. ASSUME NEW n \in Names,
             NEW printed, printed = {i \in DOMAIN lines : lines[i].name = n}
      PROVE  CountsRight(n, printed)
  <2>1. PICK j \in 1..Len(WalkOrder) : WalkOrder[j] = n
    BY <1>2
  <2>2. PICK lo \in Nat : Block(j, lo)
    BY <1>1, <2>1 DEF Listings
  <2>3. WalkOrder[j] \in Names /\ n = WalkOrder[j]
    BY <2>1
  <2> QED
    BY <1>1, <1>3, <2>2, <2>3, BlockRight
<1>4. \A i \in 1..Len(lines) - 1 : \E j, k \in DOMAIN WalkOrder :
        j <= k /\ WalkOrder[j] = lines[i].name /\ WalkOrder[k] = lines[i + 1].name
  BY ZenonT(30), <1>1, <1>2 DEF Listings
<1> QED
  BY <1>3, <1>4 DEF AllVersionsListed, CountsRight

\* Whatever order the threads have left the chains in, a summary that rapt-show-versions
\* prints to its end has one line for every name, and each line's verdict (available,
\* upgradeable, up to date, neither) and versions follow from what the lists hold.
THEOREM SummariesCorrect == ASSUME OneFill PROVE ShowSpec => []SummariesTrue
<1>1. TypeInv /\ DirInv /\ ShowInv => SummariesTrue
  BY SummariesRight
<1> QED
  BY <1>1, ShowInvariant, PTL

\* A rapt-show-versions --allversions that ends well has printed each package of the
\* lists whose name is in the trie as often as it is listed, under its own list, and
\* has kept the names together, in the trie's order.
THEOREM AllListedCorrect == ASSUME OneFill PROVE ShowSpec => []AllVersionsListed
<1>1. TypeInv /\ DirInv /\ ShowInv => AllVersionsListed
  BY ListingsRight
<1> QED
  BY <1>1, ShowInvariant, PTL
=============================================================================
