------------------------ MODULE ContentsQueueProofs ------------------------
(***************************************************************************)
(* Proofs about ContentsQueue, for every number of threads, every          *)
(* directory, every number of buffers and every set of faults.             *)
(*                                                                         *)
(*   TypeOK, HoldupExact   inductive together: holdup_sem is bounded       *)
(*                         because it equals the size of Holding           *)
(*   NoEarlyExit           needs what a thread remembers of the counter:   *)
(*                         EndSeen and ZeroSeen below                      *)
(*                                                                         *)
(* And when the directory stream brings in the whole directory with one    *)
(* refill (OneFill):                                                       *)
(*                                                                         *)
(*   ExclusiveStreams    no stream is inflated by two threads              *)
(*   LexedAtMostOnce     no buffer is searched twice                       *)
(*   CompleteOnSuccess   success means that everything was searched        *)
(*   ImplementsScan      every step is a step of ContentsScan              *)
(*                                                                         *)
(* Without OneFill these are false: a dirent is read through a pointer     *)
(* into a buffer that may have been refilled.  A file is followed from the *)
(* readdir that hands it out: it is in one thread's hands or on the queue  *)
(* once, its stream has given some number of buffers, and a buffer it has  *)
(* given has been searched, or some thread is about to search it.          *)
(***************************************************************************)
EXTENDS ContentsQueue, DirStreamProofs

-----------------------------------------------------------------------------
(* The counter: what a move of one thread does to the set it counts.        *)

LEMMA HoldingFinite ==
  /\ IsFiniteSet(Threads) /\ Cardinality(Threads) \in Nat
  /\ IsFiniteSet(Holding) /\ Cardinality(Holding) \in 0..Cardinality(Threads)
<1>1. IsFiniteSet(Threads) /\ Holding \subseteq Threads
  BY ContentsAssumption DEF Holding
<1> QED BY <1>1, FS_Subset, FS_CardinalityType

\* A thread becomes counted and says so.
LEMMA Gain ==
  ASSUME pc \in [Threads -> PCs], HoldupExact,
         NEW t \in Threads, NEW l \in HoldingPCs, pc[t] \notin HoldingPCs,
         Goto(t, l), holdup_sem' = holdup_sem + 1
  PROVE  HoldupExact'
<1>1. Holding' = Holding \cup {t} /\ t \notin Holding
  BY DEF Holding, Goto
<1>2. Cardinality(Holding') = Cardinality(Holding) + 1
  BY <1>1, HoldingFinite, FS_AddElement
<1> QED BY <1>2 DEF HoldupExact

\* A thread stops being counted and says so.
LEMMA Lose ==
  ASSUME pc \in [Threads -> PCs], HoldupExact,
         NEW t \in Threads, NEW l, l \notin HoldingPCs, pc[t] \in HoldingPCs,
         Goto(t, l), holdup_sem' = holdup_sem - 1
  PROVE  HoldupExact' /\ holdup_sem > 0
<1>1. Holding' = Holding \ {t} /\ t \in Holding
  BY DEF Holding, Goto
<1>2. Cardinality(Holding') = Cardinality(Holding) - 1
  BY <1>1, HoldingFinite, FS_RemoveElement
<1>3. Cardinality(Holding') \in Nat
  BY <1>1, HoldingFinite, FS_RemoveElement, FS_CardinalityType
<1> QED BY <1>2, <1>3, HoldingFinite DEF HoldupExact

\* A thread moves on the same side of the count, and leaves the counter alone.
LEMMA Keep ==
  ASSUME pc \in [Threads -> PCs], HoldupExact,
         NEW t \in Threads, NEW l, l \in HoldingPCs <=> pc[t] \in HoldingPCs,
         Goto(t, l), UNCHANGED holdup_sem
  PROVE  HoldupExact'
<1>1. Holding' = Holding
  BY DEF Holding, Goto
<1> QED BY <1>1 DEF HoldupExact

LEMMA HoldupStep ==
  ASSUME TypeOK, HoldupExact, [Next]_vars
  PROVE  HoldupExact'
<1> USE DEF HoldingPCs
<1>1. pc \in [Threads -> PCs]
  BY DEF TypeOK
<1>2. ASSUME NEW t \in Threads, ThreadStep(t)
      PROVE  HoldupExact'
  <2>1. CASE InfbufFails(t) \/ CheckHoldup(t) \/ Idle(t)
    BY <1>1, <2>1, Keep DEF InfbufFails, CheckHoldup, Idle, At
  <2>2. CASE Arrive(t) \/ Rearm(t)
    BY <1>1, <2>2, Gain DEF Arrive, Rearm, At
  <2>3. CASE Readdir(t) \/ ReaddirEnds(t)
    BY <1>1, <2>3, Keep DEF Readdir, ReaddirEnds, At
  <2>4. CASE Filter(t) \/ Mapit(t)
    BY <1>1, <2>4, Keep DEF Filter, Mapit, At
  <2>5. CASE MapitFails(t) \/ InflateFails(t) \/ CreateFails(t) \/ FinishFirstFails(t)
    BY <1>1, <2>5, Keep DEF MapitFails, InflateFails, CreateFails, FinishFirstFails,
                            Abandon, At
  <2>6. CASE Oneshot(t)
    BY <1>1, <2>6, Keep DEF Oneshot, Inflate, At
  <2>7. CASE Nextshot(t)
    BY <1>1, <2>7, Keep DEF Nextshot, Inflate, At
  <2>8. CASE CreateWorkmonad(t) \/ EnqueueWorkmonad(t)
    BY <1>1, <2>8, Lose DEF CreateWorkmonad, EnqueueWorkmonad, Post, Release, At
  <2>9. CASE LexFirst(t)
    BY <1>1, <2>9, Keep DEF LexFirst, At
  <2>10. CASE LexNext(t)
    BY <1>1, <2>10, Keep DEF LexNext, At
  <2>11. CASE HeaderAssert(t)
    BY <2>11 DEF HeaderAssert, HoldupExact, Holding
  <2>12. CASE FinishFirst(t) \/ Leave(t) \/ FinishLast(t)
    BY <1>1, <2>12, Lose DEF FinishFirst, Leave, FinishLast, Release, At
  <2>13. CASE Take(t)
    BY <1>1, <2>13, Gain DEF Take, At
  <2> QED
    BY <1>2, <2>1, <2>2, <2>3, <2>4, <2>5, <2>6, <2>7, <2>8, <2>9, <2>10, <2>11,
       <2>12, <2>13 DEF ThreadStep
<1>3. CASE MainStep
  BY <1>3 DEF MainStep, OpendirFails, Spawn, Join, Closedir, poolvars, HoldupExact, Holding
<1>4. CASE UNCHANGED vars
  BY <1>4 DEF vars, HoldupExact, Holding
<1> QED BY <1>2, <1>3, <1>4 DEF Next, Terminated

-----------------------------------------------------------------------------
(* Types.                                                                   *)

\* Pushing, taking and dropping workmonads keeps the queue a sequence of them.
LEMMA QueueOps ==
  ASSUME queue \in Seq(Workmonad)
  PROVE  /\ \A w \in Workmonad : <<w>> \o queue \in Seq(Workmonad)
         /\ queue # <<>> => Head(queue) \in Workmonad /\ Tail(queue) \in Seq(Workmonad)
  OBVIOUS

\* So does counting one more buffer inflated.
LEMMA OneMore ==
  ASSUME work \in [Threads -> [file : Entries \cup {"none"}, shot : Nat]],
         NEW t \in Threads, work[t] \in Workmonad,
         work' = [work EXCEPT ![t].shot = @ + 1]
  PROVE  /\ work' \in [Threads -> [file : Entries \cup {"none"}, shot : Nat]]
         /\ work'[t] \in Workmonad /\ \A u \in Threads \ {t} : work'[u] = work[u]
         /\ work'[t].file = work[t].file /\ work'[t].shot = work[t].shot + 1
<1>1. [work[t] EXCEPT !.shot = @ + 1] \in Workmonad
  BY DEF Workmonad
<1>2. work' = [work EXCEPT ![t] = [work[t] EXCEPT !.shot = @ + 1]]
  OBVIOUS
<1> QED BY <1>1, <1>2 DEF Workmonad

LEMMA LexesType ==
  ASSUME lexed \in [Chunks -> Nat], NEW c, Lexes(c)
  PROVE  lexed' \in [Chunks -> Nat]
<1>1. CASE c \in Chunks
  <2>1. lexed[c] + 1 \in Nat
    BY <1>1
  <2> QED BY <1>1, <2>1 DEF Lexes
<1>2. CASE c \notin Chunks
  <2>1. lexed' = lexed
    BY <1>2 DEF Lexes
  <2> QED BY <2>1
<1> QED BY <1>1, <1>2

\* A thread that moves on with the work, the dirent and the stream it had, or none.
LEMMA TypeMove ==
  ASSUME TypeOK, NEW t \in Threads, NEW l \in PCs, Goto(t, l),
         l \in {"inspect", "open"} => pc[t] \in {"inspect", "open"},
         l \in BusyPCs => pc[t] \in BusyPCs,
         UNCHANGED <<dirvars, mainvars, pdent, work>>,
         holdup' \in [Threads -> 0..Cardinality(Threads)],
         holdup_sem' \in 0..Cardinality(Threads),
         queue' \in Seq(Workmonad), lexed' \in [Chunks -> Nat]
  PROVE  TypeOK'
<1>1. pc' \in [Threads -> PCs]
  BY DEF TypeOK, Goto
<1>2. ASSUME NEW u \in Threads
      PROVE  /\ pc'[u] \in {"inspect", "open"} => ValidSlot(pdent[u])'
             /\ pc'[u] \in BusyPCs => work'[u] \in Workmonad
  <2>1. /\ pc[u] \in {"inspect", "open"} => ValidSlot(pdent[u])
        /\ pc[u] \in BusyPCs => work[u] \in Workmonad
    BY DEF TypeOK
  <2>2. /\ pc'[u] \in {"inspect", "open"} => pc[u] \in {"inspect", "open"}
        /\ pc'[u] \in BusyPCs => pc[u] \in BusyPCs
    BY DEF TypeOK, Goto
  <2> QED BY <2>1, <2>2 DEF dirvars, ValidSlot
<1>3. DirTypeOK'
  BY DEF TypeOK, DirTypeOK, dirvars
<1> QED BY <1>1, <1>2, <1>3 DEF TypeOK, mainvars

LEMMA TypeStep ==
  ASSUME TypeOK, HoldupExact, [Next]_vars
  PROVE  TypeOK'
<1>1. HoldupExact'
  BY HoldupStep
<1>2. holdup_sem' \in 0..Cardinality(Threads)
  <2>1. Holding' \subseteq Threads
    BY DEF Holding
  <2> QED BY <1>1, <2>1, HoldingFinite, FS_Subset, FS_CardinalityType DEF HoldupExact
<1>3. /\ holdup \in [Threads -> 0..Cardinality(Threads)] /\ queue \in Seq(Workmonad)
      /\ lexed \in [Chunks -> Nat]
  BY DEF TypeOK
<1>4. ASSUME NEW t \in Threads, ThreadStep(t)
      PROVE  TypeOK'
  <2> USE DEF PCs, Stopped, BusyPCs, OwnerPCs
  <2>1. CASE InfbufFails(t) \/ Arrive(t) \/ ReaddirEnds(t) \/ Rearm(t)
    <3>1. CASE InfbufFails(t)
      BY <1>2, <1>3, <3>1, TypeMove DEF InfbufFails, At, threadvars
    <3>2. CASE Arrive(t)
      BY <1>2, <1>3, <3>2, TypeMove DEF Arrive, At, threadvars
    <3>3. CASE ReaddirEnds(t)
      BY <1>2, <1>3, <3>3, TypeMove DEF ReaddirEnds, At, threadvars
    <3>4. CASE Rearm(t)
      BY <1>2, <1>3, <3>4, TypeMove DEF Rearm, At, threadvars
    <3> QED BY <2>1, <3>1, <3>2, <3>3, <3>4
  <2>2. CASE Readdir(t)
    <3> USE DEF TypeOK
    <3>1. DirTypeOK' /\ NextSlot \in 0..(BatchSize - 1) /\ NextSlot < fetched'
          /\ fetched' >= fetched /\ fetched' \in Nat /\ fetched \in Nat
      BY <2>2, AdvanceType, DirAssumption DEF Readdir, DirTypeOK
    <3> QED BY <1>2, <2>2, <3>1 DEF Readdir, At, Goto, mainvars, ValidSlot
  <2>3. CASE Filter(t)
    BY <1>2, <1>3, <2>3, TypeMove DEF Filter, At, threadvars
  <2>4. CASE MapitFails(t) \/ InflateFails(t) \/ CreateFails(t) \/ FinishFirstFails(t)
    <3>1. CASE MapitFails(t)
      BY <1>2, <1>3, <3>1, TypeMove DEF MapitFails, Abandon, At, threadvars
    <3>2. CASE InflateFails(t)
      BY <1>2, <1>3, <3>2, TypeMove DEF InflateFails, Abandon, At, threadvars
    <3>3. CASE CreateFails(t)
      BY <1>2, <1>3, <3>3, TypeMove DEF CreateFails, Abandon, At, threadvars
    <3>4. CASE FinishFirstFails(t)
      BY <1>2, <1>3, <3>4, TypeMove DEF FinishFirstFails, Abandon, At, threadvars
    <3> QED BY <2>4, <3>1, <3>2, <3>3, <3>4
  <2>5. CASE Mapit(t)
    <3> USE DEF TypeOK
    <3>1. EntryOf(t) \in Entries
      BY <2>5, EntryAtType DEF Mapit, At, EntryOf
    <3>2. work'[t] \in Workmonad
      BY <2>5, <3>1 DEF Mapit, Workmonad
    <3> QED BY <1>2, <2>5, <3>1, <3>2 DEF Mapit, At, Goto, mainvars, dirvars, DirTypeOK,
                                          ValidSlot, Workmonad
  <2>6. CASE Oneshot(t)
    <3> USE DEF TypeOK
    <3>1. /\ work[t] \in Workmonad /\ UNCHANGED <<dirvars, mainvars, pdent, queue>>
          /\ UNCHANGED <<holdup, lexed>>
          /\ work' = [work EXCEPT ![t].shot = @ + 1]
          /\ \E l \in {"create", "lex_whole"} : Goto(t, l)
      BY <2>6 DEF Oneshot, Inflate, At
    <3>2. work' \in [Threads -> [file : Entries \cup {"none"}, shot : Nat]]
          /\ work'[t] \in Workmonad /\ \A u \in Threads \ {t} : work'[u] = work[u]
      BY <3>1, OneMore
    <3>3. pc' \in [Threads -> PCs] /\ \A u \in Threads \ {t} : pc'[u] = pc[u]
      BY <3>1 DEF Goto
    <3>4. DirTypeOK' /\ \A u \in Threads : pc'[u] \in {"inspect", "open"} =>
                                              ValidSlot(pdent[u])'
      BY <3>1, <3>3 DEF Goto, dirvars, DirTypeOK, ValidSlot
    <3> QED BY <1>2, <3>1, <3>2, <3>3, <3>4 DEF mainvars
  <2>7. CASE Nextshot(t)
    <3> USE DEF TypeOK
    <3>1. /\ work[t] \in Workmonad /\ UNCHANGED <<dirvars, mainvars, pdent, queue>>
          /\ UNCHANGED <<holdup, lexed>>
          /\ work' = [work EXCEPT ![t].shot = @ + 1]
          /\ \E l \in {"enqueue", "lex_last"} : Goto(t, l)
      BY <2>7 DEF Nextshot, Inflate, At
    <3>2. work' \in [Threads -> [file : Entries \cup {"none"}, shot : Nat]]
          /\ work'[t] \in Workmonad /\ \A u \in Threads \ {t} : work'[u] = work[u]
      BY <3>1, OneMore
    <3>3. pc' \in [Threads -> PCs] /\ \A u \in Threads \ {t} : pc'[u] = pc[u]
      BY <3>1 DEF Goto
    <3>4. DirTypeOK' /\ \A u \in Threads : pc'[u] \in {"inspect", "open"} =>
                                              ValidSlot(pdent[u])'
      BY <3>1, <3>3 DEF Goto, dirvars, DirTypeOK, ValidSlot
    <3> QED BY <1>2, <3>1, <3>2, <3>3, <3>4 DEF mainvars
  <2>8. CASE CreateWorkmonad(t) \/ EnqueueWorkmonad(t)
    <3>1. work[t] \in Workmonad /\ queue' = <<work[t]>> \o queue
      BY <2>8 DEF CreateWorkmonad, EnqueueWorkmonad, Post, At, TypeOK
    <3>2. queue' \in Seq(Workmonad)
      BY <1>3, <3>1, QueueOps
    <3>3. CASE CreateWorkmonad(t)
      BY <1>2, <1>3, <3>2, <3>3, TypeMove DEF CreateWorkmonad, At, threadvars
    <3>4. CASE EnqueueWorkmonad(t)
      BY <1>2, <1>3, <3>2, <3>4, TypeMove DEF EnqueueWorkmonad, At, threadvars
    <3> QED BY <2>8, <3>3, <3>4
  <2>9. CASE LexFirst(t) \/ LexNext(t) \/ HeaderAssert(t)
    <3>1. lexed' \in [Chunks -> Nat]
      BY <1>3, <2>9, LexesType DEF LexFirst, LexNext, HeaderAssert
    <3>2. CASE LexFirst(t)
      BY <1>2, <1>3, <3>1, <3>2, TypeMove DEF LexFirst, At, threadvars
    <3>3. CASE LexNext(t)
      BY <1>2, <1>3, <3>1, <3>3, TypeMove DEF LexNext, At, threadvars
    <3>4. CASE HeaderAssert(t)
      BY <1>2, <3>1, <3>4 DEF HeaderAssert, TypeOK, threadvars, dirvars, DirTypeOK, ValidSlot
    <3> QED BY <2>9, <3>2, <3>3, <3>4
  <2>10. CASE FinishFirst(t) \/ Leave(t) \/ FinishLast(t)
    <3>1. CASE FinishFirst(t)
      BY <1>2, <1>3, <3>1, TypeMove DEF FinishFirst, At, threadvars
    <3>2. CASE Leave(t)
      BY <1>2, <1>3, <3>2, TypeMove DEF Leave, At, threadvars
    <3>3. CASE FinishLast(t)
      BY <1>2, <1>3, <3>3, TypeMove DEF FinishLast, At, threadvars
    <3> QED BY <2>10, <3>1, <3>2, <3>3
  <2>11. CASE CheckHoldup(t) \/ Idle(t)
    <3>1. CASE CheckHoldup(t)
      <4>1. holdup' \in [Threads -> 0..Cardinality(Threads)]
        BY <1>3, <3>1 DEF CheckHoldup, TypeOK
      <4> QED BY <1>2, <1>3, <3>1, <4>1, TypeMove DEF CheckHoldup, At
    <3>2. CASE Idle(t)
      BY <1>2, <1>3, <3>2, TypeMove DEF Idle, At, threadvars
    <3> QED BY <2>11, <3>1, <3>2
  <2>12. CASE Take(t)
    <3> USE DEF TypeOK
    <3>1. work' = [work EXCEPT ![t] = Head(queue)] /\ queue' = Tail(queue)
          /\ queue # <<>>
      BY <2>12 DEF Take
    <3>2. Head(queue) \in Workmonad /\ queue' \in Seq(Workmonad)
      BY <3>1, QueueOps
    <3>3. /\ work' \in [Threads -> [file : Entries \cup {"none"}, shot : Nat]]
          /\ work'[t] \in Workmonad /\ \A u \in Threads \ {t} : work'[u] = work[u]
      BY <3>1, <3>2 DEF Workmonad
    <3>4. Goto(t, "nextshot") /\ UNCHANGED <<dirvars, mainvars, pdent, holdup, lexed>>
      BY <2>12 DEF Take
    <3>5. pc' \in [Threads -> PCs] /\ pc'[t] = "nextshot"
          /\ \A u \in Threads \ {t} : pc'[u] = pc[u]
      BY <3>4 DEF Goto
    <3>6. DirTypeOK' /\ \A u \in Threads : pc'[u] \in {"inspect", "open"} =>
                                              ValidSlot(pdent[u])'
      BY <3>4, <3>5 DEF dirvars, DirTypeOK, ValidSlot
    <3> QED BY <1>2, <3>2, <3>3, <3>4, <3>5, <3>6 DEF mainvars
  <2> QED
    BY <1>4, <2>1, <2>2, <2>3, <2>4, <2>5, <2>6, <2>7, <2>8, <2>9, <2>10, <2>11, <2>12
    DEF ThreadStep
<1>5. CASE MainStep
  BY <1>5 DEF TypeOK, MainStep, OpendirFails, Spawn, Join, Closedir, Returns, poolvars,
              threadvars, dirvars, DirTypeOK, ValidSlot, Stopped
<1>6. CASE UNCHANGED vars
  BY <1>6 DEF TypeOK, vars, dirvars, DirTypeOK, ValidSlot
<1> QED BY <1>4, <1>5, <1>6 DEF Next, Terminated

LEMMA InitTypes == Init => TypeOK /\ HoldupExact
<1> SUFFICES ASSUME Init PROVE TypeOK /\ HoldupExact
  OBVIOUS
<1>1. Holding = {}
  BY DEF Init, Holding, HoldingPCs
<1>2. HoldupExact
  BY <1>1, FS_EmptySet DEF Init, HoldupExact
<1>3. DirTypeOK
  BY DirAssumption DEF Init, DirInit, DirTypeOK
<1>4. TypeOK
  BY <1>3, HoldingFinite, DirAssumption
  DEF Init, DirInit, TypeOK, PCs, Stopped, BusyPCs, OwnerPCs, NoWork
<1> QED BY <1>2, <1>4

\* In every behaviour the variables keep their types; in particular the unsigned
\* holdup_sem stays between 0 and the number of threads.
THEOREM TypeCorrect == Spec => []TypeOK
<1>1. TypeOK /\ HoldupExact /\ [Next]_vars => (TypeOK /\ HoldupExact)'
  BY TypeStep, HoldupStep
<1> QED BY <1>1, InitTypes, PTL DEF Spec

\* In every behaviour holdup_sem is the number of threads that are counted.
THEOREM HoldupCorrect == Spec => []HoldupExact
<1>1. TypeOK /\ HoldupExact /\ [Next]_vars => (TypeOK /\ HoldupExact)'
  BY TypeStep, HoldupStep
<1> QED BY <1>1, InitTypes, PTL DEF Spec

-----------------------------------------------------------------------------
(* No early exit.  A thread looks at holdup_sem only after it has seen the  *)
(* end of the directory.  If it read 0 then, no entry was on its way        *)
(* through lex_content_map_oneshot(), and none can set out any more.        *)

DrainPCs == {"drain", "nextshot", "enqueue", "lex_next", "lex_last", "finish_last", "done"}

EndSeen == \A t \in Threads : pc[t] \in DrainPCs \cup {"leave", "check"} => AtEnd

ZeroSeen ==
  \A t, u \in Threads :
     pc[t] \in DrainPCs /\ holdup[t] = 0 => pc[u] \notin OneshotPCs

LeftAtZero == \A t \in Threads : pc[t] = "done" => holdup[t] = 0

ExitInv == EndSeen /\ ZeroSeen /\ LeftAtZero

\* The counter is zero only when no entry is on its way to the queue.
LEMMA ZeroMeansNone ==
  ASSUME HoldupExact, holdup_sem = 0, NEW u \in Threads
  PROVE  pc[u] \notin OneshotPCs
<1>1. Holding = {}
  BY HoldingFinite, FS_EmptySet DEF HoldupExact
<1> QED BY <1>1 DEF Holding, HoldingPCs, OneshotPCs

\* The end of the directory is stable, and only readdir starts on an entry.
LEMMA EntriesInFlight ==
  ASSUME TypeOK, NEW t \in Threads, ThreadStep(t)
  PROVE  /\ AtEnd => AtEnd'
         /\ AtEnd => \A u \in Threads : pc'[u] \in OneshotPCs => pc[u] \in OneshotPCs
<1> USE DEF TypeOK, PCs, OneshotPCs, At, Goto, AtEnd
<1>1. CASE Readdir(t)
  BY <1>1 DEF Readdir, Advance
<1>2. CASE Oneshot(t) \/ Nextshot(t)
  <2>1. UNCHANGED dirvars /\ \A u \in Threads \ {t} : pc'[u] = pc[u]
    BY <1>2 DEF Oneshot, Nextshot, Inflate
  <2>2. pc[t] = "oneshot" \/ pc'[t] \notin OneshotPCs
    BY <1>2 DEF Oneshot, Nextshot, Inflate
  <2> QED BY <2>1, <2>2 DEF dirvars
<1>3. CASE \/ InfbufFails(t) \/ Arrive(t) \/ ReaddirEnds(t) \/ Filter(t)
           \/ MapitFails(t) \/ Mapit(t) \/ InflateFails(t) \/ CreateFails(t)
           \/ CreateWorkmonad(t)
  BY <1>3 DEF InfbufFails, Arrive, ReaddirEnds, Filter, MapitFails, Mapit, InflateFails,
              CreateFails, CreateWorkmonad, Abandon, dirvars
<1>4. CASE \/ LexFirst(t) \/ HeaderAssert(t) \/ FinishFirst(t)
           \/ FinishFirstFails(t) \/ Rearm(t) \/ Leave(t) \/ CheckHoldup(t)
  BY <1>4 DEF LexFirst, HeaderAssert, FinishFirst, FinishFirstFails, Rearm, Leave,
              CheckHoldup, Abandon, dirvars
<1>5. CASE \/ Take(t) \/ Idle(t) \/ EnqueueWorkmonad(t) \/ LexNext(t) \/ FinishLast(t)
  BY <1>5 DEF Take, Idle, EnqueueWorkmonad, LexNext, FinishLast, dirvars
<1> QED BY <1>1, <1>2, <1>3, <1>4, <1>5 DEF ThreadStep

\* Into the part past the directory a thread comes by readdir's answer, and into
\* the queue's part by a look at holdup_sem.
LEMMA ExitMoves ==
  ASSUME TypeOK, NEW t \in Threads, ThreadStep(t), NEW v \in Threads
  PROVE  /\ pc'[v] \in DrainPCs \cup {"leave", "check"} =>
              pc[v] \in DrainPCs \cup {"leave", "check"} \/ AtEnd
         /\ pc'[v] \in DrainPCs =>
              \/ pc[v] \in DrainPCs /\ holdup'[v] = holdup[v]
              \/ holdup'[v] = holdup_sem /\ pc'[v] # "done" /\ pc' = [pc EXCEPT ![v] = "drain"]
                 /\ pc[v] = "check"
         /\ pc'[v] = "done" => holdup[v] = 0 \/ pc[v] = "done"
<1> USE DEF TypeOK, PCs, DrainPCs, At, Goto
<1>1. CASE Oneshot(t) \/ Nextshot(t)
  <2>1. UNCHANGED holdup /\ \A u \in Threads \ {t} : pc'[u] = pc[u]
    BY <1>1 DEF Oneshot, Nextshot, Inflate
  <2>2. \/ pc[t] = "oneshot" /\ pc'[t] \in {"create", "lex_whole"}
        \/ pc[t] = "nextshot" /\ pc'[t] \in {"enqueue", "lex_last"}
    BY <1>1 DEF Oneshot, Nextshot, Inflate
  <2> QED BY <2>1, <2>2
<1>2. CASE \/ InfbufFails(t) \/ Arrive(t) \/ Readdir(t) \/ ReaddirEnds(t) \/ Filter(t)
  BY <1>2 DEF InfbufFails, Arrive, Readdir, ReaddirEnds, Filter, threadvars
<1>3. CASE \/ MapitFails(t) \/ Mapit(t) \/ InflateFails(t) \/ CreateFails(t)
           \/ CreateWorkmonad(t)
  BY <1>3 DEF MapitFails, Mapit, InflateFails, CreateFails, CreateWorkmonad, Abandon,
              threadvars
<1>4. CASE \/ LexFirst(t) \/ HeaderAssert(t) \/ FinishFirst(t)
           \/ FinishFirstFails(t) \/ Rearm(t) \/ Leave(t)
  BY <1>4 DEF LexFirst, HeaderAssert, FinishFirst, FinishFirstFails, Rearm, Leave,
              Abandon, threadvars
<1>5. CASE CheckHoldup(t)
  BY <1>5 DEF CheckHoldup
<1>6. CASE Take(t) \/ Idle(t)
  BY <1>6 DEF Take, Idle, threadvars
<1>7. CASE EnqueueWorkmonad(t) \/ LexNext(t) \/ FinishLast(t)
  BY <1>7 DEF EnqueueWorkmonad, LexNext, FinishLast, threadvars
<1> QED BY <1>1, <1>2, <1>3, <1>4, <1>5, <1>6, <1>7 DEF ThreadStep

LEMMA ExitStep ==
  ASSUME TypeOK, HoldupExact, ExitInv, [Next]_vars
  PROVE  ExitInv'
<1>1. ASSUME NEW t \in Threads, ThreadStep(t)
      PROVE  ExitInv'
  <2>1. EndSeen'
    BY <1>1, EntriesInFlight, ExitMoves DEF ExitInv, EndSeen
  <2>2. ZeroSeen'
    <3> SUFFICES ASSUME NEW v \in Threads, NEW u \in Threads,
                        pc'[v] \in DrainPCs, holdup'[v] = 0
                 PROVE  pc'[u] \notin OneshotPCs
      BY DEF ZeroSeen
    <3>1. AtEnd
      BY <1>1, ExitMoves DEF ExitInv, EndSeen
    <3>2. pc[u] \notin OneshotPCs
      BY <1>1, ExitMoves, ZeroMeansNone DEF ExitInv, ZeroSeen
    <3> QED BY <1>1, <3>1, <3>2, EntriesInFlight
  <2>3. LeftAtZero'
    BY <1>1, ExitMoves DEF ExitInv, LeftAtZero, DrainPCs
  <2> QED BY <2>1, <2>2, <2>3 DEF ExitInv
<1>2. CASE MainStep
  BY <1>2 DEF MainStep, OpendirFails, Spawn, Join, Closedir, poolvars, threadvars, dirvars,
              ExitInv, EndSeen, ZeroSeen, LeftAtZero, AtEnd
<1>3. CASE UNCHANGED vars
  BY <1>3 DEF vars, dirvars, ExitInv, EndSeen, ZeroSeen, LeftAtZero, AtEnd
<1> QED BY <1>1, <1>2, <1>3 DEF Next, Terminated

\* In every behaviour a thread that has left lex_dir() for good has left behind a
\* directory read to its end and no entry still in lex_content_map_oneshot().
THEOREM NoEarlyExitCorrect == Spec => []NoEarlyExit
<1> DEFINE IInv == TypeOK /\ HoldupExact /\ ExitInv
<1>1. Init => IInv
  BY InitTypes DEF Init, ExitInv, EndSeen, ZeroSeen, LeftAtZero, DrainPCs
<1>2. IInv /\ [Next]_vars => IInv'
  BY TypeStep, HoldupStep, ExitStep
<1>3. IInv => NoEarlyExit
  BY DEF ExitInv, EndSeen, ZeroSeen, LeftAtZero, DrainPCs, NoEarlyExit
<1> QED BY <1>1, <1>2, <1>3, PTL DEF Spec

-----------------------------------------------------------------------------
(* When one refill brings in the whole directory: where each file is.       *)

SlotPCs == {"inspect", "open"}
HolderPCs == SlotPCs \cup OwnerPCs
Holders == {t \in Threads : pc[t] \in HolderPCs}

\* The file in a holder's hands, and how many buffers its stream has given.
Held(t) == IF pc[t] \in SlotPCs THEN Dir[pdent[t] + 1] ELSE work[t].file
Given(t) == IF pc[t] \in SlotPCs THEN 0 ELSE work[t].shot

\* Threads that have a buffer that they have not searched yet.
PendingPCs == {"create", "lex_first", "lex_whole", "enqueue", "lex_next", "lex_last"}
Pending == {t \in Threads : pc[t] \in PendingPCs}

SlotsBehind == \A t \in Threads : pc[t] \in SlotPCs => pdent[t] < dirpos

\* A file is in one place at most, and in none before it is handed out.
Apart ==
  /\ \A t, u \in Holders : Held(t) = Held(u) => t = u
  /\ \A t \in Holders, i \in 1..Len(queue) : Held(t) # queue[i].file
  /\ \A i, j \in 1..Len(queue) : queue[i].file = queue[j].file => i = j

AllHanded ==
  /\ \A t \in Holders : Held(t) \in Handed
  /\ \A t \in Pending : work[t].file \in Handed
  /\ \A i \in 1..Len(queue) : queue[i].file \in Handed

\* How many buffers the stream has given where a thread stands.
ShotsRight ==
  \A t \in Threads :
    /\ pc[t] = "oneshot" => work[t].shot = 0
    /\ pc[t] \in {"create", "lex_first", "lex_whole"} => work[t].shot = 1
    /\ pc[t] \in PendingPCs => work[t].shot \in 1..Shots[work[t].file]
    /\ pc[t] \in {"lex_whole", "finish_first", "lex_last", "finish_last"} =>
         Shots[work[t].file] > 0 /\ work[t].shot = Shots[work[t].file]

\* Nothing past the n-th buffer of e has been searched, or is about to be.
Beyond(e, n) ==
  /\ \A k \in 1..Shots[e] : k > n => lexed[<<e, k>>] = 0
  /\ \A u \in Pending : work[u].file = e => work[u].shot <= n

NotBeyond ==
  /\ \A e \in Entries \ Handed : Beyond(e, 0)
  /\ \A t \in Holders : Beyond(Held(t), Given(t))
  /\ \A i \in 1..Len(queue) : Beyond(queue[i].file, queue[i].shot)

\* A buffer is searched by one thread, once.
PendingOnce ==
  /\ main # "aborted" => \A t \in Pending : lexed[<<work[t].file, work[t].shot>>] = 0
  /\ \A t, u \in Pending : work[t].file = work[u].file /\ work[t].shot = work[u].shot => t = u

\* Only wanted files get past the filter.
OnlyWanted ==
  /\ \A t \in Holders : pc[t] # "inspect" => Held(t) \in Wanted
  /\ \A t \in Pending : work[t].file \in Wanted
  /\ \A i \in 1..Len(queue) : queue[i].file \in Wanted

\* The first n buffers of e have been searched, or are about to be.
Covered(e, n) ==
  \A k \in 1..Shots[e] : k <= n =>
     lexed[<<e, k>>] = 1 \/ \E u \in Pending : work[u].file = e /\ work[u].shot = k

\* Unless a thread has failed, every wanted file that was handed out is somewhere or
\* all of it is covered.
NothingLost ==
  \/ \E t \in Threads : pc[t] \in Failed
  \/ main = "aborted"
  \/ /\ \A t \in Holders : Covered(Held(t), Given(t))
     /\ \A i \in 1..Len(queue) : Covered(queue[i].file, queue[i].shot)
     /\ \A e \in Handed \cap Wanted :
          \/ \E t \in Holders : Held(t) = e
          \/ \E i \in 1..Len(queue) : queue[i].file = e
          \/ Shots[e] > 0 /\ Covered(e, Shots[e])

\* The last thread to leave has found the queue empty.
EmptyAtEnd == (\A t \in Threads : pc[t] = "done") => queue = <<>>

\* What the caller is about to report.
ReportRight ==
  /\ main \in {"closing", "returned"} /\ ret = 0 => \A t \in Threads : pc[t] = "done"
  /\ main = "opening" => ret = 0

SafeInv ==
  /\ OneBatch /\ SlotsBehind /\ Apart /\ AllHanded /\ ShotsRight /\ NotBeyond
  /\ PendingOnce /\ OnlyWanted /\ LexedAtMostOnce

ScanInv == SafeInv /\ NothingLost /\ EmptyAtEnd /\ ReportRight

-----------------------------------------------------------------------------
(* What a step of a thread does to the files that are under way: one of     *)
(* eight moves.  Nothing but the thread's own place, work and dirent        *)
(* changes, and the queue, the directory or the history as the move says.   *)

Others(t) ==
  \A u \in Threads \ {t} : pc'[u] = pc[u] /\ pdent'[u] = pdent[u] /\ work'[u] = work[u]

\* The thread has no file any more, or had none.
Drop(t) ==
  /\ Others(t) /\ t \notin Holders' /\ t \notin Pending'
  /\ UNCHANGED <<dirpos, queue, lexed>>
  /\ \/ pc'[t] \in Failed
     \/ t \notin Holders /\ t \notin Pending
     \/ t \in Holders /\ t \notin Pending /\ Held(t) \notin Wanted
     \/ /\ t \in Holders /\ t \notin Pending
        /\ Shots[Held(t)] > 0 /\ Given(t) = Shots[Held(t)]

\* The file passes the filter, or is opened.
Stay(t) ==
  /\ Others(t) /\ t \in Holders /\ t \in Holders' /\ t \notin Pending /\ t \notin Pending'
  /\ Held(t)' = Held(t) /\ Given(t)' = Given(t) /\ Held(t) \in Wanted
  /\ UNCHANGED <<dirpos, queue, lexed>>

\* readdir hands out the next entry.
Receive(t) ==
  /\ Others(t) /\ t \notin Holders /\ t \notin Pending /\ t \in Holders' /\ t \notin Pending'
  /\ pc'[t] = "inspect" /\ dirpos < Len(Dir) /\ dirpos' = dirpos + 1 /\ pdent'[t] = dirpos
  /\ UNCHANGED <<queue, lexed>>

\* The stream gives one more buffer.
Fill(t) ==
  /\ Others(t) /\ t \in Holders /\ t \in Holders' /\ t \notin Pending /\ t \in Pending'
  /\ pc[t] \notin SlotPCs /\ pc'[t] \notin SlotPCs
  /\ work'[t].file = work[t].file /\ work'[t].shot = work[t].shot + 1
  /\ work[t].shot < Shots[work[t].file]
  /\ UNCHANGED <<dirpos, queue, lexed>>

\* The stream is posted on the queue.
Hand(t) ==
  /\ Others(t) /\ t \in Holders /\ t \notin Holders' /\ t \in Pending /\ t \in Pending'
  /\ pc[t] \notin SlotPCs /\ work'[t] = work[t] /\ queue' = <<work[t]>> \o queue
  /\ UNCHANGED <<dirpos, lexed>>

\* The buffer is searched.
Search(t) ==
  /\ Others(t) /\ t \in Pending /\ t \notin Pending' /\ (t \in Holders' <=> t \in Holders)
  /\ pc[t] \notin SlotPCs /\ pc'[t] \notin SlotPCs
  /\ work'[t] = work[t] /\ Lexes(<<work[t].file, work[t].shot>>)
  /\ UNCHANGED <<dirpos, queue>>

\* A stream is taken from the queue.
Grab(t) ==
  /\ Others(t) /\ t \notin Holders /\ t \in Holders' /\ t \notin Pending /\ t \notin Pending'
  /\ pc'[t] \notin SlotPCs /\ queue # <<>> /\ work'[t] = Head(queue) /\ queue' = Tail(queue)
  /\ UNCHANGED <<dirpos, lexed>>

\* The assertion fails while a buffer is searched.
Crash(t) ==
  /\ t \in Pending /\ Lexes(<<work[t].file, work[t].shot>>) /\ main' = "aborted"
  /\ UNCHANGED <<dirpos, queue, pc, pdent, work>>

Moves(t) ==
  \/ /\ main' = "joining"
     /\ Drop(t) \/ Stay(t) \/ Receive(t) \/ Fill(t) \/ Hand(t) \/ Search(t) \/ Grab(t)
  \/ Crash(t)

\* Under OneFill a dirent is what was handed out, whenever it is read.
LEMMA DirentStays ==
  ASSUME OneFill, TypeOK, OneBatch, SlotsBehind, NEW t \in Threads, pc[t] \in SlotPCs
  PROVE  EntryOf(t) = Dir[pdent[t] + 1] /\ pdent[t] \in Nat /\ pdent[t] < Len(Dir)
<1>1. DirTypeOK /\ pdent[t] \in Nat /\ pdent[t] < dirpos
  BY DEF TypeOK, SlotsBehind
<1> QED BY <1>1, EntryStays DEF EntryOf

\* What a thread keeps: the place, the work and the dirent of all the others.
LEMMA OthersKeep ==
  ASSUME TypeOK, SlotsBehind, ShotsRight, NEW t \in Threads, Others(t),
         UNCHANGED dirpos,
         pc'[t] \in SlotPCs => pdent'[t] < dirpos,
         pc'[t] = "oneshot" => work'[t].shot = 0,
         pc'[t] \in {"create", "lex_first", "lex_whole"} => work'[t].shot = 1,
         pc'[t] \in PendingPCs => work'[t].shot \in 1..Shots[work'[t].file],
         pc'[t] \in {"lex_whole", "finish_first", "lex_last", "finish_last"} =>
           Shots[work'[t].file] > 0 /\ work'[t].shot = Shots[work'[t].file]
  PROVE  SlotsBehind' /\ ShotsRight'
<1>1. SlotsBehind'
  BY DEF SlotsBehind, Others
<1>2. ShotsRight'
  BY DEF ShotsRight, Others
<1> QED BY <1>1, <1>2

\* A thread that goes on without touching its work or its dirent.
LEMMA PlainMove ==
  ASSUME TypeOK, NEW t \in Threads, NEW l, Goto(t, l), UNCHANGED <<pdent, work>>
  PROVE  Others(t) /\ pc'[t] = l
  BY DEF TypeOK, Goto, Others

LEMMA StepMoves ==
  ASSUME OneFill, TypeOK, OneBatch, SlotsBehind, ShotsRight, OnlyWanted,
         NEW t \in Threads, ThreadStep(t)
  PROVE  /\ main = "joining" /\ pc[t] \notin Failed
         /\ Moves(t)
         /\ OneBatch' /\ SlotsBehind' /\ ShotsRight'
<1> USE DEF At, Failed, Holders, Pending, HolderPCs, OwnerPCs, SlotPCs, PendingPCs, mainvars,
            threadvars, dirvars
<1>1. CASE InfbufFails(t) \/ Arrive(t) \/ ReaddirEnds(t) \/ Rearm(t) \/ Leave(t)
  <2>1. /\ main = "joining" /\ main' = "joining" /\ UNCHANGED <<dirvars, pdent, work, queue, lexed>>
        /\ pc[t] \in {"start", "readdir", "rearm", "leave", "leave_err"}
        /\ \E l \in {"failed", "readdir", "leave", "leave_err", "check"} : Goto(t, l)
    BY <1>1 DEF InfbufFails, Arrive, ReaddirEnds, Rearm, Leave
  <2>2. Others(t) /\ pc'[t] \in {"failed", "readdir", "leave", "leave_err", "check"}
    BY <2>1, PlainMove
  <2>3. Drop(t) /\ OneBatch'
    BY <2>1, <2>2 DEF Drop, OneBatch
  <2> QED BY <2>1, <2>2, <2>3, OthersKeep DEF Moves
<1>2. CASE CheckHoldup(t) \/ Idle(t)
  <2>1. /\ main = "joining" /\ main' = "joining" /\ UNCHANGED <<dirvars, pdent, work, queue, lexed>>
        /\ pc[t] \in {"check", "drain"}
        /\ \E l \in {"drain", "check", "done"} : Goto(t, l)
    BY <1>2 DEF CheckHoldup, Idle
  <2>2. Others(t) /\ pc'[t] \in {"drain", "check", "done"}
    BY <2>1, PlainMove
  <2>3. Drop(t) /\ OneBatch'
    BY <2>1, <2>2 DEF Drop, OneBatch
  <2> QED BY <2>1, <2>2, <2>3, OthersKeep DEF Moves
<1>3. CASE Readdir(t)
  <2>1. /\ main = "joining" /\ main' = "joining" /\ Advance /\ pdent' = [pdent EXCEPT ![t] = NextSlot]
        /\ UNCHANGED <<work, queue, lexed>> /\ pc[t] = "readdir" /\ Goto(t, "inspect")
    BY <1>3 DEF Readdir
  <2>2. OneBatch' /\ NextSlot = dirpos /\ dirpos < Len(Dir) /\ dirpos' = dirpos + 1
    BY <2>1, BatchStep DEF TypeOK
  <2>3. Others(t) /\ pc'[t] = "inspect" /\ pdent'[t] = dirpos
    BY <2>1, <2>2 DEF TypeOK, Goto, Others
  <2>4. Receive(t)
    BY <2>1, <2>2, <2>3 DEF Receive
  <2>5. SlotsBehind'
    BY <2>2, <2>3 DEF SlotsBehind, Others, TypeOK, DirTypeOK
  <2>6. ShotsRight'
    BY <2>3 DEF ShotsRight, Others
  <2> QED BY <2>1, <2>2, <2>4, <2>5, <2>6 DEF Moves
<1>4. CASE Filter(t)
  <2>1. /\ main = "joining" /\ main' = "joining" /\ UNCHANGED <<dirvars, pdent, work, queue, lexed>>
        /\ pc[t] = "inspect" /\ Goto(t, IF Held(t) \in Wanted THEN "open" ELSE "readdir")
    BY <1>4, DirentStays DEF Filter, Held
  <2>2. Others(t) /\ pc'[t] = IF Held(t) \in Wanted THEN "open" ELSE "readdir"
    BY <2>1, PlainMove
  <2>3. CASE Held(t) \in Wanted
    <3>1. Stay(t)
      BY <2>1, <2>2, <2>3 DEF Stay, Held, Given
    <3> QED BY <2>1, <2>2, <2>3, <3>1, OthersKeep DEF Moves, OneBatch, SlotsBehind
  <2>4. CASE Held(t) \notin Wanted
    <3>1. Drop(t)
      BY <2>1, <2>2, <2>4 DEF Drop
    <3> QED BY <2>1, <2>2, <2>4, <3>1, OthersKeep DEF Moves, OneBatch
  <2> QED BY <2>3, <2>4
<1>5. CASE MapitFails(t) \/ InflateFails(t) \/ CreateFails(t) \/ FinishFirstFails(t)
  <2>1. /\ main = "joining" /\ main' = "joining" /\ UNCHANGED <<dirvars, pdent, work, queue, lexed>>
        /\ pc[t] \in {"open", "oneshot", "nextshot", "create", "finish_first"}
        /\ Goto(t, "failed_holding")
    BY <1>5 DEF MapitFails, InflateFails, CreateFails, FinishFirstFails, Abandon
  <2>2. Others(t) /\ pc'[t] = "failed_holding"
    BY <2>1, PlainMove
  <2>3. Drop(t) /\ OneBatch'
    BY <2>1, <2>2 DEF Drop, OneBatch
  <2> QED BY <2>1, <2>2, <2>3, OthersKeep DEF Moves
<1>6. CASE Mapit(t)
  <2>1. /\ main = "joining" /\ main' = "joining" /\ UNCHANGED <<dirvars, pdent, queue, lexed>>
        /\ pc[t] = "open" /\ Goto(t, "oneshot")
        /\ work' = [work EXCEPT ![t] = [file |-> Dir[pdent[t] + 1], shot |-> 0]]
    BY <1>6, DirentStays DEF Mapit
  <2>2. Others(t) /\ pc'[t] = "oneshot" /\ work'[t] = [file |-> Dir[pdent[t] + 1], shot |-> 0]
    BY <2>1 DEF TypeOK, Goto, Others
  <2>3. Held(t) \in Wanted
    BY <2>1 DEF OnlyWanted
  <2>4. Stay(t)
    BY <2>1, <2>2, <2>3 DEF Stay, Held, Given
  <2> QED BY <2>1, <2>2, <2>4, OthersKeep DEF Moves, OneBatch
<1>7. CASE Oneshot(t) \/ Nextshot(t)
  <2>1. /\ main = "joining" /\ main' = "joining" /\ UNCHANGED <<dirvars, pdent, queue, lexed>>
        /\ work[t].shot < Shots[work[t].file]
        /\ work' = [work EXCEPT ![t].shot = @ + 1]
        /\ work[t] \in Workmonad
    BY <1>7 DEF Oneshot, Nextshot, Inflate, TypeOK, BusyPCs
  <2>2. /\ \A u \in Threads \ {t} : work'[u] = work[u]
        /\ work'[t].file = work[t].file /\ work'[t].shot = work[t].shot + 1
    BY <2>1, OneMore DEF TypeOK
  <2>3. /\ pc[t] \in {"oneshot", "nextshot"} /\ Others(t)
        /\ pc'[t] = IF pc[t] = "oneshot" THEN IF Last(t)' THEN "lex_whole" ELSE "create"
                                         ELSE IF Last(t)' THEN "lex_last" ELSE "enqueue"
    BY <1>7, <2>1, <2>2 DEF Oneshot, Nextshot, Inflate, TypeOK, Goto, Others
  <2>4. Fill(t)
    BY <2>1, <2>2, <2>3 DEF Fill
  <2>5. work[t].shot \in Nat /\ Shots[work[t].file] \in Nat /\ (pc[t] = "oneshot" => work[t].shot = 0)
    BY <2>1, ContentsAssumption DEF Workmonad, ShotsRight
  <2>6. work'[t].shot \in 1..Shots[work'[t].file]
    BY <2>1, <2>2, <2>5
  <2>7. pc'[t] \in {"lex_whole", "lex_last"} => work'[t].shot = Shots[work'[t].file]
    BY <2>3 DEF Last
  <2> QED BY <2>1, <2>2, <2>3, <2>4, <2>5, <2>6, <2>7, OthersKeep DEF Moves, OneBatch
<1>8. CASE CreateWorkmonad(t) \/ EnqueueWorkmonad(t)
  <2>1. /\ main = "joining" /\ main' = "joining" /\ UNCHANGED <<dirvars, pdent, work, lexed>>
        /\ queue' = <<work[t]>> \o queue
        /\ \/ pc[t] = "create" /\ Goto(t, "lex_first")
           \/ pc[t] = "enqueue" /\ Goto(t, "lex_next")
    BY <1>8 DEF CreateWorkmonad, EnqueueWorkmonad, Post
  <2>2. /\ Others(t)
        /\ \/ pc[t] = "create" /\ pc'[t] = "lex_first"
           \/ pc[t] = "enqueue" /\ pc'[t] = "lex_next"
    BY <2>1, PlainMove
  <2>3. Hand(t)
    BY <2>1, <2>2 DEF Hand
  <2>4. work[t].shot \in 1..Shots[work[t].file] /\ (pc[t] = "create" => work[t].shot = 1)
    BY <2>2 DEF ShotsRight
  <2> QED BY <2>1, <2>2, <2>3, <2>4, OthersKeep DEF Moves, OneBatch
<1>9. CASE LexFirst(t) \/ LexNext(t)
  <2>1. /\ main = "joining" /\ main' = "joining" /\ UNCHANGED <<dirvars, pdent, work, queue>>
        /\ \/ pc[t] = "lex_first" /\ Goto(t, "rearm")
           \/ pc[t] = "lex_whole" /\ Goto(t, "finish_first")
           \/ pc[t] = "lex_next" /\ Goto(t, "drain")
           \/ pc[t] = "lex_last" /\ Goto(t, "finish_last")
        /\ pc[t] \in {"lex_first", "lex_whole"} => Lexes(<<work[t].file, 1>>)
        /\ pc[t] \in {"lex_next", "lex_last"} => Lexes(<<work[t].file, work[t].shot>>)
    BY <1>9 DEF LexFirst, LexNext
  <2>2. /\ Others(t) /\ work'[t] = work[t]
        /\ \/ pc[t] = "lex_first" /\ pc'[t] = "rearm"
           \/ pc[t] = "lex_whole" /\ pc'[t] = "finish_first"
           \/ pc[t] = "lex_next" /\ pc'[t] = "drain"
           \/ pc[t] = "lex_last" /\ pc'[t] = "finish_last"
    BY <2>1, PlainMove
  <2>3. Lexes(<<work[t].file, work[t].shot>>)
    BY <2>1, <2>2 DEF ShotsRight
  <2>4. Search(t)
    BY <2>1, <2>2, <2>3 DEF Search
  <2>5. pc[t] \in {"lex_whole", "lex_last"} =>
          Shots[work[t].file] > 0 /\ work[t].shot = Shots[work[t].file]
    BY DEF ShotsRight
  <2> QED BY <2>1, <2>2, <2>4, <2>5, OthersKeep DEF Moves, OneBatch
<1>10. CASE HeaderAssert(t)
  <2>1. Crash(t) /\ main = "joining" /\ pc[t] \in {"lex_first", "lex_whole"} /\ UNCHANGED dirvars
    BY <1>10 DEF HeaderAssert, Crash, ShotsRight
  <2> QED BY <2>1 DEF Moves, Crash, OneBatch, SlotsBehind, ShotsRight
<1>11. CASE FinishFirst(t) \/ FinishLast(t)
  <2>1. /\ main = "joining" /\ main' = "joining" /\ UNCHANGED <<dirvars, pdent, work, queue, lexed>>
        /\ pc[t] \in {"finish_first", "finish_last"}
        /\ \E l \in {"rearm", "drain", "failed"} : Goto(t, l)
    BY <1>11 DEF FinishFirst, FinishLast
  <2>2. Others(t) /\ pc'[t] \in {"rearm", "drain", "failed"}
    BY <2>1, PlainMove
  <2>3. Drop(t) /\ OneBatch'
    BY <2>1, <2>2 DEF Drop, OneBatch, Held, Given, ShotsRight
  <2> QED BY <2>1, <2>2, <2>3, OthersKeep DEF Moves
<1>12. CASE Take(t)
  <2>1. /\ main = "joining" /\ main' = "joining" /\ UNCHANGED <<dirvars, pdent, lexed>>
        /\ work' = [work EXCEPT ![t] = Head(queue)] /\ queue # <<>> /\ queue' = Tail(queue)
        /\ pc[t] = "drain" /\ Goto(t, "nextshot")
    BY <1>12 DEF Take
  <2>2. Others(t) /\ pc'[t] = "nextshot" /\ work'[t] = Head(queue)
    BY <2>1 DEF TypeOK, Goto, Others
  <2>3. Grab(t)
    BY <2>1, <2>2 DEF Grab
  <2> QED BY <2>1, <2>2, <2>3, OthersKeep DEF Moves, OneBatch
<1> QED
  BY <1>1, <1>2, <1>3, <1>4, <1>5, <1>6, <1>7, <1>8, <1>9, <1>10, <1>11, <1>12 DEF ThreadStep

-----------------------------------------------------------------------------
(* What a move leaves as it was, and what the moves do to the queue and to  *)
(* the history.                                                             *)

LEMMA OthersSame ==
  ASSUME NEW t \in Threads, Others(t), NEW u \in Threads \ {t}
  PROVE  /\ u \in Holders' <=> u \in Holders
         /\ u \in Pending' <=> u \in Pending
         /\ Held(u)' = Held(u) /\ Given(u)' = Given(u)
         /\ work'[u] = work[u] /\ pc'[u] = pc[u]
  BY DEF Others, Holders, Pending, Held, Given

LEMMA PushFacts ==
  ASSUME queue \in Seq(Workmonad), NEW w \in Workmonad, queue' = <<w>> \o queue
  PROVE  /\ Len(queue) \in Nat /\ Len(queue') = Len(queue) + 1
         /\ \A i \in 1..Len(queue') : \/ i = 1 /\ queue'[i] = w
                                      \/ i - 1 \in 1..Len(queue) /\ queue'[i] = queue[i - 1]
         /\ queue'[1] = w /\ 1 \in 1..Len(queue')
         /\ \A i \in 1..Len(queue) : i + 1 \in 1..Len(queue') /\ queue'[i + 1] = queue[i]
  OBVIOUS

LEMMA PopFacts ==
  ASSUME queue \in Seq(Workmonad), queue # <<>>, queue' = Tail(queue)
  PROVE  /\ Len(queue) \in Nat /\ Len(queue') = Len(queue) - 1
         /\ 1 \in 1..Len(queue) /\ Head(queue) = queue[1] /\ queue[1] \in Workmonad
         /\ \A i \in 1..Len(queue') : i + 1 \in 1..Len(queue) /\ queue'[i] = queue[i + 1]
         /\ \A i \in 1..Len(queue) : i = 1 \/ (i - 1 \in 1..Len(queue') /\ queue'[i - 1] = queue[i])
<1>1. Len(queue) \in Nat /\ Len(queue) > 0 /\ Head(queue) = queue[1]
      /\ \A i \in 1..Len(queue) : queue[i] \in Workmonad
  OBVIOUS
<1>2. Len(queue') = Len(queue) - 1
  OBVIOUS
<1>3. \A i \in 1..Len(queue') : queue'[i] = queue[i + 1]
  OBVIOUS
<1>4. \A i \in 1..Len(queue') : i + 1 \in 1..Len(queue)
  BY <1>1, <1>2
<1>5. ASSUME NEW i \in 1..Len(queue), i # 1
      PROVE  i - 1 \in 1..Len(queue') /\ queue'[i - 1] = queue[i]
  <2>1. i - 1 \in 1..Len(queue') /\ (i - 1) + 1 = i
    BY <1>1, <1>2, <1>5
  <2>2. queue'[i - 1] = queue[(i - 1) + 1]
    BY <1>3, <2>1
  <2> QED BY <2>1, <2>2
<1> QED BY <1>1, <1>2, <1>3, <1>4, <1>5

LEMMA ChunkIn ==
  /\ \A e \in Entries : Shots[e] \in Nat /\ \A k \in 1..Shots[e] : <<e, k>> \in Chunks
  /\ \A c \in Chunks : \E e \in Entries : \E k \in 1..Shots[e] : c = <<e, k>>
  BY ContentsAssumption DEF Chunks

LEMMA SearchFacts ==
  ASSUME lexed \in [Chunks -> Nat], NEW e \in Entries, NEW n \in 1..Shots[e], Lexes(<<e, n>>)
  PROVE  /\ lexed'[<<e, n>>] = lexed[<<e, n>>] + 1 /\ lexed[<<e, n>>] \in Nat
         /\ \A c \in Chunks : c # <<e, n>> => lexed'[c] = lexed[c]
         /\ \A f \in Entries : \A k \in 1..Shots[f] :
              f # e \/ k # n => lexed'[<<f, k>>] = lexed[<<f, k>>]
<1>1. <<e, n>> \in Chunks
  BY ChunkIn
<1>2. lexed'[<<e, n>>] = lexed[<<e, n>>] + 1 /\ \A c \in Chunks : c # <<e, n>> => lexed'[c] = lexed[c]
  BY <1>1 DEF Lexes
<1> QED BY <1>1, <1>2, ChunkIn

\* A file in somebody's hands is an entry of the directory.
LEMMA FilesAreEntries ==
  ASSUME TypeOK, SlotsBehind
  PROVE  /\ \A t \in Holders : Held(t) \in Entries /\ Given(t) \in Nat
         /\ \A t \in Holders \cup Pending : pc[t] \notin SlotPCs => work[t] \in Workmonad
         /\ \A t \in Pending : pc[t] \notin SlotPCs /\ work[t] \in Workmonad
         /\ \A i \in 1..Len(queue) : queue[i].file \in Entries /\ queue[i].shot \in Nat
         /\ Handed \subseteq Entries
         /\ dirpos \in Nat
<1>1. \A t \in Threads : pc[t] \in BusyPCs => work[t] \in Workmonad
  BY DEF TypeOK
<1>2. dirpos \in Nat /\ dirpos <= Len(Dir) /\ Len(Dir) \in Nat
  BY DirAssumption DEF TypeOK, DirTypeOK
<1>3. \A t \in Threads : pc[t] \in SlotPCs => pdent[t] \in Nat /\ pdent[t] < dirpos
  BY DirAssumption DEF TypeOK, SlotsBehind
<1>4. \A i \in 1..Len(queue) : queue[i] \in Workmonad
  BY DEF TypeOK
<1>5. \A t \in Holders \cup Pending : pc[t] \notin SlotPCs => work[t] \in Workmonad
  BY <1>1 DEF Holders, Pending, HolderPCs, PendingPCs, BusyPCs, OwnerPCs
<1>6. \A t \in Pending : pc[t] \notin SlotPCs
  BY DEF Pending, PendingPCs, SlotPCs
<1>7. \A t \in Holders : Held(t) \in Entries /\ Given(t) \in Nat
  BY <1>2, <1>3, <1>5 DEF Held, Given, Holders, Entries, Workmonad
<1> QED BY <1>2, <1>4, <1>5, <1>6, <1>7 DEF Entries, Workmonad, Handed

\* readdir hands out what nobody has had.
LEMMA ReceiveFacts ==
  ASSUME TypeOK, NEW t \in Threads, Receive(t)
  PROVE  /\ Dir[dirpos + 1] \in Entries /\ Dir[dirpos + 1] \notin Handed
         /\ Handed' = Handed \cup {Dir[dirpos + 1]}
         /\ Held(t)' = Dir[dirpos + 1] /\ Given(t)' = 0
<1>1. DirTypeOK /\ dirpos < Len(Dir) /\ dirpos' = dirpos + 1
  BY DEF TypeOK, Receive
<1>2. Held(t)' = Dir[dirpos + 1] /\ Given(t)' = 0
  BY DEF Receive, Held, Given, SlotPCs
<1> QED BY <1>1, <1>2, FreshEntry

-----------------------------------------------------------------------------
(* Nobody else's file, stream or buffer: the moves keep these invariants.   *)

\* A file is in one place, and was handed out.
LEMMA ApartStep ==
  ASSUME TypeOK, SlotsBehind, Apart, AllHanded, NEW t \in Threads, Moves(t)
  PROVE  Apart' /\ AllHanded'
<1> USE DEF Apart, AllHanded
<1>1. CASE Crash(t)
  BY <1>1 DEF Crash, Holders, Pending, Held, Handed
<1>2. CASE Drop(t)
  <2>1. Others(t) /\ UNCHANGED <<queue, Handed>> /\ t \notin Holders' /\ t \notin Pending'
    BY <1>2 DEF Drop, Handed
  <2>2. Holders' \subseteq Threads \ {t} /\ Pending' \subseteq Threads \ {t}
    BY <2>1 DEF Holders, Pending
  <2> QED BY <2>1, <2>2, OthersSame
<1>3. CASE Stay(t) \/ Fill(t) \/ Search(t)
  <2>1. /\ Others(t) /\ UNCHANGED <<queue, Handed>>
        /\ t \in Holders' => t \in Holders /\ Held(t)' = Held(t)
        /\ t \in Pending' => t \in Holders' /\ work'[t].file = Held(t)
    BY <1>3 DEF Stay, Fill, Search, Handed, Held
  <2>2. Holders' \subseteq Threads /\ Pending' \subseteq Threads
    BY DEF Holders, Pending
  <2> QED BY <2>1, <2>2, OthersSame
<1>4. CASE Receive(t)
  <2>1. /\ Others(t) /\ UNCHANGED queue /\ t \notin Pending'
        /\ Handed' = Handed \cup {Held(t)'} /\ Held(t)' \notin Handed
    BY <1>4, ReceiveFacts DEF Receive
  <2>2. Holders' \subseteq Threads /\ Pending' \subseteq Threads
    BY DEF Holders, Pending
  <2> QED BY <2>1, <2>2, OthersSame
<1>5. CASE Hand(t)
  <2>1. /\ Others(t) /\ UNCHANGED Handed /\ t \notin Holders' /\ t \in Holders /\ t \in Pending
        /\ work'[t] = work[t] /\ Held(t) = work[t].file
        /\ work[t] \in Workmonad /\ queue' = <<work[t]>> \o queue
    BY <1>5, FilesAreEntries DEF Hand, Held, Handed
  <2>2. Holders' \subseteq Threads \ {t} /\ Pending' \subseteq Threads
    BY <2>1 DEF Holders, Pending
  <2>3. queue \in Seq(Workmonad)
    BY DEF TypeOK
  <2>4. /\ \A i \in 1..Len(queue') : \/ i = 1 /\ queue'[i] = work[t]
                                     \/ i - 1 \in 1..Len(queue) /\ queue'[i] = queue[i - 1]
        /\ Len(queue') \in Nat
    BY <2>1, <2>3, PushFacts
  <2>5. \A i \in 1..Len(queue') : queue'[i].file = Held(t) => i = 1
    BY <2>1, <2>4
  <2>6. ASSUME NEW i \in 1..Len(queue'), NEW j \in 1..Len(queue'),
               queue'[i].file = queue'[j].file
        PROVE  i = j
    <3>1. CASE i = 1 \/ j = 1
      BY <2>1, <2>4, <2>5, <2>6, <3>1
    <3>2. CASE i # 1 /\ j # 1
      <4>1. /\ i - 1 \in 1..Len(queue) /\ queue'[i] = queue[i - 1]
            /\ j - 1 \in 1..Len(queue) /\ queue'[j] = queue[j - 1]
        BY <2>4, <3>2
      <4>2. i - 1 = j - 1
        BY <2>6, <4>1
      <4>3. i \in Int /\ j \in Int
        BY <2>4
      <4> QED BY <4>2, <4>3
    <3> QED BY <3>1, <3>2
  <2>7. \A u \in Holders', i \in 1..Len(queue') : Held(u)' # queue'[i].file
    BY <2>1, <2>2, <2>4, OthersSame
  <2>8. Apart'
    BY <2>1, <2>2, <2>6, <2>7, OthersSame
  <2>9. AllHanded'
    BY <2>1, <2>2, <2>4, OthersSame
  <2> QED BY <2>8, <2>9
<1>6. CASE Grab(t)
  <2>1. /\ Others(t) /\ UNCHANGED Handed /\ t \notin Pending'
        /\ queue # <<>> /\ queue' = Tail(queue) /\ Held(t)' = Head(queue).file
    BY <1>6 DEF Grab, Held, Handed
  <2>2. Holders' \subseteq Threads /\ Pending' \subseteq Threads \ {t}
    BY <2>1 DEF Holders, Pending
  <2>3. queue \in Seq(Workmonad)
    BY DEF TypeOK
  <2>4. /\ 1 \in 1..Len(queue) /\ Head(queue) = queue[1]
        /\ \A i \in 1..Len(queue') : i + 1 \in 1..Len(queue) /\ queue'[i] = queue[i + 1]
    BY <2>1, <2>3, PopFacts
  <2> QED BY <2>1, <2>2, <2>4, OthersSame
<1> QED BY <1>1, <1>2, <1>3, <1>4, <1>5, <1>6 DEF Moves

\* Whatever is past the filter is wanted.
LEMMA WantedStep ==
  ASSUME TypeOK, SlotsBehind, OnlyWanted, NEW t \in Threads, Moves(t)
  PROVE  OnlyWanted'
<1> USE DEF OnlyWanted
<1>0. Holders' \subseteq Threads /\ Pending' \subseteq Threads /\ queue \in Seq(Workmonad)
  BY DEF Holders, Pending, TypeOK
<1>1. CASE Crash(t)
  BY <1>1 DEF Crash, Holders, Pending, Held
<1>2. CASE Drop(t) \/ Receive(t)
  <2>1. /\ Others(t) /\ UNCHANGED queue /\ t \notin Pending'
        /\ t \in Holders' => pc'[t] = "inspect"
    BY <1>2 DEF Drop, Receive
  <2> QED BY <1>0, <2>1, OthersSame
<1>3. CASE Stay(t)
  BY <1>0, <1>3, OthersSame DEF Stay
<1>4. CASE Fill(t) \/ Search(t)
  <2>1. /\ Others(t) /\ UNCHANGED queue
        /\ t \in Holders' => t \in Holders /\ Held(t)' = Held(t) /\ pc[t] # "inspect"
        /\ t \in Pending' => t \in Holders /\ work'[t].file = Held(t) /\ pc[t] # "inspect"
    BY <1>4 DEF Fill, Search, Held, SlotPCs
  <2> QED BY <1>0, <2>1, OthersSame
<1>5. CASE Hand(t)
  <2>1. /\ Others(t) /\ t \in Pending /\ t \notin Holders' /\ work'[t] = work[t]
        /\ work[t] \in Workmonad /\ queue' = <<work[t]>> \o queue
    BY <1>5, FilesAreEntries DEF Hand
  <2>2. \A i \in 1..Len(queue') : \/ i = 1 /\ queue'[i] = work[t]
                                  \/ i - 1 \in 1..Len(queue) /\ queue'[i] = queue[i - 1]
    BY <1>0, <2>1, PushFacts
  <2> QED BY <1>0, <2>1, <2>2, OthersSame
<1>6. CASE Grab(t)
  <2>1. /\ Others(t) /\ t \notin Pending'
        /\ queue # <<>> /\ queue' = Tail(queue) /\ Held(t)' = Head(queue).file
    BY <1>6 DEF Grab, Held
  <2>2. /\ 1 \in 1..Len(queue) /\ Head(queue) = queue[1]
        /\ \A i \in 1..Len(queue') : i + 1 \in 1..Len(queue) /\ queue'[i] = queue[i + 1]
    BY <1>0, <2>1, PopFacts
  <2> QED BY <1>0, <2>1, <2>2, OthersSame
<1> QED BY <1>1, <1>2, <1>3, <1>4, <1>5, <1>6 DEF Moves

\* A thread's buffer is one of its file's.
LEMMA PendingChunk ==
  ASSUME TypeOK, SlotsBehind, ShotsRight, NEW t \in Pending
  PROVE  /\ work[t].file \in Entries /\ work[t].shot \in 1..Shots[work[t].file]
         /\ Shots[work[t].file] \in Nat /\ work[t].shot \in Nat
         /\ <<work[t].file, work[t].shot>> \in Chunks
<1>1. work[t].file \in Entries /\ work[t].shot \in Nat
  BY FilesAreEntries DEF Workmonad
<1>2. work[t].shot \in 1..Shots[work[t].file]
  BY DEF ShotsRight, Pending
<1> QED BY <1>1, <1>2, ChunkIn

\* What the history has after a buffer that some thread had is searched.
LEMMA SearchOne ==
  ASSUME TypeOK, SlotsBehind, ShotsRight, NEW t \in Pending,
         Lexes(<<work[t].file, work[t].shot>>)
  PROVE  /\ lexed'[<<work[t].file, work[t].shot>>] = lexed[<<work[t].file, work[t].shot>>] + 1
         /\ \A c \in Chunks : c # <<work[t].file, work[t].shot>> => lexed'[c] = lexed[c]
         /\ \A f \in Entries : \A k \in 1..Shots[f] :
              f # work[t].file \/ k # work[t].shot => lexed'[<<f, k>>] = lexed[<<f, k>>]
<1>1. lexed \in [Chunks -> Nat]
  BY DEF TypeOK
<1> QED BY <1>1, PendingChunk, SearchFacts

\* Nothing past the n-th buffer stays so while nobody fills a buffer of the file.
LEMMA BeyondKept ==
  ASSUME TypeOK, SlotsBehind, ShotsRight, NEW t \in Threads,
         NEW e \in Entries, NEW n \in Nat, Beyond(e, n),
         \/ UNCHANGED lexed
         \/ t \in Pending /\ Lexes(<<work[t].file, work[t].shot>>),
         \A u \in Pending' : \/ u \in Pending /\ work'[u] = work[u]
                             \/ work'[u].file # e
  PROVE  Beyond(e, n)'
<1> USE DEF Beyond
<1>1. \A k \in 1..Shots[e] : k > n => lexed'[<<e, k>>] = lexed[<<e, k>>]
  <2>1. CASE UNCHANGED lexed
    BY <2>1
  <2>2. CASE t \in Pending /\ Lexes(<<work[t].file, work[t].shot>>)
    <3>1. \A k \in 1..Shots[e] : k > n => e # work[t].file \/ k # work[t].shot
      BY <2>2, PendingChunk, ChunkIn
    <3> QED BY <2>2, <3>1, SearchOne
  <2> QED BY <2>1, <2>2
<1> QED BY <1>1

LEMMA BeyondStep ==
  ASSUME TypeOK, SlotsBehind, ShotsRight, Apart, AllHanded, NotBeyond,
         NEW t \in Threads, Moves(t)
  PROVE  NotBeyond'
<1>0. /\ Holders' \subseteq Threads /\ Pending' \subseteq Threads /\ queue \in Seq(Workmonad)
      /\ Handed \subseteq Entries
  BY FilesAreEntries DEF Holders, Pending, TypeOK
<1>1. CASE Crash(t) \/ Drop(t) \/ Stay(t) \/ Search(t)
  <2>1. \A u \in Pending' : u \in Pending /\ work'[u] = work[u]
    BY <1>0, <1>1, OthersSame DEF Crash, Drop, Stay, Search, Pending
  <2>2. \/ UNCHANGED lexed
        \/ t \in Pending /\ Lexes(<<work[t].file, work[t].shot>>)
    BY <1>1 DEF Crash, Drop, Stay, Search
  <2>3. \A e \in Entries, n \in Nat : Beyond(e, n) => Beyond(e, n)'
    BY <2>1, <2>2, BeyondKept
  <2>4. \A u \in Holders' : u \in Holders /\ Held(u)' = Held(u) /\ Given(u)' = Given(u)
    <3>1. CASE Crash(t)
      BY <3>1 DEF Crash, Holders, Held, Given
    <3>2. CASE Drop(t) \/ Stay(t)
      BY <1>0, <3>2, OthersSame DEF Drop, Stay
    <3>3. CASE Search(t)
      <4>1. t \in Holders' => t \in Holders /\ Held(t)' = Held(t) /\ Given(t)' = Given(t)
        BY <3>3 DEF Search, Held, Given
      <4> QED BY <1>0, <3>3, <4>1, OthersSame DEF Search
    <3> QED BY <1>1, <3>1, <3>2, <3>3
  <2>5. UNCHANGED <<queue, Handed>>
    BY <1>1 DEF Crash, Drop, Stay, Search, Handed
  <2> QED BY <2>3, <2>4, <2>5, FilesAreEntries DEF NotBeyond
<1>2. CASE Receive(t)
  <2>1. /\ Others(t) /\ UNCHANGED <<queue, lexed>> /\ t \notin Pending'
    BY <1>2 DEF Receive
  <2>2. \A u \in Pending' : u \in Pending /\ work'[u] = work[u]
    BY <1>0, <2>1, OthersSame
  <2>3. \A e \in Entries, n \in Nat : Beyond(e, n) => Beyond(e, n)'
    BY <2>1, <2>2, BeyondKept
  <2>4. /\ \A e \in Entries \ Handed' : Beyond(e, 0)'
        /\ Beyond(Held(t), Given(t))'
    BY <1>2, <2>3, ReceiveFacts DEF NotBeyond
  <2>5. \A u \in Holders' : u # t => Beyond(Held(u), Given(u))'
    BY <1>0, <2>1, <2>3, OthersSame, FilesAreEntries DEF NotBeyond
  <2> QED BY <2>1, <2>3, <2>4, <2>5, FilesAreEntries DEF NotBeyond
<1>3. CASE Fill(t)
  <2>1. /\ Others(t) /\ UNCHANGED <<queue, lexed, Handed>> /\ t \in Holders
        /\ work'[t].file = Held(t) /\ work'[t].shot = Given(t) + 1
        /\ Held(t)' = Held(t) /\ Given(t)' = Given(t) + 1
    BY <1>3 DEF Fill, Held, Given, Handed
  <2>2. \A u \in Pending' : u # t => u \in Pending /\ work'[u] = work[u]
    BY <1>0, <2>1, OthersSame
  <2>3. \A e \in Entries, n \in Nat : e # Held(t) /\ Beyond(e, n) => Beyond(e, n)'
    BY <2>1, <2>2, BeyondKept
  <2>4. \A e \in Entries \ Handed : Beyond(e, 0)'
    BY <2>1, <2>3 DEF NotBeyond, AllHanded
  <2>5. \A u \in Holders' : u # t => Beyond(Held(u), Given(u))'
    BY <1>0, <2>1, <2>3, OthersSame, FilesAreEntries DEF NotBeyond, Apart
  <2>6. \A i \in 1..Len(queue) : Beyond(queue[i].file, queue[i].shot)'
    BY <2>1, <2>3, FilesAreEntries DEF NotBeyond, Apart
  <2>7. Beyond(Held(t), Given(t))'
    <3>1. Given(t) \in Nat /\ Beyond(Held(t), Given(t)) /\ Held(t) \in Entries
      BY <2>1, FilesAreEntries DEF NotBeyond
    <3>2. \A k \in 1..Shots[Held(t)] : k > Given(t) + 1 => lexed[<<Held(t), k>>] = 0
      BY <3>1, ChunkIn DEF Beyond
    <3>3. \A u \in Pending : work[u].file = Held(t) => work[u].shot <= Given(t) + 1
      BY <3>1, FilesAreEntries DEF Beyond, Workmonad
    <3>4. \A u \in Pending' : work'[u].file = Held(t) => work'[u].shot <= Given(t) + 1
      BY <2>1, <2>2, <3>1, <3>3
    <3> QED BY <2>1, <3>2, <3>4 DEF Beyond
  <2> QED BY <2>1, <2>4, <2>5, <2>6, <2>7 DEF NotBeyond
<1>4. CASE Hand(t) \/ Grab(t)
  <2>1. /\ Others(t) /\ UNCHANGED <<lexed, Handed>>
        /\ t \in Pending' => t \in Pending /\ work'[t] = work[t]
    BY <1>4 DEF Hand, Grab, Handed
  <2>2. \A u \in Pending' : u \in Pending /\ work'[u] = work[u]
    BY <1>0, <2>1, OthersSame
  <2>3. \A e \in Entries, n \in Nat : Beyond(e, n) => Beyond(e, n)'
    BY <2>1, <2>2, BeyondKept
  <2>4. \A u \in Holders' : u # t => Beyond(Held(u), Given(u))'
    BY <1>0, <2>1, <2>3, OthersSame, FilesAreEntries DEF NotBeyond
  <2>5. CASE Hand(t)
    <3>1. /\ t \in Holders /\ t \notin Holders' /\ t \in Pending /\ work[t] \in Workmonad
          /\ Held(t) = work[t].file /\ Given(t) = work[t].shot /\ queue' = <<work[t]>> \o queue
      BY <2>5, FilesAreEntries DEF Hand, Held, Given
    <3>2. \A i \in 1..Len(queue') : \/ i = 1 /\ queue'[i] = work[t]
                                    \/ i - 1 \in 1..Len(queue) /\ queue'[i] = queue[i - 1]
      BY <1>0, <3>1, PushFacts
    <3>3. \A i \in 1..Len(queue') : Beyond(queue'[i].file, queue'[i].shot)
      BY <3>1, <3>2 DEF NotBeyond
    <3>4. \A i \in 1..Len(queue') : queue'[i].file \in Entries /\ queue'[i].shot \in Nat
      BY <3>1, <3>2, FilesAreEntries DEF Workmonad
    <3> QED BY <2>1, <2>3, <2>4, <3>1, <3>3, <3>4 DEF NotBeyond
  <2>6. CASE Grab(t)
    <3>1. /\ queue # <<>> /\ queue' = Tail(queue)
          /\ Held(t)' = Head(queue).file /\ Given(t)' = Head(queue).shot
      BY <2>6 DEF Grab, Held, Given
    <3>2. /\ 1 \in 1..Len(queue) /\ Head(queue) = queue[1]
          /\ \A i \in 1..Len(queue') : i + 1 \in 1..Len(queue) /\ queue'[i] = queue[i + 1]
      BY <1>0, <3>1, PopFacts
    <3>3. \A i \in 1..Len(queue') : Beyond(queue'[i].file, queue'[i].shot)
      BY <3>2 DEF NotBeyond
    <3>4. \A i \in 1..Len(queue') : queue'[i].file \in Entries /\ queue'[i].shot \in Nat
      BY <3>2, FilesAreEntries
    <3>5. Beyond(Held(t), Given(t))'
      BY <2>3, <3>1, <3>2, FilesAreEntries DEF NotBeyond
    <3> QED BY <2>1, <2>3, <2>4, <3>3, <3>4, <3>5 DEF NotBeyond
  <2> QED BY <1>4, <2>5, <2>6
<1> QED BY <1>1, <1>2, <1>3, <1>4 DEF Moves

\* A buffer that a thread has is new, it is the thread's alone, and it is searched once.
LEMMA OnceStep ==
  ASSUME TypeOK, SlotsBehind, ShotsRight, NotBeyond, PendingOnce, LexedAtMostOnce,
         NEW t \in Threads, main = "joining", Moves(t)
  PROVE  PendingOnce' /\ LexedAtMostOnce'
<1> USE DEF PendingOnce
<1>0. Pending' \subseteq Threads
  BY DEF Pending
<1>1. ASSUME t \in Pending, Lexes(<<work[t].file, work[t].shot>>)
      PROVE  LexedAtMostOnce'
  <2>1. /\ lexed'[<<work[t].file, work[t].shot>>] = 1
        /\ \A c \in Chunks : c # <<work[t].file, work[t].shot>> => lexed'[c] = lexed[c]
    BY <1>1, SearchOne
  <2> QED BY <2>1 DEF LexedAtMostOnce
<1>2. CASE Crash(t)
  <2>1. PendingOnce'
    BY <1>2 DEF Crash, Pending
  <2> QED BY <1>1, <1>2, <2>1 DEF Crash
<1>3. CASE Search(t)
  <2>1. \A u \in Pending' : u \in Pending /\ u # t /\ work'[u] = work[u]
    BY <1>0, <1>3, OthersSame DEF Search
  <2>2. ASSUME NEW u \in Pending'
        PROVE  lexed'[<<work'[u].file, work'[u].shot>>] = 0
    <3>1. u \in Pending /\ u # t /\ work'[u] = work[u] /\ t \in Pending
      BY <1>3, <2>1 DEF Search
    <3>2. work[u].file # work[t].file \/ work[u].shot # work[t].shot
      BY <3>1
    <3>3. lexed'[<<work[u].file, work[u].shot>>] = lexed[<<work[u].file, work[u].shot>>]
      BY <1>3, <3>1, <3>2, SearchOne, PendingChunk DEF Search
    <3> QED BY <3>1, <3>3
  <2>3. \A u, v \in Pending' : work'[u].file = work'[v].file /\ work'[u].shot = work'[v].shot => u = v
    BY <2>1
  <2>4. PendingOnce'
    BY <2>2, <2>3
  <2> QED BY <1>1, <1>3, <2>4 DEF Search
<1>4. CASE Drop(t) \/ Stay(t) \/ Receive(t) \/ Hand(t) \/ Grab(t)
  <2>1. /\ Others(t) /\ UNCHANGED lexed
        /\ t \in Pending' => t \in Pending /\ work'[t] = work[t]
    BY <1>4 DEF Drop, Stay, Receive, Hand, Grab
  <2>2. \A u \in Pending' : u \in Pending /\ work'[u] = work[u]
    BY <1>0, <2>1, OthersSame
  <2> QED BY <2>1, <2>2 DEF LexedAtMostOnce
<1>5. CASE Fill(t)
  <2>1. /\ Others(t) /\ UNCHANGED lexed /\ t \in Holders /\ Given(t) < Shots[Held(t)]
        /\ work'[t].file = Held(t) /\ work'[t].shot = Given(t) + 1
    BY <1>5 DEF Fill, Held, Given
  <2>2. \A u \in Pending' : u # t => u \in Pending /\ work'[u] = work[u]
    BY <1>0, <2>1, OthersSame
  <2>3. Given(t) \in Nat /\ Held(t) \in Entries /\ Shots[Held(t)] \in Nat
    BY <2>1, FilesAreEntries, ChunkIn
  <2>4. /\ lexed[<<Held(t), Given(t) + 1>>] = 0
        /\ \A u \in Pending : work[u].file = Held(t) => work[u].shot <= Given(t)
    BY <2>1, <2>3 DEF NotBeyond, Beyond
  <2>5. \A u \in Pending : work[u].shot \in Nat
    BY PendingChunk
  <2>6. \A u \in Pending : work[u].file = Held(t) => work[u].shot # Given(t) + 1
    BY <2>3, <2>4, <2>5
  <2>7. \A u \in Pending' : u # t => work'[u].file # work'[t].file \/ work'[u].shot # work'[t].shot
    BY <2>1, <2>2, <2>6
  <2>8. \A u, v \in Pending' : work'[u].file = work'[v].file /\ work'[u].shot = work'[v].shot => u = v
    BY <2>2, <2>7
  <2>9. \A u \in Pending' : lexed[<<work'[u].file, work'[u].shot>>] = 0
    BY <2>1, <2>2, <2>4
  <2> QED BY <2>1, <2>8, <2>9 DEF LexedAtMostOnce
<1> QED BY <1>2, <1>3, <1>4, <1>5 DEF Moves

-----------------------------------------------------------------------------
(* Nothing is lost, unless a thread says so by failing.                     *)

\* What is covered stays covered while no buffer is dropped unsearched.
LEMMA CoveredKept ==
  ASSUME TypeOK, SlotsBehind, ShotsRight, PendingOnce, main # "aborted",
         NEW t \in Threads, NEW e \in Entries, NEW n, Covered(e, n),
         \/ UNCHANGED lexed /\ \A u \in Pending : u \in Pending' /\ work'[u] = work[u]
         \/ /\ t \in Pending /\ Lexes(<<work[t].file, work[t].shot>>)
            /\ \A u \in Pending \ {t} : u \in Pending' /\ work'[u] = work[u]
  PROVE  Covered(e, n)'
<1> SUFFICES ASSUME NEW k \in 1..Shots[e], k <= n
             PROVE  \/ lexed'[<<e, k>>] = 1
                    \/ \E u \in Pending' : work'[u].file = e /\ work'[u].shot = k
  BY DEF Covered
<1>1. lexed[<<e, k>>] = 1 \/ \E u \in Pending : work[u].file = e /\ work[u].shot = k
  BY DEF Covered
<1>2. CASE UNCHANGED lexed /\ \A u \in Pending : u \in Pending' /\ work'[u] = work[u]
  BY <1>1, <1>2
<1>3. CASE /\ t \in Pending /\ Lexes(<<work[t].file, work[t].shot>>)
           /\ \A u \in Pending \ {t} : u \in Pending' /\ work'[u] = work[u]
  <2>1. lexed[<<work[t].file, work[t].shot>>] = 0
    BY <1>3 DEF PendingOnce
  <2>2. lexed'[<<work[t].file, work[t].shot>>] = 1
    BY <1>3, <2>1, SearchOne
  <2>3. CASE e = work[t].file /\ k = work[t].shot
    BY <2>2, <2>3
  <2>4. CASE ~ (e = work[t].file /\ k = work[t].shot)
    <3>1. lexed'[<<e, k>>] = lexed[<<e, k>>]
      BY <1>3, <2>4, SearchOne
    <3>2. ASSUME NEW u \in Pending, work[u].file = e, work[u].shot = k
          PROVE  u \in Pending' /\ work'[u].file = e /\ work'[u].shot = k
      BY <1>3, <2>4, <3>2
    <3> QED BY <1>1, <3>1, <3>2
  <2> QED BY <2>3, <2>4
<1> QED BY <1>2, <1>3

LEMMA LostStep ==
  ASSUME TypeOK, SlotsBehind, ShotsRight, PendingOnce, OnlyWanted, NothingLost,
         NEW t \in Threads, main = "joining", pc[t] \notin Failed, Moves(t)
  PROVE  NothingLost'
<1> DEFINE Somewhere(e) == \/ \E u \in Holders : Held(u) = e
                           \/ \E i \in 1..Len(queue) : queue[i].file = e
                           \/ Shots[e] > 0 /\ Covered(e, Shots[e])
           Tracked == /\ \A u \in Holders : Covered(Held(u), Given(u))
                      /\ \A i \in 1..Len(queue) : Covered(queue[i].file, queue[i].shot)
                      /\ \A e \in Handed \cap Wanted : Somewhere(e)
<1>0. /\ Holders' \subseteq Threads /\ Pending' \subseteq Threads /\ queue \in Seq(Workmonad)
      /\ Holders \subseteq Threads /\ Pending \subseteq Threads
  BY DEF Holders, Pending, TypeOK
<1>1. CASE Crash(t)
  BY <1>1 DEF Crash, NothingLost
<1>2. CASE \E u \in Threads : pc[u] \in Failed
  <2>1. PICK u \in Threads : pc[u] \in Failed
    BY <1>2
  <2>2. Others(t) => pc'[u] \in Failed
    BY <2>1 DEF Others
  <2> QED
    BY <1>1, <2>2 DEF Moves, Drop, Stay, Receive, Fill, Hand, Search, Grab, NothingLost
<1>3. SUFFICES ASSUME Tracked, ~Crash(t)
               PROVE  Tracked' \/ pc'[t] \in Failed
  BY <1>1, <1>2 DEF NothingLost
<1>4. /\ \A u \in Holders : Held(u) \in Entries /\ Given(u) \in Nat
      /\ \A i \in 1..Len(queue) : queue[i].file \in Entries /\ queue[i].shot \in Nat
      /\ Handed \subseteq Entries /\ \A e \in Entries : Shots[e] \in Nat
  BY FilesAreEntries, ChunkIn
<1>5. CASE Drop(t)
  <2>1. /\ Others(t) /\ UNCHANGED <<queue, lexed, Handed>>
        /\ t \notin Holders' /\ t \notin Pending'
    BY <1>5 DEF Drop, Handed
  <2>2. SUFFICES ASSUME pc'[t] \notin Failed
                 PROVE  Tracked'
    OBVIOUS
  <2>3. t \notin Pending
    BY <1>5, <2>2 DEF Drop
  <2>4. \A e \in Entries, n \in Nat : Covered(e, n) => Covered(e, n)'
    BY <1>0, <2>1, <2>3, OthersSame, CoveredKept
  <2>5. \A u \in Holders' : Covered(Held(u), Given(u))'
    BY <1>0, <1>3, <1>4, <2>1, <2>4, OthersSame
  <2>6. \A i \in 1..Len(queue) : Covered(queue[i].file, queue[i].shot)'
    BY <1>3, <1>4, <2>1, <2>4
  <2>7. ASSUME NEW e \in Handed \cap Wanted, NEW u \in Holders, Held(u) = e
        PROVE  Somewhere(e)'
    <3>1. CASE u # t
      BY <1>0, <2>1, <2>7, <3>1, OthersSame
    <3>2. CASE u = t
      <4>1. Shots[e] > 0 /\ Given(t) = Shots[e]
        BY <1>5, <2>2, <2>7, <3>2 DEF Drop
      <4>2. Covered(e, Shots[e])'
        BY <1>3, <1>4, <2>4, <2>7, <3>2, <4>1
      <4> QED BY <4>1, <4>2
    <3> QED BY <3>1, <3>2
  <2>8. \A e \in Handed \cap Wanted : Somewhere(e)'
    BY <1>3, <1>4, <2>1, <2>4, <2>7
  <2> QED BY <2>1, <2>5, <2>6, <2>8
<1>6. CASE Stay(t) \/ Search(t)
  <2>1. /\ Others(t) /\ UNCHANGED <<queue, Handed>>
        /\ (t \in Holders' <=> t \in Holders) /\ Held(t)' = Held(t) /\ Given(t)' = Given(t)
    BY <1>6 DEF Stay, Search, Handed, Held, Given
  <2>2. \A e \in Entries, n \in Nat : Covered(e, n) => Covered(e, n)'
    <3>1. CASE Stay(t)
      BY <1>0, <2>1, <3>1, OthersSame, CoveredKept DEF Stay
    <3>2. CASE Search(t)
      BY <1>0, <2>1, <3>2, OthersSame, CoveredKept DEF Search
    <3> QED BY <1>6, <3>1, <3>2
  <2>3. \A u \in Threads : (u \in Holders' <=> u \in Holders) /\ Held(u)' = Held(u) /\ Given(u)' = Given(u)
    BY <2>1, OthersSame
  <2>4. \A u \in Holders' : Covered(Held(u), Given(u))'
    BY <1>0, <1>3, <1>4, <2>2, <2>3
  <2>5. \A i \in 1..Len(queue) : Covered(queue[i].file, queue[i].shot)'
    BY <1>3, <1>4, <2>1, <2>2
  <2>6. \A e \in Handed \cap Wanted : Somewhere(e)'
    BY <1>0, <1>3, <1>4, <2>1, <2>2, <2>3
  <2> QED BY <2>1, <2>4, <2>5, <2>6
<1>7. CASE Receive(t)
  <2>1. /\ Others(t) /\ UNCHANGED <<queue, lexed>> /\ t \notin Holders /\ t \notin Pending
        /\ t \in Holders'
    BY <1>7 DEF Receive
  <2>2. Held(t)' \in Entries /\ Given(t)' = 0 /\ Handed' = Handed \cup {Held(t)'}
    BY <1>7, ReceiveFacts
  <2>3. \A e \in Entries, n \in Nat : Covered(e, n) => Covered(e, n)'
    BY <1>0, <2>1, OthersSame, CoveredKept
  <2>4. Covered(Held(t), Given(t))'
    BY <1>4, <2>2 DEF Covered
  <2>5. \A u \in Holders' : Covered(Held(u), Given(u))'
    BY <1>0, <1>3, <1>4, <2>1, <2>3, <2>4, OthersSame
  <2>6. \A i \in 1..Len(queue) : Covered(queue[i].file, queue[i].shot)'
    BY <1>3, <1>4, <2>1, <2>3
  <2>7. \A u \in Holders : u \in Holders' /\ Held(u)' = Held(u)
    BY <1>0, <2>1, OthersSame
  <2>8. \A e \in Handed \cap Wanted : Somewhere(e)'
    BY <1>0, <1>3, <1>4, <2>1, <2>3, <2>7
  <2>9. \A e : e = Held(t)' => Somewhere(e)'
    BY <2>1
  <2>10. \A e \in Handed' \cap Wanted : Somewhere(e)'
    BY <2>2, <2>8, <2>9
  <2> QED BY <2>1, <2>5, <2>6, <2>10
<1>8. CASE Fill(t)
  <2>1. /\ Others(t) /\ UNCHANGED <<queue, lexed, Handed>> /\ t \in Holders /\ t \in Holders'
        /\ t \notin Pending /\ t \in Pending' /\ work'[t].file = Held(t)
        /\ work'[t].shot = Given(t) + 1 /\ Held(t)' = Held(t) /\ Given(t)' = Given(t) + 1
    BY <1>8 DEF Fill, Held, Given, Handed
  <2>2. \A e \in Entries, n \in Nat : Covered(e, n) => Covered(e, n)'
    BY <1>0, <2>1, OthersSame, CoveredKept
  <2>3. Covered(Held(t), Given(t))'
    <3> SUFFICES ASSUME NEW k \in 1..Shots[Held(t)], k <= Given(t) + 1
                 PROVE  \/ lexed'[<<Held(t), k>>] = 1
                        \/ \E u \in Pending' : work'[u].file = Held(t) /\ work'[u].shot = k
      BY <2>1 DEF Covered
    <3>1. CASE k = Given(t) + 1
      BY <2>1, <3>1
    <3>2. CASE k # Given(t) + 1
      <4>1. k <= Given(t)
        BY <1>4, <2>1, <3>2
      <4>2. lexed[<<Held(t), k>>] = 1 \/ \E u \in Pending : work[u].file = Held(t) /\ work[u].shot = k
        BY <1>3, <2>1, <4>1 DEF Covered
      <4>3. \A u \in Pending : u \in Pending' /\ work'[u] = work[u]
        BY <1>0, <2>1, OthersSame
      <4> QED BY <2>1, <4>2, <4>3
    <3> QED BY <3>1, <3>2
  <2>4. \A u \in Holders' : Covered(Held(u), Given(u))'
    BY <1>0, <1>3, <1>4, <2>1, <2>2, <2>3, OthersSame
  <2>5. \A i \in 1..Len(queue) : Covered(queue[i].file, queue[i].shot)'
    BY <1>3, <1>4, <2>1, <2>2
  <2>6. \A u \in Holders : u \in Holders' /\ Held(u)' = Held(u)
    BY <1>0, <2>1, OthersSame
  <2>7. \A e \in Handed \cap Wanted : Somewhere(e)'
    BY <1>0, <1>3, <1>4, <2>1, <2>2, <2>6
  <2> QED BY <2>1, <2>4, <2>5, <2>7
<1>9. CASE Hand(t) \/ Grab(t)
  <2>1. /\ Others(t) /\ UNCHANGED <<lexed, Handed>>
        /\ t \in Pending => t \in Pending' /\ work'[t] = work[t]
    BY <1>9 DEF Hand, Grab, Handed
  <2>2. \A e \in Entries, n \in Nat : Covered(e, n) => Covered(e, n)'
    BY <1>0, <2>1, OthersSame, CoveredKept
  <2>3. \A u \in Holders' : u # t => Covered(Held(u), Given(u))'
    BY <1>0, <1>3, <1>4, <2>1, <2>2, OthersSame
  <2>4. \A u \in Holders : u # t => u \in Holders' /\ Held(u)' = Held(u)
    BY <1>0, <2>1, OthersSame
  <2>5. CASE Hand(t)
    <3>1. /\ t \in Holders /\ t \notin Holders' /\ work[t] \in Workmonad
          /\ Held(t) = work[t].file /\ Given(t) = work[t].shot /\ queue' = <<work[t]>> \o queue
      BY <2>5, FilesAreEntries DEF Hand, Held, Given
    <3>2. /\ \A i \in 1..Len(queue') : \/ i = 1 /\ queue'[i] = work[t]
                                       \/ i - 1 \in 1..Len(queue) /\ queue'[i] = queue[i - 1]
          /\ queue'[1] = work[t] /\ 1 \in 1..Len(queue')
          /\ \A i \in 1..Len(queue) : i + 1 \in 1..Len(queue') /\ queue'[i + 1] = queue[i]
      BY <1>0, <3>1, PushFacts
    <3>3. /\ \A i \in 1..Len(queue') : Covered(queue'[i].file, queue'[i].shot)
          /\ \A i \in 1..Len(queue') : queue'[i].file \in Entries /\ queue'[i].shot \in Nat
      BY <1>3, <1>4, <3>1, <3>2
    <3>4. (\A i \in 1..Len(queue) : Covered(queue[i].file, queue[i].shot))'
      BY <2>2, <3>3
    <3>5. ASSUME NEW e \in Handed \cap Wanted
          PROVE  Somewhere(e)'
      <4>1. CASE \E u \in Holders : Held(u) = e
        BY <2>4, <3>1, <3>2, <4>1
      <4>2. CASE \E i \in 1..Len(queue) : queue[i].file = e
        BY <3>2, <4>2
      <4>3. CASE Shots[e] > 0 /\ Covered(e, Shots[e])
        BY <1>4, <2>2, <4>3
      <4> QED BY <1>3, <4>1, <4>2, <4>3
    <3>6. \A u \in Holders' : Covered(Held(u), Given(u))'
      BY <2>3, <3>1
    <3> QED BY <2>1, <3>4, <3>5, <3>6
  <2>6. CASE Grab(t)
    <3>1. /\ t \notin Holders /\ t \in Holders' /\ queue # <<>> /\ queue' = Tail(queue)
          /\ Held(t)' = Head(queue).file /\ Given(t)' = Head(queue).shot
      BY <2>6 DEF Grab, Held, Given
    <3>2. /\ 1 \in 1..Len(queue) /\ Head(queue) = queue[1]
          /\ \A i \in 1..Len(queue') : i + 1 \in 1..Len(queue) /\ queue'[i] = queue[i + 1]
          /\ \A i \in 1..Len(queue) : i = 1 \/ (i - 1 \in 1..Len(queue') /\ queue'[i - 1] = queue[i])
      BY <1>0, <3>1, PopFacts
    <3>3. /\ \A i \in 1..Len(queue') : Covered(queue'[i].file, queue'[i].shot)
          /\ \A i \in 1..Len(queue') : queue'[i].file \in Entries /\ queue'[i].shot \in Nat
      BY <1>3, <1>4, <3>2
    <3>4. (\A i \in 1..Len(queue) : Covered(queue[i].file, queue[i].shot))'
      BY <2>2, <3>3
    <3>5. Covered(Held(t), Given(t))'
      BY <1>3, <1>4, <2>2, <3>1, <3>2
    <3>6. ASSUME NEW e \in Handed \cap Wanted
          PROVE  Somewhere(e)'
      <4>1. CASE \E u \in Holders : Held(u) = e
        BY <2>4, <3>1, <4>1
      <4>2. CASE \E i \in 1..Len(queue) : queue[i].file = e
        BY <3>1, <3>2, <4>2
      <4>3. CASE Shots[e] > 0 /\ Covered(e, Shots[e])
        BY <1>4, <2>2, <4>3
      <4> QED BY <1>3, <4>1, <4>2, <4>3
    <3>7. \A u \in Holders' : Covered(Held(u), Given(u))'
      BY <2>3, <3>5
    <3> QED BY <2>1, <3>4, <3>6, <3>7
  <2> QED BY <1>9, <2>5, <2>6
<1> QED BY <1>3, <1>5, <1>6, <1>7, <1>8, <1>9 DEF Moves

-----------------------------------------------------------------------------
(* The invariant of the whole pool.                                         *)

\* A thread leaves for good only when it finds the queue empty.
LEMMA LastToLeave ==
  ASSUME TypeOK, NEW t \in Threads, ThreadStep(t), pc'[t] = "done"
  PROVE  queue' = <<>>
<1> USE DEF TypeOK, At, Goto
<1>1. CASE \/ InfbufFails(t) \/ Arrive(t) \/ Readdir(t) \/ ReaddirEnds(t) \/ Filter(t)
           \/ MapitFails(t) \/ Mapit(t) \/ InflateFails(t) \/ CreateFails(t)
           \/ CreateWorkmonad(t)
  BY <1>1 DEF InfbufFails, Arrive, Readdir, ReaddirEnds, Filter, MapitFails, Mapit,
              InflateFails, CreateFails, CreateWorkmonad, Abandon
<1>2. CASE Oneshot(t) \/ Nextshot(t)
  BY <1>2 DEF Oneshot, Nextshot, Inflate
<1>3. CASE \/ LexFirst(t) \/ HeaderAssert(t) \/ FinishFirst(t) \/ FinishFirstFails(t)
           \/ Rearm(t) \/ Leave(t) \/ CheckHoldup(t) \/ Take(t) \/ Idle(t)
  BY <1>3 DEF LexFirst, HeaderAssert, FinishFirst, FinishFirstFails, Rearm, Leave,
              CheckHoldup, Take, Idle, Abandon
<1>4. CASE EnqueueWorkmonad(t) \/ LexNext(t) \/ FinishLast(t)
  BY <1>4 DEF EnqueueWorkmonad, LexNext, FinishLast
<1> QED BY <1>1, <1>2, <1>3, <1>4 DEF ThreadStep

\* The caller's own steps leave the pool alone, and report what the threads returned.
LEMMA MainKeeps ==
  ASSUME TypeOK, ScanInv, MainStep
  PROVE  /\ UNCHANGED poolvars /\ main \notin Stopped /\ main' # "aborted"
         /\ ReportRight'
<1> USE DEF MainStep, OpendirFails, Spawn, Join, Closedir, Returns
<1>1. UNCHANGED poolvars /\ main \notin Stopped /\ main' # "aborted"
  BY DEF Stopped
<1>2. CASE OpendirFails \/ Closedir
  BY <1>1, <1>2 DEF ScanInv, ReportRight, poolvars
<1>3. CASE Spawn
  BY <1>1, <1>3 DEF ScanInv, ReportRight, poolvars
<1>4. CASE Join
  BY <1>1, <1>4 DEF ScanInv, ReportRight, poolvars, Ended
<1> QED BY <1>1, <1>2, <1>3, <1>4

\* The pool's part of the invariant speaks of the pool's variables, and of main only to
\* ask whether the process has died.
LEMMA PoolKept ==
  ASSUME ScanInv, UNCHANGED poolvars, main' = "aborted" <=> main = "aborted"
  PROVE  SafeInv' /\ NothingLost' /\ EmptyAtEnd'
<1> USE DEF ScanInv, poolvars, threadvars, dirvars, Holders, Pending, Held, Given, Handed
<1>1. OneBatch' /\ SlotsBehind' /\ ShotsRight'
  BY DEF SafeInv, OneBatch, SlotsBehind, ShotsRight
<1>4. Apart'
  BY DEF SafeInv, Apart
<1>5. AllHanded'
  BY DEF SafeInv, AllHanded
<1>2. NotBeyond' /\ PendingOnce' /\ OnlyWanted' /\ LexedAtMostOnce'
  BY DEF SafeInv, NotBeyond, Beyond, PendingOnce, OnlyWanted, LexedAtMostOnce
<1>3. NothingLost' /\ EmptyAtEnd'
  BY DEF NothingLost, Covered, EmptyAtEnd
<1> QED BY <1>1, <1>2, <1>3, <1>4, <1>5 DEF SafeInv

LEMMA ScanStep ==
  ASSUME OneFill, TypeOK, ScanInv, [Next]_vars
  PROVE  ScanInv'
<1>1. ASSUME NEW t \in Threads, ThreadStep(t)
      PROVE  ScanInv'
  <2> USE DEF ScanInv, SafeInv
  <2>1. /\ main = "joining" /\ pc[t] \notin Failed /\ Moves(t)
        /\ OneBatch' /\ SlotsBehind' /\ ShotsRight'
    BY <1>1, StepMoves
  <2>2. SafeInv'
    BY <2>1, ApartStep, WantedStep, BeyondStep, OnceStep
  <2>3. NothingLost'
    BY <2>1, LostStep
  <2>4. EmptyAtEnd'
    BY <1>1, LastToLeave DEF EmptyAtEnd
  <2>5. ReportRight'
    BY <2>1 DEF Moves, Crash, ReportRight
  <2> QED BY <2>2, <2>3, <2>4, <2>5
<1>2. CASE MainStep
  <2>1. UNCHANGED poolvars /\ main \notin Stopped /\ main' # "aborted" /\ ReportRight'
    BY <1>2, MainKeeps
  <2> QED BY <2>1, PoolKept DEF ScanInv, Stopped
<1>3. CASE UNCHANGED vars
  <2>1. UNCHANGED poolvars /\ UNCHANGED <<main, ret>>
    BY <1>3 DEF vars, poolvars, threadvars
  <2>2. ReportRight'
    BY <2>1 DEF ScanInv, ReportRight, poolvars
  <2> QED BY <2>1, <2>2, PoolKept DEF ScanInv
<1> QED BY <1>1, <1>2, <1>3 DEF Next, Terminated

LEMMA ScanInit == Init => ScanInv
<1> SUFFICES ASSUME Init PROVE ScanInv
  OBVIOUS
<1>1. /\ Holders = {} /\ Pending = {} /\ Handed = {} /\ queue = <<>> /\ Len(queue) = 0
      /\ \A t \in Threads : pc[t] = "start"
  BY DEF Init, DirInit, Holders, Pending, Handed, HolderPCs, SlotPCs, OwnerPCs, PendingPCs
<1>2. \A c \in Chunks : lexed[c] = 0
  BY DEF Init
<1>3. OneBatch /\ SlotsBehind /\ Apart /\ AllHanded /\ ShotsRight
  BY <1>1 DEF Init, DirInit, OneBatch, SlotsBehind, Apart, AllHanded, ShotsRight, SlotPCs,
              PendingPCs
<1>4. NotBeyond /\ PendingOnce /\ OnlyWanted /\ LexedAtMostOnce
  BY <1>1, <1>2, ChunkIn DEF NotBeyond, Beyond, PendingOnce, OnlyWanted, LexedAtMostOnce
<1>5. NothingLost /\ EmptyAtEnd /\ ReportRight
  BY <1>1, ContentsAssumption DEF Init, NothingLost, EmptyAtEnd, ReportRight
<1> QED BY <1>3, <1>4, <1>5 DEF ScanInv, SafeInv

\* All that is kept together, along every behaviour.
LEMMA AllInvariant ==
  ASSUME OneFill
  PROVE  Spec => [](TypeOK /\ HoldupExact /\ ExitInv /\ ScanInv)
<1> DEFINE IInv == TypeOK /\ HoldupExact /\ ExitInv /\ ScanInv
<1>1. Init => IInv
  BY InitTypes, ScanInit DEF Init, ExitInv, EndSeen, ZeroSeen, LeftAtZero, DrainPCs
<1>2. IInv /\ [Next]_vars => IInv'
  BY TypeStep, HoldupStep, ExitStep, ScanStep
<1> QED BY <1>1, <1>2, PTL DEF Spec

\* When all threads returned without an error, everything has been searched.
LEMMA AllSearched ==
  ASSUME TypeOK, ExitInv, ScanInv, main \in {"closing", "returned"}, ret = 0
  PROVE  /\ \A e \in Wanted : Shots[e] > 0 /\ \A k \in 1..Shots[e] : lexed[<<e, k>>] = 1
         /\ queue = <<>>
<1>1. \A t \in Threads : pc[t] = "done"
  BY DEF ScanInv, ReportRight
<1>2. queue = <<>> /\ Len(queue) = 0
  BY <1>1 DEF ScanInv, EmptyAtEnd
<1>3. Holders = {} /\ Pending = {} /\ \A t \in Threads : pc[t] \notin Failed
  BY <1>1 DEF Holders, Pending, HolderPCs, SlotPCs, OwnerPCs, PendingPCs, Failed
<1>4. AtEnd
  BY <1>1, ContentsAssumption DEF ExitInv, EndSeen, DrainPCs
<1>5. Handed = Entries
  BY <1>4 DEF AtEnd, Handed, Entries
<1>6. \A e \in Handed \cap Wanted : Shots[e] > 0 /\ Covered(e, Shots[e])
  BY <1>2, <1>3 DEF ScanInv, NothingLost
<1>7. ASSUME NEW e \in Wanted
      PROVE  Shots[e] > 0 /\ \A k \in 1..Shots[e] : lexed[<<e, k>>] = 1
  <2>1. e \in Entries /\ Shots[e] \in Nat
    BY ContentsAssumption
  <2>2. Shots[e] > 0 /\ Covered(e, Shots[e])
    BY <1>5, <1>6, <2>1
  <2> QED BY <1>3, <2>1, <2>2 DEF Covered
<1> QED BY <1>2, <1>7

-----------------------------------------------------------------------------
(* What lex_contents_dir() promises.                                        *)

\* A z_stream is in one thread's hands or once on the queue, never in two places
\* (lex_workqueue(), create_workmonad() and enqueue_workmonad() pass it on).
THEOREM ExclusiveCorrect ==
  ASSUME OneFill
  PROVE  Spec => []ExclusiveStreams
<1>1. ScanInv => ExclusiveStreams
  <2> SUFFICES ASSUME ScanInv PROVE ExclusiveStreams
    OBVIOUS
  <2>1. Owner \subseteq Holders /\ \A t \in Owner : Held(t) = work[t].file
    BY DEF Owner, Holders, HolderPCs, Held, OwnerPCs, SlotPCs
  <2> QED BY <2>1 DEF ScanInv, SafeInv, Apart, ExclusiveStreams
<1> QED BY <1>1, AllInvariant, PTL

\* No buffer is searched, and its matches printed, twice.
THEOREM LexedOnceCorrect ==
  ASSUME OneFill
  PROVE  Spec => []LexedAtMostOnce
<1>1. ScanInv => LexedAtMostOnce
  BY DEF ScanInv, SafeInv
<1> QED BY <1>1, AllInvariant, PTL

\* When lex_contents_dir() returns 0, every wanted file could be inflated, all of it
\* has been searched, and no stream is left behind on the queue.
THEOREM CompleteCorrect ==
  ASSUME OneFill
  PROVE  Spec => []CompleteOnSuccess
<1>1. TypeOK /\ ExitInv /\ ScanInv => CompleteOnSuccess
  BY AllSearched DEF CompleteOnSuccess
<1> QED BY <1>1, AllInvariant, PTL

-----------------------------------------------------------------------------
(* The pool implements the abstract scan: the search of a buffer is its     *)
(* Search, what the caller answers is its Succeed or Fail, and all else is  *)
(* invisible.                                                               *)

searchedMap == [c \in WantedChunks |-> lexed[c]]
statusMap == CASE main = "aborted" -> "aborted"
               [] main = "returned" /\ ret = 0 -> "ok"
               [] main = "returned" /\ ret # 0 -> "error"
               [] OTHER -> "running"

LEMMA WantedChunkFacts ==
  /\ WantedChunks \subseteq Chunks
  /\ \A e \in Wanted : \A k \in 1..Shots[e] : <<e, k>> \in WantedChunks
  /\ \A c \in WantedChunks : \E e \in Wanted : \E k \in 1..Shots[e] : c = <<e, k>>
  BY ContentsAssumption DEF WantedChunks, Chunks

LEMMA StatusFacts ==
  /\ main \notin Stopped => statusMap = "running"
  /\ main = "aborted" => statusMap = "aborted"
  /\ main = "returned" => statusMap = IF ret = 0 THEN "ok" ELSE "error"
  BY DEF statusMap, Stopped

LEMMA StartsRight == Init => Scan!ScanInit
<1> SUFFICES ASSUME Init PROVE Scan!ScanInit
  OBVIOUS
<1>1. searchedMap = [c \in WantedChunks |-> 0]
  BY WantedChunkFacts DEF Init, searchedMap
<1>2. statusMap = "running"
  BY StatusFacts DEF Init, Stopped
<1> QED BY <1>1, <1>2 DEF Scan!ScanInit, searchedMap, statusMap

\* Searching a buffer that a thread had.
LEMMA SearchRefines ==
  ASSUME TypeOK, ScanInv, main = "joining", NEW t \in Pending,
         Lexes(<<work[t].file, work[t].shot>>), main' \in {"joining", "aborted"}
  PROVE  Scan!ScanNext
<1>1. PICK c \in WantedChunks : c = <<work[t].file, work[t].shot>>
  BY PendingChunk, WantedChunkFacts DEF ScanInv, SafeInv, OnlyWanted
<1>2. lexed[c] = 0
  BY <1>1 DEF ScanInv, SafeInv, PendingOnce
<1>3. lexed'[c] = 1 /\ \A b \in WantedChunks : b # c => lexed'[b] = lexed[b]
  BY <1>1, <1>2, SearchOne, WantedChunkFacts DEF ScanInv, SafeInv
<1>4. searchedMap[c] = 0 /\ searchedMap' = [searchedMap EXCEPT ![c] = 1]
  BY <1>2, <1>3 DEF searchedMap
<1>5. statusMap = "running" /\ statusMap' \in {"running", "aborted"}
  BY StatusFacts DEF statusMap, Stopped
<1>6. Scan!Search(c)
  BY <1>4, <1>5 DEF Scan!Search, searchedMap, statusMap
<1> QED BY <1>6 DEF Scan!ScanNext

LEMMA StepRefines ==
  ASSUME OneFill, TypeOK, ExitInv, ScanInv, [Next]_vars
  PROVE  [Scan!ScanNext]_(Scan!scanvars)
<1>0. ASSUME UNCHANGED <<searchedMap, statusMap>>
      PROVE  UNCHANGED Scan!scanvars
  BY <1>0 DEF Scan!scanvars, searchedMap, statusMap
<1>1. ASSUME NEW t \in Threads, ThreadStep(t)
      PROVE  Scan!ScanNext \/ UNCHANGED <<searchedMap, statusMap>>
  <2>1. main = "joining" /\ Moves(t)
    BY <1>1, StepMoves DEF ScanInv, SafeInv
  <2>2. CASE Crash(t) \/ (main' = "joining" /\ Search(t))
    BY <2>1, <2>2, SearchRefines DEF Crash, Search
  <2>3. CASE /\ main' = "joining"
             /\ Drop(t) \/ Stay(t) \/ Receive(t) \/ Fill(t) \/ Hand(t) \/ Grab(t)
    <3>1. UNCHANGED lexed
      BY <2>3 DEF Drop, Stay, Receive, Fill, Hand, Grab
    <3> QED BY <2>1, <2>3, <3>1, StatusFacts DEF searchedMap, statusMap
  <2> QED BY <2>1, <2>2, <2>3 DEF Moves
<1>2. CASE MainStep
  <2>1. UNCHANGED lexed /\ main \notin Stopped /\ main' # "aborted"
    BY <1>2, MainKeeps DEF poolvars
  <2>2. UNCHANGED searchedMap /\ statusMap = "running"
    BY <2>1, StatusFacts DEF searchedMap
  <2>3. CASE Spawn \/ Join
    <3>1. statusMap' = "running"
      BY <2>3 DEF Spawn, Join, statusMap
    <3> QED BY <1>0, <2>2, <3>1
  <2>4. CASE OpendirFails \/ (Closedir /\ ret' # 0)
    <3>1. statusMap' = "error"
      BY <2>4 DEF OpendirFails, Closedir, Returns, statusMap
    <3>2. Scan!Fail
      BY <2>2, <3>1 DEF Scan!Fail, searchedMap, statusMap
    <3> QED BY <3>2 DEF Scan!ScanNext
  <2>5. CASE Closedir /\ ret' = 0
    <3>1. main = "closing" /\ ret = 0 /\ statusMap' = "ok"
      BY <2>5 DEF Closedir, Returns, statusMap
    <3>2. \A e \in Wanted : \A k \in 1..Shots[e] : lexed[<<e, k>>] = 1
      BY <3>1, AllSearched
    <3>3. \A c \in WantedChunks : searchedMap[c] = 1
      BY <3>2, WantedChunkFacts DEF searchedMap
    <3>4. Scan!Succeed
      BY <2>2, <3>1, <3>3 DEF Scan!Succeed, searchedMap, statusMap
    <3> QED BY <3>4 DEF Scan!ScanNext
  <2> QED BY <1>2, <2>3, <2>4, <2>5 DEF MainStep
<1>3. CASE UNCHANGED vars
  BY <1>0, <1>3 DEF vars, searchedMap, statusMap
<1> QED BY <1>0, <1>1, <1>2, <1>3 DEF Next, Terminated

\* Every behaviour of the pool is one of the abstract scan: each wanted buffer is
\* searched at most once, nothing is searched after the answer, and the answer is
\* success only after all of them.
THEOREM ScanImplemented ==
  ASSUME OneFill
  PROVE  Spec => ImplementsScan
<1>1. TypeOK /\ HoldupExact /\ ExitInv /\ ScanInv /\ [Next]_vars => [Scan!ScanNext]_(Scan!scanvars)
  BY StepRefines
<1> QED
  BY <1>1, StartsRight, AllInvariant, PTL DEF Spec, ImplementsScan, Scan!ScanSpec
=============================================================================
