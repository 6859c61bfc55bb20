--------------------------- MODULE ContentsQueue ---------------------------
(***************************************************************************)
(* lex_contents_dir() of src/lib/contents.c: a pool of threads walks a     *)
(* directory of compressed Contents files.  A thread inflates the first    *)
(* buffer of every file it is handed by readdir; a file that needs more    *)
(* than one buffer is posted, as a "workmonad", on a shared queue from     *)
(* which any thread takes it to inflate one further buffer at a time.      *)
(* The counter holdup_sem is what keeps a thread that finds the queue      *)
(* empty from leaving while another may still post to it.                  *)
(*                                                                         *)
(* pc[t] is the point of lex_dir() (and of the functions it calls) where   *)
(* thread t stands.  Every section the code runs under dp->lock is one     *)
(* step; so is everything between two such sections that touches only the  *)
(* thread's own buffer.                                                    *)
(***************************************************************************)
EXTENDS DirStream, FiniteSets

CONSTANTS
  Threads,   \* the threads libblossom starts, one per processing element
  Wanted,    \* the entries whose name and type pass lex_dir()'s filter
  Shots,     \* Shots[e]: inflate() calls that decompress e; 0: not a gzip file
  Faults     \* the kinds of failure the environment may inject in this run

FaultKinds == {"opendir", "spawn", "join", "closedir", "infbuf", "readdir",
               "mapit", "inflate", "workmonad", "inflateEnd", "header"}

ASSUME ContentsAssumption ==
  /\ IsFiniteSet(Threads) /\ Threads # {}
  /\ Wanted \subseteq Entries
  /\ Shots \in [Entries -> Nat]
  /\ Faults \subseteq FaultKinds

VARIABLES
  main,        \* where the calling thread stands in lex_contents_dir()
  ret,         \* what lex_contents_dir() returns (0 or -1)
  pc,          \* where each pool thread stands
  pdent,       \* the dirent pointer each thread got last
  work,        \* the stream each thread has in hand: file and buffers inflated
  holdup,      \* the copy of holdup_sem a thread took before trying the queue
  holdup_sem,  \* struct dirparse's counter
  queue,       \* struct dirparse's list of workmonads, newest first
  lexed        \* history: how often each buffer of each file went to lex_content()

vars == <<dirvars, main, ret, pc, pdent, work, holdup, holdup_sem, queue, lexed>>
threadvars == <<pdent, work, holdup>>

\* The k-th buffer inflate() produces for file e, for every e and k.
Chunks == UNION {{e} \X (1..Shots[e]) : e \in Entries}

\* A workmonad: a suspended inflate() of a file after some number of buffers.
NoWork == [file |-> "none", shot |-> 0]
Workmonad == [file : Entries, shot : Nat]

PCs == {"start", "readdir", "inspect", "open", "oneshot", "create", "lex_first",
        "lex_whole", "finish_first", "rearm", "leave", "leave_err", "check",
        "drain", "nextshot", "enqueue", "lex_next", "lex_last", "finish_last",
        "done", "failed", "failed_holding"}

Init ==
  /\ DirInit
  /\ main = "opening" /\ ret = 0
  /\ pc = [t \in Threads |-> "start"]
  /\ pdent = [t \in Threads |-> 0]
  /\ work = [t \in Threads |-> NoWork]
  /\ holdup = [t \in Threads |-> 0]
  /\ holdup_sem = 0
  /\ queue = <<>>
  /\ lexed = [c \in Chunks |-> 0]

-----------------------------------------------------------------------------
(* The steps.  MayFail(kind) is an environment fault this run injects.      *)

MayFail(kind) == kind \in Faults

\* Only a thread that lex_listdir() spawned and has not joined takes steps.
At(t, label) == main = "joining" /\ pc[t] = label

Goto(t, label) == pc' = [pc EXCEPT ![t] = label]

Lexes(c) == lexed' = [lexed EXCEPT ![c] = @ + 1]

\* The dirent a thread holds, read through the pointer now.
EntryOf(t) == EntryAt(pdent[t])

\* inflate() has said Z_STREAM_END rather than Z_OK.
Last(t) == work[t].shot = Shots[work[t].file]

\* finish_workmonad(NULL, dp) and enqueue_workmonad(wm, dp): one locked section.
Release == holdup_sem' = holdup_sem - 1
Post(t) == queue' = <<work[t]>> \o queue /\ Release

mainvars == <<main, ret>>

(* lex_dir(): the buffer, the counter, and the walk over the directory.     *)

InfbufFails(t) ==
  /\ MayFail("infbuf") /\ At(t, "start")
  /\ Goto(t, "failed")
  /\ UNCHANGED <<dirvars, mainvars, threadvars, holdup_sem, queue, lexed>>

Arrive(t) ==
  /\ At(t, "start")
  /\ holdup_sem' = holdup_sem + 1
  /\ Goto(t, "readdir")
  /\ UNCHANGED <<dirvars, mainvars, threadvars, queue, lexed>>

Readdir(t) ==
  /\ At(t, "readdir")
  /\ Advance
  /\ pdent' = [pdent EXCEPT ![t] = NextSlot]
  /\ Goto(t, "inspect")
  /\ UNCHANGED <<mainvars, work, holdup, holdup_sem, queue, lexed>>

ReaddirEnds(t) ==
  /\ At(t, "readdir")
  /\ \/ AtEnd /\ Goto(t, "leave")
     \/ MayFail("readdir") /\ Goto(t, "leave_err")
  /\ UNCHANGED <<dirvars, mainvars, threadvars, holdup_sem, queue, lexed>>

Filter(t) ==
  /\ At(t, "inspect")
  /\ Goto(t, IF EntryOf(t) \in Wanted THEN "open" ELSE "readdir")
  /\ UNCHANGED <<dirvars, mainvars, threadvars, holdup_sem, queue, lexed>>

(* lex_packages_file_internal() and lex_content_map_oneshot().              *)

\* An error on the way through the first buffer: the thread returns NULL and
\* leaves its unit of holdup_sem behind.
Abandon(t) ==
  /\ Goto(t, "failed_holding")
  /\ UNCHANGED <<dirvars, mainvars, threadvars, holdup_sem, queue, lexed>>

MapitFails(t) == MayFail("mapit") /\ At(t, "open") /\ Abandon(t)

Mapit(t) ==
  /\ At(t, "open")
  /\ work' = [work EXCEPT ![t] = [file |-> EntryOf(t), shot |-> 0]]
  /\ Goto(t, "oneshot")
  /\ UNCHANGED <<dirvars, mainvars, pdent, holdup, holdup_sem, queue, lexed>>

\* Mutation: an inflate() error is answered like the end of the stream.
InflateFails_Swallowed(t) ==
  /\ At(t, "oneshot") \/ At(t, "nextshot")
  /\ Release
  /\ Goto(t, "rearm")
  /\ UNCHANGED <<dirvars, mainvars, threadvars, queue, lexed>>

\* inflate() refuses the data, of a file or of one of its later buffers.
InflateFails(t) ==
  /\ \/ At(t, "oneshot") /\ (Shots[work[t].file] = 0 \/ MayFail("inflate"))
     \/ At(t, "nextshot") /\ MayFail("inflate")
  /\ Abandon(t)

\* inflate() fills the buffer; more to come, or the end of the stream.
Inflate(t, from, more, end) ==
  /\ At(t, from)
  /\ work[t].shot < Shots[work[t].file]
  /\ work' = [work EXCEPT ![t].shot = @ + 1]
  /\ Goto(t, IF Last(t)' THEN end ELSE more)
  /\ UNCHANGED <<dirvars, mainvars, pdent, holdup, holdup_sem, queue, lexed>>

Oneshot(t) == Inflate(t, "oneshot", "create", "lex_whole")

CreateFails(t) == MayFail("workmonad") /\ At(t, "create") /\ Abandon(t)

\* Mutation: the stream is copied before inflate() has run on it.
CreateWorkmonad_Stale(t) ==
  /\ At(t, "create")
  /\ queue' = <<[work[t] EXCEPT !.shot = 0]>> \o queue /\ Release
  /\ Goto(t, "lex_first")
  /\ UNCHANGED <<dirvars, mainvars, threadvars, lexed>>

CreateWorkmonad(t) ==
  /\ At(t, "create")
  /\ Post(t)
  /\ Goto(t, "lex_first")
  /\ UNCHANGED <<dirvars, mainvars, threadvars, lexed>>

\* lex_content() on the file's first buffer.
LexFirst(t) ==
  /\ \/ At(t, "lex_first") /\ Goto(t, "rearm")
     \/ At(t, "lex_whole") /\ Goto(t, "finish_first")
  /\ Lexes(<<work[t].file, 1>>)
  /\ UNCHANGED <<dirvars, mainvars, threadvars, holdup_sem, queue>>

\* The header did not end in the first buffer: assert(0) takes the process down.
HeaderAssert(t) ==
  /\ MayFail("header")
  /\ At(t, "lex_first") \/ At(t, "lex_whole")
  /\ main' = "aborted"
  /\ Lexes(<<work[t].file, 1>>)
  /\ UNCHANGED <<dirvars, ret, pc, threadvars, holdup_sem, queue>>

FinishFirst(t) ==
  /\ At(t, "finish_first")
  /\ Release
  /\ Goto(t, "rearm")
  /\ UNCHANGED <<dirvars, mainvars, threadvars, queue, lexed>>

FinishFirstFails(t) ==
  /\ MayFail("inflateEnd") /\ At(t, "finish_first")
  /\ Abandon(t)

\* Mutation: the next file is set out on without being counted.
Rearm_Uncounted(t) ==
  /\ At(t, "rearm")
  /\ Goto(t, "readdir")
  /\ UNCHANGED <<dirvars, mainvars, threadvars, holdup_sem, queue, lexed>>

Rearm(t) ==
  /\ At(t, "rearm")
  /\ holdup_sem' = holdup_sem + 1
  /\ Goto(t, "readdir")
  /\ UNCHANGED <<dirvars, mainvars, threadvars, queue, lexed>>

(* lex_dir() past the directory, and lex_workqueue().                       *)

\* Mutation: no finish_workmonad() at the end of the directory.
Leave_Counted(t) ==
  /\ \/ At(t, "leave") /\ Goto(t, "check")
     \/ At(t, "leave_err") /\ Goto(t, "failed")
  /\ UNCHANGED <<dirvars, mainvars, threadvars, holdup_sem, queue, lexed>>

Leave(t) ==
  /\ \/ At(t, "leave") /\ Goto(t, "check")
     \/ At(t, "leave_err") /\ Goto(t, "failed")
  /\ Release
  /\ UNCHANGED <<dirvars, mainvars, threadvars, queue, lexed>>

CheckHoldup(t) ==
  /\ At(t, "check")
  /\ holdup' = [holdup EXCEPT ![t] = holdup_sem]
  /\ Goto(t, "drain")
  /\ UNCHANGED <<dirvars, mainvars, pdent, work, holdup_sem, queue, lexed>>

\* Mutations: the stream stays on the queue; the taker is not counted.
Take_NoPop(t) ==
  /\ At(t, "drain") /\ queue # <<>>
  /\ work' = [work EXCEPT ![t] = Head(queue)]
  /\ holdup_sem' = holdup_sem + 1
  /\ Goto(t, "nextshot")
  /\ UNCHANGED <<dirvars, mainvars, pdent, holdup, queue, lexed>>

Take_Uncounted(t) ==
  /\ At(t, "drain") /\ queue # <<>>
  /\ work' = [work EXCEPT ![t] = Head(queue)]
  /\ queue' = Tail(queue)
  /\ Goto(t, "nextshot")
  /\ UNCHANGED <<dirvars, mainvars, pdent, holdup, holdup_sem, lexed>>

Take(t) ==
  /\ At(t, "drain") /\ queue # <<>>
  /\ work' = [work EXCEPT ![t] = Head(queue)]
  /\ queue' = Tail(queue)
  /\ holdup_sem' = holdup_sem + 1
  /\ Goto(t, "nextshot")
  /\ UNCHANGED <<dirvars, mainvars, pdent, holdup, lexed>>

\* Mutation: an empty queue is reason enough to leave.
Idle_NoRecheck(t) ==
  /\ At(t, "drain") /\ queue = <<>>
  /\ Goto(t, "done")
  /\ UNCHANGED <<dirvars, mainvars, threadvars, holdup_sem, queue, lexed>>

\* Nothing queued: go round again if somebody was counted, else leave for good.
Idle(t) ==
  /\ At(t, "drain") /\ queue = <<>>
  /\ Goto(t, IF holdup[t] # 0 THEN "check" ELSE "done")
  /\ UNCHANGED <<dirvars, mainvars, threadvars, holdup_sem, queue, lexed>>

Nextshot(t) == Inflate(t, "nextshot", "enqueue", "lex_last")

EnqueueWorkmonad(t) ==
  /\ At(t, "enqueue")
  /\ Post(t)
  /\ Goto(t, "lex_next")
  /\ UNCHANGED <<dirvars, mainvars, threadvars, lexed>>

\* lex_content() on a later buffer; work[t].shot still says which one it is.  The
\* code searches the whole of infbuf, past the end of the last output: what it finds
\* there was searched before, lost its newlines then (line 47), and prints nothing.
LexNext(t) ==
  /\ \/ At(t, "lex_next") /\ Goto(t, "drain")
     \/ At(t, "lex_last") /\ Goto(t, "finish_last")
  /\ Lexes(<<work[t].file, work[t].shot>>)
  /\ UNCHANGED <<dirvars, mainvars, threadvars, holdup_sem, queue>>

\* finish_workmonad() runs whether or not inflateEnd() succeeds.
FinishLast(t) ==
  /\ At(t, "finish_last")
  /\ Release
  /\ \/ Goto(t, "drain")
     \/ MayFail("inflateEnd") /\ Goto(t, "failed")
  /\ UNCHANGED <<dirvars, mainvars, threadvars, queue, lexed>>

ThreadStep(t) ==
  \/ InfbufFails(t) \/ Arrive(t) \/ Readdir(t) \/ ReaddirEnds(t) \/ Filter(t)
  \/ MapitFails(t) \/ Mapit(t) \/ InflateFails(t) \/ Oneshot(t)
  \/ CreateFails(t) \/ CreateWorkmonad(t) \/ LexFirst(t) \/ HeaderAssert(t)
  \/ FinishFirst(t) \/ FinishFirstFails(t) \/ Rearm(t) \/ Leave(t)
  \/ CheckHoldup(t) \/ Take(t) \/ Idle(t) \/ Nextshot(t)
  \/ EnqueueWorkmonad(t) \/ LexNext(t) \/ FinishLast(t)

-----------------------------------------------------------------------------
(* The calling thread: lex_contents_dir() and lex_listdir().                *)

Failed == {"failed", "failed_holding"}
Ended == Failed \cup {"done"}

poolvars == <<dirvars, pc, threadvars, holdup_sem, queue, lexed>>

Returns(code) == main' = "returned" /\ ret' = code

OpendirFails == MayFail("opendir") /\ main = "opening" /\ Returns(-1) /\ UNCHANGED poolvars

Spawn ==
  /\ main = "opening"
  /\ \/ main' = "joining" /\ ret' = 0
     \/ MayFail("spawn") /\ main' = "closing" /\ ret' = -1
  /\ UNCHANGED poolvars

\* Mutation: nobody looks at what the threads returned.
Join_Unvalidated ==
  /\ main = "joining" /\ \A t \in Threads : pc[t] \in Ended
  /\ main' = "closing" /\ ret' = 0
  /\ UNCHANGED poolvars

\* blossom_join_all(), then blossom_validate_joinrets(): a NULL is a failure.
Join ==
  /\ main = "joining" /\ \A t \in Threads : pc[t] \in Ended
  /\ main' = "closing"
  /\ \/ ret' = IF \E t \in Threads : pc[t] \in Failed THEN -1 ELSE 0
     \/ MayFail("join") /\ ret' = -1
  /\ UNCHANGED poolvars

Closedir ==
  /\ main = "closing"
  /\ Returns(ret) \/ (MayFail("closedir") /\ Returns(-1))
  /\ UNCHANGED poolvars

MainStep == OpendirFails \/ Spawn \/ Join \/ Closedir

Stopped == {"returned", "aborted"}

Terminated == main \in Stopped /\ UNCHANGED vars

Next == MainStep \/ (\E t \in Threads : ThreadStep(t)) \/ Terminated

Spec == Init /\ [][Next]_vars

\* The kernel schedules every thread that can run; no thread waits for another
\* except at the join, and a mutex is held for a few instructions only.
Fairness == WF_vars(MainStep) /\ \A t \in Threads : WF_vars(ThreadStep(t))

FairSpec == Spec /\ Fairness

-----------------------------------------------------------------------------
(* Properties.                                                              *)

\* Threads counted in holdup_sem, by where they stand.
HoldingPCs == {"readdir", "inspect", "open", "oneshot", "create", "lex_whole",
               "finish_first", "leave", "leave_err", "nextshot", "enqueue",
               "lex_last", "finish_last", "failed_holding"}
Holding == {t \in Threads : pc[t] \in HoldingPCs}

\* A directory entry in hand whose stream is not yet on the queue.
OneshotPCs == {"inspect", "open", "oneshot", "create"}

\* The stream of work[t] is the thread's own: nobody else may inflate it.
OwnerPCs == {"oneshot", "create", "lex_whole", "finish_first",
             "nextshot", "enqueue", "lex_last", "finish_last"}
Owner == {t \in Threads : pc[t] \in OwnerPCs}

\* work[t] is a stream that readdir or the queue gave the thread.
BusyPCs == OwnerPCs \cup {"lex_first", "lex_next"}

\* The variables keep their types; holdup_sem, an unsigned, never wraps below 0
\* and never exceeds the number of threads.
TypeOK ==
  /\ DirTypeOK
  /\ main \in {"opening", "joining", "closing"} \cup Stopped
  /\ ret \in {0, -1}
  /\ pc \in [Threads -> PCs]
  /\ pdent \in [Threads -> 0..(BatchSize - 1)]
  /\ \A t \in Threads : pc[t] \in {"inspect", "open"} => ValidSlot(pdent[t])
  /\ work \in [Threads -> [file : Entries \cup {"none"}, shot : Nat]]
  /\ holdup \in [Threads -> 0..Cardinality(Threads)]
  /\ holdup_sem \in 0..Cardinality(Threads)
  /\ queue \in Seq(Workmonad)
  /\ \A t \in Threads : pc[t] \in BusyPCs => work[t] \in Workmonad
  /\ lexed \in [Chunks -> Nat]

\* The counter counts exactly the threads that may still post to the queue, plus
\* the ones that gave up on a file without telling: increments and decrements
\* pair up along every path of lex_dir(), lex_content_map_oneshot() and
\* lex_content_map_nextshot() (lines 134-355), whatever the interleaving.
HoldupExact == holdup_sem = Cardinality(Holding)

\* The purpose of holdup_sem (comment at lines 116-121): no thread leaves while
\* a directory entry is still on its way through lex_content_map_oneshot() and
\* may yet be posted as work to share.
NoEarlyExit ==
  (\E t \in Threads : pc[t] = "done") =>
     AtEnd /\ \A u \in Threads : pc[u] \notin OneshotPCs

\* A z_stream is inflated by one thread at a time: a file's stream is on the
\* queue once or in one thread's hands, never both (lines 143-195, 283-301).
ExclusiveStreams ==
  /\ \A i, j \in 1..Len(queue) : queue[i].file = queue[j].file => i = j
  /\ \A t, u \in Owner : work[t].file = work[u].file => t = u
  /\ \A t \in Owner, i \in 1..Len(queue) : work[t].file # queue[i].file

\* No buffer of any file is searched, and its matches printed, twice.
LexedAtMostOnce == \A c \in Chunks : lexed[c] <= 1

\* lex_contents_dir() returns 0 only when every wanted file could be inflated,
\* every buffer of it has been searched, and no stream is left on the queue.
CompleteOnSuccess ==
  main = "returned" /\ ret = 0 =>
     /\ \A e \in Wanted : Shots[e] > 0 /\ \A k \in 1..Shots[e] : lexed[<<e, k>>] = 1
     /\ queue = <<>>

\* ContentsQueue implements ContentsScan: lex_contents_dir() as its caller sees it.
WantedChunks == UNION {{e} \X (1..Shots[e]) : e \in Wanted}
Scan == INSTANCE ContentsScan WITH
  Buffers  <- WantedChunks,
  searched <- [c \in WantedChunks |-> lexed[c]],
  status   <- CASE main = "aborted" -> "aborted"
                [] main = "returned" /\ ret = 0 -> "ok"
                [] main = "returned" /\ ret # 0 -> "error"
                [] OTHER -> "running"

\* Every step of the pool is a step of the abstract scan, or invisible.
ImplementsScan == Scan!ScanSpec

\* The call comes back to its caller, or the process dies in the assertion.
EventuallyStops == <>(main \in Stopped)
=============================================================================
