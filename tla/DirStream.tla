----------------------------- MODULE DirStream -----------------------------
(***************************************************************************)
(* A directory stream as the directory walkers of src/lib/contents.c and   *)
(* src/lib/packages.c use it: one DIR shared by every thread of the pool,  *)
(* read with readdir(3).  readdir serves entries out of a buffer that it   *)
(* refills a batch at a time, and the struct dirent pointer it returns     *)
(* points INTO that buffer.  The call itself is serialised by the C        *)
(* library; what the pointer leads to is not: a later call by any thread   *)
(* may refill the buffer under a pointer that is still in use.             *)
(*                                                                         *)
(* A pointer is therefore a slot number, and EntryAt(slot) is what reading *)
(* through the pointer yields at the moment of the read.  Entries are      *)
(* taken to have equal sizes, so that a refill replaces whole slots.       *)
(***************************************************************************)
EXTENDS Integers, Sequences

CONSTANTS
  Dir,        \* the directory's entries, in the order the kernel lists them
  BatchSize   \* how many of them one refill of the buffer brings in

\* A directory lists a name at most once; a refill brings at least one entry.
ASSUME DirAssumption ==
  /\ Dir \in Seq({Dir[i] : i \in 1..Len(Dir)})
  /\ \A i, j \in 1..Len(Dir) : Dir[i] = Dir[j] => i = j
  /\ BatchSize \in Nat \ {0}

VARIABLES
  dirpos,     \* entries handed out so far
  base,       \* index of the entry that sits in slot 0 of the buffer
  fetched     \* entries the kernel has delivered so far

dirvars == <<dirpos, base, fetched>>

Entries == {Dir[i] : i \in 1..Len(Dir)}

DirInit == dirpos = 0 /\ base = 0 /\ fetched = 0

AtEnd == dirpos = Len(Dir)

\* The slot the next call will return: slot 0 when it has to refill.
NextSlot == IF dirpos = fetched THEN 0 ELSE dirpos - base

\* One successful readdir call: refill an exhausted buffer, step past the entry.
Advance ==
  /\ ~AtEnd
  /\ dirpos' = dirpos + 1
  /\ IF dirpos = fetched
       THEN /\ base' = fetched
            /\ fetched' = IF fetched + BatchSize < Len(Dir)
                            THEN fetched + BatchSize ELSE Len(Dir)
       ELSE UNCHANGED <<base, fetched>>

\* What a dirent pointer leads to now.  A short last batch leaves the tail of
\* the batch before it in place.
EntryAt(slot) ==
  IF base + slot < fetched THEN Dir[base + slot + 1]
                           ELSE Dir[base + slot + 1 - BatchSize]

\* The read position lies in the batch that is in the buffer, and every batch
\* but the last is a full one.
DirTypeOK ==
  /\ base \in Nat /\ dirpos \in base..fetched /\ fetched \in 0..Len(Dir)
  /\ base = 0 \/ base >= BatchSize
  /\ \/ fetched = 0
     \/ fetched = base + BatchSize
     \/ fetched = Len(Dir) /\ fetched < base + BatchSize

\* A slot that some call has returned.
ValidSlot(slot) == slot \in 0..(BatchSize - 1) /\ slot < fetched
=============================================================================
