--------------------------- MODULE DirStreamProofs ---------------------------
(***************************************************************************)
(* Facts about DirStream that the proofs of both directory walks need.     *)
(*                                                                         *)
(* OneFill is the premise of most theorems about the walks: one refill of  *)
(* the buffer brings in all of the directory, so that a dirent is the      *)
(* entry that was handed out whenever it is read.  Without it two threads  *)
(* may get hold of the same file, and another file of none.                *)
(***************************************************************************)
EXTENDS DirStream, FiniteSetTheorems, TLAPS

OneFill == BatchSize >= Len(Dir)

\* What OneFill keeps true of the buffer.
OneBatch == base = 0 /\ fetched \in {0, Len(Dir)}

\* The entries that readdir has handed out.
Handed == {Dir[i] : i \in 1..dirpos}

\* readdir keeps the stream well-formed and hands out a valid slot.
LEMMA AdvanceType ==
  ASSUME DirTypeOK, Advance
  PROVE  /\ DirTypeOK'
         /\ NextSlot \in 0..(BatchSize - 1) /\ NextSlot < fetched'
         /\ dirpos' = dirpos + 1 /\ fetched' >= fetched
<1> USE DEF DirTypeOK, NextSlot, AtEnd
<1>1. Len(Dir) \in Nat /\ BatchSize \in Nat /\ BatchSize > 0 /\ dirpos # Len(Dir)
  BY DirAssumption DEF Advance
<1>2. CASE dirpos = fetched
  <2>1. /\ dirpos' = dirpos + 1 /\ base' = fetched
        /\ fetched' = IF fetched + BatchSize < Len(Dir)
                        THEN fetched + BatchSize ELSE Len(Dir)
    BY <1>2 DEF Advance
  <2> QED BY <1>1, <1>2, <2>1
<1>3. CASE dirpos # fetched
  <2>1. dirpos' = dirpos + 1 /\ base' = base /\ fetched' = fetched
    BY <1>3 DEF Advance
  <2> QED BY <1>1, <1>3, <2>1
<1> QED BY <1>2, <1>3

\* Whatever slot was handed out, an entry of the directory is found there.
LEMMA EntryAtType ==
  ASSUME DirTypeOK, NEW slot, ValidSlot(slot)
  PROVE  EntryAt(slot) \in Entries
  BY DirAssumption DEF DirTypeOK, ValidSlot, EntryAt, Entries

LEMMA HandedFacts ==
  ASSUME DirTypeOK
  PROVE  /\ dirpos \in Nat /\ Len(Dir) \in Nat /\ dirpos <= Len(Dir)
         /\ Handed \subseteq Entries /\ (AtEnd => Handed = Entries)
  BY DirAssumption DEF DirTypeOK, Handed, Entries, AtEnd

\* The next entry is one that nobody has had.
LEMMA FreshEntry ==
  ASSUME DirTypeOK, dirpos < Len(Dir), dirpos' = dirpos + 1
  PROVE  /\ Dir[dirpos + 1] \in Entries /\ Dir[dirpos + 1] \notin Handed
         /\ Handed' = Handed \cup {Dir[dirpos + 1]}
<1>1. dirpos \in Nat /\ Len(Dir) \in Nat
  BY DirAssumption DEF DirTypeOK
<1>2. \A i, j \in 1..Len(Dir) : Dir[i] = Dir[j] => i = j
  BY DirAssumption
<1>3. 1..dirpos' = (1..dirpos) \cup {dirpos + 1}
  BY <1>1
<1> QED BY <1>1, <1>2, <1>3 DEF Handed, Entries

\* Under OneFill readdir gives every entry a slot of its own.
LEMMA BatchStep ==
  ASSUME OneFill, DirTypeOK, OneBatch, Advance
  PROVE  OneBatch' /\ NextSlot = dirpos /\ dirpos < Len(Dir) /\ dirpos' = dirpos + 1
  BY DirAssumption DEF OneFill, OneBatch, Advance, NextSlot, AtEnd, DirTypeOK

\* Under OneFill a dirent is what was handed out, whenever it is read.
LEMMA EntryStays ==
  ASSUME OneFill, DirTypeOK, OneBatch, NEW slot \in Nat, slot < dirpos
  PROVE  /\ EntryAt(slot) = Dir[slot + 1] /\ slot < Len(Dir)
         /\ Dir[slot + 1] \in Handed /\ Dir[slot + 1] \in Entries
  BY DirAssumption DEF OneFill, OneBatch, EntryAt, DirTypeOK, Handed, Entries
=============================================================================
