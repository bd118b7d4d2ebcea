-------------------------- MODULE DurabilityProofs --------------------------
(***************************************************************************)
(* What the user relies on survives, for any readers and any number of     *)
(* commits.  The reason is that it has been synced, and that the main file *)
(* never has what is not.                                                  *)
(***************************************************************************)
EXTENDS Durability, TLAPS

\* Under Delete the main file may be ahead of what is synced by one commit.
Synced ==
  /\ journal \in JournalMode /\ synchronous \in SyncMode
  /\ committed \in Nat /\ inFile \in Nat /\ synced \in Int /\ kept \in Nat
  /\ kept <= synced /\ synced <= committed
  /\ inFile <= committed
  /\ walEmpty => inFile = committed
  /\ journal = "Delete" => inFile = committed
  /\ journal = "Wal" => inFile <= synced

\* A copy of the WAL takes nothing from the file and leaves the file synced.
LEMMA Copies ==
  ASSUME Synced, CopyWal, UNCHANGED committed, journal = "Wal"
  PROVE  /\ inFile' \in Nat /\ inFile' <= committed /\ inFile <= inFile'
         /\ synced' \in Int /\ synced <= synced' /\ synced' <= committed /\ inFile' <= synced'
         /\ Open = {} => inFile' = committed /\ synced' = committed
  BY DEF Synced, CopyWal

\* Both checkpoints of Writer::run, with what the user makes of their answer.
LEMMA Checkpoints ==
  ASSUME Synced, Truncate, KeepCheckpoint, UNCHANGED <<journal, synchronous, committed>>
  PROVE  Synced'
<1>1. CASE journal = "Wal"
  <2>1. CopyWal /\ Truncated
    BY <1>1 DEF Truncate
  <2>2. Open = {} => kept' \in {committed, kept}
    BY DEF KeepCheckpoint, Keep
  <2>3. Open # {} => kept' = kept
    BY DEF KeepCheckpoint, Keep
  <2> QED BY <1>1, <2>1, <2>2, <2>3, Copies DEF Synced, Truncated
<1>2. CASE journal = "Delete"
  BY <1>2 DEF Synced, Truncate, KeepCheckpoint, Keep
<1> QED BY <1>1, <1>2 DEF Synced, JournalMode

\* The invariant: one step for each thing that happens to the files.
LEMMA SyncedCorrect == Spec => []Synced
<1>1. Init => Synced
  BY DEF Init, Synced, JournalMode, SyncMode
<1>2. Synced /\ [Next]_vars => Synced'
  <2> SUFFICES ASSUME Synced, [Next]_vars PROVE Synced'
    OBVIOUS
  <2>1. CASE ApplyPragmas
    BY <2>1 DEF ApplyPragmas, Synced, JournalMode
  <2>2. CASE Commit
    BY <2>2 DEF Commit, SyncedBy, Keep, Synced, JournalMode, SyncMode
  <2>3. CASE Checkpoint
    BY <2>3, Checkpoints DEF Checkpoint, Synced
  <2>4. CASE Shutdown
    <3>1. CASE Truncate /\ KeepCheckpoint
      BY <2>4, <3>1, Checkpoints DEF Shutdown
    <3>2. CASE UNCHANGED <<inFile, synced, walEmpty, kept>>
      BY <2>4, <3>2 DEF Shutdown, Synced
    <3> QED BY <2>4, <3>1, <3>2 DEF Shutdown
  <2>5. CASE AutoCheckpoint
    BY <2>5, Copies DEF AutoCheckpoint, Synced
  <2>6. ASSUME NEW r \in Readers, BeginRead(r) \/ EndRead(r) PROVE Synced'
    BY <2>6 DEF BeginRead, EndRead, Synced
  <2>7. CASE Killed
    BY <2>7 DEF Killed, Synced
  <2>8. CASE PowerLoss
    <3>1. PICK n \in synced..committed :
             /\ committed' = n /\ synced' = n
             /\ inFile' = (IF n < inFile THEN n ELSE inFile)
             /\ walEmpty' \in BOOLEAN /\ (walEmpty' => inFile' = n)
      BY <2>8 DEF PowerLoss
    <3>2. n \in Nat /\ kept <= n /\ synced <= n /\ n <= committed
      BY <3>1 DEF Synced
    <3> QED BY <2>8, <3>1, <3>2 DEF PowerLoss, Synced, JournalMode
  <2>9. CASE UNCHANGED vars
    BY <2>9 DEF vars, Synced
  <2> QED BY <2>1, <2>2, <2>3, <2>4, <2>5, <2>6, <2>7, <2>8, <2>9 DEF Next
<1> QED BY <1>1, <1>2, PTL DEF Spec

\* No loss of power takes back a commit that the modes, a checkpoint or a
\* shutdown had made safe.
THEOREM KeptCorrect == Spec => []KeptSurvives
<1>1. Synced => KeptSurvives
  BY DEF Synced, KeptSurvives
<1> QED BY <1>1, SyncedCorrect, PTL

\* With an empty WAL the main file is the database.
THEOREM EmptyWalCorrect == Spec => []EmptyWalIsWhole
<1>1. Synced => EmptyWalIsWhole
  BY DEF Synced, EmptyWalIsWhole
<1> QED BY <1>1, SyncedCorrect, PTL
=============================================================================
