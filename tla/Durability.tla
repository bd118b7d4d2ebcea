----------------------------- MODULE Durability -----------------------------
(***************************************************************************)
(* What survives on the disk: the journal and sync modes that              *)
(* apply_pragmas asks for, commits, the checkpoint of the admin method and *)
(* of the end of the writer thread, readers in other processes, a killed   *)
(* process, a loss of power.  Commits are numbered by commit_seq; what     *)
(* SQLite does to the files is modelled from its documentation.            *)
(***************************************************************************)
EXTENDS Integers

CONSTANTS
  Readers,     \* connections of other processes (the file is opened by any of them)
  MaxCommits   \* bound on the commits

ASSUME DurabilityAssumption == MaxCommits \in Nat

JournalMode == {"Wal", "Delete"}
SyncMode    == {"Normal", "Full"}
NotReading  == -1

VARIABLES
  running,      \* does the writer have its connection?
  journal,      \* the journal mode of the file, which outlives connections
  synchronous,  \* the sync mode of the writer's connection
  committed,    \* the commits in the database
  inFile,       \* the commits that the main file has: the others are in the WAL
  synced,       \* the commits that a loss of power cannot take back
  walEmpty,     \* is the WAL file empty or absent?
  reading,      \* the commits in the snapshot of each reader
  kept          \* the commits the user may rely on, see Keep

vars == <<running, journal, synchronous, committed, inFile, synced, walEmpty, reading, kept>>

Init ==
  /\ running = FALSE
  /\ journal = "Delete" /\ synchronous = "Full"
  /\ committed = 0 /\ inFile = 0 /\ synced = 0 /\ walEmpty = TRUE
  /\ reading = [r \in Readers |-> NotReading]
  /\ kept = 0

Open == {r \in Readers : reading[r] # NotReading}

\* The user relies on the first n commits from now on.
Keep(n) == kept' = IF n > kept THEN n ELSE kept

-----------------------------------------------------------------------------

\* Mutant: the pragma is given the other mode.
SyncedOther(n) == IF journal = "Wal" THEN (IF synchronous = "Normal" THEN n ELSE synced) ELSE n - 1

\* How far the files are synced by commit n.  The removal of a rollback journal
\* is not synced: the last commit may be rolled back by it.
SyncedBy(n) == IF journal = "Wal" THEN (IF synchronous = "Full" THEN n ELSE synced) ELSE n - 1

\* A new journal mode needs the file for itself, and is a synced write to it that
\* finds the WAL copied.
\* synchronous is not stored in the file: each connection sets it.
ApplyPragmas ==
  /\ ~running /\ running' = TRUE
  /\ journal' \in JournalMode /\ synchronous' \in SyncMode
  /\ IF journal' # journal
     THEN Open = {} /\ inFile' = committed /\ synced' = committed /\ walEmpty' = TRUE
     ELSE UNCHANGED <<inFile, synced, walEmpty>>
  /\ UNCHANGED <<committed, reading, kept>>

Commit ==
  /\ running /\ committed < MaxCommits
  /\ journal = "Delete" => Open = {}   \* or it fails after busy_timeout
  /\ committed' = committed + 1
  /\ synced' = SyncedBy(committed')
  /\ IF journal = "Wal" THEN walEmpty' = FALSE /\ UNCHANGED inFile
                        ELSE inFile' = committed' /\ UNCHANGED walEmpty
  /\ Keep(IF journal = "Delete" THEN committed
          ELSE IF synchronous = "Full" THEN committed' ELSE kept)
  /\ UNCHANGED <<running, journal, synchronous, reading>>

-----------------------------------------------------------------------------
(* Checkpoints. *)

\* The WAL is copied as far as no snapshot is older: all of it when nobody reads,
\* perhaps less when somebody does.  It is synced before and the file after; with
\* nothing to copy nothing is synced.
CopyWal ==
  \E n \in inFile..committed :
    /\ n = inFile \/ \A r \in Open : n <= reading[r]
    /\ Open = {} => n = committed
    /\ inFile' = n
    /\ synced' = IF n > inFile THEN committed ELSE synced

\* Mutant: the WAL is thrown away although readers kept it from being copied.
TruncatedAnyway == walEmpty' = TRUE

\* The file is cut to nothing when it is all copied and no reader is in it: one
\* that found it all copied when it began is not.
Truncated ==
  /\ walEmpty' \in BOOLEAN
  /\ walEmpty' /\ ~walEmpty => inFile' = committed
  /\ Open = {} \/ walEmpty => walEmpty'

\* PRAGMA wal_checkpoint(TRUNCATE): Ok also when readers stopped it short, which
\* a result row says that execute_batch does not look at.
Truncate ==
  IF journal = "Wal" THEN CopyWal /\ Truncated ELSE UNCHANGED <<inFile, synced, walEmpty>>

\* In WAL mode, with no reader open, the user takes Ok for what it says.
KeepCheckpoint == Keep(IF journal = "Wal" /\ Open = {} THEN committed ELSE kept)

Checkpoint ==
  /\ running /\ Truncate /\ KeepCheckpoint
  /\ UNCHANGED <<running, journal, synchronous, committed, reading>>

\* The end of Writer::run, whose checkpoint may also fail, and of its connection.
Shutdown ==
  /\ running /\ running' = FALSE
  /\ \/ Truncate /\ KeepCheckpoint
     \/ UNCHANGED <<inFile, synced, walEmpty, kept>>
  /\ UNCHANGED <<journal, synchronous, committed, reading>>

\* SQLite copies on its own when the WAL is long, and does not wait for readers.
AutoCheckpoint ==
  /\ running /\ journal = "Wal" /\ CopyWal
  /\ UNCHANGED <<running, journal, synchronous, committed, walEmpty, reading, kept>>

-----------------------------------------------------------------------------
(* The others. *)

BeginRead(r) ==
  /\ reading[r] = NotReading /\ reading' = [reading EXCEPT ![r] = committed]
  /\ UNCHANGED <<running, journal, synchronous, committed, inFile, synced, walEmpty, kept>>

EndRead(r) ==
  /\ reading[r] # NotReading /\ reading' = [reading EXCEPT ![r] = NotReading]
  /\ UNCHANGED <<running, journal, synchronous, committed, inFile, synced, walEmpty, kept>>

Killed ==
  /\ running /\ running' = FALSE
  /\ UNCHANGED <<journal, synchronous, committed, inFile, synced, walEmpty, reading, kept>>

\* Of what is not synced, the disk has any prefix; what it has stays.  A WAL that
\* was cut may come back, with commits the file has.
PowerLoss ==
  /\ running' = FALSE /\ reading' = [r \in Readers |-> NotReading]
  /\ \E n \in synced..committed :
       /\ committed' = n /\ synced' = n
       /\ inFile' = IF n < inFile THEN n ELSE inFile
       /\ walEmpty' \in BOOLEAN /\ (walEmpty' => inFile' = n)
  /\ UNCHANGED <<journal, synchronous, kept>>

Next ==
  \/ ApplyPragmas \/ Commit \/ Checkpoint \/ Shutdown \/ AutoCheckpoint
  \/ (\E r \in Readers : BeginRead(r) \/ EndRead(r))
  \/ Killed \/ PowerLoss

Spec == Init /\ [][Next]_vars

-----------------------------------------------------------------------------

\* A commit the user may rely on is never taken back: one acknowledged under Wal
\* and Full, one that a checkpoint or an orderly shutdown covered while nobody
\* read, one that another followed under Delete (apply_pragmas, the two
\* checkpoints of Writer::run).  With the default, Wal and Normal, the others go
\* with the power, and their numbers are given again.
KeptSurvives == kept <= committed

\* An empty or absent WAL, which the statistics show as 0 or null, means that the
\* main file alone is the whole database, as does the answer to a checkpoint with
\* no reader open; the answer to another means nothing (wal_size_bytes,
\* GatewayHandle::checkpoint).
EmptyWalIsWhole == walEmpty => inFile = committed
=============================================================================
