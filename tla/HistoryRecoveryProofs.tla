----------------------- MODULE HistoryRecoveryProofs -----------------------
(***************************************************************************)
(* Proofs about HistoryRecovery, for any number of transcripts and restarts: *)
(* no transcript is forgotten, PENDING covers what is only in memory, and   *)
(* Last Transcript is the newest and never goes back.                       *)
(***************************************************************************)
EXTENDS HistoryRecovery, FiniteSetTheorems, TLAPS

\* What a thread works on fits where it is.
JobFits ==
    \A t \in Threads :
        /\ record[t] \in Handed \cup {None}
        /\ pc[t] \in {"media", "to_persist", "appending", "saving_last", "leaving"}
            => record[t] # None
        /\ pc[t] = "idle" => record[t] = None

Mutex == \A t \in Threads : pc[t] \in UnderMutex <=> holder = t

\* A thread's own transcript stays in memory until it is on disk, and a retry's
\* list says what is in memory.
InHand ==
    \A t \in Threads :
        /\ pc[t] = "retrying" => todo[t] \subseteq pending
        /\ pc[t] = "appending" => record[t] \in pending
        /\ pc[t] \in {"saving_last", "leaving"} => record[t] \in pending \cup Durable

\* What was lost with an earlier process does not come back.
LostIsPast ==
    /\ pending \subseteq Handed
    /\ lost \subseteq Handed
    /\ lost \cap pending = {}
    /\ \A t \in Threads : record[t] \notin lost

\* PENDING is never below what is in memory.
CountHolds ==
    /\ counted >= Cardinality(pending)
    /\ holder = NoThread => counted = Cardinality(pending)

\* Only the loop's transcripts become Last, and they come in order.
KeepsInOrder ==
    /\ keeps \subseteq Handed
    /\ \A t \in Threads : record[t] \in keeps => t = Loop
    /\ \A t \in Threads : pc[t] = "saving_last" => record[t] \in keeps
    /\ \A t \in Threads :
        pc[t] \in {"appending", "saving_last"} /\ record[t] \in keeps => last = record[t]
    /\ lastFile <= handed
    /\ record[Loop] \in keeps => lastFile <= record[Loop]

\* What was told is in the file, and in memory or about to be.
ToldHolds ==
    /\ told <= lastFile
    /\ last # None => told <= last
    /\ startup = "read" /\ last = None => told <= seen
    /\ startup = "done" => told <= last

\* The inductive invariant behind the theorems.
RecoveryInv == TypeOK /\ JobFits /\ Mutex /\ InHand /\ LostIsPast
               /\ NothingForgotten /\ CountHolds /\ KeepsInOrder /\ ToldHolds
               /\ LastIsNewest


-----------------------------------------------------------------------------
(* Numbers and finite sets. *)

\* A transcript is a number from 1 on, and one that was handed over is one.
LEMMA Numbers ==
    ASSUME DiskTypes
    PROVE  /\ \A r \in Transcripts : r \in Nat /\ r > 0
           /\ \A r \in Handed : r \in Nat /\ 0 < r /\ r <= handed
           /\ Handed \subseteq Transcripts
           /\ None \notin Transcripts
           /\ handed \in Nat
  BY BoundsAreNumbers DEF DiskTypes, Transcripts, Handed, None

\* Handing one over adds the next number.
LEMMA NextNumber ==
    ASSUME DiskTypes, handed < MaxTranscripts, handed' = handed + 1
    PROVE  /\ handed' \in Transcripts
           /\ handed' \in 0..MaxTranscripts
           /\ Handed' = Handed \cup {handed'}
           /\ handed' \notin Handed
           /\ \A r \in Handed \cup {None} : r < handed'
  BY BoundsAreNumbers DEF DiskTypes, Transcripts, Handed, None


\* What is in memory is finite, so PENDING can count it.
LEMMA PendingIsFinite ==
    ASSUME MemoryTypes
    PROVE  IsFiniteSet(pending) /\ Cardinality(pending) \in Nat
<1>1. IsFiniteSet(Transcripts)
  BY BoundsAreNumbers, FS_Interval DEF Transcripts
<1>2. IsFiniteSet(pending)
  BY <1>1, FS_Subset DEF MemoryTypes
<1>3. QED
  BY <1>2, FS_CardinalityType

\* And so can it with one more.
LEMMA EarlyCountIsNumber ==
    ASSUME MemoryTypes, NEW t \in Threads
    PROVE  EarlyCount(t) \in Nat
<1>1. IsFiniteSet(pending \cup {record[t]})
  BY PendingIsFinite, FS_AddElement
<1>2. QED
  BY <1>1, FS_CardinalityType DEF EarlyCount

-----------------------------------------------------------------------------
(* The steps, part by part. *)

\* A process that just started has nothing in memory.
LEMMA FreshTypes == InMemory => ThreadTypes /\ MemoryTypes /\ FlagTypes
<1> SUFFICES ASSUME InMemory PROVE ThreadTypes /\ MemoryTypes /\ FlagTypes
  OBVIOUS
<1>1. ThreadTypes
  BY DEF InMemory, ThreadTypes, Steps
<1>2. MemoryTypes
  BY DEF InMemory, MemoryTypes
<1>3. FlagTypes
  BY Zenon DEF InMemory, FlagTypes
<1>4. QED
  BY <1>1, <1>2, <1>3

\* Every part holds when the program first starts.
LEMMA InitRecovery == Init => RecoveryInv
<1> SUFFICES ASSUME Init PROVE RecoveryInv
  OBVIOUS
<1>1. TypeOK
  <2>1. DiskTypes
    BY BoundsAreNumbers DEF Init, DiskTypes, Stores
  <2>2. QED
    BY <2>1, FreshTypes DEF Init, TypeOK
<1>2. JobFits /\ InHand /\ LostIsPast /\ NothingForgotten
  BY DEF Init, InMemory, JobFits, InHand, LostIsPast, NothingForgotten, Handed, None
<1>3. Mutex
  BY ThreadsDiffer DEF Init, InMemory, Mutex, UnderMutex
<1>4. CountHolds
  BY FS_EmptySet DEF Init, InMemory, CountHolds
<1>5. KeepsInOrder /\ ToldHolds /\ LastIsNewest
  BY ThreadsDiffer DEF Init, InMemory, KeepsInOrder, ToldHolds, LastIsNewest, Threads,
     None, Handed
<1>6. QED
  BY <1>1, <1>2, <1>3, <1>4, <1>5 DEF RecoveryInv

\* The flags stay Boolean.
LEMMA FlagsTyped ==
    ASSUME FlagTypes, Next
    PROVE  FlagTypes'
  BY Zenon DEF FlagTypes, Next, Hand, AskRetry, Work, WriteMedia, BeginRetry, RetryOne,
     EndRetry, BeginPersist, AppendRecord, SaveLast, EndPersist, Restore, ReadLastFile,
     RestoreLast, StoresChange, ProcessEnds, memory, disk

\* A thread's step keeps every variable in its type.
LEMMA ThreadsTyped ==
    ASSUME ThreadTypes, MemoryTypes, DiskTypes, JobFits, NEW t \in Threads,
           Hand(t) \/ AskRetry(t) \/ Work(t)
    PROVE  ThreadTypes' /\ MemoryTypes' /\ DiskTypes'
<1> USE DEF ThreadTypes, MemoryTypes, DiskTypes, Goto, Steps, disk, ghosts
<1>1. CASE Hand(t)
  <2>1. handed' \in Transcripts /\ handed' \in 0..MaxTranscripts
    BY <1>1, NextNumber DEF Hand
  <2>2. QED
    BY <1>1, <2>1 DEF Hand
<1>2. CASE AskRetry(t)
  BY <1>2 DEF AskRetry
<1>3. CASE WriteMedia(t)
  <2>1. record[t] \in Transcripts
    BY <1>3, Numbers DEF WriteMedia, JobFits
  <2>2. QED
    BY <1>3, <2>1 DEF WriteMedia
<1>4. CASE BeginRetry(t)
  BY <1>4 DEF BeginRetry, Enter, Onward
<1>5. CASE RetryOne(t)
  BY <1>5 DEF RetryOne, Stored
<1>6. CASE EndRetry(t)
  BY <1>6, PendingIsFinite DEF EndRetry, Leave, Onward
<1>7. CASE BeginPersist(t)
  <2>1. record[t] \in Transcripts
    BY <1>7, Numbers DEF BeginPersist, JobFits
  <2>2. QED
    BY <1>7, <2>1, EarlyCountIsNumber DEF BeginPersist, Enter
<1>8. CASE AppendRecord(t)
  <2>1. record[t] \in Transcripts
    BY <1>8, Numbers DEF AppendRecord, JobFits
  <2>2. QED
    BY <1>8, <2>1 DEF AppendRecord, Stored
<1>9. CASE SaveLast(t)
  BY <1>9 DEF SaveLast, ReplaceLast
<1>10. CASE EndPersist(t)
  BY <1>10, PendingIsFinite DEF EndPersist, Leave
<1>11. QED
  BY <1>1, <1>2, <1>3, <1>4, <1>5, <1>6, <1>7, <1>8, <1>9, <1>10 DEF Work

\* So do the startup thread, the stores and a restart.
LEMMA WorldTyped ==
    ASSUME ThreadTypes, MemoryTypes, DiskTypes, Restore \/ StoresChange \/ ProcessEnds
    PROVE  ThreadTypes' /\ MemoryTypes' /\ DiskTypes'
<1> USE DEF ThreadTypes, MemoryTypes, DiskTypes, disk, ghosts, memory
<1>1. CASE Restore
  BY <1>1 DEF Restore, ReadLastFile, RestoreLast, Restored
<1>2. CASE StoresChange
  BY <1>2 DEF StoresChange
<1>3. CASE ProcessEnds
  <2>1. ThreadTypes'
    BY <1>3 DEF ProcessEnds, Steps
  <2>2. MemoryTypes'
    BY <1>3 DEF ProcessEnds
  <2>3. DiskTypes'
    BY <1>3, Numbers, BoundsAreNumbers DEF ProcessEnds
  <2>4. QED
    BY <2>1, <2>2, <2>3
<1>4. QED
  BY <1>1, <1>2, <1>3

\* What was handed over stays so while no thread hands over more.
LEMMA HandedStays == handed' = handed => Handed' = Handed
  BY DEF Handed

\* One thread at a time is inside the mutex.
LEMMA MutexKept ==
    ASSUME ThreadTypes, Mutex, NEW t \in Threads, Hand(t) \/ AskRetry(t) \/ Work(t)
    PROVE  Mutex'
<1> USE ThreadsDiffer DEF ThreadTypes, Mutex, UnderMutex, Goto
<1>1. CASE Hand(t)
  BY <1>1 DEF Hand
<1>2. CASE AskRetry(t)
  BY <1>2 DEF AskRetry
<1>3. CASE WriteMedia(t)
  BY <1>3 DEF WriteMedia
<1>4. CASE BeginRetry(t)
  BY <1>4 DEF BeginRetry, Enter, Onward
<1>5. CASE RetryOne(t)
  BY <1>5 DEF RetryOne
<1>6. CASE EndRetry(t)
  BY <1>6 DEF EndRetry, Leave, Onward
<1>7. CASE BeginPersist(t)
  BY <1>7 DEF BeginPersist, Enter
<1>8. CASE AppendRecord(t)
  BY <1>8 DEF AppendRecord
<1>9. CASE SaveLast(t)
  BY <1>9 DEF SaveLast
<1>10. CASE EndPersist(t)
  BY <1>10 DEF EndPersist, Leave
<1>11. QED
  BY <1>1, <1>2, <1>3, <1>4, <1>5, <1>6, <1>7, <1>8, <1>9, <1>10 DEF Work

\* A thread knows what it works on.
LEMMA JobsKept ==
    ASSUME ThreadTypes, DiskTypes, JobFits, NEW t \in Threads,
           Hand(t) \/ AskRetry(t) \/ Work(t)
    PROVE  JobFits'
<1> USE HandedStays DEF ThreadTypes, JobFits, Goto, Steps
<1>1. CASE Hand(t)
  <2>1. Handed' = Handed \cup {handed'} /\ handed' # None
    BY <1>1, NextNumber, Numbers DEF Hand
  <2>2. QED
    BY <1>1, <2>1 DEF Hand
<1>2. CASE AskRetry(t)
  BY <1>2 DEF AskRetry
<1>3. CASE WriteMedia(t)
  BY <1>3 DEF WriteMedia
<1>4. CASE BeginRetry(t)
  BY <1>4 DEF BeginRetry, Enter, Onward
<1>5. CASE RetryOne(t)
  BY <1>5 DEF RetryOne
<1>6. CASE EndRetry(t)
  BY <1>6 DEF EndRetry, Leave, Onward
<1>7. CASE BeginPersist(t)
  BY <1>7 DEF BeginPersist, Enter
<1>8. CASE AppendRecord(t)
  BY <1>8 DEF AppendRecord
<1>9. CASE SaveLast(t)
  BY <1>9 DEF SaveLast
<1>10. CASE EndPersist(t)
  BY <1>10 DEF EndPersist, Leave
<1>11. QED
  BY <1>1, <1>2, <1>3, <1>4, <1>5, <1>6, <1>7, <1>8, <1>9, <1>10 DEF Work
\* A transcript in hand stays in memory or on disk.
LEMMA InHandKept ==
    ASSUME ThreadTypes, MemoryTypes, Mutex, InHand, NEW t \in Threads,
           Hand(t) \/ AskRetry(t) \/ Work(t)
    PROVE  InHand'
<1> USE DEF ThreadTypes, Mutex, UnderMutex, InHand, Durable, Goto, disk
<1>1. CASE Hand(t)
  BY <1>1 DEF Hand
<1>2. CASE AskRetry(t)
  BY <1>2 DEF AskRetry
<1>3. CASE WriteMedia(t)
  BY <1>3 DEF WriteMedia
<1>4. CASE BeginRetry(t)
  BY <1>4 DEF BeginRetry, Enter, Onward
<1>5. CASE RetryOne(t)
  BY <1>5 DEF RetryOne, Stored
<1>6. CASE EndRetry(t)
  BY <1>6 DEF EndRetry, Leave, Onward
<1>7. CASE BeginPersist(t)
  BY <1>7 DEF BeginPersist, Enter
<1>8. CASE AppendRecord(t)
  BY <1>8 DEF AppendRecord, Stored
<1>9. CASE SaveLast(t)
  BY <1>9 DEF SaveLast
<1>10. CASE EndPersist(t)
  BY <1>10 DEF EndPersist, Leave
<1>11. QED
  BY <1>1, <1>2, <1>3, <1>4, <1>5, <1>6, <1>7, <1>8, <1>9, <1>10 DEF Work

\* What an earlier process lost is not taken up again.
LEMMA LostKept ==
    ASSUME ThreadTypes, DiskTypes, JobFits, InHand, LostIsPast, NEW t \in Threads,
           Hand(t) \/ AskRetry(t) \/ Work(t)
    PROVE  LostIsPast'
<1> USE HandedStays, Numbers DEF ThreadTypes, JobFits, LostIsPast, Goto, ghosts
<1>1. CASE Hand(t)
  <2>1. Handed' = Handed \cup {handed'} /\ handed' \notin Handed
    BY <1>1, NextNumber DEF Hand
  <2>2. QED
    BY <1>1, <2>1 DEF Hand
<1>2. CASE AskRetry(t)
  BY <1>2 DEF AskRetry
<1>3. CASE WriteMedia(t)
  BY <1>3 DEF WriteMedia
<1>4. CASE BeginRetry(t)
  BY <1>4 DEF BeginRetry, Enter, Onward
<1>5. CASE RetryOne(t)
  BY <1>5 DEF RetryOne, Stored
<1>6. CASE EndRetry(t)
  BY <1>6 DEF EndRetry, Leave, Onward
<1>7. CASE BeginPersist(t)
  BY <1>7 DEF BeginPersist, Enter
<1>8. CASE AppendRecord(t)
  BY <1>8 DEF AppendRecord, Stored
<1>9. CASE SaveLast(t)
  BY <1>9 DEF SaveLast
<1>10. CASE EndPersist(t)
  BY <1>10 DEF EndPersist, Leave
<1>11. QED
  BY <1>1, <1>2, <1>3, <1>4, <1>5, <1>6, <1>7, <1>8, <1>9, <1>10 DEF Work

\* No transcript falls between memory and disk.
LEMMA NothingDropped ==
    ASSUME ThreadTypes, DiskTypes, JobFits, Mutex, InHand, LostIsPast, NothingForgotten,
           NEW t \in Threads, Hand(t) \/ AskRetry(t) \/ Work(t)
    PROVE  NothingForgotten'
<1> USE HandedStays, Numbers DEF ThreadTypes, JobFits, LostIsPast, InHand, NothingForgotten,
        Durable, Goto, disk, ghosts
<1>1. CASE Hand(t)
  <2>1. Handed' = Handed \cup {handed'}
    BY <1>1, NextNumber DEF Hand
  <2>2. QED
    BY <1>1, <2>1 DEF Hand
<1>2. CASE AskRetry(t)
  BY <1>2 DEF AskRetry
<1>3. CASE WriteMedia(t)
  BY <1>3 DEF WriteMedia
<1>4. CASE BeginRetry(t)
  BY <1>4 DEF BeginRetry, Enter, Onward
<1>5. CASE RetryOne(t)
  BY <1>5 DEF RetryOne, Stored
<1>6. CASE EndRetry(t)
  BY <1>6 DEF EndRetry, Leave, Onward
<1>7. CASE BeginPersist(t)
  BY <1>7 DEF BeginPersist, Enter
<1>8. CASE AppendRecord(t)
  BY <1>8 DEF AppendRecord, Stored
<1>9. CASE SaveLast(t)
  BY <1>9 DEF SaveLast
<1>10. CASE EndPersist(t)
  BY <1>10 DEF EndPersist, Leave
<1>11. QED
  BY <1>1, <1>2, <1>3, <1>4, <1>5, <1>6, <1>7, <1>8, <1>9, <1>10 DEF Work

\* A retry or a write that succeeds leaves fewer in memory.
LEMMA FewerPending ==
    ASSUME MemoryTypes, pending' \subseteq pending
    PROVE  Cardinality(pending') <= Cardinality(pending) /\ Cardinality(pending') \in Nat
  BY PendingIsFinite, FS_Subset, FS_CardinalityType

\* PENDING is raised before a transcript enters memory and made exact on the way out.
LEMMA CountKept ==
    ASSUME ThreadTypes, MemoryTypes, Mutex, CountHolds, NEW t \in Threads,
           Hand(t) \/ AskRetry(t) \/ Work(t)
    PROVE  CountHolds'
<1> USE DEF CountHolds, MemoryTypes
<1>1. CASE Hand(t)
  BY <1>1 DEF Hand
<1>2. CASE AskRetry(t)
  BY <1>2 DEF AskRetry
<1>3. CASE WriteMedia(t)
  BY <1>3 DEF WriteMedia
<1>4. CASE BeginRetry(t)
  BY <1>4, PendingIsFinite DEF BeginRetry, Enter
<1>5. CASE RetryOne(t)
  BY <1>5, FewerPending, PendingIsFinite, ThreadsDiffer DEF RetryOne, Mutex, UnderMutex
<1>6. CASE EndRetry(t)
  BY <1>6, PendingIsFinite DEF EndRetry
<1>7. CASE BeginPersist(t)
  <2>1. counted' = Cardinality(pending') /\ counted' \in Nat
    BY <1>7, EarlyCountIsNumber DEF BeginPersist, EarlyCount
  <2>2. holder' # NoThread
    BY <1>7, ThreadsDiffer DEF BeginPersist, Enter
  <2>3. QED
    BY <2>1, <2>2
<1>8. CASE AppendRecord(t)
  BY <1>8, FewerPending, PendingIsFinite, ThreadsDiffer DEF AppendRecord, Mutex, UnderMutex
<1>9. CASE SaveLast(t)
  BY <1>9 DEF SaveLast
<1>10. CASE EndPersist(t)
  BY <1>10, PendingIsFinite DEF EndPersist
<1>11. QED
  BY <1>1, <1>2, <1>3, <1>4, <1>5, <1>6, <1>7, <1>8, <1>9, <1>10 DEF Work

\* Transcripts become Last in the order they were handed over.
LEMMA KeepsKept ==
    ASSUME ThreadTypes, MemoryTypes, DiskTypes, JobFits, Mutex, KeepsInOrder,
           NEW t \in Threads, Hand(t) \/ AskRetry(t) \/ Work(t)
    PROVE  KeepsInOrder'
<1> USE HandedStays, Numbers, ThreadsDiffer
    DEF ThreadTypes, JobFits, Mutex, UnderMutex, KeepsInOrder, Goto, disk, Threads
<1>1. CASE Hand(t)
  <2>1. Handed' = Handed \cup {handed'} /\ handed' \notin Handed /\ handed' # None
    BY <1>1, NextNumber, Numbers DEF Hand
  <2>2. UNCHANGED <<lastFile, last>> /\ handed' = handed + 1
    BY <1>1 DEF Hand
  <2>3. lastFile' <= handed'
    <3>1. lastFile \in Nat
      BY DEF DiskTypes, None
    <3>2. QED
      BY <2>2, <3>1
  <2>4. keeps' \subseteq Handed'
    BY <1>1, <2>1 DEF Hand
  <2>5. \A u \in Threads : record'[u] \in keeps' => u = Loop
    BY <1>1, <2>1 DEF Hand
  <2>6. record'[Loop] \in keeps' => lastFile' <= record'[Loop]
    BY <1>1, <2>1, <2>2, <2>3 DEF Hand
  <2>7. \A u \in Threads : pc'[u] \in {"appending", "saving_last"} =>
            pc[u] = pc'[u] /\ record'[u] = record[u] /\ u # t
    BY <1>1 DEF Hand
  <2>8. \A u \in Threads : pc'[u] \in {"appending", "saving_last"} =>
            (record'[u] \in keeps' <=> record[u] \in keeps)
    BY <1>1, <2>1, <2>7 DEF Hand
  <2>9. QED
    BY <2>1, <2>2, <2>3, <2>4, <2>5, <2>6, <2>7, <2>8
<1>2. CASE AskRetry(t)
  BY <1>2 DEF AskRetry
<1>3. CASE WriteMedia(t)
  BY <1>3 DEF WriteMedia
<1>4. CASE BeginRetry(t)
  BY <1>4 DEF BeginRetry, Enter, Onward
<1>5. CASE RetryOne(t)
  BY <1>5 DEF RetryOne, Stored
<1>6. CASE EndRetry(t)
  BY <1>6 DEF EndRetry, Leave, Onward
<1>7. CASE BeginPersist(t)
  BY <1>7 DEF BeginPersist, Enter
<1>8. CASE AppendRecord(t)
  BY <1>8 DEF AppendRecord, Stored
<1>9. CASE SaveLast(t)
  BY <1>9 DEF SaveLast, ReplaceLast
<1>10. CASE EndPersist(t)
  BY <1>10 DEF EndPersist, Leave
<1>11. QED
  BY <1>1, <1>2, <1>3, <1>4, <1>5, <1>6, <1>7, <1>8, <1>9, <1>10 DEF Work

\* What was told stays true.
LEMMA ToldKept ==
    ASSUME ThreadTypes, MemoryTypes, DiskTypes, JobFits, KeepsInOrder, ToldHolds,
           LastIsNewest, NEW t \in Threads, Hand(t) \/ AskRetry(t) \/ Work(t)
    PROVE  ToldHolds' /\ LastIsNewest'
<1> USE Numbers DEF MemoryTypes, DiskTypes, ToldHolds, LastIsNewest, disk, ghosts
<1>1. CASE Hand(t)
  BY <1>1 DEF Hand
<1>2. CASE AskRetry(t)
  BY <1>2 DEF AskRetry
<1>3. CASE WriteMedia(t)
  BY <1>3 DEF WriteMedia
<1>4. CASE BeginRetry(t)
  BY <1>4 DEF BeginRetry, Enter, Onward
<1>5. CASE RetryOne(t)
  BY <1>5 DEF RetryOne, Stored
<1>6. CASE EndRetry(t)
  BY <1>6 DEF EndRetry, Leave, Onward
<1>7. CASE BeginPersist(t)
  <2>1. record[t] \in keeps => t = Loop /\ lastFile <= record[t] /\ record[t] \in Transcripts
    BY <1>7 DEF KeepsInOrder
  <2>2. told \in Nat /\ lastFile \in Nat /\ \A r \in Transcripts : r \in Nat
    BY DEF None
  <2>3. QED
    BY <1>7, <2>1, <2>2 DEF BeginPersist
<1>8. CASE AppendRecord(t)
  BY <1>8 DEF AppendRecord, Stored
<1>9. CASE SaveLast(t)
  <2>1. /\ record[t] \in Transcripts /\ last = record[t] /\ lastFile <= record[t]
    BY <1>9 DEF SaveLast, KeepsInOrder
  <2>2. told \in Nat /\ lastFile \in Nat /\ \A r \in Transcripts : r \in Nat
    BY DEF None
  <2>3. QED
    BY <1>9, <2>1, <2>2 DEF SaveLast, ReplaceLast
<1>10. CASE EndPersist(t)
  BY <1>10 DEF EndPersist, Leave
<1>11. QED
  BY <1>1, <1>2, <1>3, <1>4, <1>5, <1>6, <1>7, <1>8, <1>9, <1>10 DEF Work

\* The startup thread, the stores and a restart keep every part.
LEMMA WorldKept ==
    ASSUME RecoveryInv, Restore \/ StoresChange \/ ProcessEnds
    PROVE  /\ JobFits' /\ Mutex' /\ InHand' /\ LostIsPast' /\ NothingForgotten'
           /\ CountHolds' /\ KeepsInOrder' /\ ToldHolds' /\ LastIsNewest'
<1> USE DEF RecoveryInv, TypeOK
<1>1. CASE ReadLastFile
  <2>1. UNCHANGED <<holder, pc, record, keeps, todo, pending, last, counted, kept,
                    database, folder, lastFile, handed, promised, told, lost>>
    BY <1>1 DEF ReadLastFile, disk, ghosts
  <2>2. JobFits' /\ Mutex' /\ InHand' /\ LostIsPast' /\ NothingForgotten'
    BY <2>1 DEF JobFits, Mutex, InHand, LostIsPast, NothingForgotten, Handed, Durable
  <2>3. CountHolds' /\ KeepsInOrder' /\ LastIsNewest'
    BY <2>1 DEF CountHolds, KeepsInOrder, LastIsNewest, Handed
  <2>4. ToldHolds'
    BY <1>1, <2>1 DEF ReadLastFile, ToldHolds
  <2>5. QED
    BY <2>2, <2>3, <2>4
<1>2. CASE RestoreLast
  <2>1. UNCHANGED <<holder, pc, record, keeps, todo, pending, counted, kept,
                    database, folder, lastFile, handed, promised, told, lost>>
    BY <1>2 DEF RestoreLast, disk, ghosts
  <2>2. JobFits' /\ Mutex' /\ InHand' /\ LostIsPast' /\ NothingForgotten'
    BY <2>1 DEF JobFits, Mutex, InHand, LostIsPast, NothingForgotten, Handed, Durable
  <2>3. \A t \in Threads : pc[t] \notin {"appending", "saving_last"}
    BY <1>2, ThreadsDiffer DEF RestoreLast, Mutex, UnderMutex
  <2>4. CountHolds' /\ KeepsInOrder'
    BY <2>1, <2>3 DEF CountHolds, KeepsInOrder, Handed
  <2>5. ToldHolds' /\ LastIsNewest'
    BY <1>2, <2>1 DEF RestoreLast, Restored, ToldHolds, LastIsNewest
  <2>6. QED
    BY <2>2, <2>4, <2>5
<1>3. CASE StoresChange
  <2>1. UNCHANGED <<holder, pc, record, keeps, todo, pending, last, counted, startup, seen,
                    kept, database, folder, lastFile, handed, promised, told, lost>>
    BY <1>3 DEF StoresChange, memory, ghosts
  <2>2. JobFits' /\ Mutex' /\ InHand' /\ LostIsPast' /\ NothingForgotten'
    BY <2>1 DEF JobFits, Mutex, InHand, LostIsPast, NothingForgotten, Handed, Durable
  <2>3. CountHolds' /\ KeepsInOrder' /\ ToldHolds' /\ LastIsNewest'
    BY <2>1 DEF CountHolds, KeepsInOrder, ToldHolds, LastIsNewest, Handed
  <2>4. QED
    BY <2>2, <2>3
<1>4. CASE ProcessEnds
  <2>1. Handed' = Handed /\ None \notin Handed
    BY <1>4, HandedStays, Numbers DEF ProcessEnds
  <2>2. \A t \in Threads : pc'[t] = "idle" /\ record'[t] = None
    BY <1>4 DEF ProcessEnds
  <2>3. UNCHANGED <<database, folder, lastFile, handed, promised, told>>
    BY <1>4 DEF ProcessEnds, disk
  <2>4. holder' = NoThread /\ pending' = {} /\ keeps' = {} /\ counted' = 0
        /\ last' = None /\ kept' = None /\ startup' = "starting"
        /\ lost' = lost \cup (Handed \ Durable)
    BY <1>4 DEF ProcessEnds
  <2>5. JobFits' /\ InHand'
    BY <2>1, <2>2, <2>4 DEF JobFits, InHand
  <2>6. Mutex'
    BY <2>2, <2>4, ThreadsDiffer DEF Mutex, UnderMutex
  <2>7. LostIsPast' /\ NothingForgotten'
    BY <2>1, <2>2, <2>3, <2>4 DEF LostIsPast, NothingForgotten, Durable
  <2>8. CountHolds'
    BY <2>4, FS_EmptySet DEF CountHolds
  <2>9. KeepsInOrder' /\ ToldHolds' /\ LastIsNewest'
    BY <2>1, <2>2, <2>3, <2>4 DEF KeepsInOrder, ToldHolds, LastIsNewest
  <2>10. QED
    BY <2>5, <2>6, <2>7, <2>8, <2>9
<1>5. QED
  BY <1>1, <1>2, <1>3, <1>4 DEF Restore

\* Every step keeps the invariant.
LEMMA NextRecovery == RecoveryInv /\ [Next]_vars => RecoveryInv'
<1> SUFFICES ASSUME RecoveryInv, [Next]_vars PROVE RecoveryInv'
  OBVIOUS
<1> USE DEF RecoveryInv, TypeOK
<1>1. ASSUME NEW t \in Threads, Hand(t) \/ AskRetry(t) \/ Work(t)
      PROVE  RecoveryInv'
  <2>1. FlagTypes'
    BY <1>1, FlagsTyped DEF Next
  <2>2. ThreadTypes' /\ MemoryTypes' /\ DiskTypes'
    BY <1>1, ThreadsTyped
  <2>3. JobFits' /\ Mutex' /\ InHand' /\ LostIsPast'
    BY <1>1, JobsKept, MutexKept, InHandKept, LostKept
  <2>4. NothingForgotten' /\ CountHolds' /\ KeepsInOrder' /\ ToldHolds' /\ LastIsNewest'
    BY <1>1, NothingDropped, CountKept, KeepsKept, ToldKept
  <2>5. QED
    BY <2>1, <2>2, <2>3, <2>4
<1>2. ASSUME Restore \/ StoresChange \/ ProcessEnds
      PROVE  RecoveryInv'
  <2>1. FlagTypes'
    BY <1>2, FlagsTyped DEF Next
  <2>2. ThreadTypes' /\ MemoryTypes' /\ DiskTypes'
    BY <1>2, WorldTyped
  <2>3. QED
    BY <1>2, <2>1, <2>2, WorldKept
<1>3. CASE UNCHANGED vars
  BY <1>3 DEF vars, memory, disk, ghosts, ThreadTypes, MemoryTypes, FlagTypes, DiskTypes,
     JobFits, Mutex, InHand, LostIsPast, NothingForgotten, CountHolds, KeepsInOrder,
     ToldHolds, LastIsNewest, Handed, Durable
<1>4. QED
  BY <1>1, <1>2, <1>3 DEF Next

-----------------------------------------------------------------------------
(* The theorems. *)

\* The inductive invariant holds in every state.
THEOREM RecoveryInvariant == Spec => []RecoveryInv
  BY InitRecovery, NextRecovery, PTL DEF Spec

\* Every variable keeps to its type.
THEOREM RecoveryTypes == Spec => []TypeOK
<1>1. RecoveryInv => TypeOK
  BY DEF RecoveryInv
<1>2. QED
  BY <1>1, RecoveryInvariant, PTL

\* A transcript the program has had is on disk, in memory for another try, being
\* saved or lost with a process that ended on it; one reported saved is on disk.
THEOREM NothingIsForgotten == Spec => []NothingForgotten
<1>1. RecoveryInv => NothingForgotten
  BY DEF RecoveryInv
<1>2. QED
  BY <1>1, RecoveryInvariant, PTL

\* PENDING is never zero while a transcript is only in memory.
THEOREM CountCovers == Spec => []CountCoversMemory
<1>1. RecoveryInv => CountCoversMemory
  <2> SUFFICES ASSUME RecoveryInv PROVE CountCoversMemory
    OBVIOUS
  <2>1. Cardinality(pending) \in Nat /\ (Cardinality(pending) = 0 <=> pending = {})
    BY PendingIsFinite, FS_EmptySet DEF RecoveryInv, TypeOK
  <2>2. counted \in Nat /\ counted >= Cardinality(pending)
    BY DEF RecoveryInv, TypeOK, MemoryTypes, CountHolds
  <2>3. QED
    BY <2>1, <2>2 DEF RecoveryInv, CountHolds, CountCoversMemory
<1>2. QED
  BY <1>1, RecoveryInvariant, PTL

\* Nothing takes the place of this process's newest dictation.
THEOREM NewestIsLast == Spec => []LastIsNewest
<1>1. RecoveryInv => LastIsNewest
  BY DEF RecoveryInv
<1>2. QED
  BY <1>1, RecoveryInvariant, PTL

\* A Last Transcript reported saved outlives failures and restarts.
THEOREM LastOutlives == Spec => []LastSurvives
<1>1. RecoveryInv => LastSurvives
  BY DEF RecoveryInv, ToldHolds, LastSurvives
<1>2. QED
  BY <1>1, RecoveryInvariant, PTL
=============================================================================
