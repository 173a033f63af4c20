-------------------------- MODULE HistoryRecovery --------------------------
(***************************************************************************)
(* What happens to a transcript between the moment the program has it and   *)
(* the moment it is on disk: history/recovery.rs and the parts of           *)
(* history.rs and history/store.rs it calls.                                *)
(*                                                                          *)
(* Three threads come here. The loop saves dictations and retries when the  *)
(* user asks or quits; the engine thread saves a media transcript whose own *)
(* folder refused it; the control socket retries. They share one mutex, and *)
(* the atomic PENDING, which the updater reads without it and must see      *)
(* above zero when a restart would lose a transcript. A fourth thread       *)
(* restores Last Transcript at startup.                                     *)
(*                                                                          *)
(* Transcripts are numbered as they are handed over; number 0 is none.      *)
(***************************************************************************)
EXTENDS Naturals, FiniteSets

CONSTANTS
    Loop, Engine, Control,  \* The threads.
    NoThread,               \* Nobody holds the mutex.
    MaxTranscripts,         \* Bound: transcripts handed over.
    MaxEnds                 \* Bound: times the process ends and starts again.

Threads == {Loop, Engine, Control}

ASSUME ThreadsDiffer ==
    /\ Loop # Engine /\ Loop # Control /\ Engine # Control
    /\ NoThread \notin Threads
ASSUME BoundsAreNumbers == MaxTranscripts \in Nat /\ MaxEnds \in Nat

Transcripts == 1..MaxTranscripts
None == 0

\* Where a thread is: nothing to do, writing the media folder's stand-in,
\* waiting for the mutex to retry or to persist, and the steps under it.
Steps == {"idle", "media", "to_retry", "retrying", "to_persist",
          "appending", "saving_last", "leaving"}
UnderMutex == {"retrying", "appending", "saving_last", "leaving"}

VARIABLES
    holder,     \* The thread in STATE's mutex.
    pc,         \* Where each thread is.
    record,     \* The transcript a thread is persisting, None in a retry.
    keeps,      \* The transcripts being saved that become Last Transcript.
    todo,       \* What a retry has still to try.
    pending,    \* Recovery.pending: transcripts only in memory.
    last,       \* Recovery.last.
    counted,    \* PENDING.
    startup,    \* How far initialize_last is.
    seen,       \* What it read from the file.
    located,    \* Whether the data directory can be named at all.
    works,      \* Which of the two stores accept a write now.
    database,   \* Rows of the history database.
    folder,     \* Complete files in Failed Transcripts.
    lastFile,   \* Last Transcript.txt.
    handed,     \* Transcripts the program has had.
    kept,       \* The newest of this process that became Last.
    promised,   \* Transcripts the program reported saved.
    told,       \* The newest whose Last Transcript file was reported saved.
    lost,       \* Not on disk when the process ended.
    ends        \* Times it ended.

memory == <<holder, pc, record, keeps, todo, pending, last, counted, startup, seen, located, kept>>
disk == <<works, database, folder, lastFile>>
ghosts == <<promised, told, lost, ends>>
vars == <<memory, disk, handed, ghosts>>

Stores == {"database", "folder"}
Durable == database \cup folder
Handed == 1..handed

InMemory ==
    /\ holder = NoThread
    /\ pc = [t \in Threads |-> "idle"]
    /\ record = [t \in Threads |-> None]
    /\ keeps = {}
    /\ todo = [t \in Threads |-> {}]
    /\ pending = {} /\ counted = 0
    /\ last = None
    /\ startup = "starting" /\ seen = None
    /\ located \in BOOLEAN
    /\ kept = None

Init ==
    /\ InMemory
    /\ works \in SUBSET Stores
    /\ database = {} /\ folder = {} /\ lastFile = None
    /\ handed = 0
    /\ promised = {} /\ told = None /\ lost = {} /\ ends = 0

-----------------------------------------------------------------------------
(* Disk. *)

\* append_record_with_fallback_to: the database, or else a file of its own. A
\* store that reports a failure may have kept the record all the same: a commit
\* or a directory that could not be synced. `saved` is what the call returns.
Stored(r, saved) ==
    \/ /\ "database" \in works
       /\ saved
       /\ database' = database \cup {r}
       /\ UNCHANGED folder
    \/ /\ "database" \notin works
       /\ database' = database \cup {r} \/ UNCHANGED database
       /\ saved <=> "folder" \in works
       /\ folder' = folder \cup {r} \/ (~saved /\ UNCHANGED folder)

\* Mutant: the file is overwritten in place, and a failure leaves it empty.
ReplaceLastInPlace(r, saved) == lastFile' = IF saved THEN r ELSE None

\* save_last_to: written beside the file, then renamed over it. Only the sync of
\* the directory can fail with the new text in place.
ReplaceLast(r, saved) ==
    /\ lastFile' \in {lastFile, r}
    /\ saved => lastFile' = r

-----------------------------------------------------------------------------
(* The threads. *)


Goto(t, step) == pc' = [pc EXCEPT ![t] = step]
Enter(t) == holder = NoThread /\ holder' = t
\* Mutant: the guard outlives the call.
LeaveLocked(t) == holder = t /\ UNCHANGED holder
Leave(t) == holder = t /\ holder' = NoThread

\* A transcript exists. The loop's becomes Last unless its text is blank, with
\* only the raw words left; the engine's is media and never does.
Hand(t) ==
    /\ pc[t] = "idle"
    /\ handed < MaxTranscripts
    /\ handed' = handed + 1
    /\ record' = [record EXCEPT ![t] = handed']
    /\ \/ /\ t = Loop
          /\ keeps' = keeps \cup {handed'} \/ UNCHANGED keeps
          /\ Goto(t, "to_retry")
       \/ /\ t = Engine
          /\ UNCHANGED keeps
          /\ Goto(t, "media")
    /\ UNCHANGED <<holder, todo, pending, last, counted, startup, seen,
                   located, kept, disk, ghosts>>

\* save_media_recovery_status: a file in Failed Transcripts, or else history.
WriteMedia(t) ==
    /\ pc[t] = "media"
    /\ \/ /\ located /\ "folder" \in works
          /\ folder' = folder \cup {record[t]}
          /\ promised' = promised \cup {record[t]}
          /\ record' = [record EXCEPT ![t] = None]
          /\ Goto(t, "idle")
       \/ /\ ~(located /\ "folder" \in works)
          /\ (located /\ folder' = folder \cup {record[t]}) \/ UNCHANGED folder
          /\ Goto(t, "to_retry")
          /\ UNCHANGED <<record, promised>>
    /\ UNCHANGED <<holder, keeps, todo, pending, last, counted, startup,
                   seen, located, kept, works, database, lastFile, handed, told,
                   lost, ends>>

\* retry-unsaved, or the retry a Quit makes first: linux.rs and control.rs.
AskRetry(t) ==
    /\ t \in {Loop, Control}
    /\ pc[t] = "idle"
    /\ Goto(t, "to_retry")
    /\ UNCHANGED <<holder, record, keeps, todo, pending, last, counted,
                   startup, seen, located, kept, disk, handed, ghosts>>

\* After a retry: the thread persists its transcript, or is done.
Onward(t) == Goto(t, IF record[t] = None THEN "idle" ELSE "to_persist")

\* retry: takes the mutex. With no directory to name it returns at once.
BeginRetry(t) ==
    /\ pc[t] = "to_retry"
    /\ \/ located /\ Enter(t) /\ Goto(t, "retrying")
          /\ todo' = [todo EXCEPT ![t] = pending]
       \/ ~located /\ holder = NoThread /\ Onward(t) /\ UNCHANGED <<holder, todo>>
    /\ UNCHANGED <<record, keeps, pending, last, counted, startup, seen,
                   located, kept, disk, handed, ghosts>>

\* Mutant: what was saved stays pending.
RetryOneKeeps(t) ==
    /\ pc[t] = "retrying"
    /\ \E r \in todo[t], saved \in BOOLEAN :
        /\ Stored(r, saved)
        /\ todo' = [todo EXCEPT ![t] = @ \ {r}]
    /\ UNCHANGED <<holder, pc, record, keeps, pending, last, counted, startup,
                   seen, located, kept, works, lastFile, handed, ghosts>>

\* One turn of retry_to's retain.
RetryOne(t) ==
    /\ pc[t] = "retrying"
    /\ \E r \in todo[t], saved \in BOOLEAN :
        /\ Stored(r, saved)
        /\ todo' = [todo EXCEPT ![t] = @ \ {r}]
        /\ pending' = IF saved THEN pending \ {r} ELSE pending
        /\ promised' = IF saved THEN promised \cup {r} ELSE promised
    /\ UNCHANGED <<holder, pc, record, keeps, last, counted, startup, seen,
                   located, kept, works, lastFile, handed, told, lost, ends>>

EndRetry(t) ==
    /\ pc[t] = "retrying"
    /\ todo[t] = {}
    /\ counted' = Cardinality(pending)
    /\ Leave(t)
    /\ Onward(t)
    /\ UNCHANGED <<record, keeps, todo, pending, last, startup, seen,
                   located, kept, disk, handed, ghosts>>

\* Mutant: the transcript being saved is not counted yet.
EarlyCountOmits(t) == Cardinality(pending)

\* What persist stores in PENDING before it tries anything.
EarlyCount(t) == Cardinality(pending \cup {record[t]})

\* persist up to the write: the transcript is in memory from here on, and with
\* no directory to name it stays there.
BeginPersist(t) ==
    /\ pc[t] = "to_persist"
    /\ Enter(t)
    /\ counted' = EarlyCount(t)
    /\ pending' = pending \cup {record[t]}
    /\ last' = IF record[t] \in keeps THEN record[t] ELSE last
    /\ kept' = IF record[t] \in keeps THEN record[t] ELSE kept
    /\ Goto(t, IF located THEN "appending" ELSE "leaving")
    /\ UNCHANGED <<record, keeps, todo, startup, seen, located, disk, handed,
                   ghosts>>

\* Mutant: the transcript leaves memory however the write went.
AppendRecordForgets(t) ==
    /\ pc[t] = "appending"
    /\ \E saved \in BOOLEAN :
        /\ Stored(record[t], saved)
        /\ pending' = pending \ {record[t]}
        /\ promised' = IF saved THEN promised \cup {record[t]} ELSE promised
    /\ Goto(t, IF record[t] \in keeps THEN "saving_last" ELSE "leaving")
    /\ UNCHANGED <<holder, record, keeps, todo, last, counted, startup, seen,
                   located, kept, works, lastFile, handed, told, lost, ends>>

AppendRecord(t) ==
    /\ pc[t] = "appending"
    /\ \E saved \in BOOLEAN :
        /\ Stored(record[t], saved)
        /\ pending' = IF saved THEN pending \ {record[t]} ELSE pending
        /\ promised' = IF saved THEN promised \cup {record[t]} ELSE promised
    /\ Goto(t, IF record[t] \in keeps THEN "saving_last" ELSE "leaving")
    /\ UNCHANGED <<holder, record, keeps, todo, last, counted, startup, seen,
                   located, kept, works, lastFile, handed, told, lost, ends>>

SaveLast(t) ==
    /\ pc[t] = "saving_last"
    /\ \E saved \in BOOLEAN :
        /\ ReplaceLast(record[t], saved)
        /\ told' = IF saved THEN record[t] ELSE told
    /\ Goto(t, "leaving")
    /\ UNCHANGED <<holder, record, keeps, todo, pending, last, counted,
                   startup, seen, located, kept, works, database, folder, handed,
                   promised, lost, ends>>

EndPersist(t) ==
    /\ pc[t] = "leaving"
    /\ counted' = Cardinality(pending)
    /\ Leave(t)
    /\ record' = [record EXCEPT ![t] = None]
    /\ keeps' = keeps \ {record[t]}
    /\ Goto(t, "idle")
    /\ UNCHANGED <<todo, pending, last, startup, seen, located, kept, disk,
                   handed, ghosts>>

-----------------------------------------------------------------------------
(* initialize_last, on the startup thread. *)

ReadLastFile ==
    /\ startup = "starting"
    /\ \/ located /\ startup' = "read" /\ seen' = lastFile
       \/ startup' = "failed" /\ UNCHANGED seen
    /\ UNCHANGED <<holder, pc, record, keeps, todo, pending, last, counted,
                   located, kept, disk, handed, ghosts>>

\* Mutant: what the file said is taken, late as it may be.
RestoredAnyway == seen

\* What Last becomes: a dictation that came first is not overwritten.
Restored == IF last = None THEN seen ELSE last

RestoreLast ==
    /\ startup = "read"
    /\ holder = NoThread
    /\ startup' = "done"
    /\ last' = Restored
    /\ seen' = None
    /\ UNCHANGED <<holder, pc, record, keeps, todo, pending, counted, located,
                   kept, disk, handed, ghosts>>

-----------------------------------------------------------------------------
(* The world. *)

\* A store breaks, or works again.
StoresChange ==
    /\ works' \in (SUBSET Stores) \ {works}
    /\ UNCHANGED <<memory, database, folder, lastFile, handed, ghosts>>

\* The process ends at any point, by a crash, a kill or Quit Anyway, and starts
\* again. Only the disk survives.
ProcessEnds ==
    /\ ends < MaxEnds
    /\ ends' = ends + 1
    /\ lost' = lost \cup (Handed \ Durable)
    /\ holder' = NoThread
    /\ pc' = [t \in Threads |-> "idle"]
    /\ record' = [t \in Threads |-> None]
    /\ keeps' = {}
    /\ todo' = [t \in Threads |-> {}]
    /\ pending' = {} /\ counted' = 0
    /\ last' = None
    /\ startup' = "starting" /\ seen' = None
    /\ located' \in BOOLEAN
    /\ kept' = None
    /\ UNCHANGED <<disk, handed, promised, told>>

Work(t) ==
    \/ WriteMedia(t) \/ BeginRetry(t) \/ RetryOne(t) \/ EndRetry(t)
    \/ BeginPersist(t) \/ AppendRecord(t) \/ SaveLast(t) \/ EndPersist(t)

Restore == ReadLastFile \/ RestoreLast

Next ==
    \/ \E t \in Threads : Hand(t) \/ AskRetry(t) \/ Work(t)
    \/ Restore
    \/ StoresChange
    \/ ProcessEnds

Spec == Init /\ [][Next]_vars

\* A thread inside the mutex goes on to leave it, one before it gets in at last,
\* and the startup thread finishes.
Fairness ==
    /\ \A t \in Threads : WF_vars(Work(t) /\ holder = t) /\ SF_vars(Work(t))
    /\ SF_vars(Restore)
FairSpec == Spec /\ Fairness

-----------------------------------------------------------------------------
(* Properties. *)

ThreadTypes ==
    /\ holder \in Threads \cup {NoThread}
    /\ pc \in [Threads -> Steps]
    /\ record \in [Threads -> Transcripts \cup {None}]
    /\ keeps \subseteq Transcripts
    /\ todo \in [Threads -> SUBSET Transcripts]

MemoryTypes ==
    /\ pending \subseteq Transcripts
    /\ counted \in Nat
    /\ last \in Transcripts \cup {None}
    /\ seen \in Transcripts \cup {None}
    /\ kept \in Transcripts \cup {None}
    /\ startup \in {"starting", "read", "done", "failed"}

FlagTypes == located \in BOOLEAN

DiskTypes ==
    /\ works \subseteq Stores
    /\ database \subseteq Transcripts
    /\ folder \subseteq Transcripts
    /\ lastFile \in Transcripts \cup {None}
    /\ handed \in 0..MaxTranscripts
    /\ promised \subseteq Transcripts
    /\ told \in Transcripts \cup {None}
    /\ lost \subseteq Transcripts
    /\ ends \in 0..MaxEnds

TypeOK == ThreadTypes /\ MemoryTypes /\ FlagTypes /\ DiskTypes

\* A transcript the program has had is on disk, in memory for another try, or
\* being saved, unless the process ended on it; and one reported saved is on
\* disk whatever ended since. persist_to, retry_to and the fallbacks together.
NothingForgotten ==
    /\ \A r \in Handed :
        r \in Durable \cup pending \cup lost \/ \E t \in Threads : record[t] = r
    /\ promised \subseteq Durable \ lost

\* The updater (updates.rs, idle) reads PENDING without the mutex and restarts
\* the program at zero. It is never zero over a transcript that is only in
\* memory, also in the middle of a save, and is exact between calls.
CountCoversMemory ==
    /\ pending # {} => counted > 0
    /\ holder = NoThread => counted = Cardinality(pending)

\* Last Transcript is this process's newest dictation: restoring the file at
\* startup, media and retried transcripts never take its place.
LastIsNewest ==
    kept # None => last = kept

\* Once the file was reported saved, no later failure or restart goes back to
\* an older one: not on disk, and not in memory once the file was read.
LastSurvives ==
    /\ told <= lastFile
    /\ startup = "done" => told <= last

\* A thread that comes here leaves again: nobody waits for the mutex forever.
EveryCallReturns == \A t \in Threads : pc[t] # "idle" ~> pc[t] = "idle"

\* Retry Save works: while either store accepts writes and retries keep coming,
\* no transcript stays in memory.
RetrySaves ==
    /\ <>[](located /\ works # {})
    /\ []<>(pc[Control] = "retrying")
    => []<>(pending = {})
=============================================================================
