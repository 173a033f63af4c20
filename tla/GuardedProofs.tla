---------------------------- MODULE GuardedProofs ----------------------------
(***************************************************************************)
(* Proofs about the machines of MCGuarded, which share nothing.            *)
(*                                                                         *)
(* ModelSetup, for any number of processes, looks and mishaps: a valid     *)
(* model is never lost to setups that run at the same time, and a shutdown *)
(* cuts the engine's setup short.                                          *)
(*                                                                         *)
(* MediaPlayers, for any number of players, recordings, touches and        *)
(* delays: what is played again is what the recording stopped, and what    *)
(* the recording stopped is played again unless somebody else has seen to  *)
(* it.                                                                     *)
(*                                                                         *)
(* MacDictation, for any number of recordings and any amount of queued     *)
(* work: the words of a recording are kept, a cancelled one leaves         *)
(* nothing, Quit loses no transcript, and a reserved update finds no work  *)
(* under way.                                                              *)
(*                                                                         *)
(* With ClipboardDeliveryProofs: all four keep to their types.             *)
(***************************************************************************)
EXTENDS MCGuarded, ClipboardDeliveryProofs, SequenceTheorems,
        WellFoundedInduction, TLAPS

-----------------------------------------------------------------------------
(* The models: what must hold along with ValidModelSurvives.               *)

\* The states of the engine in which it sets up a model.
SettingUp == {"start", "start_backup", "fallback", "switch", "switch_backup"}

\* What is being moved was invalid once, so it has no unstamped valid model in it; it is put
\* back only if it is stamped.
MovedFits ==
    /\ \A p \in Process :
        /\ jobs[p].moved # "plain"
        /\ jobs[p].at = "restore" => jobs[p].moved = "stamped"
        /\ jobs[p].at \in {"aside", "judge", "restore"} => cache[jobs[p].model] # "plain"
    /\ \A m \in had : cache[m] # "bad"

\* The flags of the shutdown against what the engine does.
EngineFits ==
    /\ jobs["app"].at \in Working => engine \in SettingUp
    /\ engine = "off" => quitting = "no"
    /\ quitting # "no" => shutdown
    /\ quitting = "sent" /\ engine \in SettingUp => switchCancelled

\* The inductive invariant behind the theorems.
SetupInv == SetupTypeOK /\ MovedFits /\ EngineFits /\ ValidModelSurvives

-----------------------------------------------------------------------------
LEMMA AppIsProcess == "app" \in Process /\ \A p \in Process : p \in Tools \/ p = "app"
  BY DEF Process

LEMMA NewJobTyped ==
    ASSUME NEW m \in Model
    PROVE  /\ NewJob(m) \in Job
           /\ NewJob(m).at = "begin" /\ NewJob(m).model = m /\ NewJob(m).moved = "none"
<1>1. 0 \in 0..MaxLooks /\ "none" \in Directory /\ "begin" \in Working
  BY SetupAssumption DEF Directory, Working
<1>2. QED
  BY <1>1 DEF NewJob, Job

LEMMA NoJobTyped ==
    NoJob \in Job /\ NoJob.at = "idle" /\ NoJob.moved = "none" /\ NoJob.model = "compact"
<1>1. "compact" \in Model
  BY DEF Model
<1>2. QED
  BY <1>1, NewJobTyped DEF NoJob, Job

\* The record of a process that has ended, or will begin.
LEMMA EndedTyped ==
    ASSUME NEW how \in {"idle", "ok", "failed"}, NEW m \in Model
    PROVE  /\ [NoJob EXCEPT !.at = how, !.model = m] \in Job
           /\ [NoJob EXCEPT !.at = how, !.model = m].at = how
           /\ [NoJob EXCEPT !.at = how, !.model = m].moved = "none"
           /\ [NoJob EXCEPT !.model = m] \in Job
           /\ [NoJob EXCEPT !.model = m].at = "idle"
           /\ [NoJob EXCEPT !.model = m].moved = "none"
           /\ [NoJob EXCEPT !.model = m].model = m
  BY NoJobTyped DEF Job

LEMMA SetupInitial == SetupInit => SetupInv
<1> SUFFICES ASSUME SetupInit PROVE SetupInv
  OBVIOUS
<1>1. SetupTypeOK
  <2>1. NoJob \in Job
    BY NoJobTyped
  <2>2. cache \in [Model -> Directory] /\ jobs \in [Process -> Job]
    BY <2>1 DEF SetupInit, Directory
  <2>3. had \subseteq Model /\ mishaps \in 0..MaxMishaps
    BY SetupAssumption DEF SetupInit
  <2>4. QED
    BY <2>2, <2>3 DEF SetupInit, SetupTypeOK
<1>2. \A p \in Process : jobs[p].at = "idle" /\ jobs[p].moved = "none"
  BY NoJobTyped DEF SetupInit
<1>3. MovedFits
  BY <1>2 DEF SetupInit, MovedFits, Valid
<1>4. EngineFits
  BY <1>2, AppIsProcess DEF SetupInit, EngineFits, SettingUp, Working
<1>5. ValidModelSurvives
  BY DEF SetupInit, ValidModelSurvives
<1>6. QED
  BY <1>1, <1>3, <1>4, <1>5 DEF SetupInv

-----------------------------------------------------------------------------
(* A step of one process.                                                  *)

\* What a process does to its own record keeps the types.
LEMMA StepTyped ==
    ASSUME SetupTypeOK, NEW p \in Process, SetsUp(p)
    PROVE  /\ \E new \in Job : jobs' = [jobs EXCEPT ![p] = new]
           /\ cache' \in [Model -> Directory]
           /\ had' \subseteq Model /\ mishaps' \in 0..MaxMishaps
           /\ UNCHANGED <<switchVars, switchCancelled, quitting>>
<1> DEFINE j == jobs[p]
<1>1. j \in Job /\ j.model \in Model /\ cache \in [Model -> Directory]
  BY DEF SetupTypeOK, Job
<1>2. \A to \in Working \cup {"idle", "ok", "failed"} :
         [j EXCEPT !.at = to, !.moved = "none"] \in Job
  <2>1. "none" \in Directory
    BY DEF Directory
  <2>2. ASSUME NEW to \in Working \cup {"idle", "ok", "failed"}
        PROVE  [j EXCEPT !.at = to, !.moved = "none"] \in Job
    <3>1. to \in {"idle", "ok", "failed"} \cup Working
      OBVIOUS
    <3>2. QED
      BY <1>1, <2>1, <3>1 DEF Job
  <2>3. QED
    BY <2>2
<1>3. \A how \in {"ok", "failed"} : [NoJob EXCEPT !.at = how, !.model = j.model] \in Job
  BY <1>1, EndedTyped
<1>4. UNCHANGED <<switchVars, switchCancelled, quitting>>
  BY DEF SetsUp, Begin, Look, MoveAside, Judge, PutBack, Fetch, Promote
<1>5. had' \subseteq Model /\ mishaps' \in 0..MaxMishaps
  <2>1. UNCHANGED <<had, mishaps>> \/ PutBack(p) \/ Promote(p)
    BY DEF SetsUp, Begin, Look, MoveAside, Judge, Fetch
  <2>2. CASE PutBack(p)
    BY <1>1, <2>2, SetupAssumption DEF SetupTypeOK, PutBack, Mishap
  <2>3. CASE Promote(p)
    BY <1>1, <2>3 DEF SetupTypeOK, Promote
  <2>4. QED
    BY <2>1, <2>2, <2>3 DEF SetupTypeOK
<1>6. cache' \in [Model -> Directory]
  BY <1>1
     DEF SetsUp, Begin, Look, MoveAside, Judge, PutBack, Fetch, Promote, Put, Job, Directory
<1>7. \E new \in Job : jobs' = [jobs EXCEPT ![p] = new]
  <2>1. ASSUME NEW to \in Working, GoesTo(p, to)
        PROVE  \E new \in Job : jobs' = [jobs EXCEPT ![p] = new]
    BY <1>2, <2>1 DEF GoesTo, Becomes
  <2>2. ASSUME NEW how \in {"ok", "failed"}, JobEnds(p, how)
        PROVE  \E new \in Job : jobs' = [jobs EXCEPT ![p] = new]
    BY <1>3, <2>2 DEF JobEnds, Becomes
  <2>3. Onwards(p) \in Working
    BY DEF Onwards, Working
  <2>4. CASE Begin(p) \/ Promote(p)
    BY <2>1, <2>2, <2>4 DEF Begin, Promote, Working
  <2>5. CASE MoveAside(p)
    <3>1. CASE GoesTo(p, "look")
      BY <2>1, <3>1 DEF Working
    <3>2. CASE Becomes(p, [jobs[p] EXCEPT !.at = "judge", !.moved = Here(p)])
      <4>1. Here(p) \in Directory
        BY <1>1 DEF Here
      <4>2. [jobs[p] EXCEPT !.at = "judge", !.moved = Here(p)] \in Job
        BY <1>1, <4>1 DEF Job, Working
      <4>3. QED
        BY <3>2, <4>2 DEF Becomes
    <3>3. QED
      BY <2>5, <3>1, <3>2 DEF MoveAside
  <2>6. CASE Judge(p)
    <3>1. [jobs[p] EXCEPT !.at = "restore"] \in Job
      BY <1>1 DEF Job, Working
    <3>2. QED
      BY <2>1, <2>3, <2>6, <3>1 DEF Judge, Becomes
  <2>7. CASE PutBack(p)
    BY <2>1, <2>2, <2>7 DEF PutBack, Working
  <2>8. CASE Look(p)
    <3>1. CASE \/ JobEnds(p, "failed") \/ JobEnds(p, "ok") \/ GoesTo(p, Onwards(p))
      BY <2>1, <2>2, <2>3, <3>1
    <3>2. CASE /\ jobs[p].looks < MaxLooks
               /\ Becomes(p, [jobs[p] EXCEPT !.at = "aside", !.looks = @ + 1])
      <4>1. jobs[p].looks + 1 \in 0..MaxLooks
        BY <1>1, <3>2, SetupAssumption DEF Job
      <4>2. [jobs[p] EXCEPT !.at = "aside", !.looks = @ + 1] \in Job
        BY <1>1, <4>1 DEF Job, Working
      <4>3. QED
        BY <3>2, <4>2 DEF Becomes
    <3>3. QED
      BY <2>8, <3>1, <3>2 DEF Look
  <2>9. CASE Fetch(p)
    <3>1. 0 \in 0..MaxLooks
      BY SetupAssumption
    <3>2. [jobs[p] EXCEPT !.at = "look", !.looks = 0, !.complete = TRUE] \in Job
      BY <1>1, <3>1 DEF Job, Working
    <3>3. QED
      BY <2>2, <2>9, <3>2 DEF Fetch, Becomes
  <2>10. QED
    BY <2>4, <2>5, <2>6, <2>7, <2>8, <2>9 DEF SetsUp
<1>8. QED
  BY <1>4, <1>5, <1>6, <1>7

\* Where it leaves its record and the model: a directory changes to nothing or to a complete
\* model, and what it moves was never unstamped and valid.
LEMMA StepMoves ==
    ASSUME SetupTypeOK, MovedFits, NEW p \in Process, SetsUp(p)
    PROVE  /\ \E new \in Job :
               /\ jobs' = [jobs EXCEPT ![p] = new] /\ new.model = jobs[p].model
               /\ new.moved # "plain"
               /\ new.at = "restore" => new.moved = "stamped"
               /\ new.at \in {"aside", "judge", "restore"} => cache'[jobs[p].model] # "plain"
           /\ \/ cache' = cache
              \/ cache' = [cache EXCEPT ![jobs[p].model] = "stamped"]
              \/ cache' = [cache EXCEPT ![jobs[p].model] = "none"]
           /\ \/ had' \subseteq had
              \/ had' = had \cup {jobs[p].model} /\ cache'[jobs[p].model] = "stamped"
<1> DEFINE j == jobs[p]
           m == jobs[p].model
<1>1. j \in Job /\ m \in Model /\ cache \in [Model -> Directory] /\ jobs \in [Process -> Job]
  BY DEF SetupTypeOK, Job
<1>2. /\ j.moved # "plain"
      /\ j.at = "restore" => j.moved = "stamped"
      /\ j.at \in {"aside", "judge", "restore"} => cache[m] # "plain"
  BY DEF MovedFits
<1>3. PICK new \in Job : jobs' = [jobs EXCEPT ![p] = new]
  BY StepTyped
<1>4. jobs'[p] = new
  BY <1>1, <1>3
<1>5. ASSUME NEW to, GoesTo(p, to)
      PROVE  new.at = to /\ new.model = m /\ new.moved = "none"
  <2>1. new = [j EXCEPT !.at = to, !.moved = "none"]
    BY <1>1, <1>4, <1>5 DEF GoesTo, Becomes
  <2>2. QED
    BY <1>1, <2>1 DEF Job
<1>6. ASSUME NEW how \in {"ok", "failed"}, JobEnds(p, how)
      PROVE  new.at = how /\ new.model = m /\ new.moved = "none"
  <2>1. new = [NoJob EXCEPT !.at = how, !.model = m]
    <3>1. jobs' = [jobs EXCEPT ![p] = [NoJob EXCEPT !.at = how, !.model = m]]
      BY <1>6, Zenon DEF JobEnds, Becomes
    <3> DEFINE record == [NoJob EXCEPT !.at = how, !.model = m]
    <3>2. jobs'[p] = record
      BY <1>1, <3>1, Zenon DEF record
    <3>3. QED
      BY <1>4, <3>2
  <2>2. QED
    BY <2>1, NoJobTyped DEF Job
<1>7. Onwards(p) \in {"promote", "fetch"}
  BY DEF Onwards
<1> DEFINE Right ==
      /\ new.model = m /\ new.moved # "plain"
      /\ new.at = "restore" => new.moved = "stamped"
      /\ new.at \in {"aside", "judge", "restore"} => cache'[m] # "plain"
      /\ \/ cache' = cache
         \/ cache' = [cache EXCEPT ![m] = "stamped"]
         \/ cache' = [cache EXCEPT ![m] = "none"]
      /\ \/ had' \subseteq had
         \/ had' = had \cup {m} /\ cache'[m] = "stamped"
<1> SUFFICES Right
  BY <1>3
<1>8. CASE Begin(p)
  BY <1>5, <1>6, <1>8 DEF Begin
<1>9. CASE Look(p)
  <2>1. had' = had
    BY <1>9 DEF Look
  <2>2. CASE JobEnds(p, "failed") /\ cache' = cache
    BY <1>6, <2>1, <2>2
  <2>3. CASE JobEnds(p, "ok") /\ cache' \in {cache, [cache EXCEPT ![m] = "stamped"]}
    BY <1>6, <2>1, <2>3
  <2>4. CASE GoesTo(p, Onwards(p)) /\ cache' = cache
    BY <1>5, <1>7, <2>1, <2>4
  <2>5. CASE /\ Here(p) = "bad" /\ cache' = cache
             /\ Becomes(p, [jobs[p] EXCEPT !.at = "aside", !.looks = @ + 1])
    <3>1. new.at = "aside" /\ new.model = m /\ new.moved = j.moved
      BY <1>1, <1>4, <2>5 DEF Becomes, Job
    <3>2. QED
      BY <1>2, <2>1, <2>5, <3>1 DEF Here
  <2>6. QED
    BY <1>9, <2>2, <2>3, <2>4, <2>5 DEF Look
<1>10. CASE MoveAside(p)
  <2>1. had' = had /\ cache[m] # "plain"
    BY <1>2, <1>10 DEF MoveAside, At
  <2>2. CASE GoesTo(p, "look") /\ cache' = cache
    BY <1>5, <2>1, <2>2
  <2>3. CASE /\ Becomes(p, [jobs[p] EXCEPT !.at = "judge", !.moved = Here(p)])
             /\ Put(p, "none")
    <3>1. new.at = "judge" /\ new.model = m /\ new.moved = cache[m]
      BY <1>1, <1>4, <2>3 DEF Becomes, Job, Here
    <3>2. cache' = [cache EXCEPT ![m] = "none"] /\ cache'[m] = "none"
      BY <1>1, <2>3 DEF Put
    <3>3. QED
      BY <2>1, <3>1, <3>2
  <2>4. QED
    BY <1>10, <2>2, <2>3 DEF MoveAside
<1>11. CASE Judge(p)
  <2>1. had' = had /\ cache' = cache /\ cache[m] # "plain"
    BY <1>2, <1>11 DEF Judge, At
  <2>2. CASE GoesTo(p, Onwards(p))
    BY <1>5, <1>7, <2>1, <2>2
  <2>3. CASE j.moved = "stamped" /\ Becomes(p, [jobs[p] EXCEPT !.at = "restore"])
    <3>1. new.at = "restore" /\ new.model = m /\ new.moved = "stamped"
      BY <1>1, <1>4, <2>3 DEF Becomes, Job
    <3>2. QED
      BY <2>1, <3>1
  <2>4. QED
    BY <1>2, <1>11, <2>2, <2>3 DEF Judge
<1>12. CASE PutBack(p)
  <2>1. had' \subseteq had
    BY <1>12 DEF PutBack
  <2>2. CASE GoesTo(p, "look") /\ cache' = cache
    BY <1>5, <2>1, <2>2
  <2>3. CASE GoesTo(p, "look") /\ Put(p, jobs[p].moved)
    <3>1. cache' = [cache EXCEPT ![m] = "stamped"]
      BY <1>2, <1>12, <2>3 DEF PutBack, At, Put
    <3>2. QED
      BY <1>5, <2>1, <2>3, <3>1
  <2>4. CASE JobEnds(p, "failed") /\ cache' = cache
    BY <1>6, <2>1, <2>4
  <2>5. QED
    BY <1>12, <2>2, <2>3, <2>4 DEF PutBack
<1>13. CASE Fetch(p)
  <2>1. had' = had /\ cache' = cache
    BY <1>13 DEF Fetch
  <2>2. CASE JobEnds(p, "failed")
    BY <1>6, <2>1, <2>2
  <2>3. CASE Becomes(p, [jobs[p] EXCEPT !.at = "look", !.looks = 0, !.complete = TRUE])
    <3>1. new.at = "look" /\ new.model = m /\ new.moved = j.moved
      BY <1>1, <1>4, <2>3 DEF Becomes, Job
    <3>2. QED
      BY <1>2, <2>1, <3>1
  <2>4. QED
    BY <1>13, <2>2, <2>3 DEF Fetch
<1>14. CASE Promote(p)
  <2>1. CASE Put(p, "stamped") /\ JobEnds(p, "ok") /\ had' = had \cup {m}
    <3>1. cache' = [cache EXCEPT ![m] = "stamped"] /\ cache'[m] = "stamped"
      BY <1>1, <2>1 DEF Put
    <3>2. QED
      BY <1>6, <2>1, <3>1
  <2>2. CASE (JobEnds(p, "ok") \/ JobEnds(p, "failed")) /\ UNCHANGED <<cache, had>>
    BY <1>6, <2>2
  <2>3. QED
    BY <1>14, <2>1, <2>2 DEF Promote
<1>15. QED
  BY <1>8, <1>9, <1>10, <1>11, <1>12, <1>13, <1>14 DEF SetsUp

LEMMA StepMovedFits ==
    ASSUME SetupTypeOK, MovedFits, NEW p \in Process, SetsUp(p)
    PROVE  MovedFits'
<1> DEFINE m == jobs[p].model
<1>1. PICK new \in Job :
        /\ jobs' = [jobs EXCEPT ![p] = new] /\ new.model = m
        /\ new.moved # "plain"
        /\ new.at = "restore" => new.moved = "stamped"
        /\ new.at \in {"aside", "judge", "restore"} => cache'[m] # "plain"
  BY StepMoves
<1>2. /\ \A x \in Model : cache'[x] = "plain" => cache[x] = "plain"
      /\ \A x \in Model : cache'[x] = "bad" => cache[x] = "bad"
      /\ cache \in [Model -> Directory] /\ jobs \in [Process -> Job] /\ had \subseteq Model
  BY StepMoves DEF SetupTypeOK
<1>3. ASSUME NEW q \in Process
      PROVE  /\ jobs'[q].moved # "plain"
             /\ jobs'[q].at = "restore" => jobs'[q].moved = "stamped"
             /\ jobs'[q].at \in {"aside", "judge", "restore"} => cache'[jobs'[q].model] # "plain"
  <2>1. CASE q = p
    BY <1>1, <1>2, <2>1
  <2>2. CASE q # p
    <3>1. jobs'[q] = jobs[q] /\ jobs[q].model \in Model
      BY <1>1, <1>2, <2>2 DEF Job
    <3>2. QED
      BY <1>2, <3>1 DEF MovedFits
  <2>3. QED
    BY <2>1, <2>2
<1>4. ASSUME NEW x \in had'
      PROVE  cache'[x] # "bad"
  <2>1. CASE x \in had
    BY <1>2, <2>1 DEF MovedFits
  <2>2. CASE x \notin had
    BY <1>4, <2>2, StepMoves
  <2>3. QED
    BY <2>1, <2>2
<1>5. QED
  BY <1>3, <1>4 DEF MovedFits

\* A valid model that a process moves aside is in its hands until it is back.
LEMMA StepSurvives ==
    ASSUME SetupTypeOK, MovedFits, MovedFits', ValidModelSurvives, NEW p \in Process, SetsUp(p)
    PROVE  ValidModelSurvives'
<1> DEFINE m == jobs[p].model
<1>1. /\ jobs[p] \in Job /\ m \in Model /\ cache \in [Model -> Directory] /\ had \subseteq Model
      /\ jobs \in [Process -> Job] /\ had' \subseteq Model
  BY StepTyped DEF SetupTypeOK, Job
<1>2. PICK new \in Job :
        /\ jobs' = [jobs EXCEPT ![p] = new] /\ new.model = m
        /\ new.at = "restore" => new.moved = "stamped"
  BY StepMoves
<1>3. jobs'[p] = new /\ \A q \in Process \ {p} : jobs'[q] = jobs[q]
  BY <1>1, <1>2
<1>4. \A x \in Model \ {m} : cache'[x] = cache[x]
  BY <1>1, StepMoves
<1>5. ASSUME NEW x \in had', x # m
      PROVE  Valid(cache'[x]) \/ \E q \in Process : x \in Holding(q)' /\ Valid(jobs'[q].moved)
  <2>1. x \in had /\ x \in Model
    BY <1>1, <1>5, StepMoves
  <2>2. CASE Valid(cache[x])
    BY <1>4, <1>5, <2>1, <2>2
  <2>3. CASE \E q \in Process : x \in Holding(q) /\ Valid(jobs[q].moved)
    <3>1. PICK q \in Process : x \in Holding(q) /\ Valid(jobs[q].moved)
      BY <2>3
    <3>2. q # p
      BY <1>5, <3>1 DEF Holding
    <3>3. QED
      BY <1>3, <3>1, <3>2 DEF Holding
  <2>4. QED
    BY <2>1, <2>2, <2>3 DEF ValidModelSurvives
<1>6. ASSUME m \in had', ~Valid(cache'[m])
      PROVE  \E q \in Process : m \in Holding(q)' /\ Valid(jobs'[q].moved)
  <2>1. m \in had
    BY <1>6, StepMoves DEF Valid
  <2>2. cache'[m] = "none"
    BY <1>1, <1>6, StepTyped DEF MovedFits, Valid, Directory
  <2>3. ASSUME NEW q \in Process \ {p}, m \in Holding(q), Valid(jobs[q].moved)
        PROVE  \E r \in Process : m \in Holding(r)' /\ Valid(jobs'[r].moved)
    BY <1>3, <2>3 DEF Holding
  <2>4. CASE m \in Holding(p) /\ Valid(jobs[p].moved)
    <3>1. jobs[p].moved = "stamped" /\ jobs[p].at \in {"judge", "restore"}
      BY <2>4 DEF MovedFits, Valid, Holding
    <3>2. CASE Judge(p)
      <4>1. Becomes(p, [jobs[p] EXCEPT !.at = "restore"])
        BY <3>1, <3>2 DEF Judge
      <4>2. new = [jobs[p] EXCEPT !.at = "restore"]
        BY <1>1, <1>3, <4>1 DEF Becomes
      <4>3. jobs'[p].at = "restore" /\ jobs'[p].model = m /\ jobs'[p].moved = "stamped"
        BY <1>1, <1>3, <3>1, <4>2 DEF Job
      <4>4. QED
        BY <4>3 DEF Holding, Valid
    <3>3. CASE PutBack(p)
      <4>1. cache[m] = "none" /\ (Put(p, "stamped") \/ had' = had \ {m})
        BY <1>6, <2>2, <3>1, <3>3 DEF PutBack, Here
      <4>2. cache'[m] = "stamped" \/ m \notin had'
        BY <1>1, <4>1 DEF Put
      <4>3. QED
        BY <1>6, <2>2, <4>2
    <3>4. QED
      BY <3>1, <3>2, <3>3 DEF SetsUp, Begin, Look, MoveAside, Fetch, Promote, At
  <2>5. CASE Valid(cache[m])
    <3>1. cache' # cache /\ cache'[m] # "stamped"
      BY <1>6, <2>2, <2>5 DEF Valid
    <3>2. CASE MoveAside(p)
      <4>1. Becomes(p, [jobs[p] EXCEPT !.at = "judge", !.moved = cache[m]])
        BY <2>5, <3>1, <3>2 DEF MoveAside, Here
      <4>2. new = [jobs[p] EXCEPT !.at = "judge", !.moved = cache[m]]
        BY <1>1, <1>3, <4>1 DEF Becomes
      <4>3. jobs'[p].at = "judge" /\ jobs'[p].model = m /\ jobs'[p].moved = cache[m]
        BY <1>1, <1>3, <4>2 DEF Job
      <4>4. QED
        BY <2>5, <4>3 DEF Holding
    <3>3. CASE PutBack(p) \/ Promote(p)
      BY <1>1, <2>2, <2>5, <3>1, <3>3 DEF PutBack, Promote, Here, Valid
    <3>4. CASE Look(p)
      BY <1>1, <2>2, <2>5, <3>1, <3>4 DEF Look, Valid
    <3>5. QED
      BY <3>1, <3>2, <3>3, <3>4 DEF SetsUp, Begin, Judge, Fetch
  <2>6. QED
    BY <2>1, <2>3, <2>4, <2>5 DEF ValidModelSurvives
<1>7. QED
  BY <1>5, <1>6 DEF ValidModelSurvives

\* A process that begins or has ended holds nothing.
LEMMA OtherSteps ==
    ASSUME SetupTypeOK, MovedFits, ValidModelSurvives, NEW p \in Process, NEW new,
           jobs' = [jobs EXCEPT ![p] = new], UNCHANGED <<cache, had>>,
           jobs[p].at \notin {"judge", "restore"},
           new.at \notin {"aside", "judge", "restore"}, new.moved = "none"
    PROVE  MovedFits' /\ ValidModelSurvives'
<1>1. jobs'[p] = new /\ \A q \in Process \ {p} : jobs'[q] = jobs[q]
  BY DEF SetupTypeOK
<1>2. MovedFits'
  BY <1>1 DEF MovedFits
<1>3. \A q \in Process : Holding(q) # {} => q # p
  BY DEF Holding
<1>4. \A q \in Process \ {p} : Holding(q)' = Holding(q) /\ jobs'[q].moved = jobs[q].moved
  BY <1>1 DEF Holding
<1>5. QED
  BY <1>2, <1>3, <1>4 DEF ValidModelSurvives

-----------------------------------------------------------------------------
(* Everything else that happens.                                           *)

\* The engine's steps give the app's record a new beginning or end, or leave it.
LEMMA EngineRecord ==
    ASSUME SetupTypeOK, EngineSteps \/ \E m \in Model : Switch(m)
    PROVE  /\ UNCHANGED <<cache, had, mishaps>>
           /\ engine' \in {"start", "start_backup", "fallback", "ready", "begin",
                          "cleared", "switch", "switch_backup", "failed", "stopped"}
           /\ selected' \in Model /\ switchCancelled' \in BOOLEAN /\ shutdown' = shutdown
           /\ quitting' = quitting
           /\ \/ jobs' = jobs
              \/ \E new \in Job :
                    /\ jobs' = [jobs EXCEPT !["app"] = new] /\ new.moved = "none"
                    /\ new.at \in {"begin", "idle"}
                    /\ new.at = "begin" => engine' \in SettingUp
                    /\ \/ jobs["app"].at \in {"ok", "failed"}
                       \/ engine \in {"off", "ready", "cleared"}
<1>1. /\ jobs["app"].model \in Model /\ selected \in Model /\ "v2" \in Model /\ "compact" \in Model
      /\ "nemotron" \in Model
  BY AppIsProcess DEF SetupTypeOK, Job, Model
<1>2. /\ UNCHANGED <<cache, had, mishaps>> /\ shutdown' = shutdown /\ quitting' = quitting
  BY DEF EngineSteps, EngineStarts, SetUpBackup, StartedUp, FallBack, GiveUpOnModels,
     ClearCancelled, BeginModelSwitch, Switched, NotSwitched, TakeQuit, Switch
<1>3. /\ engine' \in {"start", "start_backup", "fallback", "ready", "begin",
                      "cleared", "switch", "switch_backup", "failed", "stopped"}
      /\ switchCancelled' \in BOOLEAN
  BY DEF SetupTypeOK, EngineSteps, EngineStarts, SetUpBackup, StartedUp, FallBack,
     GiveUpOnModels, ClearCancelled, BeginModelSwitch, Switched, NotSwitched, TakeQuit, Switch
<1>4. selected' \in Model
  BY <1>1 DEF EngineSteps, EngineStarts, SetUpBackup, StartedUp, FallBack, GiveUpOnModels,
     ClearCancelled, BeginModelSwitch, Switched, NotSwitched, TakeQuit, Switch, TheModel
<1> DEFINE Fresh(new) ==
      /\ jobs' = [jobs EXCEPT !["app"] = new] /\ new.moved = "none"
      /\ new.at \in {"begin", "idle"}
      /\ new.at = "begin" => engine' \in SettingUp
      /\ \/ jobs["app"].at \in {"ok", "failed"}
         \/ engine \in {"off", "ready", "cleared"}
<1>5. ASSUME NEW m \in Model, jobs' = [jobs EXCEPT !["app"] = NewJob(m)], engine' \in SettingUp,
             \/ jobs["app"].at \in {"ok", "failed"}
             \/ engine \in {"off", "ready", "cleared"}
      PROVE  \E new \in Job : Fresh(new)
  BY <1>5, NewJobTyped
<1>6. ASSUME jobs' = [jobs EXCEPT !["app"] = NoJob], jobs["app"].at \in {"ok", "failed"}
      PROVE  \E new \in Job : Fresh(new)
  BY <1>6, NoJobTyped
<1>7. CASE EngineStarts
  BY <1>1, <1>5, <1>7 DEF EngineStarts, Becomes, SettingUp
<1>8. CASE SetUpBackup
  <2>1. /\ jobs' = [jobs EXCEPT !["app"] = NewJob("v2")] /\ engine' \in SettingUp
        /\ jobs["app"].at = "ok"
    BY <1>8 DEF SetUpBackup, Becomes, SettingUp, AppOK, At
  <2>2. QED
    BY <1>1, <1>5, <1>2, <1>3, <1>4, <2>1
<1>9. CASE StartedUp \/ Switched
  <2>1. jobs["app"].at = "ok" /\ jobs' = [jobs EXCEPT !["app"] = NoJob]
    BY <1>9 DEF StartedUp, Switched, Loads, AppOK, At, Becomes
  <2>2. QED
    BY <1>2, <1>3, <1>4, <1>6, <2>1
<1>10. CASE FallBack
  <2>1. /\ jobs' = [jobs EXCEPT !["app"] = NewJob("compact")] /\ engine' \in SettingUp
        /\ jobs["app"].at \in {"ok", "failed"}
    BY <1>10 DEF FallBack, CannotLoad, AppOK, AppFailed, At, Becomes, SettingUp
  <2>2. QED
    BY <1>1, <1>2, <1>3, <1>4, <1>5, <2>1
<1>11. CASE GiveUpOnModels \/ NotSwitched
  <2>1. /\ jobs' = [jobs EXCEPT !["app"] = NoJob] /\ jobs["app"].at \in {"ok", "failed"}
    BY <1>11 DEF GiveUpOnModels, NotSwitched, CannotLoad, AppOK, AppFailed, At, Becomes
  <2>2. QED
    BY <1>2, <1>3, <1>4, <1>6, <2>1
<1>12. CASE ClearCancelled \/ TakeQuit
  BY <1>2, <1>3, <1>4, <1>12 DEF ClearCancelled, TakeQuit
<1>13. CASE BeginModelSwitch
  <2>1. CASE jobs' = jobs
    BY <1>2, <1>3, <1>4, <2>1
  <2>2. CASE Becomes("app", NewJob(jobs["app"].model)) /\ engine' = "switch" /\ engine = "cleared"
    BY <1>1, <1>2, <1>3, <1>4, <1>5, <2>2 DEF Becomes, SettingUp
  <2>3. QED
    BY <1>13, <2>1, <2>2 DEF BeginModelSwitch
<1>14. CASE \E m \in Model : Switch(m)
  <2>1. PICK m \in Model : Switch(m)
    BY <1>14
  <2>2. jobs' = [jobs EXCEPT !["app"] = [NoJob EXCEPT !.model = m]] /\ engine = "ready"
    BY <2>1 DEF Switch
  <2>3. [NoJob EXCEPT !.model = m] \in Job /\ [NoJob EXCEPT !.model = m].at = "idle"
        /\ [NoJob EXCEPT !.model = m].moved = "none"
    BY EndedTyped
  <2>4. Fresh([NoJob EXCEPT !.model = m])
    BY <2>2, <2>3
  <2>5. QED
    BY <1>2, <1>3, <1>4, <2>3, <2>4
<1>15. QED
  BY <1>7, <1>8, <1>9, <1>10, <1>11, <1>12, <1>13, <1>14 DEF EngineSteps

\* The end of a setup is a new record.
LEMMA EndsAreNew ==
    ASSUME SetupTypeOK, StartedUp \/ Switched \/ NotSwitched \/ GiveUpOnModels
    PROVE  jobs'["app"].at = "idle"
<1>1. jobs' = [jobs EXCEPT !["app"] = NoJob]
  BY DEF StartedUp, Switched, NotSwitched, GiveUpOnModels, Becomes
<1>2. QED
  BY <1>1, AppIsProcess, NoJobTyped DEF SetupTypeOK

LEMMA EngineFlags ==
    ASSUME SetupTypeOK, EngineFits, EngineSteps \/ \E m \in Model : Switch(m)
    PROVE  EngineFits'
<1>1. jobs'["app"].at \in Working => engine' \in SettingUp
  <2>1. CASE jobs' = jobs
    <3>1. CASE /\ engine \in {"begin", "ready"}
      BY <2>1, <3>1 DEF EngineFits, SettingUp
    <3>2. CASE BeginModelSwitch
      BY <2>1, <3>2 DEF BeginModelSwitch, EngineFits, SettingUp
    <3>3. CASE engine' = engine
      BY <2>1, <3>3 DEF EngineFits
    <3>4. CASE engine' \in SettingUp
      BY <3>4
    <3>5. CASE EngineSteps
      BY <2>1, <3>1, <3>2, <3>4, <3>5, EndsAreNew DEF EngineSteps, EngineStarts, SetUpBackup,
         FallBack, ClearCancelled, TakeQuit, SettingUp, Working
    <3>6. CASE \E m \in Model : Switch(m)
      BY <3>1, <3>6 DEF Switch
    <3>7. QED
      BY <3>5, <3>6
  <2>2. CASE \E new \in Job :
               /\ jobs' = [jobs EXCEPT !["app"] = new]
               /\ new.at \in {"begin", "idle"}
               /\ new.at = "begin" => engine' \in SettingUp
    <3>1. jobs'["app"].at \in {"begin", "idle"}
          /\ (jobs'["app"].at = "begin" => engine' \in SettingUp)
      BY <2>2, AppIsProcess DEF SetupTypeOK
    <3>2. QED
      BY <3>1 DEF Working
  <2>3. QED
    BY <2>1, <2>2, EngineRecord
<1>2. engine' # "off" /\ (quitting' # "no" => shutdown')
  BY EngineRecord DEF EngineFits
<1>3. ASSUME quitting' = "sent", engine' \in SettingUp
      PROVE  switchCancelled'
  <2>1. quitting = "sent" /\ shutdown /\ engine # "off"
    BY <1>3, EngineRecord DEF EngineFits
  <2>2. SetUpBackup \/ FallBack
    BY <1>3, <2>1 DEF EngineSteps, EngineStarts, StartedUp,
       GiveUpOnModels, ClearCancelled, BeginModelSwitch, Switched, NotSwitched, TakeQuit, Switch,
       SettingUp
  <2>3. engine \in SettingUp /\ switchCancelled' = switchCancelled
    BY <2>2 DEF SetUpBackup, FallBack, NeedsBackup, SettingUp
  <2>4. QED
    BY <2>1, <2>3 DEF EngineFits
<1>4. QED
  BY <1>1, <1>2, <1>3 DEF EngineFits

LEMMA EngineKeeps ==
    ASSUME SetupInv, EngineSteps \/ \E m \in Model : Switch(m)
    PROVE  SetupInv'
<1> USE DEF SetupInv
<1>1. EngineFits'
  BY EngineFlags
<1>2. SetupTypeOK'
  BY EngineRecord, AppIsProcess DEF SetupTypeOK
<1>3. CASE jobs' = jobs
  <2>1. MovedFits' /\ ValidModelSurvives'
    BY <1>3, EngineRecord DEF MovedFits, ValidModelSurvives, Holding
  <2>2. QED
    BY <1>1, <1>2, <2>1
<1>4. ASSUME NEW new,
             jobs' = [jobs EXCEPT !["app"] = new], new.moved = "none",
             new.at \in {"begin", "idle"},
             \/ jobs["app"].at \in {"ok", "failed"}
             \/ engine \in {"off", "ready", "cleared"}
      PROVE  SetupInv'
  <2>1. jobs["app"].at \notin {"judge", "restore"}
    BY <1>4 DEF EngineFits, Working, SettingUp
  <2>2. MovedFits' /\ ValidModelSurvives'
    BY <1>4, <2>1, OtherSteps, EngineRecord, AppIsProcess
  <2>3. QED
    BY <1>1, <1>2, <2>2
<1>5. QED
  BY <1>3, <1>4, EngineRecord

\* What tools, users and accidents do.
LEMMA OthersKeep ==
    ASSUME SetupInv,
           \/ CancelSetup \/ FlagShutdown \/ SendQuit
           \/ \E p \in Process : Killed(p) \/ ToolEnds(p) \/ \E m \in ToolModels : ToolStarts(p, m)
           \/ \E m \in Model : Damage(m)
    PROVE  SetupInv'
<1> USE DEF SetupInv
<1>1. CASE CancelSetup \/ FlagShutdown \/ SendQuit
  <2>1. UNCHANGED <<cache, jobs, engine, had>>
    BY <1>1 DEF CancelSetup, FlagShutdown, SendQuit, switchVars
  <2>2. MovedFits' /\ ValidModelSurvives'
    BY <2>1 DEF MovedFits, ValidModelSurvives, Holding
  <2>3. SetupTypeOK' /\ EngineFits'
    BY <1>1 DEF CancelSetup, FlagShutdown, SendQuit, switchVars, SetupTypeOK, EngineFits
  <2>4. QED
    BY <2>2, <2>3
<1>2. CASE \E p \in Process : ToolEnds(p) \/ \E m \in ToolModels : ToolStarts(p, m)
  <2>1. PICK p \in Tools : ToolEnds(p) \/ \E m \in ToolModels : ToolStarts(p, m)
    BY <1>2 DEF ToolEnds, ToolStarts
  <2>2. p \in Process /\ p # "app"
    BY SetupAssumption DEF Process
  <2>3. PICK new \in Job :
          /\ jobs' = [jobs EXCEPT ![p] = new] /\ new.moved = "none"
          /\ new.at \in {"begin", "idle"} /\ jobs[p].at \in {"idle", "ok", "failed"}
    BY <2>1, NewJobTyped, NoJobTyped, ToolsSetUpModels DEF ToolEnds, ToolStarts, Becomes, At
  <2>4. UNCHANGED <<cache, switchVars, switchCancelled, quitting, had, mishaps>>
    BY <2>1 DEF ToolEnds, ToolStarts
  <2>5. MovedFits' /\ ValidModelSurvives'
    BY <2>2, <2>3, <2>4, OtherSteps
  <2>6. SetupTypeOK' /\ EngineFits'
    BY <2>2, <2>3, <2>4 DEF SetupTypeOK, EngineFits, switchVars
  <2>7. QED
    BY <2>5, <2>6
<1>3. CASE \E p \in Process : Killed(p)
  <2>1. PICK p \in Tools : Killed(p)
    BY <1>3 DEF Killed
  <2>2. p \in Process /\ p # "app"
    BY SetupAssumption DEF Process
  <2>3. /\ jobs' = [jobs EXCEPT ![p] = NoJob] /\ had' = had \ Holding(p)
        /\ mishaps' \in 0..MaxMishaps
        /\ UNCHANGED <<cache, switchVars, switchCancelled, quitting>>
    BY <2>1, SetupAssumption DEF Killed, Becomes, Mishap, SetupTypeOK
  <2>4. jobs'[p] = NoJob /\ \A q \in Process \ {p} : jobs'[q] = jobs[q]
    BY <2>2, <2>3 DEF SetupTypeOK
  <2>5. MovedFits'
    BY <2>3, <2>4, NoJobTyped DEF MovedFits
  <2>6. \A q \in Process \ {p} : Holding(q)' = Holding(q) /\ jobs'[q].moved = jobs[q].moved
    BY <2>4 DEF Holding
  <2>7. ValidModelSurvives'
    BY <2>3, <2>6 DEF ValidModelSurvives
  <2>8. SetupTypeOK' /\ EngineFits'
    BY <2>2, <2>3, <2>4, NoJobTyped DEF SetupTypeOK, EngineFits, switchVars
  <2>9. QED
    BY <2>5, <2>7, <2>8
<1>4. CASE \E m \in Model : Damage(m)
  <2>1. PICK m \in Model : Damage(m)
    BY <1>4
  <2>2. PICK to \in {"none", "bad"} : cache' = [cache EXCEPT ![m] = to]
    BY <2>1 DEF Damage
  <2>3. /\ had' = had \ {m} /\ mishaps' \in 0..MaxMishaps
        /\ UNCHANGED <<jobs, switchVars, switchCancelled, quitting>>
    BY <2>1, SetupAssumption DEF Damage, Mishap, SetupTypeOK
  <2>4. /\ \A x \in Model \ {m} : cache'[x] = cache[x]
        /\ cache'[m] \in {"none", "bad"} /\ cache' \in [Model -> Directory]
    BY <2>2 DEF SetupTypeOK, Directory
  <2>5. MovedFits'
    BY <2>3, <2>4 DEF MovedFits, SetupTypeOK, Job
  <2>6. ValidModelSurvives'
    BY <2>3, <2>4 DEF ValidModelSurvives, SetupTypeOK, Holding
  <2>7. SetupTypeOK' /\ EngineFits'
    BY <2>3, <2>4 DEF SetupTypeOK, EngineFits, switchVars
  <2>8. QED
    BY <2>5, <2>6, <2>7
<1>5. QED
  BY <1>1, <1>2, <1>3, <1>4

LEMMA NextSetup == SetupInv /\ [SetupNext]_setupVars => SetupInv'
<1> SUFFICES ASSUME SetupInv, [SetupNext]_setupVars PROVE SetupInv'
  OBVIOUS
<1>1. CASE \E p \in Process : SetsUp(p)
  <2>1. PICK p \in Process : SetsUp(p)
    BY <1>1
  <2>2. PICK new \in Job :
          /\ jobs' = [jobs EXCEPT ![p] = new]
          /\ cache' \in [Model -> Directory] /\ had' \subseteq Model
          /\ mishaps' \in 0..MaxMishaps
          /\ UNCHANGED <<switchVars, switchCancelled, quitting>>
    BY <2>1, StepTyped DEF SetupInv
  <2>3. SetupTypeOK'
    BY <2>2 DEF SetupInv, SetupTypeOK, switchVars
  <2>4. jobs[p].at \in Working
    BY <2>1 DEF SetsUp, Begin, Look, MoveAside, Judge, PutBack, Fetch, Promote, At, Working
  <2>5. EngineFits'
    <3>1. jobs'["app"] = jobs["app"] \/ p = "app"
      BY <2>2, AppIsProcess DEF SetupInv, SetupTypeOK
    <3>2. QED
      BY <2>2, <2>4, <3>1 DEF SetupInv, EngineFits, switchVars
  <2>6. MovedFits' /\ ValidModelSurvives'
    BY <2>1, StepMovedFits, StepSurvives DEF SetupInv
  <2>7. QED
    BY <2>3, <2>5, <2>6 DEF SetupInv
<1>2. CASE UNCHANGED setupVars
  BY <1>2 DEF setupVars, switchVars, SetupInv, SetupTypeOK, MovedFits, EngineFits,
     ValidModelSurvives, Holding
<1>3. QED
  BY <1>1, <1>2, EngineKeeps, OthersKeep DEF SetupNext

-----------------------------------------------------------------------------
(* The theorems about models.                                              *)

\* The inductive invariant holds in every state.
THEOREM SetupInvariant == SetupSpec => []SetupInv
  BY SetupInitial, NextSetup, PTL DEF SetupSpec

\* Every variable keeps to its type.
THEOREM SetupTypes == SetupSpec => []SetupTypeOK
<1>1. SetupInv => SetupTypeOK
  BY DEF SetupInv
<1>2. QED
  BY <1>1, SetupInvariant, PTL

\* A valid model is in place or in the hands of a process that puts it back.
THEOREM ModelsSurvive == SetupSpec => []ValidModelSurvives
<1>1. SetupInv => ValidModelSurvives
  BY DEF SetupInv
<1>2. QED
  BY <1>1, SetupInvariant, PTL

\* No setup goes on without knowing of a shutdown that has been sent.
THEOREM ShutdownCuts == SetupSpec => []QuitCutsSetupShort
<1>1. SetupInv => QuitCutsSetupShort
  BY DEF SetupInv, EngineFits, QuitCutsSetupShort
<1>2. QED
  BY <1>1, SetupInvariant, PTL

-----------------------------------------------------------------------------
(* The media players: what must hold along with ResumesItsOwn.             *)

Player == [owner : Nat, playing : BOOLEAN, track : Track]
Call == [call : {"Pause", "Play"}, owner : Nat]
Signal == [name : Players, owner : Nat, use : BOOLEAN, what : {"paused", "changed", "owner"}]
ClaimState == [open : BOOLEAN, owner : Nat, track : Track, successful : BOOLEAN,
          valid : BOOLEAN, awaitingPause : BOOLEAN]
Activity == [at : {"idle", "pausing", "claim", "resuming", "decide"} \cup Waits,
             name : Players \cup {NoPlayer}, owner : Nat, track : Track]
Order == {"Pause", "Resume", "Shutdown"}

PausesNow == orders # <<>> /\ Head(orders) = "Pause" /\ ongoing # Nothing

\* What the worker is at fits the command it carries out.
WorkerFits ==
    /\ orders = <<>> => ongoing = Nothing
    /\ ongoing.at = "idle" => ongoing = Nothing
    /\ ongoing.at \in {"pausing", "resuming"} => ongoing.name = NoPlayer
    /\ ongoing.at \in {"claim", "decide"} \cup Waits => ongoing.name \in Players \ todo
    /\ ongoing.at \in {"pausing", "claim", "pause_sent"} => ~Resuming
    /\ ongoing.at \in {"resuming", "decide", "play_sent"} => Resuming

\* Between two pauses there is a resume, which leaves no claim behind.
OrdersAlternate ==
    /\ \A i \in 1..Len(orders) - 1 : orders[i] = "Pause" => orders[i + 1] # "Pause"
    /\ capture \notin {"pausing", "capturing"} =>
          IF orders = <<>> THEN \A n \in Players : ~claims[n].open
                           ELSE orders[Len(orders)] # "Pause"
    /\ orders # <<>> /\ Head(orders) = "Pause" /\ ongoing = Nothing =>
          \A n \in Players : ~claims[n].open

\* A player is claimed once in a pause; a resume sees to every claim.
ClaimedOnce ==
    /\ PausesNow => \A n \in Players :
          n \in todo \/ Claiming(n) => ~claims[n].open /\ n \notin noted \cup quiet
    /\ ongoing # Nothing /\ Resuming => \A n \in Players :
          claims[n].open => n \in todo \/ (ongoing.at = "decide" /\ ongoing.name = n)
    /\ ongoing.at = "pause_sent" =>
          claims[ongoing.name].open /\ claims[ongoing.name].owner = ongoing.owner
    /\ \A n \in Players : claims[n].successful \/ claims[n].valid => claims[n].open

\* The program that owns a name is never older than one that a claim or the worker saw.
OwnersGrow ==
    /\ \A n \in Players : claims[n].open => claims[n].owner <= players[n].owner
    /\ ongoing.name # NoPlayer => ongoing.owner <= players[ongoing.name].owner

\* The call the worker waits for is the last in the player's inbox until it is answered.
LastCall == inboxes[ongoing.name][Len(inboxes[ongoing.name])]
CallUnderWay ==
    ongoing.at \in Waits =>
        IF answer # "none" THEN inboxes[ongoing.name] = <<>>
        ELSE /\ inboxes[ongoing.name] # <<>>
             /\ LastCall.call = IF ongoing.at = "pause_sent" THEN "Pause" ELSE "Play"
             /\ LastCall.owner = ongoing.owner

\* A pause that is reported to have worked stopped the player, or another program has its
\* name since.
Worked(n) == n \in stopped \/ claims[n].owner < players[n].owner
PausesWorked ==
    /\ \A n \in Players : claims[n].successful => Worked(n)
    /\ ongoing.at = "pause_sent" /\ answer = "ok" => Worked(ongoing.name)
    /\ ongoing.at = "decide" /\ claims[ongoing.name].successful =>
          ongoing.name \in stopped \/ claims[ongoing.name].owner < ongoing.owner

OwnPauseUnderWay(n) == \E i \in DOMAIN inboxes[n] :
    inboxes[n][i].call = "Pause" /\ inboxes[n][i].owner = claims[n].owner
UsePause(signal) == signal.what = "paused" /\ signal.use

\* A claim that waits for the signal of its own pause does not take a user's for it:
\* what the user does is signalled behind something else about the player.
OwnSignalFirst(n) ==
    /\ \A i \in DOMAIN signals : About(n, signals[i]) /\ UsePause(signals[i]) =>
           \E j \in DOMAIN signals : j < i /\ About(n, signals[j])
    /\ \/ \E i \in DOMAIN signals : About(n, signals[i])
       \/ OwnPauseUnderWay(n) \/ ~players[n].playing
       \/ claims[n].owner # players[n].owner \/ ~observing

UseRevokes ==
    /\ \A n \in Players : claims[n].valid => n \notin noted
    /\ \A n \in Players : claims[n].valid /\ claims[n].awaitingPause => OwnSignalFirst(n)
    /\ PausesNow => \A n \in Players, i \in DOMAIN signals :
          ~claims[n].open /\ signals[i].name = n => ~UsePause(signals[i])

\* The inductive invariant behind the first half of ResumesItsOwn.
PlayersInv == PlayersTypeOK /\ delays \in Nat /\ WorkerFits /\ OrdersAlternate
              /\ ClaimedOnce /\ OwnersGrow /\ CallUnderWay /\ PausesWorked /\ UseRevokes

-----------------------------------------------------------------------------
\* While nothing took too long, calls are answered before the worker goes on.
CallsAnswered ==
    /\ observing
    /\ \A n \in Players : inboxes[n] # <<>> =>
          /\ ongoing.at \in Waits /\ ongoing.name = n /\ answer = "none"
          /\ Len(inboxes[n]) = 1

\* All that is signalled about a player is Koett's own pause, once.
SignalsOwn(n) ==
    \A i \in DOMAIN signals : signals[i].name = n =>
        /\ signals[i].what = "paused" /\ claims[n].awaitingPause /\ ~players[n].playing
        /\ \A j \in DOMAIN signals : signals[j].name = n => j = i

\* A claimed player that nobody used is as it was claimed, but for the pause.
ClaimUndisturbed(n) ==
    /\ claims[n].valid /\ claims[n].owner = players[n].owner /\ claims[n].track = players[n].track
    /\ SignalsOwn(n)
    /\ IF ongoing.at = "pause_sent" /\ ongoing.name = n
         THEN \/ answer = "none" /\ players[n].playing /\ ~Unread(n) /\ claims[n].awaitingPause
              \/ answer = "ok" /\ ~players[n].playing
         ELSE claims[n].successful /\ ~players[n].playing
    /\ ongoing.at = "decide" /\ ongoing.name = n => AsSeen(n)

\* One that is not claimed any more plays again, or will as soon as it takes the Play.
PlaysAgain(n) ==
    \/ players[n].playing
    \/ /\ ongoing.at = "play_sent" /\ ongoing.name = n /\ answer = "none"
       /\ ongoing.owner = players[n].owner

AsLeft(n) == IF claims[n].open THEN ClaimUndisturbed(n) ELSE PlaysAgain(n)

\* The inductive invariant behind the second half.
QuietInv == delays = 0 => CallsAnswered /\ \A n \in quiet : AsLeft(n)
-----------------------------------------------------------------------------
(* The media players: the types.                                           *)

\* What Append and Tail make of a sequence.
LEMMA Appended ==
    ASSUME NEW S, NEW s \in Seq(S), NEW e \in S
    PROVE  /\ Append(s, e) \in Seq(S) /\ Append(s, e) # <<>> /\ Len(s) \in Nat
           /\ DOMAIN s = 1..Len(s) /\ DOMAIN Append(s, e) = 1..Len(s) + 1
           /\ Len(Append(s, e)) = Len(s) + 1
           /\ \A i \in 1..Len(s) : Append(s, e)[i] = s[i]
           /\ Append(s, e)[Len(s) + 1] = e
OBVIOUS

LEMMA Tailed ==
    ASSUME NEW S, NEW s \in Seq(S), s # <<>>
    PROVE  /\ Tail(s) \in Seq(S) /\ Head(s) = s[1] /\ s[1] \in S
           /\ Len(s) \in Nat \ {0} /\ Len(Tail(s)) = Len(s) - 1
           /\ DOMAIN s = 1..Len(s) /\ DOMAIN Tail(s) = 1..Len(s) - 1
           /\ \A i \in 1..Len(s) - 1 : Tail(s)[i] = s[i + 1]
           /\ (Tail(s) = <<>>) <=> (Len(s) = 1)
<1>1. Len(s) \in Nat \ {0} /\ Tail(s) \in Seq(S)
  OBVIOUS
<1>2. Len(Tail(s)) = Len(s) - 1
  OBVIOUS
<1>3. \A i \in 1..Len(s) - 1 : Tail(s)[i] = s[i + 1]
  BY <1>1
<1>4. Head(s) = s[1] /\ s[1] \in S
  BY <1>1
<1>5. DOMAIN s = 1..Len(s) /\ DOMAIN Tail(s) = 1..Len(s) - 1
  BY <1>1, <1>2
<1>6. (Tail(s) = <<>>) <=> (Len(s) = 1)
  <2> DEFINE t == Tail(s)
  <2>1. t \in Seq(S) /\ Len(t) = Len(s) - 1
    BY <1>1, <1>2
  <2> HIDE DEF t
  <2>2. (t = <<>>) <=> (Len(t) = 0)
    BY <2>1, EmptySeq
  <2>3. QED
    BY <1>1, <2>1, <2>2 DEF t
<1>7. QED
  BY <1>1, <1>2, <1>3, <1>4, <1>5, <1>6

LEMMA IsSequence ==
    ASSUME NEW S, NEW n \in Nat, NEW f, DOMAIN f = 1..n, \A i \in 1..n : f[i] \in S,
           f = [i \in 1..n |-> f[i]]
    PROVE  f \in Seq(S) /\ Len(f) = n
<1>1. f \in [1..n -> S]
  OBVIOUS
<1>2. QED
  BY <1>1

\* A signal is read by the monitor, as long as it runs.
LEMMA SignalsTyped ==
    ASSUME PlayersTypeOK, NEW n \in Players, NEW what \in {"paused", "changed", "owner"},
           NEW use \in BOOLEAN, Signals(n, what, use)
    PROVE  signals' \in Seq(Signal)
<1>1. [name |-> n, owner |-> players[n].owner, use |-> use, what |-> what] \in Signal
  BY DEF PlayersTypeOK, Signal
<1>2. signals \in Seq(Signal)
  BY DEF PlayersTypeOK, Signal
<1>3. QED
  BY <1>1, <1>2, Appended DEF Signals

\* What a user does to a player keeps the types.
LEMMA UseTyped ==
    ASSUME PlayersTypeOK, NEW n \in Players, Use(n)
    PROVE  PlayersTypeOK'
<1>1. players \in [Players -> Player] /\ players[n] \in Player
  BY DEF PlayersTypeOK, Player
<1>2. \A t \in Track, o \in Nat, p \in BOOLEAN :
         /\ [players[n] EXCEPT !.playing = p] \in Player
         /\ [players[n] EXCEPT !.track = t] \in Player
         /\ [players[n] EXCEPT !.owner = o, !.playing = p] \in Player
  BY <1>1 DEF Player
<1>3. players[n].owner + 1 \in Nat
  BY <1>1 DEF Player
<1>4. PICK p \in Player, what \in {"paused", "changed", "owner"}, use \in BOOLEAN :
         PlayerIs(n, p) /\ Signals(n, what, use)
  <2>1. Held(n) \in BOOLEAN /\ (Held(n) /\ ~Crosses(n)) \in BOOLEAN
    BY DEF Held, PlayersTypeOK, Claiming
  <2>2. CASE PlayerIs(n, [players[n] EXCEPT !.playing = FALSE])
             /\ Signals(n, "paused", Held(n) /\ ~Crosses(n))
    <3>1. [players[n] EXCEPT !.playing = FALSE] \in Player
      BY <1>2, <1>1 DEF Player
    <3>2. QED
      BY <2>1, <2>2, <3>1
  <2>3. CASE PlayerIs(n, [players[n] EXCEPT !.playing = TRUE])
             /\ Signals(n, "changed", Held(n))
    <3>1. [players[n] EXCEPT !.playing = TRUE] \in Player
      BY <1>2, <1>1 DEF Player
    <3>2. QED
      BY <2>1, <2>3, <3>1
  <2>4. CASE (\E t \in Track : PlayerIs(n, [players[n] EXCEPT !.track = t]))
             /\ Signals(n, "changed", Held(n))
    <3>1. PICK t \in Track : PlayerIs(n, [players[n] EXCEPT !.track = t])
      BY <2>4
    <3>2. [players[n] EXCEPT !.track = t] \in Player
      BY <1>2, <1>1 DEF Player
    <3>3. QED
      BY <2>1, <2>4, <3>1, <3>2
  <2>5. CASE (\E p \in BOOLEAN :
                PlayerIs(n, [players[n] EXCEPT !.owner = @ + 1, !.playing = p]))
             /\ Signals(n, "owner", Held(n))
    <3>1. PICK p \in BOOLEAN : PlayerIs(n, [players[n] EXCEPT !.owner = @ + 1, !.playing = p])
      BY <2>5
    <3>2. [players[n] EXCEPT !.owner = @ + 1, !.playing = p] \in Player
      <4> DEFINE own == [players[n] EXCEPT !.owner = players[n].owner + 1]
      <4>1. own \in Player
        BY <1>1, <1>3 DEF Player
      <4>2. [players[n] EXCEPT !.owner = @ + 1, !.playing = p] = [own EXCEPT !.playing = p]
        OBVIOUS
      <4> HIDE DEF own
      <4>3. QED
        BY <4>1, <4>2 DEF Player
    <3>3. QED
      BY <2>1, <2>5, <3>1, <3>2
  <2>6. QED
    BY <2>2, <2>3, <2>4, <2>5 DEF Use
<1>5. players' \in [Players -> Player]
  BY <1>1, <1>4 DEF PlayerIs
<1>6. signals' \in Seq(Signal)
  BY <1>4, SignalsTyped
<1>7. /\ quiet' \subseteq Players
      /\ UNCHANGED <<inboxes, observing, claims, ongoing, todo, answer, stopped, noted, orders,
                     capture>>
  BY DEF Use, PlayersTypeOK, workerSide, engineSide
<1>8. QED
  BY <1>5, <1>6, <1>7 DEF PlayersTypeOK, Player, Signal

\* A player's answer to a call keeps the types.
LEMMA HandlesTyped ==
    ASSUME PlayersTypeOK, NEW n \in Players, Handles(n)
    PROVE  PlayersTypeOK'
<1>1. /\ players \in [Players -> Player] /\ players[n] \in Player
      /\ inboxes \in [Players -> Seq(Call)] /\ inboxes[n] \in Seq(Call)
  BY DEF PlayersTypeOK, Player, Call
<1>2. inboxes' \in [Players -> Seq(Call)]
  BY <1>1, Tailed DEF Handles
<1>3. answer' \in {"none", "ok", "error"}
  BY DEF Handles, Replies, PlayersTypeOK
<1>4. players' \in [Players -> Player]
  <2>1. \A p \in BOOLEAN : [players[n] EXCEPT !.playing = p] \in Player
    BY <1>1 DEF Player
  <2>2. (Head(inboxes[n]).call = "Play") \in BOOLEAN
    OBVIOUS
  <2>3. QED
    BY <1>1, <2>1, <2>2 DEF Handles, PlayerIs
<1>5. signals' \in Seq(Signal)
  <2>1. CASE UNCHANGED signals
    BY <2>1 DEF PlayersTypeOK, Signal
  <2>2. CASE Signals(n, "changed", FALSE) \/ Signals(n, "paused", FALSE)
    BY <2>2, SignalsTyped
  <2>3. QED
    BY <2>1, <2>2 DEF Handles
<1>6. /\ stopped' \subseteq Players
      /\ UNCHANGED <<observing, claims, ongoing, todo, noted, quiet, orders, capture>>
  BY DEF Handles, PlayersTypeOK, engineSide
<1>7. QED
  BY <1>2, <1>3, <1>4, <1>5, <1>6 DEF PlayersTypeOK, Player, Signal, Call

\* The monitor keeps the types.
LEMMA MonitorTyped ==
    ASSUME PlayersTypeOK, Read \/ ObservationEnds
    PROVE  PlayersTypeOK'
<1>1. claims \in [Players -> ClaimState] /\ signals \in Seq(Signal)
  BY DEF PlayersTypeOK, ClaimState, Signal
<1>2. \A n \in Players, v, a \in BOOLEAN :
         /\ [claims[n] EXCEPT !.valid = v, !.awaitingPause = a] \in ClaimState
         /\ [claims[n] EXCEPT !.valid = v] \in ClaimState
  BY <1>1 DEF ClaimState
<1>3. CASE Read
  <2>1. signals' \in Seq(Signal)
    BY <1>1, <1>3, Tailed DEF Read
  <2>2. claims' \in [Players -> ClaimState]
    <3> DEFINE signal == Head(signals)
               own(n) == signal.what = "paused" /\ claims[n].awaitingPause
    <3>1. \A n \in Players : /\ (claims[n].valid /\ own(n)) \in BOOLEAN
                             /\ (claims[n].awaitingPause /\ signal.what = "owner") \in BOOLEAN
      BY <1>1 DEF ClaimState
    <3>2. claims' = [n \in Players |->
                IF About(n, signal)
                  THEN [claims[n] EXCEPT !.valid = @ /\ own(n),
                                         !.awaitingPause = @ /\ signal.what = "owner"]
                  ELSE claims[n]]
      BY <1>3 DEF Read
    <3> HIDE DEF own, signal
    <3>3. QED
      BY <1>1, <1>2, <3>1, <3>2
  <2>3. /\ noted' \subseteq Players
        /\ UNCHANGED <<players, inboxes, observing, ongoing, todo, answer, stopped, quiet,
                       orders, capture>>
    BY <1>3 DEF Read, Note, PlayersTypeOK, engineSide
  <2>4. QED
    BY <2>1, <2>2, <2>3 DEF PlayersTypeOK, ClaimState, Signal
<1>4. CASE ObservationEnds
  <2>1. claims' \in [Players -> ClaimState]
    BY <1>1, <1>2, <1>4 DEF ObservationEnds
  <2>2. /\ signals' \in Seq(Signal) /\ observing' = FALSE
        /\ UNCHANGED <<players, inboxes, ongoing, todo, answer, stopped, noted, quiet, orders,
                       capture>>
    BY <1>4 DEF ObservationEnds, engineSide, playHistory
  <2>3. QED
    BY <2>1, <2>2 DEF PlayersTypeOK, ClaimState, Signal
<1>5. QED
  BY <1>3, <1>4

\* Taking a command, seeing to it and ending it keep the types.
LEMMA OrderTyped ==
    ASSUME PlayersTypeOK, WorkerFits, TakeOrder \/ Completes \/ CutOff
    PROVE  PlayersTypeOK'
<1>1. /\ claims \in [Players -> ClaimState] /\ signals \in Seq(Signal) /\ orders \in Seq(Order)
      /\ Unclaimed \in ClaimState /\ Nothing \in Activity
      /\ \A at \in {"pausing", "resuming"} : [Nothing EXCEPT !.at = at] \in Activity
  BY DEF PlayersTypeOK, ClaimState, Signal, Order, Unclaimed, Nothing, Activity, Track
<1>2. CASE TakeOrder
  <2>1. ongoing' \in Activity
    BY <1>1, <1>2 DEF TakeOrder, GoOn
  <2>2. signals' \in Seq(Signal)
    <3>1. CASE UNCHANGED signals
      BY <1>1, <3>1
    <3>2. CASE signals' = [i \in DOMAIN signals |-> [signals[i] EXCEPT !.use = FALSE]]
      <4>1. DOMAIN signals = 1..Len(signals) /\ Len(signals) \in Nat
        BY <1>1
      <4>2. ASSUME NEW i \in 1..Len(signals)
            PROVE  [signals[i] EXCEPT !.use = FALSE] \in Signal
        <5>1. signals[i] \in Signal
          BY <1>1, <4>1
        <5>2. QED
          BY <5>1 DEF Signal
      <4>3. QED
        BY <3>2, <4>1, <4>2, IsSequence
    <3>3. QED
      BY <1>2, <3>1, <3>2 DEF TakeOrder
  <2>3. /\ todo' \subseteq Players /\ {stopped', noted', quiet'} \subseteq SUBSET Players
        /\ UNCHANGED <<players, inboxes, observing, claims, answer, orders, capture>>
    BY <1>2 DEF TakeOrder, PlayersTypeOK, engineSide, playHistory
  <2>4. QED
    BY <2>1, <2>2, <2>3 DEF PlayersTypeOK, Signal, Activity
<1>3. CASE Completes \/ CutOff
  <2>1. OrderEnds /\ orders # <<>>
    BY <1>3 DEF Completes, CutOff, WorkerFits, Nothing
  <2>2. /\ ongoing' = Nothing /\ todo' = {} /\ orders' = Tail(orders)
        /\ claims' \in [Players -> ClaimState]
        /\ UNCHANGED <<players, inboxes, signals, observing, answer, stopped, noted, quiet,
                       capture>>
    BY <1>1, <2>1 DEF OrderEnds, busVars, playHistory
  <2>3. QED
    <3>1. orders' \in Seq(Order)
      BY <1>1, <2>1, <2>2, Tailed
    <3>2. QED
      BY <1>1, <2>2, <3>1 DEF PlayersTypeOK, ClaimState, Activity, Order
<1>4. QED
  BY <1>2, <1>3

\* Looking at a player, claiming it and deciding on it keep the types.
LEMMA WorkerTyped ==
    ASSUME PlayersTypeOK, WorkerFits,
           \/ \E n \in Players : LookAt(n) \/ PassOver(n)
           \/ ClaimPlayer \/ PauseReturns \/ Decide \/ PlayReturns
    PROVE  PlayersTypeOK'
<1>1. /\ claims \in [Players -> ClaimState] /\ ongoing \in Activity /\ players \in [Players -> Player]
      /\ inboxes \in [Players -> Seq(Call)] /\ Unclaimed \in ClaimState
  BY DEF PlayersTypeOK, ClaimState, Activity, Player, Call, Unclaimed, Track
<1>2. [Nothing EXCEPT !.at = IF Resuming THEN "resuming" ELSE "pausing"] \in Activity
  BY DEF Nothing, Activity, Track
<1>3. CASE \E n \in Players : LookAt(n)
  <2>1. PICK n \in Players : LookAt(n)
    BY <1>3
  <2>2. ongoing' \in Activity
    BY <1>1, <2>1 DEF LookAt, Player, Activity
  <2>3. /\ todo' \subseteq Players
        /\ UNCHANGED <<busVars, claims, answer, playHistory, orders, capture>>
    BY <2>1 DEF LookAt, PlayersTypeOK, engineSide
  <2>4. QED
    BY <2>2, <2>3 DEF PlayersTypeOK, busVars, playHistory, Activity
<1>4. CASE \E n \in Players : PassOver(n)
  <2>1. PICK n \in Players : PassOver(n)
    BY <1>4
  <2>2. claims' \in [Players -> ClaimState]
    BY <1>1, <2>1 DEF PassOver
  <2>3. /\ todo' \subseteq Players
        /\ UNCHANGED <<busVars, ongoing, answer, playHistory, orders, capture>>
    BY <2>1 DEF PassOver, PlayersTypeOK, engineSide
  <2>4. QED
    BY <2>2, <2>3 DEF PlayersTypeOK, busVars, playHistory, ClaimState
<1>5. ASSUME NEW call \in {"Pause", "Play"}, Sends(call)
      PROVE  inboxes' \in [Players -> Seq(Call)] /\ answer' = "none"
  <2>1. [call |-> call, owner |-> ongoing.owner] \in Call
    BY <1>1 DEF Activity, Call
  <2>2. ASSUME NEW n \in Players
        PROVE  Append(inboxes[n], [call |-> call, owner |-> ongoing.owner]) \in Seq(Call)
    BY <1>1, <2>1, Appended
  <2>3. QED
    BY <1>1, <1>5, <2>2 DEF Sends
<1>6. CASE ClaimPlayer
  <2>1. ongoing' \in Activity
    BY <1>1, <1>6 DEF ClaimPlayer, Activity, Waits
  <2>2. claims' \in [Players -> ClaimState]
    BY <1>1, <1>6 DEF ClaimPlayer, ClaimState, Activity
  <2>3. quiet' \subseteq Players
    <3>1. ongoing.name \in Players
      BY <1>6 DEF ClaimPlayer, WorkerFits
    <3>2. QED
      BY <1>6, <3>1 DEF ClaimPlayer, PlayersTypeOK
  <2>4. /\ inboxes' \in [Players -> Seq(Call)] /\ answer' = "none"
        /\ UNCHANGED <<players, signals, observing, todo, stopped, noted, orders, capture>>
    BY <1>5, <1>6 DEF ClaimPlayer, engineSide
  <2>5. QED
    BY <2>1, <2>2, <2>3, <2>4 DEF PlayersTypeOK, Activity, ClaimState, Call
<1>7. CASE PauseReturns
  <2>1. \A n \in Players : [claims[n] EXCEPT !.successful = (answer = "ok")] \in ClaimState
    BY <1>1 DEF ClaimState
  <2>2. claims' \in [Players -> ClaimState]
    BY <1>1, <1>7, <2>1 DEF PauseReturns
  <2>3. /\ ongoing' \in Activity
        /\ UNCHANGED <<busVars, todo, answer, playHistory, orders, capture>>
    BY <1>2, <1>7 DEF PauseReturns, GoOn, engineSide
  <2>4. QED
    BY <2>2, <2>3 DEF PlayersTypeOK, busVars, playHistory, Activity, ClaimState
<1>8. CASE Decide
  <2>1. claims' \in [Players -> ClaimState]
    BY <1>1, <1>8 DEF Decide
  <2>2. ongoing' \in Activity
    BY <1>1, <1>2, <1>8 DEF Decide, GoOn, Activity, Waits
  <2>3. inboxes' \in [Players -> Seq(Call)] /\ answer' \in {"none", "ok", "error"}
    BY <1>1, <1>5, <1>8 DEF Decide, PlayersTypeOK
  <2>4. UNCHANGED <<players, signals, observing, todo, playHistory, orders, capture>>
    BY <1>8 DEF Decide, engineSide
  <2>5. QED
    BY <2>1, <2>2, <2>3, <2>4 DEF PlayersTypeOK, playHistory, Activity, ClaimState, Call
<1>9. CASE PlayReturns
  <2>1. /\ ongoing' \in Activity
        /\ UNCHANGED <<busVars, claims, todo, answer, playHistory, orders, capture>>
    BY <1>2, <1>9 DEF PlayReturns, GoOn, engineSide
  <2>2. QED
    BY <2>1 DEF PlayersTypeOK, busVars, playHistory, Activity
<1>10. QED
  BY <1>3, <1>4, <1>6, <1>7, <1>8, <1>9

\* The engine's requests keep the types.
EngineActs == BeginsCapture \/ EndsCapture \/ Leaves \/ Acknowledged

LEMMA EngineTyped ==
    ASSUME PlayersTypeOK, EngineActs
    PROVE  /\ PlayersTypeOK' /\ UNCHANGED <<busVars, workerSide, playHistory>>
           /\ \/ UNCHANGED orders
                 /\ (capture' \notin {"pausing", "capturing"} => capture \notin {"pausing", "capturing"})
              \/ orders' = Append(orders, "Pause") /\ capture \notin {"pausing", "capturing"}
                 /\ capture' = "pausing"
              \/ \E order \in {"Resume", "Shutdown"} : orders' = Append(orders, order)
<1>1. UNCHANGED <<busVars, workerSide, playHistory>>
  BY DEF EngineActs, BeginsCapture, EndsCapture, Leaves, Acknowledged, Orders
<1>2. \/ UNCHANGED orders
         /\ (capture' \notin {"pausing", "capturing"} => capture \notin {"pausing", "capturing"})
      \/ orders' = Append(orders, "Pause") /\ capture \notin {"pausing", "capturing"}
         /\ capture' = "pausing"
      \/ \E order \in {"Resume", "Shutdown"} : orders' = Append(orders, order)
  <2>1. CASE BeginsCapture
    BY <2>1 DEF BeginsCapture, Orders
  <2>2. CASE EndsCapture \/ Leaves
    BY <2>2 DEF EndsCapture, Leaves, Orders
  <2>3. CASE Acknowledged
    <3>1. /\ capture \in {"pausing", "resuming", "leaving", "stopping"}
          /\ capture = "pausing" => capture' = "capturing"
      BY <2>3 DEF Acknowledged, After
    <3>2. QED
      BY <2>3, <3>1 DEF Acknowledged
  <2>4. QED
    BY <2>1, <2>2, <2>3 DEF EngineActs
<1>3. orders' \in Seq({"Pause", "Resume", "Shutdown"})
  <2>1. orders \in Seq({"Pause", "Resume", "Shutdown"})
    BY DEF PlayersTypeOK
  <2>2. QED
    BY <1>2, <2>1, Appended
<1>4. capture' \in {"ready", "pausing", "capturing", "resuming", "leaving", "stopping", "gone"}
  BY DEF PlayersTypeOK, EngineActs, BeginsCapture, EndsCapture, Leaves, Acknowledged, Orders,
         After
<1>5. QED
  BY <1>1, <1>2, <1>3, <1>4 DEF PlayersTypeOK, busVars, workerSide, playHistory

LEMMA DelaysCount ==
    ASSUME delays \in Nat, [PlayersNext]_playersVars
    PROVE  delays' \in Nat /\ (delays' = delays \/ delays' = delays + 1)
           /\ (CutOff \/ ObservationEnds => delays' # 0)
<1>1. delays' = delays \/ delays' = delays + 1
  BY DEF PlayersNext, playersVars, Use, Handles, LookAt, PassOver, Read, ObservationEnds,
         TakeOrder, Completes, CutOff, ClaimPlayer, PauseReturns, Decide, PlayReturns,
         BeginsCapture, EndsCapture, Leaves, Acknowledged, Orders, Delay
<1>2. CutOff \/ ObservationEnds => delays' = delays + 1
  BY DEF CutOff, ObservationEnds, Delay
<1>3. QED
  BY <1>1, <1>2

LEMMA PlayersTyped ==
    ASSUME PlayersTypeOK, WorkerFits, delays \in Nat, [PlayersNext]_playersVars
    PROVE  PlayersTypeOK' /\ delays' \in Nat
<1>1. PlayersTypeOK'
  <2>1. CASE UNCHANGED playersVars
    BY <2>1 DEF PlayersTypeOK, playersVars, busVars, workerSide, playHistory, engineSide
  <2>2. CASE PlayersNext
    BY <2>2, UseTyped, HandlesTyped, MonitorTyped, OrderTyped, WorkerTyped, EngineTyped
    DEF PlayersNext, EngineActs
  <2>3. QED
    BY <2>1, <2>2
<1>2. QED
  BY <1>1, DelaysCount

-----------------------------------------------------------------------------
(* The media players: the worker and its commands.                         *)

\* A command ends.
EndsOrder == orders # <<>> /\ OrderEnds

\* What the steps that neither ask for anything nor end a command have in common.
GoesOn ==
    /\ UNCHANGED <<orders, capture>>
    /\ ongoing' = Nothing => ongoing = Nothing
    /\ ClaimPlayer \/ \A n \in Players : claims'[n].open => claims[n].open

LEMMA StepKinds ==
    ASSUME PlayersTypeOK, WorkerFits, [PlayersNext]_playersVars
    PROVE  EngineActs \/ EndsOrder \/ GoesOn
<1>1. claims \in [Players -> ClaimState] /\ Nothing.at = "idle"
  BY DEF PlayersTypeOK, ClaimState, Nothing
<1>2. ~Unclaimed.open
  BY DEF Unclaimed
<1>3. CASE UNCHANGED playersVars
  BY <1>3 DEF GoesOn, playersVars, busVars, workerSide, engineSide
<1>4. ASSUME NEW n \in Players, Use(n) \/ Handles(n) PROVE GoesOn
  BY <1>4 DEF Use, Handles, GoesOn, workerSide, engineSide
<1>5. ASSUME NEW n \in Players, LookAt(n) PROVE GoesOn
  <2>1. ongoing' # Nothing
    BY <1>5 DEF LookAt, Nothing
  <2>2. QED
    BY <1>5, <2>1 DEF LookAt, GoesOn, engineSide
<1>6. ASSUME NEW n \in Players, PassOver(n) PROVE GoesOn
  <2>1. UNCHANGED <<orders, capture, ongoing>>
    BY <1>6 DEF PassOver, engineSide
  <2>2. \A m \in Players : claims'[m].open => claims[m].open
    BY <1>1, <1>2, <1>6 DEF PassOver
  <2>3. QED
    BY <2>1, <2>2 DEF GoesOn
<1>7. CASE Read \/ ObservationEnds
  <2>1. UNCHANGED <<orders, capture, ongoing>>
    BY <1>7 DEF Read, ObservationEnds, engineSide
  <2>2. \A m \in Players : claims'[m].open = claims[m].open
    <3>1. \A m \in Players, v, a \in BOOLEAN :
             /\ [claims[m] EXCEPT !.valid = v, !.awaitingPause = a].open = claims[m].open
             /\ [claims[m] EXCEPT !.valid = v].open = claims[m].open
      BY <1>1 DEF ClaimState
    <3>2. CASE Read
      BY <1>1, <3>2 DEF Read, ClaimState
    <3>3. CASE ObservationEnds
      BY <3>1, <3>3 DEF ObservationEnds
    <3>4. QED
      BY <1>7, <3>2, <3>3
  <2>3. QED
    BY <2>1, <2>2 DEF GoesOn
<1>8. GoOn => ongoing' # Nothing
  BY DEF GoOn, Nothing
<1>9. CASE TakeOrder
  BY <1>8, <1>9 DEF TakeOrder, GoesOn, engineSide
<1>10. CASE Completes \/ CutOff
  BY <1>10 DEF Completes, CutOff, EndsOrder, WorkerFits, Nothing
<1>11. CASE ClaimPlayer
  <2>1. ongoing'.at = "pause_sent"
    BY <1>11 DEF ClaimPlayer, PlayersTypeOK
  <2>2. QED
    BY <1>1, <1>11, <2>1 DEF ClaimPlayer, GoesOn, engineSide
<1>12. CASE PauseReturns
  <2>1. \A m \in Players : claims'[m].open = claims[m].open
    BY <1>1, <1>12 DEF PauseReturns, ClaimState
  <2>2. QED
    BY <1>8, <1>12, <2>1 DEF PauseReturns, GoesOn, engineSide
<1>13. CASE Decide
  <2>1. \A m \in Players : claims'[m].open => claims[m].open
    BY <1>1, <1>2, <1>13 DEF Decide
  <2>2. ongoing' # Nothing
    <3>1. [ongoing EXCEPT !.at = "play_sent"].at = "play_sent"
      BY DEF PlayersTypeOK
    <3>2. QED
      BY <1>1, <1>8, <1>13, <3>1 DEF Decide
  <2>3. QED
    BY <1>13, <2>1, <2>2 DEF Decide, GoesOn, engineSide
<1>14. CASE PlayReturns
  BY <1>8, <1>14 DEF PlayReturns, GoesOn, engineSide
<1>15. CASE PlayersNext
  BY <1>4, <1>5, <1>6, <1>7, <1>9, <1>10, <1>11, <1>12, <1>13, <1>14, <1>15
  DEF PlayersNext, EngineActs
<1>16. QED
  BY <1>3, <1>15

\* While the worker is at something, the engine does not change what it is at.
LEMMA EngineKeepsHead ==
    ASSUME PlayersTypeOK, EngineActs, orders # <<>>
    PROVE  orders' # <<>> /\ Head(orders') = Head(orders) /\ (Resuming' <=> Resuming)
<1>1. orders \in Seq(Order) /\ orders # <<>>
  BY DEF PlayersTypeOK, Order
<1>2. \A e \in Order : /\ Append(orders, e) # <<>> /\ Append(orders, e) \in Seq(Order)
                       /\ Append(orders, e)[1] = orders[1]
  <2>1. Len(orders) \in Nat \ {0} /\ 1 \in 1..Len(orders)
    BY <1>1, Tailed
  <2>2. QED
    BY <1>1, <2>1, Appended
<1>3. orders' = orders \/ \E e \in Order : orders' = Append(orders, e)
  BY EngineTyped DEF Order
<1>4. orders' # <<>> /\ Head(orders') = Head(orders)
  <2>1. CASE orders' = orders
    BY <1>1, <2>1
  <2>2. ASSUME NEW e \in Order, orders' = Append(orders, e)
        PROVE  orders' # <<>> /\ Head(orders') = Head(orders)
    BY <1>1, <1>2, <2>2, Tailed
  <2>3. QED
    BY <1>3, <2>1, <2>2
<1>5. QED
  BY <1>4 DEF Resuming

LEMMA WorkerFitsKept ==
    ASSUME PlayersTypeOK, WorkerFits, [PlayersNext]_playersVars
    PROVE  WorkerFits'
<1>1. Nothing.at = "idle" /\ Nothing.name = NoPlayer /\ Nothing \in Activity
      /\ ongoing \in Activity
  BY DEF Nothing, Activity, Track, PlayersTypeOK
<1>2. CASE EngineActs
  <2>1. UNCHANGED <<ongoing, todo>>
    BY <1>2, EngineTyped DEF workerSide
  <2>2. CASE orders = <<>>
    BY <1>1, <2>1, <2>2 DEF WorkerFits, Waits
  <2>3. CASE orders # <<>>
    BY <1>2, <2>1, <2>3, EngineKeepsHead DEF WorkerFits
  <2>4. QED
    BY <2>2, <2>3
<1>3. CASE EndsOrder
  BY <1>1, <1>3 DEF EndsOrder, OrderEnds, WorkerFits, Waits
<1>4. CASE UNCHANGED <<orders, ongoing, todo>>
  BY <1>4 DEF WorkerFits, Resuming
<1>5. ASSUME NEW n \in Players, LookAt(n) PROVE WorkerFits'
  <2>1. /\ ongoing' = [at |-> IF Resuming THEN "decide" ELSE "claim", name |-> n,
                       owner |-> players[n].owner, track |-> players[n].track]
        /\ todo' = todo \ {n} /\ UNCHANGED orders /\ orders # <<>>
    BY <1>1, <1>5 DEF LookAt, engineSide, WorkerFits
  <2>2. QED
    BY <2>1 DEF WorkerFits, Resuming, Waits
<1>6. ASSUME NEW n \in Players, PassOver(n) PROVE WorkerFits'
  BY <1>6 DEF PassOver, engineSide, WorkerFits, Resuming
<1>7. ASSUME GoOn, UNCHANGED orders, orders # <<>> PROVE WorkerFits'
  <2>1. ongoing'.at = (IF Resuming THEN "resuming" ELSE "pausing") /\ ongoing'.name = NoPlayer
    BY <1>7 DEF GoOn, Nothing
  <2>2. QED
    BY <1>7, <2>1 DEF WorkerFits, Resuming, Waits
<1>8. ongoing.at # "idle" => orders # <<>>
  BY <1>1 DEF WorkerFits
<1>9. CASE TakeOrder \/ PauseReturns \/ PlayReturns
  BY <1>7, <1>8, <1>9 DEF TakeOrder, PauseReturns, PlayReturns, engineSide
<1>10. CASE ClaimPlayer
  <2>1. ongoing'.at = "pause_sent" /\ ongoing'.name = ongoing.name
    BY <1>1, <1>10 DEF ClaimPlayer, Activity
  <2>2. UNCHANGED <<orders, todo>> /\ ongoing.at = "claim"
    BY <1>10 DEF ClaimPlayer, engineSide
  <2>3. QED
    BY <1>8, <2>1, <2>2 DEF WorkerFits, Resuming, Waits
<1>11. CASE Decide
  <2>1. UNCHANGED <<orders, todo>> /\ ongoing.at = "decide"
    BY <1>11 DEF Decide, engineSide
  <2>2. CASE ongoing' = [ongoing EXCEPT !.at = "play_sent"]
    <3>1. ongoing'.at = "play_sent" /\ ongoing'.name = ongoing.name
      BY <1>1, <2>2 DEF Activity
    <3>2. QED
      BY <1>8, <2>1, <3>1 DEF WorkerFits, Resuming, Waits
  <2>3. QED
    BY <1>7, <1>8, <1>11, <2>1, <2>2 DEF Decide
<1>12. CASE PlayersNext
  <2>1. CASE Read \/ ObservationEnds \/ \E n \in Players : Use(n) \/ Handles(n)
    BY <1>4, <2>1 DEF Read, ObservationEnds, Use, Handles, workerSide, engineSide
  <2>2. CASE Completes \/ CutOff
    BY <1>1, <1>3, <2>2 DEF Completes, CutOff, EndsOrder, WorkerFits
  <2>3. QED
    BY <1>2, <1>5, <1>6, <1>9, <1>10, <1>11, <1>12, <2>1, <2>2 DEF PlayersNext, EngineActs
<1>13. CASE UNCHANGED playersVars
  BY <1>4, <1>13 DEF playersVars, workerSide, engineSide
<1>14. QED
  BY <1>12, <1>13

LEMMA OrdersAlternateKept ==
    ASSUME PlayersTypeOK, WorkerFits, OrdersAlternate, [PlayersNext]_playersVars
    PROVE  OrdersAlternate'
<1>1. orders \in Seq(Order) /\ Len(orders) \in Nat /\ claims \in [Players -> ClaimState]
  BY DEF PlayersTypeOK, Order, ClaimState
<1>2. CASE EngineActs
  <2>1. UNCHANGED <<claims, ongoing>>
    BY <1>2, EngineTyped DEF workerSide
  <2>2. CASE UNCHANGED orders
    BY <1>2, <2>1, <2>2, EngineTyped DEF OrdersAlternate
  <2>3. ASSUME NEW e \in Order, orders' = Append(orders, e)
        PROVE  /\ orders' # <<>> /\ Len(orders') = Len(orders) + 1
               /\ \A i \in 1..Len(orders) : orders'[i] = orders[i]
               /\ orders'[Len(orders')] = e
               /\ orders' \in Seq(Order)
               /\ Head(orders') = orders'[1]
    BY <1>1, <2>3, Appended, Tailed
  <2>4. ASSUME NEW e \in Order, orders' = Append(orders, e),
               orders # <<>> /\ e = "Pause" => orders[Len(orders)] # "Pause",
               e = "Pause" => capture' = "pausing",
               e = "Pause" /\ orders = <<>> => \A n \in Players : ~claims[n].open
        PROVE  OrdersAlternate'
    <3>1. \A i \in 1..Len(orders') - 1 : orders'[i] = "Pause" => orders'[i + 1] # "Pause"
      <4>1. SUFFICES ASSUME NEW i \in 1..Len(orders), orders[i] = "Pause"
                     PROVE  orders'[i + 1] # "Pause"
        BY <1>1, <2>3, <2>4
      <4>2. CASE i = Len(orders)
        <5>1. orders # <<>>
          BY <1>1, <4>1
        <5>2. QED
          BY <2>3, <2>4, <4>1, <4>2, <5>1
      <4>3. CASE i # Len(orders)
        <5>1. i \in 1..Len(orders) - 1 /\ i + 1 \in 1..Len(orders)
          BY <1>1, <4>3
        <5>2. QED
          BY <2>3, <2>4, <4>1, <5>1 DEF OrdersAlternate
      <4>4. QED
        BY <4>2, <4>3
    <3>2. capture' \notin {"pausing", "capturing"} => orders'[Len(orders')] # "Pause"
      BY <2>3, <2>4
    <3>3. ASSUME Head(orders') = "Pause", ongoing' = Nothing, NEW n \in Players
          PROVE  ~claims'[n].open
      <4>1. CASE orders = <<>>
        <5>1. Len(orders') = 1
          BY <2>3, <2>4, <4>1
        <5>2. QED
          BY <2>1, <2>3, <2>4, <3>3, <4>1, <5>1
      <4>2. CASE orders # <<>>
        BY <1>2, <2>1, <3>3, <4>2, EngineKeepsHead DEF OrdersAlternate
      <4>3. QED
        BY <4>1, <4>2
    <3>4. QED
      BY <2>3, <2>4, <3>1, <3>2, <3>3 DEF OrdersAlternate
  <2>5. CASE orders' = Append(orders, "Pause") /\ capture \notin {"pausing", "capturing"}
             /\ capture' = "pausing"
    <3>1. "Pause" \in Order
      BY DEF Order
    <3>2. /\ orders # <<>> => orders[Len(orders)] # "Pause"
          /\ orders = <<>> => \A n \in Players : ~claims[n].open
      BY <2>5 DEF OrdersAlternate
    <3>3. QED
      BY <2>4, <2>5, <3>1, <3>2
  <2>6. ASSUME NEW e \in {"Resume", "Shutdown"}, orders' = Append(orders, e)
        PROVE  OrdersAlternate'
    BY <2>4, <2>6 DEF Order
  <2>7. QED
    BY <1>2, <2>2, <2>5, <2>6, EngineTyped
<1>3. CASE EndsOrder
  <2>1. /\ orders # <<>> /\ orders' = Tail(orders) /\ UNCHANGED capture
        /\ claims' = IF Resuming THEN [n \in Players |-> Unclaimed] ELSE claims
    BY <1>3 DEF EndsOrder, OrderEnds
  <2>2. /\ Len(orders) \in Nat \ {0} /\ Len(orders') = Len(orders) - 1
        /\ \A i \in 1..Len(orders) - 1 : orders'[i] = orders[i + 1]
        /\ (orders' = <<>>) <=> (Len(orders) = 1)
        /\ Head(orders) = orders[1]
        /\ orders' # <<>> => Head(orders') = orders'[1]
    BY <1>1, <2>1, Tailed
  <2>3. Resuming => \A n \in Players : ~claims'[n].open
    BY <2>1 DEF Unclaimed
  <2>4. \A i \in 1..Len(orders') - 1 : orders'[i] = "Pause" => orders'[i + 1] # "Pause"
    <3>1. SUFFICES ASSUME NEW i \in 1..Len(orders') - 1, orders'[i] = "Pause"
                   PROVE  orders'[i + 1] # "Pause"
      OBVIOUS
    <3>2. /\ i \in 1..Len(orders) - 1 /\ i + 1 \in 1..Len(orders) - 1
          /\ orders'[i] = orders[i + 1] /\ orders'[i + 1] = orders[(i + 1) + 1]
      BY <2>2
    <3>3. QED
      BY <3>1, <3>2 DEF OrdersAlternate
  <2>5. orders' # <<>> => orders'[Len(orders')] = orders[Len(orders)]
    BY <2>2
  <2>6. ~Resuming => orders[1] = "Pause"
    BY <2>1, <2>2 DEF Resuming
  <2>7. ASSUME capture' \notin {"pausing", "capturing"}
        PROVE  IF orders' = <<>> THEN \A n \in Players : ~claims'[n].open
               ELSE orders'[Len(orders')] # "Pause"
    <3>1. orders[Len(orders)] # "Pause"
      BY <2>1, <2>7 DEF OrdersAlternate
    <3>2. CASE orders' = <<>>
      BY <2>2, <2>3, <2>6, <3>1, <3>2
    <3>3. QED
      BY <2>5, <3>1, <3>2
  <2>8. ASSUME orders' # <<>>, Head(orders') = "Pause", NEW n \in Players
        PROVE  ~claims'[n].open
    <3>1. 1 \in 1..Len(orders) - 1 /\ orders[2] = "Pause"
      BY <2>2, <2>8
    <3>2. orders[1] # "Pause"
      BY <3>1 DEF OrdersAlternate
    <3>3. QED
      BY <2>3, <2>6, <3>2
  <2>9. QED
    BY <2>4, <2>7, <2>8 DEF OrdersAlternate
<1>4. CASE GoesOn
  <2>1. CASE ClaimPlayer
    <3>1. ongoing.at = "claim" /\ ongoing'.at = "pause_sent"
      BY <2>1 DEF ClaimPlayer, PlayersTypeOK
    <3>2. orders # <<>> /\ ongoing' # Nothing
      BY <3>1 DEF WorkerFits, Nothing
    <3>3. QED
      BY <1>4, <3>2 DEF GoesOn, OrdersAlternate
  <2>2. CASE \A n \in Players : claims'[n].open => claims[n].open
    BY <1>4, <2>2 DEF GoesOn, OrdersAlternate
  <2>3. QED
    BY <1>4, <2>1, <2>2 DEF GoesOn
<1>5. QED
  BY <1>2, <1>3, <1>4, StepKinds

-----------------------------------------------------------------------------
(* The media players: the claims.                                          *)

SameClaim(n) ==
    /\ claims'[n].open = claims[n].open /\ claims'[n].owner = claims[n].owner
    /\ claims'[n].track = claims[n].track
    /\ claims'[n].valid => claims[n].valid
    /\ claims'[n].awaitingPause => claims[n].awaitingPause
    /\ claims'[n].successful = claims[n].successful \/ (PauseReturns /\ n = ongoing.name)

Drops == Completes \/ CutOff \/ Decide \/ \E m \in Players : PassOver(m)

\* A claim is made by ClaimPlayer, dropped, or only loses what speaks for it.
LEMMA ClaimsStep ==
    ASSUME PlayersTypeOK, [PlayersNext]_playersVars, NEW n \in Players
    PROVE  \/ SameClaim(n)
           \/ claims'[n] = Unclaimed /\ Drops
           \/ ClaimPlayer /\ n = ongoing.name
<1>1. claims \in [Players -> ClaimState]
  BY DEF PlayersTypeOK, ClaimState
<1>2. CASE UNCHANGED claims
  BY <1>2 DEF SameClaim
<1>3. CASE Read
  <2> DEFINE signal == Head(signals)
             own(m) == signal.what = "paused" /\ claims[m].awaitingPause
  <2>1. claims'[n] = IF About(n, signal)
                  THEN [claims[n] EXCEPT !.valid = @ /\ own(n),
                                         !.awaitingPause = @ /\ signal.what = "owner"]
                  ELSE claims[n]
    BY <1>3 DEF Read
  <2> HIDE DEF signal
  <2>2. CASE About(n, signal)
    BY <1>1, <2>1, <2>2 DEF SameClaim, ClaimState
  <2>3. QED
    BY <2>1, <2>2 DEF SameClaim
<1>4. CASE ObservationEnds
  BY <1>1, <1>4 DEF ObservationEnds, SameClaim, ClaimState
<1>5. CASE Completes \/ CutOff
  BY <1>2, <1>5 DEF Completes, CutOff, OrderEnds, Drops
<1>6. ASSUME NEW m \in Players, PassOver(m)
      PROVE  SameClaim(n) \/ (claims'[n] = Unclaimed /\ Drops)
  BY <1>1, <1>6 DEF PassOver, SameClaim, Drops
<1>7. CASE ClaimPlayer
  BY <1>1, <1>7 DEF ClaimPlayer, SameClaim
<1>8. CASE PauseReturns
  <2>1. CASE n = ongoing.name
    BY <1>1, <1>8, <2>1 DEF PauseReturns, SameClaim, ClaimState
  <2>2. CASE n # ongoing.name
    BY <1>1, <1>8, <2>2 DEF PauseReturns, SameClaim
  <2>3. QED
    BY <2>1, <2>2
<1>9. CASE Decide
  BY <1>1, <1>9 DEF Decide, SameClaim, Drops
<1>10. CASE UNCHANGED playersVars
  BY <1>2, <1>10 DEF playersVars, workerSide
<1>11. ASSUME NEW m \in Players, Use(m) \/ Handles(m) \/ LookAt(m)
       PROVE  UNCHANGED claims
  BY <1>11 DEF Use, Handles, LookAt, workerSide
<1>12. CASE TakeOrder \/ PlayReturns
  BY <1>2, <1>12 DEF TakeOrder, PlayReturns
<1>13. CASE EngineActs
  BY <1>2, <1>13, EngineTyped DEF workerSide
<1>14. CASE PlayersNext
  BY <1>2, <1>3, <1>4, <1>5, <1>6, <1>7, <1>8, <1>9, <1>11, <1>12, <1>13, <1>14
  DEF PlayersNext, EngineActs
<1>15. QED
  BY <1>10, <1>14

\* The engine does not change what the worker pauses or resumes.
LEMMA EngineKeepsWork ==
    ASSUME PlayersTypeOK, WorkerFits, EngineActs
    PROVE  /\ PausesNow' <=> PausesNow
           /\ (ongoing # Nothing /\ Resuming)' <=> (ongoing # Nothing /\ Resuming)
           /\ UNCHANGED <<busVars, workerSide, playHistory>>
<1>1. UNCHANGED <<busVars, workerSide, playHistory>> /\ UNCHANGED ongoing
  BY EngineTyped DEF workerSide
<1>2. CASE orders = <<>>
  BY <1>1, <1>2 DEF WorkerFits, PausesNow
<1>3. CASE orders # <<>>
  BY <1>1, <1>3, EngineKeepsHead DEF PausesNow
<1>4. QED
  BY <1>1, <1>2, <1>3

LEMMA ClaimedOnceKept ==
    ASSUME PlayersTypeOK, WorkerFits, OrdersAlternate, ClaimedOnce,
           [PlayersNext]_playersVars
    PROVE  ClaimedOnce'
<1>1. /\ claims \in [Players -> ClaimState] /\ ongoing \in Activity /\ todo \subseteq Players
      /\ noted \subseteq Players /\ quiet \subseteq Players
      /\ ~Unclaimed.open /\ ~Unclaimed.successful /\ ~Unclaimed.valid
      /\ Nothing.at = "idle" /\ Nothing.name = NoPlayer
  BY DEF PlayersTypeOK, ClaimState, Activity, Unclaimed, Nothing
<1>2. CASE EngineActs
  <2>1. UNCHANGED <<ongoing, todo, claims, noted, quiet>>
    BY <1>2, EngineTyped DEF workerSide, playHistory
  <2>2. QED
    BY <1>2, <2>1, EngineKeepsWork DEF ClaimedOnce, Claiming
<1>3. CASE EndsOrder
  <2>1. ongoing' = Nothing /\ claims' = IF Resuming THEN [n \in Players |-> Unclaimed] ELSE claims
    BY <1>3 DEF EndsOrder, OrderEnds
  <2>2. QED
    BY <1>1, <2>1 DEF ClaimedOnce, PausesNow
<1>4. ASSUME UNCHANGED <<orders, ongoing, todo>>, noted' = noted, quiet' \subseteq quiet,
             \A n \in Players : /\ claims'[n].open = claims[n].open
                                /\ claims'[n].owner = claims[n].owner
                                /\ claims'[n].valid => claims[n].valid
                                /\ claims'[n].successful = claims[n].successful
      PROVE  ClaimedOnce'
  <2>1. ongoing.at = "pause_sent" => ongoing.name \in Players
    BY DEF WorkerFits, Waits
  <2>2. QED
    BY <1>4, <2>1 DEF ClaimedOnce, PausesNow, Resuming, Claiming
<1>5. ASSUME NEW n \in Players, Use(n) \/ Handles(n) PROVE ClaimedOnce'
  BY <1>4, <1>5 DEF Use, Handles, workerSide, engineSide
<1>6. CASE ObservationEnds
  <2>1. \A n \in Players : claims'[n].open = claims[n].open /\ claims'[n].owner = claims[n].owner
                           /\ ~claims'[n].valid /\ claims'[n].successful = claims[n].successful
    BY <1>1, <1>6 DEF ObservationEnds, ClaimState
  <2>2. QED
    BY <1>4, <1>6, <2>1 DEF ObservationEnds, engineSide, playHistory
<1>7. CASE Read
  <2>1. UNCHANGED <<orders, ongoing, todo, quiet>>
    BY <1>7 DEF Read, engineSide
  <2>2. \A n \in Players : SameClaim(n) /\ claims'[n].successful = claims[n].successful
    <3> DEFINE signal == Head(signals)
               own(m) == signal.what = "paused" /\ claims[m].awaitingPause
    <3>1. SUFFICES ASSUME NEW n \in Players
                   PROVE  SameClaim(n) /\ claims'[n].successful = claims[n].successful
      OBVIOUS
    <3>2. claims'[n] = IF About(n, signal)
                    THEN [claims[n] EXCEPT !.valid = @ /\ own(n),
                                           !.awaitingPause = @ /\ signal.what = "owner"]
                    ELSE claims[n]
      BY <1>7 DEF Read
    <3> HIDE DEF signal
    <3>3. QED
      BY <1>1, <3>2 DEF SameClaim, ClaimState
  <2>3. \A n \in Players : n \in noted' => n \in noted \/ claims[n].open
    BY <1>7 DEF Read, Note, About
  <2>4. ongoing.at = "pause_sent" => ongoing.name \in Players
    BY DEF WorkerFits, Waits
  <2>5. QED
    BY <2>1, <2>2, <2>3, <2>4 DEF ClaimedOnce, PausesNow, Resuming, Claiming, SameClaim
<1>8. CASE TakeOrder
  <2>1. /\ UNCHANGED <<orders, claims>> /\ orders # <<>> /\ ongoing = Nothing
        /\ ongoing'.at = (IF Resuming THEN "resuming" ELSE "pausing")
        /\ IF Resuming THEN todo' = {n \in Players : claims[n].open}
           ELSE todo' = Players /\ noted' = {} /\ quiet' = {}
    BY <1>8 DEF TakeOrder, GoOn, Nothing, engineSide
  <2>2. ~Resuming => \A n \in Players : ~claims[n].open
    BY <2>1 DEF Resuming, OrdersAlternate
  <2>3. QED
    BY <2>1, <2>2 DEF ClaimedOnce, PausesNow, Resuming, Claiming
<1>9. ASSUME NEW n \in Players, LookAt(n) PROVE ClaimedOnce'
  <2>1. /\ UNCHANGED <<orders, claims, noted, quiet>> /\ todo' = todo \ {n} /\ n \in todo
        /\ ongoing'.at = (IF Resuming THEN "decide" ELSE "claim") /\ ongoing'.name = n
        /\ ongoing # Nothing /\ ongoing.at \in {"pausing", "resuming"}
    BY <1>1, <1>9 DEF LookAt, engineSide, playHistory
  <2>2. QED
    BY <2>1 DEF ClaimedOnce, PausesNow, Resuming, Claiming
<1>10. ASSUME NEW n \in Players, PassOver(n) PROVE ClaimedOnce'
  <2>1. /\ UNCHANGED <<orders, ongoing, noted, quiet>> /\ todo' = todo \ {n} /\ n \in todo
        /\ claims' = IF Resuming THEN [claims EXCEPT ![n] = Unclaimed] ELSE claims
        /\ ongoing # Nothing /\ ongoing.at \in {"pausing", "resuming"}
    BY <1>1, <1>10 DEF PassOver, engineSide, playHistory
  <2>2. QED
    BY <1>1, <2>1 DEF ClaimedOnce, PausesNow, Resuming, Claiming
<1>11. CASE ClaimPlayer
  <2>1. /\ UNCHANGED <<orders, todo, noted>> /\ quiet' \subseteq quiet \cup {ongoing.name}
        /\ claims' = [claims EXCEPT ![ongoing.name] =
                    [open |-> TRUE, owner |-> ongoing.owner, track |-> ongoing.track,
                     successful |-> FALSE, valid |-> TRUE, awaitingPause |-> TRUE]]
        /\ ongoing.at = "claim" /\ ongoing' = [ongoing EXCEPT !.at = "pause_sent"]
    BY <1>11 DEF ClaimPlayer, engineSide
  <2>2. ongoing.name \in Players \ todo /\ orders # <<>> /\ ~Resuming /\ ongoing # Nothing
    BY <1>1, <2>1 DEF WorkerFits
  <2>3. /\ ongoing'.at = "pause_sent" /\ ongoing'.name = ongoing.name
        /\ ongoing'.owner = ongoing.owner
    BY <1>1, <2>1 DEF Activity
  <2>4. /\ claims'[ongoing.name].open /\ claims'[ongoing.name].owner = ongoing.owner
        /\ \A n \in Players : n # ongoing.name => claims'[n] = claims[n]
    BY <1>1, <2>1, <2>2
  <2>5. PausesNow /\ ~(ongoing # Nothing /\ Resuming)' /\ ~Claiming(ongoing.name)'
    BY <2>1, <2>2, <2>3 DEF PausesNow, Resuming, Claiming
  <2>6. \A n \in Players : n \in todo \/ Claiming(n)' =>
           ~claims'[n].open /\ n \notin noted' \cup quiet'
    <3>1. \A n \in Players : ~Claiming(n)'
      BY <2>3 DEF Claiming
    <3>2. QED
      BY <2>1, <2>2, <2>4, <2>5, <3>1 DEF ClaimedOnce
  <2>7. \A n \in Players : claims'[n].successful \/ claims'[n].valid => claims'[n].open
    BY <2>4 DEF ClaimedOnce
  <2>8. QED
    BY <2>1, <2>3, <2>4, <2>5, <2>6, <2>7 DEF ClaimedOnce
<1>12. CASE PauseReturns
  <2>1. /\ UNCHANGED <<orders, todo, noted, quiet>> /\ ongoing.at = "pause_sent"
        /\ ongoing' = [Nothing EXCEPT !.at = IF Resuming THEN "resuming" ELSE "pausing"]
        /\ claims' = [claims EXCEPT ![ongoing.name].successful = (answer = "ok")]
    BY <1>12 DEF PauseReturns, GoOn, engineSide, playHistory
  <2>2. ongoing.name \in Players \ todo /\ orders # <<>> /\ ~Resuming /\ ongoing # Nothing
    BY <1>1, <2>1 DEF WorkerFits, Waits
  <2>3. ongoing'.at = "pausing"
    BY <2>1, <2>2 DEF Nothing
  <2>4. /\ claims'[ongoing.name].open
        /\ \A n \in Players : claims'[n].open = claims[n].open
        /\ \A n \in Players : n # ongoing.name => claims'[n] = claims[n]
    <3>1. claims'[ongoing.name].open = claims[ongoing.name].open
      BY <1>1, <2>1, <2>2 DEF ClaimState
    <3>2. \A n \in Players : n # ongoing.name => claims'[n] = claims[n]
      BY <1>1, <2>1
    <3>3. QED
      BY <2>1, <3>1, <3>2 DEF ClaimedOnce
  <2>5. PausesNow /\ ~Resuming'
    BY <2>1, <2>2 DEF PausesNow, Resuming
  <2>6. QED
    BY <2>1, <2>3, <2>4, <2>5 DEF ClaimedOnce, Claiming
<1>13. CASE Decide
  <2>1. /\ UNCHANGED <<orders, todo, noted, quiet>> /\ ongoing.at = "decide"
        /\ claims' = [claims EXCEPT ![ongoing.name] = Unclaimed]
        /\ ongoing'.at \in {"play_sent", "resuming", "pausing"}
    BY <1>1, <1>13 DEF Decide, GoOn, engineSide, playHistory, Activity, Nothing
  <2>2. ongoing.name \in Players \ todo /\ orders # <<>> /\ Resuming /\ ongoing # Nothing
    BY <1>1, <2>1 DEF WorkerFits
  <2>3. ~PausesNow'
    BY <2>1, <2>2 DEF Resuming, PausesNow
  <2>4. \A n \in Players : claims'[n] = IF n = ongoing.name THEN Unclaimed ELSE claims[n]
    BY <1>1, <2>1
  <2>5. QED
    BY <1>1, <2>1, <2>2, <2>3, <2>4 DEF ClaimedOnce
<1>14. CASE PlayReturns
  <2>1. /\ UNCHANGED <<orders, todo, noted, quiet, claims>> /\ ongoing.at = "play_sent"
        /\ ongoing'.at \in {"resuming", "pausing"}
    BY <1>14 DEF PlayReturns, GoOn, engineSide, playHistory, Nothing
  <2>2. orders # <<>> /\ Resuming /\ ongoing # Nothing
    BY <1>1, <2>1 DEF WorkerFits
  <2>3. ~PausesNow'
    BY <2>1, <2>2 DEF Resuming, PausesNow
  <2>4. QED
    BY <2>1, <2>2, <2>3 DEF ClaimedOnce
<1>15. CASE UNCHANGED playersVars
  BY <1>4, <1>15 DEF playersVars, workerSide, engineSide, playHistory
<1>16. CASE PlayersNext
  <2>1. CASE Completes \/ CutOff
    BY <1>3, <2>1 DEF Completes, CutOff, EndsOrder, WorkerFits, Nothing
  <2>2. QED
    BY <1>2, <1>5, <1>6, <1>7, <1>8, <1>9, <1>10, <1>11, <1>12, <1>13, <1>14, <1>16, <2>1
    DEF PlayersNext, EngineActs
<1>17. QED
  BY <1>15, <1>16

\* Which program has a name only ever becomes a newer one.
LEMMA NewerOwner ==
    ASSUME PlayersTypeOK, [PlayersNext]_playersVars, NEW n \in Players
    PROVE  /\ players[n].owner \in Nat /\ players'[n].owner \in Nat
           /\ players[n].owner <= players'[n].owner
<1>1. players \in [Players -> Player] /\ players[n] \in Player /\ players[n].owner \in Nat
  BY DEF PlayersTypeOK, Player
<1>2. CASE UNCHANGED players
  BY <1>1, <1>2
<1>3. ASSUME NEW m \in Players, NEW p, PlayerIs(m, p),
             p.owner = players[m].owner \/ p.owner = players[m].owner + 1
      PROVE  /\ players'[n].owner \in Nat /\ players[n].owner <= players'[n].owner
  <2>1. CASE n = m
    <3>1. players'[n] = p
      BY <1>1, <1>3, <2>1 DEF PlayerIs
    <3>2. QED
      BY <1>1, <1>3, <2>1, <3>1
  <2>2. CASE n # m
    BY <1>1, <1>3, <2>2 DEF PlayerIs
  <2>3. QED
    BY <2>1, <2>2
<1>4. ASSUME NEW m \in Players, NEW v
      PROVE  /\ [players[m] EXCEPT !.playing = v].owner = players[m].owner
             /\ [players[m] EXCEPT !.track = v].owner = players[m].owner
             /\ [players[m] EXCEPT !.owner = @ + 1, !.playing = v].owner = players[m].owner + 1
  <2>1. players[m] \in Player
    BY <1>1
  <2>2. QED
    BY <2>1 DEF Player
<1>5. ASSUME NEW m \in Players, Use(m)
      PROVE  /\ players'[n].owner \in Nat /\ players[n].owner <= players'[n].owner
  BY <1>3, <1>4, <1>5 DEF Use
<1>6. ASSUME NEW m \in Players, Handles(m)
      PROVE  /\ players'[n].owner \in Nat /\ players[n].owner <= players'[n].owner
  BY <1>2, <1>3, <1>4, <1>6 DEF Handles
<1>7. \A m \in Players : LookAt(m) \/ PassOver(m) => UNCHANGED players
  BY DEF LookAt, PassOver, busVars
<1>8. CASE Read \/ ObservationEnds \/ TakeOrder \/ Completes \/ CutOff \/ ClaimPlayer
           \/ PauseReturns \/ Decide \/ PlayReturns
  BY <1>2, <1>8 DEF Read, ObservationEnds, TakeOrder, Completes, CutOff, OrderEnds, ClaimPlayer,
     PauseReturns, Decide, PlayReturns, busVars
<1>9. CASE EngineActs
  BY <1>2, <1>9, EngineTyped DEF busVars
<1>10. CASE UNCHANGED playersVars
  BY <1>2, <1>10 DEF playersVars, busVars
<1>11. CASE PlayersNext
  BY <1>1, <1>2, <1>5, <1>6, <1>7, <1>8, <1>9, <1>11 DEF PlayersNext, EngineActs
<1>12. QED
  BY <1>1, <1>10, <1>11

LEMMA OwnersGrowKept ==
    ASSUME PlayersTypeOK, WorkerFits, OwnersGrow, [PlayersNext]_playersVars
    PROVE  OwnersGrow'
<1>1. /\ claims \in [Players -> ClaimState] /\ ongoing \in Activity /\ ~Unclaimed.open
      /\ Nothing.name = NoPlayer /\ NoPlayer \notin Players
  BY NamesAssumption DEF PlayersTypeOK, ClaimState, Activity, Unclaimed, Nothing
<1>2. \A n \in Players : /\ players[n].owner \in Nat /\ players'[n].owner \in Nat
                         /\ players[n].owner <= players'[n].owner
  BY NewerOwner
<1>3. ongoing.name \in Players \cup {NoPlayer} /\ ongoing.owner \in Nat
      /\ \A n \in Players : claims[n].owner \in Nat
  BY <1>1 DEF ClaimState, Activity
<1>4. ASSUME NEW n \in Players, claims'[n].open
      PROVE  claims'[n].owner <= players'[n].owner
  <2>1. CASE SameClaim(n)
    <3>1. claims[n].owner <= players[n].owner
      BY <1>4, <2>1 DEF SameClaim, OwnersGrow
    <3>2. QED
      BY <1>2, <1>3, <2>1, <3>1 DEF SameClaim
  <2>2. CASE ClaimPlayer /\ n = ongoing.name
    <3>1. claims'[n].owner = ongoing.owner
      BY <1>1, <2>2 DEF ClaimPlayer
    <3>2. ongoing.owner <= players[n].owner
      BY <1>1, <2>2 DEF OwnersGrow
    <3>3. QED
      BY <1>2, <1>3, <3>1, <3>2
  <2>3. QED
    BY <1>1, <1>4, <2>1, <2>2, ClaimsStep
<1>5. ASSUME ongoing'.name # NoPlayer
      PROVE  ongoing'.owner <= players'[ongoing'.name].owner
  <2>1. CASE ongoing'.name = ongoing.name /\ ongoing'.owner = ongoing.owner
    <3>1. ongoing.owner <= players[ongoing.name].owner
      BY <1>5, <2>1 DEF OwnersGrow
    <3>2. QED
      BY <1>2, <1>3, <1>5, <2>1, <3>1
  <2>2. ASSUME NEW n \in Players, LookAt(n)
        PROVE  ongoing'.owner <= players'[ongoing'.name].owner
    <3>1. ongoing'.name = n /\ ongoing'.owner = players[n].owner
      BY <2>2 DEF LookAt
    <3>2. QED
      BY <1>2, <3>1
  <2>3. ~GoOn /\ ongoing' # Nothing
    BY <1>1, <1>5 DEF GoOn, Nothing
  <2>4. CASE UNCHANGED ongoing
    BY <2>1, <2>4
  <2>5. CASE ClaimPlayer \/ Decide
    <3>1. \A v : /\ [ongoing EXCEPT !.at = v].name = ongoing.name
                 /\ [ongoing EXCEPT !.at = v].owner = ongoing.owner
      BY <1>1 DEF Activity
    <3>2. QED
      BY <2>1, <2>3, <2>5, <3>1 DEF ClaimPlayer, Decide
  <2>6. CASE Completes \/ CutOff \/ TakeOrder \/ PauseReturns \/ PlayReturns
    BY <2>3, <2>6 DEF Completes, CutOff, OrderEnds, TakeOrder, PauseReturns, PlayReturns
  <2>7. CASE Read \/ ObservationEnds \/ \E n \in Players : Use(n) \/ Handles(n) \/ PassOver(n)
    BY <2>4, <2>7 DEF Read, ObservationEnds, Use, Handles, PassOver, workerSide
  <2>8. CASE EngineActs
    BY <2>4, <2>8, EngineTyped DEF workerSide
  <2>9. CASE UNCHANGED playersVars
    BY <2>4, <2>9 DEF playersVars, workerSide
  <2>10. QED
    BY <2>2, <2>5, <2>6, <2>7, <2>8, <2>9 DEF PlayersNext, EngineActs
<1>6. QED
  BY <1>4, <1>5 DEF OwnersGrow

\* What a player's turn makes of the call that the worker waits for.
LEMMA CallUnderWayKept ==
    ASSUME PlayersTypeOK, WorkerFits, CallUnderWay, [PlayersNext]_playersVars
    PROVE  CallUnderWay'
<1>1. /\ inboxes \in [Players -> Seq(Call)] /\ ongoing \in Activity
      /\ Nothing.at = "idle"
      /\ ongoing.at \in Waits \cup {"claim", "decide"} => ongoing.name \in Players
  BY DEF PlayersTypeOK, Call, Activity, Nothing, WorkerFits
<1>2. CASE UNCHANGED <<ongoing, inboxes, answer>>
  BY <1>2 DEF CallUnderWay, LastCall
<1>3. ASSUME ongoing'.at \notin Waits PROVE CallUnderWay'
  BY <1>3 DEF CallUnderWay
<1>4. ASSUME NEW n \in Players, Handles(n) PROVE CallUnderWay'
  <2>1. /\ inboxes[n] # <<>> /\ inboxes' = [inboxes EXCEPT ![n] = Tail(@)] /\ UNCHANGED ongoing
        /\ \E result \in {"ok", "error"} : Replies(n, result)
    BY <1>4 DEF Handles
  <2>2. SUFFICES ASSUME ongoing.at \in Waits PROVE CallUnderWay'
    BY <2>1 DEF CallUnderWay
  <2>3. CASE n # ongoing.name
    <3>1. UNCHANGED answer /\ inboxes'[ongoing.name] = inboxes[ongoing.name]
      BY <1>1, <2>1, <2>2, <2>3 DEF Replies
    <3>2. QED
      BY <2>1, <3>1 DEF CallUnderWay, LastCall
  <2>4. CASE n = ongoing.name
    <3>1. /\ inboxes[n] \in Seq(Call) /\ inboxes[n] # <<>> /\ inboxes'[n] = Tail(inboxes[n])
          /\ answer = "none"
      BY <1>1, <2>1, <2>2, <2>4 DEF CallUnderWay
    <3>2. /\ Len(inboxes[n]) \in Nat \ {0} /\ Len(inboxes'[n]) = Len(inboxes[n]) - 1
          /\ (inboxes'[n] = <<>>) <=> (Len(inboxes[n]) = 1)
          /\ \A i \in 1..Len(inboxes[n]) - 1 : inboxes'[n][i] = inboxes[n][i + 1]
      BY <3>1, Tailed
    <3>3. CASE Len(inboxes[n]) = 1
      BY <2>1, <2>2, <2>4, <3>2, <3>3 DEF CallUnderWay, Replies
    <3>4. CASE Len(inboxes[n]) # 1
      <4>1. UNCHANGED answer /\ inboxes'[n] # <<>>
        BY <2>1, <3>2, <3>4 DEF Replies
      <4>2. inboxes'[n][Len(inboxes'[n])] = inboxes[n][Len(inboxes[n])]
        BY <3>2, <3>4
      <4>3. QED
        BY <2>1, <2>2, <2>4, <3>1, <4>1, <4>2 DEF CallUnderWay, LastCall
    <3>5. QED
      BY <3>3, <3>4
  <2>5. QED
    BY <2>3, <2>4
<1>5. ASSUME NEW call \in {"Pause", "Play"}, Sends(call), ongoing.name \in Players
      PROVE  /\ inboxes'[ongoing.name] # <<>> /\ answer' = "none"
             /\ inboxes'[ongoing.name][Len(inboxes'[ongoing.name])] =
                  [call |-> call, owner |-> ongoing.owner]
  <2> DEFINE c == [call |-> call, owner |-> ongoing.owner]
  <2>1. c \in Call /\ inboxes[ongoing.name] \in Seq(Call)
    BY <1>1, <1>5 DEF Call, Activity
  <2>2. inboxes'[ongoing.name] = Append(inboxes[ongoing.name], c) /\ answer' = "none"
    BY <1>1, <1>5 DEF Sends
  <2> HIDE DEF c
  <2>3. /\ Append(inboxes[ongoing.name], c) # <<>>
        /\ Append(inboxes[ongoing.name], c)[Len(Append(inboxes[ongoing.name], c))] = c
    BY <2>1, Appended
  <2>4. QED
    BY <2>2, <2>3 DEF c
<1>6. \A v : /\ [ongoing EXCEPT !.at = v].name = ongoing.name
             /\ [ongoing EXCEPT !.at = v].owner = ongoing.owner
             /\ [ongoing EXCEPT !.at = v].at = v
  BY <1>1 DEF Activity
<1>7. CASE ClaimPlayer
  <2>1. /\ ongoing'.at = "pause_sent" /\ ongoing'.name = ongoing.name
        /\ ongoing'.owner = ongoing.owner /\ Sends("Pause") /\ ongoing.name \in Players
    BY <1>1, <1>6, <1>7 DEF ClaimPlayer
  <2>2. QED
    BY <1>5, <2>1 DEF CallUnderWay, LastCall
<1>8. GoOn => ongoing'.at \notin Waits
  BY DEF GoOn, Nothing, Waits
<1>9. CASE Decide
  <2>1. CASE Sends("Play") /\ ongoing' = [ongoing EXCEPT !.at = "play_sent"]
    <3>1. /\ ongoing'.at = "play_sent" /\ ongoing'.name = ongoing.name
          /\ ongoing'.owner = ongoing.owner /\ ongoing.name \in Players
      BY <1>1, <1>6, <1>9, <2>1 DEF Decide
    <3>2. QED
      BY <1>5, <2>1, <3>1 DEF CallUnderWay, LastCall
  <2>2. QED
    BY <1>3, <1>8, <1>9, <2>1 DEF Decide
<1>10. CASE TakeOrder \/ PauseReturns \/ PlayReturns \/ Completes \/ CutOff
  BY <1>1, <1>3, <1>8, <1>10
  DEF TakeOrder, PauseReturns, PlayReturns, Completes, CutOff, OrderEnds, Waits
<1>11. ASSUME NEW n \in Players, LookAt(n) PROVE CallUnderWay'
  BY <1>3, <1>11 DEF LookAt, Waits
<1>12. CASE Read \/ ObservationEnds \/ \E n \in Players : Use(n) \/ PassOver(n)
  BY <1>2, <1>12 DEF Read, ObservationEnds, Use, PassOver, workerSide, busVars
<1>13. CASE EngineActs
  BY <1>2, <1>13, EngineTyped DEF workerSide, busVars
<1>14. CASE UNCHANGED playersVars
  BY <1>2, <1>14 DEF playersVars, workerSide, busVars
<1>15. QED
  BY <1>4, <1>7, <1>9, <1>10, <1>11, <1>12, <1>13, <1>14 DEF PlayersNext, EngineActs

\* What Koett's Pause has stopped stays noted as stopped, or is another program's by now.
LEMMA PausesWorkedKept ==
    ASSUME PlayersTypeOK, WorkerFits, OrdersAlternate, ClaimedOnce, OwnersGrow, CallUnderWay,
           PausesWorked, [PlayersNext]_playersVars
    PROVE  PausesWorked'
<1>1. /\ claims \in [Players -> ClaimState] /\ ongoing \in Activity /\ ~Unclaimed.successful
      /\ Nothing.at = "idle" /\ inboxes \in [Players -> Seq(Call)]
      /\ \A n \in Players : claims[n].owner \in Nat
  BY DEF PlayersTypeOK, ClaimState, Activity, Unclaimed, Nothing, Call
<1>2. \A n \in Players : /\ players[n].owner \in Nat /\ players'[n].owner \in Nat
                         /\ players[n].owner <= players'[n].owner
  BY NewerOwner
<1>3. ongoing.at \in {"pause_sent", "claim", "decide", "play_sent"} => ongoing.name \in Players
  BY DEF WorkerFits, Waits
<1>4. CASE stopped \subseteq stopped'
  <2>1. ASSUME NEW n \in Players, Worked(n), claims'[n].owner = claims[n].owner
        PROVE  Worked(n)'
    BY <1>1, <1>2, <1>4, <2>1 DEF Worked
  <2>2. ASSUME answer' = answer \/ answer' = "none" \/ ongoing'.at # "pause_sent",
               ongoing'.at = "pause_sent" /\ answer' # "none" =>
                  ongoing.at = "pause_sent" /\ ongoing'.name = ongoing.name,
               ongoing'.at = "decide" =>
                  \/ ongoing.at = "decide" /\ UNCHANGED ongoing
                  \/ ongoing'.owner = players[ongoing'.name].owner /\ ongoing'.name \in Players
                     /\ UNCHANGED claims
        PROVE  PausesWorked'
    <3>1. ASSUME NEW n \in Players, claims'[n].successful PROVE Worked(n)'
      <4>1. CASE SameClaim(n)
        <5>1. CASE claims[n].successful
          BY <2>1, <4>1, <5>1 DEF SameClaim, PausesWorked
        <5>2. CASE PauseReturns /\ n = ongoing.name
          <6>1. claims'[n].successful = (answer = "ok")
            BY <1>1, <5>2 DEF PauseReturns, ClaimState
          <6>2. Worked(n)
            BY <3>1, <5>2, <6>1 DEF PauseReturns, PausesWorked
          <6>3. QED
            BY <2>1, <4>1, <6>2 DEF SameClaim
        <5>3. QED
          BY <3>1, <4>1, <5>1, <5>2 DEF SameClaim
      <4>2. CASE ClaimPlayer /\ n = ongoing.name
        BY <1>1, <3>1, <4>2 DEF ClaimPlayer
      <4>3. QED
        BY <1>1, <3>1, <4>1, <4>2, ClaimsStep
    <3>2. ASSUME ongoing'.at = "pause_sent", answer' = "ok", NEW n, n = ongoing'.name
          PROVE  Worked(n)'
      <4>1. ongoing.at = "pause_sent" /\ n = ongoing.name /\ answer = "ok"
        BY <2>2, <3>2
      <4>2. n \in Players /\ Worked(n) /\ claims[n].open
        BY <1>3, <4>1 DEF PausesWorked, ClaimedOnce
      <4>3. ~ClaimPlayer /\ ~Drops
        <5>1. ~ClaimPlayer /\ ~Decide
          BY <4>1 DEF ClaimPlayer, Decide
        <5>2. \A m \in Players : ~PassOver(m)
          BY <4>1 DEF PassOver
        <5>3. ~Completes /\ ~CutOff
          BY <1>1, <3>2 DEF Completes, CutOff, OrderEnds
        <5>4. QED
          BY <5>1, <5>2, <5>3 DEF Drops
      <4>4. SameClaim(n)
        BY <4>2, <4>3, ClaimsStep
      <4>5. QED
        BY <2>1, <4>2, <4>4 DEF SameClaim
    <3>3. ASSUME ongoing'.at = "decide", claims'[ongoing'.name].successful
          PROVE  (ongoing.name \in stopped \/ claims[ongoing.name].owner < ongoing.owner)'
      <4>1. CASE ongoing'.owner = players[ongoing'.name].owner /\ ongoing'.name \in Players
                 /\ UNCHANGED claims
        <5>1. Worked(ongoing'.name)
          BY <3>3, <4>1 DEF PausesWorked
        <5>2. QED
          BY <1>4, <4>1, <5>1 DEF Worked
      <4>2. CASE ongoing.at = "decide" /\ UNCHANGED ongoing
        <5>1. ongoing.name \in Players /\ ~ClaimPlayer /\ ~PauseReturns
          BY <1>3, <4>2 DEF ClaimPlayer, PauseReturns
        <5>2. SameClaim(ongoing.name)
          BY <1>1, <3>3, <4>2, <5>1, ClaimsStep
        <5>3. claims[ongoing.name].successful /\ claims'[ongoing.name].owner = claims[ongoing.name].owner
          BY <3>3, <4>2, <5>1, <5>2 DEF SameClaim
        <5>4. QED
          BY <1>4, <4>2, <5>3 DEF PausesWorked
      <4>3. QED
        BY <2>2, <3>3, <4>1, <4>2
    <3>4. QED
      BY <3>1, <3>2, <3>3 DEF PausesWorked
  <2>3. CASE UNCHANGED <<ongoing, answer>>
    BY <2>2, <2>3
  <2>4. ASSUME NEW n \in Players, Handles(n) PROVE PausesWorked'
    <3>1. /\ UNCHANGED <<ongoing, claims>> /\ inboxes[n] # <<>>
          /\ \E result \in {"ok", "error"} : Replies(n, result)
      BY <2>4 DEF Handles
    <3>2. CASE UNCHANGED answer
      BY <2>3, <3>1, <3>2
    <3>3. CASE ongoing.at \in Waits /\ ongoing.name = n /\ Len(inboxes[n]) = 1
      <4>1. CASE ongoing.at = "play_sent"
        BY <2>2, <3>1, <4>1
      <4>2. CASE ongoing.at = "pause_sent"
        <5>1. /\ answer = "none" /\ inboxes[n][1].call = "Pause"
              /\ inboxes[n][1].owner = ongoing.owner
          BY <3>1, <3>3, <4>2 DEF CallUnderWay, LastCall
        <5>2. Head(inboxes[n]) = inboxes[n][1]
          BY <1>1, <3>1, Tailed
        <5>3. claims[n].owner = ongoing.owner /\ claims[n].owner <= players[n].owner
          BY <3>3, <4>2 DEF ClaimedOnce, OwnersGrow
        <5>4. Worked(n)'
          <6>1. CASE ongoing.owner # players[n].owner
            <7>1. claims[n].owner < players[n].owner
              BY <1>1, <1>2, <5>3, <6>1
            <7>2. QED
              BY <1>1, <1>2, <3>1, <7>1 DEF Worked
          <6>2. CASE ongoing.owner = players[n].owner
            <7>1. stopped' = stopped \cup {n}
              BY <2>4, <5>1, <5>2, <6>2 DEF Handles
            <7>2. QED
              BY <7>1 DEF Worked
          <6>3. QED
            BY <6>1, <6>2
        <5>5. \A m \in Players : claims'[m].successful => Worked(m)'
          BY <2>1, <3>1 DEF PausesWorked
        <5>6. QED
          BY <3>1, <3>3, <4>2, <5>4, <5>5 DEF PausesWorked
      <4>3. QED
        BY <3>3, <4>1, <4>2 DEF Waits
    <3>4. QED
      BY <3>1, <3>2, <3>3 DEF Replies
  <2>5. ASSUME NEW n \in Players, LookAt(n) PROVE PausesWorked'
    <3>1. /\ ongoing'.at \in {"decide", "claim"} /\ ongoing'.name = n
          /\ ongoing'.owner = players[n].owner /\ UNCHANGED claims
      BY <2>5 DEF LookAt
    <3>2. QED
      BY <2>2, <3>1
  <2>6. CASE ClaimPlayer
    <3>1. ongoing'.at = "pause_sent" /\ answer' = "none"
      BY <1>1, <2>6 DEF ClaimPlayer, Sends, Activity
    <3>2. QED
      BY <2>2, <3>1
  <2>7. GoOn => ongoing'.at \in {"pausing", "resuming"}
    BY DEF GoOn, Nothing
  <2>8. CASE Decide
    <3>1. ongoing'.at \in {"pausing", "resuming", "play_sent"}
      BY <1>1, <2>7, <2>8 DEF Decide, Activity
    <3>2. QED
      BY <2>2, <3>1
  <2>9. CASE TakeOrder \/ PauseReturns \/ PlayReturns
    BY <2>2, <2>7, <2>9 DEF TakeOrder, PauseReturns, PlayReturns
  <2>10. CASE Completes \/ CutOff
    BY <1>1, <2>2, <2>10 DEF Completes, CutOff, OrderEnds
  <2>11. CASE Read \/ ObservationEnds \/ \E n \in Players : Use(n) \/ PassOver(n)
    BY <2>3, <2>11 DEF Read, ObservationEnds, Use, PassOver, workerSide
  <2>12. CASE EngineActs
    BY <2>3, <2>12, EngineTyped DEF workerSide
  <2>13. CASE UNCHANGED playersVars
    BY <2>3, <2>13 DEF playersVars, workerSide
  <2>14. QED
    BY <2>4, <2>5, <2>6, <2>8, <2>9, <2>10, <2>11, <2>12, <2>13 DEF PlayersNext, EngineActs
<1>5. CASE TakeOrder /\ ~Resuming
  <2>1. \A n \in Players : ~claims[n].open
    BY <1>5 DEF TakeOrder, OrdersAlternate, Resuming
  <2>2. UNCHANGED claims /\ ongoing'.at = "pausing"
    BY <1>5 DEF TakeOrder, GoOn, Nothing
  <2>3. QED
    BY <2>1, <2>2 DEF PausesWorked, ClaimedOnce
<1>6. stopped \subseteq stopped' \/ (TakeOrder /\ ~Resuming)
  <2>1. \A n \in Players : Handles(n) => stopped \subseteq stopped'
    BY DEF Handles
  <2>2. \A n \in Players : Use(n) \/ LookAt(n) \/ PassOver(n) => UNCHANGED stopped
    BY DEF Use, LookAt, PassOver, playHistory
  <2>3. Read \/ ObservationEnds \/ Completes \/ CutOff \/ ClaimPlayer \/ PauseReturns \/ Decide
           \/ PlayReturns => UNCHANGED stopped
    BY DEF Read, ObservationEnds, Completes, CutOff, OrderEnds, ClaimPlayer, PauseReturns,
           Decide, PlayReturns, playHistory
  <2>4. TakeOrder /\ Resuming => UNCHANGED stopped
    BY DEF TakeOrder, playHistory
  <2>5. EngineActs => UNCHANGED stopped
    BY EngineTyped DEF playHistory
  <2>6. UNCHANGED playersVars => UNCHANGED stopped
    BY DEF playersVars, playHistory
  <2>7. QED
    BY <2>1, <2>2, <2>3, <2>4, <2>5, <2>6 DEF PlayersNext, EngineActs
<1>7. QED
  BY <1>4, <1>5, <1>6

-----------------------------------------------------------------------------
(* The media players: what was signalled.                                  *)

\* A signal is added at the end, while the monitor runs.
LEMMA SignalAdded ==
    ASSUME PlayersTypeOK, NEW n \in Players, NEW what \in {"paused", "changed", "owner"},
           NEW use \in BOOLEAN, Signals(n, what, use)
    PROVE  /\ signals \in Seq(Signal) /\ Len(signals) \in Nat /\ DOMAIN signals = 1..Len(signals)
           /\ \A i \in DOMAIN signals : i \in DOMAIN signals' /\ signals'[i] = signals[i]
           /\ ~observing => signals' = signals
           /\ observing =>
                /\ DOMAIN signals' = 1..Len(signals) + 1
                /\ signals'[Len(signals) + 1] = [name |-> n, owner |-> players[n].owner,
                                                 use |-> use, what |-> what]
<1>1. [name |-> n, owner |-> players[n].owner, use |-> use, what |-> what] \in Signal
  BY DEF PlayersTypeOK, Signal
<1>2. signals \in Seq(Signal) /\ Len(signals) \in Nat /\ DOMAIN signals = 1..Len(signals)
  BY DEF PlayersTypeOK, Signal
<1>3. CASE ~observing
  BY <1>2, <1>3 DEF Signals
<1>4. CASE observing
  <2> DEFINE e == [name |-> n, owner |-> players[n].owner, use |-> use, what |-> what]
  <2>1. signals' = Append(signals, e) /\ e \in Signal
    BY <1>1, <1>4 DEF Signals
  <2> HIDE DEF e
  <2>2. /\ DOMAIN signals' = 1..Len(signals) + 1 /\ signals'[Len(signals) + 1] = e
        /\ \A i \in 1..Len(signals) : signals'[i] = signals[i]
    BY <1>2, <2>1, Appended
  <2>3. QED
    BY <1>2, <1>4, <2>2 DEF e
<1>5. QED
  BY <1>3, <1>4

\* What else a step leaves of the signals a claim waits behind.
LEMMA OwnSignalStays ==
    ASSUME PlayersTypeOK, NEW n \in Players, OwnSignalFirst(n), UNCHANGED <<signals, observing>>,
           claims'[n].open = claims[n].open, claims'[n].owner = claims[n].owner,
           players'[n].owner = players[n].owner,
           players'[n].playing => players[n].playing,
           claims[n].owner = players[n].owner => (OwnPauseUnderWay(n) => OwnPauseUnderWay(n)')
    PROVE  OwnSignalFirst(n)'
<1>1. \A i \in DOMAIN signals : About(n, signals[i])' <=> About(n, signals[i])
  BY DEF About
<1>2. QED
  BY <1>1 DEF OwnSignalFirst

\* A change that is signalled: what a claim that waits for its own signal can rely on.
LEMMA OwnSignalPushed ==
    ASSUME PlayersTypeOK, NEW n \in Players, OwnSignalFirst(n), claims[n].open,
           NEW what \in {"paused", "changed", "owner"}, NEW use \in BOOLEAN,
           Signals(n, what, use), UNCHANGED <<claims, observing>>,
           players'[n].owner = players[n].owner \/ what = "owner",
           what = "paused" /\ use =>
              players[n].playing /\ \A i \in DOMAIN inboxes[n] : inboxes[n][i].call # "Pause"
    PROVE  OwnSignalFirst(n)'
<1> PICK last \in Nat : last = Len(signals) + 1
  BY DEF PlayersTypeOK
<1>1. /\ signals \in Seq(Signal) /\ Len(signals) \in Nat /\ DOMAIN signals = 1..Len(signals)
      /\ \A i \in DOMAIN signals : i \in DOMAIN signals' /\ signals'[i] = signals[i]
      /\ ~observing => signals' = signals
      /\ observing => /\ DOMAIN signals' = 1..last
                      /\ signals'[last] = [name |-> n, owner |-> players[n].owner,
                                           use |-> use, what |-> what]
  BY SignalAdded
<1>2. \A i \in DOMAIN signals : About(n, signals[i])' <=> About(n, signals[i])
  BY <1>1 DEF About
<1>3. CASE ~observing
  BY <1>1, <1>2, <1>3 DEF OwnSignalFirst
<1>4. CASE observing
  <2>1. About(n, signals[last])' <=> what = "owner" \/ players[n].owner = claims[n].owner
    BY <1>1, <1>4 DEF About
  <2>2. \/ \E i \in DOMAIN signals' : About(n, signals[i])'
        \/ claims'[n].owner # players'[n].owner
    BY <1>1, <1>4, <2>1
  <2>3. ASSUME NEW i \in DOMAIN signals', About(n, signals[i])', UsePause(signals[i])'
        PROVE  \E j \in DOMAIN signals' : j < i /\ About(n, signals[j])'
    <3>1. CASE i \in DOMAIN signals
      <4>1. PICK j \in DOMAIN signals : j < i /\ About(n, signals[j])
        BY <1>1, <1>2, <2>3, <3>1 DEF OwnSignalFirst, UsePause
      <4>2. QED
        BY <1>1, <1>2, <4>1
    <3>2. CASE i \notin DOMAIN signals
      <4>1. i = last
        BY <1>1, <1>4, <2>3, <3>2
      <4>2. what = "paused" /\ use
        BY <1>1, <1>4, <2>3, <4>1 DEF UsePause
      <4>3. ~OwnPauseUnderWay(n) /\ players[n].playing
        BY <4>2 DEF OwnPauseUnderWay
      <4>4. claims[n].owner = players[n].owner
        BY <2>1, <2>3, <4>1, <4>2
      <4>5. PICK j \in DOMAIN signals : About(n, signals[j])
        BY <1>4, <4>3, <4>4 DEF OwnSignalFirst
      <4>6. j < i /\ j \in DOMAIN signals'
        BY <1>1, <4>1
      <4>7. QED
        BY <1>2, <4>5, <4>6
    <3>3. QED
      BY <3>1, <3>2
  <2>4. QED
    BY <2>2, <2>3 DEF OwnSignalFirst
<1>5. QED
  BY <1>3, <1>4

\* A change of another player is not about this one.
LEMMA OwnSignalAside ==
    ASSUME PlayersTypeOK, NEW n \in Players, OwnSignalFirst(n), NEW m \in Players \ {n},
           NEW what \in {"paused", "changed", "owner"}, NEW use \in BOOLEAN,
           Signals(m, what, use), UNCHANGED <<claims, observing>>,
           UNCHANGED <<players[n], inboxes[n]>>
    PROVE  OwnSignalFirst(n)'
<1> PICK last \in Nat : last = Len(signals) + 1
  BY DEF PlayersTypeOK
<1>1. /\ signals \in Seq(Signal) /\ Len(signals) \in Nat /\ DOMAIN signals = 1..Len(signals)
      /\ \A i \in DOMAIN signals : i \in DOMAIN signals' /\ signals'[i] = signals[i]
      /\ ~observing => signals' = signals
      /\ observing => /\ DOMAIN signals' = 1..last
                      /\ signals'[last] = [name |-> m, owner |-> players[m].owner,
                                           use |-> use, what |-> what]
  BY SignalAdded
<1>2. \A i \in DOMAIN signals : About(n, signals[i])' <=> About(n, signals[i])
  BY <1>1 DEF About
<1>3. \A i \in DOMAIN signals' : About(n, signals[i])' => i \in DOMAIN signals
  <2>1. observing => ~About(n, signals[last])'
    BY <1>1 DEF About
  <2>2. QED
    BY <1>1, <2>1
<1>4. OwnPauseUnderWay(n)' <=> OwnPauseUnderWay(n)
  BY DEF OwnPauseUnderWay
<1>5. \A i \in DOMAIN signals' : About(n, signals[i])' /\ UsePause(signals[i])' =>
         \E j \in DOMAIN signals' : j < i /\ About(n, signals[j])'
  <2>1. SUFFICES ASSUME NEW i \in DOMAIN signals', About(n, signals[i])', UsePause(signals[i])'
                 PROVE  \E j \in DOMAIN signals' : j < i /\ About(n, signals[j])'
    OBVIOUS
  <2>2. i \in DOMAIN signals /\ About(n, signals[i]) /\ UsePause(signals[i])
    BY <1>1, <1>2, <1>3, <2>1 DEF UsePause
  <2>3. PICK j \in DOMAIN signals : j < i /\ About(n, signals[j])
    BY <2>2 DEF OwnSignalFirst
  <2>4. QED
    BY <1>1, <1>2, <2>3
<1>6. QED
  BY <1>1, <1>2, <1>4, <1>5 DEF OwnSignalFirst

\* What a user does is never taken for the signal of Koett's own pause.
LEMMA UseKeepsOwn ==
    ASSUME PlayersTypeOK, NEW n \in Players, OwnSignalFirst(n), claims[n].open,
           NEW m \in Players, Use(m)
    PROVE  OwnSignalFirst(n)'
<1>1. UNCHANGED <<claims, observing, inboxes>> /\ players \in [Players -> Player]
  BY DEF Use, workerSide, PlayersTypeOK, Player
<1>2. Held(m) \in BOOLEAN /\ (Held(m) /\ ~Crosses(m)) \in BOOLEAN
  BY DEF Held, PlayersTypeOK, Claiming
<1>2a. PICK what \in {"paused", "changed", "owner"}, use \in BOOLEAN :
         \E p : /\ Signals(m, what, use) /\ PlayerIs(m, p)
                /\ what # "owner" => p.owner = players[m].owner
                /\ what = "paused" /\ use => players[m].playing /\ ~Crosses(m)
  <2>1. \A v : /\ [players[m] EXCEPT !.playing = v].owner = players[m].owner
               /\ [players[m] EXCEPT !.track = v].owner = players[m].owner
    <3>1. players[m] \in Player
      BY <1>1
    <3>2. QED
      BY <3>1 DEF Player
  <2>2. QED
    BY <1>2, <2>1 DEF Use
<1>3. PICK p : /\ Signals(m, what, use) /\ PlayerIs(m, p)
               /\ what # "owner" => p.owner = players[m].owner
               /\ what = "paused" /\ use => players[m].playing /\ ~Crosses(m)
  BY <1>2a
<1>4. CASE m = n
  <2>1. players'[n] = p
    BY <1>1, <1>3, <1>4 DEF PlayerIs
  <2>2. what = "paused" /\ use =>
          players[n].playing /\ \A i \in DOMAIN inboxes[n] : inboxes[n][i].call # "Pause"
    BY <1>3, <1>4 DEF Crosses
  <2>3. players'[n].owner = players[n].owner \/ what = "owner"
    BY <1>3, <1>4, <2>1
  <2>4. QED
    BY <1>1, <1>3, <1>4, <2>2, <2>3, OwnSignalPushed
<1>5. CASE m # n
  <2>1. UNCHANGED <<players[n], inboxes[n]>>
    BY <1>1, <1>3, <1>5 DEF PlayerIs
  <2>2. QED
    BY <1>1, <1>3, <1>5, <2>1, OwnSignalAside
<1>6. QED
  BY <1>4, <1>5

LEMMA HandlesKeepsOwn ==
    ASSUME PlayersTypeOK, NEW n \in Players, OwnSignalFirst(n), claims[n].open,
           NEW m \in Players, Handles(m)
    PROVE  OwnSignalFirst(n)'
<1> DEFINE call == Head(inboxes[m])
           plays == call.call = "Play"
<1>1. /\ UNCHANGED <<claims, observing>> /\ players \in [Players -> Player]
      /\ inboxes \in [Players -> Seq(Call)] /\ inboxes[m] # <<>>
      /\ inboxes' = [inboxes EXCEPT ![m] = Tail(@)]
  BY DEF Handles, PlayersTypeOK, Player, Call
<1>2. /\ call = inboxes[m][1] /\ Len(inboxes[m]) \in Nat \ {0}
      /\ DOMAIN inboxes[m] = 1..Len(inboxes[m])
      /\ DOMAIN Tail(inboxes[m]) = 1..Len(inboxes[m]) - 1
      /\ \A i \in 1..Len(inboxes[m]) - 1 : Tail(inboxes[m])[i] = inboxes[m][i + 1]
  BY <1>1, Tailed
<1>3. ASSUME m = n, call.call # "Pause" \/ call.owner # claims[n].owner, OwnPauseUnderWay(n)
      PROVE  OwnPauseUnderWay(n)'
  <2>1. PICK i \in DOMAIN inboxes[n] :
           inboxes[n][i].call = "Pause" /\ inboxes[n][i].owner = claims[n].owner
    BY <1>3 DEF OwnPauseUnderWay
  <2>2. i # 1
    BY <1>2, <1>3, <2>1
  <2>3. /\ i - 1 \in 1..Len(inboxes[m]) - 1 /\ (i - 1) + 1 = i
        /\ inboxes'[n] = Tail(inboxes[n])
    BY <1>1, <1>2, <1>3, <2>1, <2>2
  <2>4. inboxes'[n][i - 1] = inboxes[n][i] /\ i - 1 \in DOMAIN inboxes'[n]
    BY <1>2, <1>3, <2>3
  <2>5. QED
    BY <1>1, <2>1, <2>4 DEF OwnPauseUnderWay
<1>4. CASE call.owner # players[m].owner
  <2>1. UNCHANGED <<players, signals>>
    BY <1>4 DEF Handles
  <2>2. CASE m = n
    <3>1. claims[n].owner = players[n].owner => (OwnPauseUnderWay(n) => OwnPauseUnderWay(n)')
      BY <1>3, <1>4, <2>2
    <3>2. QED
      BY <1>1, <2>1, <3>1, OwnSignalStays
  <2>3. CASE m # n
    <3>1. OwnPauseUnderWay(n)' <=> OwnPauseUnderWay(n)
      BY <1>1, <2>3 DEF OwnPauseUnderWay
    <3>2. QED
      BY <1>1, <2>1, <3>1, OwnSignalStays
  <2>4. QED
    BY <2>2, <2>3
<1>5. CASE call.owner = players[m].owner
  <2> HIDE DEF call
  <2>1. /\ players' = [players EXCEPT ![m] = [players[m] EXCEPT !.playing = plays]]
        /\ IF players[m].playing = plays THEN UNCHANGED signals
           ELSE Signals(m, IF plays THEN "changed" ELSE "paused", FALSE)
    BY <1>5 DEF Handles, PlayerIs, call
  <2>2. players'[m].owner = players[m].owner /\ players'[m].playing = plays
    <3>1. players[m] \in Player
      BY <1>1
    <3>2. QED
      BY <1>1, <2>1, <3>1 DEF Player
  <2>3. CASE m # n
    <3>1. UNCHANGED <<players[n], inboxes[n]>>
      BY <1>1, <2>1, <2>3
    <3>2. OwnPauseUnderWay(n)' <=> OwnPauseUnderWay(n)
      BY <1>1, <3>1 DEF OwnPauseUnderWay
    <3>3. CASE UNCHANGED signals
      BY <1>1, <3>1, <3>2, <3>3, OwnSignalStays
    <3>4. QED
      BY <1>1, <2>1, <2>3, <3>1, <3>3, OwnSignalAside
  <2>4. CASE m = n
    <3>1. CASE players[m].playing = plays
      <4>1. CASE plays
        <5>1. OwnPauseUnderWay(n) => OwnPauseUnderWay(n)'
          BY <1>3, <2>4, <4>1
        <5>2. QED
          BY <1>1, <2>1, <2>2, <2>4, <3>1, <5>1, OwnSignalStays
      <4>2. CASE ~plays
        <5>1. ~players'[n].playing
          BY <2>2, <2>4, <4>2
        <5>2. UNCHANGED signals
          BY <2>1, <3>1
        <5>3. QED
          BY <1>1, <5>1, <5>2 DEF OwnSignalFirst, About, UsePause
      <4>3. QED
        BY <4>1, <4>2
    <3>2. CASE players[m].playing # plays
      BY <1>1, <2>1, <2>2, <2>4, <3>2, OwnSignalPushed
    <3>3. QED
      BY <3>1, <3>2
  <2>5. QED
    BY <2>3, <2>4
<1>6. QED
  BY <1>4, <1>5

\* A claim about which nothing else is signalled stays as it is; its own signal uses it up.
LEMMA ReadKeepsOwn ==
    ASSUME PlayersTypeOK, NEW n \in Players, Read
    PROVE  /\ claims[n].open \in BOOLEAN /\ claims'[n].open = claims[n].open
           /\ claims'[n].valid => claims[n].valid
           /\ claims'[n].valid /\ About(n, signals[1]) =>
                 signals[1].what = "paused" /\ claims[n].awaitingPause /\ ~claims'[n].awaitingPause
           /\ ~About(n, signals[1]) => claims'[n] = claims[n]
           /\ OwnSignalFirst(n) /\ ~About(n, signals[1]) => OwnSignalFirst(n)'
<1> DEFINE own(m) == signals[1].what = "paused" /\ claims[m].awaitingPause
<1>1. /\ claims \in [Players -> ClaimState] /\ claims[n] \in ClaimState /\ signals \in Seq(Signal)
      /\ signals # <<>> /\ signals' = Tail(signals)
      /\ UNCHANGED <<observing, players, inboxes>>
  BY DEF PlayersTypeOK, ClaimState, Signal, Read
<1>2. /\ Head(signals) = signals[1] /\ Len(signals) \in Nat \ {0}
      /\ DOMAIN signals = 1..Len(signals) /\ DOMAIN signals' = 1..Len(signals) - 1
      /\ \A i \in 1..Len(signals) - 1 : signals'[i] = signals[i + 1]
  BY <1>1, Tailed
<1>3. claims'[n] = IF About(n, signals[1])
                THEN [claims[n] EXCEPT !.valid = @ /\ own(n),
                                       !.awaitingPause = @ /\ signals[1].what = "owner"]
                ELSE claims[n]
  BY <1>2 DEF Read
<1>4. CASE About(n, signals[1])
  <2> DEFINE c == [claims[n] EXCEPT !.valid = @ /\ own(n)]
  <2>1. c \in ClaimState /\ c.open = claims[n].open /\ c.valid = (claims[n].valid /\ own(n))
        /\ c.awaitingPause = claims[n].awaitingPause
    BY <1>1 DEF ClaimState
  <2>2. claims'[n] = [c EXCEPT !.awaitingPause = @ /\ signals[1].what = "owner"]
    BY <1>3, <1>4, <2>1
  <2> HIDE DEF c
  <2>3. /\ claims'[n].open = c.open /\ claims'[n].valid = c.valid
        /\ claims'[n].awaitingPause = (c.awaitingPause /\ signals[1].what = "owner")
    BY <2>1, <2>2 DEF ClaimState
  <2>4. claims[n].open \in BOOLEAN
    BY <1>1 DEF ClaimState
  <2>5. QED
    BY <1>4, <2>1, <2>3, <2>4
<1>5. CASE ~About(n, signals[1])
  <2>1. claims'[n] = claims[n] /\ claims[n].open \in BOOLEAN
    BY <1>1, <1>3, <1>5 DEF ClaimState
  <2>2. \A i \in DOMAIN signals' : About(n, signals[i])' <=> About(n, signals[i + 1])
    BY <1>2, <2>1 DEF About
  <2>3. OwnPauseUnderWay(n)' <=> OwnPauseUnderWay(n)
    BY <1>1, <2>1 DEF OwnPauseUnderWay
  <2>4. ASSUME OwnSignalFirst(n) PROVE OwnSignalFirst(n)'
    <3>1. ASSUME NEW i \in DOMAIN signals', About(n, signals[i])', UsePause(signals[i])'
          PROVE  \E j \in DOMAIN signals' : j < i /\ About(n, signals[j])'
      <4>1. i + 1 \in DOMAIN signals /\ About(n, signals[i + 1]) /\ UsePause(signals[i + 1])
        BY <1>2, <2>2, <3>1 DEF UsePause
      <4>2. PICK j \in DOMAIN signals : j < i + 1 /\ About(n, signals[j])
        BY <2>4, <4>1 DEF OwnSignalFirst
      <4>3. j # 1
        BY <1>5, <4>2
      <4>4. j - 1 \in DOMAIN signals' /\ j - 1 < i /\ (j - 1) + 1 = j
        BY <1>2, <4>2, <4>3
      <4>5. QED
        BY <2>2, <4>2, <4>4
    <3>2. ASSUME NEW i \in DOMAIN signals, About(n, signals[i])
          PROVE  \E j \in DOMAIN signals' : About(n, signals[j])'
      <4>1. i # 1
        BY <1>5, <3>2
      <4>2. i - 1 \in DOMAIN signals' /\ (i - 1) + 1 = i
        BY <1>2, <4>1
      <4>3. QED
        BY <2>2, <3>2, <4>2
    <3>3. QED
      BY <1>1, <2>1, <2>3, <2>4, <3>1, <3>2 DEF OwnSignalFirst
  <2>5. QED
    BY <1>5, <2>1, <2>4
<1>6. QED
  BY <1>4, <1>5

LEMMA UseRevokesKept ==
    ASSUME PlayersTypeOK, WorkerFits, OrdersAlternate, ClaimedOnce, UseRevokes,
           [PlayersNext]_playersVars
    PROVE  UseRevokes'
<1>1. /\ claims \in [Players -> ClaimState] /\ ongoing \in Activity /\ signals \in Seq(Signal)
      /\ DOMAIN signals = 1..Len(signals) /\ Len(signals) \in Nat
      /\ inboxes \in [Players -> Seq(Call)] /\ ~Unclaimed.valid /\ Nothing.at = "idle"
      /\ \A n \in Players : claims[n].open \in BOOLEAN /\ claims[n].valid \in BOOLEAN
                            /\ claims[n].awaitingPause \in BOOLEAN
  BY DEF PlayersTypeOK, ClaimState, Activity, Signal, Call, Unclaimed, Nothing
<1>2. ASSUME NEW n \in Players, claims[n].valid PROVE claims[n].open
  BY <1>2 DEF ClaimedOnce
\* A step that leaves the signals, the monitor, the players and what is noted alone.
<1>3. ASSUME UNCHANGED <<signals, observing, players, noted>>, ~ClaimPlayer,
             \A n \in Players : \A i \in DOMAIN inboxes[n] :
                i \in DOMAIN inboxes'[n] /\ inboxes'[n][i] = inboxes[n][i],
             PausesNow' => PausesNow /\ \A n \in Players : claims'[n].open = claims[n].open
      PROVE  UseRevokes'
  <2>1. ASSUME NEW n \in Players, claims'[n].valid
        PROVE  SameClaim(n) /\ claims[n].valid /\ n \notin noted'
    <3>1. SameClaim(n)
      BY <1>1, <1>3, <2>1, ClaimsStep
    <3>2. QED
      BY <1>3, <2>1, <3>1 DEF SameClaim, UseRevokes
  <2>2. ASSUME NEW n \in Players, claims'[n].valid, claims'[n].awaitingPause
        PROVE  OwnSignalFirst(n)'
    <3>1. SameClaim(n) /\ claims[n].valid /\ claims[n].awaitingPause
      BY <2>1, <2>2 DEF SameClaim
    <3>2. OwnSignalFirst(n)
      BY <3>1 DEF UseRevokes
    <3>3. OwnPauseUnderWay(n) => OwnPauseUnderWay(n)'
      BY <1>3, <3>1 DEF OwnPauseUnderWay, SameClaim
    <3>4. QED
      BY <1>3, <3>1, <3>2, <3>3, OwnSignalStays DEF SameClaim
  <2>3. PausesNow' => \A n \in Players, i \in DOMAIN signals' :
            ~claims'[n].open /\ signals'[i].name = n => ~UsePause(signals[i])'
    BY <1>3 DEF UseRevokes, UsePause
  <2>4. QED
    BY <2>1, <2>2, <2>3 DEF UseRevokes
<1>4. CASE EngineActs
  <2>1. /\ UNCHANGED <<busVars, workerSide, playHistory>> /\ (PausesNow' <=> PausesNow)
    BY <1>4, EngineKeepsWork
  <2>2. ASSUME ClaimPlayer PROVE FALSE
    <3>1. [ongoing EXCEPT !.at = "pause_sent"].at = "pause_sent"
      BY <1>1 DEF Activity
    <3>2. QED
      BY <2>1, <2>2, <3>1 DEF ClaimPlayer, workerSide
  <2>3. QED
    BY <1>3, <2>1, <2>2 DEF busVars, workerSide, playHistory
<1>5. CASE EndsOrder
  <2>1. /\ UNCHANGED <<busVars, playHistory>> /\ ongoing' = Nothing /\ ~PausesNow'
    BY <1>5 DEF EndsOrder, OrderEnds, PausesNow
  <2>2. ~ClaimPlayer
    <3>1. [ongoing EXCEPT !.at = "pause_sent"].at = "pause_sent"
      BY <1>1 DEF Activity
    <3>2. QED
      BY <1>1, <2>1, <3>1 DEF ClaimPlayer
  <2>3. QED
    BY <1>3, <2>1, <2>2 DEF busVars, playHistory
\* The signals of a player that is not claimed, when one is added.
<1>6. ASSUME NEW m \in Players, NEW what \in {"paused", "changed", "owner"}, NEW use \in BOOLEAN,
             Signals(m, what, use), PausesNow' => PausesNow, UNCHANGED claims,
             PausesNow /\ what = "paused" /\ use => claims[m].open
      PROVE  PausesNow' => \A n \in Players, i \in DOMAIN signals' :
                ~claims'[n].open /\ signals'[i].name = n => ~UsePause(signals[i])'
  <2>1. SUFFICES ASSUME PausesNow', NEW n \in Players, NEW i \in DOMAIN signals',
                        ~claims'[n].open, signals'[i].name = n, UsePause(signals[i])'
                 PROVE  FALSE
    OBVIOUS
  <2>2. CASE i \in DOMAIN signals
    <3>1. signals'[i] = signals[i]
      BY <1>6, <2>2, SignalAdded
    <3>2. UsePause(signals[i])
      BY <2>1, <3>1 DEF UsePause
    <3>3. QED
      BY <1>6, <2>1, <2>2, <3>1, <3>2 DEF UseRevokes
  <2>3. CASE i \notin DOMAIN signals
    <3>1. signals'[i] = [name |-> m, owner |-> players[m].owner, use |-> use, what |-> what]
      <4>1. /\ signals' = signals \/ (DOMAIN signals' = 1..Len(signals) + 1
                /\ signals'[Len(signals) + 1] = [name |-> m, owner |-> players[m].owner,
                                                 use |-> use, what |-> what])
        BY <1>6, SignalAdded DEF PlayersTypeOK
      <4>2. QED
        BY <1>1, <2>1, <2>3, <4>1
    <3>2. what = "paused" /\ use /\ n = m
      BY <2>1, <3>1 DEF UsePause
    <3>3. QED
      BY <1>6, <2>1, <3>2
  <2>4. QED
    BY <2>2, <2>3
<1>7. ASSUME NEW m \in Players, Use(m) PROVE UseRevokes'
  <2>1. UNCHANGED <<claims, observing, inboxes, ongoing, noted, orders>>
    BY <1>7 DEF Use, workerSide, engineSide
  <2>2. \A n \in Players : claims'[n].valid => n \notin noted'
    BY <2>1 DEF UseRevokes
  <2>3. \A n \in Players : claims'[n].valid /\ claims'[n].awaitingPause => OwnSignalFirst(n)'
    BY <1>2, <1>7, <2>1, UseKeepsOwn DEF UseRevokes
  <2>4. Held(m) \in BOOLEAN /\ (Held(m) /\ ~Crosses(m)) \in BOOLEAN
    BY DEF Held, PlayersTypeOK, Claiming
  <2>5. PICK what \in {"paused", "changed", "owner"}, use \in BOOLEAN :
           Signals(m, what, use) /\ (what = "paused" /\ use => Held(m) /\ ~Crosses(m))
    BY <1>7, <2>4 DEF Use
  <2>6. what = "paused" /\ use => claims[m].open
    BY <2>5 DEF Held, Crosses
  <2>7. PausesNow' => PausesNow
    BY <2>1 DEF PausesNow
  <2>8. QED
    BY <1>6, <2>1, <2>2, <2>3, <2>5, <2>6, <2>7 DEF UseRevokes
<1>8. ASSUME NEW m \in Players, Handles(m) PROVE UseRevokes'
  <2>1. UNCHANGED <<claims, observing, ongoing, noted, orders>>
    BY <1>8 DEF Handles, engineSide
  <2>2. \A n \in Players : claims'[n].valid => n \notin noted'
    BY <2>1 DEF UseRevokes
  <2>3. \A n \in Players : claims'[n].valid /\ claims'[n].awaitingPause => OwnSignalFirst(n)'
    BY <1>2, <1>8, <2>1, HandlesKeepsOwn DEF UseRevokes
  <2>4. PausesNow' => PausesNow
    BY <2>1 DEF PausesNow
  <2>5. CASE UNCHANGED signals
    BY <2>1, <2>2, <2>3, <2>4, <2>5 DEF UseRevokes, UsePause
  <2>6. ASSUME NEW what \in {"paused", "changed"}, Signals(m, what, FALSE) PROVE UseRevokes'
    BY <1>6, <2>1, <2>2, <2>3, <2>4, <2>6 DEF UseRevokes
  <2>7. QED
    BY <1>8, <2>5, <2>6 DEF Handles
<1>9. CASE Read
  <2>1. /\ UNCHANGED <<orders, ongoing>> /\ Head(signals) = signals[1] /\ signals # <<>>
        /\ noted' = noted \cup {n \in Players : About(n, signals[1]) /\ signals[1].use}
    <3>1. Head(signals) = signals[1] /\ signals # <<>>
      BY <1>1, <1>9, Tailed DEF Read
    <3>2. QED
      BY <1>9, <3>1 DEF Read, Note, engineSide
  <2>2. /\ DOMAIN signals' = 1..Len(signals) - 1 /\ 1 \in DOMAIN signals
        /\ \A i \in 1..Len(signals) - 1 : signals'[i] = signals[i + 1]
    <3>1. signals' = Tail(signals)
      BY <1>9 DEF Read
    <3>2. QED
      BY <1>1, <2>1, <3>1, Tailed
  <2>3. ASSUME NEW n \in Players, claims'[n].valid PROVE n \notin noted'
    <3>1. claims[n].valid /\ n \notin noted
      BY <1>9, <2>3, ReadKeepsOwn DEF UseRevokes
    <3>2. ASSUME About(n, signals[1]), signals[1].use PROVE FALSE
      <4>1. signals[1].what = "paused" /\ claims[n].awaitingPause
        BY <1>9, <2>3, <3>2, ReadKeepsOwn
      <4>2. OwnSignalFirst(n) /\ UsePause(signals[1])
        BY <3>1, <3>2, <4>1 DEF UseRevokes, UsePause
      <4>3. PICK j \in DOMAIN signals : j < 1
        BY <2>2, <3>2, <4>2 DEF OwnSignalFirst
      <4>4. QED
        BY <1>1, <4>3
    <3>3. QED
      BY <2>1, <3>1, <3>2
  <2>4. ASSUME NEW n \in Players, claims'[n].valid, claims'[n].awaitingPause
        PROVE  OwnSignalFirst(n)'
    <3>1. ~About(n, signals[1]) /\ claims'[n] = claims[n]
      BY <1>9, <2>4, ReadKeepsOwn
    <3>2. OwnSignalFirst(n)
      BY <2>4, <3>1 DEF UseRevokes
    <3>3. QED
      BY <1>9, <3>1, <3>2, ReadKeepsOwn
  <2>5. ASSUME PausesNow', NEW n \in Players, NEW i \in DOMAIN signals',
               ~claims'[n].open, signals'[i].name = n
        PROVE  ~UsePause(signals[i])'
    <3>1. PausesNow /\ ~claims[n].open
      BY <1>9, <2>1, <2>5, ReadKeepsOwn DEF PausesNow
    <3>2. signals'[i] = signals[i + 1] /\ i + 1 \in DOMAIN signals
      BY <1>1, <2>2, <2>5
    <3>3. ~UsePause(signals[i + 1])
      BY <2>5, <3>1, <3>2 DEF UseRevokes
    <3>4. QED
      BY <3>2, <3>3 DEF UsePause
  <2>6. QED
    BY <2>3, <2>4, <2>5 DEF UseRevokes
<1>10. CASE ObservationEnds
  <2>1. /\ UNCHANGED <<orders, ongoing>> /\ signals' = <<>>
        /\ \A n \in Players : ~claims'[n].valid
    BY <1>1, <1>10 DEF ObservationEnds, engineSide, ClaimState
  <2>2. QED
    BY <2>1 DEF UseRevokes
<1>11. CASE TakeOrder
  <2>1. CASE Resuming
    <3>1. /\ UNCHANGED <<orders, signals, observing, players, noted, inboxes>> /\ ~ClaimPlayer
          /\ ~PausesNow'
      BY <1>1, <1>11, <2>1
      DEF TakeOrder, playHistory, engineSide, PausesNow, Resuming, ClaimPlayer
    <3>2. QED
      BY <1>3, <3>1
  <2>2. CASE ~Resuming
    <3>1. /\ noted' = {} /\ UNCHANGED claims
          /\ signals' = [i \in DOMAIN signals |-> [signals[i] EXCEPT !.use = FALSE]]
      BY <1>11, <2>2 DEF TakeOrder
    <3>2. \A n \in Players : ~claims'[n].open /\ ~claims'[n].valid
      BY <1>2, <1>11, <2>2, <3>1 DEF TakeOrder, OrdersAlternate, Resuming
    <3>3. \A i \in DOMAIN signals' : ~UsePause(signals[i])'
      <4>1. \A i \in DOMAIN signals : signals[i] \in Signal
        BY <1>1
      <4>2. QED
        BY <3>1, <4>1 DEF UsePause, Signal
    <3>4. QED
      BY <3>2, <3>3 DEF UseRevokes
  <2>3. QED
    BY <2>1, <2>2
<1>12. CASE ClaimPlayer
  <2>1. /\ UNCHANGED <<orders, signals, observing, players, noted>>
        /\ claims' = [claims EXCEPT ![ongoing.name] =
                    [open |-> TRUE, owner |-> ongoing.owner, track |-> ongoing.track,
                     successful |-> FALSE, valid |-> TRUE, awaitingPause |-> TRUE]]
        /\ inboxes' = [inboxes EXCEPT ![ongoing.name] =
                         Append(@, [call |-> "Pause", owner |-> ongoing.owner])]
        /\ ongoing.at = "claim"
    BY <1>12 DEF ClaimPlayer, Sends, engineSide
  <2>2. ongoing.name \in Players /\ PausesNow /\ Claiming(ongoing.name)
    BY <1>1, <2>1 DEF WorkerFits, PausesNow, Resuming, Claiming
  <2>3. ~claims[ongoing.name].open /\ ongoing.name \notin noted
    BY <2>2 DEF ClaimedOnce
  <2>4. /\ claims'[ongoing.name].open /\ claims'[ongoing.name].owner = ongoing.owner
        /\ \A n \in Players : n # ongoing.name => claims'[n] = claims[n]
    BY <1>1, <2>1, <2>2
  <2>5. \A n \in Players : claims'[n].valid => n \notin noted'
    BY <2>1, <2>3, <2>4 DEF UseRevokes
  <2>6. ASSUME NEW n \in Players, claims'[n].valid, claims'[n].awaitingPause
        PROVE  OwnSignalFirst(n)'
    <3>1. CASE n = ongoing.name
      <4>1. \A i \in DOMAIN signals' : About(n, signals[i])' => ~UsePause(signals[i])'
        BY <2>1, <2>2, <2>3, <3>1 DEF UseRevokes, About, UsePause
      <4>2. OwnPauseUnderWay(n)'
        <5> DEFINE c == [call |-> "Pause", owner |-> ongoing.owner]
        <5>1. c \in Call /\ inboxes[n] \in Seq(Call) /\ c.call = "Pause"
              /\ c.owner = claims'[n].owner
          BY <1>1, <2>4, <3>1 DEF Call, Activity
        <5>2. inboxes'[n] = Append(inboxes[n], c)
          BY <1>1, <2>1, <2>2, <3>1
        <5> HIDE DEF c
        <5>3. Len(inboxes[n]) + 1 \in DOMAIN inboxes'[n] /\ inboxes'[n][Len(inboxes[n]) + 1] = c
          BY <5>1, <5>2, Appended
        <5>4. QED
          BY <5>1, <5>3 DEF OwnPauseUnderWay
      <4>3. QED
        BY <4>1, <4>2 DEF OwnSignalFirst
    <3>2. CASE n # ongoing.name
      <4>1. UNCHANGED <<claims[n], inboxes[n]>>
        BY <1>1, <2>1, <2>4, <3>2
      <4>2. OwnSignalFirst(n) /\ (OwnPauseUnderWay(n) => OwnPauseUnderWay(n)')
        BY <2>6, <4>1 DEF UseRevokes, OwnPauseUnderWay
      <4>3. QED
        BY <2>1, <4>1, <4>2, OwnSignalStays
    <3>3. QED
      BY <3>1, <3>2
  <2>7. \A n \in Players, i \in DOMAIN signals' :
            ~claims'[n].open /\ signals'[i].name = n => ~UsePause(signals[i])'
    BY <2>1, <2>2, <2>4 DEF UseRevokes, UsePause
  <2>8. QED
    BY <2>5, <2>6, <2>7 DEF UseRevokes
<1>13. CASE PauseReturns
  <2>1. /\ UNCHANGED <<busVars, playHistory, orders>> /\ ~ClaimPlayer /\ ongoing.at = "pause_sent"
        /\ claims' = [claims EXCEPT ![ongoing.name].successful = (answer = "ok")]
    BY <1>13 DEF PauseReturns, ClaimPlayer, engineSide
  <2>2. \A n \in Players : claims'[n].open = claims[n].open
    BY <1>1, <2>1 DEF ClaimState
  <2>3. PausesNow' => PausesNow
    BY <1>1, <2>1 DEF PausesNow
  <2>4. QED
    BY <1>3, <2>1, <2>2, <2>3 DEF busVars, playHistory
<1>14. CASE Decide
  <2>1. /\ UNCHANGED <<players, signals, observing, noted, orders>> /\ ~ClaimPlayer
        /\ ongoing.at = "decide"
        /\ UNCHANGED inboxes \/ Sends("Play")
    BY <1>14 DEF Decide, ClaimPlayer, playHistory, engineSide
  <2>2. ~PausesNow'
    BY <1>14, <2>1 DEF WorkerFits, Resuming, PausesNow, Decide
  <2>3. \A n \in Players : \A i \in DOMAIN inboxes[n] :
           i \in DOMAIN inboxes'[n] /\ inboxes'[n][i] = inboxes[n][i]
    <3>1. CASE Sends("Play")
      <4>1. SUFFICES ASSUME NEW n \in Players, NEW i \in DOMAIN inboxes[n]
                     PROVE  i \in DOMAIN inboxes'[n] /\ inboxes'[n][i] = inboxes[n][i]
        OBVIOUS
      <4> DEFINE c == [call |-> "Play", owner |-> ongoing.owner]
      <4>2. c \in Call /\ inboxes[n] \in Seq(Call)
        BY <1>1 DEF Call, Activity
      <4>3. inboxes'[n] = Append(inboxes[n], c) \/ inboxes'[n] = inboxes[n]
        BY <1>1, <3>1 DEF Sends
      <4> HIDE DEF c
      <4>4. QED
        BY <4>1, <4>2, <4>3, Appended
    <3>2. QED
      BY <2>1, <3>1
  <2>4. QED
    BY <1>3, <1>14, <2>1, <2>2, <2>3 DEF Decide, playHistory
<1>15. CASE PlayReturns
  <2>1. UNCHANGED <<busVars, playHistory, orders, claims>> /\ ~ClaimPlayer
        /\ ongoing.at = "play_sent"
    BY <1>15 DEF PlayReturns, ClaimPlayer, engineSide
  <2>2. PausesNow' => PausesNow
    BY <1>1, <2>1 DEF PausesNow
  <2>3. QED
    BY <1>3, <2>1, <2>2 DEF busVars, playHistory
<1>16. ASSUME NEW m \in Players, LookAt(m) \/ PassOver(m) PROVE UseRevokes'
  <2>1. /\ UNCHANGED <<busVars, playHistory, orders>> /\ ~ClaimPlayer /\ ongoing # Nothing
        /\ Resuming \/ UNCHANGED claims
    BY <1>1, <1>16 DEF LookAt, PassOver, ClaimPlayer, engineSide
  <2>2. PausesNow' => PausesNow /\ UNCHANGED claims
    BY <2>1 DEF PausesNow, Resuming
  <2>3. QED
    BY <1>3, <2>1, <2>2 DEF busVars, playHistory
<1>17. CASE UNCHANGED playersVars
  <2>1. ASSUME ClaimPlayer PROVE FALSE
    <3>1. [ongoing EXCEPT !.at = "pause_sent"].at = "pause_sent"
      BY <1>1 DEF Activity
    <3>2. QED
      BY <1>17, <2>1, <3>1 DEF ClaimPlayer, playersVars, workerSide
  <2>2. QED
    BY <1>3, <1>17, <2>1
       DEF playersVars, workerSide, busVars, playHistory, engineSide, PausesNow
<1>18. CASE PlayersNext
  <2>1. CASE Completes \/ CutOff
    BY <1>5, <2>1 DEF Completes, CutOff, EndsOrder, WorkerFits, Nothing
  <2>2. QED
    BY <1>4, <1>7, <1>8, <1>9, <1>10, <1>11, <1>12, <1>13, <1>14, <1>15, <1>16, <1>18, <2>1
    DEF PlayersNext, EngineActs
<1>19. QED
  BY <1>17, <1>18

-----------------------------------------------------------------------------
(* The media players: the invariant.                                       *)

LEMMA PlayersInvStep ==
    ASSUME PlayersInv, [PlayersNext]_playersVars
    PROVE  PlayersInv'
BY PlayersTyped, WorkerFitsKept, OrdersAlternateKept, ClaimedOnceKept, OwnersGrowKept,
   CallUnderWayKept, PausesWorkedKept, UseRevokesKept DEF PlayersInv

LEMMA PlayersInvInit ==
    ASSUME PlayersInit
    PROVE  PlayersInv
<1>1. /\ Nothing.at = "idle" /\ Nothing.name = NoPlayer /\ Nothing \in Activity
      /\ Unclaimed \in ClaimState /\ ~Unclaimed.open /\ ~Unclaimed.successful /\ ~Unclaimed.valid
  BY DEF Nothing, Activity, Track, Unclaimed, ClaimState
<1>2. /\ players \in [Players -> [owner : {0}, playing : BOOLEAN, track : {0}]]
      /\ inboxes = [n \in Players |-> <<>>] /\ signals = <<>> /\ observing = TRUE
      /\ claims = [n \in Players |-> Unclaimed] /\ ongoing = Nothing /\ todo = {}
      /\ answer = "none" /\ orders = <<>> /\ capture = "ready"
      /\ stopped = {} /\ noted = {} /\ quiet = {} /\ delays = 0
  BY DEF PlayersInit
<1>3. players \in [Players -> Player]
  <2>1. \A n \in Players : players[n] \in Player
    <3>1. SUFFICES ASSUME NEW n \in Players PROVE players[n] \in Player
      OBVIOUS
    <3>2. players[n] \in [owner : {0}, playing : BOOLEAN, track : {0}]
      BY <1>2
    <3>3. PICK p \in BOOLEAN : players[n] = [owner |-> 0, playing |-> p, track |-> 0]
      BY <3>2
    <3>4. QED
      BY <3>3 DEF Player, Track
  <2>2. QED
    BY <1>2, <2>1
<1>4. PlayersTypeOK
  BY <1>1, <1>2, <1>3 DEF PlayersTypeOK, Player, Activity, ClaimState
<1>5. WorkerFits /\ OrdersAlternate
  BY <1>1, <1>2 DEF WorkerFits, OrdersAlternate, Waits
<1>6. ClaimedOnce /\ OwnersGrow /\ CallUnderWay /\ PausesWorked /\ UseRevokes
  BY <1>1, <1>2 DEF ClaimedOnce, PausesNow, OwnersGrow, CallUnderWay, PausesWorked, UseRevokes,
     Waits
<1>7. QED
  BY <1>2, <1>4, <1>5, <1>6 DEF PlayersInv

\* While nothing took too long: a step keeps the calls answered.
LEMMA CallsAnsweredKept ==
    ASSUME PlayersInv, CallsAnswered, [PlayersNext]_playersVars, delays' = 0
    PROVE  CallsAnswered'
<1>1. /\ delays = 0 /\ ~CutOff /\ ~ObservationEnds
  BY DelaysCount DEF PlayersInv
<1>2. /\ inboxes \in [Players -> Seq(Call)] /\ ongoing \in Activity /\ Nothing.at = "idle"
      /\ ongoing.at \in Waits \cup {"claim", "decide"} => ongoing.name \in Players
  BY DEF PlayersInv, PlayersTypeOK, Call, Activity, Nothing, WorkerFits
<1>3. CASE UNCHANGED <<inboxes, observing, ongoing, answer>>
  BY <1>3 DEF CallsAnswered
<1>4. ASSUME \A n \in Players : inboxes[n] = <<>>, UNCHANGED <<inboxes, observing>>
      PROVE  CallsAnswered'
  BY <1>4 DEF CallsAnswered
<1>5. ASSUME ongoing.at \notin Waits \/ answer # "none"
      PROVE  \A n \in Players : inboxes[n] = <<>>
  BY <1>5 DEF CallsAnswered
<1>6. ASSUME NEW n \in Players, Handles(n) PROVE CallsAnswered'
  <2>1. inboxes[n] # <<>> /\ UNCHANGED <<observing, ongoing>>
        /\ inboxes' = [inboxes EXCEPT ![n] = Tail(@)]
    BY <1>6 DEF Handles
  <2>2. ongoing.at \in Waits /\ ongoing.name = n /\ answer = "none" /\ Len(inboxes[n]) = 1
    BY <2>1 DEF CallsAnswered
  <2>3. inboxes'[n] = <<>>
    BY <1>2, <2>1, <2>2, Tailed
  <2>4. \A m \in Players : inboxes'[m] = <<>>
    BY <1>2, <2>1, <2>2, <2>3 DEF CallsAnswered
  <2>5. QED
    BY <2>1, <2>4 DEF CallsAnswered
<1>7. ASSUME NEW call \in {"Pause", "Play"}, Sends(call), ongoing.name \in Players,
             ongoing.at \notin Waits, ongoing'.at \in Waits, ongoing'.name = ongoing.name,
             UNCHANGED observing
      PROVE  CallsAnswered'
  <2> DEFINE c == [call |-> call, owner |-> ongoing.owner]
  <2>1. c \in Call
    BY <1>2 DEF Call, Activity
  <2>2. /\ inboxes'[ongoing.name] = Append(<<>>, c) /\ answer' = "none"
        /\ \A m \in Players : m # ongoing.name => inboxes'[m] = <<>>
    BY <1>2, <1>5, <1>7 DEF Sends
  <2> HIDE DEF c
  <2>3. Len(Append(<<>>, c)) = 1
    BY <2>1
  <2>4. QED
    BY <1>7, <2>2, <2>3 DEF CallsAnswered
<1>8. CASE ClaimPlayer
  <2>1. /\ ongoing.at = "claim" /\ ongoing'.at = "pause_sent" /\ ongoing'.name = ongoing.name
        /\ Sends("Pause") /\ UNCHANGED observing
    BY <1>2, <1>8 DEF ClaimPlayer, Activity
  <2>2. QED
    BY <1>2, <1>7, <2>1 DEF Waits
<1>9. CASE Decide
  <2>1. ongoing.at = "decide" /\ UNCHANGED observing
    BY <1>9 DEF Decide
  <2>2. CASE Sends("Play") /\ ongoing' = [ongoing EXCEPT !.at = "play_sent"]
    <3>1. ongoing'.at = "play_sent" /\ ongoing'.name = ongoing.name
      BY <1>2, <2>2 DEF Activity
    <3>2. QED
      BY <1>2, <1>7, <2>1, <2>2, <3>1 DEF Waits
  <2>3. CASE UNCHANGED inboxes
    BY <1>4, <1>5, <2>1, <2>3 DEF Waits
  <2>4. QED
    BY <1>9, <2>2, <2>3 DEF Decide
<1>10. CASE PauseReturns \/ PlayReturns
  <2>1. answer # "none" /\ UNCHANGED <<inboxes, observing>>
    BY <1>1, <1>10, DelaysCount DEF PauseReturns, PlayReturns, busVars, Delay, PlayersInv
  <2>2. QED
    BY <1>4, <1>5, <2>1
<1>11. CASE TakeOrder \/ Completes \/ \E n \in Players : LookAt(n)
  <2>1. ongoing.at \notin Waits /\ UNCHANGED <<inboxes, observing>>
    BY <1>2, <1>11, NamesAssumption
    DEF TakeOrder, Completes, OrderEnds, LookAt, busVars, Waits
  <2>2. QED
    BY <1>4, <1>5, <2>1
<1>12. CASE Read \/ \E n \in Players : Use(n) \/ PassOver(n)
  BY <1>3, <1>12 DEF Read, Use, PassOver, workerSide, busVars
<1>13. CASE EngineActs
  BY <1>3, <1>13, EngineTyped DEF workerSide, busVars, PlayersInv
<1>14. CASE UNCHANGED playersVars
  BY <1>3, <1>14 DEF playersVars, workerSide, busVars
<1>15. QED
  BY <1>1, <1>6, <1>8, <1>9, <1>10, <1>11, <1>12, <1>13, <1>14 DEF PlayersNext, EngineActs

-----------------------------------------------------------------------------
(* The media players: a player nobody uses plays again.                    *)

Apart(n) == ~(ongoing.at \in Waits /\ ongoing.name = n)

\* A step that leaves the player and its claim alone leaves it as it was.
LEMMA AsLeftStays ==
    ASSUME NEW n \in Players, AsLeft(n), UNCHANGED <<claims[n], players[n]>>,
           SignalsOwn(n) => SignalsOwn(n)', Unread(n)' => Unread(n),
           \/ UNCHANGED <<ongoing, answer>>
           \/ /\ Apart(n) /\ Apart(n)'
              /\ (ongoing.at = "decide" /\ ongoing.name = n)' => AsSeen(n)'
    PROVE  AsLeft(n)'
<1>1. CASE UNCHANGED <<ongoing, answer>>
  BY <1>1 DEF AsLeft, ClaimUndisturbed, PlaysAgain, AsSeen
<1>2. CASE /\ Apart(n) /\ Apart(n)'
           /\ (ongoing.at = "decide" /\ ongoing.name = n)' => AsSeen(n)'
  BY <1>2 DEF AsLeft, ClaimUndisturbed, PlaysAgain, Apart, Waits
<1>3. QED
  BY <1>1, <1>2

LEMMA SignalsAside ==
    ASSUME PlayersTypeOK, NEW n \in Players, NEW m \in Players \ {n},
           NEW what \in {"paused", "changed", "owner"}, NEW use \in BOOLEAN,
           Signals(m, what, use), UNCHANGED <<claims[n], players[n]>>
    PROVE  (SignalsOwn(n) => SignalsOwn(n)') /\ (Unread(n)' => Unread(n))
<1>1. \A i \in DOMAIN signals : i \in DOMAIN signals' /\ signals'[i] = signals[i]
  BY SignalAdded
<1>2. \A i \in DOMAIN signals' : signals'[i].name = n => i \in DOMAIN signals
  <2>1. /\ Len(signals) \in Nat /\ DOMAIN signals = 1..Len(signals)
        /\ \/ signals' = signals
           \/ /\ DOMAIN signals' = 1..Len(signals) + 1
              /\ signals'[Len(signals) + 1] = [name |-> m, owner |-> players[m].owner,
                                               use |-> use, what |-> what]
    BY SignalAdded DEF PlayersTypeOK
  <2>2. QED
    BY <2>1
<1>3. QED
  BY <1>1, <1>2 DEF SignalsOwn, Unread

LEMMA ReadLeavesOwn ==
    ASSUME PlayersTypeOK, NEW n \in Players, signals # <<>>, signals' = Tail(signals),
           UNCHANGED players[n]
    PROVE  /\ Unread(n)' => Unread(n)
           /\ SignalsOwn(n) /\ UNCHANGED claims[n] => SignalsOwn(n)'
           /\ SignalsOwn(n) /\ signals[1].name = n =>
                 SignalsOwn(n)' /\ ~Unread(n)' /\ signals[1].what = "paused"
                 /\ claims[n].awaitingPause /\ ~players[n].playing
<1>1. /\ Len(signals) \in Nat \ {0} /\ DOMAIN signals = 1..Len(signals)
      /\ DOMAIN signals' = 1..Len(signals) - 1
      /\ \A i \in 1..Len(signals) - 1 : signals'[i] = signals[i + 1]
  BY Tailed DEF PlayersTypeOK
<1>2. /\ 1 \in DOMAIN signals
      /\ \A i \in DOMAIN signals' : i + 1 \in DOMAIN signals /\ i + 1 # 1
                                    /\ signals'[i] = signals[i + 1]
      /\ \A i, j \in DOMAIN signals' : i + 1 = j + 1 => i = j
  BY <1>1
<1>3. Unread(n)' => Unread(n)
  BY <1>2 DEF Unread
<1>4. SignalsOwn(n) /\ UNCHANGED claims[n] => SignalsOwn(n)'
  BY <1>2 DEF SignalsOwn
<1>5. ASSUME SignalsOwn(n), signals[1].name = n
      PROVE  /\ SignalsOwn(n)' /\ ~Unread(n)' /\ signals[1].what = "paused"
             /\ claims[n].awaitingPause /\ ~players[n].playing
  <2>1. \A i \in DOMAIN signals' : signals'[i].name # n
    BY <1>2, <1>5 DEF SignalsOwn
  <2>2. QED
    BY <1>2, <1>5, <2>1 DEF SignalsOwn, Unread
<1>6. QED
  BY <1>3, <1>4, <1>5

\* The player takes the call: it stops for the Pause, and plays again for the Play.
LEMMA AsLeftHandles ==
    ASSUME PlayersInv, CallsAnswered, NEW n \in Players, AsLeft(n), NEW m \in Players, Handles(m)
    PROVE  AsLeft(n)'
<1>1. /\ PlayersTypeOK /\ players \in [Players -> Player] /\ players[m] \in Player
      /\ inboxes \in [Players -> Seq(Call)] /\ UNCHANGED <<claims, ongoing, observing>>
      /\ claims[n] \in ClaimState /\ ongoing \in Activity
  BY DEF PlayersInv, PlayersTypeOK, Player, Call, Handles, ClaimState, Activity
<1>2. /\ ongoing.at \in Waits /\ ongoing.name = m /\ answer = "none" /\ Len(inboxes[m]) = 1
      /\ observing /\ inboxes[m] # <<>>
  BY DEF CallsAnswered, Handles
<1>3. CASE m # n
  <2>1. Apart(n) /\ Apart(n)' /\ ~(ongoing.at = "decide")'
    BY <1>1, <1>2, <1>3 DEF Apart, Waits
  <2>2. UNCHANGED <<claims[n], players[n]>>
    BY <1>1, <1>3 DEF Handles, PlayerIs
  <2>3. (SignalsOwn(n) => SignalsOwn(n)') /\ (Unread(n)' => Unread(n))
    <3>1. CASE UNCHANGED signals
      BY <2>2, <3>1 DEF SignalsOwn, Unread
    <3>2. CASE Signals(m, "changed", FALSE) \/ Signals(m, "paused", FALSE)
      BY <1>1, <1>3, <2>2, <3>2, SignalsAside
    <3>3. QED
      BY <3>1, <3>2 DEF Handles
  <2>4. QED
    BY <2>1, <2>2, <2>3, AsLeftStays
<1>4. CASE m = n
  <2> DEFINE call == Head(inboxes[n])
             plays == call.call = "Play"
  <2>1. /\ call.call = IF ongoing.at = "pause_sent" THEN "Pause" ELSE "Play"
        /\ call.owner = ongoing.owner
    <3>1. Head(inboxes[n]) = inboxes[n][1]
      BY <1>1, <1>2, <1>4, Tailed
    <3>2. QED
      BY <1>2, <1>4, <3>1 DEF PlayersInv, CallUnderWay, LastCall
  <2> HIDE DEF call
  <2>2. CASE ongoing.at = "pause_sent"
    <3>1. claims[n].open /\ claims[n].owner = ongoing.owner /\ ClaimUndisturbed(n)
      BY <1>2, <1>4, <2>2 DEF PlayersInv, ClaimedOnce, AsLeft
    <3>2. /\ call.owner = players[n].owner /\ ~plays /\ players[n].playing /\ ~Unread(n)
          /\ claims[n].awaitingPause
      BY <1>2, <1>4, <2>1, <2>2, <3>1 DEF ClaimUndisturbed
    <3>3. /\ players' = [players EXCEPT ![n] = [players[n] EXCEPT !.playing = FALSE]]
          /\ Signals(n, "paused", FALSE) /\ Replies(n, "ok")
      BY <1>1, <1>4, <3>2 DEF Handles, PlayerIs, call
    <3>4. /\ ~players'[n].playing /\ players'[n].owner = players[n].owner
          /\ players'[n].track = players[n].track
      BY <1>1, <1>4, <3>3 DEF Player
    <3>5. answer' = "ok"
      BY <1>2, <1>4, <3>3 DEF Replies
    <3>6. SignalsOwn(n)'
      <4>1. /\ Len(signals) \in Nat /\ DOMAIN signals = 1..Len(signals)
            /\ \A i \in DOMAIN signals : signals'[i] = signals[i] /\ signals[i].name # n
            /\ DOMAIN signals' = 1..Len(signals) + 1
            /\ signals'[Len(signals) + 1] = [name |-> n, owner |-> players[n].owner,
                                             use |-> FALSE, what |-> "paused"]
        BY <1>1, <1>2, <3>2, <3>3, SignalAdded DEF PlayersTypeOK, Unread
      <4>2. \A i \in DOMAIN signals' : signals'[i].name = n => i = Len(signals) + 1
        BY <4>1
      <4>3. QED
        BY <1>1, <3>2, <3>4, <4>1, <4>2 DEF SignalsOwn
    <3>7. QED
      BY <1>1, <1>4, <2>2, <3>1, <3>4, <3>5, <3>6 DEF AsLeft, ClaimUndisturbed
  <2>3. CASE ongoing.at = "play_sent"
    <3>1. Resuming /\ n \notin todo /\ ongoing # Nothing
      BY <1>2, <1>4, <2>3 DEF PlayersInv, WorkerFits, Waits, Nothing
    <3>2. ~claims[n].open /\ PlaysAgain(n)
      BY <2>3, <3>1 DEF PlayersInv, ClaimedOnce, AsLeft
    <3>3. plays /\ call.owner = ongoing.owner
      BY <2>1, <2>3
    <3>4. CASE call.owner = players[n].owner
      <4>1. players' = [players EXCEPT ![n] = [players[n] EXCEPT !.playing = plays]]
        BY <1>4, <3>4 DEF Handles, PlayerIs, call
      <4>2. players'[n].playing
        BY <1>1, <1>4, <3>3, <4>1 DEF Player
      <4>3. QED
        BY <1>1, <3>2, <4>2 DEF AsLeft, PlaysAgain
    <3>5. CASE call.owner # players[n].owner
      <4>1. UNCHANGED players
        BY <1>4, <3>5 DEF Handles, call
      <4>2. players[n].playing
        BY <3>2, <3>3, <3>5 DEF PlaysAgain
      <4>3. QED
        BY <1>1, <3>2, <4>1, <4>2 DEF AsLeft, PlaysAgain
    <3>6. QED
      BY <3>4, <3>5
  <2>4. QED
    BY <1>2, <2>2, <2>3 DEF Waits
<1>5. QED
  BY <1>3, <1>4

\* The monitor takes Koett's own pause for what it is.
LEMMA AsLeftRead ==
    ASSUME PlayersInv, NEW n \in Players, AsLeft(n), Read
    PROVE  AsLeft(n)'
<1>1. /\ PlayersTypeOK /\ claims \in [Players -> ClaimState] /\ signals # <<>>
      /\ signals' = Tail(signals) /\ UNCHANGED <<players, ongoing, answer>>
      /\ claims[n] \in ClaimState
  BY DEF PlayersInv, PlayersTypeOK, ClaimState, Read
<1>2. /\ Unread(n)' => Unread(n)
      /\ SignalsOwn(n) /\ UNCHANGED claims[n] => SignalsOwn(n)'
      /\ SignalsOwn(n) /\ signals[1].name = n =>
                 SignalsOwn(n)' /\ ~Unread(n)' /\ signals[1].what = "paused"
                 /\ claims[n].awaitingPause /\ ~players[n].playing
  BY <1>1, ReadLeavesOwn
<1>3. CASE ~About(n, signals[1])
  <2>1. UNCHANGED <<claims[n], players[n]>>
    BY <1>1, <1>3, ReadKeepsOwn
  <2>2. QED
    BY <1>1, <1>2, <2>1, AsLeftStays
<1>4. CASE About(n, signals[1])
  <2>1. claims[n].open /\ signals[1].name = n /\ ClaimUndisturbed(n)
    BY <1>4 DEF About, AsLeft
  <2>2. /\ SignalsOwn(n)' /\ ~Unread(n)' /\ ~players[n].playing
        /\ signals[1].what = "paused" /\ claims[n].awaitingPause
    BY <1>2, <2>1 DEF ClaimUndisturbed
  <2>3. /\ claims'[n].open /\ claims'[n].valid /\ claims'[n].owner = claims[n].owner
        /\ claims'[n].track = claims[n].track
        /\ claims'[n].successful = claims[n].successful
    <3>1. Head(signals) = signals[1]
      BY <1>1, Tailed DEF PlayersTypeOK
    <3>2. claims'[n] = [claims[n] EXCEPT
                          !.valid = @ /\ signals[1].what = "paused" /\ claims[n].awaitingPause,
                          !.awaitingPause = @ /\ signals[1].what = "owner"]
      BY <1>4, <3>1 DEF Read
    <3> DEFINE c == [claims[n] EXCEPT
                       !.valid = @ /\ signals[1].what = "paused" /\ claims[n].awaitingPause]
    <3>3. /\ c \in ClaimState /\ c.open = claims[n].open /\ c.owner = claims[n].owner
          /\ c.track = claims[n].track /\ c.successful = claims[n].successful
          /\ c.valid = (claims[n].valid /\ signals[1].what = "paused" /\ claims[n].awaitingPause)
      BY <1>1 DEF ClaimState
    <3>4. claims'[n] = [c EXCEPT !.awaitingPause = claims[n].awaitingPause
                                                   /\ signals[1].what = "owner"]
      BY <1>1, <3>2 DEF ClaimState
    <3> HIDE DEF c
    <3>5. /\ claims'[n].open = c.open /\ claims'[n].valid = c.valid
          /\ claims'[n].owner = c.owner /\ claims'[n].track = c.track
          /\ claims'[n].successful = c.successful
      BY <3>3, <3>4 DEF ClaimState
    <3>6. claims[n].valid
      BY <2>1 DEF ClaimUndisturbed
    <3>7. QED
      BY <2>1, <2>2, <3>3, <3>5, <3>6
  <2>4. QED
    BY <1>1, <2>1, <2>2, <2>3 DEF AsLeft, ClaimUndisturbed, AsSeen
<1>5. QED
  BY <1>3, <1>4

\* The worker takes a command, looks at a player or passes one over.
LEMMA AsLeftLooks ==
    ASSUME PlayersInv, NEW n \in quiet, AsLeft(n), delays' = delays,
           TakeOrder \/ \E m \in Players : LookAt(m) \/ PassOver(m), n \in quiet'
    PROVE  AsLeft(n)'
<1>1. /\ n \in Players /\ claims \in [Players -> ClaimState] /\ Nothing.at = "idle"
      /\ ~Unclaimed.open /\ delays \in Nat
      /\ UNCHANGED <<players, signals, claims[n]>> /\ SignalsOwn(n) => SignalsOwn(n)'
      /\ UNCHANGED signals => (Unread(n)' => Unread(n))
  BY DEF PlayersInv, PlayersTypeOK, ClaimState, Nothing, Unclaimed, SignalsOwn, Unread
<1>2. CASE TakeOrder
  <2>1. Resuming /\ UNCHANGED <<players, claims, signals>>
    BY <1>2 DEF TakeOrder, playHistory
  <2>2. ongoing = Nothing /\ ongoing'.at \in {"pausing", "resuming"}
    BY <1>2 DEF TakeOrder, GoOn, Nothing
  <2>3. Apart(n) /\ Apart(n)' /\ ongoing'.at # "decide"
    BY <1>1, <2>2 DEF Apart, Waits
  <2>4. QED
    BY <1>1, <2>1, <2>3, AsLeftStays
<1>3. ASSUME NEW m \in Players, LookAt(m) PROVE AsLeft(n)'
  <2>1. /\ UNCHANGED <<players, claims, signals>> /\ ongoing.at \in {"pausing", "resuming"}
        /\ ongoing'.at \in {"decide", "claim"} /\ ongoing'.name = m
        /\ ongoing'.owner = players[m].owner /\ ongoing'.track = players[m].track
    BY <1>3 DEF LookAt, busVars
  <2>2. Apart(n) /\ Apart(n)'
    BY <2>1 DEF Apart, Waits
  <2>3. (ongoing.at = "decide" /\ ongoing.name = n)' => AsSeen(n)'
    BY <2>1 DEF AsSeen
  <2>4. QED
    BY <1>1, <2>1, <2>2, <2>3, AsLeftStays
<1>4. ASSUME NEW m \in Players, PassOver(m) PROVE AsLeft(n)'
  <2>1. /\ UNCHANGED <<players, signals, ongoing, answer>> /\ players[m].playing = Resuming
        /\ claims' = IF Resuming THEN [claims EXCEPT ![m] = Unclaimed] ELSE claims
    BY <1>1, <1>4 DEF PassOver, busVars, Delay
  <2>2. CASE Resuming /\ m = n
    <3>1. players'[n].playing /\ ~claims'[n].open
      BY <1>1, <2>1, <2>2
    <3>2. QED
      BY <3>1 DEF AsLeft, PlaysAgain
  <2>3. CASE ~(Resuming /\ m = n)
    <3>1. UNCHANGED claims[n]
      BY <1>1, <2>1, <2>3
    <3>2. QED
      BY <1>1, <2>1, <3>1, AsLeftStays
  <2>4. QED
    BY <2>2, <2>3
<1>5. QED
  BY <1>2, <1>3, <1>4

\* A player that joins the quiet ones is claimed as it is.
LEMMA AsLeftClaims ==
    ASSUME PlayersInv, CallsAnswered, NEW n \in quiet', n \in quiet => AsLeft(n), ClaimPlayer
    PROVE  AsLeft(n)'
<1>1. /\ claims \in [Players -> ClaimState] /\ ongoing \in Activity /\ ongoing.at = "claim"
      /\ ongoing.name \in Players /\ orders # <<>> /\ ~Resuming /\ ongoing # Nothing
      /\ UNCHANGED <<players, signals>>
      /\ ongoing' = [ongoing EXCEPT !.at = "pause_sent"] /\ answer' = "none"
  BY DEF PlayersInv, PlayersTypeOK, ClaimState, Activity, ClaimPlayer, WorkerFits, Nothing,
         Sends
<1>2. /\ ongoing'.at = "pause_sent" /\ ongoing'.name = ongoing.name
      /\ ongoing'.owner = ongoing.owner /\ ongoing'.track = ongoing.track
  BY <1>1 DEF Activity
<1>3. n \in Players /\ ongoing.name \notin quiet
  <2>1. PausesNow /\ Claiming(ongoing.name)
    BY <1>1 DEF PausesNow, Claiming, Resuming
  <2>2. ongoing.name \notin quiet
    BY <1>1, <2>1 DEF PlayersInv, ClaimedOnce
  <2>3. quiet' \subseteq quiet \cup {ongoing.name} /\ quiet \subseteq Players
    BY DEF ClaimPlayer, PlayersInv, PlayersTypeOK
  <2>4. QED
    BY <1>1, <2>2, <2>3
<1>4. CASE n # ongoing.name
  <2>1. n \in quiet /\ UNCHANGED <<claims[n], players[n]>>
    BY <1>1, <1>3, <1>4 DEF ClaimPlayer
  <2>2. Apart(n) /\ Apart(n)' /\ ongoing'.at # "decide"
    BY <1>1, <1>2, <1>4 DEF Apart, Waits
  <2>3. (SignalsOwn(n) => SignalsOwn(n)') /\ (Unread(n)' => Unread(n))
    BY <1>1, <2>1 DEF SignalsOwn, Unread
  <2>4. QED
    BY <1>3, <2>1, <2>2, <2>3, AsLeftStays
<1>5. CASE n = ongoing.name
  <2>1. ~Unread(n) /\ AsSeen(n) /\ players[n].playing
    BY <1>3, <1>5 DEF ClaimPlayer
  <2>2. claims'[n] = [open |-> TRUE, owner |-> ongoing.owner, track |-> ongoing.track,
                      successful |-> FALSE, valid |-> TRUE, awaitingPause |-> TRUE]
    BY <1>1, <1>5 DEF ClaimPlayer
  <2>3. SignalsOwn(n)' /\ ~Unread(n)'
    BY <1>1, <2>1 DEF SignalsOwn, Unread
  <2>4. QED
    BY <1>1, <1>2, <1>5, <2>1, <2>2, <2>3 DEF AsLeft, ClaimUndisturbed, AsSeen
<1>6. QED
  BY <1>4, <1>5

\* The reply arrives, and the claim is what the worker goes by.
LEMMA AsLeftReplies ==
    ASSUME PlayersInv, NEW n \in quiet, AsLeft(n), PauseReturns \/ PlayReturns, answer # "none"
    PROVE  AsLeft(n)'
<1>1. /\ n \in Players /\ claims \in [Players -> ClaimState] /\ claims[n] \in ClaimState
      /\ ongoing'.at \in {"pausing", "resuming"} /\ UNCHANGED <<players, signals>>
      /\ ongoing.at \in {"pause_sent", "play_sent"}
  BY DEF PlayersInv, PlayersTypeOK, ClaimState, PauseReturns, PlayReturns, GoOn, Nothing,
         busVars
<1>2. CASE PauseReturns /\ ongoing.name = n
  <2>1. claims' = [claims EXCEPT ![n].successful = (answer = "ok")]
    BY <1>2 DEF PauseReturns
  <2>2. /\ claims'[n].successful = (answer = "ok") /\ claims'[n].open = claims[n].open
        /\ claims'[n].valid = claims[n].valid /\ claims'[n].owner = claims[n].owner
        /\ claims'[n].track = claims[n].track
        /\ claims'[n].awaitingPause = claims[n].awaitingPause
    BY <1>1, <2>1 DEF ClaimState
  <2>3. ongoing.at = "pause_sent" /\ claims[n].open /\ ClaimUndisturbed(n)
    BY <1>2 DEF PauseReturns, PlayersInv, ClaimedOnce, AsLeft
  <2>4. answer = "ok" /\ ~players[n].playing /\ SignalsOwn(n)
    BY <1>2, <2>3 DEF ClaimUndisturbed
  <2>5. SignalsOwn(n)'
    BY <1>1, <2>2, <2>4 DEF SignalsOwn
  <2>6. QED
    BY <1>1, <2>2, <2>3, <2>4, <2>5 DEF AsLeft, ClaimUndisturbed
<1>3. CASE PauseReturns /\ ongoing.name # n
  <2>1. UNCHANGED <<claims[n], players[n]>>
    BY <1>1, <1>3 DEF PauseReturns
  <2>2. Apart(n) /\ Apart(n)' /\ ongoing'.at # "decide"
    BY <1>1, <1>3 DEF Apart, Waits
  <2>3. (SignalsOwn(n) => SignalsOwn(n)') /\ (Unread(n)' => Unread(n))
    BY <1>1, <2>1 DEF SignalsOwn, Unread
  <2>4. QED
    BY <1>1, <2>1, <2>2, <2>3, AsLeftStays
<1>4. CASE PlayReturns
  <2>1. UNCHANGED claims /\ ongoing.at = "play_sent"
    BY <1>4 DEF PlayReturns
  <2>2. (SignalsOwn(n) => SignalsOwn(n)') /\ (Unread(n)' => Unread(n))
    BY <1>1, <2>1 DEF SignalsOwn, Unread
  <2>3. QED
    BY <1>1, <2>1, <2>2 DEF AsLeft, ClaimUndisturbed, PlaysAgain
<1>5. QED
  BY <1>2, <1>3, <1>4

\* A claim that nobody disturbed is trusted.
LEMMA AsLeftDecides ==
    ASSUME PlayersInv, NEW n \in quiet, AsLeft(n), Decide
    PROVE  AsLeft(n)'
<1>1. /\ n \in Players /\ claims \in [Players -> ClaimState] /\ ongoing \in Activity
      /\ UNCHANGED <<players, signals>> /\ ongoing.at = "decide" /\ ongoing.name \in Players
      /\ claims' = [claims EXCEPT ![ongoing.name] = Unclaimed] /\ ~Unclaimed.open
  BY DEF PlayersInv, PlayersTypeOK, ClaimState, Activity, Decide, WorkerFits, Unclaimed
<1>2. \/ ongoing'.at \in {"pausing", "resuming"} /\ ongoing'.name # n
      \/ ongoing' = [ongoing EXCEPT !.at = "play_sent"] /\ answer' = "none"
  BY <1>1, NamesAssumption DEF Decide, GoOn, Nothing, Sends
<1>3. CASE n # ongoing.name
  <2>1. UNCHANGED <<claims[n], players[n]>>
    BY <1>1, <1>3
  <2>2. Apart(n) /\ Apart(n)' /\ ongoing'.at # "decide"
    BY <1>1, <1>2, <1>3 DEF Apart, Waits, Activity
  <2>3. (SignalsOwn(n) => SignalsOwn(n)') /\ (Unread(n)' => Unread(n))
    BY <1>1, <2>1 DEF SignalsOwn, Unread
  <2>4. QED
    BY <1>1, <2>1, <2>2, <2>3, AsLeftStays
<1>4. CASE n = ongoing.name
  <2>1. ~claims'[n].open
    BY <1>1, <1>4
  <2>2. CASE claims[n].open
    <3>1. /\ Trusted(claims[n]) /\ ongoing.owner = players[n].owner
      BY <1>1, <1>4, <2>2 DEF AsLeft, ClaimUndisturbed, AsSeen, Trusted
    <3>2. ongoing' = [ongoing EXCEPT !.at = "play_sent"] /\ answer' = "none"
      BY <1>4, <3>1 DEF Decide, Sends
    <3>3. ongoing'.at = "play_sent" /\ ongoing'.name = n /\ ongoing'.owner = ongoing.owner
      BY <1>1, <1>4, <3>2 DEF Activity
    <3>4. QED
      BY <1>1, <2>1, <3>1, <3>2, <3>3 DEF AsLeft, PlaysAgain
  <2>3. CASE ~claims[n].open
    BY <1>1, <2>1, <2>3 DEF AsLeft, PlaysAgain
  <2>4. QED
    BY <2>2, <2>3
<1>5. QED
  BY <1>3, <1>4

\* When a resume is over, every player nobody used plays.
LEMMA QuietPlays ==
    ASSUME PlayersInv, CallsAnswered, NEW n \in quiet, AsLeft(n), Completes, Resuming
    PROVE  players[n].playing
<1>1. /\ ongoing.name = NoPlayer /\ ongoing.at # "idle" /\ todo = {} /\ ongoing # Nothing
      /\ n \in Players
  BY DEF Completes, CallsAnswered, Nothing, PlayersInv, PlayersTypeOK
<1>2. ongoing.at \notin Waits \cup {"claim", "decide"}
  BY <1>1, NamesAssumption DEF PlayersInv, WorkerFits
<1>3. ~claims[n].open
  BY <1>1, <1>2 DEF PlayersInv, ClaimedOnce
<1>4. QED
  BY <1>2, <1>3 DEF AsLeft, PlaysAgain, Waits

LEMMA AsLeftCompletes ==
    ASSUME PlayersInv, CallsAnswered, NEW n \in quiet, AsLeft(n), Completes
    PROVE  AsLeft(n)'
<1>1. /\ ongoing.name = NoPlayer /\ todo = {} /\ n \in Players
      /\ UNCHANGED <<players, signals, answer>> /\ ongoing' = Nothing /\ Nothing.at = "idle"
      /\ claims' = IF Resuming THEN [m \in Players |-> Unclaimed] ELSE claims
      /\ ~Unclaimed.open
  BY DEF Completes, OrderEnds, CallsAnswered, Nothing, PlayersInv, PlayersTypeOK, busVars,
         Unclaimed
<1>2. ongoing.at \notin Waits
  BY <1>1, NamesAssumption DEF PlayersInv, WorkerFits
<1>3. CASE Resuming
  <2>1. players'[n].playing /\ ~claims'[n].open
    BY <1>1, <1>3, QuietPlays
  <2>2. QED
    BY <2>1 DEF AsLeft, PlaysAgain
<1>4. CASE ~Resuming
  <2>1. UNCHANGED <<claims[n], players[n]>>
    BY <1>1, <1>4
  <2>2. (SignalsOwn(n) => SignalsOwn(n)') /\ (Unread(n)' => Unread(n))
    BY <1>1, <2>1 DEF SignalsOwn, Unread
  <2>3. Apart(n) /\ Apart(n)' /\ ongoing'.at # "decide"
    BY <1>1, <1>2 DEF Apart, Waits
  <2>4. QED
    BY <1>1, <2>1, <2>2, <2>3, AsLeftStays
<1>5. QED
  BY <1>3, <1>4

LEMMA QuietInvStep ==
    ASSUME PlayersInv, QuietInv, [PlayersNext]_playersVars
    PROVE  QuietInv'
<1>1. SUFFICES ASSUME delays' = 0
               PROVE  CallsAnswered' /\ \A n \in quiet' : AsLeft(n)'
  BY DEF QuietInv
<1>2. delays = 0 /\ delays' = delays /\ ~CutOff /\ ~ObservationEnds
  BY <1>1, DelaysCount DEF PlayersInv
<1>3. CallsAnswered /\ \A n \in quiet : AsLeft(n)
  BY <1>2 DEF QuietInv
<1>4. CallsAnswered'
  BY <1>1, <1>3, CallsAnsweredKept
<1>5. PlayersTypeOK /\ quiet \subseteq Players
  BY DEF PlayersInv, PlayersTypeOK
<1>6. SUFFICES ASSUME NEW n \in quiet' PROVE AsLeft(n)'
  BY <1>4
<1>7. ASSUME UNCHANGED <<quiet, players, claims, signals, ongoing, answer>> PROVE AsLeft(n)'
  <2>1. n \in quiet /\ AsLeft(n) /\ n \in Players
    BY <1>3, <1>5, <1>7
  <2>2. (SignalsOwn(n) => SignalsOwn(n)') /\ (Unread(n)' => Unread(n))
    BY <1>7 DEF SignalsOwn, Unread
  <2>3. QED
    BY <1>7, <2>1, <2>2, AsLeftStays
<1>8. ASSUME NEW m \in Players, Use(m) PROVE AsLeft(n)'
  <2>1. /\ n \in quiet /\ n # m /\ n \in Players /\ AsLeft(n)
        /\ UNCHANGED <<claims, ongoing, answer>>
    BY <1>3, <1>5, <1>8 DEF Use, workerSide
  <2>2. Held(m) \in BOOLEAN /\ (Held(m) /\ ~Crosses(m)) \in BOOLEAN
    BY <1>5 DEF Held, PlayersTypeOK, Claiming
  <2>3. PICK what \in {"paused", "changed", "owner"}, use \in BOOLEAN :
           Signals(m, what, use) /\ \E p : PlayerIs(m, p)
    BY <1>8, <2>2 DEF Use
  <2>4. UNCHANGED <<claims[n], players[n]>>
    BY <1>5, <2>1, <2>3 DEF PlayerIs, PlayersTypeOK
  <2>5. (SignalsOwn(n) => SignalsOwn(n)') /\ (Unread(n)' => Unread(n))
    BY <1>5, <2>1, <2>3, <2>4, SignalsAside
  <2>6. QED
    BY <2>1, <2>4, <2>5, AsLeftStays
<1>9. ASSUME NEW m \in Players, Handles(m) PROVE AsLeft(n)'
  <2>1. n \in quiet /\ n \in Players /\ AsLeft(n)
    BY <1>3, <1>5, <1>9 DEF Handles
  <2>2. QED
    BY <1>3, <1>9, <2>1, AsLeftHandles
<1>10. CASE Read
  <2>1. n \in quiet /\ n \in Players /\ AsLeft(n)
    BY <1>3, <1>5, <1>10 DEF Read
  <2>2. QED
    BY <1>10, <2>1, AsLeftRead
<1>11. CASE TakeOrder \/ \E m \in Players : LookAt(m) \/ PassOver(m)
  <2>1. n \in quiet /\ AsLeft(n)
    BY <1>3, <1>6, <1>11 DEF TakeOrder, LookAt, PassOver, playHistory
  <2>2. QED
    BY <1>2, <1>6, <1>11, <2>1, AsLeftLooks
<1>12. CASE Completes
  <2>1. n \in quiet /\ AsLeft(n)
    BY <1>3, <1>12 DEF Completes, OrderEnds, playHistory
  <2>2. QED
    BY <1>3, <1>12, <2>1, AsLeftCompletes
<1>13. CASE ClaimPlayer
  BY <1>3, <1>13, AsLeftClaims
<1>14. CASE PauseReturns \/ PlayReturns
  <2>1. n \in quiet /\ AsLeft(n)
    BY <1>3, <1>14 DEF PauseReturns, PlayReturns, playHistory
  <2>2. answer # "none"
    BY <1>2, <1>14 DEF PauseReturns, PlayReturns, Delay
  <2>3. QED
    BY <1>14, <2>1, <2>2, AsLeftReplies
<1>15. CASE Decide
  <2>1. n \in quiet /\ AsLeft(n)
    BY <1>3, <1>15 DEF Decide, playHistory
  <2>2. QED
    BY <1>15, <2>1, AsLeftDecides
<1>16. CASE EngineActs
  BY <1>5, <1>7, <1>16, EngineTyped DEF busVars, workerSide, playHistory
<1>17. CASE UNCHANGED playersVars
  BY <1>7, <1>17 DEF playersVars, busVars, workerSide, playHistory
<1>18. QED
  BY <1>2, <1>8, <1>9, <1>10, <1>11, <1>12, <1>13, <1>14, <1>15, <1>16, <1>17
  DEF PlayersNext, EngineActs

\* Whatever users, other programs and late answers do, the invariants hold.
THEOREM PlayersInvariant == PlayersSpec => [](PlayersInv /\ QuietInv)
<1>1. PlayersInit => PlayersInv /\ QuietInv
  <2>1. SUFFICES ASSUME PlayersInit PROVE PlayersInv /\ QuietInv
    OBVIOUS
  <2>2. QuietInv
    <3>1. observing = TRUE /\ inboxes = [n \in Players |-> <<>>] /\ quiet = {}
      BY <2>1 DEF PlayersInit
    <3>2. QED
      BY <3>1 DEF QuietInv, CallsAnswered
  <2>3. QED
    BY <2>1, <2>2, PlayersInvInit
<1>2. PlayersInv /\ QuietInv /\ [PlayersNext]_playersVars => (PlayersInv /\ QuietInv)'
  BY PlayersInvStep, QuietInvStep
<1>3. QED
  BY <1>1, <1>2, PTL DEF PlayersSpec

\* ResumesItsOwn (linux/media.rs): Play is sent only to a player that this recording's Pause
\* left paused and of whose use the monitor has not read; and when nothing took too long, every
\* paused player that nobody used plays again when the resume is over.
THEOREM ResumesOwnOnly == PlayersSpec => ResumesItsOwn
<1> DEFINE PlayRight == ongoing.at = "decide" /\ ongoing'.at = "play_sent" =>
                           ongoing.name \in stopped \ noted
           PlayedAgain == Resuming /\ orders' = Tail(orders) /\ delays' = 0 =>
                            \A n \in stopped \cap quiet : players[n].playing
<1>1. ASSUME PlayersInv, QuietInv, [PlayersNext]_playersVars PROVE PlayRight
  <2>1. SUFFICES ASSUME ongoing.at = "decide", ongoing'.at = "play_sent"
                 PROVE  ongoing.name \in stopped \ noted
    OBVIOUS
  <2>2. Decide
    <3>1. UNCHANGED ongoing => FALSE
      BY <2>1
    <3>2. \A n \in Players : ~Use(n) /\ ~Handles(n) /\ ~LookAt(n) /\ ~PassOver(n)
      BY <2>1, <3>1 DEF Use, Handles, LookAt, PassOver, workerSide
    <3>3. ~Read /\ ~ObservationEnds /\ ~EngineActs /\ ~UNCHANGED playersVars
      <4>1. EngineActs => UNCHANGED ongoing
        BY <1>1, EngineTyped DEF workerSide, PlayersInv
      <4>2. QED
        BY <3>1, <4>1 DEF Read, ObservationEnds, playersVars, workerSide
    <3>4. ~TakeOrder /\ ~Completes /\ ~CutOff /\ ~ClaimPlayer /\ ~PauseReturns /\ ~PlayReturns
      BY <2>1 DEF TakeOrder, Completes, CutOff, OrderEnds, GoOn, Nothing, ClaimPlayer,
                  PauseReturns, PlayReturns
    <3>5. QED
      BY <1>1, <3>2, <3>3, <3>4 DEF PlayersNext, EngineActs
  <2>3. Trusted(claims[ongoing.name])
    BY <2>1, <2>2 DEF Decide, GoOn, Nothing
  <2>4. ongoing.name \in Players /\ claims[ongoing.name] \in ClaimState
    BY <1>1, <2>1 DEF PlayersInv, WorkerFits, PlayersTypeOK, ClaimState
  <2>5. ongoing.name \in stopped
    BY <1>1, <2>1, <2>3, <2>4 DEF PlayersInv, PausesWorked, Trusted, ClaimState
  <2>6. ongoing.name \notin noted
    BY <1>1, <2>3, <2>4 DEF PlayersInv, UseRevokes, Trusted
  <2>7. QED
    BY <2>5, <2>6
<1>2. ASSUME PlayersInv, QuietInv, [PlayersNext]_playersVars PROVE PlayedAgain
  <2>1. SUFFICES ASSUME Resuming, orders' = Tail(orders), delays' = 0, NEW n \in quiet
                 PROVE  players[n].playing
    OBVIOUS
  <2>2. orders \in Seq(Order) /\ orders # <<>> /\ PlayersTypeOK /\ WorkerFits
    BY <1>2, <2>1 DEF PlayersInv, PlayersTypeOK, Order, Resuming
  <2>3. Len(orders') = Len(orders) - 1 /\ Len(orders) \in Nat
    BY <2>1, <2>2, Tailed
  <2>4. ~EngineActs
    <3>1. ASSUME NEW e \in Order, orders' = Append(orders, e) PROVE FALSE
      BY <2>2, <2>3, <3>1, Appended
    <3>2. orders' # orders
      BY <2>3
    <3>3. QED
      BY <2>2, <3>1, <3>2, EngineTyped DEF Order
  <2>5. ~GoesOn
    BY <2>3 DEF GoesOn
  <2>6. EndsOrder
    BY <1>2, <2>2, <2>4, <2>5, StepKinds
  <2>7. delays = 0 /\ ~CutOff
    BY <1>2, <2>1, DelaysCount DEF PlayersInv
  <2>8. Completes
    <3>1. UNCHANGED orders => FALSE
      BY <2>3
    <3>2. \A m \in Players : ~Use(m) /\ ~Handles(m) /\ ~LookAt(m) /\ ~PassOver(m)
      BY <3>1 DEF Use, Handles, LookAt, PassOver, engineSide
    <3>3. /\ ~Read /\ ~ObservationEnds /\ ~UNCHANGED playersVars /\ ~TakeOrder
          /\ ~ClaimPlayer /\ ~PauseReturns /\ ~Decide /\ ~PlayReturns
      BY <3>1 DEF Read, ObservationEnds, playersVars, engineSide, TakeOrder, ClaimPlayer,
                  PauseReturns, Decide, PlayReturns
    <3>4. QED
      BY <1>2, <2>4, <2>7, <3>2, <3>3 DEF PlayersNext, EngineActs
  <2>9. CallsAnswered /\ AsLeft(n)
    BY <1>2, <2>7 DEF QuietInv
  <2>10. QED
    BY <1>2, <2>1, <2>8, <2>9, QuietPlays
<1>3. PlayersInv /\ QuietInv /\ [PlayersNext]_playersVars => [PlayRight /\ PlayedAgain]_playersVars
  BY <1>1, <1>2
<1>4. QED
  BY <1>3, PlayersInvariant, PTL DEF PlayersSpec, ResumesItsOwn

-----------------------------------------------------------------------------
(* The Mac: what must hold along with its invariants.                      *)


\* Where a task may still be cancelled, where it has claimed its text, and where it has
\* nothing to save.
Claimable == {"hear", "live", "backup", "finish"}
Claimed == {"draw", "settle", "fetch", "saving"}
Aside == {"discard", "repaste"}
Tasks == [at : {"none"} \cup Claimable \cup Claimed \cup Aside, of : 0..made,
          broken : BOOLEAN, short : BOOLEAN]
Resting == {"loading", "ready", "recording"}

\* The state says which task there can be, and the task which dictation is active.
Shape ==
    /\ made \in Nat /\ active \in 0..made /\ task \in Tasks
    /\ state \in Resting \cup {"transcribing", "media"}
    /\ state \in Resting => task = NoTask
    /\ state \notin Resting => task.at \in Claimable \cup Claimed \cup Aside
    /\ state \in {"loading", "ready"} => active = 0
    /\ state = "recording" => active # 0
    /\ task.at \in Claimable => task.of # 0 /\ active \in {0, task.of}
    /\ task.at \in Claimed => task.of # 0 /\ active = 0
    /\ task.at \in Aside => task.of = 0 /\ active = 0

\* A task that lost its claim was cancelled, and one that has claimed was not.
ClaimsHold ==
    /\ enqueued \subseteq 1..made /\ revoked \subseteq 1..made
    /\ enqueued \cap revoked = {}
    /\ active \notin revoked \cup enqueued
    /\ task.at \in Claimable /\ active # task.of => task.of \in revoked
    /\ task.at \in Claimed => task.of \notin revoked
    /\ task.at \in {"settle", "saving"} => task.of \in enqueued

\* The audio of a cancelled dictation goes with its task; that of another one stays if its
\* words are nowhere.
AudioFits ==
    /\ DOMAIN audio = Recordings /\ made \in Nat /\ made <= MaxRecordings
    /\ \A s \in revoked : s # task.of => audio[s] = "deleted"
    /\ WordsKept

\* What is not in volatile is on disk, and what a write came to is still true when it is
\* applied.
OnDisk ==
    /\ ended => volatile = {}
    /\ enqueued \subseteq volatile \cup history \cup failed
    /\ written.on /\ written.saved => written.record \in history
    /\ written.on /\ written.file => written.record \in failed

\* The inductive invariant behind the theorems.
MacInv == Shape /\ ClaimsHold /\ AudioFits /\ OnDisk /\ ReservedWithoutWork

-----------------------------------------------------------------------------
(* Every part holds at launch.                                             *)

LEMMA MacInitial == MacInit => MacInv
<1> SUFFICES ASSUME MacInit PROVE MacInv
  OBVIOUS
<1>1. Shape
  BY DEF MacInit, Shape, Tasks, NoTask, Claimable, Claimed, Aside, Resting
<1>2. ClaimsHold
  BY DEF MacInit, ClaimsHold, NoTask, Claimable, Claimed
<1>3. AudioFits
  BY MacAssumption DEF MacInit, AudioFits, WordsKept, Over
<1>4. OnDisk /\ ReservedWithoutWork
  BY DEF MacInit, OnDisk, NoWrite, ReservedWithoutWork, Reserved
<1>5. QED
  BY <1>1, <1>2, <1>3, <1>4 DEF MacInv
-----------------------------------------------------------------------------
(* Where a step leads.                                                     *)

\* The actions, in groups by what they touch.
Starting == LaunchSucceeds \/ StartDictation
Aftermath == DiscardEnds \/ PasteLastEnds \/ SettleSketch
Hearing == FinishLive \/ TryBackup \/ TranscribeFile
Handing == CompleteDictation \/ DeliverSketch \/ TranscribeMedia
Panels == OpenPanel \/ CloseAndBegin \/ ClosePanel \/ StartMedia
Writing == ScanFiles \/ WriteRecord \/ ApplyWrite \/ RetrySave
Updating ==
    ShowReservationNotice \/ PillChanges \/ BeginRelaunch \/ RelaunchFails
    \/ WillInstall \/ RunInstallation \/ ShouldPostpone \/ UpdateAborts

LEMMA MacSteps ==
    MacNext <=>
        /\ ~ended
        /\ \/ Starting \/ Aftermath \/ Hearing \/ Handing \/ Panels \/ Writing \/ Updating
           \/ CancelDictation \/ StopMacRecording \/ PasteLast \/ QuitMac
  BY Zenon DEF MacNext, Starting, Aftermath, Hearing, Handing, Panels, Writing, Updating

\* The task's end brings the resting shape.
LEMMA RestingShape ==
    ASSUME Shape, made' = made, NEW st \in {"ready"}, task' = NoTask, state' = st, active' = 0
    PROVE  Shape'
  BY DEF Shape, Tasks, NoTask, Claimable, Claimed, Aside, Resting

LEMMA BackIsResting ==
    ASSUME NEW unsaved, BackToReady(unsaved)
    PROVE  task' = NoTask /\ state' = "ready" /\ active' = 0
  BY DEF BackToReady, ChangesTo

LEMMA BackShape ==
    ASSUME Shape, made' = made, NEW unsaved, BackToReady(unsaved)
    PROVE  Shape'
  BY RestingShape, BackIsResting

LEMMA ShapeSame ==
    ASSUME Shape, UNCHANGED <<made, active, task, state>>
    PROVE  Shape'
  BY DEF Shape, Tasks

LEMMA MediaShape ==
    ASSUME Shape, state \in {"ready"}, BeginMediaFile
    PROVE  Shape'
<1>1. /\ made' = made + 1 /\ state' = "media" /\ active' = active /\ active = 0
      /\ task' = NewTask("fetch", made + 1, FALSE, FALSE)
  BY DEF BeginMediaFile, ChangesTo, Shape
<1>2. QED
  BY <1>1 DEF Shape, Tasks, NewTask, NoTask, Claimable, Claimed, Aside, Resting

LEMMA NextShape == ASSUME Shape, MacNext PROVE Shape'
<1> USE DEF macFrame, macGate, macQueue, macDisk
<1>1. CASE LaunchSucceeds
  <2>1. state' = "ready" /\ active' = 0 /\ made' = made /\ task' = task /\ task = NoTask
    BY <1>1 DEF LaunchSucceeds, ChangesTo, Shape, Resting
  <2>2. QED
    BY <2>1, RestingShape
<1>2. CASE StartDictation
  <2>1. state' = "recording" /\ active' = made + 1 /\ made' = made + 1 /\ task' = task
        /\ task = NoTask
    BY <1>2 DEF StartDictation, ChangesTo, Shape, Resting, CanStartSession
  <2>2. QED
    BY <2>1 DEF Shape, Tasks, NoTask, Claimable, Claimed, Aside, Resting
<1>3. CASE Aftermath
  BY <1>3, BackShape DEF Aftermath, DiscardEnds, PasteLastEnds, SettleSketch
<1>4. CASE Hearing
  <2>1. made' = made
    BY <1>4 DEF Hearing, FinishLive, TryBackup, TranscribeFile
  <2>2. CASE BackToReady(volatile)
    BY <2>1, <2>2, BackShape
  <2>3. CASE /\ \E to \in Claimable : task' = [task EXCEPT !.at = to]
             /\ UNCHANGED <<state, active>>
    <3>1. task.at \in Claimable
      BY <1>4 DEF Hearing, FinishLive, TryBackup, TranscribeFile, Claimable
    <3>2. QED
      BY <2>1, <2>3, <3>1 DEF Shape, Tasks, NoTask, Claimable, Claimed, Aside, Resting
  <2>4. QED
    BY <1>4, <2>2, <2>3 DEF Hearing, FinishLive, TryBackup, TranscribeFile, Fails, IsSilent,
       HasText, Claimable
<1>5. CASE Handing
  <2>1. made' = made
    BY <1>5 DEF Handing, CompleteDictation, DeliverSketch, TranscribeMedia
  <2>2. CASE \E unsaved \in {volatile, volatile \cup {task.of}} : BackToReady(unsaved)
    BY <2>1, <2>2, BackShape
  <2>3. CASE /\ \E to \in {"draw", "settle", "saving"} : task' = [task EXCEPT !.at = to]
             /\ state' = state /\ active' = 0 /\ task.at # "none" /\ task.of # 0
    BY <2>1, <2>3 DEF Shape, Tasks, NoTask, Claimable, Claimed, Aside, Resting
  <2>4. task.at \in {"finish", "draw", "fetch"}
    BY <1>5 DEF Handing, CompleteDictation, DeliverSketch, TranscribeMedia
  <2>5. task.of # 0 /\ (task.at # "finish" => active = 0)
    BY <2>4 DEF Shape, Claimable, Claimed
  <2>6. QED
    BY <1>5, <2>2, <2>3, <2>4, <2>5 DEF Handing, CompleteDictation, DeliverSketch,
       TranscribeMedia
<1>6. CASE Panels
  <2>1. CASE state = "ready" /\ BeginMediaFile
    BY <2>1, MediaShape
  <2>2. CASE UNCHANGED macSession
    BY <2>2, ShapeSame DEF macSession
  <2>3. QED
    BY <1>6, <2>1, <2>2 DEF Panels, OpenPanel, CloseAndBegin, ClosePanel, StartMedia,
       CanStartSession
<1>7. CASE Writing
  <2>1. made' = made
    BY <1>7 DEF Writing, ScanFiles, WriteRecord, ApplyWrite, RetrySave, macSession
  <2>2. CASE \E unsaved : BackToReady(unsaved)
    BY <2>1, <2>2, BackShape
  <2>3. CASE UNCHANGED <<state, active, task>>
    BY <2>1, <2>3, ShapeSame
  <2>4. QED
    BY <1>7, <2>2, <2>3 DEF Writing, ScanFiles, WriteRecord, ApplyWrite, RetrySave, macSession
<1>8. CASE Updating
  <2>1. UNCHANGED macSession
    BY <1>8 DEF Updating, ShowReservationNotice, PillChanges, BeginRelaunch, RelaunchFails,
       WillInstall, RunInstallation, ShouldPostpone, UpdateAborts
  <2>2. QED
    BY <2>1, ShapeSame DEF macSession
<1>9. CASE CancelDictation
  <2>1. made' = made /\ active' = 0
    BY <1>9 DEF CancelDictation, BackToReady, ChangesTo
  <2>2. CASE BackToReady(volatile)
    BY <2>1, <2>2, BackShape
  <2>3. CASE state' = "transcribing" /\ task' = NewTask("discard", 0, FALSE, FALSE)
    BY <2>1, <2>3 DEF Shape, Tasks, NewTask, NoTask, Claimable, Claimed, Aside, Resting
  <2>4. CASE state = "transcribing" /\ UNCHANGED <<state, task>>
    BY <2>1, <2>4 DEF Shape, Tasks, NoTask, Claimable, Claimed, Aside, Resting
  <2>5. QED
    BY <1>9, <2>2, <2>3, <2>4 DEF CancelDictation, ChangesTo
<1>10. CASE StopMacRecording
  <2>1. made' = made /\ state = "recording"
    BY <1>10 DEF StopMacRecording
  <2>2. CASE BackToReady(volatile)
    BY <2>1, <2>2, BackShape
  <2>3. CASE /\ state' = "transcribing" /\ active' = active
             /\ \E at \in {"hear", "backup", "live"}, broken, short \in BOOLEAN :
                    task' = NewTask(at, active, broken, short)
    BY <2>1, <2>3 DEF Shape, Tasks, NewTask, NoTask, Claimable, Claimed, Aside, Resting
  <2>4. QED
    <3>1. PICK broken, short, liveFails \in BOOLEAN :
            \/ StopBroken(active)
            \/ BackToReady(volatile)
            \/ /\ ChangesTo("transcribing", TRUE, volatile) /\ UNCHANGED active
               /\ task' = NewTask(IF speechEngine = "parakeet" THEN "hear"
                                 ELSE IF liveFails THEN "backup" ELSE "live",
                                 active, broken, short)
      BY <1>10 DEF StopMacRecording
    <3>2. QED
      BY <3>1, <2>2, <2>3 DEF StopBroken, ChangesTo
<1>11. CASE PasteLast
  <2>1. /\ state = "ready" /\ state' = "transcribing" /\ made' = made /\ active' = active
        /\ task' = NewTask("repaste", 0, FALSE, FALSE)
    BY <1>11 DEF PasteLast, ChangesTo
  <2>2. QED
    BY <2>1 DEF Shape, Tasks, NewTask, NoTask, Claimable, Claimed, Aside, Resting
<1>12. CASE QuitMac
  BY <1>12, ShapeSame DEF QuitMac, macSession
<1>13. QED
  BY <1>1, <1>2, <1>3, <1>4, <1>5, <1>6, <1>7, <1>8, <1>9, <1>10, <1>11, <1>12, MacSteps
     DEF Starting

-----------------------------------------------------------------------------
(* ClaimsHold.                                                                 *)

LEMMA ClaimsSame ==
    ASSUME ClaimsHold, UNCHANGED <<made, active, task, revoked, enqueued>>
    PROVE  ClaimsHold'
  BY DEF ClaimsHold

\* A task that ends, with its text handed over by then or not.
LEMMA ClaimsEnd ==
    ASSUME ClaimsHold, made' = made, active' = 0, task' = NoTask, revoked' = revoked,
           enqueued' = enqueued
    PROVE  ClaimsHold'
  BY DEF ClaimsHold, NoTask, Claimable, Claimed

LEMMA NextClaims ==
    ASSUME Shape, ClaimsHold, MacNext
    PROVE  ClaimsHold'
<1> USE DEF macFrame, macGate, macQueue, macDisk
<1>1. CASE LaunchSucceeds
  <2>1. active' = 0 /\ active = 0 /\ UNCHANGED <<made, task, revoked, enqueued>>
    BY <1>1 DEF LaunchSucceeds, ChangesTo, Shape
  <2>2. QED
    BY <2>1, ClaimsSame
<1>2. CASE StartDictation
  <2>1. /\ active' = made + 1 /\ made' = made + 1 /\ UNCHANGED <<task, revoked, enqueued>>
        /\ task = NoTask /\ made \in Nat
    BY <1>2 DEF StartDictation, ChangesTo, Shape, Resting, CanStartSession
  <2>2. made + 1 \notin revoked \cup enqueued /\ revoked \subseteq 1..made + 1 /\ enqueued \subseteq 1..made + 1
    BY <2>1 DEF ClaimsHold
  <2>3. QED
    BY <2>1, <2>2 DEF ClaimsHold, NoTask, Claimable, Claimed
<1>3. CASE Aftermath
  <2>1. UNCHANGED <<made, revoked, enqueued>>
    BY <1>3 DEF Aftermath, DiscardEnds, PasteLastEnds, SettleSketch
  <2>2. QED
    BY <1>3, <2>1, BackIsResting, ClaimsEnd DEF Aftermath, DiscardEnds, PasteLastEnds,
       SettleSketch
<1>4. CASE Hearing
  <2>1. UNCHANGED <<made, revoked, enqueued>> /\ task.at \in Claimable
    BY <1>4 DEF Hearing, FinishLive, TryBackup, TranscribeFile, Claimable
  <2>2. CASE BackToReady(volatile)
    BY <2>1, <2>2, BackIsResting, ClaimsEnd
  <2>3. CASE /\ \E to \in Claimable : task' = [task EXCEPT !.at = to]
             /\ UNCHANGED active
    BY <2>1, <2>3 DEF ClaimsHold, Shape, Tasks, Claimable, Claimed
  <2>4. QED
    BY <1>4, <2>2, <2>3 DEF Hearing, FinishLive, TryBackup, TranscribeFile, Fails, IsSilent,
       HasText, Claimable
<1>5. CASE CompleteDictation
  <2>1. /\ UNCHANGED <<made, revoked>> /\ task.at = "finish"
        /\ task.of # 0 /\ task.of \in 0..made /\ made \in Nat
    BY <1>5 DEF CompleteDictation, Shape, Claimable, Tasks
  <2>2. CASE active # task.of
    <3>1. BackToReady(volatile) /\ enqueued' = enqueued
      BY <1>5, <2>2 DEF CompleteDictation
    <3>2. QED
      BY <2>1, <3>1, BackIsResting, ClaimsEnd
  <2>3. CASE active = task.of
    <3>1. task.of \notin revoked
      BY <2>3 DEF ClaimsHold
    <3>2. CASE Enqueue(task.of) /\ BackToReady(volatile \cup {task.of})
      <4>1. enqueued' = enqueued \cup {task.of} /\ task' = NoTask /\ active' = 0
        BY <3>2, BackIsResting DEF Enqueue
      <4>2. 0 \notin revoked \cup enqueued'
        BY <2>1, <4>1 DEF ClaimsHold
      <4>3. enqueued' \subseteq 1..made /\ enqueued' \cap revoked = {}
        <5>1. enqueued \subseteq 1..made /\ enqueued \cap revoked = {}
          BY DEF ClaimsHold
        <5>2. task.of \in 1..made
          BY <2>1
        <5>3. QED
          BY <3>1, <4>1, <5>1, <5>2
      <4>4. task'.at = "none"
        BY <4>1 DEF NoTask
      <4>5. QED
        BY <2>1, <3>1, <4>1, <4>2, <4>3, <4>4 DEF ClaimsHold, Claimable, Claimed
    <3>3. CASE active' = 0 /\ task' = [task EXCEPT !.at = "draw"] /\ enqueued' = enqueued
      BY <2>1, <3>1, <3>3 DEF ClaimsHold, Shape, Tasks, Claimable, Claimed
    <3>4. QED
      BY <1>5, <2>3, <3>2, <3>3 DEF CompleteDictation
  <2>4. QED
    BY <2>2, <2>3
<1>6. CASE DeliverSketch \/ TranscribeMedia
  <2>1. /\ UNCHANGED <<made, revoked>> /\ task.at \in {"draw", "fetch"}
        /\ task.of # 0 /\ task.of \in 0..made /\ made \in Nat /\ active = 0
        /\ task.of \notin revoked
    BY <1>6 DEF DeliverSketch, TranscribeMedia, Shape, ClaimsHold, Claimed, Tasks
  <2>2. CASE BackToReady(volatile) /\ enqueued' = enqueued
    BY <2>1, <2>2, BackIsResting, ClaimsEnd
  <2>3. CASE /\ Enqueue(task.of) /\ active' = active
             /\ \E to \in {"settle", "saving"} : task' = [task EXCEPT !.at = to]
    <3>1. enqueued' = enqueued \cup {task.of}
      BY <2>3 DEF Enqueue
    <3>2. task'.of = task.of /\ task'.at \in {"settle", "saving"}
      BY <2>3 DEF Shape, Tasks
    <3>3. QED
      BY <2>1, <2>3, <3>1, <3>2 DEF ClaimsHold, Claimable, Claimed
  <2>4. QED
    BY <1>6, <2>2, <2>3 DEF DeliverSketch, TranscribeMedia
<1>7. CASE Panels
  <2>1. CASE state = "ready" /\ BeginMediaFile
    <3>1. /\ made' = made + 1 /\ active' = active /\ active = 0
          /\ task' = NewTask("fetch", made + 1, FALSE, FALSE) /\ made \in Nat
          /\ UNCHANGED <<revoked, enqueued>>
      BY <2>1 DEF BeginMediaFile, ChangesTo, Shape
    <3>2. made + 1 \notin revoked \cup enqueued /\ revoked \subseteq 1..made + 1
          /\ enqueued \subseteq 1..made + 1
      BY <3>1 DEF ClaimsHold
    <3>3. QED
      BY <3>1, <3>2 DEF ClaimsHold, NewTask, Claimable, Claimed
  <2>2. CASE UNCHANGED macSession /\ UNCHANGED macQueue
    BY <2>2, ClaimsSame DEF macSession
  <2>3. QED
    BY <1>7, <2>1, <2>2 DEF Panels, OpenPanel, CloseAndBegin, ClosePanel, StartMedia,
       CanStartSession
<1>8. CASE Writing
  <2>1. UNCHANGED <<made, revoked, enqueued>>
    BY <1>8 DEF Writing, ScanFiles, WriteRecord, ApplyWrite, RetrySave, RecoverInBackground,
       macSession
  <2>2. CASE \E unsaved : BackToReady(unsaved)
    BY <2>1, <2>2, BackIsResting, ClaimsEnd
  <2>3. CASE UNCHANGED <<active, task>>
    BY <2>1, <2>3, ClaimsSame
  <2>4. QED
    BY <1>8, <2>2, <2>3 DEF Writing, ScanFiles, WriteRecord, ApplyWrite, RetrySave, macSession
<1>9. CASE Updating
  <2>1. UNCHANGED macSession /\ UNCHANGED macQueue
    BY <1>9 DEF Updating, ShowReservationNotice, PillChanges, BeginRelaunch, RelaunchFails,
       WillInstall, RunInstallation, ShouldPostpone, UpdateAborts
  <2>2. QED
    BY <2>1, ClaimsSame DEF macSession
<1>10. CASE CancelDictation
  <2>1. /\ made' = made /\ active' = 0 /\ enqueued' = enqueued
        /\ revoked' = revoked \cup {active} /\ active # 0 /\ active \in 0..made /\ made \in Nat
    BY <1>10 DEF CancelDictation, BackToReady, ChangesTo, Shape
  <2>2. revoked' \subseteq 1..made /\ 0 \notin revoked' \cup enqueued /\ enqueued \cap revoked' = {}
    BY <2>1 DEF ClaimsHold
  <2>3. CASE task' = NoTask \/ task' = NewTask("discard", 0, FALSE, FALSE)
    BY <2>1, <2>2, <2>3 DEF ClaimsHold, NewTask, NoTask, Claimable, Claimed
  <2>4. CASE task' = task
    <3>1. task.at \in Claimable => task.of \in revoked'
      BY <2>1 DEF Shape, ClaimsHold
    <3>2. task.at \notin Claimed
      BY <2>1 DEF Shape
    <3>3. QED
      BY <2>1, <2>2, <2>4, <3>1, <3>2 DEF ClaimsHold, Claimed
  <2>5. QED
    BY <1>10, <2>3, <2>4, BackIsResting DEF CancelDictation
<1>11. CASE StopMacRecording
  <2>1. /\ UNCHANGED <<made, revoked, enqueued>> /\ state = "recording" /\ active # 0
    BY <1>11 DEF StopMacRecording, Shape
  <2>2. CASE BackToReady(volatile)
    BY <2>1, <2>2, BackIsResting, ClaimsEnd
  <2>3. CASE /\ active' = active
             /\ \E at \in {"hear", "backup", "live"}, broken, short \in BOOLEAN :
                    task' = NewTask(at, active, broken, short)
    BY <2>1, <2>3 DEF ClaimsHold, NewTask, Claimable, Claimed
  <2>4. QED
    BY <1>11, <2>2, <2>3 DEF StopMacRecording, StopBroken
<1>12. CASE PasteLast
  <2>1. /\ task' = NewTask("repaste", 0, FALSE, FALSE)
        /\ UNCHANGED <<made, active, revoked, enqueued>>
    BY <1>12 DEF PasteLast
  <2>2. QED
    BY <2>1 DEF ClaimsHold, NewTask, Claimable, Claimed
<1>13. CASE QuitMac
  <2>1. UNCHANGED macSession /\ enqueued' = enqueued
    BY <1>13 DEF QuitMac, RecoverInBackground
  <2>2. QED
    BY <2>1, ClaimsSame DEF macSession
<1>14. QED
  BY <1>1, <1>2, <1>3, <1>4, <1>5, <1>6, <1>7, <1>8, <1>9, <1>10, <1>11, <1>12, <1>13,
     MacSteps DEF Starting, Handing

-----------------------------------------------------------------------------
(* Audio and words.                                                        *)

\* A step that is about recording x, or about none (0), need only look at x.
LEMMA OnlyOne ==
    ASSUME AudioFits, ClaimsHold, made' = made, NEW x,
           DOMAIN audio' = Recordings,
           \A s \in Recordings \ {x} : audio'[s] = audio[s],
           enqueued \subseteq enqueued', nothing \subseteq nothing', revoked \subseteq revoked',
           revoked' \subseteq revoked \cup {x},
           active \in {0, x, active', task'.of}, task.of \in {0, x, task'.of},
           x \in Recordings /\ x # active' /\ x # task'.of =>
               x \in enqueued' \cup revoked' \cup nothing' \/ audio'[x] = "kept",
           x \in revoked' /\ x # task'.of => audio'[x] = "deleted"
    PROVE  AudioFits'
<1>1. ASSUME NEW s \in revoked', s # task'.of
      PROVE  audio'[s] = "deleted"
  <2>1. CASE s = x
    BY <1>1, <2>1
  <2>2. CASE s # x
    <3>1. s \in revoked /\ s \in Recordings /\ s # 0
      <4>1. s \in revoked /\ s \in 1..made
        BY <1>1, <2>2 DEF ClaimsHold
      <4>2. QED
        BY <4>1, MacAssumption DEF AudioFits, Recordings
    <3>2. s # task.of
      BY <1>1, <2>2, <3>1
    <3>3. QED
      BY <2>2, <3>1, <3>2 DEF AudioFits
  <2>3. QED
    BY <2>1, <2>2
<1>2. ASSUME NEW s \in Recordings, Over(s)'
      PROVE  s \in enqueued' \cup revoked' \cup nothing' \/ audio'[s] = "kept"
  <2>1. s \in 1..made /\ s # active' /\ s # task'.of /\ s # 0
    BY <1>2, MacAssumption DEF Over, Recordings
  <2>2. CASE s = x
    BY <2>1, <2>2
  <2>3. CASE s # x
    <3>1. Over(s)
      BY <2>1, <2>3 DEF Over
    <3>2. s \in enqueued \cup revoked \cup nothing \/ audio[s] = "kept"
      BY <3>1 DEF AudioFits, WordsKept
    <3>3. QED
      BY <2>3, <3>2
  <2>4. QED
    BY <2>2, <2>3
<1>3. WordsKept'
  BY <1>2 DEF WordsKept, Recordings
<1>4. made' \in Nat /\ made' <= MaxRecordings
  BY DEF AudioFits
<1>5. QED
  BY <1>1, <1>3, <1>4 DEF AudioFits, Recordings

\* A new recording has nothing to lose yet.
LEMMA OneMore ==
    ASSUME AudioFits, ClaimsHold, made \in Nat, made < MaxRecordings, made' = made + 1,
           active = 0, task.of = 0,
           made + 1 \in {active', task'.of},
           DOMAIN audio' = Recordings,
           \A s \in Recordings \ {made + 1} : audio'[s] = audio[s],
           UNCHANGED <<enqueued, nothing, revoked>>
    PROVE  AudioFits'
<1>1. ASSUME NEW s \in revoked
      PROVE  audio'[s] = "deleted"
  <2>1. s \in 1..made
    BY DEF ClaimsHold
  <2>2. s \in Recordings /\ s # 0 /\ s # made + 1
    BY <2>1, MacAssumption DEF AudioFits, Recordings
  <2>3. QED
    BY <2>2 DEF AudioFits
<1>2. ASSUME NEW s \in Recordings, Over(s)'
      PROVE  s \in enqueued' \cup revoked' \cup nothing' \/ audio'[s] = "kept"
  <2>1. s \in 1..made + 1 /\ s # made + 1 /\ s # 0
    BY <1>2 DEF Over, Recordings
  <2>2. Over(s)
    BY <2>1 DEF Over
  <2>3. QED
    BY <2>1, <2>2 DEF AudioFits, WordsKept
<1>3. WordsKept'
  BY <1>2 DEF WordsKept, Recordings
<1>4. QED
  BY <1>1, <1>3, MacAssumption DEF AudioFits, Recordings

LEMMA AudioChanges ==
    ASSUME AudioFits, NEW s, NEW kind, Audio(s, kind)
    PROVE  /\ DOMAIN audio' = Recordings
           /\ \A r \in Recordings \ {s} : audio'[r] = audio[r]
           /\ s \in Recordings => audio'[s] = kind
  BY DEF AudioFits, Audio

\* Nothing is said of a recording.
LEMMA AudioSame ==
    ASSUME AudioFits, ClaimsHold, active \in {0, active', task'.of}, task.of \in {0, task'.of},
           UNCHANGED <<made, audio, enqueued, nothing, revoked>>
    PROVE  AudioFits'
<1>1. 0 \notin Recordings /\ 0 \notin revoked
  BY DEF Recordings, ClaimsHold
<1>2. QED
  BY <1>1, OnlyOne DEF AudioFits

\* A task or a recording ends with its text handed over, its audio kept, or nothing to
\* keep.
LEMMA AudioEnds ==
    ASSUME AudioFits, ClaimsHold, NEW unsaved, BackToReady(unsaved), made' = made,
           NEW x \in Recordings, active \in {0, x}, task.of \in {0, x},
           DOMAIN audio' = Recordings,
           \A s \in Recordings \ {x} : audio'[s] = audio[s],
           enqueued \subseteq enqueued', nothing \subseteq nothing', revoked' = revoked,
           x \in enqueued' \cup revoked' \cup nothing' \/ audio'[x] = "kept",
           x \in revoked' => audio'[x] = "deleted"
    PROVE  AudioFits'
  BY OnlyOne, BackIsResting

LEMMA NextAudio ==
    ASSUME Shape, ClaimsHold, AudioFits, MacNext
    PROVE  AudioFits'
<1> USE DEF macFrame, macGate, macQueue, macDisk
<1>1. CASE LaunchSucceeds
  BY <1>1, AudioSame DEF LaunchSucceeds, ChangesTo, Shape
<1>2. CASE StartDictation
  <2>1. /\ active = 0 /\ active' = made + 1 /\ task = NoTask
        /\ made < MaxRecordings /\ made' = made + 1 /\ Audio(made + 1, "temporary")
        /\ UNCHANGED <<enqueued, nothing, revoked>> /\ made \in Nat
    BY <1>2 DEF StartDictation, ChangesTo, Shape, Resting, CanStartSession
  <2>2. QED
    BY <2>1, AudioChanges, OneMore DEF NoTask
<1>3. CASE DiscardEnds \/ PasteLastEnds
  <2>1. /\ active = 0 /\ task.of = 0 /\ active' = 0
        /\ UNCHANGED <<made, audio, enqueued, nothing, revoked>>
    BY <1>3 DEF DiscardEnds, PasteLastEnds, Shape, Aside, BackToReady, ChangesTo
  <2>2. QED
    BY <2>1, AudioSame
<1>4. CASE SettleSketch
  <2>1. /\ BackToReady(volatile) /\ Audio(task.of, "deleted")
        /\ UNCHANGED <<made, enqueued, nothing, revoked>>
    BY <1>4 DEF SettleSketch
  <2>2. /\ task.at = "settle" /\ active = 0 /\ task.of # 0 /\ task.of \in 0..made
        /\ task.of \in enqueued /\ task.of \notin revoked
    BY <1>4 DEF SettleSketch, Shape, ClaimsHold, Claimed, Tasks
  <2>3. task.of \in Recordings
    BY <2>2, MacAssumption DEF AudioFits, Recordings
  <2>4. QED
    BY <2>1, <2>2, <2>3, AudioChanges, AudioEnds
<1>5. CASE Hearing
  <2>1. /\ UNCHANGED <<made, enqueued, revoked>> /\ task.at \in Claimable
        /\ task.of # 0 /\ task.of \in 0..made /\ active \in {0, task.of}
    BY <1>5 DEF Hearing, FinishLive, TryBackup, TranscribeFile, Claimable, Shape, Tasks
  <2>2. task.of \in Recordings
    BY <2>1, MacAssumption DEF AudioFits, Recordings
  <2>3. active # task.of => task.of \in revoked
    BY <2>1 DEF ClaimsHold
  <2>4. CASE Fails(task.of)
    <3>1. BackToReady(volatile) /\ nothing' = nothing
      BY <2>4 DEF Fails
    <3>2. CASE active = task.of
      <4>1. Audio(task.of, "kept") /\ task.of \notin revoked
        BY <2>4, <3>2 DEF Fails, RetainFailedAudio, ClaimsHold
      <4>2. QED
        BY <2>1, <2>2, <3>1, <4>1, AudioChanges, AudioEnds
    <3>3. CASE active # task.of
      <4>1. Audio(task.of, "deleted")
        BY <2>4, <3>3 DEF Fails, RetainFailedAudio
      <4>2. QED
        BY <2>1, <2>2, <2>3, <3>1, <3>3, <4>1, AudioChanges, AudioEnds
    <3>4. QED
      BY <3>2, <3>3
  <2>5. CASE IsSilent(task.of)
    <3>1. /\ BackToReady(volatile) /\ nothing' = nothing \cup {task.of}
          /\ Audio(task.of, "deleted")
      BY <2>5 DEF IsSilent
    <3>2. QED
      BY <2>1, <2>2, <3>1, AudioChanges, AudioEnds
  <2>6. CASE /\ \E to \in Claimable : task' = [task EXCEPT !.at = to]
             /\ UNCHANGED <<active, nothing>>
             /\ audio' = audio \/ Audio(task.of, "deleted")
    <3>1. task'.of = task.of
      BY <2>6 DEF Shape, Tasks
    <3>2. CASE audio' = audio
      BY <2>1, <2>6, <3>1, <3>2, AudioSame
    <3>3. CASE Audio(task.of, "deleted")
      <4>1. /\ DOMAIN audio' = Recordings
            /\ \A r \in Recordings \ {task.of} : audio'[r] = audio[r]
        BY <3>3, AudioChanges
      <4>2. QED
        BY <2>1, <2>6, <3>1, <4>1, OnlyOne
    <3>4. QED
      BY <2>6, <3>2, <3>3
  <2>7. QED
    BY <1>5, <2>4, <2>5, <2>6 DEF Hearing, FinishLive, TryBackup, TranscribeFile, HasText,
       Claimable
<1>6. CASE CompleteDictation
  <2>1. /\ UNCHANGED <<made, nothing, revoked>> /\ task.at = "finish"
        /\ task.of # 0 /\ task.of \in 0..made /\ active \in {0, task.of}
    BY <1>6 DEF CompleteDictation, Shape, Claimable, Tasks
  <2>2. task.of \in Recordings
    BY <2>1, MacAssumption DEF AudioFits, Recordings
  <2>3. CASE active # task.of
    <3>1. BackToReady(volatile) /\ Audio(task.of, "deleted") /\ enqueued' = enqueued
      BY <1>6, <2>3 DEF CompleteDictation
    <3>2. task.of \in revoked
      BY <2>1, <2>3 DEF ClaimsHold, Claimable
    <3>3. QED
      BY <2>1, <2>2, <3>1, <3>2, AudioChanges, AudioEnds
  <2>4. CASE active = task.of
    <3>1. task.of \notin revoked
      BY <2>4 DEF ClaimsHold
    <3>2. CASE /\ Enqueue(task.of) /\ BackToReady(volatile \cup {task.of})
               /\ Audio(task.of, "deleted")
      <4>1. enqueued' = enqueued \cup {task.of}
        BY <3>2 DEF Enqueue
      <4>2. QED
        BY <2>1, <2>2, <3>1, <3>2, <4>1, AudioChanges, AudioEnds
    <3>3. CASE /\ task' = [task EXCEPT !.at = "draw"]
               /\ UNCHANGED <<audio, enqueued>>
      <4>1. task'.of = task.of
        BY <3>3 DEF Shape, Tasks
      <4>2. QED
        BY <2>1, <3>3, <4>1, AudioSame
    <3>4. QED
      BY <1>6, <2>4, <3>2, <3>3 DEF CompleteDictation
  <2>5. QED
    BY <2>3, <2>4
<1>7. CASE DeliverSketch \/ TranscribeMedia
  <2>1. /\ UNCHANGED <<made, audio, revoked>> /\ task.at \in {"draw", "fetch"}
        /\ task.of # 0 /\ task.of \in 0..made /\ active = 0
        /\ task.of \notin revoked
    BY <1>7 DEF DeliverSketch, TranscribeMedia, Shape, ClaimsHold, Claimed, Tasks
  <2>2. task.of \in Recordings /\ DOMAIN audio = Recordings
    BY <2>1, MacAssumption DEF AudioFits, Recordings
  <2>3. CASE /\ BackToReady(volatile) /\ enqueued' = enqueued
             /\ nothing' = nothing \cup {task.of}
    BY <2>1, <2>2, <2>3, AudioEnds
  <2>4. CASE /\ Enqueue(task.of) /\ active' = active /\ nothing' = nothing
             /\ \E to \in {"settle", "saving"} : task' = [task EXCEPT !.at = to]
    <3>1. enqueued' = enqueued \cup {task.of}
      BY <2>4 DEF Enqueue
    <3>2. task'.of = task.of
      BY <2>4 DEF Shape, Tasks
    <3>3. QED
      BY <2>1, <2>2, <2>4, <3>1, <3>2, OnlyOne
  <2>5. QED
    BY <1>7, <2>3, <2>4 DEF DeliverSketch, TranscribeMedia
<1>8. CASE Panels
  <2>1. CASE state = "ready" /\ BeginMediaFile
    <3>1. /\ made' = made + 1 /\ made < MaxRecordings /\ active = 0 /\ task = NoTask
          /\ task' = NewTask("fetch", made + 1, FALSE, FALSE) /\ made \in Nat
          /\ UNCHANGED <<audio, revoked, enqueued, nothing>>
      BY <2>1 DEF BeginMediaFile, ChangesTo, Shape, Resting
    <3>2. QED
      BY <3>1, OneMore DEF AudioFits, NoTask, NewTask
  <2>2. CASE UNCHANGED macSession /\ UNCHANGED macQueue
    BY <2>2, AudioSame DEF macSession
  <2>3. QED
    BY <1>8, <2>1, <2>2 DEF Panels, OpenPanel, CloseAndBegin, ClosePanel, StartMedia,
       CanStartSession
<1>9. CASE Writing
  <2>1. UNCHANGED <<made, audio, nothing, revoked, enqueued>>
    BY <1>9 DEF Writing, ScanFiles, WriteRecord, ApplyWrite, RetrySave, RecoverInBackground,
       macSession
  <2>2. CASE task.at = "saving" /\ \E unsaved : BackToReady(unsaved)
    <3>1. task.of \in 1..made /\ active = 0 /\ task.of \in enqueued /\ task.of \notin revoked
      BY <2>2 DEF Shape, ClaimsHold, Claimed
    <3>2. task.of \in Recordings /\ DOMAIN audio = Recordings
      BY <3>1, MacAssumption DEF AudioFits, Recordings
    <3>3. QED
      BY <2>1, <2>2, <3>1, <3>2, AudioEnds
  <2>3. CASE UNCHANGED <<active, task>>
    BY <2>1, <2>3, AudioSame
  <2>4. QED
    BY <1>9, <2>2, <2>3 DEF Writing, ScanFiles, WriteRecord, ApplyWrite, RetrySave, macSession
<1>10. CASE Updating
  <2>1. UNCHANGED macSession /\ UNCHANGED macQueue
    BY <1>10 DEF Updating, ShowReservationNotice, PillChanges, BeginRelaunch, RelaunchFails,
       WillInstall, RunInstallation, ShouldPostpone, UpdateAborts
  <2>2. QED
    BY <2>1, AudioSame DEF macSession
<1>11. CASE CancelDictation
  <2>1. /\ UNCHANGED <<made, enqueued, nothing>> /\ active' = 0
        /\ revoked' = revoked \cup {active} /\ active # 0 /\ active \in 0..made
    BY <1>11 DEF CancelDictation, BackToReady, ChangesTo, Shape
  <2>2. active \in Recordings
    BY <2>1, MacAssumption DEF AudioFits, Recordings
  <2>3. CASE state = "recording"
    <3>1. Audio(active, "deleted") /\ task.of = 0
      BY <1>11, <2>3 DEF CancelDictation, Shape, Resting, NoTask
    <3>2. task' = NoTask \/ task' = NewTask("discard", 0, FALSE, FALSE)
      BY <1>11, <2>3, BackIsResting DEF CancelDictation
    <3>3. task'.of = 0
      BY <3>2 DEF NoTask, NewTask
    <3>4. QED
      BY <2>1, <2>2, <3>1, <3>3, AudioChanges, OnlyOne
  <2>4. CASE state # "recording"
    <3>1. UNCHANGED <<audio, task>> /\ task.of = active
      BY <1>11, <2>1, <2>4 DEF CancelDictation, Shape, Resting, Claimable, Claimed, Aside
    <3>2. QED
      BY <2>1, <2>2, <3>1, OnlyOne DEF AudioFits
  <2>5. QED
    BY <2>3, <2>4
<1>12. CASE StopMacRecording
  <2>1. /\ UNCHANGED <<made, revoked, enqueued>> /\ active # 0 /\ active \in 0..made
        /\ task.of = 0 /\ active \notin revoked
    BY <1>12 DEF StopMacRecording, Shape, Resting, NoTask, ClaimsHold
  <2>2. active \in Recordings
    BY <2>1, MacAssumption DEF AudioFits, Recordings
  <2>3. CASE StopBroken(active)
    BY <2>1, <2>2, <2>3, AudioChanges, AudioEnds DEF StopBroken
  <2>4. CASE /\ Audio(active, "deleted") /\ BackToReady(volatile)
             /\ nothing' = nothing \cup {active}
    BY <2>1, <2>2, <2>4, AudioChanges, AudioEnds
  <2>5. CASE UNCHANGED <<active, audio, nothing>>
    BY <2>1, <2>5, AudioSame
  <2>6. QED
    BY <1>12, <2>3, <2>4, <2>5 DEF StopMacRecording
<1>13. CASE PasteLast
  <2>1. UNCHANGED <<made, active, audio, revoked, enqueued, nothing>> /\ task.of = 0
    BY <1>13 DEF PasteLast, Shape, Resting, NoTask
  <2>2. QED
    BY <2>1, AudioSame
<1>14. CASE QuitMac
  <2>1. UNCHANGED macSession /\ enqueued' = enqueued
    BY <1>14 DEF QuitMac, RecoverInBackground
  <2>2. QED
    BY <2>1, AudioSame DEF macSession
<1>15. QED
  BY <1>1, <1>2, <1>3, <1>4, <1>5, <1>6, <1>7, <1>8, <1>9, <1>10, <1>11, <1>12, <1>13, <1>14,
     MacSteps DEF Starting, Aftermath, Handing

-----------------------------------------------------------------------------
(* The queue of writes, and the gate in front of an update.                *)

LEMMA NextOnDisk == ASSUME OnDisk, MacNext PROVE OnDisk'
<1> USE DEF macFrame, macGate
<1>1. CASE /\ UNCHANGED <<volatile, enqueued, ended>> /\ UNCHANGED macDisk
  BY <1>1 DEF OnDisk, macDisk
<1>2. CASE /\ \E r : Enqueue(r)
           /\ UNCHANGED macDisk /\ ended' = ended /\ ~ended
  <2>1. PICK r : Enqueue(r)
    BY <1>2
  <2>2. volatile' = volatile \cup {r} /\ enqueued' = enqueued \cup {r}
    BY <2>1 DEF Enqueue
  <2>3. QED
    BY <1>2, <2>2 DEF OnDisk, macDisk
<1>3. CASE WriteRecord
  <2> DEFINE r == CHOOSE x \in work[1].todo : \A y \in work[1].todo : x <= y
  <2>1. PICK preserved \in BOOLEAN, appended \in BOOLEAN, removed \in BOOLEAN :
          /\ removed => preserved /\ appended
          /\ history' = IF appended THEN history \cup {r} ELSE history
          /\ failed' = IF removed THEN failed \ {r}
                       ELSE IF preserved THEN failed \cup {r} ELSE failed
          /\ written' = [record |-> r, saved |-> appended, file |-> preserved /\ ~removed,
                         on |-> TRUE]
    BY <1>3, Zenon DEF WriteRecord
  <2> HIDE DEF r
  <2>2. UNCHANGED <<volatile, enqueued, ended>>
    BY <1>3 DEF WriteRecord, macQueue
  <2>3. history \cup failed \subseteq history' \cup failed'
    BY <2>1
  <2>4. QED
    BY <2>1, <2>2, <2>3 DEF OnDisk
<1>4. CASE ApplyWrite
  <2>1. /\ written.on /\ written'.on = FALSE
        /\ UNCHANGED <<enqueued, history, failed, ended>>
        /\ volatile' = IF written.saved \/ written.file THEN volatile \ {written.record}
                       ELSE volatile \cup {written.record}
    BY <1>4 DEF ApplyWrite, NoWrite
  <2>2. ~ended
    BY DEF MacNext
  <2>3. QED
    BY <2>1, <2>2 DEF OnDisk
<1>5. CASE QuitMac
  <2>1. /\ UNCHANGED <<volatile, enqueued>> /\ UNCHANGED macDisk
        /\ ended' = ended \/ volatile = {}
    BY <1>5 DEF QuitMac, RecoverInBackground, macQueue
  <2>2. QED
    BY <2>1 DEF OnDisk, macDisk
<1>6. ~ended
  BY DEF MacNext
<1>7. CASE \/ Starting \/ Aftermath \/ Hearing \/ Panels \/ Updating
           \/ CancelDictation \/ StopMacRecording \/ PasteLast \/ ScanFiles \/ RetrySave
  <2>1. /\ UNCHANGED <<volatile, enqueued, ended>> /\ UNCHANGED macDisk
    BY <1>7 DEF Starting, LaunchSucceeds, StartDictation, Aftermath, DiscardEnds, PasteLastEnds,
       SettleSketch, Hearing, FinishLive, TryBackup, TranscribeFile, Panels, OpenPanel,
       CloseAndBegin, ClosePanel, StartMedia, BeginMediaFile, Updating, ShowReservationNotice,
       PillChanges, BeginRelaunch, RelaunchFails, WillInstall, RunInstallation, ShouldPostpone,
       UpdateAborts, CancelDictation, StopMacRecording, PasteLast, ScanFiles, RetrySave,
       RecoverInBackground, macQueue
  <2>2. QED
    BY <1>1, <2>1
<1>8. CASE Handing
  <2>1. \/ UNCHANGED <<volatile, enqueued>>
        \/ \E r : Enqueue(r)
    BY <1>8 DEF Handing, CompleteDictation, DeliverSketch, TranscribeMedia, macQueue
  <2>2. UNCHANGED macDisk /\ ended' = ended
    BY <1>8 DEF Handing, CompleteDictation, DeliverSketch, TranscribeMedia
  <2>3. QED
    BY <1>1, <1>2, <1>6, <2>1, <2>2
<1>9. QED
  BY <1>3, <1>4, <1>5, <1>7, <1>8, MacSteps DEF Writing

\* The gate closes only when the app is idle.
LEMMA GateOpens ==
    ASSUME NEW st, NEW shown, NEW unsaved, Resumed(st, shown, unsaved) = gate', Reserved'
    PROVE  Reserved \/ st = "ready"
  BY DEF Resumed, Reserved, IdleIn

LEMMA BackReserves ==
    ASSUME NEW unsaved, BackToReady(unsaved)
    PROVE  ReservedWithoutWork'
  BY BackIsResting DEF ReservedWithoutWork

LEMMA NextReserved ==
    ASSUME Shape, ReservedWithoutWork, MacNext
    PROVE  ReservedWithoutWork'
<1> USE DEF macFrame, macGate, macQueue, macDisk
<1>1. CASE ~Reserved /\ gate' = gate
  BY <1>1 DEF ReservedWithoutWork, Reserved
<1>2. CASE \E unsaved : BackToReady(unsaved)
  BY <1>2, BackReserves
<1>3. CASE state' = "ready"
  BY <1>3 DEF ReservedWithoutWork
<1>4. CASE UNCHANGED <<state, task, gate>>
  BY <1>4 DEF ReservedWithoutWork, Reserved
<1>5. CASE Starting
  <2>1. CASE LaunchSucceeds
    BY <1>3, <2>1 DEF LaunchSucceeds, ChangesTo
  <2>2. CASE StartDictation
    BY <2>2, GateOpens DEF StartDictation, ChangesTo, CanStartSession, ReservedWithoutWork
  <2>3. QED
    BY <1>5, <2>1, <2>2 DEF Starting
<1>6. CASE Aftermath
  BY <1>2, <1>6 DEF Aftermath, DiscardEnds, PasteLastEnds, SettleSketch
<1>7. CASE Hearing \/ Handing
  <2>1. task.at \in Claimable \cup Claimed
    BY <1>7 DEF Hearing, FinishLive, TryBackup, TranscribeFile, Handing, CompleteDictation,
       DeliverSketch, TranscribeMedia, Claimable, Claimed
  <2>2. ~Reserved
    BY <2>1 DEF ReservedWithoutWork, Shape, Claimable, Claimed, Resting, NoTask
  <2>3. gate' = gate \/ \E unsaved : BackToReady(unsaved)
    BY <1>7 DEF Hearing, FinishLive, TryBackup, TranscribeFile, Fails, IsSilent, HasText,
       Handing, CompleteDictation, DeliverSketch, TranscribeMedia
  <2>4. QED
    BY <1>1, <1>2, <2>2, <2>3
<1>8. CASE Panels
  <2>1. CASE ~Reserved /\ BeginMediaFile
    BY <2>1, GateOpens DEF BeginMediaFile, ChangesTo, ReservedWithoutWork
  <2>2. CASE UNCHANGED <<state, task, gate>>
    BY <1>4, <2>2
  <2>3. QED
    BY <1>8, <2>1, <2>2 DEF Panels, OpenPanel, CloseAndBegin, ClosePanel, StartMedia,
       CanStartSession, macSession
<1>9. CASE Writing
  BY <1>2, <1>4, <1>9 DEF Writing, ScanFiles, WriteRecord, ApplyWrite, RetrySave, macSession
<1>10. CASE Updating
  <2>1. UNCHANGED <<state, task>>
    BY <1>10 DEF Updating, ShowReservationNotice, PillChanges, BeginRelaunch, RelaunchFails,
       WillInstall, RunInstallation, ShouldPostpone, UpdateAborts, macSession
  <2>2. Reserved' => Reserved \/ state = "ready"
    BY <1>10, GateOpens DEF Updating, ShowReservationNotice, PillChanges, BeginRelaunch,
       RelaunchFails, WillInstall, RunInstallation, ShouldPostpone, UpdateAborts, Reserved,
       IdleForUpdates, IdleIn
  <2>3. QED
    BY <2>1, <2>2 DEF ReservedWithoutWork
<1>11. CASE CancelDictation \/ StopMacRecording
  <2>1. ~Reserved
    <3>1. state \in {"recording", "transcribing"} /\ active # 0
      BY <1>11 DEF CancelDictation, StopMacRecording, Shape
    <3>2. task.at # "repaste"
      BY <3>1 DEF Shape, Aside
    <3>3. QED
      BY <3>1, <3>2 DEF ReservedWithoutWork
  <2>2. \/ gate' = gate \/ (\E unsaved : BackToReady(unsaved))
        \/ ChangesTo("transcribing", TRUE, volatile)
    BY <1>11 DEF CancelDictation, StopMacRecording, StopBroken
  <2>3. CASE ChangesTo("transcribing", TRUE, volatile)
    BY <2>1, <2>3, GateOpens DEF ChangesTo, ReservedWithoutWork
  <2>4. QED
    BY <1>1, <1>2, <2>1, <2>2, <2>3
<1>12. CASE PasteLast
  <2>1. task'.at = "repaste"
    BY <1>12 DEF PasteLast, NewTask
  <2>2. QED
    BY <2>1 DEF ReservedWithoutWork
<1>13. CASE QuitMac
  BY <1>4, <1>13 DEF QuitMac, macSession
<1>14. QED
  BY <1>5, <1>6, <1>7, <1>8, <1>9, <1>10, <1>11, <1>12, <1>13, MacSteps

-----------------------------------------------------------------------------
(* The theorems.                                                           *)

LEMMA NextMac == MacInv /\ [MacNext]_macVars => MacInv'
<1> SUFFICES ASSUME MacInv, [MacNext]_macVars PROVE MacInv'
  OBVIOUS
<1> USE DEF MacInv
<1>1. CASE MacNext
  BY <1>1, NextShape, NextClaims, NextAudio, NextOnDisk, NextReserved
<1>2. CASE UNCHANGED macVars
  <2>1. UNCHANGED <<macSession, macGate, macQueue, macDisk, macFrame>>
    BY <1>2 DEF macVars
  <2>2. Shape' /\ ClaimsHold' /\ AudioFits'
    BY <2>1, ShapeSame, ClaimsSame, AudioSame DEF macSession, macQueue
  <2>3. OnDisk' /\ ReservedWithoutWork'
    BY <2>1 DEF macSession, macGate, macQueue, macDisk, macFrame, OnDisk, ReservedWithoutWork,
       Reserved
  <2>4. QED
    BY <2>2, <2>3
<1>3. QED
  BY <1>1, <1>2

\* The inductive invariant holds in every state.
THEOREM MacInvariant == MacSpec => []MacInv
  BY MacInitial, NextMac, PTL DEF MacSpec

\* Whatever ends a recording, its words are handed to history or its audio is kept.
THEOREM WordsAreKept == MacSpec => []WordsKept
<1>1. MacInv => WordsKept
  BY DEF MacInv, AudioFits
<1>2. QED
  BY <1>1, MacInvariant, PTL

\* A cancelled dictation leaves no record, and no audio once its task is over.
THEOREM CancelLeavesNothing == MacSpec => []NothingAfterCancel
<1>1. MacInv => NothingAfterCancel
  BY DEF MacInv, AudioFits, ClaimsHold, NothingAfterCancel, Over
<1>2. QED
  BY <1>1, MacInvariant, PTL

\* When Quit, a restart or an update may go ahead, every transcript is on disk.
THEOREM QuitLosesNothing == MacSpec => []QuitKeepsWords
<1>1. MacInv => QuitKeepsWords
  BY DEF MacInv, OnDisk, QuitKeepsWords
<1>2. QED
  BY <1>1, MacInvariant, PTL

\* An update that has the app reserved finds no recording and no media under way.
THEOREM ReservationIsQuiet == MacSpec => []ReservedWithoutWork
<1>1. MacInv => ReservedWithoutWork
  BY DEF MacInv
<1>2. QED
  BY <1>1, MacInvariant, PTL

-----------------------------------------------------------------------------
(* The types.  They need a little of what MacInv says, and of the queue: a *)
(* piece of work has a record in it once its files were looked at, and a   *)
(* write that is not yet applied belongs to the first piece.               *)

Fates == {"none", "temporary", "kept", "deleted"}
Gates == {"none", "deferred", "scheduled", "installing", "held"}
Written == [record : Records, saved : BOOLEAN, file : BOOLEAN, on : BOOLEAN]

FrameTyped ==
    /\ speechEngine \in {"parakeet", "nemotron"} /\ audio \in [Recordings -> Fates]
    /\ panel \in BOOLEAN /\ pill \in BOOLEAN /\ relaunching \in BOOLEAN
    /\ noticed \in BOOLEAN /\ ended \in BOOLEAN
    /\ gate \in Gates /\ nothing \subseteq Recordings

\* The piece of work p, and a queue of pieces like it.
Piece(p) == p \in Work /\ (p.scan \/ p.todo # {})
Queued(q) == q \in Seq(Work) /\ \A i \in DOMAIN q : q[i].scan \/ q[i].todo # {}

QueueTyped ==
    /\ pending \subseteq Records /\ volatile \subseteq Records
    /\ history \subseteq Records /\ failed \subseteq Records
    /\ Queued(work) /\ written \in Written
    /\ written.on => work # <<>> /\ ~work[1].scan

\* Who a task is for is a recording that was made.
LEMMA MadeIsRecorded ==
    ASSUME Shape, AudioFits
    PROVE  /\ \A s \in 0..made : s # 0 => s \in Recordings
           /\ state = "recording" => active \in Recordings
           /\ task.at \in Claimable \cup Claimed => task.of \in Recordings
           /\ made + 1 \in Nat
<1>1. made \in Nat /\ made <= MaxRecordings /\ MaxRecordings \in Nat
  BY MacAssumption DEF AudioFits
<1>2. \A s \in 0..made : s # 0 => s \in Recordings
  BY <1>1 DEF Recordings
<1>3. task.of \in 0..made /\ active \in 0..made
  BY DEF Shape, Tasks
<1>4. QED
  BY <1>1, <1>2, <1>3 DEF Shape

LEMMA ChangeTyped ==
    ASSUME FrameTyped, NEW st, NEW shown \in BOOLEAN, NEW unsaved, ChangesTo(st, shown, unsaved)
    PROVE  pill' \in BOOLEAN /\ gate' \in Gates
  BY DEF ChangesTo, Resumed, FrameTyped, Gates

LEMMA BackTyped ==
    ASSUME FrameTyped, NEW unsaved, BackToReady(unsaved)
    PROVE  pill' \in BOOLEAN /\ gate' \in Gates
  BY ChangeTyped DEF BackToReady

LEMMA AudioTyped ==
    ASSUME FrameTyped, NEW s, NEW fate \in Fates, Audio(s, fate)
    PROVE  audio' \in [Recordings -> Fates]
  BY DEF FrameTyped, Audio

LEMMA FailsTyped ==
    ASSUME FrameTyped, NEW s, Fails(s)
    PROVE  /\ pill' \in BOOLEAN /\ gate' \in Gates /\ audio' \in [Recordings -> Fates]
           /\ nothing' \subseteq Recordings
<1>1. "kept" \in Fates /\ "deleted" \in Fates
  BY DEF Fates
<1>2. Audio(s, "kept") \/ Audio(s, "deleted")
  BY DEF Fails, RetainFailedAudio
<1>3. BackToReady(volatile) /\ nothing' = nothing
  BY DEF Fails
<1>4. QED
  BY <1>1, <1>2, <1>3, AudioTyped, BackTyped DEF FrameTyped

LEMMA SilentTyped ==
    ASSUME FrameTyped, NEW s \in Recordings, IsSilent(s)
    PROVE  /\ pill' \in BOOLEAN /\ gate' \in Gates /\ audio' \in [Recordings -> Fates]
           /\ nothing' \subseteq Recordings
<1>1. "deleted" \in Fates
  BY DEF Fates
<1>2. Audio(s, "deleted") /\ BackToReady(volatile) /\ nothing' = nothing \cup {s}
  BY DEF IsSilent
<1>3. QED
  BY <1>1, <1>2, AudioTyped, BackTyped DEF FrameTyped

\* The frame, when what an action says of it is typed.
LEMMA NextFrame ==
    ASSUME Shape, AudioFits, FrameTyped, MacNext
    PROVE  FrameTyped'
<1>1. /\ "temporary" \in Fates /\ "deleted" \in Fates /\ "kept" \in Fates
      /\ TRUE \in BOOLEAN /\ FALSE \in BOOLEAN
  BY DEF Fates
<1>2. SUFFICES /\ pill' \in BOOLEAN /\ gate' \in Gates
               /\ audio' \in [Recordings -> Fates] /\ nothing' \subseteq Recordings
               /\ UNCHANGED speechEngine
               /\ panel' \in BOOLEAN /\ relaunching' \in BOOLEAN /\ noticed' \in BOOLEAN
               /\ ended' \in BOOLEAN
  BY DEF FrameTyped
<1> USE DEF macFrame, macGate, macSession
<1>3. CASE Starting
  <2>1. ASSUME LaunchSucceeds PROVE ChangesTo("ready", pill, volatile)
    BY <2>1 DEF LaunchSucceeds
  <2>2. ASSUME StartDictation
        PROVE  ChangesTo("recording", TRUE, volatile) /\ Audio(made + 1, "temporary")
    BY <2>2 DEF StartDictation
  <2>3. ASSUME LaunchSucceeds PROVE pill' \in BOOLEAN /\ gate' \in Gates
    BY <2>1, <2>3, ChangeTyped DEF FrameTyped
  <2>4. ASSUME StartDictation
        PROVE  pill' \in BOOLEAN /\ gate' \in Gates /\ audio' \in [Recordings -> Fates]
    BY <1>1, <2>2, <2>4, ChangeTyped, AudioTyped
  <2>5. QED
    BY <1>3, <2>3, <2>4 DEF Starting, LaunchSucceeds, StartDictation, FrameTyped
<1>4. CASE Aftermath
  <2>1. BackToReady(volatile)
    BY <1>4 DEF Aftermath, DiscardEnds, PasteLastEnds, SettleSketch
  <2>2. UNCHANGED audio \/ Audio(task.of, "deleted")
    BY <1>4 DEF Aftermath, DiscardEnds, PasteLastEnds, SettleSketch
  <2>3. pill' \in BOOLEAN /\ gate' \in Gates /\ audio' \in [Recordings -> Fates]
    BY <1>1, <2>1, <2>2, BackTyped, AudioTyped DEF FrameTyped
  <2>4. QED
    BY <1>4, <2>3 DEF Aftermath, DiscardEnds, PasteLastEnds, SettleSketch, FrameTyped
<1>5. CASE Hearing
  <2>1. task.of \in Recordings
    BY <1>5, MadeIsRecorded DEF Hearing, FinishLive, TryBackup, TranscribeFile, Claimable
  <2>2. \/ Fails(task.of) \/ IsSilent(task.of)
        \/ UNCHANGED <<pill, gate, nothing>> /\ (UNCHANGED audio \/ Audio(task.of, "deleted"))
    BY <1>5 DEF Hearing, FinishLive, TryBackup, TranscribeFile, HasText
  <2>3. /\ pill' \in BOOLEAN /\ gate' \in Gates /\ audio' \in [Recordings -> Fates]
        /\ nothing' \subseteq Recordings
    BY <1>1, <2>1, <2>2, FailsTyped, SilentTyped, AudioTyped DEF FrameTyped
  <2>4. QED
    BY <1>5, <2>3 DEF Hearing, FinishLive, TryBackup, TranscribeFile, FrameTyped
<1>6. CASE Handing
  <2>1. task.of \in Recordings
    BY <1>6, MadeIsRecorded
       DEF Handing, CompleteDictation, DeliverSketch, TranscribeMedia, Claimable, Claimed
  <2>2. (\E unsaved : BackToReady(unsaved)) \/ UNCHANGED <<pill, gate>>
    BY <1>6 DEF Handing, CompleteDictation, DeliverSketch, TranscribeMedia
  <2>3. UNCHANGED audio \/ Audio(task.of, "deleted")
    BY <1>6 DEF Handing, CompleteDictation, DeliverSketch, TranscribeMedia
  <2>4. UNCHANGED nothing \/ nothing' = nothing \cup {task.of}
    BY <1>6 DEF Handing, CompleteDictation, DeliverSketch, TranscribeMedia
  <2>5. /\ pill' \in BOOLEAN /\ gate' \in Gates /\ audio' \in [Recordings -> Fates]
        /\ nothing' \subseteq Recordings
    BY <1>1, <2>1, <2>2, <2>3, <2>4, BackTyped, AudioTyped DEF FrameTyped
  <2>6. QED
    BY <1>6, <2>5 DEF Handing, CompleteDictation, DeliverSketch, TranscribeMedia, FrameTyped
<1>7. CASE Panels
  <2>1. ChangesTo("media", TRUE, volatile) \/ UNCHANGED <<pill, gate>>
    BY <1>7 DEF Panels, OpenPanel, CloseAndBegin, ClosePanel, StartMedia, BeginMediaFile
  <2>2. pill' \in BOOLEAN /\ gate' \in Gates
    BY <1>1, <2>1, ChangeTyped DEF FrameTyped
  <2>3. QED
    BY <1>7, <2>2 DEF Panels, OpenPanel, CloseAndBegin, ClosePanel, StartMedia, BeginMediaFile,
       FrameTyped
<1>8. CASE Writing
  <2>1. (\E unsaved : BackToReady(unsaved)) \/ UNCHANGED <<pill, gate>>
    BY <1>8 DEF Writing, ScanFiles, WriteRecord, ApplyWrite, RetrySave
  <2>2. pill' \in BOOLEAN /\ gate' \in Gates
    BY <2>1, BackTyped DEF FrameTyped
  <2>3. QED
    BY <1>8, <2>2 DEF Writing, ScanFiles, WriteRecord, ApplyWrite, RetrySave, FrameTyped
<1>9. CASE Updating
  <2>1. pill' = pill \/ pill' = TRUE \/ pill' = ~pill
    BY <1>9 DEF Updating, ShowReservationNotice, PillChanges, BeginRelaunch, RelaunchFails,
       WillInstall, RunInstallation, ShouldPostpone, UpdateAborts
  <2>2. gate' \in Gates
    BY <1>9 DEF Updating, ShowReservationNotice, PillChanges, BeginRelaunch, RelaunchFails,
       WillInstall, RunInstallation, ShouldPostpone, UpdateAborts, FrameTyped, Gates, Resumed
  <2>3. pill' \in BOOLEAN
    BY <2>1 DEF FrameTyped
  <2>4. QED
    BY <1>9, <2>2, <2>3 DEF Updating, ShowReservationNotice, PillChanges, BeginRelaunch,
       RelaunchFails, WillInstall, RunInstallation, ShouldPostpone, UpdateAborts, FrameTyped
<1>10. CASE CancelDictation
  <2>1. \/ \E unsaved : BackToReady(unsaved)
        \/ ChangesTo("transcribing", TRUE, volatile)
        \/ UNCHANGED <<pill, gate>>
    BY <1>10 DEF CancelDictation
  <2>2. UNCHANGED audio \/ Audio(active, "deleted")
    BY <1>10 DEF CancelDictation
  <2>3. pill' \in BOOLEAN /\ gate' \in Gates /\ audio' \in [Recordings -> Fates]
    BY <1>1, <2>1, <2>2, BackTyped, ChangeTyped, AudioTyped DEF FrameTyped
  <2>4. QED
    BY <1>10, <2>3 DEF CancelDictation, FrameTyped
<1>11. CASE StopMacRecording
  <2>1. active \in Recordings
    BY <1>11, MadeIsRecorded DEF StopMacRecording
  <2>2. (\E unsaved : BackToReady(unsaved)) \/ ChangesTo("transcribing", TRUE, volatile)
    BY <1>11 DEF StopMacRecording, StopBroken
  <2>3. UNCHANGED audio \/ Audio(active, "deleted") \/ Audio(active, "kept")
    BY <1>11 DEF StopMacRecording, StopBroken
  <2>4. UNCHANGED nothing \/ nothing' = nothing \cup {active}
    BY <1>11 DEF StopMacRecording, StopBroken
  <2>5. /\ pill' \in BOOLEAN /\ gate' \in Gates /\ audio' \in [Recordings -> Fates]
        /\ nothing' \subseteq Recordings
    BY <1>1, <2>1, <2>2, <2>3, <2>4, BackTyped, ChangeTyped, AudioTyped DEF FrameTyped
  <2>6. QED
    BY <1>11, <2>5 DEF StopMacRecording, FrameTyped
<1>12. CASE PasteLast
  <2>1. pill' \in BOOLEAN /\ gate' \in Gates
    BY <1>1, <1>12, ChangeTyped DEF PasteLast
  <2>2. QED
    BY <1>12, <2>1 DEF PasteLast, FrameTyped
<1>13. CASE QuitMac
  BY <1>13 DEF QuitMac, FrameTyped
<1>14. QED
  BY <1>3, <1>4, <1>5, <1>6, <1>7, <1>8, <1>9, <1>10, <1>11, <1>12, <1>13, MacSteps

-----------------------------------------------------------------------------
(* The queue of writes.                                                    *)

\* A set of numbers that has something in it has a least one.
LEMMA Least ==
    ASSUME NEW S, S \subseteq Nat, S # {}
    PROVE  \E x \in S : \A y \in S : x <= y
<1>1. PICK R : R = OpToRel(<, Nat)
  OBVIOUS
<1>2. \A x, y \in Nat : y < x => <<y, x>> \in R
  BY <1>1 DEF OpToRel
<1>3. IsWellFoundedOn(R, Nat)
  BY <1>1, NatLessThanWellFounded
<1>4. PICK x \in S : \A y \in S : ~ (<<y, x>> \in R)
  BY <1>3, WFMin
<1>5. \A y \in S : ~ (y < x) /\ x \in Nat /\ y \in Nat
  BY <1>2, <1>4
<1>6. \A y \in S : x <= y
  BY <1>5
<1>7. QED
  BY <1>4, <1>6

LEMMA QueueGrows ==
    ASSUME NEW q, NEW p, Queued(q), Piece(p)
    PROVE  Queued(Append(q, p)) /\ Append(q, p) # <<>> /\ (q # <<>> => Append(q, p)[1] = q[1])
<1>1. q \in Seq(Work) /\ p \in Work
  BY DEF Queued, Piece
<1>2. /\ Append(q, p) \in Seq(Work) /\ DOMAIN Append(q, p) = 1..Len(q) + 1
      /\ DOMAIN q = 1..Len(q) /\ Len(q) \in Nat
      /\ Append(q, p)[Len(q) + 1] = p /\ \A i \in 1..Len(q) : Append(q, p)[i] = q[i]
  BY <1>1
<1>3. \A i \in DOMAIN Append(q, p) : Append(q, p)[i].scan \/ Append(q, p)[i].todo # {}
  <2> TAKE i \in DOMAIN Append(q, p)
  <2>1. i \in 1..Len(q) \/ i = Len(q) + 1
    BY <1>2
  <2>2. QED
    BY <1>2, <2>1 DEF Queued, Piece
<1>4. Append(q, p) # <<>>
  <2>1. Len(Append(q, p)) = Len(q) + 1 /\ Len(q) \in Nat
    BY <1>1
  <2>2. Len(Append(q, p)) # 0
    BY <2>1
  <2>3. QED
    BY <2>2, EmptySeq
<1>5. q # <<>> => 1 \in 1..Len(q)
  <2>1. q # <<>> => Len(q) # 0
    BY <1>1, EmptySeq
  <2>2. QED
    BY <1>2, <2>1
<1>6. QED
  BY <1>2, <1>3, <1>4, <1>5 DEF Queued

LEMMA QueueGrowsByTwo ==
    ASSUME NEW q, NEW p, NEW r, Queued(q), Piece(p), Piece(r)
    PROVE  /\ Queued(q \o <<p, r>>) /\ q \o <<p, r>> # <<>>
           /\ q # <<>> => (q \o <<p, r>>)[1] = q[1]
<1>1. q \in Seq(Work) /\ p \in Work /\ r \in Work
  BY DEF Queued, Piece
<1> DEFINE a == Append(q, p)
           b == Append(a, r)
<1>2. q \o <<p, r>> = b
  BY <1>1
<1>3. Queued(a) /\ a # <<>> /\ (q # <<>> => a[1] = q[1])
  BY QueueGrows
<1> HIDE DEF a
<1>4. Queued(b) /\ b # <<>> /\ b[1] = a[1]
  BY <1>3, QueueGrows
<1> HIDE DEF b
<1>5. QED
  BY <1>2, <1>3, <1>4

LEMMA QueueShrinks ==
    ASSUME NEW q, Queued(q), q # <<>>
    PROVE  Queued(Tail(q))
<1>1. q \in Seq(Work)
  BY DEF Queued
<1>2. /\ Tail(q) \in Seq(Work) /\ DOMAIN Tail(q) = 1..Len(q) - 1 /\ DOMAIN q = 1..Len(q)
      /\ Len(q) \in Nat /\ \A i \in 1..Len(q) - 1 : Tail(q)[i] = q[i + 1]
  BY <1>1
<1>3. \A i \in DOMAIN Tail(q) : Tail(q)[i] = q[i + 1] /\ i + 1 \in DOMAIN q
  BY <1>2
<1>4. QED
  BY <1>2, <1>3 DEF Queued

LEMMA QueueChanges ==
    ASSUME NEW q, Queued(q), q # <<>>, NEW p, Piece(p)
    PROVE  Queued([q EXCEPT ![1] = p])
<1>1. q \in Seq(Work) /\ p \in Work
  BY DEF Queued, Piece
<1>2. /\ [q EXCEPT ![1] = p] \in Seq(Work)
      /\ DOMAIN [q EXCEPT ![1] = p] = DOMAIN q
      /\ \A i \in DOMAIN q : [q EXCEPT ![1] = p][i] = IF i = 1 THEN p ELSE q[i]
  BY <1>1
<1>3. QED
  BY <1>2 DEF Queued, Piece

\* The disk and what is known of it, but for the work.
LEMMA RestTyped ==
    ASSUME QueueTyped, pending' \subseteq Records, volatile' \subseteq Records,
           UNCHANGED macDisk, Queued(work'), work' # <<>>,
           work # <<>> => work'[1] = work[1]
    PROVE  QueueTyped'
  BY DEF QueueTyped, macDisk

LEMMA RecoveryIsPiece ==
    ASSUME pending \subseteq Records
    PROVE  Piece(Recovery)
  BY DEF Piece, Work, Recovery, Records

LEMMA SavingIsPiece ==
    ASSUME NEW r \in Records
    PROVE  Piece(Saving(r))
  BY DEF Piece, Work, Saving

LEMMA EnqueueTyped ==
    ASSUME QueueTyped, NEW r \in Records, Enqueue(r), UNCHANGED macDisk
    PROVE  QueueTyped'
<1>1. Piece(Recovery) /\ Piece(Saving(r)) /\ Queued(work)
  BY RecoveryIsPiece, SavingIsPiece DEF QueueTyped
<1>2. work' = work \o <<Recovery, Saving(r)>>
  BY DEF Enqueue
<1>3. Queued(work') /\ work' # <<>> /\ (work # <<>> => work'[1] = work[1])
  BY <1>1, <1>2, QueueGrowsByTwo
<1>4. pending' \subseteq Records /\ volatile' \subseteq Records
  BY DEF Enqueue, QueueTyped
<1>5. QED
  BY <1>3, <1>4, RestTyped

LEMMA RecoverTyped ==
    ASSUME QueueTyped, work' = Append(work, Recovery), UNCHANGED <<pending, volatile, macDisk>>
    PROVE  QueueTyped'
<1>1. Piece(Recovery) /\ Queued(work)
  BY RecoveryIsPiece DEF QueueTyped
<1>2. Queued(work') /\ work' # <<>> /\ (work # <<>> => work'[1] = work[1])
  BY <1>1, QueueGrows
<1>3. pending' \subseteq Records /\ volatile' \subseteq Records
  BY DEF QueueTyped
<1>4. QED
  BY <1>2, <1>3, RestTyped

LEMMA ScanTyped ==
    ASSUME QueueTyped, ScanFiles
    PROVE  QueueTyped'
<1> DEFINE owed == work[1].todo \cup failed
<1>1. work # <<>> /\ work[1].scan /\ Queued(work)
  BY DEF ScanFiles, QueueTyped
<1>2. work \in Seq(Work) /\ Len(work) # 0
  BY <1>1, EmptySeq DEF Queued
<1>3. work[1] \in Work
  BY <1>2
<1>4. owed \subseteq Records /\ failed \subseteq Records
  BY <1>3 DEF Work, QueueTyped
<1> DEFINE piece == [work[1] EXCEPT !.scan = FALSE, !.todo = owed, !.files = failed]
<1>5. owed # {} => Piece(piece)
  BY <1>3, <1>4 DEF Piece, Work
<1>6. owed # {} => work' = [work EXCEPT ![1] = piece]
  BY <1>2, <1>3 DEF ScanFiles, Work
<1>7. owed = {} => work' = Tail(work)
  BY DEF ScanFiles
<1> HIDE DEF piece, owed
<1>8. Queued(work')
  <2>1. ASSUME Piece(piece) PROVE Queued([work EXCEPT ![1] = piece])
    BY <1>1, <2>1, QueueChanges
  <2>2. Queued(Tail(work))
    BY <1>1, QueueShrinks
  <2>3. QED
    BY <1>5, <1>6, <1>7, <2>1, <2>2
<1>9. /\ pending' \subseteq Records /\ volatile' \subseteq Records
      /\ UNCHANGED macDisk
  BY DEF ScanFiles, QueueTyped
<1>10. ~written'.on
  BY <1>1, <1>9 DEF QueueTyped, macDisk
<1>11. QED
  BY <1>8, <1>9, <1>10 DEF QueueTyped, macDisk

LEMMA WriteTyped ==
    ASSUME QueueTyped, WriteRecord
    PROVE  QueueTyped'
<1>1. work # <<>> /\ ~work[1].scan /\ Queued(work)
  BY DEF WriteRecord, QueueTyped
<1>2. work \in Seq(Work) /\ Len(work) # 0
  BY <1>1, EmptySeq DEF Queued
<1>3. work[1] \in Work /\ 1 \in DOMAIN work
  BY <1>2
<1>4. work[1].todo # {} /\ work[1].todo \subseteq Records
  BY <1>1, <1>3 DEF Queued, Work
<1>5. work[1].todo \subseteq Nat
  BY <1>4 DEF Records, Recordings, Left
<1> DEFINE r == CHOOSE x \in work[1].todo : \A y \in work[1].todo : x <= y
<1>6. r \in Records
  BY <1>4, <1>5, Least
<1>7. PICK preserved, appended, removed \in BOOLEAN :
        /\ history' = IF appended THEN history \cup {r} ELSE history
        /\ failed' = IF removed THEN failed \ {r}
                     ELSE IF preserved THEN failed \cup {r} ELSE failed
        /\ written' = [record |-> r, saved |-> appended, file |-> preserved /\ ~removed,
                       on |-> TRUE]
  BY Zenon DEF WriteRecord
<1> HIDE DEF r
<1>8. history' \subseteq Records /\ failed' \subseteq Records
  BY <1>6, <1>7 DEF QueueTyped
<1>9. written' \in Written
  BY <1>6, <1>7 DEF Written
<1>10. UNCHANGED macQueue
  BY DEF WriteRecord
<1>11. QED
  BY <1>1, <1>8, <1>9, <1>10 DEF QueueTyped, macQueue

LEMMA ApplyTyped ==
    ASSUME QueueTyped, ApplyWrite
    PROVE  QueueTyped'
<1> DEFINE r == written.record
           rest == work[1].todo \ {r}
           piece == [work[1] EXCEPT !.todo = rest]
<1>1. work # <<>> /\ ~work[1].scan /\ Queued(work) /\ r \in Records
  BY DEF ApplyWrite, QueueTyped, Written
<1>2. work \in Seq(Work) /\ Len(work) # 0
  BY <1>1, EmptySeq DEF Queued
<1>3. work[1] \in Work /\ 1 \in DOMAIN work
  BY <1>2
<1>4. work[1].todo # {} /\ work[1].todo \subseteq Records
  BY <1>1, <1>3 DEF Queued, Work
<1>5. work[1].todo # {r} => Piece(piece)
  BY <1>1, <1>3, <1>4 DEF Piece, Work
<1>6. work[1].todo # {r} => work' = [work EXCEPT ![1] = piece]
  BY <1>2, <1>3 DEF ApplyWrite, Work
<1>7. work[1].todo = {r} => work' = Tail(work)
  BY DEF ApplyWrite
<1>8. /\ pending' = IF written.saved THEN pending \ {r} ELSE pending
      /\ volatile' = IF written.saved \/ written.file THEN volatile \ {r} ELSE volatile \cup {r}
  BY DEF ApplyWrite
<1> HIDE DEF piece, rest, r
<1>9. Queued(work')
  <2>1. ASSUME Piece(piece) PROVE Queued([work EXCEPT ![1] = piece])
    BY <1>1, <2>1, QueueChanges
  <2>2. Queued(Tail(work))
    BY <1>1, QueueShrinks
  <2>3. QED
    BY <1>5, <1>6, <1>7, <2>1, <2>2
<1>10. pending' \subseteq Records /\ volatile' \subseteq Records
  BY <1>1, <1>8 DEF QueueTyped
<1>11. UNCHANGED <<history, failed>> /\ written' = NoWrite
  BY DEF ApplyWrite
<1>12. NoWrite \in Written /\ ~NoWrite.on
  BY DEF NoWrite, Written, Records
<1>13. QED
  BY <1>9, <1>10, <1>11, <1>12 DEF QueueTyped

LEMMA NextQueue ==
    ASSUME Shape, AudioFits, QueueTyped, MacNext
    PROVE  QueueTyped'
<1> USE DEF macQueue, macDisk
<1>1. ASSUME UNCHANGED <<macQueue, macDisk>> PROVE QueueTyped'
  BY <1>1 DEF QueueTyped
<1>2. \A s \in Recordings : s \in Records
  BY DEF Records
<1>3. CASE Starting
  BY <1>1, <1>3, RecoverTyped DEF Starting, LaunchSucceeds, StartDictation
<1>4. CASE Writing
  BY <1>4, ScanTyped, WriteTyped, ApplyTyped, RecoverTyped
     DEF Writing, RetrySave, RecoverInBackground
<1>5. CASE Handing
  <2>1. task.of \in Records
    BY <1>2, <1>5, MadeIsRecorded
       DEF Handing, CompleteDictation, DeliverSketch, TranscribeMedia, Claimable, Claimed
  <2>2. UNCHANGED macDisk /\ (UNCHANGED macQueue \/ Enqueue(task.of))
    BY <1>5 DEF Handing, CompleteDictation, DeliverSketch, TranscribeMedia
  <2>3. QED
    BY <1>1, <2>1, <2>2, EnqueueTyped
<1>6. CASE QuitMac
  <2>1. UNCHANGED macDisk /\ (UNCHANGED macQueue \/ RecoverInBackground)
    BY <1>6 DEF QuitMac
  <2>2. QED
    BY <1>1, <2>1, RecoverTyped DEF RecoverInBackground
<1>7. CASE Updating
  BY <1>1, <1>7 DEF Updating, ShowReservationNotice, PillChanges, BeginRelaunch, RelaunchFails,
     WillInstall, RunInstallation, ShouldPostpone, UpdateAborts
<1>8. CASE Aftermath \/ Hearing
  BY <1>1, <1>8 DEF Aftermath, DiscardEnds, PasteLastEnds, SettleSketch, Hearing, FinishLive,
     TryBackup, TranscribeFile
<1>9. CASE Panels \/ CancelDictation \/ StopMacRecording \/ PasteLast
  BY <1>1, <1>9 DEF Panels, OpenPanel, CloseAndBegin, ClosePanel, StartMedia, BeginMediaFile,
     CancelDictation, StopMacRecording, PasteLast
<1>10. QED
  BY <1>3, <1>4, <1>5, <1>6, <1>7, <1>8, <1>9, MacSteps

-----------------------------------------------------------------------------
(* The types, from launch on.                                              *)

MacTyped == MacInv /\ FrameTyped /\ QueueTyped

LEMMA MacStarts == MacInit => MacTyped
<1> SUFFICES ASSUME MacInit PROVE MacTyped
  OBVIOUS
<1>1. FrameTyped
  BY DEF MacInit, FrameTyped, Fates, Gates
<1>2. <<>> \in Seq(Work) /\ Len(<<>>) = 0
  BY EmptySeq
<1>3. Queued(<<>>)
  BY <1>2 DEF Queued
<1>4. NoWrite \in Written /\ ~NoWrite.on
  BY DEF NoWrite, Written, Records
<1>5. QueueTyped
  BY <1>3, <1>4 DEF MacInit, QueueTyped, Records
<1>6. QED
  BY <1>1, <1>5, MacInitial DEF MacTyped

LEMMA MacSteady == MacTyped /\ [MacNext]_macVars => MacTyped'
<1> SUFFICES ASSUME MacTyped, [MacNext]_macVars PROVE MacTyped'
  OBVIOUS
<1>1. MacInv'
  BY NextMac DEF MacTyped
<1>2. FrameTyped' /\ QueueTyped'
  <2>1. CASE MacNext
    BY <2>1, NextFrame, NextQueue DEF MacTyped, MacInv
  <2>2. CASE UNCHANGED macVars
    BY <2>2 DEF macVars, macSession, macGate, macQueue, macDisk, macFrame, MacTyped,
       FrameTyped, QueueTyped
  <2>3. QED
    BY <2>1, <2>2
<1>3. QED
  BY <1>1, <1>2 DEF MacTyped

LEMMA MacTypes == MacTyped => MacTypeOK
<1> SUFFICES ASSUME MacTyped PROVE MacTypeOK
  OBVIOUS
<1>1. made \in Nat /\ made <= MaxRecordings /\ MaxRecordings \in Nat
  BY MacAssumption DEF MacTyped, MacInv, AudioFits
<1>2. 1..made \subseteq Recordings /\ made \in 0..MaxRecordings
  BY <1>1 DEF Recordings
<1>3. enqueued \subseteq Records /\ revoked \subseteq Recordings
  BY <1>2 DEF MacTyped, MacInv, ClaimsHold, Records
<1>4. /\ state \in {"loading", "ready", "recording", "transcribing", "media"}
      /\ active \in 0..made
      /\ task.at \in {"none", "hear", "live", "backup", "finish", "draw", "settle", "discard",
                      "repaste", "fetch", "saving"}
      /\ task.of \in 0..made /\ task.broken \in BOOLEAN /\ task.short \in BOOLEAN
      /\ (task = NoTask) = (state \in {"loading", "ready", "recording"})
  BY DEF MacTyped, MacInv, Shape, Tasks, NoTask, Claimable, Claimed, Aside, Resting
<1>5. work \in Seq(Work)
  BY DEF MacTyped, QueueTyped, Queued
<1>6. QED
  BY <1>2, <1>3, <1>4, <1>5
     DEF MacTypeOK, MacTyped, FrameTyped, QueueTyped, Fates, Gates, Written

-----------------------------------------------------------------------------
(* The four machines.                                                      *)

\* The invariants of the machines, of which TLC runs one at a time.
PartsHold == ClipInv /\ SetupInv /\ PlayersInv /\ MacTyped

\* Whichever machine runs, all keep to their types: the clipboard (linux/clipboard.rs), the
\* models (parakeet_cpp_cache.rs), the players (linux/media.rs) and the Mac app
\* (KoettController.swift).
THEOREM PartTypes == PartSpec => []PartTypeOK
<1>1. PartInit => PartsHold
  BY ClipInitInv, SetupInitial, PlayersInvInit, MacStarts DEF PartInit, PartsHold
<1>2. PartsHold /\ [PartNext]_partVars => PartsHold'
  <2> SUFFICES ASSUME PartsHold, [PartNext]_partVars PROVE PartsHold'
    OBVIOUS
  <2>1. /\ [ClipNext]_clipVars /\ [SetupNext]_setupVars
        /\ [PlayersNext]_playersVars /\ [MacNext]_macVars
    BY DEF PartNext, partVars
  <2>2. ClipInv' /\ SetupInv' /\ PlayersInv' /\ MacTyped'
    BY <2>1, ClipStep, NextSetup, PlayersInvStep, MacSteady DEF PartsHold
  <2>3. QED
    BY <2>2 DEF PartsHold
<1>3. PartsHold => PartTypeOK
  BY MacTypes DEF PartsHold, PartTypeOK, ClipInv, SetupInv, PlayersInv
<1>4. QED
  BY <1>1, <1>2, <1>3, PTL DEF PartSpec
=============================================================================
