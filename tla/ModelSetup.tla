----------------------------- MODULE ModelSetup -----------------------------
(***************************************************************************)
(* How a speech model gets on disk and into the engine (model.rs,          *)
(* model/manifest.rs, and the parts of runtime.rs that call them).         *)
(*                                                                         *)
(* Several processes set models up in the same place without a lock: the   *)
(* engine of the app, the self-test, the transcribe command.  They meet    *)
(* only in renames of whole directories: an invalid model is moved aside   *)
(* and looked at again, a complete one is moved in.  A directory is        *)
(* "none", "bad" (a file is missing or wrong), "plain" (valid, without a   *)
(* verification stamp) or "stamped".                                       *)
(*                                                                         *)
(* The engine's setup can be cancelled: by the Cancel button and by the    *)
(* shutdown, which share one flag, SWITCH_CANCELLED.                       *)
(***************************************************************************)
EXTENDS Naturals

CONSTANTS
    Tools,      \* the processes other than the app that set models up
    ToolModels, \* the models they set up
    MaxLooks,   \* 10 in the code: looks at a model that changes all the time
    MaxMishaps  \* bound: damaged models, failed renames, processes that die

ASSUME SetupAssumption == "app" \notin Tools /\ MaxLooks \in Nat \ {0} /\ MaxMishaps \in Nat

Model == {"compact", "v2", "nemotron"}

ASSUME ToolsSetUpModels == ToolModels \subseteq Model

VARIABLES
    cache,          \* the directory of each model
    jobs,           \* what each process is doing
    engine,         \* the engine thread
    selected,       \* the model in the settings
    switchCancelled,\* SWITCH_CANCELLED
    shutdown,       \* the engine's own flag (cancelled)
    quitting,       \* how far EngineHandle::stop has got
    had,            \* history: models that were valid and that only Koett touched since
    mishaps         \* bound: mishaps so far

switchVars == <<engine, selected, shutdown>>
setupVars == <<cache, jobs, switchVars, switchCancelled, quitting, had, mishaps>>

Directory == {"none", "bad", "plain", "stamped"}
Valid(directory) == directory \in {"plain", "stamped"}
Process == Tools \cup {"app"}
Working == {"begin", "look", "aside", "judge", "restore", "fetch", "promote"}
Job == [at : {"idle", "ok", "failed"} \cup Working, model : Model,
        looks : 0..MaxLooks, complete : BOOLEAN, moved : Directory]

SetupTypeOK ==
    /\ cache \in [Model -> Directory] /\ jobs \in [Process -> Job]
    /\ engine \in {"off", "start", "start_backup", "fallback", "ready", "begin",
                   "cleared", "switch", "switch_backup", "failed", "stopped"}
    /\ selected \in Model
    /\ switchCancelled \in BOOLEAN /\ shutdown \in BOOLEAN
    /\ quitting \in {"no", "flagged", "sent"}
    /\ had \subseteq Model /\ mishaps \in 0..MaxMishaps

NewJob(m) == [at |-> "begin", model |-> m, looks |-> 0, complete |-> FALSE, moved |-> "none"]
NoJob == [NewJob("compact") EXCEPT !.at = "idle"]

SetupInit ==
    /\ cache \in [Model -> {"bad", "plain"}]
    /\ jobs = [p \in Process |-> NoJob]
    /\ engine = "off" /\ selected \in Model
    /\ switchCancelled = FALSE /\ shutdown = FALSE /\ quitting = "no"
    /\ had = {m \in Model : Valid(cache[m])} /\ mishaps = 0

Mishap == mishaps < MaxMishaps /\ mishaps' = mishaps + 1

-----------------------------------------------------------------------------
(* ensure_model, for each process.                                         *)

\* Only the engine's setup has a flag that somebody sets.
Cancelled(p) == p = "app" /\ switchCancelled

At(p, here) == jobs[p].at = here
Becomes(p, new) == jobs' = [jobs EXCEPT ![p] = new]
GoesTo(p, to) == Becomes(p, [jobs[p] EXCEPT !.at = to, !.moved = "none"])
JobEnds(p, how) == Becomes(p, [NoJob EXCEPT !.at = how, !.model = jobs[p].model])
Here(p) == cache[jobs[p].model]
Put(p, directory) == cache' = [cache EXCEPT ![jobs[p].model] = directory]

\* After an invalid model has been moved away, or there was none: the download,
\* or the promotion of what was downloaded.
Onwards(p) == IF jobs[p].complete THEN "promote" ELSE "fetch"

Begin(p) ==
    /\ At(p, "begin")
    /\ IF Cancelled(p) THEN JobEnds(p, "failed") ELSE GoesTo(p, "look")
    /\ UNCHANGED <<cache, switchVars, switchCancelled, quitting, had, mishaps>>

\* validate_cached_model of the destination, in prepare_destination.
Look(p) ==
    /\ At(p, "look")
    /\ \/ /\ jobs[p].looks = MaxLooks /\ JobEnds(p, "failed") /\ UNCHANGED cache
       \/ /\ jobs[p].looks < MaxLooks /\ Here(p) = "stamped"
          /\ JobEnds(p, "ok") /\ UNCHANGED cache
       \/ /\ jobs[p].looks < MaxLooks /\ Here(p) # "stamped" /\ Cancelled(p)
          /\ JobEnds(p, "failed") /\ UNCHANGED cache
       \/ /\ jobs[p].looks < MaxLooks /\ ~Cancelled(p) /\ Here(p) = "plain"
          /\ JobEnds(p, "ok") /\ cache' \in {cache, [cache EXCEPT ![jobs[p].model] = "stamped"]}
       \/ /\ jobs[p].looks < MaxLooks /\ ~Cancelled(p) /\ Here(p) = "none"
          /\ GoesTo(p, Onwards(p)) /\ UNCHANGED cache
       \/ /\ jobs[p].looks < MaxLooks /\ ~Cancelled(p) /\ Here(p) = "bad"
          /\ Becomes(p, [jobs[p] EXCEPT !.at = "aside", !.looks = @ + 1]) /\ UNCHANGED cache
    /\ UNCHANGED <<switchVars, switchCancelled, quitting, had, mishaps>>

\* quarantine_model_directory: whatever is there by now.
MoveAside(p) ==
    /\ At(p, "aside")
    /\ IF Here(p) = "none" THEN GoesTo(p, "look") /\ UNCHANGED cache
       ELSE /\ Becomes(p, [jobs[p] EXCEPT !.at = "judge", !.moved = Here(p)])
            /\ Put(p, "none")
    /\ UNCHANGED <<switchVars, switchCancelled, quitting, had, mishaps>>

\* Mutant: what was moved aside is taken to be invalid.
JudgeWithoutLooking(p) ==
    /\ At(p, "judge") /\ GoesTo(p, Onwards(p))
    /\ UNCHANGED <<cache, switchVars, switchCancelled, quitting, had, mishaps>>

\* The model that was moved aside is validated again: another process may have
\* put a valid one there in the meantime.
Judge(p) ==
    /\ At(p, "judge")
    /\ IF jobs[p].moved = "stamped" \/ (jobs[p].moved = "plain" /\ ~Cancelled(p))
       THEN Becomes(p, [jobs[p] EXCEPT !.at = "restore"])
       ELSE GoesTo(p, Onwards(p))
    /\ UNCHANGED <<cache, switchVars, switchCancelled, quitting, had, mishaps>>

\* It is put back, unless there is another one by now.  Then everything is looked
\* at again.
PutBack(p) ==
    /\ At(p, "restore")
    /\ \/ /\ Here(p) = "none" /\ Put(p, jobs[p].moved) /\ GoesTo(p, "look")
          /\ UNCHANGED <<had, mishaps>>
       \/ /\ Here(p) # "none" /\ GoesTo(p, "look") /\ UNCHANGED <<cache, had, mishaps>>
       \/ /\ Here(p) = "none" /\ Mishap /\ JobEnds(p, "failed")
          /\ had' = had \ {jobs[p].model} /\ UNCHANGED cache
    /\ UNCHANGED <<switchVars, switchCancelled, quitting>>

\* Both downloads, into a directory of this process, unpacked, verified and
\* stamped.  It may fail anywhere, and does once it is cancelled.
Fetch(p) ==
    /\ At(p, "fetch")
    /\ \/ ~Cancelled(p) /\ Becomes(p, [jobs[p] EXCEPT !.at = "look", !.looks = 0,
                                                     !.complete = TRUE])
       \/ JobEnds(p, "failed")
    /\ UNCHANGED <<cache, switchVars, switchCancelled, quitting, had, mishaps>>

\* The rename into place.  If somebody was faster, theirs will do if it is valid.
Promote(p) ==
    /\ At(p, "promote")
    /\ \/ /\ Here(p) = "none" /\ Put(p, "stamped") /\ JobEnds(p, "ok")
          /\ had' = had \cup {jobs[p].model}
       \/ /\ Here(p) = "stamped" \/ (Here(p) = "plain" /\ ~Cancelled(p))
          /\ JobEnds(p, "ok") /\ UNCHANGED <<cache, had>>
       \/ /\ Here(p) = "bad" \/ (Here(p) = "plain" /\ Cancelled(p))
          /\ JobEnds(p, "failed") /\ UNCHANGED <<cache, had>>
    /\ UNCHANGED <<switchVars, switchCancelled, quitting, mishaps>>

SetsUp(p) ==
    Begin(p) \/ Look(p) \/ MoveAside(p) \/ Judge(p) \/ PutBack(p) \/ Fetch(p) \/ Promote(p)

\* A tool starts, ends, or is killed.
ToolStarts(p, m) ==
    /\ p \in Tools /\ At(p, "idle") /\ Becomes(p, NewJob(m))
    /\ UNCHANGED <<cache, switchVars, switchCancelled, quitting, had, mishaps>>

ToolEnds(p) ==
    /\ p \in Tools /\ jobs[p].at \in {"ok", "failed"} /\ Becomes(p, NoJob)
    /\ UNCHANGED <<cache, switchVars, switchCancelled, quitting, had, mishaps>>

Holding(p) == IF jobs[p].at \in {"judge", "restore"} THEN {jobs[p].model} ELSE {}

Killed(p) ==
    /\ p \in Tools /\ jobs[p].at \in Working /\ Mishap /\ Becomes(p, NoJob)
    /\ had' = had \ Holding(p)
    /\ UNCHANGED <<cache, switchVars, switchCancelled, quitting>>

\* A disk error, or somebody who deletes files.
Damage(m) ==
    /\ Valid(cache[m]) /\ Mishap /\ had' = had \ {m}
    /\ cache' \in {[cache EXCEPT ![m] = to] : to \in {"none", "bad"}}
    /\ UNCHANGED <<jobs, switchVars, switchCancelled, quitting>>

-----------------------------------------------------------------------------
(* The engine thread (runtime.rs: run, prepare_engine, load_worker).       *)

\* start_source.
EngineStarts ==
    /\ engine = "off" /\ engine' = "start" /\ switchCancelled' = FALSE
    /\ Becomes("app", NewJob(selected))
    /\ UNCHANGED <<cache, selected, shutdown, quitting, had, mishaps>>

AppOK == At("app", "ok")
AppFailed == At("app", "failed")
TheModel == IF engine \in {"start_backup", "switch_backup"} THEN "nemotron" ELSE jobs["app"].model

\* Nemotron needs Parakeet v2 as well.
NeedsBackup == engine \in {"start", "switch"} /\ jobs["app"].model = "nemotron"

SetUpBackup ==
    /\ AppOK /\ NeedsBackup /\ Valid(cache["nemotron"])
    /\ engine' = IF engine = "start" THEN "start_backup" ELSE "switch_backup"
    /\ Becomes("app", NewJob("v2"))
    /\ UNCHANGED <<cache, selected, shutdown, switchCancelled, quitting, had, mishaps>>

\* The recognizer loads what is there now.
Loads == AppOK /\ ~NeedsBackup /\ Valid(cache[jobs["app"].model])
CannotLoad == AppFailed \/ (AppOK /\ ~Valid(cache[jobs["app"].model]))

\* Startup ends: the engine is ready, unless it was told to stop.
StartedUp ==
    /\ engine \in {"start", "start_backup", "fallback"} /\ Loads
    /\ Becomes("app", NoJob)
    /\ engine' = IF shutdown THEN "stopped" ELSE "ready"
    /\ UNCHANGED <<cache, selected, shutdown, switchCancelled, quitting, had, mishaps>>

\* Without the selected model, Compact is tried; without Compact the thread ends.
FallBack ==
    /\ engine \in {"start", "start_backup"} /\ CannotLoad /\ selected # "compact"
    /\ engine' = "fallback" /\ Becomes("app", NewJob("compact"))
    /\ UNCHANGED <<cache, selected, shutdown, switchCancelled, quitting, had, mishaps>>

GiveUpOnModels ==
    /\ \/ engine = "fallback"
       \/ (engine = "start" /\ selected = "compact")
    /\ CannotLoad /\ engine' = "failed" /\ Becomes("app", NoJob)
    /\ UNCHANGED <<cache, selected, shutdown, switchCancelled, quitting, had, mishaps>>

\* SwitchModel: begin_model_switch looks at the shutdown, clears the flag, and
\* looks again.
Switch(m) ==
    /\ engine = "ready" /\ m # selected
    /\ engine' = IF shutdown THEN "stopped" ELSE "begin"
    /\ jobs' = [jobs EXCEPT !["app"] = [NoJob EXCEPT !.model = m]]
    /\ UNCHANGED <<cache, selected, shutdown, switchCancelled, quitting, had, mishaps>>

ClearCancelled ==
    /\ engine = "begin" /\ engine' = "cleared" /\ switchCancelled' = FALSE
    /\ UNCHANGED <<cache, jobs, selected, shutdown, quitting, had, mishaps>>

\* Mutant: the shutdown is looked at once.
BeginModelSwitchOnce ==
    /\ engine = "cleared" /\ engine' = "switch" /\ Becomes("app", NewJob(jobs["app"].model))
    /\ UNCHANGED <<cache, selected, shutdown, switchCancelled, quitting, had, mishaps>>

BeginModelSwitch ==
    /\ engine = "cleared"
    /\ IF shutdown
       THEN engine' = "stopped" /\ switchCancelled' = TRUE /\ UNCHANGED jobs
       ELSE /\ engine' = "switch" /\ Becomes("app", NewJob(jobs["app"].model))
            /\ UNCHANGED switchCancelled
    /\ UNCHANGED <<cache, selected, shutdown, quitting, had, mishaps>>

\* The new model replaces the old one once it is loaded and saved in the settings;
\* a late cancel, or settings that cannot be saved, leave the old one.
Switched ==
    /\ engine \in {"switch", "switch_backup"} /\ Loads
    /\ engine' = "ready" /\ Becomes("app", NoJob)
    /\ \/ ~switchCancelled /\ selected' = TheModel
       \/ UNCHANGED selected
    /\ UNCHANGED <<cache, shutdown, switchCancelled, quitting, had, mishaps>>

NotSwitched ==
    /\ engine \in {"switch", "switch_backup"} /\ CannotLoad
    /\ engine' = "ready" /\ Becomes("app", NoJob)
    /\ UNCHANGED <<cache, selected, shutdown, switchCancelled, quitting, had, mishaps>>

\* The Cancel button is there while a model is set up.
CancelSetup ==
    /\ engine \notin {"off", "ready", "failed", "stopped"} /\ ~switchCancelled
    /\ switchCancelled' = TRUE
    /\ UNCHANGED <<cache, jobs, switchVars, quitting, had, mishaps>>

\* EngineHandle::stop: the two flags, and then the command.
FlagShutdown ==
    /\ engine # "off" /\ quitting = "no" /\ quitting' = "flagged" /\ shutdown' = TRUE
    /\ UNCHANGED <<cache, jobs, engine, selected, switchCancelled, had, mishaps>>

SendQuit ==
    /\ quitting = "flagged" /\ quitting' = "sent" /\ switchCancelled' = TRUE
    /\ UNCHANGED <<cache, jobs, switchVars, had, mishaps>>

TakeQuit ==
    /\ engine = "ready" /\ quitting = "sent" /\ engine' = "stopped"
    /\ UNCHANGED <<cache, jobs, selected, shutdown, switchCancelled, quitting, had, mishaps>>

EngineSteps ==
    \/ EngineStarts \/ SetUpBackup \/ StartedUp \/ FallBack \/ GiveUpOnModels
    \/ ClearCancelled \/ BeginModelSwitch \/ Switched \/ NotSwitched \/ TakeQuit

SetupNext ==
    \/ \E p \in Process : SetsUp(p) \/ Killed(p) \/ ToolEnds(p)
                          \/ \E m \in ToolModels : ToolStarts(p, m)
    \/ \E m \in Model : Damage(m) \/ Switch(m)
    \/ EngineSteps \/ CancelSetup \/ FlagShutdown \/ SendQuit

SetupSpec == SetupInit /\ [][SetupNext]_setupVars

-----------------------------------------------------------------------------
(* What must hold.                                                         *)

\* Processes that set the same model up at once never leave it worse than they
\* found it: a valid model that nobody else touched is in place, or in the hands
\* of a process that is about to put it back (prepare_destination).
ValidModelSurvives ==
    \A m \in had :
        \/ Valid(cache[m])
        \/ \E p \in Process : m \in Holding(p) /\ Valid(jobs[p].moved)

\* Once the shutdown has been sent to the engine, no setup goes on that does not
\* know: a switch that begins at that moment must not clear the flag for good
\* (begin_model_switch).
QuitCutsSetupShort ==
    quitting = "sent" /\ jobs["app"].at \in Working => switchCancelled

-----------------------------------------------------------------------------
(* A statement of the code that it does not keep.                          *)

\* runtime.rs:233: "Selected model failed: ... Falling back to Parakeet 110M.": the
\* engine never ends for want of a model with a valid Parakeet 110M on disk, when
\* nothing has gone wrong but the selected model.
FallbackWorks ==
    engine = "failed" /\ selected # "compact" /\ mishaps = 0 /\ quitting = "no"
        => ~Valid(cache["compact"])
=============================================================================
