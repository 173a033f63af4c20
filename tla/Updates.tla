------------------------------ MODULE Updates ------------------------------
(***************************************************************************)
(* How Koett replaces itself (linux/updates.rs, linux/updates/watch.rs,    *)
(* packaging/linux/install.py): the update thread of the running app, the  *)
(* installer, and the watcher, a process of the old version that starts    *)
(* the new one and goes back if it does not come up.                       *)
(*                                                                         *)
(* What survives them is on disk: the versions, the launcher, a link to    *)
(* one of them, and the state file.  A build is its version and its number.*)
(* A build that does not work crashes or hangs at startup, or dies within  *)
(* the five seconds the watcher looks on (STAY_UP).                        *)
(*                                                                         *)
(* The names begin with the module's, so that one instance can check it    *)
(* along with other components.                                            *)
(***************************************************************************)
EXTENDS Naturals, Sequences, FiniteSets

CONSTANTS
    MaxBuild,       \* bound: builds released
    MaxIncidents    \* bound: crashes, power losses, failed writes, starts by hand

ASSUME UpdatesAssumption == MaxBuild \in Nat \ {0} /\ MaxIncidents \in Nat

VARIABLES
    works,      \* the builds that come up
    feed,       \* the build the feed offers
    onDisk,     \* the versions installed
    launcher,   \* the version bin/koett points at
    file,       \* the state file
    app,        \* the build that runs, 0 when none does
    phase,      \* whether it has come up
    updater,    \* where its update thread is
    offer,      \* the download that is ready, 0 without one
    goingBack,  \* a rollback waits for a restart
    asked,      \* a rollback command waits for the update thread
    before,     \* the state file as it was before the install
    managed,    \* the list of versions the install adds to
    installer,  \* install.py
    watchers,   \* the watchers, and the command line when it goes back offline
    stuck,      \* history: the launcher could not be moved back
    incidents   \* bound: incidents so far

diskVars == <<onDisk, launcher, file, stuck>>
threadVars == <<updater, offer, goingBack, before, managed>>
updatesVars == <<works, feed, diskVars, app, phase, threadVars, asked, installer,
                 watchers, incidents>>

Build == 1..MaxBuild
NoBuild == 0
File == [previous : {NoBuild} \cup Build, skip : {NoBuild} \cup Build,
         managed : Seq(Build), failed : BOOLEAN]
FirstFile == [previous |-> NoBuild, skip |-> NoBuild, managed |-> <<>>, failed |-> FALSE]

Watcher == [at : {"old", "launch", "check", "kill", "skip", "again"},
            from : Build, build : {NoBuild} \cup Build,
            parentGone : BOOLEAN, childRuns : BOOLEAN]

\* Every variable has the values its counterpart has in the code.
UpdatesTypeOK ==
    /\ works \subseteq Build /\ feed \in Build /\ onDisk \subseteq Build
    /\ launcher \in Build /\ file \in File
    /\ app \in {NoBuild} \cup Build /\ phase \in {"off", "starting", "up"}
    /\ (app = NoBuild) <=> (phase = "off")
    /\ updater \in {"tick", "save", "install", "manage", "relaunch", "wait", "undo",
                    "restore", "back", "point_back", "relaunch_back", "wait_back"}
    /\ offer \in {NoBuild} \cup Build /\ goingBack \in BOOLEAN /\ asked \in BOOLEAN
    /\ before \in File /\ managed \in Seq(Build)
    /\ installer \in [build : {NoBuild} \cup Build, at : {"none", "copy", "move", "done"}]
    /\ watchers \subseteq Watcher /\ stuck \in BOOLEAN /\ incidents \in 0..MaxIncidents

NoInstaller == [build |-> NoBuild, at |-> "none"]

\* The first build is installed by hand and runs.
UpdatesInit ==
    /\ works \in {good \in SUBSET Build : 1 \in good}
    /\ feed = 1 /\ onDisk = {1} /\ launcher = 1 /\ file = FirstFile
    /\ app = 1 /\ phase = "up" /\ updater = "tick" /\ offer = NoBuild
    /\ goingBack = FALSE /\ asked = FALSE /\ before = FirstFile /\ managed = <<>>
    /\ installer = NoInstaller /\ watchers = {} /\ stuck = FALSE /\ incidents = 0

Incident == incidents < MaxIncidents /\ incidents' = incidents + 1

-----------------------------------------------------------------------------
(* The app as a process.  One runs at a time (single_instance): a second   *)
(* one shows the first one's window and leaves.                            *)

\* The process is gone, and its update thread with it; a watcher sees that.
Orphans(those) == {[w EXCEPT !.parentGone = TRUE, !.childRuns = FALSE] : w \in those}
Ends(those) ==
    /\ app' = NoBuild /\ phase' = "off" /\ watchers' = Orphans(those)
    /\ updater' = "tick" /\ offer' = NoBuild /\ goingBack' = FALSE /\ asked' = FALSE
    /\ UNCHANGED <<before, managed>>

\* The launcher is started.  updates::start takes the notice of a failed update.
Starts ==
    /\ app' = launcher /\ phase' = "starting"
    /\ file' = [file EXCEPT !.failed = FALSE]

\* Nobody starts the app or rolls back in the seconds in which an installer runs
\* on whose app has gone.
NoOrphan == installer.at # "none" => updater = "install"

StartByHand ==
    /\ app = NoBuild /\ launcher \in onDisk /\ NoOrphan
    /\ IF watchers = {} THEN UNCHANGED incidents ELSE Incident
    /\ Starts
    /\ UNCHANGED <<works, feed, onDisk, launcher, stuck, threadVars, asked, installer,
                   watchers>>

\* A build that works comes up; one that does not may say so and die.
ComeUp ==
    /\ phase = "starting" /\ phase' = "up"
    /\ UNCHANGED <<works, feed, diskVars, app, threadVars, asked, installer, watchers,
                   incidents>>

DieEarly ==
    /\ app # NoBuild /\ app \notin works /\ Ends(watchers)
    /\ UNCHANGED <<works, feed, diskVars, installer, incidents>>

\* The user's Quit, or the update thread's.  Between the two writes of a rollback
\* there are only milliseconds.
Quit ==
    /\ phase = "up" /\ Ends(watchers)
    /\ IF updater = "point_back" THEN Incident ELSE UNCHANGED incidents
    /\ UNCHANGED <<works, feed, diskVars, installer>>

\* The installer is a process of its own and goes on.
Crash ==
    /\ app \in works /\ Incident /\ Ends(watchers)
    /\ UNCHANGED <<works, feed, diskVars, installer>>

PowerLoss ==
    /\ Incident /\ Ends({}) /\ installer' = NoInstaller
    /\ UNCHANGED <<works, feed, diskVars>>

Release ==
    /\ feed < MaxBuild /\ feed' = feed + 1
    /\ UNCHANGED <<works, diskVars, app, phase, threadVars, asked, installer, watchers,
                   incidents>>

-----------------------------------------------------------------------------
(* The update thread.  A build that does not work has none to speak of: a  *)
(* day passes before its first check.  The watcher that started an app has *)
(* made up its mind by the time of the app's first check: it looks on for  *)
(* five seconds once the app is up, and the check comes after a minute.    *)

Running ==
    /\ phase = "up" /\ app \in works
    /\ \A w \in watchers : ~w.parentGone

Turns(from, to) == Running /\ updater = from /\ updater' = to

\* save_state may fail, also once the file has its new name and only the folder
\* cannot be flushed; point_launcher likewise.
Saves(new, to, otherwise) ==
    \/ file' = new /\ updater' = to /\ UNCHANGED incidents
    \/ updater' = otherwise /\ Incident /\ file' \in {file, new}

\* The feed offers a newer build that was not rolled back from, and it is
\* downloaded and checked.
Offered == feed > app /\ feed # file.skip

Check ==
    /\ Running /\ updater = "tick" /\ ~asked /\ ~goingBack /\ offer = NoBuild
    /\ Offered /\ offer' = feed
    /\ UNCHANGED <<works, feed, diskVars, app, phase, updater, goingBack, before,
                   managed, asked, installer, watchers, incidents>>

\* reserve finds the app idle.  A command is taken first.
ReserveUpdate ==
    /\ Turns("tick", "save") /\ ~asked /\ ~goingBack /\ offer # NoBuild
    /\ UNCHANGED <<works, feed, diskVars, app, phase, offer, goingBack, before, managed,
                   asked, installer, watchers, incidents>>

\* Mutant: the way back is written once the install is done.
SavePreviousLate ==
    /\ Turns("save", "install") /\ before' = file /\ managed' = file.managed
    /\ installer' = [build |-> offer, at |-> "copy"]
    /\ UNCHANGED <<works, feed, diskVars, app, phase, offer, goingBack, asked, watchers,
                   incidents>>

\* The way back is written before the installer runs.
SavePrevious ==
    /\ Running /\ updater = "save"
    /\ before' = file /\ managed' = file.managed
    /\ Saves([file EXCEPT !.previous = app], "install", "undo")
    /\ installer' = IF updater' = "install" THEN [build |-> offer, at |-> "copy"]
                                            ELSE installer
    /\ UNCHANGED <<works, feed, onDisk, launcher, stuck, app, phase, offer, goingBack,
                   asked, watchers>>

\* install.py: a version is complete when it gets its name, and the launcher
\* moves last.
InstallerCopies ==
    /\ installer.at = "copy" /\ installer' = [installer EXCEPT !.at = "move"]
    /\ onDisk' = onDisk \cup {installer.build}
    /\ UNCHANGED <<works, feed, launcher, file, stuck, app, phase, threadVars, asked,
                   watchers, incidents>>

InstallerMoves ==
    /\ installer.at = "move" /\ installer' = [installer EXCEPT !.at = "done"]
    /\ launcher' = installer.build
    /\ UNCHANGED <<works, feed, onDisk, file, stuck, app, phase, threadVars, asked,
                   watchers, incidents>>

\* It fails, or is killed after five minutes, maybe with the launcher moved.
InstallerFails ==
    /\ installer.at # "none" /\ installer' = NoInstaller /\ Incident
    /\ UNCHANGED <<works, feed, diskVars, app, phase, threadVars, asked, watchers>>

\* Nobody waits for an installer whose app has gone.
InstallerLeaves ==
    /\ installer.at = "done" /\ updater # "install" /\ installer' = NoInstaller
    /\ UNCHANGED <<works, feed, diskVars, app, phase, threadVars, asked, watchers,
                   incidents>>

Installed ==
    /\ Running /\ updater = "install" /\ installer.at \in {"done", "none"}
    /\ updater' = IF installer.at = "done" THEN "manage" ELSE "undo"
    /\ installer' = NoInstaller
    /\ UNCHANGED <<works, feed, diskVars, app, phase, offer, goingBack, before, managed,
                   asked, watchers, incidents>>

\* Mutant: the version that is replaced is not kept.
KeptNew(old, new) == {new}

\* prune never removes these.
Kept(old, new) == {old, new}

Known(list) == {list[i] : i \in DOMAIN list}
Added(list, build) == IF build \in Known(list) THEN list ELSE Append(list, build)
KeepVersions == 2

\* The oldest versions beyond KEEP_VERSIONS, without those to keep.
Removable(list, keep) ==
    {list[i] : i \in {j \in DOMAIN list : j + KeepVersions <= Len(list)}} \ keep

\* The list without the builds that are gone.
Without(list, gone) ==
    LET kept[n \in 0..Len(list)] ==
            IF n = 0 THEN <<>>
            ELSE IF list[n] \in gone THEN kept[n - 1] ELSE Append(kept[n - 1], list[n])
    IN kept[Len(list)]

\* Older versions that the updater installed are removed, each with its folder; one that
\* cannot be removed, or not all of it, stays in the list.
Manage ==
    /\ Running /\ updater = "manage"
    /\ LET list == Added(Added(managed, app), offer) IN
       \E lost \in SUBSET Removable(list, Kept(app, offer)) : \E gone \in SUBSET lost :
          /\ onDisk' = onDisk \ lost
          /\ managed' = Without(list, gone)
    /\ Saves([file EXCEPT !.managed = managed', !.previous = app], "relaunch", "undo")
    /\ UNCHANGED <<works, feed, launcher, stuck, app, phase, offer, goingBack, before,
                   asked, installer, watchers>>

NewWatcher(build) == [at |-> "old", from |-> app, build |-> build,
                      parentGone |-> FALSE, childRuns |-> FALSE]

\* The watcher waits for this process, which is told to quit.  It may not start.
Relaunch ==
    /\ \/ /\ Turns("relaunch", "wait")
          /\ watchers' = watchers \cup {NewWatcher(offer)} /\ UNCHANGED incidents
       \/ Turns("relaunch", "undo") /\ Incident /\ UNCHANGED watchers
    /\ UNCHANGED <<works, feed, diskVars, app, phase, offer, goingBack, before, managed,
                   asked, installer>>

Own(w) == ~w.parentGone /\ w.at = "old"

\* Half a minute later this process is still here: the Quit was refused.
QuitRefused ==
    /\ Turns("wait", "undo")
    /\ watchers' = {w \in watchers : ~Own(w)}
    /\ UNCHANGED <<works, feed, diskVars, app, phase, offer, goingBack, before, managed,
                   asked, installer, incidents>>

\* The launcher goes back to the version that runs.
Undo ==
    /\ Turns("undo", "restore")
    /\ \/ launcher' = app /\ UNCHANGED <<stuck, incidents>>
       \/ /\ launcher # app /\ Incident /\ launcher' \in {launcher, app}
          /\ stuck' = (stuck \/ launcher' # app)
    /\ UNCHANGED <<works, feed, onDisk, file, app, phase, offer, goingBack, before,
                   managed, asked, installer, watchers>>

\* And so does the state file, but for the list of versions.
Restore ==
    /\ Running /\ updater = "restore" /\ offer' = NoBuild
    /\ Saves([before EXCEPT !.managed = managed], "tick", "tick")
    /\ UNCHANGED <<works, feed, onDisk, launcher, stuck, app, phase, goingBack, before,
                   managed, asked, installer, watchers>>

-----------------------------------------------------------------------------
(* Going back.                                                             *)

\* A version to go back to, for one that runs.
RollbackTarget(state, running) ==
    IF state.previous = running THEN NoBuild ELSE state.previous

Refuse(state, build) == [state EXCEPT !.skip = build, !.previous = NoBuild]

\* `koett rollback-update`, sent to the app.
AskRollback ==
    /\ phase = "up" /\ ~asked /\ NoOrphan /\ asked' = TRUE
    /\ UNCHANGED <<works, feed, diskVars, app, phase, threadVars, installer, watchers,
                   incidents>>

\* The command is taken; the app is idle, or the answer is "busy".
TakeRollback ==
    /\ Running /\ updater = "tick" /\ asked /\ asked' = FALSE
    /\ updater' \in IF RollbackTarget(file, app) = NoBuild THEN {"tick"}
                    ELSE {"tick", "back"}
    /\ UNCHANGED <<works, feed, diskVars, app, phase, offer, goingBack, before, managed,
                   installer, watchers, incidents>>

\* go_back: the state goes first.
SaveBack ==
    /\ Running /\ updater = "back" /\ before' = file
    /\ Saves(Refuse(file, app), "point_back", "tick")
    /\ UNCHANGED <<works, feed, onDisk, launcher, stuck, app, phase, offer, goingBack,
                   managed, asked, installer, watchers>>

\* point_launcher; without that version on disk, or with a failure, the state
\* is put back.
PointBack ==
    /\ Running /\ updater = "point_back"
    /\ \/ /\ before.previous \in onDisk
          /\ launcher' = before.previous /\ updater' = "relaunch_back"
          /\ UNCHANGED <<file, incidents>>
       \/ /\ file' = before /\ updater' = "tick"
          /\ IF before.previous \in onDisk
             THEN Incident /\ launcher' \in {launcher, before.previous}
             ELSE UNCHANGED <<launcher, incidents>>
    /\ UNCHANGED <<works, feed, onDisk, stuck, app, phase, offer, goingBack, before,
                   managed, asked, installer, watchers>>

RelaunchBack ==
    /\ \/ /\ Turns("relaunch_back", "wait_back")
          /\ watchers' = watchers \cup {NewWatcher(NoBuild)} /\ UNCHANGED incidents
       \/ Turns("relaunch_back", "tick") /\ Incident /\ UNCHANGED watchers
    /\ UNCHANGED <<works, feed, diskVars, app, phase, offer, goingBack, before, managed,
                   asked, installer>>

\* Mutant: an update may still land on top of the rollback.
BackRefusedOpen ==
    /\ Turns("wait_back", "tick")
    /\ watchers' = {w \in watchers : ~Own(w)}
    /\ UNCHANGED <<works, feed, diskVars, app, phase, offer, goingBack, before, managed,
                   asked, installer, incidents>>

\* The Quit was refused: the launcher stays where it is, and no update may move
\* it before the next start.
BackRefused ==
    /\ Turns("wait_back", "tick")
    /\ watchers' = {w \in watchers : ~Own(w)}
    /\ goingBack' = TRUE /\ offer' = NoBuild
    /\ UNCHANGED <<works, feed, diskVars, app, phase, before, managed, asked, installer,
                   incidents>>

\* `koett rollback-update` without an app to ask (updates::offline): go_back and
\* a start, by the version the launcher points at.
RollbackOffline ==
    /\ app = NoBuild /\ launcher \in onDisk /\ watchers = {} /\ NoOrphan
    /\ RollbackTarget(file, launcher) # NoBuild
    /\ watchers' = {[at |-> "skip", from |-> file.previous, build |-> launcher,
                     parentGone |-> TRUE, childRuns |-> FALSE]}
    /\ UNCHANGED <<works, feed, diskVars, app, phase, threadVars, asked, installer,
                   incidents>>

-----------------------------------------------------------------------------
(* The watcher (watch.rs, run).                                            *)

Shifts(w, to) == watchers' = (watchers \ {w}) \cup {[w EXCEPT !.at = to]}
Done(w) == watchers' = watchers \ {w}

\* The old process is gone.
SeeGone(w) ==
    /\ w.at = "old" /\ w.parentGone /\ Shifts(w, "launch")
    /\ UNCHANGED <<works, feed, diskVars, app, phase, threadVars, asked, installer,
                   incidents>>

\* The launcher is started; if another instance runs, the new one leaves.  For
\* build 0 that is all.
Launch(w) ==
    /\ w.at = "launch"
    /\ IF app = NoBuild /\ launcher \in onDisk THEN Starts ELSE UNCHANGED <<app, phase, file>>
    /\ IF w.build = NoBuild THEN Done(w)
       ELSE watchers' = (watchers \ {w}) \cup
                {[w EXCEPT !.at = "check", !.childRuns = app = NoBuild /\ launcher \in onDisk]}
    /\ UNCHANGED <<works, feed, onDisk, launcher, stuck, threadVars, asked, installer,
                   incidents>>

Healthy(w) == phase = "up" /\ app = w.build

\* Mutant: a process that says it is ready has come up.
CameUpAtOnce(w) == Healthy(w)

\* came_up: healthy, and with the child alive for as long as it takes to see that
\* the build works.
CameUp(w) == Healthy(w) /\ (w.childRuns => app \in works)

Confirm(w) ==
    /\ w.at = "check" /\ CameUp(w) /\ Done(w)
    /\ UNCHANGED <<works, feed, diskVars, app, phase, threadVars, asked, installer,
                   incidents>>

\* The child is gone and nobody healthy answers, or three minutes went by; a
\* build that works needs that long only by accident.
NotUp(w) ==
    /\ w.at = "check" /\ ~(w.childRuns /\ CameUp(w)) /\ (~w.childRuns => ~Healthy(w))
    /\ Shifts(w, "kill")
    /\ IF w.childRuns /\ app \in works THEN Incident ELSE UNCHANGED incidents
    /\ UNCHANGED <<works, feed, diskVars, app, phase, threadVars, asked, installer>>

\* The child is killed and the notice for the next start is written.
Kill(w) ==
    /\ w.at = "kill"
    /\ IF w.childRuns THEN Ends((watchers \ {w}) \cup {[w EXCEPT !.at = "skip"]})
       ELSE Shifts(w, "skip") /\ UNCHANGED <<app, phase, threadVars, asked>>
    /\ file' = [file EXCEPT !.failed = TRUE]
    /\ UNCHANGED <<works, feed, onDisk, launcher, stuck, installer, incidents>>

\* go_back: the state and then the launcher, within milliseconds, so that only a
\* power loss comes in between.  It ends here if the state cannot be written, or
\* if the launcher cannot be moved: then the state is put back.
RollBack(w) ==
    /\ w.at = "skip"
    /\ \/ /\ w.from \in onDisk /\ launcher' = w.from
          /\ file' = Refuse(file, w.build) /\ Shifts(w, "again")
          /\ UNCHANGED <<app, phase, threadVars, asked, installer, incidents>>
       \/ /\ Incident /\ Done(w) /\ file' \in {file, Refuse(file, w.build)}
          /\ UNCHANGED <<launcher, app, phase, threadVars, asked, installer>>
       \/ /\ IF w.from \in onDisk
             THEN Incident /\ launcher' \in {launcher, w.from}
             ELSE UNCHANGED <<launcher, incidents>>
          /\ Done(w)
          /\ UNCHANGED <<file, app, phase, threadVars, asked, installer>>
       \/ /\ file' = Refuse(file, w.build) /\ Ends({}) /\ installer' = NoInstaller
          /\ Incident /\ UNCHANGED launcher
    /\ UNCHANGED <<works, feed, onDisk, stuck>>

Again(w) ==
    /\ w.at = "again" /\ Done(w)
    /\ IF app = NoBuild THEN Starts ELSE UNCHANGED <<app, phase, file>>
    /\ UNCHANGED <<works, feed, onDisk, launcher, stuck, threadVars, asked, installer,
                   incidents>>

-----------------------------------------------------------------------------
WatcherSteps == \E w \in watchers :
    SeeGone(w) \/ Launch(w) \/ Confirm(w) \/ NotUp(w) \/ Kill(w) \/ RollBack(w)
    \/ Again(w)

InstallerSteps == InstallerCopies \/ InstallerMoves \/ InstallerLeaves

UpdaterSteps ==
    Check \/ ReserveUpdate \/ SavePrevious \/ Installed \/ Manage \/ Relaunch
    \/ QuitRefused \/ Undo \/ Restore \/ TakeRollback \/ SaveBack \/ PointBack
    \/ RelaunchBack \/ BackRefused

UpdatesNext ==
    WatcherSteps \/ InstallerSteps \/ InstallerFails \/ UpdaterSteps
    \/ StartByHand \/ ComeUp \/ DieEarly \/ Quit \/ Crash \/ PowerLoss \/ Release
    \/ AskRollback \/ RollbackOffline

UpdatesSpec == UpdatesInit /\ [][UpdatesNext]_updatesVars

\* A watcher runs, and a build that works comes up, unless something happens.
GoodComesUp == app \in works /\ ComeUp
UpdatesFairness == WF_updatesVars(WatcherSteps) /\ WF_updatesVars(GoodComesUp)
UpdatesFairSpec == UpdatesSpec /\ UpdatesFairness

-----------------------------------------------------------------------------
(* What must hold.                                                         *)

\* Wherever the installer, the watcher or the app is cut off, what the launcher points at
\* is on disk (versions are removed only when they are neither the old nor the new one:
\* prune, and install.py's order), and it is a build that works, or the way back to one is
\* on disk ("Written first"), or it is refused and the launcher is about to move, or the
\* launcher could not be moved back.
WayBack ==
    /\ launcher \in onDisk
    /\ \/ launcher \in works
       \/ file.previous \in works \cap onDisk
       \/ file.skip = launcher \/ stuck

\* With no accident on the way, the launcher never comes to point at a build that
\* was rolled back from: not by an update, not by one that is taken back while a
\* rollback waits for a restart, not by another rollback (skip_build, going_back).
RefusedStaysOut ==
    [][launcher' # launcher /\ incidents' = 0 => launcher' # file'.skip]_updatesVars

\* An update whose watcher has taken over ends with an app that works and has come
\* up, the new one or the old one, if nothing else happens.
ComesBack ==
    [](incidents = 0) =>
        ((\E w \in watchers : w.at \in {"launch", "check"} /\ w.from \in works)
            ~> (phase = "up" /\ app \in works))
=============================================================================
