---------------------------- MODULE MediaPlayers ----------------------------
(***************************************************************************)
(* Pausing the media players for a recording (linux/media.rs): a worker    *)
(* talks to the players over D-Bus, a monitor reads their signals, and the *)
(* engine asks for a pause before a recording and for a resume after it.   *)
(*                                                                         *)
(* D-Bus has no atomic "play if nobody else touched it".  So a player that *)
(* is paused is claimed first, any signal about it revokes the claim, and  *)
(* before Play its state is compared with what it was.  Calls and signals  *)
(* are messages under way; each wait has a limit, and what it waited for   *)
(* may come later all the same.                                            *)
(***************************************************************************)
EXTENDS Naturals, Sequences

CONSTANTS
    Players,        \* names under org.mpris.MediaPlayer2
    MaxCaptures,    \* bound: recordings
    MaxTouches,     \* bound: what users and other programs do to players
    MaxDelays       \* bound: waits that are given up, and the end of the observation

ASSUME PlayersAssumption ==
    MaxCaptures \in Nat /\ MaxTouches \in Nat /\ MaxDelays \in Nat

VARIABLES
    players,    \* each name's owner, whether it plays, and what
    inboxes,    \* calls on their way to the players
    signals,    \* signals the monitor has not read
    observing,  \* the monitor runs
    claims,     \* the claim on each player; a player not in the list is not open
    ongoing,    \* what the worker does, and what it knows of the player it is at
    todo,       \* the players the operation has still to look at
    answer,     \* the reply to the call the worker waits for
    orders,     \* commands for the worker, the one it carries out first
    capture,    \* where the engine is between pause and resume
    stopped,    \* history: players that this recording's Pause left paused
    noted,      \* history: claimed players of whose use the monitor has read
    quiet,      \* history: players nobody has used since, or just before, their claim
    captures, touches, delays   \* bounds

busVars == <<players, inboxes, signals, observing>>
workerSide == <<claims, ongoing, todo, answer>>
playHistory == <<stopped, noted, quiet>>
engineSide == <<orders, capture, captures>>
playersVars == <<busVars, workerSide, playHistory, engineSide, touches, delays>>

NoPlayer == "none"
ASSUME NamesAssumption == NoPlayer \notin Players

Unclaimed == [open |-> FALSE, owner |-> 0, track |-> 0, successful |-> FALSE,
               valid |-> FALSE, awaitingPause |-> FALSE]
Nothing == [at |-> "idle", name |-> NoPlayer, owner |-> 0, track |-> 0]
Waits == {"pause_sent", "play_sent"}
Track == {0, 1}

PlayersTypeOK ==
    /\ players \in [Players -> [owner : Nat, playing : BOOLEAN, track : Track]]
    /\ inboxes \in [Players -> Seq([call : {"Pause", "Play"}, owner : Nat])]
    /\ signals \in Seq([name : Players, owner : Nat, use : BOOLEAN,
                        what : {"paused", "changed", "owner"}])
    /\ observing \in BOOLEAN
    /\ claims \in [Players -> [open : BOOLEAN, owner : Nat, track : Track, successful : BOOLEAN,
                               valid : BOOLEAN, awaitingPause : BOOLEAN]]
    /\ ongoing \in [at : {"idle", "pausing", "claim", "resuming", "decide"} \cup Waits,
                    name : Players \cup {NoPlayer}, owner : Nat, track : Track]
    /\ todo \subseteq Players /\ answer \in {"none", "ok", "error"}
    /\ orders \in Seq({"Pause", "Resume", "Shutdown"})
    /\ capture \in {"ready", "pausing", "capturing", "resuming", "leaving", "stopping", "gone"}
    /\ {stopped, noted, quiet} \subseteq SUBSET Players

PlayersInit ==
    /\ players \in [Players -> [owner : {0}, playing : BOOLEAN, track : {0}]]
    /\ inboxes = [n \in Players |-> <<>>] /\ signals = <<>> /\ observing = TRUE
    /\ claims = [n \in Players |-> Unclaimed]
    /\ ongoing = Nothing /\ todo = {} /\ answer = "none"
    /\ orders = <<>> /\ capture = "ready"
    /\ stopped = {} /\ noted = {} /\ quiet = {}
    /\ captures = 0 /\ touches = 0 /\ delays = 0

Delay == delays < MaxDelays /\ delays' = delays + 1

-----------------------------------------------------------------------------
(* The players and those who use them.                                     *)

Signals(n, what, use) ==
    signals' = IF observing
                 THEN Append(signals, [name |-> n, owner |-> players[n].owner, use |-> use,
                                       what |-> what])
                 ELSE signals

PlayerIs(n, player) == players' = [players EXCEPT ![n] = player]

\* A Pause of somebody else's that crosses Koett's own cannot be told from it.
Claiming(n) == ongoing.at = "claim" /\ ongoing.name = n
Crosses(n) == Claiming(n) \/ \E i \in DOMAIN inboxes[n] : inboxes[n][i].call = "Pause"
Held(n) == claims[n].open \/ Claiming(n)

\* Somebody pauses, plays, seeks or changes the track, or another program takes the name.
Use(n) ==
    /\ touches < MaxTouches /\ touches' = touches + 1
    /\ LET player == players[n]
       IN  \/ /\ player.playing /\ PlayerIs(n, [player EXCEPT !.playing = FALSE])
              /\ Signals(n, "paused", Held(n) /\ ~Crosses(n))
           \/ /\ ~player.playing /\ PlayerIs(n, [player EXCEPT !.playing = TRUE])
              /\ Signals(n, "changed", Held(n))
           \/ /\ \E t \in Track : PlayerIs(n, [player EXCEPT !.track = t])
              /\ Signals(n, "changed", Held(n))
           \/ /\ \E p \in BOOLEAN : PlayerIs(n, [player EXCEPT !.owner = @ + 1, !.playing = p])
              /\ Signals(n, "owner", Held(n))
    /\ quiet' = quiet \ {n}
    /\ UNCHANGED <<inboxes, observing, workerSide, stopped, noted, engineSide, delays>>

\* The worker waits for the reply to the last call it sent.
Replies(n, reply) ==
    answer' = IF ongoing.at \in Waits /\ ongoing.name = n /\ Len(inboxes[n]) = 1
                THEN reply ELSE answer

\* A player takes a call, unless the program it was meant for no longer has the name.
Handles(n) ==
    /\ inboxes[n] # <<>>
    /\ inboxes' = [inboxes EXCEPT ![n] = Tail(@)]
    /\ LET call == Head(inboxes[n])
           plays == call.call = "Play"
       IN  IF call.owner # players[n].owner
             THEN (\E reply \in {"ok", "error"} : Replies(n, reply))
                  /\ UNCHANGED <<players, signals, stopped>>
             ELSE /\ Replies(n, "ok")
                  /\ PlayerIs(n, [players[n] EXCEPT !.playing = plays])
                  /\ IF players[n].playing = plays THEN UNCHANGED signals
                     ELSE Signals(n, IF plays THEN "changed" ELSE "paused", FALSE)
                  /\ stopped' = IF plays THEN stopped ELSE stopped \cup {n}
    /\ UNCHANGED <<observing, claims, ongoing, todo, noted, quiet, engineSide, touches, delays>>

-----------------------------------------------------------------------------
(* The monitor.                                                            *)

\* Which claims a signal is about: by its sender, or by the name that changes hands.
About(n, signal) ==
    /\ claims[n].open /\ signal.name = n
    /\ signal.what = "owner" \/ signal.owner = claims[n].owner

Note(signal) == noted' = noted \cup {n \in Players : About(n, signal) /\ signal.use}

\* One turn of the loop.  The first change after the claim may be Koett's own pause.
Read ==
    /\ observing /\ signals # <<>> /\ signals' = Tail(signals)
    /\ LET signal == Head(signals)
           own(n) == signal.what = "paused" /\ claims[n].awaitingPause
       IN  /\ Note(signal)
           /\ claims' = [n \in Players |->
                IF About(n, signal)
                  THEN [claims[n] EXCEPT !.valid = @ /\ own(n),
                                         !.awaitingPause = @ /\ signal.what = "owner"]
                  ELSE claims[n]]
    /\ UNCHANGED <<players, inboxes, observing, ongoing, todo, answer, stopped, quiet, engineSide,
                   touches, delays>>

\* The stream of signals ends: no claim can be relied on any more.
ObservationEnds ==
    /\ observing /\ Delay
    /\ observing' = FALSE /\ signals' = <<>>
    /\ claims' = [n \in Players |-> [claims[n] EXCEPT !.valid = FALSE]]
    /\ UNCHANGED <<players, inboxes, ongoing, todo, answer, playHistory, engineSide, touches>>

-----------------------------------------------------------------------------
(* The worker.                                                             *)

Resuming == orders # <<>> /\ Head(orders) # "Pause"

GoOn ==
    ongoing' = [Nothing EXCEPT !.at = IF Resuming THEN "resuming" ELSE "pausing"]

\* The next command.  The flag active is left out: the engine asks for a pause and a
\* resume in turn, so it never keeps a pause from being made.
TakeOrder ==
    /\ ongoing = Nothing /\ orders # <<>> /\ observing
    /\ GoOn
    /\ IF Resuming
         THEN todo' = {n \in Players : claims[n].open} /\ UNCHANGED <<playHistory, signals>>
         ELSE /\ todo' = Players /\ stopped' = {} /\ noted' = {} /\ quiet' = {}
              /\ signals' = [i \in DOMAIN signals |-> [signals[i] EXCEPT !.use = FALSE]]
    /\ UNCHANGED <<players, inboxes, observing, claims, answer, engineSide, touches, delays>>

\* A resume consumes the claims, however it ended.
OrderEnds ==
    /\ ongoing' = Nothing /\ todo' = {} /\ orders' = Tail(orders)
    /\ claims' = IF Resuming THEN [n \in Players |-> Unclaimed] ELSE claims
    /\ UNCHANGED <<busVars, answer, playHistory, capture, captures, touches>>

\* All players have been seen to, or "MPRIS observation ended".
Completes ==
    /\ \/ ongoing.name = NoPlayer /\ ongoing.at # "idle" /\ todo = {}
       \/ ongoing = Nothing /\ orders # <<>> /\ ~observing
    /\ OrderEnds /\ UNCHANGED delays

\* Connecting fails, ListNames fails, or the operation exceeds its 400 ms wherever it is.
CutOff ==
    /\ orders # <<>> /\ (ongoing = Nothing => ~Resuming)
    /\ Delay /\ OrderEnds

\* GetNameOwner and GetAll.  What the player is like now is what the worker goes by.
LookAt(n) ==
    /\ ongoing.at \in {"pausing", "resuming"} /\ n \in todo /\ todo' = todo \ {n}
    /\ players[n].playing = ~Resuming
    /\ ongoing' = [at |-> IF Resuming THEN "decide" ELSE "claim", name |-> n,
                   owner |-> players[n].owner, track |-> players[n].track]
    /\ UNCHANGED <<busVars, claims, answer, playHistory, engineSide, touches, delays>>

\* There is nothing to do, or a request fails; a resume drops the claim.
PassOver(n) ==
    /\ ongoing.at \in {"pausing", "resuming"} /\ n \in todo /\ todo' = todo \ {n}
    /\ IF players[n].playing = Resuming THEN UNCHANGED delays ELSE Delay
    /\ claims' = IF Resuming THEN [claims EXCEPT ![n] = Unclaimed] ELSE claims
    /\ UNCHANGED <<busVars, ongoing, answer, playHistory, engineSide, touches>>

Sends(call) ==
    /\ inboxes' = [inboxes EXCEPT ![ongoing.name] =
                     Append(@, [call |-> call, owner |-> ongoing.owner])]
    /\ answer' = "none"

Unread(n) == \E i \in DOMAIN signals : signals[i].name = n

AsSeen(n) == ongoing.owner = players[n].owner /\ ongoing.track = players[n].track

\* The claim is registered before the Pause is sent, so that no signal can overtake it.
ClaimPlayer ==
    /\ ongoing.at = "claim" /\ ongoing' = [ongoing EXCEPT !.at = "pause_sent"]
    /\ claims' = [claims EXCEPT ![ongoing.name] =
                    [open |-> TRUE, owner |-> ongoing.owner, track |-> ongoing.track,
                     successful |-> FALSE, valid |-> TRUE, awaitingPause |-> TRUE]]
    /\ quiet' = IF Unread(ongoing.name) \/ inboxes[ongoing.name] # <<>>
                     \/ ~AsSeen(ongoing.name) \/ ~players[ongoing.name].playing
                  THEN quiet ELSE quiet \cup {ongoing.name}
    /\ Sends("Pause")
    /\ UNCHANGED <<players, signals, observing, todo, stopped, noted, engineSide, touches, delays>>

\* The reply, or none within 100 ms; the call may arrive all the same.
PauseReturns ==
    /\ ongoing.at = "pause_sent" /\ GoOn
    /\ \/ answer # "none" /\ UNCHANGED delays
       \/ answer = "none" /\ Delay
    /\ claims' = [claims EXCEPT ![ongoing.name].successful = (answer = "ok")]
    /\ UNCHANGED <<busVars, todo, answer, playHistory, engineSide, touches>>

\* Mutant: a player that looks as it did is trusted, whatever was signalled meanwhile.
TrustedBySight(claim) ==
    claim.successful /\ claim.owner = ongoing.owner /\ claim.track = ongoing.track

Trusted(claim) ==
    claim.successful /\ claim.valid /\ claim.owner = ongoing.owner /\ claim.track = ongoing.track

\* The claim is taken off the list, and Play is sent if it still holds.
Decide ==
    /\ ongoing.at = "decide"
    /\ claims' = [claims EXCEPT ![ongoing.name] = Unclaimed]
    /\ IF Trusted(claims[ongoing.name])
         THEN Sends("Play") /\ ongoing' = [ongoing EXCEPT !.at = "play_sent"]
         ELSE GoOn /\ UNCHANGED <<inboxes, answer>>
    /\ UNCHANGED <<players, signals, observing, todo, playHistory, engineSide, touches, delays>>

PlayReturns ==
    /\ ongoing.at = "play_sent" /\ GoOn
    /\ \/ answer # "none" /\ UNCHANGED delays
       \/ answer = "none" /\ Delay
    /\ UNCHANGED <<busVars, claims, todo, answer, playHistory, engineSide, touches>>

-----------------------------------------------------------------------------
(* The engine.                                                             *)

Orders(order, then) ==
    /\ orders' = Append(orders, order) /\ capture' = then
    /\ UNCHANGED <<busVars, workerSide, playHistory, touches, delays>>

\* A recording begins, with pause_media or without.
BeginsCapture ==
    /\ capture = "ready" /\ captures < MaxCaptures /\ captures' = captures + 1
    /\ \/ Orders("Pause", "pausing")
       \/ /\ capture' = "capturing"
          /\ UNCHANGED <<busVars, workerSide, playHistory, orders, touches, delays>>

EndsCapture == capture = "capturing" /\ Orders("Resume", "resuming") /\ UNCHANGED captures

\* The code after the engine's loop.
Leaves == capture \in {"ready", "capturing"} /\ Orders("Resume", "leaving") /\ UNCHANGED captures

After == [pausing |-> "capturing", resuming |-> "ready", leaving |-> "stopping",
          stopping |-> "gone"]

\* request returns: with the reply, or after 550 ms without one.
Acknowledged ==
    /\ capture \in DOMAIN After
    /\ \/ orders = <<>> /\ UNCHANGED delays
       \/ orders # <<>> /\ Delay
    /\ capture' = After[capture]
    /\ orders' = IF capture = "leaving" THEN Append(orders, "Shutdown") ELSE orders
    /\ UNCHANGED <<busVars, workerSide, playHistory, captures, touches>>

PlayersNext ==
    \/ \E n \in Players : Use(n) \/ Handles(n) \/ LookAt(n) \/ PassOver(n)
    \/ Read \/ ObservationEnds
    \/ TakeOrder \/ Completes \/ CutOff \/ ClaimPlayer \/ PauseReturns \/ Decide \/ PlayReturns
    \/ BeginsCapture \/ EndsCapture \/ Leaves \/ Acknowledged

PlayersSpec == PlayersInit /\ [][PlayersNext]_playersVars

-----------------------------------------------------------------------------
(* What must hold.                                                         *)

\* "Consume and conditionally resume only this capture's successful pauses": Play is sent only
\* to a player this recording's Pause left paused, and not if the monitor has read that
\* somebody used it since.  And if nothing took too long and nobody used it, it plays again when
\* the resume is over.
ResumesItsOwn == [][
    /\ ongoing.at = "decide" /\ ongoing'.at = "play_sent" => ongoing.name \in stopped \ noted
    /\ Resuming /\ orders' = Tail(orders) /\ delays' = 0 =>
         \A n \in stopped \cap quiet : players[n].playing]_playersVars
=============================================================================
