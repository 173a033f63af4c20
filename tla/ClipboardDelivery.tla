-------------------------- MODULE ClipboardDelivery --------------------------
(***************************************************************************)
(* How Koett puts a transcript, or a drawing and what was said over it, on *)
(* the clipboard of a wlroots compositor and pastes it (linux/             *)
(* clipboard_owner.rs, linux/output.rs, linux/native_keyboard.rs, the      *)
(* deliveries in linux.rs).                                                *)
(*                                                                         *)
(* A drawing takes three claims of the clipboard: the image, the text, and *)
(* both together to stay there.  Claims and notifications are messages     *)
(* between a thread of Koett and the compositor; meanwhile the user copies *)
(* something else.  The protocol has no atomic test and claim, so the      *)
(* thread asks first, claims, and then looks at what it was told.          *)
(***************************************************************************)
EXTENDS Naturals, Sequences

CONSTANT MaxCopies      \* bound: things the user copies

ASSUME ClipAssumption == MaxCopies \in Nat

VARIABLES
    selection,  \* whose the clipboard is: a claim of Koett's, WlCopy, Other, Empty
    toServer,   \* requests the compositor has not handled
    toOwner,    \* events the owner thread has not dispatched
    checked,    \* the compositor has answered the check of the claim that comes
    lateCopy,   \* history: the last copy came after that answer
    overwrote,  \* history: a copy made during this delivery was overwritten
    server,     \* the owner thread (serve)
    stopOwner,  \* the flag that tells it to stop
    ownership,  \* what it knows of the clipboard (Ownership)
    claim,      \* its current source
    reply,      \* its answer to the request
    delivery,   \* the delivery in progress
    said,       \* what the delivery ended with
    copies      \* bound: copies so far

serverVars == <<selection, toServer, checked, lateCopy, overwrote>>
ownerVars == <<server, ownership, claim>>
clipVars == <<serverVars, toOwner, ownerVars, stopOwner, reply, delivery, said, copies>>

Claims == 1..3
NoClaim == 0
Empty == 4
Other == 5
WlCopy == 6             \* the text, offered by the wl-copy program
Selection(ours, cancelled) == [type |-> "selection", ours |-> ours, cancelled |-> cancelled]
Done == [type |-> "done", ours |-> FALSE, cancelled |-> NoClaim]
OwnerEvent == [type : {"selection", "done"}, ours : BOOLEAN, cancelled : Claims \cup {NoClaim}]
Ownership == [active : BOOLEAN, owned : BOOLEAN, transitioning : BOOLEAN,
              foreignSeen : BOOLEAN, latestOurs : BOOLEAN]
Unowned == [active |-> FALSE, owned |-> FALSE, transitioning |-> FALSE,
            foreignSeen |-> FALSE, latestOurs |-> FALSE]
Kinds == {"none", "text", "sketch", "again", "copy"}
Drawings == {"sketch", "again"}
Delivery == [kind : Kinds, step : 0..3, at : {"idle", "wait", "paste", "look", "verify"},
             failed : BOOLEAN]
NoDelivery == [kind |-> "none", step |-> 0, at |-> "idle", failed |-> FALSE]

ClipTypeOK ==
    /\ selection \in {Empty, Other, WlCopy} \cup Claims
    /\ toServer \in Seq({"bind", "check", "claim", "confirm"}) /\ Len(toServer) <= 3
    /\ toOwner \in Seq(OwnerEvent)
    /\ checked \in BOOLEAN /\ lateCopy \in BOOLEAN /\ overwrote \in BOOLEAN
    /\ server \in {"gone", "serving", "checking", "draining", "confirming", "closed"}
    /\ stopOwner \in BOOLEAN /\ ownership \in Ownership /\ claim \in Claims \cup {NoClaim}
    /\ reply \in {"none", "asked", "ok", "refused"}
    /\ delivery \in Delivery /\ said \in {"nothing", "pasted", "copied", "failed"}
    /\ copies \in 0..MaxCopies

ClipInit ==
    /\ selection \in {Empty, Other} /\ toServer = <<>> /\ toOwner = <<>>
    /\ checked = FALSE /\ lateCopy = FALSE /\ overwrote = FALSE
    /\ server = "gone" /\ stopOwner = FALSE /\ ownership = Unowned /\ claim = NoClaim
    /\ reply = "none" /\ delivery = NoDelivery /\ said = "nothing" /\ copies = 0

-----------------------------------------------------------------------------
(* The compositor, and the other applications.                             *)

Ours == selection \in Claims
Tell(event) == toOwner' = IF server \in {"gone", "closed"} THEN toOwner ELSE Append(toOwner, event)

\* The user copies: an earlier offer is cancelled, and everybody hears of it.
UserCopies ==
    /\ copies < MaxCopies /\ copies' = copies + 1
    /\ selection' = Other /\ lateCopy' = checked
    /\ Tell(Selection(FALSE, IF Ours THEN selection ELSE NoClaim))
    /\ UNCHANGED <<toServer, checked, overwrote, ownerVars, stopOwner, reply, delivery, said>>

\* A new client hears whose the clipboard is.
HandleBind ==
    /\ Head(toServer) = "bind" /\ Tell(Selection(FALSE, NoClaim))
    /\ UNCHANGED <<selection, checked, lateCopy, overwrote>>

HandleSync ==
    /\ Head(toServer) \in {"check", "confirm"} /\ Tell(Done)
    /\ checked' = (Head(toServer) = "check")
    /\ UNCHANGED <<selection, lateCopy, overwrote>>

HandleClaim ==
    /\ Head(toServer) = "claim" /\ selection' = claim
    /\ Tell(Selection(TRUE, IF Ours THEN selection ELSE NoClaim))
    /\ checked' = FALSE
    /\ overwrote' = (overwrote \/ (selection = Other /\ claim > 1))
    /\ UNCHANGED lateCopy

Handle ==
    /\ toServer # <<>> /\ toServer' = Tail(toServer)
    /\ HandleBind \/ HandleSync \/ HandleClaim
    /\ UNCHANGED <<ownerVars, stopOwner, reply, delivery, said, copies>>

\* The connection is closed: what the thread offered is gone.
HangUp ==
    /\ server = "closed" /\ toServer = <<>> /\ server' = "gone"
    /\ selection' = IF Ours THEN Empty ELSE selection
    /\ ownership' = Unowned /\ claim' = NoClaim /\ toOwner' = <<>> /\ checked' = FALSE
    /\ UNCHANGED <<toServer, lateCopy, overwrote, stopOwner, reply, delivery, said, copies>>

-----------------------------------------------------------------------------
(* The server thread (serve).                                               *)

\* Mutant: losing the clipboard during a transition is forgotten.
SawSelectionForgetful(o, event) ==
    [o EXCEPT !.latestOurs = event.ours,
              !.owned = @ /\ (event.ours \/ o.transitioning)]

\* Ownership::selection, and the cancelled event of the current source.
SawSelection(o, event) ==
    [o EXCEPT !.latestOurs = IF o.active THEN event.ours ELSE @,
              !.owned = /\ @ /\ (o.active => event.ours)
                        /\ ~(event.cancelled = claim /\ claim # NoClaim),
              !.foreignSeen = @ \/ (o.active /\ ~event.ours /\ o.transitioning)]

Lost(o) == o.active /\ ~o.owned

Closes == server' = "closed" /\ toOwner' = <<>>

\* pump: an event is dispatched.  A stop, or an ended claim to the clipboard while
\* nothing is asked, ends the thread.
Dispatch ==
    /\ server \in {"serving", "checking", "confirming"} /\ toOwner # <<>>
    /\ Head(toOwner).type = "selection"
    /\ ownership' = SawSelection(ownership, Head(toOwner)) /\ toOwner' = Tail(toOwner)
    /\ UNCHANGED <<serverVars, server, claim, stopOwner, reply, delivery, said, copies>>

ServeEnds ==
    /\ server = "serving" /\ Lost(ownership) /\ Closes
    /\ UNCHANGED <<serverVars, ownership, claim, stopOwner, reply, delivery, said, copies>>

\* The thread ends at its next look at the socket: stopped, or out of time.  Who
\* asked sees the reply's sender dropped.
OwnerStops ==
    /\ server \in {"serving", "checking", "draining", "confirming"}
    /\ stopOwner \/ server \in {"checking", "confirming"}
    /\ Closes /\ reply' = IF reply = "asked" THEN "refused" ELSE reply
    /\ UNCHANGED <<serverVars, ownership, claim, stopOwner, delivery, said, copies>>

\* A request is taken: a barrier first, so that what the user copied is known.
TakeRequest ==
    /\ server = "serving" /\ ~Lost(ownership) /\ reply = "asked" /\ ~stopOwner
    /\ server' = "checking" /\ toServer' = Append(toServer, "check")
    /\ UNCHANGED <<selection, checked, lateCopy, overwrote, toOwner, ownership, claim,
                   stopOwner, reply, delivery, said, copies>>

\* Mutant: the answer to the barrier is all that counts.
CheckAnsweredBlind ==
    /\ server = "checking" /\ toOwner # <<>> /\ Head(toOwner).type = "done"
    /\ toOwner' = Tail(toOwner) /\ server' = "draining"
    /\ ownership' = [ownership EXCEPT !.owned = TRUE]
    /\ UNCHANGED <<serverVars, claim, stopOwner, reply, delivery, said, copies>>

CheckAnswered ==
    /\ server = "checking" /\ toOwner # <<>> /\ Head(toOwner).type = "done"
    /\ IF Lost(ownership) \/ stopOwner THEN Closes /\ reply' = "refused"
       ELSE server' = "draining" /\ toOwner' = Tail(toOwner) /\ UNCHANGED reply
    /\ UNCHANGED <<serverVars, ownership, claim, stopOwner, delivery, said, copies>>

Drain ==
    /\ server = "draining" /\ toOwner # <<>>
    /\ ownership' = SawSelection(ownership, Head(toOwner)) /\ toOwner' = Tail(toOwner)
    /\ UNCHANGED <<serverVars, server, claim, stopOwner, reply, delivery, said, copies>>

\* Nothing more to read: the claim, and a barrier after it.
Claim ==
    /\ server = "draining" /\ toOwner = <<>>
    /\ IF Lost(ownership)
       THEN Closes /\ reply' = "refused" /\ UNCHANGED <<ownership, claim, toServer>>
       ELSE /\ server' = "confirming" /\ claim' = claim + 1
            /\ ownership' = [active |-> TRUE, owned |-> TRUE, transitioning |-> TRUE,
                             foreignSeen |-> FALSE, latestOurs |-> FALSE]
            /\ toServer' = toServer \o <<"claim", "confirm">>
            /\ UNCHANGED <<toOwner, reply>>
    /\ UNCHANGED <<selection, checked, lateCopy, overwrote, stopOwner, delivery, said, copies>>

\* Mutant: it is enough that the clipboard is Koett's in the end.
FinishLatest(o) == o.latestOurs

\* Ownership::finish.
Finish(o) == o.owned /\ o.latestOurs /\ ~o.foreignSeen

Confirmed ==
    /\ server = "confirming" /\ toOwner # <<>> /\ Head(toOwner).type = "done"
    /\ IF Finish(ownership)
       THEN /\ reply' = "ok" /\ server' = "serving" /\ toOwner' = Tail(toOwner)
            /\ ownership' = [ownership EXCEPT !.transitioning = FALSE]
       ELSE Closes /\ reply' = "refused" /\ UNCHANGED ownership
    /\ UNCHANGED <<serverVars, claim, stopOwner, delivery, said, copies>>

-----------------------------------------------------------------------------
(* The deliveries (linux.rs, output.rs).  One at a time: the loop waits.   *)

\* clipboard_owner::start: the thread there was is stopped, and a new one asked.
StopOld ==
    /\ delivery.kind = "none" /\ server # "gone" /\ ~stopOwner /\ stopOwner' = TRUE
    /\ UNCHANGED <<serverVars, toOwner, ownerVars, reply, delivery, said, copies>>

Deliver(kind) ==
    /\ delivery.kind = "none" /\ server = "gone" /\ toServer = <<>>
    /\ delivery' = [kind |-> kind, step |-> 1, at |-> "wait", failed |-> FALSE]
    /\ server' = "serving" /\ stopOwner' = FALSE /\ ownership' = Unowned /\ claim' = NoClaim
    /\ toServer' = <<"bind">> /\ reply' = "asked" /\ said' = "nothing"
    /\ overwrote' = FALSE
    /\ UNCHANGED <<selection, checked, lateCopy, toOwner, copies>>

\* The answer did not come within REQUEST_TIMEOUT and a tenth of a second.
RequestTimesOut ==
    /\ delivery.at = "wait" /\ reply = "asked" /\ reply' = "refused" /\ stopOwner' = TRUE
    /\ UNCHANGED <<serverVars, toOwner, ownerVars, delivery, said, copies>>

Says(outcome) == said' = outcome /\ delivery' = NoDelivery

\* clipboard_owner::replace asks the thread there is; it may have ended.
Replace(step, failed) ==
    /\ delivery' = [delivery EXCEPT !.step = step, !.at = "wait", !.failed = failed]
    /\ reply' = IF server \in {"gone", "closed"} THEN "refused" ELSE "asked"
    /\ UNCHANGED said

\* The image or the text is on the clipboard: now the key.
ClaimedForPaste ==
    /\ delivery.at = "wait" /\ reply = "ok" /\ delivery.step < 3 /\ delivery.kind # "copy"
    /\ delivery' = [delivery EXCEPT !.at = "paste"] /\ reply' = "none"
    /\ UNCHANGED <<serverVars, toOwner, ownerVars, stopOwner, said, copies>>

\* Copy last: that was all.
ClaimedForCopy ==
    /\ delivery.at = "wait" /\ delivery.kind = "copy" /\ reply \in {"ok", "refused"}
    /\ Says(IF reply = "ok" THEN "copied" ELSE "failed") /\ reply' = "none"
    /\ UNCHANGED <<serverVars, toOwner, ownerVars, stopOwner, copies>>

\* prepare_paste, post and the wait for the target to read.  The target reads what
\* is on the clipboard.  For a text a read of Koett's offer after the key is the
\* evidence; an image nobody reads counts as pasted (UNKNOWN_IMAGE_READ_WAIT).
Evidence == selection = claim /\ server = "serving"

Pastes ==
    /\ delivery.at = "paste"
    /\ \/ /\ Evidence \/ (delivery.kind \in Drawings /\ delivery.step = 1)
          /\ \/ delivery.kind = "text" /\ Says("pasted") /\ UNCHANGED reply
             \/ delivery.kind \in Drawings /\ Replace(delivery.step + 1, FALSE)
       \* Refused by the gate, or the text was not read, or the image not to its end.
       \/ /\ delivery.kind = "text" /\ delivery' = [delivery EXCEPT !.at = "look"]
          /\ UNCHANGED <<reply, said>>
       \/ delivery.kind \in Drawings /\ Replace(3, TRUE)
    /\ UNCHANGED <<serverVars, toOwner, ownerVars, stopOwner, copies>>

\* The image or the text could not be offered.  Both together are tried.
NotClaimed ==
    /\ delivery.at = "wait" /\ reply = "refused"
    /\ delivery.kind \in Drawings /\ delivery.step \in {1, 2}
    /\ Replace(3, TRUE)
    /\ UNCHANGED <<serverVars, toOwner, ownerVars, stopOwner, copies>>

RunWlCopy ==
    selection' = WlCopy /\ Tell(Selection(FALSE, IF Ours THEN selection ELSE NoClaim))

\* The text could not be offered: wl-copy does it, with no evidence to wait for.
CopyWithWlCopy ==
    /\ delivery.at = "wait" /\ reply = "refused" /\ delivery.kind = "text"
    /\ reply' = "none"
    /\ \/ RunWlCopy /\ delivery' = [delivery EXCEPT !.at = "look"] /\ UNCHANGED said
       \/ Says("failed") /\ UNCHANGED <<selection, toOwner>>
    /\ UNCHANGED <<toServer, checked, lateCopy, overwrote, ownerVars, stopOwner, copies>>

\* settle_delivery and ensure_copied: a text that was not pasted may still be on
\* the clipboard; if not, wl-copy puts it there, and it is read back.
Holds == selection \in {claim, WlCopy}

LookAtText ==
    /\ delivery.at = "look" /\ delivery.kind = "text"
    /\ \/ Holds /\ Says("copied") /\ UNCHANGED <<selection, toOwner>>
       \/ ~Holds /\ RunWlCopy /\ delivery' = [delivery EXCEPT !.at = "verify"]
          /\ UNCHANGED said
       \/ ~Holds /\ Says("failed") /\ UNCHANGED <<selection, toOwner>>
    /\ UNCHANGED <<toServer, checked, lateCopy, overwrote, ownerVars, stopOwner, reply,
                   copies>>

VerifyText ==
    /\ delivery.at = "verify" /\ Says(IF Holds THEN "copied" ELSE "failed")
    /\ UNCHANGED <<serverVars, toOwner, ownerVars, stopOwner, reply, copies>>

\* restore_sketch_clipboard and settle_bundle.
BundleOffered ==
    /\ delivery.at = "wait" /\ delivery.step = 3 /\ reply \in {"ok", "refused"}
    /\ reply' = "none"
    /\ \/ ~delivery.failed /\ Says(IF reply = "ok" THEN "pasted" ELSE "failed")
       \/ /\ delivery.failed /\ reply = "ok" /\ delivery.kind = "sketch"
          /\ delivery' = [delivery EXCEPT !.at = "look"] /\ UNCHANGED said
       \* A drawing that is pasted once more says what went wrong with the paste.
       \/ delivery.failed /\ (reply = "refused" \/ delivery.kind = "again") /\ Says("failed")
    /\ UNCHANGED <<serverVars, toOwner, ownerVars, stopOwner, copies>>

LookAtBundle ==
    /\ delivery.at = "look" /\ delivery.kind = "sketch"
    /\ Says(IF selection = claim /\ server = "serving" THEN "copied" ELSE "failed")
    /\ UNCHANGED <<serverVars, toOwner, ownerVars, stopOwner, reply, copies>>

OwnerSteps ==
    Dispatch \/ ServeEnds \/ OwnerStops \/ TakeRequest \/ CheckAnswered \/ Drain
    \/ Claim \/ Confirmed

DeliverySteps ==
    StopOld \/ RequestTimesOut \/ ClaimedForPaste \/ ClaimedForCopy \/ Pastes
    \/ NotClaimed \/ CopyWithWlCopy \/ LookAtText \/ VerifyText \/ BundleOffered \/ LookAtBundle

ClipNext ==
    \/ UserCopies \/ Handle \/ HangUp \/ OwnerSteps \/ DeliverySteps
    \/ \E kind \in Kinds \ {"none"} : Deliver(kind)

ClipSpec == ClipInit /\ [][ClipNext]_clipVars

-----------------------------------------------------------------------------
(* What must hold.                                                         *)

\* "Newer clipboard copy preserved": what the user copies between two claims of a
\* delivery is overwritten only if it came after the compositor had answered the
\* check that precedes the claim; the protocol has no way to prevent that (serve).
NewerCopyPreserved == [][
    selection = Other /\ selection' \in Claims /\ selection' > 1 => lateCopy]_clipVars

\* And when it does happen, the delivery does not end as if nothing had: a copy of
\* the user's that was overwritten is reported ("Copy the newer item again").
OverwriteReported == said \in {"pasted", "copied"} => ~overwrote
=============================================================================
