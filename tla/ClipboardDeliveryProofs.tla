----------------------- MODULE ClipboardDeliveryProofs -----------------------
(***************************************************************************)
(* Proofs about ClipboardDelivery, for any number of copies the user makes *)
(* during the deliveries.                                                  *)
(***************************************************************************)
EXTENDS ClipboardDelivery, SequenceTheorems, TLAPS

\* The owner thread has the connection open.
Connected == server \in {"serving", "checking", "draining", "confirming"}

\* A claim is on its way to the compositor.
ClaimComing == toServer = <<"claim", "confirm">>

\* What the compositor has still to handle fits where the thread is.
RequestsFit ==
    /\ toServer \in {<<>>, <<"bind">>, <<"bind", "check">>, <<"check">>,
                     <<"claim", "confirm">>, <<"confirm">>}
    /\ server = "gone" => toServer = <<>>
    /\ server = "serving" => toServer \in {<<>>, <<"bind">>}
    /\ server = "checking" => toServer \in {<<>>, <<"bind", "check">>, <<"check">>}
    /\ server = "draining" => toServer = <<>>
    /\ server = "confirming" => toServer \in {<<>>, <<"claim", "confirm">>, <<"confirm">>}
    /\ Connected /\ claim # NoClaim => toServer # <<"bind">> /\ toServer # <<"bind", "check">>

\* A barrier's answer is the compositor's last word to it.
AnswersFit ==
    \A i \in DOMAIN toOwner : toOwner[i].type = "done" =>
        /\ server \in {"checking", "confirming"} /\ toServer = <<>>
        /\ \A j \in DOMAIN toOwner : toOwner[j].type = "done" => j = i

\* The check is answered before the claim, and counts until the claim is handled.
CheckedFits ==
    /\ server = "draining" => checked
    /\ server = "checking" /\ toServer = <<>> => checked
    /\ ClaimComing => checked

\* The thread watches the clipboard from its first claim on.
ActiveFits ==
    /\ Connected => (ownership.active <=> claim # NoClaim)
    /\ server = "confirming" \/ ClaimComing => claim # NoClaim
    /\ server = "gone" => claim = NoClaim

\* An event that somebody else has the clipboard.
Foreign(e) == e.type = "selection" /\ ~e.ours

\* While a claim of the thread's has been handled, it has the clipboard, or knows that
\* it has lost it, or is about to read so.
Aware ==
    Connected /\ claim # NoClaim /\ ~ClaimComing =>
        \/ selection = claim
        \/ Lost(ownership)
        \/ \E i \in DOMAIN toOwner : Foreign(toOwner[i])

\* The claim under way will be refused: the loss is known, or read before the answer.
Doomed ==
    \/ Lost(ownership)
    \/ \E i \in DOMAIN toOwner :
         /\ Foreign(toOwner[i])
         /\ \A j \in DOMAIN toOwner : j < i => toOwner[j].type = "selection"

\* A claim that comes overwrites only a late copy, and is then refused; so is one that
\* has overwritten a copy.
OverwritesFit ==
    /\ ClaimComing /\ claim > 1 /\ selection = Other =>
         lateCopy /\ (server = "confirming" => Doomed)
    /\ overwrote => server \in {"closed", "gone"} \/ (server = "confirming" /\ Doomed)

\* Where a delivery can be.
DeliveryFits ==
    /\ delivery.kind = "none" => delivery = NoDelivery
    /\ delivery.kind # "none" => delivery.at # "idle" /\ delivery.step \in 1..3
    /\ delivery.kind \in {"text", "copy"} => delivery.step = 1
    /\ delivery.at = "paste" => delivery.step < 3
    /\ delivery.at = "verify" => delivery.kind = "text"
    /\ reply = "asked" => delivery.at = "wait"
    /\ said # "nothing" => delivery.kind = "none"

\* The claims made, and the one that has been asked for.
Spent == claim + (IF \/ server \in {"checking", "draining"}
                     \/ server = "serving" /\ reply = "asked" THEN 1 ELSE 0)

\* Each step of a delivery makes at most one claim.
Budget == Spent <= IF delivery.kind = "none" THEN 3 ELSE delivery.step

\* The thread makes no claim without being asked again.
Settled ==
    /\ server \in {"serving", "closed", "gone"} /\ ~ClaimComing
    /\ ~overwrote

\* What was answered with success overwrote nothing; nor did a single claim.
SuccessFits ==
    /\ reply = "ok" => Settled
    /\ delivery.kind \in {"text", "copy"} => ~overwrote
    /\ said \in {"pasted", "copied"} => Settled \/ (Spent <= 1 /\ ~overwrote)

\* The inductive invariant behind NewerCopyPreserved and OverwriteReported.
ClipInv ==
    /\ ClipTypeOK /\ RequestsFit /\ AnswersFit /\ CheckedFits /\ ActiveFits /\ Aware
    /\ OverwritesFit /\ DeliveryFits /\ Budget /\ SuccessFits /\ OverwriteReported

-----------------------------------------------------------------------------
(* The queues.                                                             *)

\* Requests: what there can be, and what is left when the first is handled.
LEMMA Requests ==
    /\ Head(<<"bind">>) = "bind" /\ Tail(<<"bind">>) = <<>>
    /\ Head(<<"check">>) = "check" /\ Tail(<<"check">>) = <<>>
    /\ Head(<<"confirm">>) = "confirm" /\ Tail(<<"confirm">>) = <<>>
    /\ Head(<<"bind", "check">>) = "bind" /\ Tail(<<"bind", "check">>) = <<"check">>
    /\ Head(<<"claim", "confirm">>) = "claim"
    /\ Tail(<<"claim", "confirm">>) = <<"confirm">>
    /\ Append(<<>>, "check") = <<"check">>
    /\ Append(<<"bind">>, "check") = <<"bind", "check">>
<1>1. /\ Head(<<"bind">>) = "bind" /\ Tail(<<"bind">>) = <<>>
      /\ Head(<<"check">>) = "check" /\ Tail(<<"check">>) = <<>>
      /\ Head(<<"confirm">>) = "confirm" /\ Tail(<<"confirm">>) = <<>>
  OBVIOUS
<1>2. Head(<<"bind", "check">>) = "bind" /\ Head(<<"claim", "confirm">>) = "claim"
  OBVIOUS
<1>3. Tail(<<"bind", "check">>) = <<"check">>  OBVIOUS
<1>4. Tail(<<"claim", "confirm">>) = <<"confirm">>  OBVIOUS
<1>5. Append(<<>>, "check") = <<"check">>  OBVIOUS
<1>6. Append(<<"bind">>, "check") = <<"bind", "check">>
  <2> DEFINE s == Append(<<"bind">>, "check")
             t == <<"bind", "check">>
  <2>1. s \in Seq({"bind", "check"}) /\ t \in Seq({"bind", "check"})  OBVIOUS
  <2>2. Len(s) = 2 /\ s[1] = "bind" /\ s[2] = "check"  OBVIOUS
  <2>3. Len(t) = 2 /\ t[1] = "bind" /\ t[2] = "check"  OBVIOUS
  <2> HIDE DEF s, t
  <2>4. s = t  BY <2>1, <2>2, <2>3, SeqEqual
  <2> QED  BY <2>4 DEF s, t
<1> QED  BY <1>1, <1>2, <1>3, <1>4, <1>5, <1>6

\* A claim and the barrier after it, when nothing was left to handle.
LEMMA ClaimRequested == <<>> \o <<"claim", "confirm">> = <<"claim", "confirm">>
<1>1. <<"claim", "confirm">> \in Seq({"claim", "confirm"})  OBVIOUS
<1> QED  BY <1>1, ConcatEmptySeq

\* No two of them are equal.
LEMMA RequestsDiffer ==
    /\ <<"bind">> # <<>> /\ <<"check">> # <<>> /\ <<"confirm">> # <<>>
    /\ <<"bind", "check">> # <<>> /\ <<"claim", "confirm">> # <<>>
    /\ <<"bind">> # <<"check">> /\ <<"bind">> # <<"confirm">> /\ <<"check">> # <<"confirm">>
    /\ <<"bind", "check">> # <<"claim", "confirm">>
    /\ <<"bind", "check">> # <<"bind">> /\ <<"bind", "check">> # <<"check">>
    /\ <<"bind", "check">> # <<"confirm">>
    /\ <<"claim", "confirm">> # <<"bind">> /\ <<"claim", "confirm">> # <<"check">>
    /\ <<"claim", "confirm">> # <<"confirm">>
OBVIOUS

\* Telling adds one event at the end, or nothing when nobody listens.
LEMMA Telling ==
    ASSUME toOwner \in Seq(OwnerEvent), NEW event \in OwnerEvent, Tell(event)
    PROVE  /\ toOwner' \in Seq(OwnerEvent)
           /\ server \in {"gone", "closed"} => toOwner' = toOwner
           /\ server \notin {"gone", "closed"} =>
                /\ Len(toOwner') = Len(toOwner) + 1
                /\ toOwner'[Len(toOwner) + 1] = event
           /\ \A i \in 1..Len(toOwner) : toOwner'[i] = toOwner[i]
           /\ DOMAIN toOwner = 1..Len(toOwner) /\ DOMAIN toOwner' = 1..Len(toOwner')
           /\ Len(toOwner) \in Nat
BY DEF Tell

\* Reading takes the first event away.
LEMMA Reading ==
    ASSUME toOwner \in Seq(OwnerEvent), toOwner # <<>>, toOwner' = Tail(toOwner)
    PROVE  /\ toOwner' \in Seq(OwnerEvent) /\ Len(toOwner') = Len(toOwner) - 1
           /\ Head(toOwner) = toOwner[1] /\ Head(toOwner) \in OwnerEvent
           /\ \A i \in 1..Len(toOwner') : toOwner'[i] = toOwner[i + 1]
           /\ DOMAIN toOwner = 1..Len(toOwner) /\ DOMAIN toOwner' = 1..Len(toOwner')
           /\ Len(toOwner) \in Nat \ {0}
<1>1. /\ toOwner' \in Seq(OwnerEvent) /\ Len(toOwner') = Len(toOwner) - 1
      /\ Head(toOwner) = toOwner[1] /\ Head(toOwner) \in OwnerEvent
  BY HeadTailProperties
<1>2. Len(toOwner) \in Nat \ {0}  OBVIOUS
<1>3. \A i \in 1..Len(toOwner') : toOwner'[i] = toOwner[i + 1]
  BY <1>1, <1>2
<1> QED  BY <1>1, <1>2, <1>3

\* What is told is an event.
LEMMA EventsTyped ==
    /\ Done \in OwnerEvent /\ Done.type = "done"
    /\ \A ours \in BOOLEAN, cancelled \in Claims \cup {NoClaim} :
         /\ Selection(ours, cancelled) \in OwnerEvent
         /\ Selection(ours, cancelled).type = "selection"
         /\ Selection(ours, cancelled).ours = ours
BY DEF Done, OwnerEvent, Selection, Claims, NoClaim

-----------------------------------------------------------------------------
(* The steps of a delivery.                                                *)

\* A step of the delivery that leaves the compositor and the thread alone.
LEMMA DeliveryAlone ==
    ASSUME ClipInv, UNCHANGED <<serverVars, toOwner, ownerVars>>
    PROVE  RequestsFit' /\ AnswersFit' /\ CheckedFits' /\ ActiveFits' /\ Aware' /\ OverwritesFit'
BY DEF ClipInv, serverVars, ownerVars, RequestsFit, AnswersFit, CheckedFits, ActiveFits, Aware,
       OverwritesFit, Connected, ClaimComing, Foreign, Doomed, Lost

\* The delivery goes on with another claim, asked for if the thread is still there.
LEMMA Replacing ==
    ASSUME delivery \in Delivery, NEW step \in 1..3, NEW failed \in BOOLEAN,
           Replace(step, failed)
    PROVE  /\ delivery' \in Delivery
           /\ delivery'.kind = delivery.kind /\ delivery'.step = step /\ delivery'.at = "wait"
           /\ reply' \in {"refused", "asked"} /\ said' = said
           /\ reply' = "asked" => server \notin {"gone", "closed"}
<1>1. delivery' = [delivery EXCEPT !.step = step, !.at = "wait", !.failed = failed]
  BY DEF Replace
<1>2. delivery' \in Delivery
  <2>1. delivery' = [kind |-> delivery.kind, step |-> step, at |-> "wait", failed |-> failed]
    BY <1>1 DEF Delivery
  <2>2. delivery.kind \in Kinds /\ step \in 0..3
    BY DEF Delivery
  <2> QED  BY <2>1, <2>2 DEF Delivery
<1>3. delivery'.kind = delivery.kind /\ delivery'.step = step /\ delivery'.at = "wait"
  BY <1>1 DEF Delivery
<1> QED  BY <1>2, <1>3 DEF Replace

\* No delivery is one of the states of a delivery.
LEMMA NoDeliveryTyped == NoDelivery \in Delivery
BY DEF NoDelivery, Delivery, Kinds

\* The delivery ends.
LEMMA Saying ==
    ASSUME NEW outcome, Says(outcome)
    PROVE  /\ delivery' \in Delivery /\ delivery' = NoDelivery /\ said' = outcome
           /\ delivery'.kind = "none" /\ delivery'.step = 0 /\ delivery'.at = "idle"
BY DEF Says, Delivery, NoDelivery, Kinds

\* The thread there was is told to stop.
LEMMA StopOldKeeps ==
    ASSUME ClipInv, StopOld
    PROVE  ClipInv'
<1>0. RequestsFit' /\ AnswersFit' /\ CheckedFits' /\ ActiveFits' /\ Aware' /\ OverwritesFit'
  BY DeliveryAlone DEF StopOld
<1>1. ClipTypeOK'
  BY DEF ClipInv, ClipTypeOK, StopOld, serverVars, ownerVars, Delivery, NoDelivery, Kinds,
         DeliveryFits
<1>2. DeliveryFits'
  BY DEF ClipInv, ClipTypeOK, DeliveryFits, StopOld, Delivery, NoDelivery, Kinds
<1>3. Budget'
  BY DEF ClipInv, ClipTypeOK, DeliveryFits, Budget, Spent, StopOld, serverVars, ownerVars,
         Delivery, NoDelivery, Kinds, Claims, NoClaim
<1>4. SuccessFits' /\ OverwriteReported'
  BY <1>3, RequestsDiffer
     DEF ClipInv, ClipTypeOK, DeliveryFits, Budget, Spent, SuccessFits, Settled,
         OverwriteReported, OverwritesFit, RequestsFit, ClaimComing, StopOld, serverVars,
         ownerVars, Delivery, NoDelivery, Kinds, Claims, NoClaim
<1> QED  BY <1>0, <1>1, <1>2, <1>3, <1>4 DEF ClipInv

\* The request times out.
LEMMA RequestTimesOutKeeps ==
    ASSUME ClipInv, RequestTimesOut
    PROVE  ClipInv'
<1>0. RequestsFit' /\ AnswersFit' /\ CheckedFits' /\ ActiveFits' /\ Aware' /\ OverwritesFit'
  BY DeliveryAlone DEF RequestTimesOut
<1>1. ClipTypeOK'
  BY DEF ClipInv, ClipTypeOK, RequestTimesOut, serverVars, ownerVars, Delivery, NoDelivery,
         Kinds, DeliveryFits
<1>2. DeliveryFits'
  BY DEF ClipInv, ClipTypeOK, DeliveryFits, RequestTimesOut, Delivery, NoDelivery, Kinds
<1>3. Budget'
  BY DEF ClipInv, ClipTypeOK, DeliveryFits, Budget, Spent, RequestTimesOut, serverVars,
         ownerVars, Delivery, NoDelivery, Kinds, Claims, NoClaim
<1>4. SuccessFits' /\ OverwriteReported'
  BY <1>3, RequestsDiffer
     DEF ClipInv, ClipTypeOK, DeliveryFits, Budget, Spent, SuccessFits, Settled,
         OverwriteReported, OverwritesFit, RequestsFit, ClaimComing, RequestTimesOut,
         serverVars, ownerVars, Delivery, NoDelivery, Kinds, Claims, NoClaim
<1> QED  BY <1>0, <1>1, <1>2, <1>3, <1>4 DEF ClipInv

\* The clipboard is claimed; now the key.
LEMMA ClaimedForPasteKeeps ==
    ASSUME ClipInv, ClaimedForPaste
    PROVE  ClipInv'
<1>0. RequestsFit' /\ AnswersFit' /\ CheckedFits' /\ ActiveFits' /\ Aware' /\ OverwritesFit'
  BY DeliveryAlone DEF ClaimedForPaste
<1>1. ClipTypeOK'
  BY DEF ClipInv, ClipTypeOK, ClaimedForPaste, serverVars, ownerVars, Delivery, NoDelivery,
         Kinds, DeliveryFits
<1>2. DeliveryFits'
  BY DEF ClipInv, ClipTypeOK, DeliveryFits, ClaimedForPaste, Delivery, NoDelivery, Kinds
<1>3. Budget'
  BY DEF ClipInv, ClipTypeOK, DeliveryFits, Budget, Spent, ClaimedForPaste, serverVars,
         ownerVars, Delivery, NoDelivery, Kinds, Claims, NoClaim
<1>4. SuccessFits' /\ OverwriteReported'
  BY <1>3, RequestsDiffer
     DEF ClipInv, ClipTypeOK, DeliveryFits, Budget, Spent, SuccessFits, Settled,
         OverwriteReported, OverwritesFit, RequestsFit, ClaimComing, ClaimedForPaste,
         serverVars, ownerVars, Delivery, NoDelivery, Kinds, Claims, NoClaim
<1> QED  BY <1>0, <1>1, <1>2, <1>3, <1>4 DEF ClipInv

\* Copy last ends.
LEMMA ClaimedForCopyKeeps ==
    ASSUME ClipInv, ClaimedForCopy
    PROVE  ClipInv'
<1>0. RequestsFit' /\ AnswersFit' /\ CheckedFits' /\ ActiveFits' /\ Aware' /\ OverwritesFit'
  BY DeliveryAlone DEF ClaimedForCopy
<1>1. ClipTypeOK'
  BY DEF ClipInv, ClipTypeOK, ClaimedForCopy, Says, serverVars, ownerVars, Delivery,
         NoDelivery, Kinds, DeliveryFits
<1>2. DeliveryFits'
  BY DEF ClipInv, ClipTypeOK, DeliveryFits, ClaimedForCopy, Says, Delivery, NoDelivery, Kinds
<1>3. Budget'
  BY DEF ClipInv, ClipTypeOK, DeliveryFits, Budget, Spent, ClaimedForCopy, Says, serverVars,
         ownerVars, Delivery, NoDelivery, Kinds, Claims, NoClaim
<1>4. SuccessFits' /\ OverwriteReported'
  BY <1>3, RequestsDiffer
     DEF ClipInv, ClipTypeOK, DeliveryFits, Budget, Spent, SuccessFits, Settled,
         OverwriteReported, OverwritesFit, RequestsFit, ClaimComing, ClaimedForCopy, Says,
         serverVars, ownerVars, Delivery, NoDelivery, Kinds, Claims, NoClaim
<1> QED  BY <1>0, <1>1, <1>2, <1>3, <1>4 DEF ClipInv

\* The text is read back.
LEMMA VerifyTextKeeps ==
    ASSUME ClipInv, VerifyText
    PROVE  ClipInv'
<1>0. RequestsFit' /\ AnswersFit' /\ CheckedFits' /\ ActiveFits' /\ Aware' /\ OverwritesFit'
  BY DeliveryAlone DEF VerifyText
<1>1. ClipTypeOK'
  BY DEF ClipInv, ClipTypeOK, VerifyText, Says, Holds, serverVars, ownerVars, Delivery,
         NoDelivery, Kinds, DeliveryFits
<1>2. DeliveryFits'
  BY DEF ClipInv, ClipTypeOK, DeliveryFits, VerifyText, Says, Holds, Delivery, NoDelivery, Kinds
<1>3. Budget'
  BY DEF ClipInv, ClipTypeOK, DeliveryFits, Budget, Spent, VerifyText, Says, Holds,
         serverVars, ownerVars, Delivery, NoDelivery, Kinds, Claims, NoClaim
<1>4. SuccessFits' /\ OverwriteReported'
  BY <1>3, RequestsDiffer
     DEF ClipInv, ClipTypeOK, DeliveryFits, Budget, Spent, SuccessFits, Settled,
         OverwriteReported, OverwritesFit, RequestsFit, ClaimComing, VerifyText, Says,
         Holds, serverVars, ownerVars, Delivery, NoDelivery, Kinds, Claims, NoClaim
<1> QED  BY <1>0, <1>1, <1>2, <1>3, <1>4 DEF ClipInv

\* The drawing is looked at.
LEMMA LookAtBundleKeeps ==
    ASSUME ClipInv, LookAtBundle
    PROVE  ClipInv'
<1>0. RequestsFit' /\ AnswersFit' /\ CheckedFits' /\ ActiveFits' /\ Aware' /\ OverwritesFit'
  BY DeliveryAlone DEF LookAtBundle
<1>1. ClipTypeOK'
  BY DEF ClipInv, ClipTypeOK, LookAtBundle, Says, serverVars, ownerVars, Delivery,
         NoDelivery, Kinds, DeliveryFits
<1>2. DeliveryFits'
  BY DEF ClipInv, ClipTypeOK, DeliveryFits, LookAtBundle, Says, Delivery, NoDelivery, Kinds
<1>3. Budget'
  BY DEF ClipInv, ClipTypeOK, DeliveryFits, Budget, Spent, LookAtBundle, Says, serverVars,
         ownerVars, Delivery, NoDelivery, Kinds, Claims, NoClaim
<1>4. SuccessFits' /\ OverwriteReported'
  BY <1>3, RequestsDiffer
     DEF ClipInv, ClipTypeOK, DeliveryFits, Budget, Spent, SuccessFits, Settled,
         OverwriteReported, OverwritesFit, RequestsFit, ClaimComing, LookAtBundle, Says,
         serverVars, ownerVars, Delivery, NoDelivery, Kinds, Claims, NoClaim
<1> QED  BY <1>0, <1>1, <1>2, <1>3, <1>4 DEF ClipInv

\* A delivery of a drawing asks for its next claim.
LEMMA ReplaceKeeps ==
    ASSUME ClipInv, delivery.kind \in Drawings, NEW step \in 1..3, delivery.step < step,
           NEW failed \in BOOLEAN, Replace(step, failed), reply # "asked",
           UNCHANGED <<serverVars, toOwner, ownerVars, stopOwner, copies>>
    PROVE  ClipInv'
<1>0. RequestsFit' /\ AnswersFit' /\ CheckedFits' /\ ActiveFits' /\ Aware' /\ OverwritesFit'
  BY DeliveryAlone
<1>. delivery \in Delivery  BY DEF ClipInv, ClipTypeOK
<1>1. ClipTypeOK'
  BY Replacing DEF ClipInv, ClipTypeOK, serverVars, ownerVars
<1>2. DeliveryFits'
  BY Replacing DEF ClipInv, DeliveryFits, Drawings
<1>3. Budget'
  <2>1. Spent \in Int /\ Spent <= delivery.step /\ delivery.step \in Int
    BY DEF ClipInv, ClipTypeOK, Budget, Spent, Delivery, Drawings, Claims, NoClaim
  <2>2. Spent' <= Spent + 1
    BY DEF ClipInv, ClipTypeOK, Spent, Claims, NoClaim, ownerVars
  <2>3. delivery'.kind # "none" /\ delivery'.step = step
    BY Replacing DEF Drawings
  <2> QED  BY <2>1, <2>2, <2>3 DEF Budget, Spent, ClipInv, ClipTypeOK, Claims, NoClaim, ownerVars
<1>4. SuccessFits' /\ OverwriteReported'
  BY Replacing DEF ClipInv, SuccessFits, OverwriteReported, Drawings, DeliveryFits, serverVars
<1> QED  BY <1>0, <1>1, <1>2, <1>3, <1>4 DEF ClipInv

\* The image or the text could not be offered; both together are tried.
LEMMA NotClaimedKeeps ==
    ASSUME ClipInv, NotClaimed
    PROVE  ClipInv'
<1>1. delivery.step < 3 /\ 3 \in 1..3 /\ TRUE \in BOOLEAN /\ reply # "asked"
  BY DEF NotClaimed
<1> QED  BY <1>1, ReplaceKeeps DEF NotClaimed

\* The key was pressed: the text ends or is looked at, a drawing goes on.
LEMMA PastesKeeps ==
    ASSUME ClipInv, Pastes
    PROVE  ClipInv'
<1>0. RequestsFit' /\ AnswersFit' /\ CheckedFits' /\ ActiveFits' /\ Aware' /\ OverwritesFit'
  BY DeliveryAlone DEF Pastes
<1>1. delivery \in Delivery /\ delivery.at = "paste" /\ delivery.step \in 1..2 /\ reply # "asked"
  BY DEF ClipInv, ClipTypeOK, DeliveryFits, Pastes, Delivery, NoDelivery
<1>2. CASE delivery.kind = "text" /\ Says("pasted") /\ UNCHANGED reply
  <2>1. ClipTypeOK'
    BY <1>2, Saying DEF ClipInv, ClipTypeOK, Pastes, serverVars, ownerVars
  <2>2. DeliveryFits'
    BY <1>1, <1>2, Saying DEF ClipInv, DeliveryFits
  <2>3. Spent' = Spent /\ Spent <= 1
    BY <1>1, <1>2 DEF ClipInv, DeliveryFits, Budget, Spent, Pastes, ownerVars
  <2>4. Budget'
    BY <1>2, <2>3, Saying DEF Budget, ClipInv, ClipTypeOK, Spent, Claims, NoClaim
  <2>5. ~overwrote /\ UNCHANGED <<overwrote, reply, server, toServer>>
    BY <1>2 DEF ClipInv, SuccessFits, Pastes, serverVars, ownerVars
  <2>6. SuccessFits' /\ OverwriteReported'
    BY <1>2, <2>3, <2>5, Saying
       DEF ClipInv, SuccessFits, OverwriteReported, Settled, ClaimComing
  <2> QED  BY <1>0, <2>1, <2>2, <2>4, <2>6 DEF ClipInv
<1>3. CASE /\ delivery.kind = "text" /\ delivery' = [delivery EXCEPT !.at = "look"]
           /\ UNCHANGED <<reply, said>>
  <2>1. /\ delivery' \in Delivery /\ delivery'.kind = delivery.kind
        /\ delivery'.step = delivery.step /\ delivery'.at = "look"
    BY <1>1, <1>3 DEF Delivery
  <2>2. ClipTypeOK'
    BY <1>3, <2>1 DEF ClipInv, ClipTypeOK, Pastes, serverVars, ownerVars
  <2>3. DeliveryFits'
    BY <1>1, <1>3, <2>1 DEF ClipInv, DeliveryFits
  <2>4. Budget'
    BY <1>3, <2>1 DEF ClipInv, Budget, Spent, Pastes, ownerVars
  <2>5. SuccessFits' /\ OverwriteReported'
    BY <1>3, <2>1
       DEF ClipInv, SuccessFits, OverwriteReported, Settled, ClaimComing, Spent, Pastes,
           serverVars, ownerVars
  <2> QED  BY <1>0, <2>2, <2>3, <2>4, <2>5 DEF ClipInv
<1>4. CASE delivery.kind \in Drawings /\ Replace(delivery.step + 1, FALSE)
  <2>1. delivery.step + 1 \in 1..3 /\ delivery.step < delivery.step + 1 /\ FALSE \in BOOLEAN
    BY <1>1
  <2> QED  BY <1>1, <1>4, <2>1, ReplaceKeeps DEF Pastes
<1>5. CASE delivery.kind \in Drawings /\ Replace(3, TRUE)
  <2>1. 3 \in 1..3 /\ delivery.step < 3 /\ TRUE \in BOOLEAN
    BY <1>1
  <2> QED  BY <1>1, <1>5, <2>1, ReplaceKeeps DEF Pastes
<1> QED  BY <1>2, <1>3, <1>4, <1>5 DEF Pastes

\* Both together were offered, or not: the delivery ends, or the drawing is looked at.
LEMMA BundleOfferedKeeps ==
    ASSUME ClipInv, BundleOffered
    PROVE  ClipInv'
<1>0. RequestsFit' /\ AnswersFit' /\ CheckedFits' /\ ActiveFits' /\ Aware' /\ OverwritesFit'
  BY DeliveryAlone DEF BundleOffered
<1>1. /\ delivery \in Delivery /\ reply \in {"ok", "refused"} /\ reply' = "none"
      /\ UNCHANGED <<overwrote, server, toServer, claim, serverVars, ownerVars>>
      /\ delivery.step = 3
  BY DEF ClipInv, ClipTypeOK, BundleOffered, serverVars, ownerVars
<1>2. Spent' = Spent
  BY <1>1 DEF Spent
<1>3. CASE Says(IF reply = "ok" THEN "pasted" ELSE "failed") \/ Says("failed")
  <2> DEFINE outcome == IF Says("failed") THEN "failed" ELSE "pasted"
  <2>1. Says(outcome) /\ (outcome = "pasted" => reply = "ok")
    BY <1>3
  <2>2. outcome \in {"pasted", "failed"}  OBVIOUS
  <2> HIDE DEF outcome
  <2>3. ClipTypeOK'
    BY <1>1, <2>1, <2>2, Saying DEF ClipInv, ClipTypeOK, BundleOffered, serverVars, ownerVars
  <2>4. DeliveryFits'
    BY <1>1, <2>1, Saying DEF DeliveryFits
  <2>5. Budget'
    BY <1>1, <1>2, <2>1, Saying
       DEF ClipInv, ClipTypeOK, Budget, Spent, Delivery, Claims, NoClaim, Kinds
  <2>6. SuccessFits' /\ OverwriteReported'
    BY <1>1, <2>1, <2>2, Saying
       DEF ClipInv, SuccessFits, OverwriteReported, Settled, ClaimComing
  <2> QED  BY <1>0, <2>3, <2>4, <2>5, <2>6 DEF ClipInv
<1>4. CASE delivery' = [delivery EXCEPT !.at = "look"] /\ UNCHANGED said
  <2>1. /\ delivery' \in Delivery /\ delivery'.kind = delivery.kind
        /\ delivery'.step = delivery.step /\ delivery'.at = "look"
    BY <1>1, <1>4 DEF Delivery
  <2>2. ClipTypeOK'
    BY <1>1, <1>4, <2>1 DEF ClipInv, ClipTypeOK, BundleOffered, serverVars, ownerVars
  <2>3. DeliveryFits'
    BY <1>1, <1>4, <2>1 DEF ClipInv, DeliveryFits, NoDelivery
  <2>4. Budget'
    BY <1>2, <2>1 DEF ClipInv, Budget
  <2>5. SuccessFits' /\ OverwriteReported'
    BY <1>1, <1>2, <1>4, <2>1
       DEF ClipInv, SuccessFits, OverwriteReported, Settled, ClaimComing
  <2> QED  BY <1>0, <2>2, <2>3, <2>4, <2>5 DEF ClipInv
<1> QED  BY <1>3, <1>4 DEF BundleOffered

-----------------------------------------------------------------------------
(* The compositor and the user.                                            *)

\* What is told later leaves a doomed claim doomed.
LEMMA DoomedStays ==
    ASSUME toOwner \in Seq(OwnerEvent), NEW event \in OwnerEvent, Tell(event),
           ownership' = ownership, Doomed
    PROVE  Doomed'
<1>1. CASE Lost(ownership)
  BY <1>1 DEF Doomed, Lost
<1>2. CASE \E i \in DOMAIN toOwner :
             /\ Foreign(toOwner[i])
             /\ \A j \in DOMAIN toOwner : j < i => toOwner[j].type = "selection"
  <2>1. PICK i \in 1..Len(toOwner) :
             /\ Foreign(toOwner[i])
             /\ \A j \in 1..Len(toOwner) : j < i => toOwner[j].type = "selection"
    BY <1>2, Telling
  <2>2. i \in 1..Len(toOwner') /\ toOwner'[i] = toOwner[i]
    BY <2>1, Telling
  <2>3. \A j \in 1..Len(toOwner') : j < i => toOwner'[j].type = "selection"
    BY <2>1, Telling
  <2> QED  BY <2>1, <2>2, <2>3, Telling DEF Doomed, Foreign
<1> QED  BY <1>1, <1>2 DEF Doomed

\* Somebody else takes the clipboard: the thread hears of it, before any later answer.
LEMMA Elsewhere ==
    ASSUME ClipInv, selection' \in {Other, WlCopy},
           NEW cancelled \in Claims \cup {NoClaim}, Tell(Selection(FALSE, cancelled)),
           selection' = Other => lateCopy' = checked,
           UNCHANGED <<toServer, checked, overwrote, ownerVars>>
    PROVE  RequestsFit' /\ AnswersFit' /\ CheckedFits' /\ ActiveFits' /\ Aware' /\ OverwritesFit'
<1> DEFINE event == Selection(FALSE, cancelled)
<1>1. /\ toOwner \in Seq(OwnerEvent) /\ event \in OwnerEvent /\ Tell(event)
      /\ event.type = "selection" /\ ~event.ours
  BY EventsTyped DEF ClipInv, ClipTypeOK
<1> HIDE DEF event
<1>2. UNCHANGED <<toServer, checked, overwrote, server, ownership, claim>>
  BY DEF ownerVars
<1>3. RequestsFit' /\ CheckedFits' /\ ActiveFits'
  BY <1>2 DEF ClipInv, RequestsFit, CheckedFits, ActiveFits, Connected, ClaimComing
<1>4. AnswersFit'
  <2> SUFFICES ASSUME NEW i \in DOMAIN toOwner', toOwner'[i].type = "done"
               PROVE  /\ server' \in {"checking", "confirming"} /\ toServer' = <<>>
                      /\ \A j \in DOMAIN toOwner' : toOwner'[j].type = "done" => j = i
    BY DEF AnswersFit
  <2>1. \A j \in DOMAIN toOwner' : toOwner'[j].type = "done" =>
             j \in DOMAIN toOwner /\ toOwner'[j] = toOwner[j]
    BY <1>1, Telling
  <2> QED  BY <1>2, <2>1 DEF ClipInv, AnswersFit
<1>5. Connected => /\ Len(toOwner) + 1 \in DOMAIN toOwner'
                   /\ Foreign(toOwner'[Len(toOwner) + 1])
  BY <1>1, Telling DEF Connected, Foreign
<1>6. Aware'
  BY <1>2, <1>5 DEF Aware, Connected
<1>7. ClaimComing' /\ server' = "confirming" => Doomed'
  <2> SUFFICES ASSUME ClaimComing', server' = "confirming"
               PROVE  Doomed'
    OBVIOUS
  <2>1. toServer # <<>> /\ Connected
    BY <1>2, RequestsDiffer DEF ClaimComing, Connected
  <2>2. \A j \in DOMAIN toOwner : toOwner[j].type = "selection"
    <3>1. \A j \in DOMAIN toOwner : toOwner[j] \in OwnerEvent
      BY <1>1
    <3>2. \A j \in DOMAIN toOwner : toOwner[j].type # "done"
      BY <2>1 DEF ClipInv, AnswersFit
    <3> QED  BY <3>1, <3>2 DEF OwnerEvent
  <2>3. \A j \in DOMAIN toOwner' : j < Len(toOwner) + 1 => toOwner'[j].type = "selection"
    BY <1>1, <2>2, Telling
  <2> QED  BY <1>5, <2>1, <2>3 DEF Doomed, Foreign
<1>8. overwrote => server \in {"closed", "gone"} \/ (server = "confirming" /\ Doomed')
  BY <1>1, <1>2, DoomedStays DEF ClipInv, OverwritesFit
<1>9. OverwritesFit'
  <2>1. ClaimComing' /\ selection' = Other => lateCopy'
    BY <1>2 DEF ClipInv, CheckedFits, ClaimComing
  <2> QED  BY <1>2, <1>7, <1>8, <2>1 DEF OverwritesFit
<1> QED  BY <1>3, <1>4, <1>6, <1>9

\* The user copies.
LEMMA UserCopiesKeeps ==
    ASSUME ClipInv, UserCopies
    PROVE  ClipInv'
<1>1. PICK cancelled \in Claims \cup {NoClaim} : Tell(Selection(FALSE, cancelled))
  BY DEF UserCopies, Ours
<1>2. RequestsFit' /\ AnswersFit' /\ CheckedFits' /\ ActiveFits' /\ Aware' /\ OverwritesFit'
  BY <1>1, Elsewhere DEF UserCopies
<1>3. toOwner' \in Seq(OwnerEvent)
  BY <1>1, EventsTyped, Telling DEF ClipInv, ClipTypeOK
<1>4. ClipTypeOK'
  BY <1>3, ClipAssumption DEF ClipInv, ClipTypeOK, UserCopies, ownerVars
<1>5. DeliveryFits' /\ Budget' /\ SuccessFits' /\ OverwriteReported'
  BY DEF ClipInv, DeliveryFits, Budget, Spent, SuccessFits, Settled, ClaimComing,
         OverwriteReported, UserCopies, ownerVars
<1> QED  BY <1>2, <1>4, <1>5 DEF ClipInv

\* wl-copy takes the clipboard for the delivery of a text.
LEMMA WlCopyRuns ==
    ASSUME ClipInv, RunWlCopy, UNCHANGED <<toServer, checked, lateCopy, overwrote, ownerVars>>
    PROVE  /\ RequestsFit' /\ AnswersFit' /\ CheckedFits' /\ ActiveFits' /\ Aware'
           /\ OverwritesFit' /\ toOwner' \in Seq(OwnerEvent) /\ selection' = WlCopy
<1>1. PICK cancelled \in Claims \cup {NoClaim} : Tell(Selection(FALSE, cancelled))
  BY DEF RunWlCopy, Ours
<1>2. selection' = WlCopy /\ WlCopy # Other
  BY DEF RunWlCopy, WlCopy, Other
<1>3. toOwner' \in Seq(OwnerEvent)
  BY <1>1, EventsTyped, Telling DEF ClipInv, ClipTypeOK
<1> QED  BY <1>1, <1>2, <1>3, Elsewhere

\* The text could not be offered: wl-copy does it, or it fails.
LEMMA CopyWithWlCopyKeeps ==
    ASSUME ClipInv, CopyWithWlCopy
    PROVE  ClipInv'
<1>1. /\ RequestsFit' /\ AnswersFit' /\ CheckedFits' /\ ActiveFits' /\ Aware'
      /\ OverwritesFit' /\ toOwner' \in Seq(OwnerEvent)
      /\ selection' \in {selection, WlCopy}
  <2>1. CASE RunWlCopy
    BY <2>1, WlCopyRuns DEF CopyWithWlCopy
  <2>2. CASE UNCHANGED <<selection, toOwner>>
    BY <2>2, DeliveryAlone DEF CopyWithWlCopy, serverVars, ClipInv, ClipTypeOK
  <2> QED  BY <2>1, <2>2 DEF CopyWithWlCopy
<1>2. /\ delivery \in Delivery /\ delivery.kind = "text" /\ ~overwrote /\ reply' = "none"
      /\ UNCHANGED <<overwrote, server, toServer, claim>>
  BY DEF ClipInv, ClipTypeOK, SuccessFits, CopyWithWlCopy, ownerVars
<1>3. \/ delivery' \in Delivery /\ delivery'.kind = "text" /\ delivery'.at = "look"
         /\ delivery'.step = delivery.step /\ said' = said
      \/ delivery' = NoDelivery /\ said' = "failed"
  BY <1>2 DEF CopyWithWlCopy, Says, Delivery
<1>4. ClipTypeOK'
  <2>1. delivery' \in Delivery /\ said' \in {said, "copied", "failed"}
    BY <1>3, NoDeliveryTyped
  <2>2. UNCHANGED <<toServer, checked, lateCopy, overwrote, server, ownership, claim,
                    stopOwner, copies>>
    BY DEF CopyWithWlCopy, ownerVars
  <2>3. reply' \in {"none", reply}
    BY DEF CopyWithWlCopy
  <2> QED  BY <1>1, <2>1, <2>2, <2>3 DEF ClipInv, ClipTypeOK
<1>5. DeliveryFits'
  BY <1>2, <1>3 DEF ClipInv, DeliveryFits, NoDelivery
<1>6. Spent' <= Spent /\ Spent \in Int /\ Spent' \in Int
  BY <1>2 DEF Spent, ClipInv, ClipTypeOK, Claims, NoClaim
<1>7. Budget'
  BY <1>2, <1>3, <1>6 DEF ClipInv, Budget, DeliveryFits, NoDelivery
<1>8. SuccessFits' /\ OverwriteReported'
  BY <1>2, <1>3 DEF ClipInv, SuccessFits, DeliveryFits, OverwriteReported, NoDelivery
<1> QED  BY <1>1, <1>4, <1>5, <1>7, <1>8 DEF ClipInv

\* What is on the clipboard is looked at.
LEMMA LookAtTextKeeps ==
    ASSUME ClipInv, LookAtText
    PROVE  ClipInv'
<1>1. /\ RequestsFit' /\ AnswersFit' /\ CheckedFits' /\ ActiveFits' /\ Aware'
      /\ OverwritesFit' /\ toOwner' \in Seq(OwnerEvent)
      /\ selection' \in {selection, WlCopy}
  <2>1. CASE RunWlCopy
    BY <2>1, WlCopyRuns DEF LookAtText
  <2>2. CASE UNCHANGED <<selection, toOwner>>
    BY <2>2, DeliveryAlone DEF LookAtText, serverVars, ClipInv, ClipTypeOK
  <2> QED  BY <2>1, <2>2 DEF LookAtText
<1>2. /\ delivery \in Delivery /\ delivery.kind = "text" /\ ~overwrote /\ reply # "asked"
      /\ delivery.step = 1 /\ UNCHANGED <<overwrote, server, toServer, claim, reply>>
  BY DEF ClipInv, ClipTypeOK, SuccessFits, DeliveryFits, LookAtText, ownerVars
<1>3. \/ delivery' \in Delivery /\ delivery'.kind = "text" /\ delivery'.at = "verify"
         /\ delivery'.step = delivery.step /\ said' = said
      \/ delivery' = NoDelivery /\ said' \in {"copied", "failed"}
  BY <1>2 DEF LookAtText, Says, Delivery
<1>4. ClipTypeOK'
  <2>1. delivery' \in Delivery /\ said' \in {said, "copied", "failed"}
    BY <1>3, NoDeliveryTyped
  <2>2. UNCHANGED <<toServer, checked, lateCopy, overwrote, server, ownership, claim,
                    stopOwner, copies>>
    BY DEF LookAtText, ownerVars
  <2>3. reply' \in {"none", reply}
    BY DEF LookAtText
  <2> QED  BY <1>1, <2>1, <2>2, <2>3 DEF ClipInv, ClipTypeOK
<1>5. DeliveryFits'
  BY <1>2, <1>3 DEF ClipInv, DeliveryFits, NoDelivery
<1>6. Spent' = Spent /\ Spent \in Int /\ Spent <= 1
  BY <1>2 DEF Spent, Budget, ClipInv, ClipTypeOK, Claims, NoClaim
<1>7. Budget'
  BY <1>2, <1>3, <1>6 DEF ClipInv, Budget, DeliveryFits, NoDelivery
<1>8. SuccessFits' /\ OverwriteReported'
  BY <1>2, <1>3, <1>6
     DEF ClipInv, SuccessFits, DeliveryFits, OverwriteReported, NoDelivery, Settled, ClaimComing
<1> QED  BY <1>1, <1>4, <1>5, <1>7, <1>8 DEF ClipInv

-----------------------------------------------------------------------------
(* The compositor handles a request.                                       *)

\* What there is to handle, and for whom.
LEMMA Handling ==
    ASSUME ClipInv, Handle
    PROVE  /\ toOwner \in Seq(OwnerEvent) /\ server # "gone" /\ server # "draining"
           /\ Connected => \A i \in DOMAIN toOwner : toOwner[i].type = "selection"
           /\ UNCHANGED <<server, ownership, claim, stopOwner, reply, delivery, said, copies,
                          lateCopy>>
           /\ toServer' \in {<<>>, <<"check">>, <<"confirm">>} /\ ~ClaimComing'
<1>1. toOwner \in Seq(OwnerEvent) /\ toServer # <<>> /\ toServer' = Tail(toServer)
  BY DEF ClipInv, ClipTypeOK, Handle
<1>2. server # "gone" /\ server # "draining"
  BY <1>1 DEF ClipInv, RequestsFit
<1>3. \A i \in DOMAIN toOwner : toOwner[i].type = "selection"
  <2>1. \A i \in DOMAIN toOwner : toOwner[i] \in OwnerEvent
    BY <1>1
  <2>2. \A i \in DOMAIN toOwner : toOwner[i].type # "done"
    BY <1>1 DEF ClipInv, AnswersFit
  <2> QED  BY <2>1, <2>2 DEF OwnerEvent
<1>4. toServer' \in {<<>>, <<"check">>, <<"confirm">>}
  BY <1>1, Requests DEF ClipInv, RequestsFit
<1>5. ~ClaimComing'
  BY <1>4, RequestsDiffer DEF ClaimComing
<1>6. UNCHANGED <<server, ownership, claim, stopOwner, reply, delivery, said, copies, lateCopy>>
  BY DEF Handle, HandleBind, HandleSync, HandleClaim, ownerVars
<1> QED  BY <1>1, <1>2, <1>3, <1>4, <1>5, <1>6

\* A check and a claim come from a thread at that point, or one that has closed since.
LEMMA WhoAsked ==
    ASSUME ClipInv, toServer # <<>>
    PROVE  /\ toServer \in {<<"bind", "check">>, <<"check">>} => server \in {"checking", "closed"}
           /\ toServer \in {<<"claim", "confirm">>, <<"confirm">>} =>
                server \in {"confirming", "closed"}
<1>1. server \in {"serving", "checking", "confirming", "closed"}
  BY DEF ClipInv, ClipTypeOK, RequestsFit
<1>2. server = "serving" => toServer = <<"bind">>
  BY DEF ClipInv, RequestsFit
<1>3. server = "checking" => toServer \in {<<"bind", "check">>, <<"check">>}
  BY DEF ClipInv, RequestsFit
<1>4. server = "confirming" => toServer \in {<<"claim", "confirm">>, <<"confirm">>}
  BY DEF ClipInv, RequestsFit
<1>5. CASE toServer = <<"bind", "check">>
  BY <1>1, <1>2, <1>4, <1>5, RequestsDiffer
<1>6. CASE toServer = <<"check">>
  BY <1>1, <1>2, <1>4, <1>6, RequestsDiffer
<1>7. CASE toServer = <<"claim", "confirm">>
  BY <1>1, <1>2, <1>3, <1>7, RequestsDiffer
<1>8. CASE toServer = <<"confirm">>
  BY <1>1, <1>2, <1>3, <1>8, RequestsDiffer
<1> QED  BY <1>5, <1>6, <1>7, <1>8

\* What is left to handle fits.
LEMMA RequestsFitHandled ==
    ASSUME ClipInv, Handle
    PROVE  RequestsFit'
<1>1. toServer # <<>> /\ toServer' = Tail(toServer)
  BY DEF Handle
<1>2. CASE toServer \in {<<"bind">>, <<"check">>, <<"confirm">>}
  <2>1. toServer' = <<>>
    BY <1>1, <1>2, Requests
  <2> QED  BY <2>1, Handling, RequestsDiffer DEF RequestsFit
<1>3. CASE toServer = <<"bind", "check">>
  <2>1. toServer' = <<"check">> /\ server \in {"checking", "closed"}
    BY <1>1, <1>3, Requests, WhoAsked
  <2> QED  BY <2>1, Handling, RequestsDiffer DEF RequestsFit
<1>4. CASE toServer = <<"claim", "confirm">>
  <2>1. toServer' = <<"confirm">> /\ server \in {"confirming", "closed"}
    BY <1>1, <1>4, Requests, WhoAsked
  <2> QED  BY <2>1, Handling, RequestsDiffer DEF RequestsFit
<1> QED  BY <1>1, <1>2, <1>3, <1>4 DEF ClipInv, RequestsFit

\* The conjuncts that a request handled leaves alone, when it overwrites nothing.
LEMMA HandledAlone ==
    ASSUME ClipInv, Handle, overwrote' = overwrote
    PROVE  DeliveryFits' /\ Budget' /\ SuccessFits' /\ OverwriteReported'
BY Handling
   DEF ClipInv, DeliveryFits, Budget, Spent, SuccessFits, Settled, OverwriteReported

\* A new client hears whose the clipboard is.
LEMMA HandleBindKeeps ==
    ASSUME ClipInv, Handle, HandleBind
    PROVE  ClipInv'
<1> DEFINE event == Selection(FALSE, NoClaim)
<1>1. event \in OwnerEvent /\ event.type = "selection" /\ Tell(event)
  BY EventsTyped DEF HandleBind
<1> HIDE DEF event
<1>2. UNCHANGED <<selection, checked, overwrote>>
  BY DEF HandleBind
<1>3. toServer \in {<<"bind">>, <<"bind", "check">>}
  BY Requests DEF ClipInv, RequestsFit, HandleBind, Handle
<1>4. claim = NoClaim \/ ~Connected
  BY <1>3 DEF ClipInv, RequestsFit
<1>5. ClipTypeOK'
  <2>1. toServer' \in {<<>>, <<"check">>}
    BY <1>3, Requests DEF Handle
  <2>2. toServer' \in Seq({"bind", "check", "claim", "confirm"}) /\ Len(toServer') <= 3
    <3>1. CASE toServer' = <<>>  BY <3>1
    <3>2. CASE toServer' = <<"check">>  BY <3>2
    <3> QED  BY <2>1, <3>1, <3>2
  <2> QED  BY <1>1, <1>2, <2>2, Telling, Handling DEF ClipInv, ClipTypeOK
<1>6. AnswersFit'
  <2>1. CASE Connected
    BY <1>1, <2>1, Telling, Handling DEF AnswersFit
  <2>2. CASE ~Connected
    BY <1>1, <2>2, Telling, Handling DEF AnswersFit, ClipInv, Connected
  <2> QED  BY <2>1, <2>2
<1>7. CheckedFits'
  <2>1. server = "checking" => toServer' # <<>>
    BY <1>3, Requests, RequestsDiffer DEF ClipInv, RequestsFit, Handle
  <2> QED  BY <2>1, Handling DEF CheckedFits
<1>8. ActiveFits'
  BY Handling DEF ClipInv, ActiveFits, Connected
<1>9. Aware'
  BY <1>4, Handling DEF Aware, Connected
<1>10. OverwritesFit'
  BY <1>1, <1>2, Handling, DoomedStays DEF ClipInv, OverwritesFit
<1> QED  BY <1>2, <1>5, <1>6, <1>7, <1>8, <1>9, <1>10, RequestsFitHandled, HandledAlone
         DEF ClipInv

\* A barrier is answered.
LEMMA HandleSyncKeeps ==
    ASSUME ClipInv, Handle, HandleSync
    PROVE  ClipInv'
<1>1. Done \in OwnerEvent /\ Done.type = "done" /\ Tell(Done)
  BY EventsTyped DEF HandleSync
<1>2. UNCHANGED <<selection, overwrote>> /\ checked' \in BOOLEAN
  BY DEF HandleSync
<1>3. toServer \in {<<"check">>, <<"confirm">>} /\ toServer' = <<>>
  BY Requests DEF ClipInv, RequestsFit, HandleSync, Handle
<1>4. Connected => server \in {"checking", "confirming"}
  BY <1>3, RequestsDiffer DEF ClipInv, RequestsFit, Connected
<1>5. ClipTypeOK'
  <2>1. toServer' \in Seq({"bind", "check", "claim", "confirm"}) /\ Len(toServer') <= 3
    BY <1>3
  <2> QED  BY <1>1, <1>2, <2>1, Telling, Handling DEF ClipInv, ClipTypeOK
<1>6. AnswersFit'
  <2>1. CASE Connected
    <3>1. server' \in {"checking", "confirming"} /\ toServer' = <<>>
      BY <1>3, <1>4, <2>1, Handling
    <3>2. \A j \in DOMAIN toOwner' : toOwner'[j].type = "done" => j = Len(toOwner')
      BY <1>1, <2>1, Telling, Handling DEF Connected
    <3> QED  BY <3>1, <3>2 DEF AnswersFit
  <2>2. CASE ~Connected
    <3>1. server = "closed"
      BY <2>2, Handling DEF ClipInv, ClipTypeOK, Connected
    <3>2. toOwner' = toOwner
      BY <1>1, <3>1, Telling, Handling
    <3> QED  BY <3>1, <3>2, Handling DEF AnswersFit, ClipInv
  <2> QED  BY <2>1, <2>2
<1>7. CheckedFits'
  <2>1. server = "checking" => toServer = <<"check">>
    BY <1>3, RequestsDiffer DEF ClipInv, RequestsFit
  <2>2. server = "checking" => checked'
    BY <2>1, Requests DEF HandleSync
  <2> QED  BY <2>2, Handling DEF CheckedFits
<1>8. ActiveFits'
  BY Handling DEF ClipInv, ActiveFits, Connected
<1>9. Aware'
  <2> SUFFICES ASSUME Connected, claim # NoClaim, selection # claim, ~Lost(ownership)
               PROVE  \E i \in DOMAIN toOwner' : Foreign(toOwner'[i])
    BY <1>2, Handling DEF Aware, Connected
  <2>1. ~ClaimComing
    BY <1>3, RequestsDiffer DEF ClaimComing
  <2>2. PICK i \in DOMAIN toOwner : Foreign(toOwner[i])
    BY <2>1 DEF ClipInv, Aware
  <2>3. i \in DOMAIN toOwner' /\ toOwner'[i] = toOwner[i]
    BY <1>1, <2>2, Telling, Handling
  <2> QED  BY <2>2, <2>3
<1>10. OverwritesFit'
  BY <1>1, <1>2, Handling, DoomedStays DEF ClipInv, OverwritesFit
<1> QED  BY <1>2, <1>5, <1>6, <1>7, <1>8, <1>9, <1>10, RequestsFitHandled, HandledAlone
         DEF ClipInv

\* A claim takes the clipboard: what the user copied meanwhile is overwritten, which
\* the claims before it make possible only for a thread that is doomed to hear of it.
LEMMA HandleClaimKeeps ==
    ASSUME ClipInv, Handle, HandleClaim
    PROVE  ClipInv'
<1>1. PICK cancelled \in Claims \cup {NoClaim} : Tell(Selection(TRUE, cancelled))
  BY DEF HandleClaim, Ours
<1> DEFINE event == Selection(TRUE, cancelled)
<1>2. event \in OwnerEvent /\ event.type = "selection" /\ Tell(event)
  BY <1>1, EventsTyped
<1> HIDE DEF event
<1>3. ClaimComing /\ toServer' = <<"confirm">>
  BY Requests DEF ClipInv, RequestsFit, HandleClaim, Handle, ClaimComing
<1>4. /\ selection' = claim /\ claim \in Claims /\ ~checked'
      /\ overwrote' = (overwrote \/ (selection = Other /\ claim > 1))
  BY <1>3 DEF HandleClaim, ClipInv, ActiveFits, ClipTypeOK
<1>5. Connected => server = "confirming"
  BY <1>3, RequestsDiffer DEF ClipInv, RequestsFit, Connected, ClaimComing
<1>6. ClipTypeOK'
  <2>1. toServer' \in Seq({"bind", "check", "claim", "confirm"}) /\ Len(toServer') <= 3
    BY <1>3
  <2>2. overwrote' \in BOOLEAN /\ checked' \in BOOLEAN /\ toOwner' \in Seq(OwnerEvent)
    BY <1>2, Telling, Handling DEF HandleClaim
  <2> QED  BY <1>4, <2>1, <2>2, Handling DEF ClipInv, ClipTypeOK
<1>7. AnswersFit'
  <2>1. CASE Connected
    BY <1>2, <2>1, Telling, Handling DEF AnswersFit
  <2>2. CASE ~Connected
    BY <1>2, <2>2, Telling, Handling DEF AnswersFit, ClipInv, Connected
  <2> QED  BY <2>1, <2>2
<1>8. CheckedFits' /\ ActiveFits'
  BY <1>5, Handling DEF ClipInv, CheckedFits, ActiveFits, Connected
<1>9. Aware'
  BY <1>4, Handling DEF Aware, Connected
<1>10. OverwritesFit'
  <2>1. overwrote' => server = "closed" \/ (server = "confirming" /\ Doomed)
    BY <1>3, <1>4, <1>5, Handling DEF ClipInv, OverwritesFit, ClipTypeOK, Connected
  <2> QED  BY <1>2, <2>1, Handling, DoomedStays DEF OverwritesFit
<1>11. DeliveryFits' /\ Budget'
  BY Handling DEF ClipInv, DeliveryFits, Budget, Spent
<1>12. reply # "ok" /\ ~Settled
  BY <1>3 DEF ClipInv, SuccessFits, Settled
<1>13. Spent <= 1 => overwrote' = overwrote
  <2>1. Spent <= 1 => ~(claim > 1)
    BY <1>4 DEF Spent, Claims
  <2>2. overwrote \in BOOLEAN
    BY DEF ClipInv, ClipTypeOK
  <2> QED  BY <1>4, <2>1, <2>2
<1>14. delivery.kind \in {"text", "copy"} => Spent <= 1
  BY DEF ClipInv, Budget, DeliveryFits
<1>15. SuccessFits' /\ OverwriteReported'
  <2>1. Spent' = Spent
    BY Handling DEF Spent
  <2>2. delivery.kind \in {"text", "copy"} => ~overwrote'
    BY <1>13, <1>14 DEF ClipInv, SuccessFits
  <2>3. said \in {"pasted", "copied"} => Spent <= 1 /\ ~overwrote'
    BY <1>12, <1>13 DEF ClipInv, SuccessFits
  <2> QED  BY <1>12, <2>1, <2>2, <2>3, Handling DEF SuccessFits, OverwriteReported
<1> QED  BY <1>6, <1>7, <1>8, <1>9, <1>10, <1>11, <1>15, RequestsFitHandled DEF ClipInv

\* The connection is closed, and what the thread offered is gone.
LEMMA HangUpKeeps ==
    ASSUME ClipInv, HangUp
    PROVE  ClipInv'
<1>1. /\ server' = "gone" /\ toServer = <<>> /\ toServer' = <<>> /\ toOwner' = <<>>
      /\ claim' = NoClaim /\ checked' = FALSE /\ ownership' = Unowned
      /\ selection' \in {selection, Empty}
      /\ UNCHANGED <<lateCopy, overwrote, stopOwner, reply, delivery, said, copies>>
  BY DEF HangUp
<1>2. ClipTypeOK'
  <2>1. Unowned \in Ownership
    BY DEF Unowned, Ownership
  <2>2. toOwner' \in Seq(OwnerEvent)
    BY <1>1
  <2> QED  BY <1>1, <2>1, <2>2 DEF ClipInv, ClipTypeOK
<1>3. RequestsFit' /\ ~ClaimComing'
  BY <1>1, RequestsDiffer DEF RequestsFit, ClaimComing
<1>4. AnswersFit'
  BY <1>1 DEF AnswersFit
<1>5. CheckedFits' /\ ActiveFits' /\ Aware' /\ OverwritesFit'
  BY <1>1, <1>3 DEF CheckedFits, ActiveFits, Aware, OverwritesFit, Connected
<1>6. DeliveryFits'
  BY <1>1 DEF ClipInv, DeliveryFits
<1>7. Spent' = 0 /\ 0 <= Spent
  BY <1>1 DEF Spent, NoClaim, ClipInv, ClipTypeOK, Claims
<1>8. Budget'
  BY <1>1, <1>7 DEF ClipInv, Budget, ClipTypeOK, Delivery
<1>9. SuccessFits' /\ OverwriteReported'
  BY <1>1, <1>3, <1>7 DEF ClipInv, SuccessFits, Settled, OverwriteReported
<1> QED  BY <1>2, <1>3, <1>4, <1>5, <1>6, <1>8, <1>9 DEF ClipInv

-----------------------------------------------------------------------------
(* The owner thread.                                                       *)

\* What is seen of the clipboard: a loss is remembered, and one more becomes known.
LEMMA Seeing ==
    ASSUME ownership \in Ownership, NEW event \in OwnerEvent,
           ownership' = SawSelection(ownership, event)
    PROVE  /\ ownership' \in Ownership /\ ownership'.active = ownership.active
           /\ Lost(ownership) => Lost(ownership')
           /\ ownership.active /\ Foreign(event) => Lost(ownership')
<1>1. ownership' \in Ownership
  BY DEF SawSelection, Ownership, OwnerEvent
<1>2. ownership'.active = ownership.active
  BY DEF SawSelection, Ownership
<1>3. ownership'.owned = (/\ ownership.owned /\ (ownership.active => event.ours)
                          /\ ~(event.cancelled = claim /\ claim # NoClaim))
  BY DEF SawSelection, Ownership
<1> QED  BY <1>1, <1>2, <1>3 DEF Lost, Foreign

\* An event read leaves the thread aware of what it has lost.
LEMMA Learning ==
    ASSUME ClipInv, toOwner # <<>>, toOwner' = Tail(toOwner),
           ownership' = SawSelection(ownership, Head(toOwner)), Head(toOwner).type = "selection",
           Connected, UNCHANGED <<serverVars, server, claim>>
    PROVE  /\ RequestsFit' /\ AnswersFit' /\ CheckedFits' /\ ActiveFits' /\ Aware'
           /\ OverwritesFit' /\ toOwner' \in Seq(OwnerEvent) /\ ownership' \in Ownership
<1>1. toOwner \in Seq(OwnerEvent) /\ ownership \in Ownership
  BY DEF ClipInv, ClipTypeOK
<1>2. /\ toOwner' \in Seq(OwnerEvent) /\ Head(toOwner) = toOwner[1] /\ toOwner[1] \in OwnerEvent
      /\ Len(toOwner) \in Nat \ {0} /\ Len(toOwner') = Len(toOwner) - 1
      /\ \A i \in 1..Len(toOwner') : toOwner'[i] = toOwner[i + 1]
      /\ DOMAIN toOwner = 1..Len(toOwner) /\ DOMAIN toOwner' = 1..Len(toOwner')
  BY <1>1, Reading
<1>3. /\ ownership' \in Ownership /\ ownership'.active = ownership.active
      /\ Lost(ownership) => Lost(ownership')
      /\ ownership.active /\ Foreign(toOwner[1]) => Lost(ownership')
  BY <1>1, <1>2, Seeing
<1>4. UNCHANGED <<selection, toServer, checked, lateCopy, overwrote, server, claim>>
  BY DEF serverVars
<1>5. RequestsFit' /\ CheckedFits' /\ ActiveFits'
  BY <1>3, <1>4 DEF ClipInv, RequestsFit, CheckedFits, ActiveFits, Connected, ClaimComing
<1>6. AnswersFit'
  <2> SUFFICES ASSUME NEW i \in 1..Len(toOwner'), toOwner'[i].type = "done"
               PROVE  /\ server \in {"checking", "confirming"} /\ toServer = <<>>
                      /\ \A j \in 1..Len(toOwner') : toOwner'[j].type = "done" => j = i
    BY <1>2, <1>4 DEF AnswersFit
  <2>1. i + 1 \in DOMAIN toOwner /\ toOwner[i + 1].type = "done"
    BY <1>2
  <2>2. /\ server \in {"checking", "confirming"} /\ toServer = <<>>
        /\ \A j \in DOMAIN toOwner : toOwner[j].type = "done" => j = i + 1
    BY <2>1 DEF ClipInv, AnswersFit
  <2>3. \A j \in 1..Len(toOwner') : toOwner'[j].type = "done" => j = i
    BY <1>2, <2>2
  <2> QED  BY <2>2, <2>3
<1>7. Aware'
  <2> SUFFICES ASSUME claim # NoClaim, ~ClaimComing, selection # claim
               PROVE  Lost(ownership') \/ \E i \in DOMAIN toOwner' : Foreign(toOwner'[i])
    BY <1>4 DEF Aware, ClaimComing
  <2>1. ownership.active
    BY DEF ClipInv, ActiveFits
  <2>2. Lost(ownership) \/ \E i \in DOMAIN toOwner : Foreign(toOwner[i])
    BY DEF ClipInv, Aware
  <2>3. CASE Lost(ownership)
    BY <1>3, <2>3
  <2>4. ASSUME NEW i \in DOMAIN toOwner, Foreign(toOwner[i])
        PROVE  Lost(ownership') \/ \E k \in DOMAIN toOwner' : Foreign(toOwner'[k])
    <3>1. CASE i = 1
      BY <1>3, <2>1, <2>4, <3>1
    <3>2. CASE i # 1
      <4>1. i - 1 \in DOMAIN toOwner' /\ toOwner'[i - 1] = toOwner[i]
        BY <1>2, <3>2
      <4> QED  BY <2>4, <4>1
    <3> QED  BY <3>1, <3>2
  <2> QED  BY <2>2, <2>3, <2>4
<1>8. Doomed /\ server = "confirming" => Doomed'
  <2> SUFFICES ASSUME Doomed, server = "confirming"
               PROVE  Doomed'
    OBVIOUS
  <2>1. ownership.active
    BY DEF ClipInv, ActiveFits
  <2>2. CASE Lost(ownership)
    <3>1. Lost(ownership')  BY <1>3, <2>2
    <3> QED  BY <3>1 DEF Doomed, Lost
  <2>3. ASSUME NEW i \in DOMAIN toOwner, Foreign(toOwner[i]),
               \A j \in DOMAIN toOwner : j < i => toOwner[j].type = "selection"
        PROVE  Doomed'
    <3>1. CASE i = 1
      <4>1. Lost(ownership')  BY <1>3, <2>1, <2>3, <3>1
      <4> QED  BY <4>1 DEF Doomed, Lost
    <3>2. CASE i # 1
      <4>1. i - 1 \in DOMAIN toOwner' /\ toOwner'[i - 1] = toOwner[i]
        BY <1>2, <3>2
      <4>2. \A j \in DOMAIN toOwner' : j < i - 1 => toOwner'[j].type = "selection"
        BY <1>2, <2>3
      <4>3. Foreign(toOwner'[i - 1])
        BY <2>3, <4>1
      <4> QED  BY <4>1, <4>2, <4>3 DEF Doomed, Foreign
    <3> QED  BY <3>1, <3>2
  <2> QED  BY <2>2, <2>3 DEF Doomed
<1>9. OverwritesFit'
  BY <1>4, <1>8 DEF ClipInv, OverwritesFit, ClaimComing
<1> QED  BY <1>2, <1>3, <1>5, <1>6, <1>7, <1>9

\* An event of the clipboard is dispatched.
LEMMA DispatchKeeps ==
    ASSUME ClipInv, Dispatch
    PROVE  ClipInv'
<1>1. /\ RequestsFit' /\ AnswersFit' /\ CheckedFits' /\ ActiveFits' /\ Aware'
      /\ OverwritesFit' /\ toOwner' \in Seq(OwnerEvent) /\ ownership' \in Ownership
  BY Learning DEF Dispatch, Connected
<1>2. ClipTypeOK'
  BY <1>1 DEF ClipInv, ClipTypeOK, Dispatch, serverVars
<1>3. DeliveryFits' /\ Budget' /\ SuccessFits' /\ OverwriteReported'
  BY DEF ClipInv, DeliveryFits, Budget, Spent, SuccessFits, Settled, ClaimComing,
         OverwriteReported, Dispatch, serverVars
<1> QED  BY <1>1, <1>2, <1>3 DEF ClipInv

\* What is left to read before the claim is read: there is no answer among it.
LEMMA DrainKeeps ==
    ASSUME ClipInv, Drain
    PROVE  ClipInv'
<1>1. Head(toOwner).type = "selection"
  <2>1. toOwner \in Seq(OwnerEvent) /\ toOwner # <<>> /\ toOwner' = Tail(toOwner)
    BY DEF ClipInv, ClipTypeOK, Drain
  <2>2. Head(toOwner) = toOwner[1] /\ toOwner[1] \in OwnerEvent /\ 1 \in DOMAIN toOwner
    BY <2>1, Reading
  <2>3. toOwner[1].type # "done"
    BY <2>2 DEF ClipInv, AnswersFit, Drain
  <2> QED  BY <2>2, <2>3 DEF OwnerEvent
<1>2. /\ RequestsFit' /\ AnswersFit' /\ CheckedFits' /\ ActiveFits' /\ Aware'
      /\ OverwritesFit' /\ toOwner' \in Seq(OwnerEvent) /\ ownership' \in Ownership
  BY <1>1, Learning DEF Drain, Connected
<1>3. ClipTypeOK'
  BY <1>2 DEF ClipInv, ClipTypeOK, Drain, serverVars
<1>4. DeliveryFits' /\ Budget' /\ SuccessFits' /\ OverwriteReported'
  BY DEF ClipInv, DeliveryFits, Budget, Spent, SuccessFits, Settled, ClaimComing,
         OverwriteReported, Drain, serverVars
<1> QED  BY <1>2, <1>3, <1>4 DEF ClipInv

\* The thread ends: it makes no claim any more, and who asked is refused or still waits.
LEMMA ClosingKeeps ==
    ASSUME ClipInv, Closes, Connected, reply' \in {reply, "refused"},
           UNCHANGED <<serverVars, ownership, claim, stopOwner, delivery, said, copies>>
    PROVE  ClipInv'
<1>1. /\ server' = "closed" /\ toOwner' = <<>> /\ server # "closed"
      /\ UNCHANGED <<selection, toServer, checked, lateCopy, overwrote>>
  BY DEF Closes, Connected, serverVars
<1>2. ClipTypeOK'
  <2>1. toOwner' \in Seq(OwnerEvent)
    BY <1>1
  <2> QED  BY <1>1, <2>1 DEF ClipInv, ClipTypeOK
<1>3. RequestsFit' /\ AnswersFit' /\ CheckedFits' /\ ActiveFits' /\ Aware' /\ ~Connected'
  BY <1>1 DEF ClipInv, RequestsFit, AnswersFit, CheckedFits, ActiveFits, Aware, Connected,
              ClaimComing
<1>4. OverwritesFit'
  BY <1>1 DEF ClipInv, OverwritesFit, ClaimComing
<1>5. DeliveryFits'
  BY DEF ClipInv, DeliveryFits
<1>6. Spent' <= Spent /\ Spent \in Int /\ Spent' \in Int
  BY <1>1 DEF Spent, ClipInv, ClipTypeOK, Claims, NoClaim
<1>7. Budget'
  BY <1>6 DEF ClipInv, Budget, ClipTypeOK, Delivery
<1>8. Settled => Settled'
  BY <1>1 DEF Settled, ClaimComing
<1>9. SuccessFits' /\ OverwriteReported'
  BY <1>1, <1>6, <1>8 DEF ClipInv, SuccessFits, OverwriteReported
<1> QED  BY <1>2, <1>3, <1>4, <1>5, <1>7, <1>9 DEF ClipInv

\* The thread ends because the clipboard is lost.
LEMMA ServeEndsKeeps ==
    ASSUME ClipInv, ServeEnds
    PROVE  ClipInv'
BY ClosingKeeps DEF ServeEnds, Connected

\* The thread is stopped, or out of time.
LEMMA OwnerStopsKeeps ==
    ASSUME ClipInv, OwnerStops
    PROVE  ClipInv'
BY ClosingKeeps DEF OwnerStops, Connected

\* A request is taken, with a barrier before the claim.
LEMMA TakeRequestKeeps ==
    ASSUME ClipInv, TakeRequest
    PROVE  ClipInv'
<1>1. /\ server = "serving" /\ server' = "checking" /\ toServer' = Append(toServer, "check")
      /\ reply = "asked"
      /\ UNCHANGED <<selection, checked, lateCopy, overwrote, toOwner, ownership, claim,
                     stopOwner, reply, delivery, said, copies>>
  BY DEF TakeRequest
<1>2. toServer' \in {<<"check">>, <<"bind", "check">>}
  BY <1>1, Requests DEF ClipInv, RequestsFit
<1>3. claim # NoClaim => toServer' = <<"check">>
  BY <1>1, Requests DEF ClipInv, RequestsFit, Connected
<1>4. ~ClaimComing /\ ~ClaimComing'
  BY <1>1, <1>2, RequestsDiffer DEF ClaimComing, ClipInv, RequestsFit
<1>5. RequestsFit'
  BY <1>1, <1>2, <1>3, RequestsDiffer DEF RequestsFit
<1>6. ClipTypeOK'
  <2>1. CASE toServer' = <<"check">>
    <3>1. toServer' \in Seq({"bind", "check", "claim", "confirm"}) /\ Len(toServer') <= 3
      BY <2>1
    <3> QED  BY <1>1, <3>1 DEF ClipInv, ClipTypeOK
  <2>2. CASE toServer' = <<"bind", "check">>
    <3>1. toServer' \in Seq({"bind", "check", "claim", "confirm"}) /\ Len(toServer') <= 3
      BY <2>2
    <3> QED  BY <1>1, <3>1 DEF ClipInv, ClipTypeOK
  <2> QED  BY <1>2, <2>1, <2>2
<1>7. AnswersFit' /\ CheckedFits' /\ ActiveFits'
  BY <1>1, <1>2, <1>4, RequestsDiffer
     DEF ClipInv, AnswersFit, CheckedFits, ActiveFits, Connected
<1>8. Aware' /\ OverwritesFit'
  BY <1>1, <1>4 DEF ClipInv, Aware, OverwritesFit, Connected
<1>9. DeliveryFits' /\ Budget'
  BY <1>1 DEF ClipInv, DeliveryFits, Budget, Spent
<1>10. said = "nothing"
  BY <1>1 DEF ClipInv, DeliveryFits, NoDelivery
<1>11. SuccessFits' /\ OverwriteReported'
  BY <1>1, <1>10 DEF ClipInv, SuccessFits, OverwriteReported
<1> QED  BY <1>5, <1>6, <1>7, <1>8, <1>9, <1>11 DEF ClipInv

\* The barrier before the claim is answered.
LEMMA CheckAnsweredKeeps ==
    ASSUME ClipInv, CheckAnswered
    PROVE  ClipInv'
<1>1. CASE Closes /\ reply' = "refused"
  BY <1>1, ClosingKeeps DEF CheckAnswered, Connected
<1>2. CASE server' = "draining" /\ toOwner' = Tail(toOwner) /\ UNCHANGED reply
  <2>1. /\ server = "checking" /\ toOwner # <<>> /\ Head(toOwner).type = "done"
        /\ toOwner \in Seq(OwnerEvent)
        /\ UNCHANGED <<selection, toServer, checked, lateCopy, overwrote, ownership, claim,
                       stopOwner, delivery, said, copies>>
    BY DEF CheckAnswered, ClipInv, ClipTypeOK, serverVars
  <2>2. /\ toOwner' \in Seq(OwnerEvent) /\ Head(toOwner) = toOwner[1]
        /\ Len(toOwner) \in Nat \ {0} /\ Len(toOwner') = Len(toOwner) - 1
        /\ \A i \in 1..Len(toOwner') : toOwner'[i] = toOwner[i + 1]
        /\ DOMAIN toOwner = 1..Len(toOwner) /\ DOMAIN toOwner' = 1..Len(toOwner')
    BY <1>2, <2>1, Reading
  <2>3. toServer = <<>> /\ checked
        /\ \A j \in DOMAIN toOwner : toOwner[j].type = "done" => j = 1
    BY <2>1, <2>2 DEF ClipInv, AnswersFit, CheckedFits
  <2>4. AnswersFit'
    BY <2>2, <2>3 DEF AnswersFit
  <2>5. ~ClaimComing /\ ~ClaimComing'
    BY <2>1, <2>3, RequestsDiffer DEF ClaimComing
  <2>6. RequestsFit' /\ CheckedFits' /\ ActiveFits'
    BY <1>2, <2>1, <2>3, <2>5, RequestsDiffer
       DEF ClipInv, RequestsFit, CheckedFits, ActiveFits, Connected
  <2>7. ClipTypeOK'
    BY <1>2, <2>1, <2>2 DEF ClipInv, ClipTypeOK
  <2>8. Aware'
    <3> SUFFICES ASSUME claim # NoClaim, selection # claim, ~Lost(ownership)
                 PROVE  \E i \in DOMAIN toOwner' : Foreign(toOwner'[i])
      BY <2>1 DEF Aware
    <3>1. PICK i \in DOMAIN toOwner : Foreign(toOwner[i])
      BY <2>1, <2>5 DEF ClipInv, Aware, Connected
    <3>2. i # 1
      BY <2>1, <2>2, <3>1 DEF Foreign
    <3>3. i - 1 \in DOMAIN toOwner' /\ toOwner'[i - 1] = toOwner[i]
      BY <2>2, <3>2
    <3> QED  BY <3>1, <3>3
  <2>9. ~overwrote /\ OverwritesFit'
    BY <2>1, <2>5 DEF ClipInv, OverwritesFit
  <2>10. Spent' = Spent
    BY <1>2, <2>1 DEF Spent
  <2>11. DeliveryFits' /\ Budget' /\ SuccessFits' /\ OverwriteReported'
    BY <1>2, <2>1, <2>9, <2>10
       DEF ClipInv, DeliveryFits, Budget, SuccessFits, OverwriteReported, Settled
  <2> QED  BY <2>4, <2>6, <2>7, <2>8, <2>9, <2>11 DEF ClipInv
<1> QED  BY <1>1, <1>2 DEF CheckAnswered

\* The claim.  The thread has read all there is: if it made a claim before, it knows
\* that it has lost the clipboard, or has it still, and overwrites nothing.
LEMMA ClaimKeeps ==
    ASSUME ClipInv, Claim
    PROVE  ClipInv'
<1>1. CASE Lost(ownership)
  BY <1>1, ClosingKeeps DEF Claim, Connected, serverVars
<1>2. CASE ~Lost(ownership)
  <2>1. /\ server = "draining" /\ toOwner = <<>> /\ server' = "confirming" /\ claim' = claim + 1
        /\ ownership' = [active |-> TRUE, owned |-> TRUE, transitioning |-> TRUE,
                         foreignSeen |-> FALSE, latestOurs |-> FALSE]
        /\ UNCHANGED <<selection, checked, lateCopy, overwrote, toOwner, reply, stopOwner,
                       delivery, said, copies>>
    BY <1>2 DEF Claim
  <2>2. toServer = <<>> /\ checked /\ ~overwrote
    BY <2>1 DEF ClipInv, RequestsFit, CheckedFits, OverwritesFit
  <2>3. toServer' = <<"claim", "confirm">>
    BY <1>2, <2>2, ClaimRequested DEF Claim
  <2>4. claim \in 0..2 /\ claim' \in Claims /\ claim' # NoClaim /\ Spent' = Spent
    <3>1. claim \in 0..3 /\ Spent = claim + 1
      BY <2>1 DEF ClipInv, ClipTypeOK, Claims, NoClaim, Spent
    <3>2. Spent <= 3
      BY <3>1 DEF ClipInv, Budget, ClipTypeOK, Delivery
    <3> QED  BY <2>1, <3>1, <3>2 DEF Claims, NoClaim, Spent
  <2>5. ownership' \in Ownership /\ ownership'.active
    BY <2>1 DEF Ownership
  <2>6. toServer' \in Seq({"bind", "check", "claim", "confirm"}) /\ Len(toServer') <= 3
    BY <2>3
  <2>7. ClipTypeOK'
    BY <2>1, <2>4, <2>5, <2>6 DEF ClipInv, ClipTypeOK
  <2>8. RequestsFit'
    BY <2>1, <2>3, RequestsDiffer DEF RequestsFit
  <2>9. AnswersFit' /\ CheckedFits' /\ ActiveFits'
    BY <2>1, <2>2, <2>4, <2>5 DEF AnswersFit, CheckedFits, ActiveFits, Connected
  <2>10. Aware'
    BY <2>3 DEF Aware, ClaimComing
  <2>11. claim' > 1 => selection # Other
    <3> SUFFICES ASSUME claim' > 1
                 PROVE  selection = claim
      BY <2>4 DEF Other
    <3>1. claim # NoClaim /\ ~ClaimComing
      BY <2>1, <2>2, <2>4, RequestsDiffer DEF NoClaim, ClaimComing
    <3> QED  BY <1>2, <2>1, <3>1 DEF ClipInv, Aware, Connected
  <2>12. OverwritesFit'
    BY <2>1, <2>2, <2>11 DEF OverwritesFit
  <2>13. DeliveryFits' /\ Budget' /\ SuccessFits' /\ OverwriteReported'
    BY <2>1, <2>2, <2>4
       DEF ClipInv, DeliveryFits, Budget, SuccessFits, OverwriteReported, Settled
  <2> QED  BY <2>7, <2>8, <2>9, <2>10, <2>12, <2>13 DEF ClipInv
<1> QED  BY <1>1, <1>2

\* The barrier after the claim is answered: a claim that ends well overwrote nothing.
LEMMA ConfirmedKeeps ==
    ASSUME ClipInv, Confirmed
    PROVE  ClipInv'
<1>1. CASE ~Finish(ownership)
  BY <1>1, ClosingKeeps DEF Confirmed, Connected
<1>2. CASE Finish(ownership)
  <2>1. /\ server = "confirming" /\ toOwner # <<>> /\ Head(toOwner).type = "done"
        /\ toOwner \in Seq(OwnerEvent) /\ ownership \in Ownership
        /\ reply' = "ok" /\ server' = "serving" /\ toOwner' = Tail(toOwner)
        /\ ownership' = [ownership EXCEPT !.transitioning = FALSE]
        /\ UNCHANGED <<selection, toServer, checked, lateCopy, overwrote, claim,
                       stopOwner, delivery, said, copies>>
    BY <1>2 DEF Confirmed, ClipInv, ClipTypeOK, serverVars
  <2>2. /\ toOwner' \in Seq(OwnerEvent) /\ Head(toOwner) = toOwner[1]
        /\ Len(toOwner) \in Nat \ {0} /\ Len(toOwner') = Len(toOwner) - 1
        /\ \A i \in 1..Len(toOwner') : toOwner'[i] = toOwner[i + 1]
        /\ DOMAIN toOwner = 1..Len(toOwner) /\ DOMAIN toOwner' = 1..Len(toOwner')
    BY <2>1, Reading
  <2>3. toServer = <<>>
        /\ \A j \in DOMAIN toOwner : toOwner[j].type = "done" => j = 1
    BY <2>1, <2>2 DEF ClipInv, AnswersFit
  <2>4. /\ ownership' \in Ownership /\ ownership'.active = ownership.active
        /\ ownership'.owned = ownership.owned /\ ownership.owned
    BY <1>2, <2>1 DEF Ownership, Finish
  <2>5. AnswersFit'
    BY <2>2, <2>3 DEF AnswersFit
  <2>6. ~ClaimComing /\ ~ClaimComing'
    BY <2>1, <2>3, RequestsDiffer DEF ClaimComing
  <2>7. RequestsFit' /\ CheckedFits' /\ ActiveFits'
    BY <2>1, <2>3, <2>4, <2>6, RequestsDiffer
       DEF ClipInv, RequestsFit, CheckedFits, ActiveFits, Connected
  <2>8. ClipTypeOK'
    BY <2>1, <2>2, <2>4 DEF ClipInv, ClipTypeOK
  <2>9. Aware'
    <3> SUFFICES ASSUME claim # NoClaim, selection # claim
                 PROVE  \E i \in DOMAIN toOwner' : Foreign(toOwner'[i])
      BY <2>1 DEF Aware
    <3>1. PICK i \in DOMAIN toOwner : Foreign(toOwner[i])
      BY <2>1, <2>4, <2>6 DEF ClipInv, Aware, Connected, Lost
    <3>2. i # 1
      BY <2>1, <2>2, <3>1 DEF Foreign
    <3>3. i - 1 \in DOMAIN toOwner' /\ toOwner'[i - 1] = toOwner[i]
      BY <2>2, <3>2
    <3> QED  BY <3>1, <3>3
  <2>10. ~Doomed
    <3>1. ~Lost(ownership)
      BY <2>4 DEF Lost
    <3>2. ASSUME NEW i \in 1..Len(toOwner), Foreign(toOwner[i]),
                 \A j \in 1..Len(toOwner) : j < i => toOwner[j].type = "selection"
          PROVE  FALSE
      <4>1. i # 1
        BY <2>1, <2>2, <3>2 DEF Foreign
      <4>2. 1 \in 1..Len(toOwner) /\ 1 < i
        BY <2>2, <4>1
      <4> QED  BY <2>1, <2>2, <3>2, <4>2
    <3> QED  BY <2>2, <3>1, <3>2 DEF Doomed
  <2>11. ~overwrote /\ OverwritesFit'
    BY <2>1, <2>6, <2>10 DEF ClipInv, OverwritesFit
  <2>12. Spent' = Spent
    BY <2>1 DEF Spent
  <2>13. DeliveryFits' /\ Budget'
    BY <2>1, <2>12 DEF ClipInv, DeliveryFits, Budget
  <2>14. Settled'
    BY <2>1, <2>6, <2>11 DEF Settled
  <2>15. SuccessFits' /\ OverwriteReported'
    BY <2>1, <2>11, <2>14 DEF SuccessFits, OverwriteReported
  <2> QED  BY <2>5, <2>7, <2>8, <2>9, <2>11, <2>13, <2>15 DEF ClipInv
<1> QED  BY <1>1, <1>2

\* A delivery starts, with a new thread.
LEMMA DeliverKeeps ==
    ASSUME ClipInv, NEW kind \in Kinds \ {"none"}, Deliver(kind)
    PROVE  ClipInv'
<1>1. /\ server = "gone" /\ toServer = <<>> /\ server' = "serving" /\ stopOwner' = FALSE
      /\ ownership' = Unowned /\ claim' = NoClaim /\ toServer' = <<"bind">>
      /\ reply' = "asked" /\ said' = "nothing" /\ overwrote' = FALSE
      /\ delivery' = [kind |-> kind, step |-> 1, at |-> "wait", failed |-> FALSE]
      /\ UNCHANGED <<selection, checked, lateCopy, toOwner, copies>>
  BY DEF Deliver
<1>2. ~ClaimComing'
  BY <1>1, RequestsDiffer DEF ClaimComing
<1>3. ClipTypeOK'
  <2>1. toServer' \in Seq({"bind", "check", "claim", "confirm"}) /\ Len(toServer') <= 3
    BY <1>1
  <2>2. delivery' \in Delivery
    BY <1>1 DEF Delivery
  <2>3. ownership' \in Ownership /\ claim' \in Claims \cup {NoClaim}
    BY <1>1 DEF Unowned, Ownership
  <2> QED  BY <1>1, <2>1, <2>2, <2>3 DEF ClipInv, ClipTypeOK
<1>4. RequestsFit'
  BY <1>1, RequestsDiffer DEF RequestsFit
<1>5. AnswersFit'
  BY <1>1 DEF ClipInv, AnswersFit
<1>6. CheckedFits' /\ ActiveFits' /\ Aware' /\ OverwritesFit'
  BY <1>1, <1>2 DEF CheckedFits, ActiveFits, Aware, OverwritesFit, Unowned
<1>7. DeliveryFits'
  BY <1>1 DEF DeliveryFits
<1>8. Budget'
  BY <1>1 DEF Budget, Spent, NoClaim
<1>9. SuccessFits' /\ OverwriteReported'
  BY <1>1 DEF SuccessFits, OverwriteReported
<1> QED  BY <1>3, <1>4, <1>5, <1>6, <1>7, <1>8, <1>9 DEF ClipInv

-----------------------------------------------------------------------------
(* The theorems.                                                           *)

\* The invariant holds at the start.
LEMMA ClipInitInv ==
    ASSUME ClipInit
    PROVE  ClipInv
<1>1. ~ClaimComing
  BY RequestsDiffer DEF ClipInit, ClaimComing
<1>2. ClipTypeOK
  <2>1. Unowned \in Ownership /\ toOwner \in Seq(OwnerEvent)
    BY DEF ClipInit, Unowned, Ownership
  <2>2. toServer \in Seq({"bind", "check", "claim", "confirm"}) /\ Len(toServer) <= 3
    BY DEF ClipInit
  <2>3. delivery \in Delivery
    BY NoDeliveryTyped DEF ClipInit
  <2>4. copies \in 0..MaxCopies
    BY ClipAssumption DEF ClipInit
  <2>5. selection \in {Empty, Other, WlCopy} \cup Claims
    BY DEF ClipInit
  <2> QED  BY <2>1, <2>2, <2>3, <2>4, <2>5 DEF ClipInit, ClipTypeOK
<1>3. RequestsFit /\ AnswersFit
  BY DEF ClipInit, RequestsFit, AnswersFit, Connected
<1>4. CheckedFits /\ ActiveFits /\ Aware /\ OverwritesFit
  BY <1>1 DEF ClipInit, CheckedFits, ActiveFits, Aware, OverwritesFit, Connected
<1>5. DeliveryFits /\ Budget
  BY DEF ClipInit, DeliveryFits, NoDelivery, Budget, Spent, NoClaim
<1>6. SuccessFits /\ OverwriteReported
  BY DEF ClipInit, SuccessFits, OverwriteReported, NoDelivery
<1> QED  BY <1>2, <1>3, <1>4, <1>5, <1>6 DEF ClipInv

\* Every step keeps it.
LEMMA ClipStep ==
    ASSUME ClipInv, [ClipNext]_clipVars
    PROVE  ClipInv'
<1>1. CASE UserCopies  BY <1>1, UserCopiesKeeps
<1>2. CASE Handle
  BY <1>2, HandleBindKeeps, HandleSyncKeeps, HandleClaimKeeps DEF Handle
<1>3. CASE HangUp  BY <1>3, HangUpKeeps
<1>4. CASE OwnerSteps
  BY <1>4, DispatchKeeps, ServeEndsKeeps, OwnerStopsKeeps, TakeRequestKeeps,
     CheckAnsweredKeeps, DrainKeeps, ClaimKeeps, ConfirmedKeeps DEF OwnerSteps
<1>5. CASE DeliverySteps
  BY <1>5, StopOldKeeps, RequestTimesOutKeeps, ClaimedForPasteKeeps, ClaimedForCopyKeeps,
     PastesKeeps, NotClaimedKeeps, CopyWithWlCopyKeeps, LookAtTextKeeps, VerifyTextKeeps,
     BundleOfferedKeeps, LookAtBundleKeeps DEF DeliverySteps
<1>6. CASE \E kind \in Kinds \ {"none"} : Deliver(kind)
  BY <1>6, DeliverKeeps
<1>7. CASE UNCHANGED clipVars
  <2>1. UNCHANGED <<selection, toServer, checked, lateCopy, overwrote, toOwner, server,
                    ownership, claim, stopOwner, reply, delivery, said, copies>>
    BY <1>7 DEF clipVars, serverVars, ownerVars
  <2>2. RequestsFit' /\ AnswersFit' /\ CheckedFits' /\ ActiveFits' /\ Aware' /\ OverwritesFit'
    BY <2>1, DeliveryAlone DEF serverVars, ownerVars
  <2>3. ClipTypeOK' /\ DeliveryFits' /\ Budget' /\ SuccessFits' /\ OverwriteReported'
    BY <2>1 DEF ClipInv, ClipTypeOK, DeliveryFits, Budget, Spent, SuccessFits, Settled,
                ClaimComing, OverwriteReported
  <2> QED  BY <2>2, <2>3 DEF ClipInv
<1> QED  BY <1>1, <1>2, <1>3, <1>4, <1>5, <1>6, <1>7 DEF ClipNext

\* Every reachable state satisfies the invariant.
THEOREM ClipInvariant == ClipSpec => []ClipInv
<1>1. ClipInit => ClipInv  BY ClipInitInv
<1>2. ClipInv /\ [ClipNext]_clipVars => ClipInv'  BY ClipStep
<1> QED  BY <1>1, <1>2, PTL DEF ClipSpec

\* The variables keep their types, whatever the user copies and whenever; in particular a
\* delivery never asks for a fourth claim of the clipboard.
THEOREM ClipTypes == ClipSpec => []ClipTypeOK
<1>1. ClipInv => ClipTypeOK  BY DEF ClipInv
<1> QED  BY <1>1, ClipInvariant, PTL

\* A copy of the user's that was overwritten is reported: a delivery that says it pasted
\* or copied has overwritten none (serve, Ownership::finish).
THEOREM OverwritesReported == ClipSpec => []OverwriteReported
<1>1. ClipInv => OverwriteReported  BY DEF ClipInv
<1> QED  BY <1>1, ClipInvariant, PTL

\* What the user copies between two claims of a delivery is overwritten only if it came
\* after the compositor had answered the check that precedes the claim (serve).
THEOREM NewerCopySafe == ClipSpec => NewerCopyPreserved
<1>1. ClipInv /\ [ClipNext]_clipVars =>
        [selection = Other /\ selection' \in Claims /\ selection' > 1 => lateCopy]_clipVars
  <2> SUFFICES ASSUME ClipInv, ClipNext, selection = Other, selection' \in Claims,
                      selection' > 1
               PROVE  lateCopy
    BY DEF clipVars, serverVars, Claims, Other
  <2>1. Other \notin Claims /\ WlCopy \notin Claims /\ Empty \notin Claims
    BY DEF Other, WlCopy, Empty, Claims
  <2>2. Handle /\ HandleClaim
    BY <2>1
       DEF ClipNext, UserCopies, Handle, HandleBind, HandleSync, HangUp, OwnerSteps, Dispatch,
           ServeEnds, OwnerStops, TakeRequest, CheckAnswered, Drain, Claim, Confirmed,
           DeliverySteps, StopOld, RequestTimesOut, ClaimedForPaste, ClaimedForCopy, Pastes,
           NotClaimed, CopyWithWlCopy, RunWlCopy, LookAtText, VerifyText, BundleOffered,
           LookAtBundle, Deliver, serverVars
  <2>3. ClaimComing /\ claim > 1
    BY <2>2, Requests DEF ClipInv, RequestsFit, HandleClaim, Handle, ClaimComing
  <2> QED  BY <2>3 DEF ClipInv, OverwritesFit
<1> QED  BY <1>1, ClipInvariant, PTL DEF ClipSpec, NewerCopyPreserved
=============================================================================
