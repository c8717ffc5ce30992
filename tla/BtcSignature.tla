---------------------------- MODULE BtcSignature ----------------------------
(***************************************************************************)
(* The signing of one Bitcoin transaction by a committee, seen from one    *)
(* member (BaseBtcSignatureSubFlow and BtcSignatureLifeCycle): the member  *)
(* sends its nonce, waits until AllNoncesReady is confirmed, sends its     *)
(* signature and waits until AllSignaturesReady is confirmed.  The peg-in  *)
(* and the peg-out processor hold one subflow per transaction and pass it  *)
(* events and blocks.                                                      *)
(*                                                                         *)
(* A step is an Option<ConfirmableEvent>: "none", "set" once the step is   *)
(* reached, "confirming" while its event counts blocks, "confirmed" when   *)
(* it has them and no longer observes the view.  view is the subflow's own *)
(* BlockchainView: "gap" when it missed a block.                           *)
(***************************************************************************)

Steps   == {"none", "set", "confirming", "confirmed"}
Views   == {"empty", "ok", "gap"}
SubFlow == [nonces : Steps, signatures : Steps, noncesDone : BOOLEAN, done : BOOLEAN, view : Views]
NoSub   == [nonces |-> "none", signatures |-> "none", noncesDone |-> FALSE, done |-> FALSE,
            view |-> "empty"]

(* start_signature_flow, once the contract has the nonce. *)
Started == [NoSub EXCEPT !.nonces = "set"]

(* delegate_rsk_event for AllNoncesReady and AllSignaturesReady: an event  *)
(* for a step that was not reached, or for the nonces of one that is past  *)
(* them, is an error.                                                      *)
TakesEvent(s, event) ==
    CASE event = "nonces"     -> s.nonces # "none" /\ s.signatures = "none"
      [] event = "signatures" -> s.signatures # "none"

DelegateRskEvent(s, event, removed) ==
    LET step == IF removed THEN "set" ELSE "confirming"
    IN IF event = "nonces" THEN [s EXCEPT !.nonces = step] ELSE [s EXCEPT !.signatures = step]

(* A block that is not passed on leaves a gap in a view that has blocks,   *)
(* and the next one trips validate_consecutive_block.                      *)
Missed(v) == IF v = "empty" THEN "empty" ELSE "gap"

(* delegate_block, with deep the events that have their confirmations.     *)
(* The nonces count as done before the signature is sent, so an error in   *)
(* sending it is never made good.                                          *)
SendsSignature(s, deep) == ~s.noncesDone /\ s.nonces = "confirming" /\ "nonces" \in deep

Unsigned(s) == [s EXCEPT !.noncesDone = TRUE, !.nonces = "set", !.view = "ok"]
Signed(s)   == [Unsigned(s) EXCEPT !.signatures = "set"]

(* Defect: the first block of a view is not counted. *)
DelegateBlockSkipsFirst(s, deep) ==
    IF s.signatures = "confirming" /\ s.view = "ok" /\ "signatures" \in deep
    THEN [s EXCEPT !.done = TRUE, !.signatures = "confirmed", !.view = "empty"]
    ELSE [s EXCEPT !.view = "ok"]

DelegateBlock(s, deep) ==
    IF s.signatures = "confirming" /\ "signatures" \in deep
    THEN [s EXCEPT !.done = TRUE, !.signatures = "confirmed", !.view = "empty"]
    ELSE [s EXCEPT !.view = "ok"]

(* from_snapshot: the view starts anew, and what was confirming observes   *)
(* it.                                                                     *)
RestoredSub(s) == [s EXCEPT !.view = "empty",
                            !.signatures = IF @ = "confirmed" THEN "confirming" ELSE @]

=============================================================================
