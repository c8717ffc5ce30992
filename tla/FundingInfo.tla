---------------------------- MODULE FundingInfo -----------------------------
(***************************************************************************)
(* A request for funding information: from the user API, where concurrent  *)
(* requests share one fetch, through its broker to the coordinator's loop  *)
(* and FundingInfoProcessor, to BitVMX and back.  The loop also watches    *)
(* whether BitVMX answers.                                                 *)
(*                                                                         *)
(* A task of the user API may lose the processor between the moment it     *)
(* unlocks the state and the moment it waits.  It is dropped when its      *)
(* caller goes away, or by the TimeoutLayer: after 10 s, which a fetch of  *)
(* 9 s outlasts only in a task that has waited for another one before.     *)
(***************************************************************************)
EXTENDS Naturals, Sequences

CONSTANTS
    Req,        \* HTTP requests for funding information; also the ids of their fetches
    None,
    Budgets     \* [reqs, faults, crashes, hangups, dups, posts, silent]

VARIABLES
    left,       \* what may still happen
    req,        \* where the task of each request is
    waited,     \* tasks that have waited for another one
    on,         \* the Notify a task waits for
    state,      \* FundingInfoState: [kind, of, info]
    outbox, inbox,          \* the broker's queues, to the coordinator and from it
    phase,      \* where the coordinator's loop is
    pending, old,           \* pending_requests, and those past their time to live
    replies,    \* the channel user_reply_rx
    asked, answers,         \* requests to BitVMX, and its answers
    ping, live, up,         \* bitvmx_ping, bitvmx_liveness; BitVMX runs (external)
    admin,      \* admin requests the coordinator got: with the token or not
    stolen, missed, dropped, count, faulty    \* history

api   == <<req, waited, on, state>>
coord == <<phase, pending, old, replies, ping, live>>
hist  == <<stolen, missed, dropped, count, faulty>>
vars  == <<left, api, outbox, inbox, coord, asked, answers, up, admin, hist>>

Ended   == {"ok", "error", "dropped"}
Loading == {"sending", "fetch"}

TypeOK ==
    /\ req \in [Req -> {"none", "new", "between", "waiting"} \cup Loading \cup Ended]
    /\ waited \subseteq Req /\ on \in [Req -> Req \cup {None}]
    /\ state.kind \in {"Empty", "Loading", "Ready"}
    /\ pending \subseteq Req /\ old \subseteq pending
    /\ phase \in {"liveness", "user", "replies", "bitvmx"}
    /\ live \in {"Unknown", "Healthy", "NotResponding"} /\ ping \in BOOLEAN /\ up \in BOOLEAN

Empty == [kind |-> "Empty", of |-> None, info |-> None]

Init ==
    /\ left \in Budgets
    /\ req = [r \in Req |-> "none"] /\ waited = {} /\ on = [r \in Req |-> None] /\ state = Empty
    /\ outbox = <<>> /\ inbox = <<>>
    /\ phase = "liveness" /\ pending = {} /\ old = {} /\ replies = <<>>
    /\ asked = {} /\ answers = <<>> /\ ping = FALSE /\ live = "Unknown" /\ up = TRUE /\ admin = {}
    /\ stolen = {} /\ missed = {} /\ dropped = {} /\ count = [r \in Req |-> 0] /\ faulty = FALSE

Fault == left.faults > 0 /\ left' = [left EXCEPT !.faults = @ - 1] /\ faulty' = TRUE

-----------------------------------------------------------------------------
(* The user API. *)

(* member_funding_info *)
Arrive(r) ==
    /\ req[r] = "none"
    /\ left.reqs > 0 /\ left' = [left EXCEPT !.reqs = @ - 1]
    /\ req' = [req EXCEPT ![r] = "new"]
    /\ UNCHANGED << waited, on, state, outbox, inbox, coord, asked, answers, up, admin, hist>>

(* request_funding_info, up to the unlock. *)
Enter(r) ==
    /\ req[r] = "new"
    /\ CASE state.kind = "Ready"   -> req' = [req EXCEPT ![r] = "ok"] /\ UNCHANGED <<on, state>>
         [] state.kind = "Loading" -> /\ req' = [req EXCEPT ![r] = "between"]
                                      /\ on' = [on EXCEPT ![r] = state.of]
                                      /\ UNCHANGED state
         [] state.kind = "Empty"   -> /\ req' = [req EXCEPT ![r] = "sending"]
                                      /\ state' = [kind |-> "Loading", of |-> r, info |-> None]
                                      /\ UNCHANGED on
    /\ UNCHANGED <<left, waited, outbox, inbox, coord, asked, answers, up, admin, hist>>

(* notify.notified().await *)
Await(r) ==
    /\ req[r] = "between"
    /\ req' = [req EXCEPT ![r] = "waiting"]
    /\ waited' = waited \cup {r}
    /\ UNCHANGED <<left, on, state, outbox, inbox, coord, asked, answers, up, admin, hist>>

(* Defect: a fetch that fails does not reset the state. *)
FinishKeepsLoading(r, result, info) ==
    /\ state' = IF result = "ok" THEN [kind |-> "Ready", of |-> r, info |-> info] ELSE state
    /\ req' = [q \in Req |-> IF q = r THEN result
                             ELSE IF req[q] = "waiting" /\ on[q] = state.of THEN "new"
                             ELSE req[q]]
    /\ missed' = missed

(* The end of request_funding_info: the waiters that wait already wake up. *)
Finish(r, result, info) ==
    /\ state' = IF result = "ok" THEN [kind |-> "Ready", of |-> r, info |-> info] ELSE Empty
    /\ req' = [q \in Req |-> IF q = r THEN result
                             ELSE IF req[q] = "waiting" /\ on[q] = state.of THEN "new"
                             ELSE req[q]]
    /\ missed' = missed \cup {q \in Req : req[q] = "between" /\ on[q] = state.of}

(* fetch_funding_info: the request is sent, *)
SendRequest(r) ==
    /\ req[r] = "sending"
    /\ \/ /\ outbox' = Append(outbox, <<"member", r>>)
          /\ req' = [req EXCEPT ![r] = "fetch"]
          /\ UNCHANGED <<left, state, missed, faulty>>
       \/ Fault /\ Finish(r, "error", None) /\ UNCHANGED outbox
    /\ UNCHANGED <<waited, on, inbox, coord, asked, answers, up, admin, stolen, dropped, count>>

(* and the inbox is read until its reply comes; other messages are         *)
(* discarded.                                                              *)
Poll(r) ==
    /\ req[r] = "fetch" /\ inbox # <<>>
    /\ LET msg == Head(inbox)
       IN /\ inbox' = Tail(inbox)
          /\ IF msg.id = r
             THEN Finish(r, IF msg.ok THEN "ok" ELSE "error", msg.info) /\ UNCHANGED stolen
             ELSE /\ stolen' = IF req[msg.id] = "fetch" THEN stolen \cup {msg.id} ELSE stolen
                  /\ UNCHANGED <<req, state, missed>>
    /\ UNCHANGED <<left, waited, on, outbox, coord, asked, answers, up, admin, dropped, count, faulty>>

(* The deadline of 9 s passes when something in the way was slow or lost. *)
Deadline(r) ==
    /\ req[r] = "fetch"
    /\ IF faulty THEN UNCHANGED <<left, faulty>> ELSE Fault
    /\ Finish(r, "error", None)
    /\ UNCHANGED <<waited, on, outbox, inbox, coord, asked, answers, up, admin, stolen, dropped, count>>

(* A task is dropped: by the TimeoutLayer, or with its connection. *)
Drop(r) ==
    /\ req[r] \in {"new", "between", "waiting"} \cup Loading
    /\ \/ /\ req[r] = "waiting" \/ (req[r] \in Loading /\ r \in waited)
          /\ faulty \/ r \in missed
          /\ UNCHANGED left
       \/ left.hangups > 0 /\ left' = [left EXCEPT !.hangups = @ - 1]
    /\ dropped' = IF req[r] \in Loading THEN dropped \cup {r} ELSE dropped
    /\ req' = [req EXCEPT ![r] = "dropped"]
    /\ UNCHANGED <<waited, on, state, outbox, inbox, coord, asked, answers, up, admin, stolen, missed, count, faulty>>

(* verify_admin_auth, for the configured token. *)
VerifyAdminAuth(token) == token = "configured"

(* apply_stream rebuilds the only shape that it forwards. *)
ApplyStream == outbox' = Append(outbox, <<"apply", None>>)

(* admin_fail_flow, with the payload of build_fail_flow_payload. *)
AdminFailFlow(token, valid) ==
    outbox' = IF VerifyAdminAuth(token) /\ valid THEN Append(outbox, <<"admin", token>>) ELSE outbox

Post ==
    /\ left.posts > 0 /\ left' = [left EXCEPT !.posts = @ - 1]
    /\ \/ ApplyStream
       \/ \E token \in {"configured", "none"}, valid \in BOOLEAN : AdminFailFlow(token, valid)
    /\ UNCHANGED <<api, inbox, coord, asked, answers, up, admin, hist>>

-----------------------------------------------------------------------------
(* The coordinator's loop: check_bitvmx_liveness first.  A ping may be     *)
(* late, and is sent when BitVMX was quiet for a while; None stands for it *)
(* among the requests.                                                     *)
CheckBitvmxLiveness ==
    /\ phase = "liveness" /\ phase' = "user"
    /\ \E late, quiet \in BOOLEAN :
          LET waits == ping /\ ~late
              sends == quiet /\ ~waits
          IN /\ late => ping /\ answers = <<>>
             /\ quiet => left.silent
             /\ live' = IF late THEN "NotResponding" ELSE live
             /\ ping' = (waits \/ sends)
             /\ asked' = IF sends THEN asked \cup {None} ELSE asked
    /\ UNCHANGED <<left, api, outbox, inbox, pending, old, replies, answers, up, admin, hist>>

(* evict_expired *)
Kept == pending \ old

(* Defect: BitVMX is asked only once it is known to answer. *)
ProcessUserRequestIfHealthy(r) ==
    /\ pending' = Kept \cup {r} /\ old' = {}
    /\ asked' = IF live = "Healthy" THEN asked \cup {r} ELSE asked
    /\ UNCHANGED <<left, faulty>>

(* process_user_request for FundingInfo. *)
ProcessUserRequest(r) ==
    /\ pending' = Kept \cup {r} /\ old' = {}
    /\ \/ asked' = asked \cup {r} /\ UNCHANGED <<left, faulty>>
       \/ Fault /\ UNCHANGED asked

(* try_user_request, and the processors.  A broker error that is           *)
(* recoverable leaves the message for the next turn.                       *)
TryUserRequest ==
    /\ phase = "user" /\ phase' = "replies"
    /\ \/ /\ outbox = <<>>
          /\ UNCHANGED <<left, outbox, pending, old, asked, admin, faulty>>
       \/ outbox # <<>> /\ Fault /\ UNCHANGED <<outbox, pending, old, asked, admin>>
       \/ LET msg == Head(outbox)
          IN /\ outbox # <<>> /\ outbox' = Tail(outbox)
             /\ CASE msg[1] = "member" -> ProcessUserRequest(msg[2]) /\ UNCHANGED admin
                  [] msg[1] = "admin"  -> /\ admin' = admin \cup {msg[2]} /\ pending' = Kept /\ old' = {}
                                          /\ UNCHANGED <<left, asked, faulty>>
                  [] msg[1] = "apply"  -> pending' = Kept /\ old' = {} /\ UNCHANGED <<left, admin, asked, faulty>>
    /\ UNCHANGED <<api, inbox, replies, answers, ping, live, up, stolen, missed, dropped, count>>

(* send_user_reply: a reply that cannot be delivered is dropped. *)
SendUserReplies ==
    /\ phase = "replies" /\ phase' = "bitvmx"
    /\ replies' = <<>>
    /\ \/ inbox' = inbox \o replies /\ UNCHANGED <<left, faulty>>
       \/ replies # <<>> /\ Fault /\ UNCHANGED inbox
    /\ UNCHANGED <<api, outbox, pending, old, asked, answers, ping, live, up, admin, stolen, missed, dropped, count>>

(* What is forwarded: an address of the network, or an error. *)
Forward(ans) == ans.info = "address"

(* Defect: the request stays pending. *)
TakePendingKeeps(ans) == pending

(* pending_requests.remove *)
TakePending(ans) == Kept \ {ans.id}

(* try_bitvmx_event and process_new_bitvmx_event. *)
TryBitvmxEvent ==
    /\ phase = "bitvmx" /\ phase' = "liveness"
    /\ IF answers = <<>>
       THEN UNCHANGED <<answers, ping, live, pending, old, replies, count>>
       ELSE LET ans   == Head(answers)
                known == ans.id \in Kept
            IN /\ answers' = Tail(answers)
               /\ ping' = FALSE /\ live' = "Healthy"
               /\ pending' = TakePending(ans) /\ old' = {}
               /\ replies' = IF known THEN Append(replies, [id |-> ans.id, ok |-> Forward(ans), info |-> ans.info])
                             ELSE replies
               /\ count' = IF known THEN [count EXCEPT ![ans.id] = @ + 1] ELSE count
    /\ UNCHANGED <<left, api, outbox, inbox, asked, up, admin, stolen, missed, dropped, faulty>>

(* PENDING_REQUEST_TTL passes for a request. *)
Expire ==
    /\ faulty /\ \E r \in pending \ old : old' = old \cup {r}
    /\ UNCHANGED <<left, api, outbox, inbox, phase, pending, replies, ping, live, asked, answers, up, admin, hist>>

(* The coordinator stops and starts again; the queues are the user API's. *)
Restart ==
    /\ left.crashes > 0 /\ left' = [left EXCEPT !.crashes = @ - 1] /\ faulty' = TRUE
    /\ phase' = "liveness" /\ pending' = {} /\ old' = {} /\ replies' = <<>> /\ ping' = FALSE /\ live' = "Unknown"
    /\ UNCHANGED <<api, outbox, inbox, asked, answers, up, admin, stolen, missed, dropped, count>>

-----------------------------------------------------------------------------
(* BitVMX answers, with an address, of the wrong network, or an error; it  *)
(* may repeat an answer, and may stop.                                     *)
Answer(r, info) == answers' = Append(answers, [id |-> r, info |-> info])

BitvmxAnswers(r) ==
    /\ up /\ r \in asked
    /\ asked' = asked \ {r}
    /\ \/ Answer(r, "address") /\ UNCHANGED <<left, faulty>>
       \/ r # None /\ Fault /\ \E info \in {"wrong network", "error"} : Answer(r, info)
    /\ UNCHANGED <<api, outbox, inbox, coord, up, admin, stolen, missed, dropped, count>>

BitvmxRepeats ==
    /\ up /\ left.dups > 0 /\ left' = [left EXCEPT !.dups = @ - 1]
    /\ \E r \in Req : (count[r] > 0 \/ \E i \in DOMAIN answers : answers[i].id = r) /\ Answer(r, "address")
    /\ UNCHANGED <<api, outbox, inbox, coord, asked, up, admin, hist>>

BitvmxStops ==
    /\ up /\ left.silent /\ up' = FALSE /\ faulty' = TRUE
    /\ UNCHANGED <<left, api, outbox, inbox, coord, asked, answers, admin, stolen, missed, dropped, count>>

Loop == CheckBitvmxLiveness \/ TryUserRequest \/ SendUserReplies \/ TryBitvmxEvent

Task(r) == Arrive(r) \/ Enter(r) \/ Await(r) \/ SendRequest(r) \/ Poll(r) \/ Deadline(r)

Next ==
    \/ \E r \in Req : Task(r) \/ Drop(r)
    \/ Post \/ Loop \/ Expire \/ Restart
    \/ (\E r \in Req \cup {None} : BitvmxAnswers(r)) \/ BitvmxRepeats \/ BitvmxStops

(* The tasks run, the loop runs, and BitVMX answers while it is up. *)
Spec ==
    /\ Init /\ [][Next]_vars
    /\ \A r \in Req : WF_vars(Task(r))
    /\ WF_vars(Loop) /\ SF_vars(CheckBitvmxLiveness /\ <<ping, live>>' # <<ping, live>>)
    /\ \A r \in Req \cup {None} : WF_vars(BitvmxAnswers(r))

-----------------------------------------------------------------------------
(* The inbox has no router: whoever polls it discards what is for another. *)
(* Only one task polls at a time, so no task's own reply is discarded      *)
(* while it waits for it.                                                  *)
NoReplyStolen == stolen = {}

(* A request is answered once, also when BitVMX answers again. *)
OneReply == \A r \in Req : count[r] <= 1

(* What the user API keeps and returns from then on is an address of the   *)
(* network, never an error or an address of another one.                   *)
ReadyIsAddress == state.kind = "Ready" => state.info = "address"

(* While the state is Loading a task is loading, unless that task was      *)
(* dropped: then the state stays Loading, and no request is served again.  *)
LoadingHasLoader == state.kind = "Loading" => req[state.of] \in Loading \/ state.of \in dropped

(* A task waits for the one that is loading, unless that one finished      *)
(* between the unlock and the wait.                                        *)
WaitsForLoader ==
    \A r \in Req : req[r] = "waiting" => (state.kind = "Loading" /\ state.of = on[r]) \/ r \in missed

(* One task at a time loads: it alone polls, and the others wait for it.   *)
SingleLoader == LoadingHasLoader /\ WaitsForLoader /\ NoReplyStolen

(* An admin request reaches the coordinator only with the token. *)
AdminHasToken == admin \subseteq {"configured"}

(* A request is served with an address, unless something failed, its       *)
(* connection ended, a loader was dropped or the wake-up was missed.       *)
Served ==
    \A r \in Req :
        (req[r] = "new") ~> (req[r] \in {"ok", "dropped"} \/ faulty \/ dropped # {} \/ r \in missed)

(* BitVMX that stops is noticed, and one that answers counts as healthy    *)
(* until then.                                                             *)
SilenceIsNoticed == [](~up => <>(live = "NotResponding"))

(* Requests are served and silence is noticed. *)
Responds == Served /\ SilenceIsNoticed

=============================================================================
