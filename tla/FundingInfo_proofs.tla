------------------------- MODULE FundingInfo_proofs -------------------------
(***************************************************************************)
(* For any number of concurrent requests, and whatever fails, is dropped,  *)
(* repeated or restarted: one task at a time fetches the funding           *)
(* information, every fetch gets one reply at most, and what is kept is an *)
(* address.                                                                *)
(***************************************************************************)
EXTENDS FundingInfo, TLAPS

-----------------------------------------------------------------------------
(* What the actions do to the queues and to the tasks. *)

tasks  == <<req, on, state, stolen, missed, dropped>>
queues == <<outbox, inbox, replies, answers, asked, pending, count, admin>>

(* A step of a task touches no queue, but for its request and its reply. *)
LEMMA TaskFrame ==
    ASSUME NEW r \in Req
    PROVE  /\ Arrive(r) \/ Enter(r) \/ Await(r) \/ Deadline(r) \/ Drop(r) => UNCHANGED queues
           /\ SendRequest(r) =>
                 /\ outbox' = Append(outbox, <<"member", r>>) \/ UNCHANGED outbox
                 /\ UNCHANGED <<inbox, replies, answers, asked, pending, count, admin>>
           /\ Poll(r) =>
                 /\ inbox # <<>> /\ inbox' = Tail(inbox)
                 /\ UNCHANGED <<outbox, replies, answers, asked, pending, count, admin>>
  <1>1. Arrive(r) => UNCHANGED queues
    BY DEF Arrive, queues, coord, hist
  <1>2. Enter(r) => UNCHANGED queues
    BY DEF Enter, queues, coord, hist
  <1>3. Await(r) => UNCHANGED queues
    BY DEF Await, queues, coord, hist
  <1>4. Deadline(r) => UNCHANGED queues
    BY DEF Deadline, queues, coord, hist
  <1>5. Drop(r) => UNCHANGED queues
    BY DEF Drop, queues, coord, hist
  <1>6. SendRequest(r) =>
           /\ outbox' = Append(outbox, <<"member", r>>) \/ UNCHANGED outbox
           /\ UNCHANGED <<inbox, replies, answers, asked, pending, count, admin>>
    BY DEF SendRequest, coord
  <1>7. Poll(r) =>
           /\ inbox # <<>> /\ inbox' = Tail(inbox)
           /\ UNCHANGED <<outbox, replies, answers, asked, pending, count, admin>>
    BY DEF Poll, coord
  <1> QED
    BY <1>1, <1>2, <1>3, <1>4, <1>5, <1>6, <1>7

(* The other steps touch no task. *)
LEMMA OtherFrame ==
    ASSUME \/ Post \/ Loop \/ Expire \/ Restart \/ (\E r \in Req \cup {None} : BitvmxAnswers(r))
           \/ BitvmxRepeats \/ BitvmxStops \/ UNCHANGED vars
    PROVE  UNCHANGED tasks
  <1> USE DEF tasks, api, hist
  <1>1. Post => UNCHANGED tasks
    BY DEF Post
  <1>2. CheckBitvmxLiveness => UNCHANGED tasks
    BY DEF CheckBitvmxLiveness
  <1>3. TryUserRequest => UNCHANGED tasks
    BY DEF TryUserRequest
  <1>4. SendUserReplies => UNCHANGED tasks
    BY DEF SendUserReplies
  <1>5. TryBitvmxEvent => UNCHANGED tasks
    BY DEF TryBitvmxEvent
  <1>6. Expire \/ Restart \/ BitvmxRepeats \/ BitvmxStops \/ UNCHANGED vars => UNCHANGED tasks
    BY DEF Expire, Restart, BitvmxRepeats, BitvmxStops, vars
  <1>7. ASSUME NEW r \in Req \cup {None} PROVE BitvmxAnswers(r) => UNCHANGED tasks
    BY Zenon DEF BitvmxAnswers
  <1> QED
    BY <1>1, <1>2, <1>3, <1>4, <1>5, <1>6, <1>7 DEF Loop

(* A step is a step of a task, or touches no task. *)
LEMMA StepOfTask ==
    ASSUME [Next]_vars
    PROVE  \/ \E r \in Req : \/ Arrive(r) \/ Enter(r) \/ Await(r) \/ SendRequest(r)
                            \/ Poll(r) \/ Deadline(r) \/ Drop(r)
           \/ UNCHANGED tasks
  <1>1. ASSUME NEW r \in Req, Task(r) \/ Drop(r)
        PROVE  \/ Arrive(r) \/ Enter(r) \/ Await(r) \/ SendRequest(r)
               \/ Poll(r) \/ Deadline(r) \/ Drop(r)
    BY <1>1 DEF Task
  <1>2. (\E r \in Req : Task(r) \/ Drop(r)) \/ UNCHANGED tasks
    BY OtherFrame DEF Next
  <1> QED
    BY <1>1, <1>2

-----------------------------------------------------------------------------
(* The messages are well formed: a reply that is ok holds an address, and  *)
(* an admin request holds the token.                                       *)
Infos  == {"address", "wrong network", "error"}
Mail   == {<<"member", r>> : r \in Req} \cup {<<"apply", None>>, <<"admin", "configured">>}
Reply  == {m \in [id : Req, ok : BOOLEAN, info : Infos] : m.ok => m.info = "address"}
FromVM == [id : Req \cup {None}, info : Infos]

QueuesOK ==
    /\ outbox \in Seq(Mail) /\ inbox \in Seq(Reply) /\ replies \in Seq(Reply) /\ answers \in Seq(FromVM)
    /\ asked \subseteq Req \cup {None} /\ pending \subseteq Req
    /\ count \in [Req -> Nat]
    /\ AdminHasToken

(* What the operations of a queue keep. *)
LEMMA SeqFacts ==
    ASSUME NEW S, NEW s \in Seq(S)
    PROVE  /\ \A e \in S : Append(s, e) \in Seq(S)
           /\ \A t \in Seq(S) : s \o t \in Seq(S)
           /\ s # <<>> => Head(s) \in S /\ Tail(s) \in Seq(S)
    OBVIOUS

(* What the loop takes from the outbox is for FundingInfoProcessor, with   *)
(* the id of a request, or is not, and then no request becomes pending.    *)
LEMMA TryUserRequestStep ==
    ASSUME QueuesOK, TryUserRequest
    PROVE  /\ UNCHANGED <<inbox, replies, answers, count>>
           /\ \/ UNCHANGED <<outbox, pending, asked, admin>>
              \/ /\ outbox # <<>> /\ outbox' = Tail(outbox)
                 /\ \/ \E r \in Req : /\ Head(outbox) = <<"member", r>>
                                      /\ pending' = Kept \cup {r} /\ asked' \subseteq asked \cup {r}
                                      /\ UNCHANGED admin
                    \/ Head(outbox) = <<"admin", "configured">> /\ pending' = Kept /\ UNCHANGED asked
                       /\ admin' = admin \cup {"configured"}
                    \/ Head(outbox) = <<"apply", None>> /\ pending' = Kept /\ UNCHANGED <<asked, admin>>
  <1>1. CASE outbox = <<>> \/ UNCHANGED <<outbox, pending, asked, admin>>
    BY Zenon, <1>1 DEF TryUserRequest
  <1>2. CASE outbox # <<>> /\ ~UNCHANGED <<outbox, pending, asked, admin>>
    <2> DEFINE msg == Head(outbox)
    <2>1. outbox \in Seq(Mail)
      BY DEF QueuesOK
    <2>2. msg \in Mail
      BY <1>2, <2>1, SeqFacts
    <2> HIDE DEF msg
    <2>3. /\ outbox' = Tail(outbox)
          /\ msg[1] = "member" => ProcessUserRequest(msg[2]) /\ UNCHANGED admin
          /\ msg[1] = "admin" => admin' = admin \cup {msg[2]} /\ pending' = Kept /\ UNCHANGED asked
          /\ msg[1] = "apply" => pending' = Kept /\ UNCHANGED <<admin, asked>>
      BY Zenon, <1>2 DEF TryUserRequest, msg
    <2>4. UNCHANGED <<inbox, replies, answers, count>>
      BY DEF TryUserRequest
    <2>5. ASSUME NEW r \in Req, msg = <<"member", r>>
          PROVE  pending' = Kept \cup {r} /\ asked' \subseteq asked \cup {r} /\ UNCHANGED admin
      BY <2>3, <2>5 DEF ProcessUserRequest
    <2>6. ASSUME msg = <<"admin", "configured">>
          PROVE  pending' = Kept /\ UNCHANGED asked /\ admin' = admin \cup {"configured"}
      BY <2>3, <2>6
    <2>7. ASSUME msg = <<"apply", None>>
          PROVE  pending' = Kept /\ UNCHANGED <<asked, admin>>
      BY <2>3, <2>7
    <2> QED
      BY <1>2, <2>2, <2>3, <2>4, <2>5, <2>6, <2>7 DEF Mail, msg
  <1> QED
    BY <1>1, <1>2

(* An answer of BitVMX is forwarded once, to a request that is pending. *)
LEMMA TryBitvmxEventStep ==
    ASSUME QueuesOK, TryBitvmxEvent
    PROVE  /\ UNCHANGED <<outbox, inbox, asked, admin>>
           /\ \/ UNCHANGED <<answers, pending, replies, count>>
              \/ /\ answers # <<>> /\ answers' = Tail(answers)
                 /\ \/ pending' \subseteq pending /\ UNCHANGED <<replies, count>>
                    \/ \E r \in pending, m \in Reply :
                          /\ pending' \subseteq pending \ {r}
                          /\ replies' = Append(replies, m)
                          /\ count' = [count EXCEPT ![r] = @ + 1]
  <1>1. CASE answers = <<>>
    BY <1>1 DEF TryBitvmxEvent
  <1>2. CASE answers # <<>>
    <2> DEFINE ans == Head(answers)
               m   == [id |-> ans.id, ok |-> Forward(ans), info |-> ans.info]
    <2>1. ans \in FromVM /\ answers' = Tail(answers)
      BY <1>2 DEF TryBitvmxEvent, QueuesOK
    <2>2. pending' = Kept \ {ans.id} /\ Kept \subseteq pending /\ pending \subseteq Req
      BY <1>2 DEF TryBitvmxEvent, TakePending, Kept, QueuesOK
    <2>3. CASE ans.id \in Kept
      <3>1. m \in Reply
        BY Zenon, <2>1, <2>2, <2>3 DEF Reply, FromVM, Forward
      <3>2. replies' = Append(replies, m) /\ count' = [count EXCEPT ![ans.id] = @ + 1]
        BY <1>2, <2>3 DEF TryBitvmxEvent
      <3> HIDE DEF m, ans
      <3> QED
        BY Zenon, <1>2, <2>1, <2>2, <2>3, <3>1, <3>2 DEF TryBitvmxEvent
    <2>4. CASE ans.id \notin Kept
      BY <1>2, <2>1, <2>2, <2>4 DEF TryBitvmxEvent
    <2> QED
      BY <2>3, <2>4
  <1> QED
    BY <1>1, <1>2

(* QueuesOK is inductive. *)
LEMMA QueuesStep == QueuesOK /\ [Next]_vars => QueuesOK'
  <1> SUFFICES ASSUME QueuesOK, [Next]_vars PROVE QueuesOK'
    OBVIOUS
  <1>0. /\ outbox \in Seq(Mail) /\ inbox \in Seq(Reply) /\ replies \in Seq(Reply) /\ answers \in Seq(FromVM)
        /\ asked \subseteq Req \cup {None} /\ pending \subseteq Req /\ count \in [Req -> Nat] /\ AdminHasToken
    BY DEF QueuesOK
  <1>1. ASSUME UNCHANGED queues PROVE QueuesOK'
    BY <1>0, <1>1 DEF QueuesOK, AdminHasToken, queues
  <1>2. ASSUME NEW r \in Req, SendRequest(r) PROVE QueuesOK'
    <2>1. outbox' \in Seq(Mail)
      <3>1. <<"member", r>> \in Mail
        BY DEF Mail
      <3> QED
        BY Zenon, <1>0, <1>2, <3>1, TaskFrame, SeqFacts
    <2> QED
      BY Zenon, <1>0, <1>2, <2>1, TaskFrame DEF QueuesOK, AdminHasToken
  <1>3. ASSUME NEW r \in Req, Poll(r) PROVE QueuesOK'
    <2>1. inbox' \in Seq(Reply)
      BY Zenon, <1>0, <1>3, TaskFrame, SeqFacts
    <2> QED
      BY Zenon, <1>0, <1>3, <2>1, TaskFrame DEF QueuesOK, AdminHasToken
  <1>4. CASE Post
    <2>1. \/ UNCHANGED outbox
          \/ \E m \in {<<"apply", None>>, <<"admin", "configured">>} : outbox' = Append(outbox, m)
      BY <1>4 DEF Post, ApplyStream, AdminFailFlow, VerifyAdminAuth
    <2>2. {<<"apply", None>>, <<"admin", "configured">>} \subseteq Mail
      BY DEF Mail
    <2>3. outbox' \in Seq(Mail)
      BY Zenon, <1>0, <2>1, <2>2, SeqFacts
    <2> QED
      BY <1>0, <1>4, <2>3 DEF Post, coord, hist, QueuesOK, AdminHasToken
  <1>5. CASE CheckBitvmxLiveness
    BY <1>0, <1>5 DEF CheckBitvmxLiveness, hist, QueuesOK, AdminHasToken
  <1>6. CASE TryUserRequest
    <2>1. outbox' \in Seq(Mail)
      BY Zenon, <1>0, <1>6, TryUserRequestStep, SeqFacts
    <2>2. pending' \subseteq Req /\ asked' \subseteq Req \cup {None} /\ admin' \subseteq {"configured"}
      BY Zenon, <1>0, <1>6, TryUserRequestStep DEF Kept, AdminHasToken
    <2> QED
      BY <1>0, <1>6, <2>1, <2>2, TryUserRequestStep DEF QueuesOK, AdminHasToken
  <1>7. CASE SendUserReplies
    <2>1. inbox' = inbox \/ inbox' = inbox \o replies
      BY <1>7 DEF SendUserReplies
    <2>2. inbox' \in Seq(Reply)
      BY Zenon, <1>0, <2>1, SeqFacts
    <2>3. replies' \in Seq(Reply)
      BY <1>7 DEF SendUserReplies
    <2> QED
      BY <1>0, <1>7, <2>2, <2>3 DEF SendUserReplies, QueuesOK, AdminHasToken
  <1>8. CASE TryBitvmxEvent
    <2>0. QueuesOK
      OBVIOUS
    <2>1. answers' \in Seq(FromVM)
      <3>1. answers' = answers \/ (answers # <<>> /\ answers' = Tail(answers))
        BY <1>8, <2>0, TryBitvmxEventStep
      <3> QED
        BY Zenon, <1>0, <3>1, SeqFacts
    <2>2. replies' \in Seq(Reply)
      <3>1. replies' = replies \/ \E m \in Reply : replies' = Append(replies, m)
        BY <1>8, <2>0, TryBitvmxEventStep
      <3> QED
        BY Zenon, <1>0, <3>1, SeqFacts
    <2>3. pending' \subseteq Req /\ count' \in [Req -> Nat]
      <3>1. /\ pending' \subseteq pending
            /\ count' = count \/ \E r \in pending : count' = [count EXCEPT ![r] = @ + 1]
        BY <1>8, <2>0, TryBitvmxEventStep
      <3>2. ASSUME NEW r \in Req, count' = [count EXCEPT ![r] = @ + 1] PROVE count' \in [Req -> Nat]
        BY <1>0, <3>2
      <3> QED
        BY Zenon, <1>0, <3>1, <3>2
    <2> QED
      BY <1>0, <1>8, <2>1, <2>2, <2>3 DEF TryBitvmxEvent, QueuesOK, AdminHasToken
  <1>9. CASE Restart
    BY <1>0, <1>9 DEF Restart, QueuesOK, AdminHasToken
  <1>10. ASSUME NEW r \in Req \cup {None}, NEW info \in Infos, Answer(r, info)
         PROVE  answers' \in Seq(FromVM)
    <2>1. [id |-> r, info |-> info] \in FromVM
      BY DEF FromVM
    <2> QED
      BY <1>0, <1>10, <2>1, SeqFacts DEF Answer
  <1>11. CASE BitvmxRepeats
    <2>1. answers' \in Seq(FromVM)
      BY Zenon, <1>10, <1>11 DEF BitvmxRepeats, Infos
    <2> QED
      BY <1>0, <1>11, <2>1 DEF BitvmxRepeats, coord, hist, QueuesOK, AdminHasToken
  <1>12. ASSUME NEW r \in Req \cup {None}, BitvmxAnswers(r) PROVE QueuesOK'
    <2>1. answers' \in Seq(FromVM)
      BY Zenon, <1>10, <1>12 DEF BitvmxAnswers, Infos
    <2> QED
      BY Zenon, <1>0, <1>12, <2>1 DEF BitvmxAnswers, coord, QueuesOK, AdminHasToken
  <1>13. ASSUME Expire \/ BitvmxStops \/ UNCHANGED vars PROVE UNCHANGED queues
    BY <1>13 DEF Expire, BitvmxStops, vars, coord, hist, queues
  <1> QED
    BY <1>1, <1>2, <1>3, <1>4, <1>5, <1>6, <1>7, <1>8, <1>9, <1>11, <1>12, <1>13, TaskFrame DEF Next, Task, Loop

-----------------------------------------------------------------------------
(* One task loads at a time, and whoever waits waits for it.               *)
Waits(r) == req[r] \in {"between", "waiting"}

LoaderInv ==
    /\ req \in [Req -> {"none", "new", "between", "waiting"} \cup Loading \cup Ended]
    /\ state.kind \in {"Empty", "Loading", "Ready"}
    /\ state.kind = "Loading" => state.of \in Req
    /\ \A r \in Req : req[r] \in Loading => state.kind = "Loading" /\ state.of = r
    /\ \A r \in Req : Waits(r) => (state.kind = "Loading" /\ state.of = on[r]) \/ r \in missed
    /\ on \in [Req -> Req \cup {None}]
    /\ LoadingHasLoader
    /\ NoReplyStolen
    /\ ReadyIsAddress

(* The end of a loader's task keeps the invariant: nobody is left behind,  *)
(* the waiters that wait wake up and the others are known to have missed   *)
(* it.                                                                     *)
LEMMA FinishStep ==
    ASSUME LoaderInv, NEW r \in Req, req[r] \in Loading,
           NEW result \in {"ok", "error"}, NEW info, result = "ok" => info = "address",
           Finish(r, result, info), UNCHANGED <<on, stolen, dropped>>
    PROVE  LoaderInv'
  <1> USE DEF Loading, Ended
  <1>1. state.kind = "Loading" /\ state.of = r
    BY DEF LoaderInv
  <1>2. ASSUME NEW q \in Req PROVE req'[q] = IF q = r THEN result
                                            ELSE IF req[q] = "waiting" /\ on[q] = r THEN "new" ELSE req[q]
    BY <1>1 DEF Finish
  <1>3. req' \in [Req -> {"none", "new", "between", "waiting"} \cup Loading \cup Ended]
    BY DEF Finish, LoaderInv
  <1>4. state'.kind \in {"Empty", "Ready"} /\ (state'.kind = "Ready" => state'.info = "address")
    BY DEF Finish, Empty
  <1>5. \A q \in Req : req'[q] \notin Loading
    BY <1>1, <1>2 DEF LoaderInv
  <1>6. \A q \in Req : Waits(q)' => q \in missed'
    <2> SUFFICES ASSUME NEW q \in Req, Waits(q)' PROVE q \in missed'
      OBVIOUS
    <2>1. q # r /\ req[q] = req'[q] /\ ~(req[q] = "waiting" /\ on[q] = r) /\ Waits(q)
      BY <1>2 DEF Waits
    <2>2. q \in missed \/ on[q] = r
      BY <1>1, <2>1 DEF LoaderInv
    <2>3. q \in missed \/ (req[q] = "between" /\ on[q] = state.of)
      BY <1>1, <2>1, <2>2 DEF Waits
    <2> QED
      BY <2>3 DEF Finish
  <1> QED
    BY <1>3, <1>4, <1>5, <1>6 DEF LoaderInv, LoadingHasLoader, NoReplyStolen, ReadyIsAddress

(* LoaderInv is inductive. *)
LEMMA LoaderStep == QueuesOK /\ LoaderInv /\ [Next]_vars => LoaderInv'
  <1> SUFFICES ASSUME QueuesOK, LoaderInv, [Next]_vars PROVE LoaderInv'
    OBVIOUS
  <1> USE DEF Loading, Ended
  <1>1. ASSUME UNCHANGED tasks PROVE LoaderInv'
    BY <1>1 DEF LoaderInv, LoadingHasLoader, NoReplyStolen, ReadyIsAddress, Waits, tasks
  <1>2. ASSUME NEW r \in Req, Arrive(r) PROVE LoaderInv'
    <2>1. req[r] = "none" /\ req' = [req EXCEPT ![r] = "new"] /\ UNCHANGED <<on, state, stolen, missed, dropped>>
      BY <1>2 DEF Arrive, hist
    <2> QED
      BY <2>1 DEF LoaderInv, LoadingHasLoader, NoReplyStolen, ReadyIsAddress, Waits
  <1>3. ASSUME NEW r \in Req, Enter(r) PROVE LoaderInv'
    <2>0. req[r] = "new" /\ UNCHANGED <<stolen, missed, dropped>>
      BY <1>3 DEF Enter, hist
    <2>1. CASE state.kind = "Ready"
      <3>1. req' = [req EXCEPT ![r] = "ok"] /\ UNCHANGED <<on, state>>
        BY <1>3, <2>1 DEF Enter
      <3> QED
        BY <2>0, <3>1 DEF LoaderInv, LoadingHasLoader, NoReplyStolen, ReadyIsAddress, Waits
    <2>2. CASE state.kind = "Loading"
      <3>1. req' = [req EXCEPT ![r] = "between"] /\ on' = [on EXCEPT ![r] = state.of] /\ UNCHANGED state
        BY <1>3, <2>2 DEF Enter
      <3> QED
        BY <2>0, <2>2, <3>1 DEF LoaderInv, LoadingHasLoader, NoReplyStolen, ReadyIsAddress, Waits
    <2>3. CASE state.kind = "Empty"
      <3>1. /\ req' = [req EXCEPT ![r] = "sending"] /\ UNCHANGED on
            /\ state' = [kind |-> "Loading", of |-> r, info |-> None]
        BY <1>3, <2>3 DEF Enter
      <3> QED
        BY <2>0, <2>3, <3>1 DEF LoaderInv, LoadingHasLoader, NoReplyStolen, ReadyIsAddress, Waits
    <2> QED
      BY <2>1, <2>2, <2>3 DEF LoaderInv
  <1>4. ASSUME NEW r \in Req, Await(r) PROVE LoaderInv'
    <2>1. req[r] = "between" /\ req' = [req EXCEPT ![r] = "waiting"] /\ UNCHANGED <<on, state, stolen, missed, dropped>>
      BY <1>4 DEF Await, hist
    <2> QED
      BY <2>1 DEF LoaderInv, LoadingHasLoader, NoReplyStolen, ReadyIsAddress, Waits
  <1>5. ASSUME NEW r \in Req, SendRequest(r) PROVE LoaderInv'
    <2>0. req[r] = "sending" /\ UNCHANGED <<on, stolen, dropped>>
      BY <1>5 DEF SendRequest
    <2>1. CASE Finish(r, "error", None)
      BY <2>0, <2>1, FinishStep
    <2>2. CASE req' = [req EXCEPT ![r] = "fetch"] /\ UNCHANGED <<state, missed>>
      BY <2>0, <2>2 DEF LoaderInv, LoadingHasLoader, NoReplyStolen, ReadyIsAddress, Waits
    <2> QED
      BY <1>5, <2>1, <2>2 DEF SendRequest
  <1>6. ASSUME NEW r \in Req, Poll(r) PROVE LoaderInv'
    <2> DEFINE msg == Head(inbox)
    <2>0. req[r] = "fetch" /\ UNCHANGED <<on, dropped>>
      BY <1>6 DEF Poll
    <2>1. msg \in Reply
      BY <1>6, SeqFacts DEF Poll, QueuesOK
    <2>2. CASE msg.id = r
      <3>1. Finish(r, IF msg.ok THEN "ok" ELSE "error", msg.info) /\ UNCHANGED stolen
        BY <1>6, <2>2 DEF Poll
      <3>2. msg.ok => msg.info = "address"
        BY <2>1 DEF Reply
      <3> HIDE DEF msg
      <3> QED
        BY <2>0, <3>1, <3>2, FinishStep
    <2>3. CASE msg.id # r
      <3>1. /\ stolen' = IF req[msg.id] = "fetch" THEN stolen \cup {msg.id} ELSE stolen
            /\ UNCHANGED <<req, state, missed>>
        BY <1>6, <2>3 DEF Poll
      <3>2. msg.id \in Req
        BY <2>1 DEF Reply
      <3>3. req[msg.id] # "fetch"
        BY <2>0, <2>3, <3>2 DEF LoaderInv
      <3> HIDE DEF msg
      <3> QED
        BY <1>1, <2>0, <3>1, <3>3 DEF tasks
    <2> QED
      BY <2>2, <2>3
  <1>7. ASSUME NEW r \in Req, Deadline(r) PROVE LoaderInv'
    <2>1. req[r] = "fetch" /\ UNCHANGED <<on, stolen, dropped>> /\ Finish(r, "error", None)
      BY <1>7 DEF Deadline
    <2> QED
      BY <2>1, FinishStep
  <1>8. ASSUME NEW r \in Req, Drop(r) PROVE LoaderInv'
    <2>1. /\ req' = [req EXCEPT ![r] = "dropped"] /\ UNCHANGED <<on, state, stolen, missed>>
          /\ dropped' = IF req[r] \in Loading THEN dropped \cup {r} ELSE dropped
      BY <1>8 DEF Drop
    <2>2. /\ req' \in [Req -> {"none", "new", "between", "waiting"} \cup Loading \cup Ended]
          /\ \A q \in Req : req'[q] = IF q = r THEN "dropped" ELSE req[q]
      BY <2>1 DEF LoaderInv
    <2>3. LoadingHasLoader'
      BY <2>1, <2>2 DEF LoaderInv, LoadingHasLoader
    <2> QED
      BY <2>1, <2>2, <2>3 DEF LoaderInv, NoReplyStolen, ReadyIsAddress, Waits
  <1> QED
    BY <1>1, <1>2, <1>3, <1>4, <1>5, <1>6, <1>7, <1>8, StepOfTask

-----------------------------------------------------------------------------
(* A request is in one place on its way: it is sent once, by the task that *)
(* loads, then pending, then counted as answered.                          *)
Sent(r)   == \E i \in 1..Len(outbox) : outbox[i] = <<"member", r>>
Unsent(r) == req[r] \in {"none", "new", "between", "waiting", "sending"}

OnceInv ==
    /\ \A r \in Req : Unsent(r) => ~Sent(r) /\ r \notin pending /\ count[r] = 0
    /\ \A r \in Req : Sent(r) => r \notin pending /\ count[r] = 0
    /\ \A r \in pending : count[r] = 0
    /\ \A i, j \in 1..Len(outbox) : outbox[i][1] = "member" /\ outbox[i] = outbox[j] => i = j
    /\ OneReply

(* What is in a queue after its first element is taken, or one is added. *)
LEMMA SeqElements ==
    ASSUME NEW S, NEW s \in Seq(S)
    PROVE  /\ \A e : /\ Len(Append(s, e)) = Len(s) + 1
                     /\ \A i \in 1..(Len(s) + 1) : Append(s, e)[i] = IF i = Len(s) + 1 THEN e ELSE s[i]
           /\ s # <<>> => /\ Len(s) >= 1 /\ Head(s) = s[1] /\ Len(Tail(s)) = Len(s) - 1
                          /\ \A i \in 1..(Len(s) - 1) : Tail(s)[i] = s[i + 1]
           /\ Len(s) \in Nat
    OBVIOUS

(* No task that has sent its request goes back to before. *)
LEMMA UnsentStep ==
    ASSUME LoaderInv, [Next]_vars
    PROVE  /\ \A r \in Req : Unsent(r)' => Unsent(r)
           /\ \A r \in Req : SendRequest(r) /\ ~UNCHANGED outbox => ~Unsent(r)'
  <1> USE DEF Unsent
  <1>1. ASSUME NEW r \in Req, SendRequest(r), ~UNCHANGED outbox PROVE ~Unsent(r)'
    BY <1>1 DEF SendRequest, LoaderInv
  <1>2. ASSUME UNCHANGED tasks PROVE \A q \in Req : Unsent(q)' => Unsent(q)
    BY <1>2 DEF tasks
  <1>3. ASSUME NEW r \in Req, Arrive(r) \/ Enter(r) \/ Await(r) \/ Drop(r),
               NEW q \in Req, Unsent(q)'
        PROVE  Unsent(q)
    <2>1. \E x : req' = [req EXCEPT ![r] = x]
      BY Zenon, <1>3 DEF Arrive, Enter, Await, Drop, LoaderInv
    <2>2. Unsent(r) \/ Drop(r)
      BY Zenon, <1>3 DEF Arrive, Enter, Await
    <2>3. Drop(r) => req'[r] = "dropped"
      BY DEF Drop, LoaderInv
    <2> QED
      BY <1>3, <2>1, <2>2, <2>3 DEF LoaderInv
  <1>4. ASSUME NEW r \in Req, NEW result \in {"ok", "error"}, NEW info, Finish(r, result, info),
               NEW q \in Req, Unsent(q)'
        PROVE  Unsent(q)
    BY <1>4 DEF Finish
  <1>5. ASSUME NEW r \in Req, SendRequest(r) \/ Poll(r) \/ Deadline(r), NEW q \in Req, Unsent(q)'
        PROVE  Unsent(q)
    <2>1. \/ \E result \in {"ok", "error"} : \E info : Finish(r, result, info)
          \/ req' = [req EXCEPT ![r] = "fetch"]
          \/ UNCHANGED req
      BY <1>5 DEF SendRequest, Poll, Deadline
    <2> QED
      BY <1>4, <1>5, <2>1 DEF LoaderInv
  <1> QED
    <2> HIDE DEF Unsent
    <2> QED
      BY <1>1, <1>2, <1>3, <1>5, StepOfTask

(* How a step moves the requests on their way. *)
LEMMA PathStep ==
    ASSUME QueuesOK, [Next]_vars
    PROVE  \/ UNCHANGED <<outbox, count>> /\ pending' \subseteq pending
           \/ \E r \in Req : /\ SendRequest(r) /\ UNCHANGED <<pending, count>>
                            /\ outbox' = Append(outbox, <<"member", r>>)
           \/ \E m \in {<<"apply", None>>, <<"admin", "configured">>} :
                  outbox' = Append(outbox, m) /\ UNCHANGED <<pending, count>>
           \/ /\ outbox # <<>> /\ outbox' = Tail(outbox) /\ UNCHANGED count
              /\ \/ pending' \subseteq pending
                 \/ \E r \in Req : Head(outbox) = <<"member", r>> /\ pending' \subseteq pending \cup {r}
           \/ /\ UNCHANGED outbox
              /\ \E r \in pending : pending' \subseteq pending \ {r} /\ count' = [count EXCEPT ![r] = @ + 1]
  <1>1. ASSUME NEW r \in Req, Task(r) \/ Drop(r)
        PROVE  UNCHANGED <<outbox, pending, count>>
               \/ (/\ SendRequest(r) /\ UNCHANGED <<pending, count>>
                   /\ outbox' = Append(outbox, <<"member", r>>))
    BY <1>1, TaskFrame DEF Task, queues
  <1>2. CASE Post
    BY <1>2 DEF Post, ApplyStream, AdminFailFlow, VerifyAdminAuth, coord, hist
  <1>3. CASE TryUserRequest
    <2>1. Kept \subseteq pending
      BY DEF Kept
    <2> QED
      BY <1>3, <2>1, TryUserRequestStep
  <1>4. CASE TryBitvmxEvent
    BY <1>4, TryBitvmxEventStep
  <1>5. CASE CheckBitvmxLiveness
    BY <1>5 DEF CheckBitvmxLiveness, hist
  <1>6. CASE SendUserReplies
    BY <1>6 DEF SendUserReplies
  <1>7. CASE Expire
    BY <1>7 DEF Expire, hist
  <1>8. CASE Restart
    BY <1>8 DEF Restart
  <1>9. ASSUME NEW r \in Req \cup {None}, BitvmxAnswers(r) PROVE UNCHANGED <<outbox, pending, count>>
    BY Zenon, <1>9 DEF BitvmxAnswers, coord
  <1>10. CASE BitvmxRepeats
    BY <1>10 DEF BitvmxRepeats, coord, hist
  <1>11. CASE BitvmxStops
    BY <1>11 DEF BitvmxStops, coord
  <1>12. CASE UNCHANGED vars
    BY <1>12 DEF vars, coord, hist
  <1>13. CASE \E r \in Req : Task(r) \/ Drop(r)
    BY <1>1, <1>13
  <1>14. CASE \E r \in Req \cup {None} : BitvmxAnswers(r)
    BY <1>9, <1>14
  <1> QED
    BY Zenon, <1>2, <1>3, <1>4, <1>5, <1>6, <1>7, <1>8, <1>10, <1>11, <1>12, <1>13, <1>14 DEF Next, Loop

(* OnceInv is inductive. *)
LEMMA OnceStep ==
    ASSUME QueuesOK, LoaderInv, OnceInv, [Next]_vars
    PROVE  OnceInv'
  <1>0. /\ outbox \in Seq(Mail) /\ pending \subseteq Req /\ count \in [Req -> Nat]
    BY DEF QueuesOK
  <1>1. \A r \in Req : Unsent(r)' => Unsent(r)
    BY UnsentStep
  <1>2. /\ Len(outbox) \in Nat
        /\ \A e : /\ Len(Append(outbox, e)) = Len(outbox) + 1
                  /\ \A i \in 1..(Len(outbox) + 1) :
                        Append(outbox, e)[i] = IF i = Len(outbox) + 1 THEN e ELSE outbox[i]
        /\ outbox # <<>> => /\ Len(outbox) >= 1 /\ Head(outbox) = outbox[1]
                            /\ Len(Tail(outbox)) = Len(outbox) - 1
                            /\ \A i \in 1..(Len(outbox) - 1) : Tail(outbox)[i] = outbox[i + 1]
    BY <1>0, SeqElements
  <1>3. CASE UNCHANGED <<outbox, count>> /\ pending' \subseteq pending
    BY <1>1, <1>3 DEF OnceInv, Sent, OneReply
  <1>4. ASSUME NEW m \in {<<"apply", None>>, <<"admin", "configured">>},
               outbox' = Append(outbox, m), UNCHANGED <<pending, count>>
        PROVE  OnceInv'
    <2>1. m[1] # "member"
      OBVIOUS
    <2>2. \A r \in Req : m # <<"member", r>>
      BY <2>1
    <2>3. /\ Len(outbox') = Len(outbox) + 1
          /\ \A i \in 1..(Len(outbox) + 1) : outbox'[i] = IF i = Len(outbox) + 1 THEN m ELSE outbox[i]
      BY <1>2, <1>4
    <2>4. \A r \in Req : Sent(r)' => Sent(r)
      BY <1>2, <2>2, <2>3 DEF Sent
    <2>5. \A i, j \in 1..Len(outbox') : outbox'[i][1] = "member" /\ outbox'[i] = outbox'[j] => i = j
      BY <1>2, <2>1, <2>3 DEF OnceInv
    <2> QED
      BY Zenon, <1>1, <1>4, <2>4, <2>5 DEF OnceInv, OneReply
  <1>5. ASSUME NEW r \in Req, SendRequest(r), outbox' = Append(outbox, <<"member", r>>),
               UNCHANGED <<pending, count>>
        PROVE  OnceInv'
    <2>1. Unsent(r)
      BY <1>5 DEF SendRequest, Unsent
    <2>2. ~Sent(r) /\ r \notin pending /\ count[r] = 0
      BY <2>1 DEF OnceInv
    <2>3. /\ Len(outbox') = Len(outbox) + 1
          /\ \A i \in 1..(Len(outbox) + 1) : outbox'[i] = IF i = Len(outbox) + 1 THEN <<"member", r>> ELSE outbox[i]
      BY <1>2, <1>5
    <2>4. \A q \in Req : Sent(q)' => Sent(q) \/ q = r
      BY <1>2, <2>3 DEF Sent
    <2>5. \A i, j \in 1..Len(outbox') : outbox'[i][1] = "member" /\ outbox'[i] = outbox'[j] => i = j
      <3> SUFFICES ASSUME NEW i \in 1..Len(outbox'), NEW j \in 1..Len(outbox'),
                          outbox'[i][1] = "member", outbox'[i] = outbox'[j]
                   PROVE  i = j
        OBVIOUS
      <3>1. ~(i = Len(outbox) + 1 /\ j # Len(outbox) + 1) /\ ~(j = Len(outbox) + 1 /\ i # Len(outbox) + 1)
        BY <1>2, <2>2, <2>3 DEF Sent
      <3> QED
        BY <1>2, <2>3, <3>1 DEF OnceInv
    <2>6. ~Unsent(r)'
      <3>1. outbox' # outbox
        BY <1>2, <1>5
      <3> QED
        BY <1>5, <3>1, UnsentStep
    <2> QED
      BY Zenon, <1>1, <1>5, <2>2, <2>4, <2>5, <2>6 DEF OnceInv, OneReply
  <1>6. ASSUME outbox # <<>>, outbox' = Tail(outbox), UNCHANGED count,
               \/ pending' \subseteq pending
               \/ \E r \in Req : Head(outbox) = <<"member", r>> /\ pending' \subseteq pending \cup {r}
        PROVE  OnceInv'
    <2>1. /\ Len(outbox) >= 1 /\ Len(outbox') = Len(outbox) - 1
          /\ \A i \in 1..(Len(outbox) - 1) : outbox'[i] = outbox[i + 1]
      BY <1>2, <1>6
    <2>2. \A q \in Req : Sent(q)' => \E i \in 2..Len(outbox) : outbox[i] = <<"member", q>>
      BY <1>2, <2>1 DEF Sent
    <2>3. \A q \in Req : Sent(q)' => Sent(q) /\ outbox[1] # <<"member", q>>
      <3> SUFFICES ASSUME NEW q \in Req, NEW i \in 2..Len(outbox), outbox[i] = <<"member", q>>
                   PROVE  Sent(q) /\ outbox[1] # <<"member", q>>
        BY Zenon, <2>2
      <3>1. 1 \in 1..Len(outbox) /\ i \in 1..Len(outbox) /\ i # 1 /\ outbox[i][1] = "member"
        BY <1>2, <2>1
      <3>2. outbox[i] # outbox[1]
        BY <3>1 DEF OnceInv
      <3> QED
        BY <3>1, <3>2 DEF Sent
    <2>4. \A q \in pending' : q \in pending \/ (q \in Req /\ outbox[1] = <<"member", q>>)
      BY <1>2, <1>6
    <2>5. \A q \in Req : outbox[1] = <<"member", q>> => Sent(q)
      BY <1>2, <2>1 DEF Sent
    <2>6. \A i, j \in 1..Len(outbox') : outbox'[i][1] = "member" /\ outbox'[i] = outbox'[j] => i = j
      <3> SUFFICES ASSUME NEW i \in 1..Len(outbox'), NEW j \in 1..Len(outbox'),
                          outbox'[i][1] = "member", outbox'[i] = outbox'[j]
                   PROVE  i = j
        OBVIOUS
      <3>1. /\ i \in 1..(Len(outbox) - 1) /\ j \in 1..(Len(outbox) - 1)
            /\ i + 1 \in 1..Len(outbox) /\ j + 1 \in 1..Len(outbox)
        BY <1>2, <2>1
      <3>2. outbox[i + 1][1] = "member" /\ outbox[i + 1] = outbox[j + 1]
        BY <2>1, <3>1
      <3>3. i + 1 = j + 1
        BY Zenon, <3>1, <3>2 DEF OnceInv
      <3> QED
        BY <3>1, <3>3
    <2> QED
      BY Zenon, <1>0, <1>1, <1>6, <2>3, <2>4, <2>5, <2>6 DEF OnceInv, OneReply
  <1>7. ASSUME UNCHANGED outbox, NEW r \in pending, pending' \subseteq pending \ {r},
               count' = [count EXCEPT ![r] = @ + 1]
        PROVE  OnceInv'
    <2>1. r \in Req /\ count[r] = 0 /\ ~Sent(r) /\ ~Unsent(r)
      BY <1>0, <1>7 DEF OnceInv
    <2>2. \A q \in Req : count'[q] = IF q = r THEN 1 ELSE count[q]
      BY <1>0, <1>7, <2>1
    <2> QED
      BY <1>0, <1>1, <1>7, <2>1, <2>2 DEF OnceInv, OneReply, Sent
  <1> QED
    BY <1>3, <1>4, <1>5, <1>6, <1>7, PathStep

-----------------------------------------------------------------------------
Inv == QueuesOK /\ LoaderInv /\ OnceInv

(* The invariant holds at the start. *)
LEMMA InitInv == Init => Inv
  <1> SUFFICES ASSUME Init PROVE Inv
    OBVIOUS
  <1>1. QueuesOK
    BY DEF Init, QueuesOK, AdminHasToken
  <1>2. LoaderInv
    BY DEF Init, LoaderInv, Empty, Loading, Waits, LoadingHasLoader, NoReplyStolen, ReadyIsAddress
  <1>3. OnceInv
    BY DEF Init, OnceInv, Sent, Unsent, OneReply
  <1> QED
    BY <1>1, <1>2, <1>3 DEF Inv

(* The invariant holds in every state. *)
LEMMA Invariance == Spec => []Inv
  <1>1. Inv /\ [Next]_vars => Inv'
    BY QueuesStep, LoaderStep, OnceStep DEF Inv
  <1> QED
    BY <1>1, InitInv, PTL DEF Spec

(* Whatever the number of concurrent requests, one task at a time fetches. *)
(* It alone polls the shared inbox, so nobody's reply is discarded.        *)
THEOREM OneTaskLoads == Spec => []SingleLoader
  <1>1. Inv => SingleLoader
    BY DEF Inv, LoaderInv, SingleLoader, WaitsForLoader, Waits
  <1> QED
    BY <1>1, Invariance, PTL

(* A request is answered once at most, though BitVMX repeats its answers,  *)
(* the coordinator restarts and requests expire.                           *)
THEOREM AnsweredOnce == Spec => []OneReply
  <1>1. Inv => OneReply
    BY DEF Inv, OnceInv
  <1> QED
    BY <1>1, Invariance, PTL

(* What is kept and served from then on is an address of the network.      *)
THEOREM KeepsAnAddress == Spec => []ReadyIsAddress
  <1>1. Inv => ReadyIsAddress
    BY DEF Inv, LoaderInv
  <1> QED
    BY <1>1, Invariance, PTL

(* Only an admin request with the token reaches the coordinator. *)
THEOREM AdminIsAuthorised == Spec => []AdminHasToken
  <1>1. Inv => AdminHasToken
    BY DEF Inv, QueuesOK
  <1> QED
    BY <1>1, Invariance, PTL

=============================================================================
