------------------------------ MODULE Services ------------------------------
(***************************************************************************)
(* The processes of the clients and the launcher that runs them (cli/run): *)
(* one thread per client starts its block indexer, log indexer, user API   *)
(* and coordinator in that order, a monitor per process waits for its      *)
(* exit, and any exit, failed launch or Ctrl+C ends in the teardown of     *)
(* every client.  The coordinator subscribes at the brokers of the two     *)
(* indexers when it starts, and leaves its main loop on SIGTERM or on an   *)
(* error that is not one of transport.                                     *)
(*                                                                         *)
(* A monitor holds the mutex of its child while it waits, so whoever wants *)
(* the child's state waits for the child's exit with it.                   *)
(***************************************************************************)
EXTENDS Naturals, FiniteSets

CONSTANTS RunBudgets
    (* [clients, crashes, slow, spawns, fatal, ctrlc, messages : bounds on   *)
    (*  what may happen, reruns : further runs of the launcher,              *)
    (*  late : services whose monitor may be late, stubborn : services that  *)
    (*  do not exit on SIGTERM]                                              *)

VARIABLES
    runLeft,    \* what may still happen
    main,       \* where run_clients is
    launch,     \* per client: the next service its launch thread starts, or how it ended
    error,      \* launch_error
    cancelled,  \* launch_cancelled
    shutdown,   \* shutdown_rx has a message
    seen,       \* the ports that wait_for_clients_ready has found open
    clients,    \* the clients that run_clients keeps
    tear,       \* per client: where teardown_all is
    watch,      \* per client and service: its monitor
    proc,       \* per client and service: its process
    termed,     \* per client: the processes that have got SIGTERM
    sub,        \* per client and indexer: the coordinator's subscription
    ctx,        \* per client: the coordinator's context, against the one it saved
    ended       \* per client: how its coordinator went

launcher == <<main, launch, error, cancelled, shutdown, seen, clients, tear, watch>>
world    == <<proc, termed, sub, ctx, ended>>
run      == <<runLeft, launcher, world>>

Indexers == {"block-indexer", "log-indexer"}
Others   == Indexers \cup {"user-api"}
Svc      == Others \cup {"coordinator"}
C        == runLeft.clients

(* Any number of clients, and any bounds. *)
AllClients == UNION {b.clients : b \in RunBudgets}
Budget     == [clients : SUBSET AllClients, crashes : Nat, slow : Nat, spawns : Nat, fatal : Nat, ctrlc : Nat,
               messages : Nat, reruns : Nat, late : SUBSET Svc, stubborn : SUBSET Svc]

ASSUME BudgetAssumption == RunBudgets \subseteq Budget

(* UNION_CLIENT_SERVICES. *)
Following == [s \in Svc |-> CASE s = "block-indexer" -> "log-indexer"
                              [] s = "log-indexer"   -> "user-api"
                              [] s = "user-api"      -> "coordinator"
                              [] s = "coordinator"   -> "settle"]

Live       == {"starting", "up"}
Alive(c)   == {s \in Svc : proc[c][s] \in Live}
Started(c) == {s \in Svc : proc[c][s] # "none"}
Exited(c)  == {s \in Svc : proc[c][s] = "gone"}

Starting   == {"start", "coordinators", "others", "launch", "ready"}
Ending     == {"teardown", "abort"}
Over       == {"done", "failed", "dead"}

RunTypeOK ==
    /\ main \in Starting \cup {"serve"} \cup Ending \cup Over
    /\ launch \in [C -> Svc \cup {"no", "queued", "settle", "cleanup", "ok", "failed", "joined"}]
    /\ error \in BOOLEAN /\ cancelled \in BOOLEAN /\ shutdown \in BOOLEAN
    /\ clients \subseteq C /\ seen \subseteq clients \X Others
    /\ tear \in [C -> {"no", "wait", "others", "poll", "done"}]
    /\ watch \in [C -> [Svc -> {"none", "spawned", "waiting"}]]
    /\ proc \in [C -> [Svc -> {"none", "starting", "up", "gone"}]]
    /\ \A c \in C : termed[c] \subseteq Started(c)
    /\ sub \in [C -> [Indexers -> {"no", "asked", "yes"}]]
    /\ ctx \in [C -> {"saved", "changed"}]
    /\ ended \in [C -> {"no", "returned", "killed"}]

RunInit ==
    /\ runLeft \in RunBudgets
    /\ main = "start" /\ error = FALSE /\ cancelled = FALSE /\ shutdown = FALSE
    /\ clients = {} /\ seen = {}
    /\ launch = [c \in C |-> "no"] /\ tear = [c \in C |-> "no"]
    /\ watch = [c \in C |-> [s \in Svc |-> "none"]]
    /\ proc = [c \in C |-> [s \in Svc |-> "none"]]
    /\ termed = [c \in C |-> {}]
    /\ sub = [c \in C |-> [b \in Indexers |-> "no"]]
    /\ ctx = [c \in C |-> "saved"] /\ ended = [c \in C |-> "no"]

-----------------------------------------------------------------------------
(* The processes.  An indexer keeps its consumers in memory, and what was  *)
(* asked of its broker on disk.                                            *)
Forgets(c, S) == [b \in Indexers |-> IF b \in S /\ sub[c][b] = "yes" THEN "no" ELSE sub[c][b]]

(* The processes S of client c end, not of their own accord. *)
End(c, S) ==
    /\ proc' = [proc EXCEPT ![c] = [s \in Svc |-> IF s \in S THEN "gone" ELSE @[s]]]
    /\ sub' = [sub EXCEPT ![c] = Forgets(c, S)]
    /\ ended' = IF "coordinator" \in S THEN [ended EXCEPT ![c] = "killed"] ELSE ended

(* SIGTERM for the processes S of client c, and SIGKILL. *)
Term(c, S) == termed' = [termed EXCEPT ![c] = @ \cup (S \cap Alive(c))]
Kill(c, S) == End(c, S \cap Alive(c))

(* An indexer or the user API opens its port. *)
ServiceUp(c, s) ==
    /\ s \in Others /\ proc[c][s] = "starting"
    /\ proc' = [proc EXCEPT ![c][s] = "up"]
    /\ UNCHANGED <<runLeft, launcher, termed, sub, ctx, ended>>

(* ShutdownFlag: the other services leave their loops on SIGTERM. *)
ServiceStops(c, s) ==
    /\ s \in Others \ runLeft.stubborn
    /\ s \in termed[c] /\ proc[c][s] \in Live
    /\ End(c, {s})
    /\ UNCHANGED <<runLeft, launcher, termed, ctx>>

Crash(c, s) ==
    /\ runLeft.crashes > 0 /\ runLeft' = [runLeft EXCEPT !.crashes = @ - 1]
    /\ proc[c][s] \in Live
    /\ End(c, {s})
    /\ UNCHANGED <<launcher, termed, ctx>>

(* The notifier of an indexer takes the request from its broker. *)
UpdateConsumers(c, b) ==
    /\ proc[c][b] = "up" /\ sub[c][b] = "asked"
    /\ sub' = [sub EXCEPT ![c][b] = "yes"]
    /\ UNCHANGED <<runLeft, launcher, proc, termed, ctx, ended>>

-----------------------------------------------------------------------------
(* The coordinator. *)
(* BrokerClient: a broker is reached while its process has the port. *)
Reachable(c, b) == proc[c][b] = "up"

(* start_event_monitoring sends SubscribeLogs and start_block_monitoring   *)
(* SubscribeBlocks; the first that cannot be sent is the last.             *)
Asked(c) == IF Reachable(c, "log-indexer") THEN {b \in Indexers : Reachable(c, b)} ELSE {}

(* Coordinator::new loads the context as it was stored. *)
LoadContext(c) == ctx' = [ctx EXCEPT ![c] = "saved"]

(* Defect: the blocks are not asked for. *)
CoordinatorStartsLogs(c) ==
    /\ proc[c]["coordinator"] = "starting" /\ Reachable(c, "log-indexer")
    /\ proc' = [proc EXCEPT ![c]["coordinator"] = "up"]
    /\ sub' = [sub EXCEPT ![c]["log-indexer"] = "asked"]
    /\ LoadContext(c)
    /\ UNCHANGED <<runLeft, launcher, termed, ended>>

(* The start of the coordinator up to its loop: what cannot be asked ends  *)
(* the process, an error of transport too.                                 *)
CoordinatorStarts(c) ==
    /\ proc[c]["coordinator"] = "starting"
    /\ sub' = [sub EXCEPT ![c] = [b \in Indexers |-> IF b \in Asked(c) THEN "asked" ELSE @[b]]]
    /\ IF Asked(c) = Indexers
       THEN proc' = [proc EXCEPT ![c]["coordinator"] = "up"] /\ UNCHANGED ended
       ELSE /\ proc' = [proc EXCEPT ![c]["coordinator"] = "gone"]
            /\ ended' = [ended EXCEPT ![c] = "killed"]
    /\ LoadContext(c)
    /\ UNCHANGED <<runLeft, launcher, termed>>

(* EventDecoder: a log of an event it does not know is no event. *)
Decoded(message) == message # "unknown log"

(* A log or a block goes to the processors, which may change the context.  *)
(* A broker that cannot be reached is an error of transport, and the loop  *)
(* goes on as if there was no message.                                     *)
HandleMessage(c) ==
    /\ proc[c]["coordinator"] = "up" /\ "coordinator" \notin termed[c] /\ ctx[c] = "saved"
    /\ runLeft.messages > 0 /\ runLeft' = [runLeft EXCEPT !.messages = @ - 1]
    /\ \E b \in Indexers, message \in {"block", "log", "unknown log"} :
          /\ Reachable(c, b) /\ sub[c][b] = "yes"
          /\ (message = "block") = (b = "block-indexer")
          /\ ctx' = IF Decoded(message) THEN [ctx EXCEPT ![c] = "changed"] ELSE ctx
    /\ UNCHANGED <<launcher, proc, termed, sub, ended>>

(* save_context at the end of a pass. *)
SaveContext(c) ==
    /\ proc[c]["coordinator"] = "up" /\ ctx[c] = "changed"
    /\ ctx' = [ctx EXCEPT ![c] = "saved"]
    /\ UNCHANGED <<runLeft, launcher, proc, termed, sub, ended>>

(* handle_runtime_broker_result: an error that is not one of transport, in *)
(* a message that cannot be read or is not expected, ends the loop.        *)
FatalError == runLeft.fatal > 0 /\ runLeft' = [runLeft EXCEPT !.fatal = @ - 1]

(* The loop ends at the top of a pass when the shutdown flag is set, or in *)
(* the middle of one.                                                      *)
LoopEnds(c) ==
    /\ proc[c]["coordinator"] = "up"
    /\ \/ "coordinator" \in termed[c] \ runLeft.stubborn /\ ctx[c] = "saved" /\ UNCHANGED runLeft
       \/ FatalError

(* run, after its loop: the context is saved once more; the subscriptions  *)
(* are left as they are.                                                   *)
CoordinatorReturns(c) ==
    /\ LoopEnds(c)
    /\ proc' = [proc EXCEPT ![c]["coordinator"] = "gone"]
    /\ ctx' = [ctx EXCEPT ![c] = "saved"]
    /\ ended' = [ended EXCEPT ![c] = "returned"]
    /\ UNCHANGED <<launcher, termed, sub>>

(* SIGTERM before ShutdownFlag has its handlers. *)
CoordinatorStopsEarly(c) ==
    /\ proc[c]["coordinator"] = "starting"
    /\ "coordinator" \in termed[c] \ runLeft.stubborn
    /\ End(c, {"coordinator"})
    /\ UNCHANGED <<runLeft, launcher, termed, ctx>>

-----------------------------------------------------------------------------
(* The launch threads. *)

(* wait_for_port gives up after its timeout, which is long enough unless   *)
(* the service is slow or gone.                                            *)
PortTimeout(c, S) ==
    \E s \in S : \/ proc[c][s] = "gone" /\ UNCHANGED runLeft
                 \/ proc[c][s] = "starting" /\ runLeft.slow > 0 /\ runLeft' = [runLeft EXCEPT !.slow = @ - 1]

(* cleanup_partial_services, its first half: everything gets SIGTERM. *)
CleansUp(c) == Term(c, Svc) /\ launch' = [launch EXCEPT ![c] = "cleanup"]

Spawn(c, s) ==
    /\ proc' = [proc EXCEPT ![c][s] = "starting"]
    /\ termed' = [termed EXCEPT ![c] = @ \ {s}]
    /\ ended' = IF s = "coordinator" THEN [ended EXCEPT ![c] = "no"] ELSE ended

LaunchBegins(c) ==
    /\ launch[c] = "queued"
    /\ launch' = [launch EXCEPT ![c] = "block-indexer"]
    /\ UNCHANGED <<runLeft, main, error, cancelled, shutdown, seen, clients, tear, watch, world>>

(* One turn of the loop of launch_client_services. *)
LaunchNext(c) ==
    /\ launch[c] \in Svc /\ ~cancelled
    /\ launch[c] = "coordinator" => \A b \in Indexers : proc[c][b] = "up"
    /\ Spawn(c, launch[c])
    /\ launch' = [launch EXCEPT ![c] = Following[@]]
    /\ UNCHANGED <<runLeft, main, error, cancelled, shutdown, seen, clients, tear, watch, sub, ctx>>

(* Defect: a cancelled launch leaves what it has started. *)
LaunchStopsQuietly(c) ==
    /\ launch[c] \in Svc
    /\ \/ cancelled /\ UNCHANGED runLeft
       \/ runLeft.spawns > 0 /\ runLeft' = [runLeft EXCEPT !.spawns = @ - 1]
       \/ launch[c] = "coordinator" /\ PortTimeout(c, Indexers)
    /\ launch' = [launch EXCEPT ![c] = "failed"]
    /\ UNCHANGED <<main, error, cancelled, shutdown, seen, clients, tear, watch, world>>

(* The launch is cancelled, a process cannot be spawned, or an indexer is  *)
(* not ready in time.                                                      *)
LaunchStops(c) ==
    /\ launch[c] \in Svc
    /\ \/ cancelled /\ UNCHANGED runLeft
       \/ runLeft.spawns > 0 /\ runLeft' = [runLeft EXCEPT !.spawns = @ - 1]
       \/ launch[c] = "coordinator" /\ PortTimeout(c, Indexers)
    /\ CleansUp(c)
    /\ UNCHANGED <<main, error, cancelled, shutdown, seen, clients, tear, watch, proc, sub, ctx, ended>>

(* The end of launch_client_services: one look at every process, and then  *)
(* the monitors.                                                           *)
Settle(c) ==
    /\ launch[c] = "settle"
    /\ IF cancelled \/ Exited(c) # {}
       THEN /\ CleansUp(c)
            /\ shutdown' = (shutdown \/ ~cancelled)
            /\ UNCHANGED watch
       ELSE /\ launch' = [launch EXCEPT ![c] = "ok"]
            /\ watch' = [watch EXCEPT ![c] =
                             [s \in Svc |-> IF s \in runLeft.late THEN "spawned" ELSE "waiting"]]
            /\ UNCHANGED <<shutdown, termed>>
    /\ UNCHANGED <<runLeft, main, error, cancelled, seen, clients, tear, proc, sub, ctx, ended>>

(* cleanup_partial_services, its second half. *)
CleanupKill(c) ==
    /\ launch[c] = "cleanup"
    /\ Kill(c, Svc)
    /\ launch' = [launch EXCEPT ![c] = "failed"]
    /\ UNCHANGED <<runLeft, main, error, cancelled, shutdown, seen, clients, tear, watch, termed, ctx>>

-----------------------------------------------------------------------------
(* The monitors. *)
MonitorWaits(c, s) ==
    /\ watch[c][s] = "spawned"
    /\ watch' = [watch EXCEPT ![c][s] = "waiting"]
    /\ UNCHANGED <<runLeft, main, launch, error, cancelled, shutdown, seen, clients, tear, world>>

MonitorFires(c, s) ==
    /\ watch[c][s] = "waiting" /\ proc[c][s] = "gone"
    /\ ~shutdown /\ shutdown' = TRUE
    /\ UNCHANGED <<runLeft, main, launch, error, cancelled, seen, clients, tear, watch, world>>

(* The mutex of the child can be had. *)
Unlocked(c, s) == watch[c][s] # "waiting" \/ proc[c][s] = "gone"

-----------------------------------------------------------------------------
(* teardown_all, for one client: the coordinator first. *)
TearDown(S) ==
    /\ tear' = [c \in C |-> IF c \in S THEN "wait" ELSE tear[c]]
    /\ termed' = [c \in C |-> termed[c] \cup (IF c \in S THEN {"coordinator"} \cap Alive(c) ELSE {})]

(* It has exited, or its time is over and it is killed. *)
CoordinatorGone(c) ==
    /\ tear[c] = "wait" /\ Unlocked(c, "coordinator")
    /\ Kill(c, {"coordinator"})
    /\ tear' = [tear EXCEPT ![c] = "others"]
    /\ UNCHANGED <<runLeft, main, launch, error, cancelled, shutdown, seen, clients, watch, termed, ctx>>

TermOthers(c) ==
    /\ tear[c] = "others"
    /\ Term(c, Others)
    /\ tear' = [tear EXCEPT ![c] = "poll"]
    /\ UNCHANGED <<runLeft, main, launch, error, cancelled, shutdown, seen, clients, watch, proc, sub, ctx, ended>>

(* The others have exited, or their time is over and they are killed. *)
KillOthers(c) ==
    /\ tear[c] = "poll"
    /\ \A s \in Others : Unlocked(c, s)
    /\ Kill(c, Svc)
    /\ tear' = [tear EXCEPT ![c] = "done"]
    /\ UNCHANGED <<runLeft, main, launch, error, cancelled, shutdown, seen, clients, watch, termed, ctx>>

-----------------------------------------------------------------------------
(* detect_and_kill_existing_services, which looks for the services by name, *)
(* whoever started them: the coordinators first, then the others.          *)
DetectCoordinators ==
    /\ main = "start"
    /\ main' = "coordinators"
    /\ termed' = [c \in C |-> termed[c] \cup ({"coordinator"} \cap Alive(c))]
    /\ UNCHANGED <<runLeft, launch, error, cancelled, shutdown, seen, clients, tear, watch, proc, sub, ctx, ended>>

DetectOthers ==
    /\ main = "coordinators"
    /\ main' = "others"
    /\ proc' = [c \in C |-> [proc[c] EXCEPT !["coordinator"] = IF @ \in Live THEN "gone" ELSE @]]
    /\ ended' = [c \in C |-> IF "coordinator" \in Alive(c) THEN "killed" ELSE ended[c]]
    /\ termed' = [c \in C |-> termed[c] \cup (Others \cap Alive(c))]
    /\ UNCHANGED <<runLeft, launch, error, cancelled, shutdown, seen, clients, tear, watch, sub, ctx>>

(* The ends of run_clients before it launches anything: with --kill, and   *)
(* when the environment, the keystores or the settings of a client are not *)
(* there.                                                                  *)
KillOnly      == "done"
Misconfigured == "failed"

(* A fresh start removes the databases, the brokers' queues among them. *)
FreshCleanup == [c \in C |-> [b \in Indexers |-> "no"]]

(* The survivors are killed, and run_clients begins the launch threads. *)
LaunchClients ==
    /\ main = "others"
    /\ proc' = [c \in C |-> [s \in Svc |-> "none"]]
    /\ main' \in {KillOnly, Misconfigured, "launch"}
    /\ launch' = [c \in C |-> IF main' = "launch" THEN "queued" ELSE "no"]
    /\ \E fresh \in BOOLEAN :
          sub' = IF fresh /\ main' # KillOnly THEN FreshCleanup ELSE [c \in C |-> Forgets(c, Indexers)]
    /\ error' = FALSE /\ cancelled' = FALSE /\ shutdown' = FALSE /\ clients' = {} /\ seen' = {}
    /\ tear' = [c \in C |-> "no"] /\ watch' = [c \in C |-> [s \in Svc |-> "none"]]
    /\ termed' = [c \in C |-> {}]
    /\ UNCHANGED <<runLeft, ctx, ended>>

-----------------------------------------------------------------------------
(* run_clients. *)
Idle == \A c \in C : tear[c] \in {"no", "done"}

(* A result of launch_set.  The first error cancels the other launches;    *)
(* a client that was launched all the same is torn down on the spot.       *)
Join(c) ==
    /\ main = "launch" /\ Idle
    /\ \/ /\ launch[c] = "ok" /\ ~error
          /\ clients' = clients \cup {c}
          /\ launch' = [launch EXCEPT ![c] = "joined"]
          /\ UNCHANGED <<error, cancelled, shutdown, tear, termed>>
       \/ /\ launch[c] = "ok" /\ error
          /\ TearDown({c})
          /\ launch' = [launch EXCEPT ![c] = "joined"]
          /\ UNCHANGED <<error, cancelled, shutdown, clients>>
       \/ /\ launch[c] = "failed"
          /\ error' = TRUE /\ cancelled' = TRUE /\ shutdown' = TRUE
          /\ launch' = [d \in C |-> IF d = c \/ launch[d] = "queued" THEN "joined" ELSE launch[d]]
          /\ UNCHANGED <<clients, tear, termed>>
    /\ UNCHANGED <<runLeft, main, seen, watch, proc, sub, ctx, ended>>

Joined ==
    /\ main = "launch" /\ Idle
    /\ \A c \in C : launch[c] = "joined"
    /\ IF error THEN main' = "abort" /\ TearDown(clients)
                ELSE main' = "ready" /\ UNCHANGED <<tear, termed>>
    /\ UNCHANGED <<runLeft, launch, error, cancelled, shutdown, seen, clients, watch, proc, sub, ctx, ended>>

(* wait_for_clients_ready, for the ports of one service. *)
SeePort(c, s) ==
    /\ main = "ready" /\ c \in clients /\ s \in Others /\ <<c, s>> \notin seen
    /\ proc[c][s] = "up"
    /\ seen' = seen \cup {<<c, s>>}
    /\ UNCHANGED <<runLeft, main, launch, error, cancelled, shutdown, clients, tear, watch, world>>

NotReady ==
    /\ main = "ready"
    /\ \E c \in clients : PortTimeout(c, {s \in Others : <<c, s>> \notin seen})
    /\ main' = "abort" /\ TearDown(clients)
    /\ UNCHANGED <<launch, error, cancelled, shutdown, seen, clients, watch, proc, sub, ctx, ended>>

Ready ==
    /\ main = "ready" /\ seen = clients \X Others
    /\ main' = "serve"
    /\ UNCHANGED <<runLeft, launch, error, cancelled, shutdown, seen, clients, tear, watch, world>>

(* shutdown_rx is from before the launch, so it has what was sent since. *)
Shutdown ==
    /\ main = "serve" /\ shutdown
    /\ main' = "teardown" /\ TearDown(clients)
    /\ UNCHANGED <<runLeft, launch, error, cancelled, shutdown, seen, clients, watch, proc, sub, ctx, ended>>

TornDown ==
    /\ main \in Ending
    /\ \A c \in clients : tear[c] = "done"
    /\ main' = IF main = "teardown" THEN "done" ELSE "failed"
    /\ UNCHANGED <<runLeft, launch, error, cancelled, shutdown, seen, clients, tear, watch, world>>

(* Ctrl+C: until the clients are ready there is no handler for it, and the *)
(* launcher ends without its services, which are in groups of their own.   *)
CtrlC ==
    /\ runLeft.ctrlc > 0 /\ runLeft' = [runLeft EXCEPT !.ctrlc = @ - 1]
    /\ main \notin Over
    /\ IF main = "serve" THEN shutdown' = TRUE /\ UNCHANGED <<main, launch, tear, watch>>
       ELSE IF main = "teardown" THEN UNCHANGED <<main, launch, shutdown, tear, watch>>
       ELSE /\ main' = "dead"
            /\ launch' = [c \in C |-> "no"] /\ tear' = [c \in C |-> "no"]
            /\ watch' = [c \in C |-> [s \in Svc |-> "none"]]
            /\ UNCHANGED shutdown
    /\ UNCHANGED <<error, cancelled, seen, clients, world>>

Rerun ==
    /\ main \in Over
    /\ runLeft.reruns > 0 /\ runLeft' = [runLeft EXCEPT !.reruns = @ - 1]
    /\ main' = "start"
    /\ UNCHANGED <<launch, error, cancelled, shutdown, seen, clients, tear, watch, world>>

-----------------------------------------------------------------------------
Process(c) ==
    \/ \E s \in Svc : ServiceUp(c, s) \/ ServiceStops(c, s)
    \/ \E b \in Indexers : UpdateConsumers(c, b)
    \/ CoordinatorStarts(c) \/ SaveContext(c) \/ CoordinatorReturns(c) \/ CoordinatorStopsEarly(c)

Thread(c) ==
    \/ LaunchBegins(c) \/ LaunchNext(c) \/ LaunchStops(c) \/ Settle(c) \/ CleanupKill(c)
    \/ CoordinatorGone(c) \/ TermOthers(c) \/ KillOthers(c)

Main ==
    \/ DetectCoordinators \/ DetectOthers \/ LaunchClients
    \/ \E c \in C : Join(c)
    \/ Joined \/ Ready \/ NotReady \/ Shutdown \/ TornDown
    \/ \E c \in C, s \in Svc : SeePort(c, s)

RunNext ==
    \/ Main \/ CtrlC \/ Rerun
    \/ \E c \in C : Process(c) \/ Thread(c) \/ HandleMessage(c)
    \/ \E c \in C, s \in Svc : MonitorWaits(c, s) \/ MonitorFires(c, s) \/ Crash(c, s)

(* Threads and processes run; no fault, no Ctrl+C and no new run has to    *)
(* happen.                                                                 *)
Of(c, A) == c \in C /\ UNCHANGED runLeft /\ A

RunFairness ==
    /\ WF_run(Main /\ UNCHANGED runLeft)
    /\ \A c \in AllClients :
          /\ WF_run(Of(c, Thread(c)))
          /\ WF_run(Of(c, SaveContext(c) \/ CoordinatorStarts(c) \/ CoordinatorReturns(c) \/ CoordinatorStopsEarly(c)))
          /\ \A s \in Svc :
                /\ WF_run(Of(c, ServiceUp(c, s) \/ ServiceStops(c, s)))
                /\ WF_run(Of(c, MonitorWaits(c, s) \/ MonitorFires(c, s)))

RunSpec == RunInit /\ [][RunNext]_run /\ RunFairness

-----------------------------------------------------------------------------
(* When the launcher has returned, by a normal shutdown, after a failed    *)
(* launch or with --kill, no service of any client is left running, not    *)
(* one of a client whose launch was cancelled halfway or completed after   *)
(* the error either (run_clients, cleanup_partial_services, teardown_all). *)
NothingLeft == main \in {"done", "failed"} => \A c \in C : Alive(c) = {}

(* The other services of a client are told to stop only when its           *)
(* coordinator has gone, by itself or killed after its time, so that it    *)
(* never works through its shutdown without its brokers (teardown_all and  *)
(* detect_and_kill_existing_services).                                     *)
CoordinatorFirst ==
    /\ main = "others" => \A c \in C : "coordinator" \notin Alive(c)
    /\ \A c \in C : tear[c] \in {"others", "poll", "done"} => "coordinator" \notin Alive(c)

(* A coordinator that returns from run, with an error too, has stored its  *)
(* context as it last was.                                                 *)
ContextSaved == \A c \in C : ended[c] = "returned" => ctx[c] = "saved"

(* A shutdown is orderly: nothing is left behind, the coordinator goes     *)
(* first, and its context is saved.                                        *)
OrderlyStop == NothingLeft /\ CoordinatorFirst /\ ContextSaved

(* A coordinator in its loop is known to every indexer of its client that  *)
(* is up, or its request is still in the indexer's broker.  It never asks  *)
(* twice, so this rests on the launcher: an indexer is not started again   *)
(* under a running coordinator.                                            *)
StaysSubscribed ==
    \A c \in C, b \in Indexers :
        proc[c]["coordinator"] = "up" /\ proc[c][b] = "up" => sub[c][b] # "no"

(* The exit of any service while the launcher serves ends the launcher,    *)
(* unless a process ignores SIGTERM.                                       *)
ExitIsNoticed ==
    (main = "serve" /\ runLeft.stubborn = {} /\ \E c \in C : Exited(c) # {}) ~> main \in Over

(* A launch comes to an end: the clients are served, or the launcher has   *)
(* returned; no thread waits for a port or a result for ever.              *)
LaunchEnds ==
    (main \in Starting \cup Ending /\ runLeft.stubborn = {}) ~> (main \in {"serve"} \cup Over)

=============================================================================
