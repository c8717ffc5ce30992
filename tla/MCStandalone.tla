---------------------------- MODULE MCStandalone ----------------------------
(***************************************************************************)
(* The parts that share nothing with each other or with the flows: the     *)
(* calculations check_fork and op-funding, a call through the gateway to   *)
(* the contracts, the Bitcoin wallet and the launcher with its services.   *)
(* job says which of them a behaviour is about; the others do nothing.     *)
(*                                                                         *)
(* check_fork gets lists of two to four blocks that differ in up to two    *)
(* places from one that is accepted, the tester windows of five blocks;    *)
(* op-funding gets up to 60 slots and 12 members, with integers of 6 and   *)
(* 16 bits or so.  Every operation of the gateway is called up to three    *)
(* times, with one that runs out of gas, one whose contract may raise any  *)
(* error and one whose contract is not deployed.  The wallet has two coins *)
(* of one address and one of another and makes up to three transactions,   *)
(* with one fault, one crash, one clearing, one payment with a count, or   *)
(* two changes of the active address.  The launcher has two clients with a *)
(* service that cannot be spawned; or one with two crashes and a slow      *)
(* service, with an error in the coordinator's loop, a Ctrl+C and a second *)
(* run, and with a service that ignores SIGTERM.                           *)
(***************************************************************************)
EXTENDS CheckFork, OpFunding, Services

MCMaxU64   == 60
MCMaxU128  == 20000
MCMaxU256  == 100000
MCTimes    == 20
MCBound    == 400
MCPegoutId == "pegout"

Sealed(b) == [b EXCEPT !.hash = Digest(b)]

(* A block on prev whose fields are those of change where it has them. *)
Mined(k, parent, diff, change) ==
    LET plain == [number |-> 4 + k, time |-> 10 * k, diff |-> diff, pow |-> 50, parent |-> parent,
                  event |-> IF k >= 3 THEN MCPegoutId ELSE NoEvent, version |-> IF k >= 3 THEN 2 ELSE 1,
                  hash |-> <<>>, uncles |-> <<>>]
        made  == change @@ plain
    IN IF "hash" \in DOMAIN change THEN made ELSE Sealed(made)

Sibling(b, change) ==
    LET own == [(change @@ b) EXCEPT !.uncles = <<>>, !.pow = IF "pow" \in DOMAIN change THEN @ ELSE 40]
    IN IF "hash" \in DOMAIN change THEN own ELSE Sealed(own)

NoChange == <<>>

UncleChanges ==
    {NoChange, [number |-> 9], [parent |-> <<"other">>], [diff |-> 401], [hash |-> <<"other">>],
     [pow |-> 0], [event |-> "other"], [version |-> 3]}

(* Uncles of a block on b. *)
UncleLists(b) ==
    {<<Sibling(b, c)>> : c \in UncleChanges} \cup {<<Sibling(b, NoChange), Sibling(b, [number |-> 9])>>,
                                                   <<Sibling(b, NoChange), Sibling(b, [time |-> 7])>>}

BlockChanges(k, prev) ==
    {[number |-> 3 + k], [number |-> 5 + k], [time |-> (10 * k) - 10], [time |-> (10 * k) + 10],
     [diff |-> 401], [diff |-> 399], [diff |-> 402], [diff |-> 398], [diff |-> 5001],
     [pow |-> 0], [pow |-> 1], [event |-> NoEvent], [event |-> MCPegoutId], [event |-> "other"],
     [version |-> 1], [version |-> 2], [version |-> 3], [hash |-> <<"other">>], [parent |-> <<"other">>]}
    \cup {[uncles |-> us] : us \in UncleLists(prev)}

Root == Mined(0, <<>>, 400, NoChange)

(* A list that goes on with one more block, changed or not. *)
Longer(c, most) ==
    LET k    == Len(c.blocks) + 1
        prev == IF c.blocks = <<>> THEN Root ELSE Last(c.blocks)
        On(change) == Append(c.blocks, Mined(k, prev.hash, prev.diff, change))
    IN {[blocks |-> On(NoChange), changes |-> c.changes]}
       \cup IF c.changes = most THEN {}
            ELSE {[blocks |-> On(ch), changes |-> c.changes + 1] : ch \in BlockChanges(k, prev)}

(* The lists with most changed blocks at most, by their length. *)
Chains(most) ==
    LET c0 == {[blocks |-> <<>>, changes |-> 0]}
        c1 == UNION {Longer(c, most) : c \in c0}
        c2 == UNION {Longer(c, most) : c \in c1}
        c3 == UNION {Longer(c, most) : c \in c2}
        c4 == UNION {Longer(c, most) : c \in c3}
    IN c2 \cup c3 \cup c4

AskedFor(n) == [required |-> n, effort |-> 2000 * n, time |-> 10, number |-> 5, version |-> 1]

AskedOther(n) ==
    {[AskedFor(n) EXCEPT !.required = 0], [AskedFor(n) EXCEPT !.required = n + 1], [AskedFor(n) EXCEPT !.effort = @ + 1],
     [AskedFor(n) EXCEPT !.effort = @ + 2500], [AskedFor(n) EXCEPT !.effort = @ + 2501],
     [AskedFor(n) EXCEPT !.time = 11], [AskedFor(n) EXCEPT !.number = 6], [AskedFor(n) EXCEPT !.version = 2]}

Arguments(asked, blocks) ==
    [required |-> asked.required, effort |-> asked.effort, time |-> asked.time, number |-> asked.number,
     version |-> asked.version, blocks |-> blocks]

MCLists ==
    {Arguments(AskedFor(Len(c.blocks)), c.blocks) : c \in Chains(2)}
    \cup UNION {{Arguments(a, c.blocks) : a \in AskedOther(Len(c.blocks))} : c \in Chains(1)}

Window ==
    LET plain  == [event |-> NoEvent, version |-> 1]
        On(bs) == Append(bs, Mined(Len(bs) + 1, Last(bs).hash, 400, plain))
    IN On(On(On(On(<<Mined(1, Root.hash, 400, plain)>>))))

MCFetched ==
    {Arguments([AskedFor(3) EXCEPT !.effort = e, !.number = x, !.required = r], [Window EXCEPT ![4].uncles = us]) :
        e \in {NoEffort, 9000}, x \in {5, 6}, r \in {3, 5}, us \in {<<>>, <<Sibling(Window[3], NoChange)>>}}

MCRequests ==
    {[slots |-> s, members |-> m, provers |-> IF m = 0 THEN 0 ELSE m - 1, stream |-> (s + m) % 6,
      regtest |-> m % 2 = 0, deposit |-> IF s % 3 = 0 THEN 400 ELSE 10] : s \in 0..MCMaxU64, m \in 0..12}

-----------------------------------------------------------------------------
(* The gateway. *)
VARIABLES callLeft, calls, pc, attempt, limit, estimated, res, settled, need, done, pool, receipt,
          verified, effects, repeats

CallExtra ==
    [c \in {"pegin", "pegout", "signature", "committee", "member", "stream", "challenge", "bitcoin"} |->
        IF c \in {"signature", "challenge"} THEN {"Other"} ELSE {}]

G == INSTANCE Gateway WITH Extra <- CallExtra

Call(o) == [op |-> o, gasBumps |-> 1, calls |-> 3, others |-> 1, needs |-> 0, raises |-> {}, deployed |-> G!Checked]

Raised == {[name |-> n, actual |-> 3] :
              n \in UNION {DOMAIN G!Decoders[k].named : k \in DOMAIN G!Decoders} \cup {"Unknown"}}

NoCall == Call(G!RequestPegin)

CallBudgets ==
    {Call(o) : o \in G!Operations}
    \cup {[Call(o) EXCEPT !.gasBumps = 3, !.needs = 2] : o \in {G!RequestPegout, G!RegisterPegout}}
    \cup {[Call(G!RegisterPegout) EXCEPT !.gasBumps = 255, !.calls = 1]}
    \cup {[Call(G!RegisterPegout) EXCEPT !.calls = 1, !.raises = {e \in Raised : e.name # "PeginAlreadyAccepted"}]}
    \cup {[Call(G!RequestPegin) EXCEPT !.deployed = G!Checked \ {"pegin"}, !.others = 0]}

D == INSTANCE Dispatcher WITH
        Extra <- CallExtra, Budgets <- CallBudgets, Needs <- {100000, 150000, 4000000},
        Bridge <- {-6, -1, 0, 5, 6, 1001}, MaxU32 <- 1000, Required <- 6, left <- callLeft

(* The wallet. *)
VARIABLES walletLeft, w, txs, mempool, mined, dirty, rejected

NoFault == [faults |-> 0, crashes |-> 0, clears |-> 0, repeats |-> 0, switches |-> 0, rates |-> 1..3]

WalletBudgets ==
    {[NoFault EXCEPT !.faults = 1], [NoFault EXCEPT !.crashes = 1], [NoFault EXCEPT !.clears = 1],
     [NoFault EXCEPT !.repeats = 1], [NoFault EXCEPT !.switches = 2, !.rates = {}],
     [NoFault EXCEPT !.switches = 1, !.rates = {2}]}

W == INSTANCE Wallet WITH
        Coins <- 1..3, Addr <- {"a", "b"}, Owner <- <<"a", "a", "b">>, Worth <- <<14, 9, 9>>, Home <- "a",
        Amounts <- {5}, Rates <- {1, 2, 3}, Enabler <- 1, Dust <- 2, MaxTxs <- 3,
        Budgets <- WalletBudgets \cup {NoFault}, left <- walletLeft

(* The launcher. *)
OneClient ==
    [clients |-> {"c1"}, crashes |-> 0, slow |-> 0, spawns |-> 0, fatal |-> 0, ctrlc |-> 0,
     messages |-> 0, reruns |-> 0, late |-> {}, stubborn |-> {}]
TwoClients == [OneClient EXCEPT !.clients = {"c1", "c2"}]

MCRunBudgets ==
    {[TwoClients EXCEPT !.spawns = 1],
     [OneClient EXCEPT !.crashes = 2, !.slow = 1, !.late = {"user-api"}],
     [OneClient EXCEPT !.fatal = 1, !.messages = 2, !.ctrlc = 1, !.reruns = 1],
     [OneClient EXCEPT !.ctrlc = 2, !.reruns = 1, !.late = {"coordinator"}, !.stubborn = {"coordinator"}],
     [OneClient EXCEPT !.spawns = 1, !.ctrlc = 1, !.reruns = 1, !.stubborn = {"log-indexer"}]}

-----------------------------------------------------------------------------
VARIABLE job

call   == <<callLeft, calls, pc, attempt, limit, estimated, res, settled, need, done, pool, receipt,
            verified, effects, repeats>>
wallet == <<walletLeft, w, txs, mempool, mined, dirty, rejected>>
vars   == <<job, fork, funding, call, wallet, run>>

NoArgs    == [required |-> 0, effort |-> 0, time |-> 0, number |-> 0, version |-> 1, blocks |-> <<>>]
NoSlots   == CHOOSE r \in Requests : r.slots = 0
NoFork    == args = NoArgs /\ from = "list" /\ i = 1 /\ effort = 0 /\ result = "ERROR"
NoFunding == request = NoSlots /\ low = 0 /\ high = 0 /\ budget = 0
NoRun ==
    /\ runLeft = [OneClient EXCEPT !.clients = {}]
    /\ main = "done" /\ error = FALSE /\ cancelled = FALSE /\ shutdown = FALSE /\ clients = {} /\ seen = {}
    /\ launch = <<>> /\ tear = <<>> /\ watch = <<>> /\ proc = <<>> /\ termed = <<>> /\ sub = <<>>
    /\ ctx = <<>> /\ ended = <<>>

Init ==
    /\ job \in {"fork", "funding", "call", "wallet", "run"}
    /\ IF job = "fork" THEN ForkInit ELSE NoFork
    /\ IF job = "funding" THEN FundingInit ELSE NoFunding
    /\ D!Init /\ (job # "call" => callLeft = NoCall)
    /\ W!Init /\ (job = "wallet" <=> walletLeft # NoFault)
    /\ IF job = "run" THEN RunInit ELSE NoRun

CheckFork == job = "fork" /\ ForkNext /\ UNCHANGED <<job, funding, call, wallet, run>>
Fund      == job = "funding" /\ FundingNext /\ UNCHANGED <<job, fork, call, wallet, run>>

Next ==
    \/ CheckFork
    \/ Fund
    \/ job = "call" /\ D!Next /\ UNCHANGED <<job, fork, funding, wallet, run>>
    \/ job = "wallet" /\ W!Next /\ UNCHANGED <<job, fork, funding, call, run>>
    \/ job = "run" /\ RunNext /\ UNCHANGED <<job, fork, funding, call, wallet>>

(* A calculation waits for nothing, every wait of a call has a timeout,    *)
(* and threads and processes run.                                          *)
Fairness ==
    /\ WF_vars(CheckFork) /\ WF_vars(Fund)
    /\ WF_vars(job = "call" /\ D!Step /\ UNCHANGED <<job, fork, funding, wallet, run>>)
    /\ RunFairness

Spec == Init /\ [][Next]_vars /\ Fairness

-----------------------------------------------------------------------------
(* What the flows rely on when they call the gateway: success means that   *)
(* the operation is on chain, also when the contract says that it was done *)
(* before; a call has its effect once at most and, with the bridge, only   *)
(* after the confirmations; and what a failed call leaves behind.          *)
CallContract == job = "call" => D!CallContract

(* Through chains of unconfirmed change, replacements and restarts the     *)
(* wallet's stores say what the node says.                                 *)
WalletFollowsNode == job = "wallet" => W!WalletFollowsNode

(* Every check of a fork ends, every bisection ends in a budget or in the  *)
(* panic that budgeted_slot_count documents, every call returns, a launch  *)
(* comes to an end, and the exit of a service ends the launcher.           *)
Terminates ==
    /\ <>(result # "running" /\ budget # NoBudget)
    /\ (job = "call") => D!Returns
    /\ ExitIsNoticed /\ LaunchEnds

=============================================================================
