------------------------------- MODULE Wallet -------------------------------
(***************************************************************************)
(* The Bitcoin wallet of the command line: the outputs it has registered,  *)
(* in memory and in the UTXO store, the transactions it has broadcast, in  *)
(* memory and in the pending store, and the node that accepts, replaces    *)
(* and mines them.  A command is one step; the process may stop between    *)
(* two writes of a command.                                                *)
(*                                                                         *)
(* An outpoint is a number: of a coin that was paid to the wallet, or,     *)
(* after those, of the change of the transaction with that index in txs.   *)
(* txs holds every transaction that the node accepted; a transaction is    *)
(* what it spends, pays and gives back, so two equal ones have one id.     *)
(* Sizes are counted in inputs and outputs.                                *)
(***************************************************************************)
EXTENDS Integers, Sequences, SequencesExt, FiniteSets, FiniteSetsExt

CONSTANTS
    Coins,          \* 1 .. n
    Addr, Owner,    \* addresses, and the one each coin pays
    Worth,          \* the value of a coin
    Home,           \* the address of the configured key
    Amounts, Rates, \* amounts to send, fee rates; the least rate is the configured one
    Enabler,        \* enabler_amount
    Dust,           \* P2WPKH_DUST_LIMIT_SATS
    MaxTxs,
    Budgets         \* [faults, crashes, clears, repeats, switches, rates]

VARIABLES
    left,           \* what may still happen
    w,              \* the wallet: [store, utxos, pending, saved, active, keys]
    txs,
    mempool, mined, \* the node's transactions
    dirty,          \* history: what has set the wallet and the node apart
    rejected        \* history: the node rejected a payment

vars == <<left, w, txs, mempool, mined, dirty, rejected>>

N         == Cardinality(Coins)
OutPoints == 1..(N + MaxTxs)
Change(i) == N + i

(* StoredUtxo: its state, and the address it was registered for. *)
Absent    == [state |-> "Absent", addr |-> Home]
Available(a) == [state |-> "Available", addr |-> a]

IsChange(o) == o > N
Value(o)    == IF IsChange(o) THEN txs[o - N].change ELSE Worth[o]
Pays(o)     == IF IsChange(o) THEN txs[o - N].addr ELSE Owner[o]
Ins(i)      == ToSet(txs[i].ins)

Causes == {"lost", "crash", "refused", "missing", "unsent", "child", "count", "cleared"}

TypeOK ==
    /\ w.store \in [OutPoints -> [state : {"Absent", "Available", "SpentUnconfirmed"}, addr : Addr]]
    /\ ToSet(w.utxos) \subseteq OutPoints
    /\ w.pending \subseteq 1..Len(txs) /\ w.saved \subseteq 1..Len(txs)
    /\ w.active \in w.keys /\ w.keys \subseteq Addr
    /\ mempool \subseteq 1..Len(txs) /\ mined \subseteq (1..Len(txs)) \ mempool
    /\ dirty \subseteq Causes

Init ==
    /\ left \in Budgets
    /\ w = [store |-> [o \in OutPoints |-> Absent], utxos |-> <<>>, pending |-> {}, saved |-> {},
            active |-> Home, keys |-> {Home}]
    /\ txs = <<>> /\ mempool = {} /\ mined = {} /\ dirty = {} /\ rejected = FALSE

-----------------------------------------------------------------------------
(* The node. *)
SpentBy(S)  == UNION {Ins(i) : i \in S}
Exists(o)   == IsChange(o) => (o - N) \in mempool \cup mined
Unspent     == {o \in Coins \cup {Change(i) : i \in mempool \cup mined} :
                   (IsChange(o) => Value(o) > 0) /\ o \notin SpentBy(mempool \cup mined)}

Children(S)    == {j \in mempool : \E i \in S : Change(i) \in Ins(j)}
Conflicts(tx)  == {i \in mempool : Ins(i) \cap ToSet(tx.ins) # {}}
Evicted(tx)    == LET C == Conflicts(tx) IN C \cup Children(C) \cup Children(Children(C))
Known(tx)      == \E i \in 1..Len(txs) : txs[i] = tx
IdOf(tx)       == IF Known(tx) THEN CHOOSE i \in 1..Len(txs) : txs[i] = tx ELSE Len(txs) + 1

(* A transaction that the node has is accepted again. *)
Accepts(tx) ==
    \/ Known(tx) /\ IdOf(tx) \in mempool
    \/ /\ IsInjective(tx.ins)
       /\ \A o \in ToSet(tx.ins) : Exists(o) /\ Pays(o) = tx.addr /\ o \notin SpentBy(mined)
       /\ Conflicts(tx) # {} => tx.fee > MapThenSumSet(LAMBDA i : txs[i].fee, Evicted(tx))

Enters(tx) ==
    /\ txs' = IF Known(tx) THEN txs ELSE Append(txs, tx)
    /\ mempool' = IF Known(tx) /\ IdOf(tx) \in mempool THEN mempool
                  ELSE (mempool \ Evicted(tx)) \cup {IdOf(tx)}

-----------------------------------------------------------------------------
(* Building a transaction. *)
Total(s)         == FoldLeft(LAMBDA sum, o : sum + Value(o), 0, s)
Fee(n, outs, change, rate) == rate * (n + outs + (IF change THEN 1 ELSE 0))

(* The first round of 'build: the change output is counted if what is left *)
(* before the fee is no dust.  A payment p has an amount and outputs.      *)
Fits(s, p, rate) == Total(s) >= p.amount + Fee(Len(s), p.outs, Total(s) - p.amount >= Dust, rate)

(* select_utxos and the loop 'select: the shortest prefix that fits. *)
Enough(from, p, rate) == {k \in 1..Len(from) : Fits(SubSeq(from, 1, k), p, rate)}

(* The last round of 'build. *)
ChangeOf(total, n, p, rate) ==
    LET rest == total - p.amount - Fee(n, p.outs, TRUE, rate) IN IF rest >= Dust THEN rest ELSE 0

(* build_transaction_with_outputs, and sign_transaction for the active     *)
(* address.                                                                *)
Build(from, p, rate) ==
    LET k      == Min(Enough(from, p, rate))
        ins    == SubSeq(from, 1, k)
        change == ChangeOf(Total(ins), k, p, rate)
    IN [ins |-> ins, amount |-> p.amount, outs |-> p.outs, change |-> change, addr |-> w.active,
        fee |-> Total(ins) - p.amount - change, rate |-> rate]

-----------------------------------------------------------------------------
(* load_by_address, of what is available. *)
Loaded(store, a) == {o \in OutPoints : store[o] = Available(a)}

Without(s, S) == SelectSeq(s, LAMBDA o : o \notin S)
Mark(store, S, state) == [o \in OutPoints |-> IF o \in S THEN [store[o] EXCEPT !.state = state] ELSE store[o]]

(* The writes of commit_spend_pending for tx, in order: a state for each   *)
(* input, the change, the pending transaction.  The first k are done.      *)
Written(v, tx, id, k) ==
    LET n      == Len(tx.ins)
        marked == Mark(v.store, {tx.ins[j] : j \in 1..(IF k < n THEN k ELSE n)}, "SpentUnconfirmed")
    IN [v EXCEPT !.store = IF k > n /\ tx.change > 0 THEN [marked EXCEPT ![Change(id)] = Available(tx.addr)]
                           ELSE marked,
                 !.saved = IF k > n + 1 THEN @ \cup {id} ELSE @]

(* commit_spend_pending *)
CommitSpendPending(v, tx, id) ==
    [Written(v, tx, id, Len(tx.ins) + 2) EXCEPT
        !.utxos = LET rest == Without(@, ToSet(tx.ins))
                  IN IF tx.change > 0 THEN Append(rest, Change(id)) ELSE rest,
        !.pending = @ \cup {id}]

(* new_with_network and from_config: the process starts again. *)
Reopened(v, order) ==
    [v EXCEPT !.utxos = order, !.pending = v.saved, !.active = Home, !.keys = {Home}]

Reopens(v) == \E order \in SetToSeqs(Loaded(v.store, Home)) : w' = Reopened(v, order)

(* broadcast_transaction, from the wallet v.  The node rejects it, or      *)
(* cannot be reached; it accepts it; the process stops before the last     *)
(* write, or the answer of the node is lost.                               *)
Broadcast(v, tx, cause) ==
    \/ /\ ~Accepts(tx)
       /\ w' = v /\ dirty' = dirty \cup cause /\ rejected' = (rejected \/ cause = {})
       /\ UNCHANGED <<left, txs, mempool>>
    \/ /\ left.faults > 0 /\ left' = [left EXCEPT !.faults = @ - 1]
       /\ \/ w' = v /\ dirty' = dirty \cup cause /\ UNCHANGED <<txs, mempool>>
          \/ w' = v /\ dirty' = dirty \cup {"lost"} /\ Accepts(tx) /\ Enters(tx)
       /\ UNCHANGED rejected
    \/ /\ Accepts(tx) /\ Enters(tx)
       /\ w' = CommitSpendPending(v, tx, IdOf(tx))
       /\ dirty' = IF Evicted(tx) \ Conflicts(tx) # {} THEN dirty \cup {"child"} ELSE dirty
       /\ UNCHANGED <<left, rejected>>
    \/ /\ left.crashes > 0 /\ left' = [left EXCEPT !.crashes = @ - 1]
       /\ Accepts(tx) /\ Enters(tx)
       /\ \E k \in 0..(Len(tx.ins) + 1) : Reopens(Written(v, tx, IdOf(tx), k))
       /\ dirty' = dirty \cup {"crash"}
       /\ UNCHANGED rejected

-----------------------------------------------------------------------------
(* The commands. *)

(* Wallet::register_utxo *)
Register(o) ==
    /\ ~Contains(w.utxos, o) /\ w.store[o].state = "Absent"
    /\ w' = [w EXCEPT !.store[o] = Available(w.active), !.utxos = Append(@, o)]
    /\ UNCHANGED <<left, txs, mempool, mined, dirty, rejected>>

(* register_utxo, of an output that is paid to the active address. *)
RegisterUtxo(o) ==
    /\ o \in Unspent /\ Pays(o) = w.active /\ (IsChange(o) => (o - N) \in mined)
    /\ Register(o)

(* mine_utxo: the node pays a coin to the active address. *)
MineUtxo(o) == o \in Coins \ SpentBy(mempool \cup mined) /\ Owner[o] = w.active /\ Register(o)

(* create_transaction_once, and its broadcast. *)
Pay(p) ==
    /\ Len(txs) < MaxTxs
    /\ Enough(w.utxos, p, Min(Rates)) # {}
    /\ Broadcast(w, Build(w.utxos, p, Min(Rates)), {})
    /\ UNCHANGED mined

(* send_to_address and send_to_pubkey, and a count of two.  All            *)
(* transactions are built before the first is broadcast, so they are one   *)
(* transaction, which is broadcast and committed twice.                    *)
Payment(amount) == [amount |-> amount, outs |-> 1]

Send(amount) == Pay(Payment(amount))

SendTwice(amount) ==
    /\ left.repeats > 0 /\ left' = [left EXCEPT !.repeats = @ - 1]
    /\ Len(txs) < MaxTxs
    /\ Enough(w.utxos, Payment(amount), Min(Rates)) # {}
    /\ LET tx == Build(w.utxos, Payment(amount), Min(Rates))
       IN /\ Accepts(tx) /\ Enters(tx)
          /\ w' = CommitSpendPending(CommitSpendPending(w, tx, IdOf(tx)), tx, IdOf(tx))
    /\ dirty' = dirty \cup {"count"}
    /\ UNCHANGED <<mined, rejected>>

(* create_pegin_transaction: the stream value, an OP_RETURN and the        *)
(* enabler.                                                                *)
PeginPayment(amount) == [amount |-> amount + Enabler, outs |-> 3]

CreatePeginTx(amount) == Pay(PeginPayment(amount))

(* Defect: the old change is kept. *)
ReplacedKeepsChange(v, i) == [v EXCEPT !.pending = @ \ {i}, !.saved = @ \ {i}]

(* The wallet after replace_transaction: the replaced transaction and its  *)
(* change are gone, its inputs stay available in the store.                *)
Replaced(v, i) ==
    [v EXCEPT !.pending = @ \ {i}, !.saved = @ \ {i},
              !.store = IF txs[i].change > 0 THEN [@ EXCEPT ![Change(i)] = Absent] ELSE @,
              !.utxos = IF txs[i].change > 0 THEN Without(@, {Change(i)}) ELSE @]

(* The replacement has to pay more than what it replaces. *)
PaysMore(tx, i) == tx.fee > txs[i].fee

(* The inputs of a transaction are made available for its replacement. *)
Freed(i) == [w EXCEPT !.store = Mark(@, Ins(i), "Available")]

(* replace_tx: mark_available fails at an input that is not stored; a      *)
(* replacement that cannot be built leaves the inputs of the original in   *)
(* memory; one that pays no more is rolled back.                           *)
ReplaceTx(i, rate) ==
    LET ins  == txs[i].ins
        gone == {k \in 1..Len(ins) : w.store[ins[k]].state = "Absent"}
        free == Freed(i)
    IN /\ i \in w.pending /\ rate > Min(Rates)
       /\ IF gone # {} THEN
             /\ w' = [w EXCEPT !.store = Mark(@, {ins[k] : k \in 1..(Min(gone) - 1)}, "Available")]
             /\ dirty' = dirty \cup {"missing"} /\ UNCHANGED <<left, txs, mempool, rejected>>
          ELSE IF Enough(ins, txs[i], rate) = {} THEN
             /\ w' = [free EXCEPT !.utxos = ins]
             /\ dirty' = dirty \cup {"refused"} /\ UNCHANGED <<left, txs, mempool, rejected>>
          ELSE LET tx == Build(ins, txs[i], rate)
               IN IF ~PaysMore(tx, i)
                  THEN /\ w' = [w EXCEPT !.store = Mark(@, Ins(i), "SpentUnconfirmed")]
                       /\ UNCHANGED <<left, txs, mempool, dirty, rejected>>
                  ELSE Len(txs) < MaxTxs /\ Broadcast(Replaced(free, i), tx, {"unsent"})
       /\ UNCHANGED mined

Confirmed(v, i) ==
    [v EXCEPT !.pending = @ \ {i}, !.saved = @ \ {i},
              !.store = [o \in OutPoints |-> IF o \in Ins(i) THEN Absent ELSE @[o]]]

(* confirm_tx, once the transaction is mined. *)
ConfirmTx(i) ==
    /\ i \in w.pending \cap mined
    /\ w' = Confirmed(w, i)
    /\ UNCHANGED <<left, txs, mempool, mined, dirty, rejected>>

(* The active address is a, and reload_active_utxos. *)
Reloads(v, a) == \E order \in SetToSeqs(Loaded(v.store, a)) : w' = [v EXCEPT !.active = a, !.utxos = order]

WithKey(a) == [w EXCEPT !.keys = @ \cup {a}]
Switches   == left.switches > 0 /\ left' = [left EXCEPT !.switches = @ - 1]

ImportPrivateKey(a) == Switches /\ Reloads(WithKey(a), a) /\ UNCHANGED <<txs, mempool, mined, dirty, rejected>>

(* switch_active_address *)
SwitchAddress(a) ==
    Switches /\ a \in w.keys /\ Reloads(w, a) /\ UNCHANGED <<txs, mempool, mined, dirty, rejected>>

(* generate_address: the active address stays. *)
GenerateAddress(a) ==
    /\ Switches /\ a \notin w.keys /\ Reloads(WithKey(a), w.active)
    /\ UNCHANGED <<txs, mempool, mined, dirty, rejected>>

(* clear_funds; with auto, register_utxos_auto, which registers what is    *)
(* confirmed afterwards; pending transactions stay.                        *)
Cleared(a) == [o \in OutPoints |-> IF w.store[o].addr = a THEN Absent ELSE w.store[o]]

ClearFunds(auto) ==
    /\ left.clears > 0 /\ left' = [left EXCEPT !.clears = @ - 1]
    /\ LET a     == w.active
           found == IF auto THEN {o \in Unspent : Pays(o) = a /\ (IsChange(o) => (o - N) \in mined)} ELSE {}
           store == [o \in OutPoints |-> IF o \in found THEN Available(a) ELSE Cleared(a)[o]]
       IN \E order \in SetToSeqs(found) : w' = [w EXCEPT !.store = store, !.utxos = order]
    /\ dirty' = dirty \cup {"cleared"}
    /\ UNCHANGED <<txs, mempool, mined, rejected>>

(* clear_db, of all addresses. *)
ClearDb ==
    /\ left.clears > 0 /\ left' = [left EXCEPT !.clears = @ - 1]
    /\ w' = [w EXCEPT !.store = [o \in OutPoints |-> Absent], !.utxos = <<>>]
    /\ dirty' = dirty \cup {"cleared"}
    /\ UNCHANGED <<txs, mempool, mined, rejected>>

(* exit, or a crash between two commands, and a new start. *)
Restart ==
    /\ left.crashes > 0 /\ left' = [left EXCEPT !.crashes = @ - 1]
    /\ Reopens(w)
    /\ UNCHANGED <<txs, mempool, mined, dirty, rejected>>

(* A block with a transaction whose parents are mined. *)
Mine(i) ==
    /\ i \in mempool /\ \A o \in Ins(i) : IsChange(o) => (o - N) \in mined
    /\ mempool' = mempool \ {i} /\ mined' = mined \cup {i}
    /\ UNCHANGED <<left, w, txs, dirty, rejected>>

Next ==
    \/ \E o \in OutPoints : RegisterUtxo(o) \/ MineUtxo(o)
    \/ \E amount \in Amounts : Send(amount) \/ SendTwice(amount) \/ CreatePeginTx(amount)
    \/ \E i \in w.pending, rate \in left.rates : ReplaceTx(i, rate)
    \/ \E i \in w.pending : ConfirmTx(i)
    \/ \E a \in Addr : ImportPrivateKey(a) \/ SwitchAddress(a) \/ GenerateAddress(a)
    \/ \E auto \in BOOLEAN : ClearFunds(auto)
    \/ ClearDb
    \/ \E i \in mempool : Mine(i)
    \/ Restart

Spec == Init /\ [][Next]_vars

-----------------------------------------------------------------------------
(* What the store holds as available is an output that the node has and    *)
(* that nothing spends, through chains of unconfirmed change, replacements *)
(* and restarts.  Only a replacement that was refused or not sent, one     *)
(* that evicts a child, and a broadcast whose writes or whose answer were  *)
(* lost set them apart.                                                    *)
AvailableIsUnspent ==
    dirty \subseteq {"count", "cleared"} =>
        \A o \in OutPoints : w.store[o].state = "Available" => o \in Unspent /\ w.store[o].addr = Pays(o)

(* The inputs of the pending transactions, and nothing else, are           *)
(* SpentUnconfirmed: a transaction that is confirmed or replaced leaves    *)
(* none behind.                                                            *)
SpentIsPending ==
    dirty \subseteq {"count"} =>
        \A o \in OutPoints : w.store[o].state = "SpentUnconfirmed" <=> o \in SpentBy(w.pending)

(* Memory and store agree, so a restart changes nothing but the active     *)
(* address.                                                                *)
MemoryIsStore ==
    dirty \subseteq {"cleared", "crash", "child"} =>
        ToSet(w.utxos) = Loaded(w.store, w.active) /\ IsInjective(w.utxos)

(* What is pending is saved. *)
PendingIsSaved == w.pending = w.saved

(* The node rejects no payment of a wallet that is not set apart from it:  *)
(* no two payments spend the same output.                                  *)
PaymentsAreAccepted == rejected => dirty # {}

(* A transaction pays for its size at its rate, its change is no dust, and *)
(* it pays at most the dust and the output it saves on top.                *)
FeeIsRight ==
    \A i \in 1..Len(txs) :
        LET n == Len(txs[i].ins)
        IN /\ txs[i].fee >= Fee(n, txs[i].outs, txs[i].change > 0, txs[i].rate)
           /\ txs[i].change > 0 => txs[i].change >= Dust
           /\ txs[i].fee < Fee(n, txs[i].outs, TRUE, txs[i].rate) + Dust

(* The stores of the wallet say what the node says, and what it makes is   *)
(* accepted and pays its fee.                                              *)
WalletFollowsNode ==
    /\ AvailableIsUnspent /\ SpentIsPending /\ MemoryIsStore /\ PendingIsSaved
    /\ PaymentsAreAccepted /\ FeeIsRight

=============================================================================
