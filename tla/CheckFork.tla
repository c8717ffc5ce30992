----------------------------- MODULE CheckFork ------------------------------
(***************************************************************************)
(* check_fork: whether a list of Rootstock blocks is a fork with enough    *)
(* work in which a peg-out was announced, block by block as the program    *)
(* goes through it, and the tester that makes such a list from the blocks  *)
(* of a node.                                                              *)
(*                                                                         *)
(* Integers up to MaxU256 stand for those of 256 bits.  The hash of a      *)
(* header is the tuple of what it commits to, so that two headers with one *)
(* hash are one header.  pow is the hash of the Bitcoin header, whose      *)
(* inverse is the effort.                                                  *)
(***************************************************************************)
EXTENDS Integers, Sequences, SequencesExt, FiniteSets

CONSTANTS
    MaxU256,    \* U256::MAX
    Times,      \* SUPERBLOCK_TIMES_DIFFICULTY
    Bound,      \* the difficulty changes by one part in Bound at most
    PegoutId,   \* the id of the peg-out of the arguments
    Lists,      \* arguments given to check_fork: [required, effort, time, number, version, blocks]
    Fetched     \* arguments of the tester with the blocks that it gets from the node

VARIABLES args, from, i, effort, result

fork == <<args, from, i, effort, result>>

NoEvent  == "none"
NoEffort == -1        \* no required effort is given to the tester

(* encode_rlp and calculate_block_hash. *)
Digest(h) == <<h.number, h.time, h.diff, h.event, h.version, h.parent>>

Blocks == args.blocks
B(k)   == args.blocks[k]

ForkTypeOK ==
    /\ from \in {"list", "node", "tester"}
    /\ i \in 1..(Len(Blocks) + 1)
    /\ effort \in 0..MaxU256
    /\ result \in {"running", "ACCEPT", "REJECT", "ERROR"}
    /\ result = "ACCEPT" => i = Len(Blocks) + 1

ForkInit ==
    /\ \/ from = "list" /\ args \in Lists
       \/ from = "node" /\ args \in Fetched
    /\ i = 1 /\ effort = 0 /\ result = "running"

-----------------------------------------------------------------------------
(* calculate_block_effort, for a pow that is not zero. *)
Effort(b) == MaxU256 \div b.pow

(* validate_block_list. *)
ValidBlockList ==
    /\ args.required >= 1
    /\ Len(Blocks) >= 3
    /\ Len(Blocks) >= args.required

(* validate_enough_effort_superblock: the product must be representable    *)
(* and the effort defined; the two are compared to no effect.              *)
EnoughEffortSuperblock(b) == b.diff * Times <= MaxU256 /\ b.pow # 0

(* validate_block_hash; a header of another version has no hash. *)
ValidBlockHash(h) ==
    /\ h.event # NoEvent => h.version = 2
    /\ h.version \in {1, 2} /\ h.hash = Digest(h)

ContainsPegoutEvent(b) == b.event = PegoutId

(* validate_first_block. *)
ValidFirstBlock(b) ==
    /\ b.time >= args.time
    /\ b.number >= args.number
    /\ EnoughEffortSuperblock(b)
    /\ ~ContainsPegoutEvent(b)

(* validate_difficulty_in_bounds; the sum saturates. *)
DifficultyInBounds(b, prev) ==
    LET delta == prev.diff \div Bound
    IN prev.diff - delta <= b.diff /\ b.diff <= prev.diff + delta

(* validate_consecutive_block. *)
ValidConsecutiveBlock(b, prev) ==
    /\ b.time > prev.time
    /\ b.number = prev.number + 1
    /\ b.parent = prev.hash
    /\ EnoughEffortSuperblock(b)
    /\ DifficultyInBounds(b, prev)

(* validate_uncle: the uncle is a sibling of the block before the one that *)
(* lists it.                                                               *)
ValidUncle(trunk, u) ==
    /\ u.number = trunk.number
    /\ u.parent = trunk.parent
    /\ u.diff = trunk.diff
    /\ ValidBlockHash(u)
    /\ EnoughEffortSuperblock(u)

(* accumulate_effort; a sum past MaxU256 is an error. *)
Accumulated(e, bs) == FoldLeft(LAMBDA acc, b : acc + Effort(b), e, bs)

Reject == result' = "REJECT" /\ UNCHANGED <<i, effort>>
Go(e)  == effort' = e /\ i' = i + 1 /\ UNCHANGED result

-----------------------------------------------------------------------------
(* check_fork, up to the first block. *)
CheckFirst ==
    /\ from # "node" /\ result = "running" /\ i = 1
    /\ IF args.version # 1 \/ ~ValidBlockList \/ Blocks = <<>> THEN Reject
       ELSE IF ~ValidFirstBlock(B(1)) \/ ~ValidBlockHash(B(1)) THEN Reject
       ELSE Go(Effort(B(1)))
    /\ UNCHANGED <<args, from>>

(* Defect: the event is required from the fourth block on. *)
CheckNextLate ==
    /\ from # "node" /\ result = "running" /\ i \in 2..Len(Blocks)
    /\ IF \/ ~ValidConsecutiveBlock(B(i), B(i - 1)) \/ ~ValidBlockHash(B(i))
          \/ \E k \in DOMAIN B(i).uncles : ~ValidUncle(B(i - 1), B(i).uncles[k])
          \/ Accumulated(effort, <<B(i)>> \o B(i).uncles) > MaxU256
          \/ i > 3 /\ ~ContainsPegoutEvent(B(i))
       THEN Reject
       ELSE Go(Accumulated(effort, <<B(i)>> \o B(i).uncles))
    /\ UNCHANGED <<args, from>>

(* A turn of the loop: block i - 1 of the program. *)
CheckNext ==
    /\ from # "node" /\ result = "running" /\ i \in 2..Len(Blocks)
    /\ IF \/ ~ValidConsecutiveBlock(B(i), B(i - 1)) \/ ~ValidBlockHash(B(i))
          \/ \E k \in DOMAIN B(i).uncles : ~ValidUncle(B(i - 1), B(i).uncles[k])
          \/ Accumulated(effort, <<B(i)>> \o B(i).uncles) > MaxU256
          \/ i >= 3 /\ ~ContainsPegoutEvent(B(i))
       THEN Reject
       ELSE Go(Accumulated(effort, <<B(i)>> \o B(i).uncles))
    /\ UNCHANGED <<args, from>>

CheckEffort ==
    /\ from # "node" /\ result = "running" /\ i > 1 /\ i = Len(Blocks) + 1
    /\ result' = IF effort < args.effort THEN "REJECT" ELSE "ACCEPT"
    /\ UNCHANGED <<args, from, i, effort>>

-----------------------------------------------------------------------------
(* The tester.  get_blocks asks the node for one block after the other;    *)
(* the blocks from i on are still to be fetched.                           *)
FetchBlock ==
    /\ from = "node" /\ result = "running" /\ i <= Len(Blocks)
    /\ i' = i + 1
    /\ UNCHANGED <<args, from, effort, result>>

(* fetch_block_by_num: a block that the node answers with an error is left *)
(* out of the list.                                                        *)
FetchFails ==
    /\ from = "node" /\ result = "running" /\ i <= Len(Blocks)
    /\ args' = [args EXCEPT !.blocks = RemoveAt(@, i)]
    /\ UNCHANGED <<from, i, effort, result>>

(* A request that does not come through, a block that the node does not    *)
(* have and an uncle that it does not give end the tester.                 *)
FetchAborts ==
    /\ from = "node" /\ result = "running"
    /\ result' = "ERROR"
    /\ UNCHANGED <<args, from, i, effort>>

(* apply_base_event_fixture drops the uncles, puts the event in every      *)
(* block from the third on and hashes and links the list anew.             *)
Fixture(bs) ==
    LET Marked(k, parent) ==
            [bs[k] EXCEPT !.uncles = <<>>, !.parent = parent,
                          !.event = IF k >= 3 THEN PegoutId ELSE NoEvent,
                          !.version = IF k >= 3 THEN 2 ELSE 1]
        Sealed(b) == [b EXCEPT !.hash = Digest(b)]
    IN FoldLeft(LAMBDA done, k : Append(done, Sealed(Marked(k, IF k = 1 THEN bs[1].parent
                                                               ELSE done[k - 1].hash))),
                <<>>, [k \in 1..Len(bs) |-> k])

(* calculate_total_effort. *)
TotalEffort(bs) ==
    FoldLeft(LAMBDA acc, b : Accumulated(acc, <<b>> \o b.uncles), 0, bs)

(* main of the tester, once it has its blocks: unless an effort is given,  *)
(* all that the fixture has is required.                                   *)
MakeFixture ==
    /\ from = "node" /\ i = Len(Blocks) + 1 /\ result = "running"
    /\ IF Len(Blocks) < 3 THEN result' = "ERROR" /\ UNCHANGED <<args, from, i>>
       ELSE LET made == Fixture(Blocks)
            IN /\ args' = [args EXCEPT !.blocks = made,
                                       !.effort = IF @ = NoEffort THEN TotalEffort(made) ELSE @]
               /\ from' = "tester" /\ i' = 1 /\ UNCHANGED result
    /\ UNCHANGED effort

ForkNext ==
    CheckFirst \/ CheckNext \/ CheckEffort \/ FetchBlock \/ FetchFails \/ FetchAborts
    \/ MakeFixture

-----------------------------------------------------------------------------
(* What an accepted list is, in one formula. *)
IsChain ==
    \A k \in 2..Len(Blocks) :
        /\ B(k).parent = B(k - 1).hash
        /\ B(k).number = B(1).number + k - 1
        /\ \A j \in 1..(k - 1) : B(j).time < B(k).time
        /\ Bound * (B(k).diff - B(k - 1).diff) <= B(k - 1).diff
        /\ Bound * (B(k - 1).diff - B(k).diff) <= B(k - 1).diff

Counted  == [k \in DOMAIN Blocks |-> <<B(k)>> \o (IF k = 1 THEN <<>> ELSE B(k).uncles)]
Together == FlattenSeq(Counted)

(* check_fork accepts a list exactly when it is a chain from a block that  *)
(* is late and high enough, sealed by its hashes, without the peg-out's    *)
(* event in its first block and with it in every block from the third on,  *)
(* whose uncles are siblings of blocks of the list, and whose blocks and   *)
(* uncles have the required effort together, the first block's uncles left *)
(* out.                                                                    *)
AcceptsForks ==
    result \in {"ACCEPT", "REJECT"} =>
        (result = "ACCEPT" <=>
            /\ args.version = 1 /\ args.required >= 1
            /\ Len(Blocks) >= 3 /\ Len(Blocks) >= args.required
            /\ B(1).time >= args.time /\ B(1).number >= args.number
            /\ IsChain
            /\ \A k \in DOMAIN Blocks : (k = 1 => B(k).event # PegoutId) /\ (k >= 3 => B(k).event = PegoutId)
            /\ \A k \in DOMAIN Together :
                  LET b == Together[k]
                  IN /\ b.hash = Digest(b) /\ b.version \in (IF b.event = NoEvent THEN {1, 2} ELSE {2})
                     /\ b.pow # 0 /\ b.diff * Times <= MaxU256
            /\ \A k \in 2..Len(Blocks) : \A u \in ToSet(B(k).uncles) :
                  u.number = B(k - 1).number /\ u.parent = B(k - 1).parent /\ u.diff = B(k - 1).diff
            /\ LET total == Accumulated(0, Together) IN total <= MaxU256 /\ total >= args.effort)

(* The effort that check_fork returns is the one of every block and every  *)
(* uncle that it has looked at.                                            *)
EffortIsSum ==
    result = "ACCEPT" => effort = Accumulated(0, Together)

(* The tester writes the journal of an accepted fork before it checks the  *)
(* list that it made.  The list is accepted if no block failed to come in  *)
(* between two others, the effort asked for is not more than there is, and *)
(* the list is as long, as late and as high as asked for.                  *)
FixtureIsAccepted ==
    from = "tester" /\ result # "running" =>
        (result = "ACCEPT" <=>
            /\ \A k \in DOMAIN Blocks : B(k).number = B(1).number + k - 1
            /\ args.effort <= TotalEffort(Blocks)
            /\ Len(Blocks) >= args.required
            /\ B(1).time >= args.time /\ B(1).number >= args.number)

(* check_fork accepts what is a fork with the effort asked for, and what   *)
(* its tester makes.                                                       *)
ForksAreJudged == AcceptsForks /\ EffortIsSum /\ FixtureIsAccepted

=============================================================================
