---------------------------- MODULE DisputeSetup ----------------------------
(***************************************************************************)
(* What a member of a committee asks of BitVMX while the committee is set  *)
(* up: the keys it shares with a partner, the dispute cores, the variables *)
(* of these and the dispute channels.  roles gives the role of each member *)
(* by its index; a request is a tuple that begins with its kind.           *)
(***************************************************************************)
EXTENDS Integers

ParticipantRole == {"Prover", "Verifier"}

(* Two verifiers have no business with each other. *)
Partners(roles, me) ==
    {p \in DOMAIN roles \ {me} : roles[me] = "Prover" \/ roles[p] = "Prover"}

(* pairwise_aggregated_key_protocol_id and get_dispute_pair_key_name. *)
PairKey(i, j) == IF i <= j THEN <<"pair", i, j>> ELSE <<"pair", j, i>>

(* setup_pairwise_keys. *)
PairwiseKeys(roles, me) == {PairKey(me, p) : p \in Partners(roles, me)}

(* DisputeCoreSetup::setup: one core for each member. *)
DisputeCores(roles) == {<<"core", m>> : m \in DOMAIN roles}

(* request_dispute_core_var: the member's own variables and its partners'. *)
CoreVars(roles, me) ==
    {<<"var", m, v>> : m \in Partners(roles, me) \cup {me}, v \in {"cosign", "stoppers"}}

(* setup_one, with the core and the index from which the cosign output and *)
(* the stoppers are taken.                                                 *)
SetupOne(op, wt, core, index) ==
    [op |-> op, wt |-> wt, key |-> PairKey(op, wt), core |-> core, index |-> index]

ChannelAsOperator(me, p)   == SetupOne(me, p, p, me)
ChannelAsWatchtower(me, p) == SetupOne(p, me, me, p)

(* complete_setup: two provers have a channel in each direction. *)
CompleteSetup(roles, me) ==
    LET operator   == {p \in Partners(roles, me) : roles[me] = "Prover"}
        watchtower == {p \in Partners(roles, me) : roles[p] = "Prover"}
    IN {ChannelAsOperator(me, p) : p \in operator} \cup {ChannelAsWatchtower(me, p) : p \in watchtower}

(* dispute_channel_protocol_id. *)
Channels(roles, me) == {<<"channel", c.op, c.wt>> : c \in CompleteSetup(roles, me)}

(* FullPenalizationSetup::setup: one set-up for the whole committee. *)
Penalization == {<<"penalization">>}

=============================================================================
