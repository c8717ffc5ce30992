------------------------------ MODULE Gateway -------------------------------
(***************************************************************************)
(* The operations of RskContractsGateway: the contract each one calls or   *)
(* sends a transaction to, what it parses first, and how the error of a    *)
(* contract becomes one of DomainErrors, which is all that the flows see.  *)
(***************************************************************************)
EXTENDS Integers, FiniteSetsExt

CONSTANT Extra    \* the errors of each contract's interface that no decoder names (external)

DomainErrors ==
    {"AcceptPeginTxidNotFound", "ChallengeTxidNotMatch", "CommitteeError", "InternalServerError", "InvalidAddress",
     "InvalidBtcTxSpvProof", "InvalidChallengeInputCount", "InvalidCompressedPubKey", "InvalidPegStatus",
     "InvalidPublicKey", "InvalidRevealedInputCount", "InvalidRole", "InvalidSlotState", "InvalidValue",
     "MemberAlreadyDepositedCommunicationData", "MemberAlreadyRegisteredForStream", "MemberInfoAlreadyDeposited",
     "MemberNotInCommittee", "MemberRegistryError", "MissingConfirmationsOnNativeBridge", "NoRevertError", "NotOwner",
     "PacketOutOfBound", "PeginAlreadyAccepted", "PeginAlreadyRequested", "PeginNotRequested",
     "PegoutRequestAmountExceedsUint64Limit", "PegStatusAlreadyCompleted", "ReimbursementKickoffTxidNotMatch",
     "SignaturesError", "StreamNotFoundByDenomination", "TxidToSignNotFound", "UnhandledContractError",
     "UnknownContractError"}

(* A decoder: the contract, the errors it names and what becomes of the    *)
(* others.                                                                 *)
Decoder(contract, named, others) == [contract |-> contract, named |-> named, others |-> others]

(* The errors each contract module decodes by name. *)
PeginManager ==
    Decoder("pegin",
        [PeginAlreadyAccepted |-> "PeginAlreadyAccepted", PeginAlreadyRequested |-> "PeginAlreadyRequested",
         IncorrectOutputsNumber |-> "InvalidBtcTxSpvProof", InvalidBtcTxVersion |-> "InvalidBtcTxSpvProof",
         InvalidLocktime |-> "InvalidBtcTxSpvProof", InvalidPegStatus |-> "by status"],
        "UnhandledContractError")

PegoutManager ==
    Decoder("pegout",
        [InvalidCompressedPubKey |-> "InvalidCompressedPubKey",
         PegoutRequestAmountExceedsUint64Limit |-> "PegoutRequestAmountExceedsUint64Limit",
         IncorrectInputsNumber |-> "InvalidBtcTxSpvProof", IncorrectOutputsNumber |-> "InvalidBtcTxSpvProof",
         InvalidBtcTxVersion |-> "InvalidBtcTxSpvProof", InvalidLocktime |-> "InvalidBtcTxSpvProof",
         InvalidSlotState |-> "InvalidSlotState", InvalidPegStatus |-> "by status"],
        "UnhandledContractError")

BitcoinManager ==
    Decoder("bitcoin",
        [InvalidAddress |-> "InvalidAddress", InvalidPublicKey |-> "InvalidPublicKey", InvalidValue |-> "InvalidValue"],
        "UnhandledContractError")

StreamManager ==
    Decoder("stream",
        [StreamNotFoundByDenomination |-> "StreamNotFoundByDenomination", PacketOutOfBound |-> "PacketOutOfBound",
         InvalidRole |-> "InvalidRole"],
        "UnhandledContractError")

SignatureManager ==
    Decoder("signature",
        [AcceptPeginTxidNotFound |-> "AcceptPeginTxidNotFound", AddressEmptyCode |-> "InvalidAddress",
         TxidToSignNotFound |-> "TxidToSignNotFound"],
        "UnhandledContractError")

CommitteeRegistry ==
    Decoder("committee",
        [MemberAlreadyDepositedCommunicationData |-> "MemberAlreadyDepositedCommunicationData",
         MemberInfoAlreadyDeposited |-> "MemberInfoAlreadyDeposited"],
        "CommitteeError")

MemberRegistry ==
    Decoder("member",
        [MemberAlreadyRegisteredForStream |-> "MemberAlreadyRegisteredForStream"],
        "MemberRegistryError")

ChallengeManager ==
    Decoder("challenge",
        [PeginNotRequested |-> "PeginNotRequested", ChallengeTxidNotMatch |-> "ChallengeTxidNotMatch",
         InvalidChallengeInputCount |-> "InvalidChallengeInputCount",
         InvalidRevealedInputCount |-> "InvalidRevealedInputCount",
         ReimbursementKickoffTxidNotMatch |-> "ReimbursementKickoffTxidNotMatch",
         InvalidPegStatus |-> "InvalidPegStatus", MemberNotInCommittee |-> "MemberNotInCommittee"],
        "UnhandledContractError")

(* The order in which the decoders are tried. *)
Decoders ==
    <<PeginManager, PegoutManager, BitcoinManager, StreamManager, SignatureManager, CommitteeRegistry,
      MemberRegistry, ChallengeManager>>

PEG_STATUS_COMPLETED == 9

FromInvalidPegStatus(actual) ==
    IF actual = PEG_STATUS_COMPLETED THEN "PegStatusAlreadyCompleted" ELSE "InvalidPegStatus"

(* An error is decoded by name, except for a status that is wrong. *)
Decode(d, err) ==
    IF err.name \notin DOMAIN d.named THEN d.others
    ELSE IF d.named[err.name] = "by status" THEN FromInvalidPegStatus(err.actual)
    ELSE d.named[err.name]

(* From<alloy_contract::Error> for DomainErrors: the first decoder whose   *)
(* interface has the error decides, whichever contract raised it.          *)
DomainError(err) ==
    LET knows == {i \in DOMAIN Decoders : err.name \in DOMAIN Decoders[i].named \cup Extra[Decoders[i].contract]}
    IN IF knows = {} THEN "NoRevertError" ELSE Decode(Decoders[Min(knows)], err)

-----------------------------------------------------------------------------
(* The operations.  contract is the one a transaction goes to and calls    *)
(* are the contracts it reads; parse holds the errors for input that       *)
(* cannot be parsed; repeated is the error of the contract for what was    *)
(* done before, "none" where it is done again (external); bridge: flows    *)
(* call it through invoke_contract_safe; wraps: any error becomes          *)
(* UnhandledContractError; success is the error that the flow takes for    *)
(* success.                                                                *)
Plain(contract) ==
    [contract |-> contract, calls |-> {}, parse |-> {}, repeated |-> "Other", bridge |-> FALSE,
     wraps |-> FALSE, success |-> "none"]

Query(calls, parse, wraps) == [Plain("none") EXCEPT !.calls = calls, !.parse = parse, !.wraps = wraps]

(* The contracts that take transactions. *)
PeginManagerContract      == Plain("pegin")
PegoutManagerContract     == Plain("pegout")
SignatureManagerContract  == Plain("signature")
CommitteeRegistryContract == Plain("committee")
ChallengeManagerContract  == Plain("challenge")

(* The contracts that are only read. *)
StreamManagerContract  == {"stream"}
MemberRegistryContract == {"member"}

(* try_from(BtcTxSPVProofInput) *)
SpvProof(c) == [c EXCEPT !.parse = {"InvalidBtcTxSpvProof"}]

Verified(c) == [SpvProof(c) EXCEPT !.bridge = TRUE]

RequestPegin ==
    [Verified(PeginManagerContract) EXCEPT !.repeated = "PeginAlreadyRequested", !.success = "PeginAlreadyRequested"]

AcceptPegin ==
    [Verified(PeginManagerContract) EXCEPT !.repeated = "PeginAlreadyAccepted", !.success = "PeginAlreadyAccepted"]

RegisterPegout ==
    [Verified(PegoutManagerContract) EXCEPT !.repeated = "InvalidPegStatus", !.success = "PegStatusAlreadyCompleted"]

RequestPegout == [PegoutManagerContract EXCEPT !.parse = {"InvalidCompressedPubKey"}, !.repeated = "none"]

(* The balance and the minimum deposit are read first. *)
ApplyToStream ==
    [CommitteeRegistryContract EXCEPT
        !.calls = StreamManagerContract, !.parse = {"InternalServerError", "InvalidValue", "CommitteeError", "InvalidPublicKey"},
        !.repeated = "MemberAlreadyRegisteredForStream", !.success = "MemberAlreadyRegisteredForStream"]

DepositCommunicationData ==
    [CommitteeRegistryContract EXCEPT
        !.wraps = TRUE,
        !.repeated = "MemberAlreadyDepositedCommunicationData",
        !.success = "MemberAlreadyDepositedCommunicationData"]

DepositAggregatedKey ==
    [CommitteeRegistryContract EXCEPT
        !.wraps = TRUE, !.repeated = "MemberInfoAlreadyDeposited", !.success = "MemberInfoAlreadyDeposited"]

AddMemberNonce               == SignatureManagerContract
AddMemberSignature           == SignatureManagerContract
AddOperatorTakeTxHash        == SignatureManagerContract
TriggerOperatorTake          == [PegoutManagerContract EXCEPT !.parse = {"InvalidValue"}]
RegisterOperatorTake         == Verified(PegoutManagerContract)
RegisterAdvanceFunds         == Verified(PegoutManagerContract)
RegisterReimbursementKickoff == Verified(PegoutManagerContract)
RegisterOperatorWon          == SpvProof(PegoutManagerContract)
RegisterChallenge            == SpvProof(ChallengeManagerContract)
RegisterInputRevealed        == SpvProof(ChallengeManagerContract)

GetAcceptPeginTxid        == Query({"pegout"}, {"AcceptPeginTxidNotFound"}, TRUE)
GetCommittee              == Query({"committee"}, {}, TRUE)
GetMemberCommunicationData == Query({"committee"}, {}, TRUE)
GetMemberPublicKeys       == Query(MemberRegistryContract, {"InvalidPublicKey"}, TRUE)
GetTemporaryPeginAddress  == Query({"pegin"} \cup StreamManagerContract, {"InvalidAddress", "InvalidCompressedPubKey"}, FALSE)
IsWhitelisted             == Query({"committee"}, {}, TRUE)
GetMinimumDeposit         == Query(StreamManagerContract, {}, TRUE)

(* The gateway's operations. *)
PegOperations ==
    {RequestPegin, AcceptPegin, AddMemberNonce, AddMemberSignature, AddOperatorTakeTxHash, RequestPegout,
     RegisterPegout, RegisterOperatorTake, TriggerOperatorTake, GetTemporaryPeginAddress}

CommitteeOperations ==
    {ApplyToStream, DepositCommunicationData, DepositAggregatedKey, RegisterChallenge, RegisterInputRevealed,
     RegisterOperatorWon, RegisterAdvanceFunds, RegisterReimbursementKickoff, GetAcceptPeginTxid, GetCommittee,
     GetMemberCommunicationData, GetMemberPublicKeys, IsWhitelisted, GetMinimumDeposit}

Operations == PegOperations \cup CommitteeOperations

(* The contracts that must have code when the gateway is made. *)
Checked == {"pegin", "pegout", "signature", "committee", "member", "stream", "challenge"}

=============================================================================
