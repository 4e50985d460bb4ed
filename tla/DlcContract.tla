----------------------------- MODULE DlcContract -----------------------------
(***************************************************************************)
(* The life of an on-chain DLC (a contract not inside a channel) between   *)
(* two dlc-manager nodes (manager.rs): send_offer, accept_contract_offer,  *)
(* the OnChain message handlers on_offer_message, on_accept_message and    *)
(* on_sign_message, and the contract steps of periodic_check               *)
(* (check_signed_contracts, check_confirmed_contracts with close_contract  *)
(* and check_refund, check_preclosed_contracts), which run one after the   *)
(* other in one call.                                                      *)
(*                                                                         *)
(* Data is abstracted: a contract is a contract id, a store holds its     *)
(* state name, and the blockchain knows three transactions per contract,  *)
(* the fund tx and the CET and refund tx that both spend its output.  A   *)
(* transaction is absent (-1), in the mempool (0) or confirmed (1).  The  *)
(* oracle's attestation and the refund locktime of a contract are two     *)
(* facts that become true.                                                 *)
(***************************************************************************)
EXTENDS Integers, FiniteSets

CONSTANTS
    Parties,           \* the two nodes
    Contracts,         \* contract ids
    OfferParty,        \* contract id -> the node that calls send_offer
    NB_CONFIRMATIONS,  \* manager.rs:51, 0 in the code
    LateAttestation,   \* the oracle may attest after the refund locktime
    Faults             \* a subset of {"badsig", "loss"}

ASSUME /\ OfferParty \in [Contracts -> Parties]
       /\ NB_CONFIRMATIONS \in 0..1
       /\ LateAttestation \in BOOLEAN
       /\ Faults \subseteq {"badsig", "loss"}

Peer(p) == CHOOSE q \in Parties : q # p
AcceptParty(c) == Peer(OfferParty[c])

\* The Contract enum of contract/mod.rs, plus "None" for no stored contract.
States == {"None", "Offered", "Accepted", "Signed", "Confirmed", "PreClosed",
           "Closed", "Refunded", "FailedAccept", "FailedSign"}
Terminal == {"Closed", "Refunded", "FailedAccept", "FailedSign"}

Txs == {"fund", "cet", "refund"}
Absent == -1

\* The CET and the refund tx spend the same output of the fund tx.
Rival(t) == IF t = "cet" THEN "refund" ELSE "cet"

Msg(type, c, to) == [type |-> type, id |-> c, to |-> to]
\* A message goes to the party the protocol sends it to: the offer and the
\* sign message to the accept party, the accept message to the offer party.
Messages == {Msg(t, c, AcceptParty(c)) : t \in {"Offer", "Sign"}, c \in Contracts}
            \cup {Msg("Accept", c, OfferParty[c]) : c \in Contracts}

VARIABLES
    contract,    \* party -> contract id -> its state in the party's store
    net,         \* messages in flight
    chain,       \* contract id -> tx -> Absent, 0 (mempool) or 1 (confirmed)
    attested,    \* contract id -> the oracle's attestation is available
    refundable   \* contract id -> the refund tx's lock time has passed

vars == <<contract, net, chain, attested, refundable>>

TypeOK ==
    /\ contract \in [Parties -> [Contracts -> States]]
    /\ net \subseteq Messages
    /\ chain \in [Contracts -> [Txs -> {Absent, 0, 1}]]
    /\ attested \in [Contracts -> BOOLEAN]
    /\ refundable \in [Contracts -> BOOLEAN]

Init ==
    /\ contract = [p \in Parties |-> [c \in Contracts |-> "None"]]
    /\ net = {}
    /\ chain = [c \in Contracts |-> [t \in Txs |-> Absent]]
    /\ attested = [c \in Contracts |-> FALSE]
    /\ refundable = [c \in Contracts |-> FALSE]

----------------------------------------------------------------------------
(* The Blockchain interface as the manager sees it; ch is the part of the  *)
(* chain one contract's transactions are in.                              *)

\* get_transaction_confirmations: an unknown transaction has 0.
Confs(t, ch) == IF ch[t] = Absent THEN 0 ELSE ch[t]

\* The node accepts a new transaction whose inputs exist and are unspent.
Acceptable(t, ch) ==
    /\ ch[t] = Absent
    /\ t = "fund" \/ (ch["fund"] # Absent /\ ch[Rival(t)] = Absent)

\* send_transaction, as the outcomes [ok, ch] it may have.  Whether a
\* transaction already in the mempool is accepted again or refused
\* depends on the Blockchain implementation, so both happen.
SendTx(t, ch) ==
    LET accepted == [ok |-> TRUE, ch |-> [ch EXCEPT ![t] = 0]]
        resent   == [ok |-> TRUE, ch |-> ch]
        refused  == [ok |-> FALSE, ch |-> ch]
    IN  IF Acceptable(t, ch) THEN {accepted}
        ELSE IF ch[t] = 0 THEN {resent, refused}
        ELSE {refused}

----------------------------------------------------------------------------
(* The contract steps of periodic_check for contract c, on [st, ch] pairs. *)

Out(st, ch) == [st |-> st, ch |-> ch]

\* get_closable_contract_info: enough oracles of the contract have matured
\* events and give an attestation.  One oracle and one event here.
Closable(c) == attested[c]

\* check_signed_contract
CheckSignedContract(c, st, ch) ==
    IF st = "Signed" /\ Confs("fund", ch) >= NB_CONFIRMATIONS
    THEN "Confirmed" ELSE st

CloseContractIgnoreSendError(c, ch) ==
    IF Confs("cet", ch) < 1
    THEN { Out("PreClosed", r.ch) : r \in SendTx("cet", ch) }
    ELSE IF Confs("cet", ch) < NB_CONFIRMATIONS THEN {Out("PreClosed", ch)}
    ELSE {Out("Closed", ch)}

\* close_contract: broadcast the CET unless it has a confirmation; an error
\* of send_transaction leaves the contract Confirmed.
CloseContract(c, ch) ==
    IF Confs("cet", ch) < 1
    THEN { Out(IF r.ok THEN "PreClosed" ELSE "Confirmed", r.ch) : r \in SendTx("cet", ch) }
    ELSE IF Confs("cet", ch) < NB_CONFIRMATIONS THEN {Out("PreClosed", ch)}
    ELSE {Out("Closed", ch)}

\* check_refund: once the lock time has passed, broadcast the refund unless
\* it has a confirmation, and store Refunded unless the broadcast failed.
CheckRefund(c, ch) ==
    IF ~refundable[c] THEN {Out("Confirmed", ch)}
    ELSE IF Confs("refund", ch) = 0
    THEN { Out(IF r.ok THEN "Refunded" ELSE "Confirmed", r.ch) : r \in SendTx("refund", ch) }
    ELSE {Out("Refunded", ch)}

CheckConfirmedContractNoRefund(c, st, ch) ==
    IF st # "Confirmed" THEN {Out(st, ch)}
    ELSE IF Closable(c) THEN CloseContract(c, ch)
    ELSE {Out(st, ch)}

\* check_confirmed_contract: close if the attestation is available, else
\* try the refund.
CheckConfirmedContract(c, st, ch) ==
    IF st # "Confirmed" THEN {Out(st, ch)}
    ELSE IF Closable(c) THEN CloseContract(c, ch)
    ELSE CheckRefund(c, ch)

\* check_preclosed_contract
CheckPreclosedContract(c, st, ch) ==
    IF st = "PreClosed" /\ Confs("cet", ch) >= NB_CONFIRMATIONS
    THEN "Closed" ELSE st

\* The three steps for one contract, as the outcomes they may have.
CheckContract(c, st, ch) ==
    { Out(CheckPreclosedContract(c, r.st, r.ch), r.ch) :
        r \in CheckConfirmedContract(c, CheckSignedContract(c, st, ch), ch) }

----------------------------------------------------------------------------
(* Operations and message handlers.                                        *)

Send(m) == net' = net \cup {m}
Consume(m) == net' = net \ {m}
SetState(p, c, st) == contract' = [contract EXCEPT ![p][c] = st]

\* accept_fail_on_error and sign_fail_on_error store the failed contract.
AcceptFailOnError(p, c) == SetState(p, c, "FailedAccept")
SignFailOnError(p, c) == SetState(p, c, "FailedSign")

SendOffer(c) ==
    LET p == OfferParty[c] IN
    /\ contract[p][c] = "None"
    /\ SetState(p, c, "Offered")
    /\ Send(Msg("Offer", c, Peer(p)))
    /\ UNCHANGED <<chain, attested, refundable>>

\* A second offer with the same id is refused; ids are unique here.
OnOfferMessage(m) ==
    /\ m.type = "Offer" /\ contract[m.to][m.id] = "None"
    /\ SetState(m.to, m.id, "Offered")
    /\ Consume(m)
    /\ UNCHANGED <<chain, attested, refundable>>

AcceptContractOfferToSelf(c) ==
    LET p == AcceptParty(c) IN
    /\ contract[p][c] = "Offered"
    /\ SetState(p, c, "Accepted")
    /\ Send(Msg("Accept", c, p))
    /\ UNCHANGED <<chain, attested, refundable>>

AcceptContractOffer(c) ==
    LET p == AcceptParty(c) IN
    /\ contract[p][c] = "Offered"
    /\ SetState(p, c, "Accepted")
    /\ Send(Msg("Accept", c, Peer(p)))
    /\ UNCHANGED <<chain, attested, refundable>>

\* The accept message is verified and the contract signed, or the
\* verification fails and FailedAccept is stored.
OnAcceptMessage(m) ==
    LET p == m.to IN
    /\ m.type = "Accept" /\ contract[p][m.id] = "Offered"
    /\ \/ /\ SetState(p, m.id, "Signed")
          /\ net' = (net \ {m}) \cup {Msg("Sign", m.id, Peer(p))}
       \/ /\ "badsig" \in Faults
          /\ AcceptFailOnError(p, m.id)
          /\ Consume(m)
    /\ UNCHANGED <<chain, attested, refundable>>

\* Signed is stored before the fund tx is broadcast.
OnSignMessage(m) ==
    LET p == m.to IN
    /\ m.type = "Sign" /\ contract[p][m.id] = "Accepted"
    /\ \/ /\ SetState(p, m.id, "Signed")
          /\ \E r \in SendTx("fund", chain[m.id]) :
                chain' = [chain EXCEPT ![m.id] = r.ch]
       \/ /\ "badsig" \in Faults
          /\ SignFailOnError(p, m.id)
          /\ UNCHANGED chain
    /\ Consume(m)
    /\ UNCHANGED <<attested, refundable>>

\* One call of periodic_check, for the contract steps: every contract of p
\* goes through the three steps (an error on one is logged and the loop
\* goes on).  Contracts of different ids spend different outputs.
PeriodicCheck(p) ==
    /\ \E c \in Contracts : contract[p][c] \in {"Signed", "Confirmed", "PreClosed"}
    /\ LET Outs(c) == CheckContract(c, contract[p][c], chain[c]) IN
       \E f \in [Contracts -> UNION {Outs(c) : c \in Contracts}] :
          /\ \A c \in Contracts : f[c] \in Outs(c)
          /\ contract' = [contract EXCEPT ![p] = [c \in Contracts |-> f[c].st]]
          /\ chain' = [c \in Contracts |-> f[c].ch]
    /\ UNCHANGED <<net, attested, refundable>>

----------------------------------------------------------------------------
(* The environment.                                                        *)

\* A block confirms some mempool transactions whose parent is confirmed.
Mine ==
    \E S \in SUBSET {<<c, t>> \in Contracts \X Txs : chain[c][t] = 0} :
       /\ S # {}
       /\ \A <<c, t>> \in S : t = "fund" \/ chain[c]["fund"] = 1 \/ <<c, "fund">> \in S
       /\ chain' = [c \in Contracts |-> [t \in Txs |->
                       IF <<c, t>> \in S THEN 1 ELSE chain[c][t]]]
       /\ UNCHANGED <<contract, net, attested, refundable>>

Attest(c) ==
    /\ ~attested[c] /\ (LateAttestation \/ ~refundable[c])
    /\ attested' = [attested EXCEPT ![c] = TRUE]
    /\ UNCHANGED <<contract, net, chain, refundable>>

RefundLocktimePasses(c) ==
    /\ ~refundable[c]
    /\ refundable' = [refundable EXCEPT ![c] = TRUE]
    /\ UNCHANGED <<contract, net, chain, attested>>

Lose(m) ==
    /\ "loss" \in Faults
    /\ Consume(m)
    /\ UNCHANGED <<contract, chain, attested, refundable>>

Next ==
    \/ \E c \in Contracts : SendOffer(c) \/ AcceptContractOffer(c)
                            \/ Attest(c) \/ RefundLocktimePasses(c)
    \/ \E p \in Parties : PeriodicCheck(p)
    \/ \E m \in net : OnOfferMessage(m) \/ OnAcceptMessage(m) \/ OnSignMessage(m)
                      \/ Lose(m)
    \/ Mine

Spec == Init /\ [][Next]_vars

\* periodic_check is called on a timer, miners include valid transactions,
\* and time passes.  Users and the oracle are not assumed to act.
FairSpec == Spec /\ \A p \in Parties : WF_vars(PeriodicCheck(p))
                 /\ WF_vars(Mine)
                 /\ \A c \in Contracts : WF_vars(RefundLocktimePasses(c))

----------------------------------------------------------------------------
(* Properties.                                                             *)

\* Every outcome a node records is backed by the transaction it names being
\* on chain (at least in the mempool), so the two nodes never record
\* different outcomes: close_contract and check_refund only store
\* PreClosed, Closed or Refunded after send_transaction succeeded or the
\* transaction was seen confirmed.
OutcomeOnChain ==
    \A p \in Parties, c \in Contracts :
       /\ contract[p][c] \in {"PreClosed", "Closed"} => chain[c]["cet"] # Absent
       /\ contract[p][c] = "Refunded" => chain[c]["refund"] # Absent

\* Once the fund tx of a contract is broadcast, both nodes' contracts reach
\* a terminal state: periodic_check closes them with the CET, or refunds
\* them after the lock time, and a broadcast refused because the same
\* transaction is already in the mempool is resolved once it confirms.
FundedContractTerminates ==
    \A c \in Contracts :
       chain[c]["fund"] # Absent ~> \A p \in Parties : contract[p][c] \in Terminal

=============================================================================
