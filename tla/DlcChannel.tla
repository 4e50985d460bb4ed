----------------------------- MODULE DlcChannel -----------------------------
(***************************************************************************)
(* A DLC channel between two dlc-manager nodes (manager.rs), each with its *)
(* own store (channel, contracts) and its own ChainMonitor, the messages   *)
(* between them, and the blockchain.  One action per public operation or  *)
(* message handler of Manager, and one per step of periodic_check.        *)
(*                                                                         *)
(* The sub-state changes made inside channel_updater.rs (not part of src/) *)
(* follow spec.md section 4.3: each handler moves the SignedChannelState   *)
(* as the spec's sub-protocol says, stashing the prior state in            *)
(* roll_back_state while an update is speculative.  Everything the        *)
(* manager itself does (guards, monitor updates, broadcasts, store        *)
(* writes, and their order) is taken from manager.rs.                      *)
(*                                                                         *)
(* Data is abstracted: a transaction is [kind, idx, by], where idx is the  *)
(* update_idx of the channel state it belongs to and by the party of a    *)
(* per-party transaction (claim, punish); signatures, keys, payouts and    *)
(* fees are left out.  Confirmation depth is 0 (mempool), 1 (confirmed)   *)
(* or 2 (at least CET_NSEQUENCE confirmations).  NB_CONFIRMATIONS is 0 in *)
(* the code, so every ">= NB_CONFIRMATIONS" test holds and is not kept.   *)
(***************************************************************************)
EXTENDS Integers, FiniteSets, TLC, ChainMonitor
LOCAL INSTANCE FiniteSetsExt

CONSTANTS
    Parties,           \* the two nodes
    Offerer,           \* the node that calls offer_channel
    Cheaters,          \* nodes that may also broadcast revoked transactions
    InitialUpdateIdx,  \* update_idx of a newly signed channel (2^48 - 1)
    UpdateBound,       \* the model allows update_idx to go down to this
    MaxContract,       \* contract ids are 1..MaxContract
    CID,               \* the channel id
    Ops,               \* the channel updates users may start: a subset of
                       \* {"settle", "renew", "close", "force"}
    Faults,            \* the faults that may happen: a subset of
                       \* {"badsig", "loss", "crash"}
    MaxCrashes,        \* how many process crashes the model allows
    NULL

ASSUME /\ Offerer \in Parties /\ Cheaters \subseteq Parties
       /\ UpdateBound \in Nat /\ InitialUpdateIdx > UpdateBound
       /\ Ops \subseteq {"settle", "renew", "close", "force"}
       /\ Faults \subseteq {"badsig", "loss", "crash"} /\ MaxCrashes \in Nat

Other(p) == CHOOSE q \in Parties : q # p
ContractIds == 1..MaxContract
NoContract == 0
UpdateIdxs == UpdateBound..InitialUpdateIdx

----------------------------------------------------------------------------
(* Transactions and the blockchain.                                        *)

Tx(kind, idx, by) == [kind |-> kind, idx |-> idx, by |-> by]
FundTx == Tx("fund", 0, NULL)
BufferTx(i) == Tx("buffer", i, NULL)
SettleTx(i) == Tx("settle", i, NULL)
CloseTx(i) == Tx("close", i, NULL)
CetTx(i) == Tx("cet", i, NULL)
ClaimTx(i, p) == Tx("claim", i, p)

\* The transaction a transaction spends from, and the outputs it spends.
Parent(t) ==
    CASE t.kind \in {"buffer", "settle", "close"}  -> FundTx
      [] t.kind \in {"cet", "punishbuffer"}        -> BufferTx(t.idx)
      [] t.kind \in {"claim", "punishsettle"}      -> SettleTx(t.idx)
      [] OTHER                                     -> NULL
Spends(t) ==
    CASE t.kind \in {"buffer", "settle", "close"}  -> {<<"fund">>}
      [] t.kind \in {"cet", "punishbuffer"}        -> {<<"buffer", t.idx>>}
      [] t.kind = "claim"                          -> {<<"settle", t.idx, t.by>>}
      [] t.kind = "punishsettle" -> {<<"settle", t.idx, p>> : p \in Parties}
      [] OTHER                                     -> {}
\* CETs and claim transactions carry the CET_NSEQUENCE relative lock time.
Csv(t) == t.kind \in {"cet", "claim"}

VARIABLES chain     \* broadcast transactions -> [lvl, by (first broadcaster)]

Level(t) == IF t \in DOMAIN chain THEN chain[t].lvl ELSE -1
Conflicts(t, u) == t # u /\ Spends(t) \cap Spends(u) # {}
\* Blockchain::send_transaction succeeds: the parent is known (deep enough
\* under a relative lock time) and no confirmed transaction spends the same
\* output.  A conflicting transaction still in the mempool may be replaced.
CanSend(t) ==
    /\ \/ Level(t) = 0
       \/ /\ Level(t) = -1
          /\ Parent(t) = NULL \/ Level(Parent(t)) >= (IF Csv(t) THEN 2 ELSE 0)
    /\ \A u \in DOMAIN chain : chain[u].lvl >= 1 => ~Conflicts(t, u)
Sent(t, p) == IF t \in DOMAIN chain THEN chain
              ELSE chain @@ (t :> [lvl |-> 0, by |-> p])

----------------------------------------------------------------------------
(* Channel and contract state.                                             *)

\* A SignedChannelState: type, idx (update_idx of its buffer, settle or    *)
\* close transaction), isOffer, isInit (is_initiator) and contract.        *)
St(type, idx, isOffer, isInit, c) ==
    [type |-> type, idx |-> idx, isOffer |-> isOffer, isInit |-> isInit,
     contract |-> c]

\* SignedChannel::get_contract_id: the states that carry a contract id.
GetContractId(s) ==
    IF s.type \in {"Established", "RenewOffered", "RenewAccepted",
                   "RenewConfirmed", "RenewFinalized", "Closing"}
    THEN s.contract ELSE NoContract

\* The commitment transaction a stable state can be closed with.
CommitTx(s) == IF s.type = "Settled" THEN SettleTx(s.idx) ELSE BufferTx(s.idx)

\* The states channel_updater starts an update or a close offer from.
StableStates == {"Established", "Settled"}

\* The in-progress states force_close_channel_internal replaces by
\* roll_back_state before closing.
RollbackStates == {"SettledOffered", "SettledReceived", "SettledAccepted",
                   "SettledConfirmed", "RenewOffered", "RenewAccepted",
                   "RenewConfirmed", "CollaborativeCloseOffered"}

VARIABLES
    chan,          \* party -> stored channel (see NoChannel)
    contract,      \* party -> contract id -> state name, "None" if unknown
    monitor,       \* party -> ChainMonitor value
    net,           \* messages in flight
    pc,            \* party -> the step of periodic_check it is at
    pending,       \* party -> confirmed_txs snapshot being processed
    nextContract,  \* the next fresh contract id
    attested,      \* the oracle has attested (closable info is available)
    panicked,      \* party -> "no", "down" while its process is crashed,
                   \* or the expect() its process died on
    saved,         \* party -> the chain monitor last written to its store
    crashes,       \* the number of process crashes so far
    hist           \* history: [commits: buffer and settle txs signed,
                   \*  cheated: txs broadcast by Cheat, held: party ->
                   \*  the Established and Settled states it has held]

vars == <<chain, chan, contract, monitor, net, pc, pending, nextContract,
          attested, panicked, saved, crashes, hist>>
reactorVars == <<pc, pending>>
envVars == <<chain, nextContract, attested>>
procVars == <<panicked, saved, crashes>>

\* A channel record: status is the Channel variant (or "None" before any),
\* st and rb the SignedChannelState and roll_back_state of a Signed one,
\* uidx its update_idx, secrets the update indices whose counterparty
\* per-update secret it holds, closingTx and isCloser the fields of the
\* closed and settled-closing variants.
NoChannel == [status |-> "None", st |-> NULL, rb |-> NULL,
              uidx |-> InitialUpdateIdx, secrets |-> {},
              isOfferParty |-> FALSE, closingTx |-> NULL, isCloser |-> FALSE]

\* A message; c is the contract id a RenewOffer carries, s the update index
\* of the per-update secret a message reveals (0 for none).
MsgCS(type, from, c, s) ==
    [type |-> type, from |-> from, to |-> Other(from), c |-> c, s |-> s]
Msg(type, from) == MsgCS(type, from, NoContract, 0)

Init ==
    /\ chain = <<>>
    /\ chan = [p \in Parties |-> NoChannel]
    /\ contract = [p \in Parties |-> [c \in ContractIds |-> "None"]]
    /\ monitor = [p \in Parties |-> EmptyMonitor]
    /\ net = {}
    /\ pc = [p \in Parties |-> "confirm"]
    /\ pending = [p \in Parties |-> [tx |-> {}, txo |-> {}]]
    /\ nextContract = 1
    /\ attested = FALSE
    /\ panicked = [p \in Parties |-> "no"]
    /\ saved = [p \in Parties |-> EmptyMonitor]
    /\ crashes = 0
    /\ hist = [commits |-> {}, cheated |-> {},
               held |-> [p \in Parties |-> {}],
               last |-> [p \in Parties |-> NULL], log |-> [i \in {} |-> NULL]]

\* A node whose process is down takes no step; one that died on an expect()
\* never comes back.
Alive(p) == panicked[p] = "no"
Dead(p) == panicked[p] \notin {"no", "down"}
InSigned(p, t) == chan[p].status = "Signed" /\ chan[p].st.type = t
\* Message m addressed to a live p, of the given type, is in flight.
Recv(p, m, type) == /\ Alive(p) /\ m \in net /\ m.to = p /\ m.type = type
Contract(p, c) == contract[p][c]
SetContract(p, c, s) == contract' = [contract EXCEPT ![p][c] = s]
\* roll_back_state is an Established state.
RbEstablished(p) == chan[p].rb # NULL /\ chan[p].rb.type = "Established"
\* Move the signed channel of p to sub-state s with roll_back_state r.
SetSt(p, s, r) == chan' = [chan EXCEPT ![p].st = s, ![p].rb = r]
Watch(p, txid, info) == monitor' = [monitor EXCEPT ![p] = AddTx(@, txid, info)]
Commit(t) == hist' = [hist EXCEPT !.commits = @ \cup {t}]
\* What both ends must agree on about a stable state (is_offer is per side).
Entry(s) == [type |-> s.type, contract |-> s.contract]
\* p enters the stable state s: it is held, it is p's last one, and the
\* first entry at its update index is kept in the log.
RecordState(p, s) ==
    hist' = [hist EXCEPT !.held[p] = @ \cup {s}, !.last[p] = s,
                         !.log = @ @@ (s.idx :> Entry(s))]

----------------------------------------------------------------------------
(* Message handlers share one shape: the message is taken off the network *)
(* whether the handler succeeds or returns an error; the reply, if any, is *)
(* added on success.                                                       *)

Drop(m) == /\ net' = net \ {m}
           /\ UNCHANGED <<chan, contract, monitor, hist>>
Reply(m, r) == net' = (net \ {m}) \cup {r}

\* The process may crash (the host restarts it later, see Restart).
CanCrash == "crash" \in Faults /\ crashes < MaxCrashes
\* A handler that ends with store.upsert_channel and then
\* store.persist_chain_monitor: the monitor as the handler left it is written
\* and the network becomes sent.  The process may also crash between the two
\* writes: the store keeps the channel, the monitor on disk stays as it was,
\* and nothing is sent; rest is the network without the handled message.
PersistOk(p, sent) ==
    /\ saved' = [saved EXCEPT ![p] = monitor'[p]]
    /\ net' = sent
    /\ UNCHANGED <<panicked, crashes>>
CrashBeforePersist(p, rest) ==
    /\ CanCrash
    /\ panicked' = [panicked EXCEPT ![p] = "down"]
    /\ crashes' = crashes + 1
    /\ net' = rest
    /\ UNCHANGED saved
Persist(p, rest, sent) == PersistOk(p, sent) \/ CrashBeforePersist(p, rest)

----------------------------------------------------------------------------
(* Channel establishment.                                                  *)

\* offer_channel is the first operation of the channel, so the contract it
\* offers is contract 1 at both nodes.
EstablishContract == 1

\* offer_channel: a new Offered channel and Offered contract are stored.
OfferChannel(p) ==
    /\ Alive(p) /\ p = Offerer /\ chan[p].status = "None"
    /\ chan' = [chan EXCEPT ![p].status = "Offered", ![p].isOfferParty = TRUE]
    /\ SetContract(p, EstablishContract, "Offered")
    /\ nextContract' = EstablishContract + 1
    /\ net' = net \cup {Msg("OfferChannel", p)}
    /\ UNCHANGED <<chain, monitor, reactorVars, attested, procVars, hist>>

\* on_offer_channel: an error if a channel with the temporary id is stored.
OnOfferChannel(p, m) ==
    /\ Recv(p, m, "OfferChannel")
    /\ \/ /\ chan[p].status = "None"
          /\ chan' = [chan EXCEPT ![p].status = "Offered"]
          /\ SetContract(p, EstablishContract, "Offered")
          /\ net' = net \ {m}
          /\ UNCHANGED <<monitor, hist>>
       \/ chan[p].status # "None" /\ Drop(m)
    /\ UNCHANGED <<reactorVars, envVars, procVars>>

OfferPending(p) ==
    /\ Alive(p) /\ chan[p].status = "Offered" /\ ~chan[p].isOfferParty
    /\ Contract(p, EstablishContract) = "Offered"

\* accept_channel: only the non-offering party; Accepted channel/contract.
AcceptChannel(p) ==
    /\ OfferPending(p)
    /\ chan' = [chan EXCEPT ![p].status = "Accepted"]
    /\ SetContract(p, EstablishContract, "Accepted")
    /\ net' = net \cup {Msg("AcceptChannel", p)}
    /\ UNCHANGED <<monitor, hist, reactorVars, envVars, procVars>>

\* reject_channel: Cancelled channel, Rejected contract, Reject sent.
RejectChannel(p) ==
    /\ OfferPending(p)
    /\ chan' = [chan EXCEPT ![p].status = "Cancelled"]
    /\ SetContract(p, EstablishContract, "Rejected")
    /\ net' = net \cup {Msg("Reject", p)}
    /\ UNCHANGED <<monitor, hist, reactorVars, envVars, procVars>>

\* The Established state of a newly signed channel: is_offer is whether the
\* node offered its contract, which is the channel offer.
FirstState(p) ==
    St("Established", InitialUpdateIdx, chan[p].isOfferParty, FALSE,
       EstablishContract)

\* Store the newly signed channel of p and record its first state.
SignChannel(p) ==
    /\ chan' = [chan EXCEPT ![p].status = "Signed", ![p].st = FirstState(p)]
    /\ SetContract(p, EstablishContract, "Signed")
    /\ Watch(p, BufferTx(InitialUpdateIdx), Info(CID, "BufferTx"))
    /\ hist' = [hist EXCEPT !.commits = @ \cup {BufferTx(InitialUpdateIdx)},
                            !.held[p] = @ \cup {FirstState(p)},
                            !.last[p] = FirstState(p),
                            !.log = @ @@ (InitialUpdateIdx :> Entry(FirstState(p)))]

\* on_accept_channel: Offered channel and contract required.  Signatures of
\* a faulty peer ("badsig") may fail verification: FailedAccept is stored.
\* On success channel_updater registers the buffer tx as BufferTx, the
\* channel is stored Signed/Established with a Signed contract, the monitor
\* is persisted, and SignChannel is the reply.
OnAcceptChannel(p, m) ==
    /\ Recv(p, m, "AcceptChannel")
    /\ \/ /\ chan[p].status = "Offered"
          /\ Contract(p, EstablishContract) = "Offered"
          /\ SignChannel(p)
          /\ Persist(p, net \ {m}, (net \ {m}) \cup {Msg("SignChannel", p)})
       \/ /\ chan[p].status = "Offered" /\ "badsig" \in Faults
          /\ Contract(p, EstablishContract) = "Offered"
          /\ chan' = [chan EXCEPT ![p].status = "FailedAccept"]
          /\ net' = net \ {m}
          /\ UNCHANGED <<contract, monitor, hist, procVars>>
       \/ /\ \/ chan[p].status # "Offered"
             \/ Contract(p, EstablishContract) # "Offered"
          /\ Drop(m) /\ UNCHANGED procVars
    /\ UNCHANGED <<reactorVars, envVars>>

\* on_sign_channel: Accepted channel and contract required; FailedSign if
\* verification fails.  The buffer tx is registered as BufferTx (by
\* channel_updater and again by the handler), the fund tx is broadcast,
\* the Signed/Established channel and Signed contract are stored, and the
\* monitor is persisted.
OnSignChannel(p, m) ==
    /\ Recv(p, m, "SignChannel")
    /\ \/ /\ chan[p].status = "Accepted"
          /\ Contract(p, EstablishContract) = "Accepted"
          /\ SignChannel(p)
          /\ chain' = Sent(FundTx, p)
          /\ Persist(p, net \ {m}, net \ {m})
       \/ /\ chan[p].status = "Accepted" /\ "badsig" \in Faults
          /\ Contract(p, EstablishContract) = "Accepted"
          /\ chan' = [chan EXCEPT ![p].status = "FailedSign"]
          /\ net' = net \ {m}
          /\ UNCHANGED <<chain, contract, monitor, hist, procVars>>
    \* (the InvalidState error of get_channel_in_state! is left out: only the
    \* accepter, in Accepted with an Accepted contract, is sent SignChannel)
    /\ UNCHANGED <<reactorVars, nextContract, attested>>

----------------------------------------------------------------------------
(* Settle: SettleOffer -> SettleAccept -> SettleConfirm -> SettleFinalize. *)
(* SettleConfirm reveals the offerer's per-update secret of the state it  *)
(* leaves, SettleFinalize the accepter's.                                 *)

\* settle_offer: settle_channel_offer takes an Established channel to
\* SettledOffered for the next update index, stashing Established.
SettleOffer(p) ==
    /\ Alive(p) /\ InSigned(p, "Established") /\ chan[p].uidx - 1 >= UpdateBound
    /\ SetSt(p, St("SettledOffered", chan[p].uidx - 1, TRUE, FALSE, NoContract),
             chan[p].st)
    /\ net' = net \cup {Msg("SettleOffer", p)}
    /\ UNCHANGED <<contract, monitor, hist, reactorVars, envVars, procVars>>

\* Mutation: the accepter takes the current update index for the offer.
OnSettleOfferSameIdx(p, m) ==
    /\ Recv(p, m, "SettleOffer")
    /\ \/ /\ InSigned(p, "SettledOffered")
          /\ Reply(m, Msg("Reject", p))
          /\ UNCHANGED <<chan, contract, monitor, hist>>
       \/ /\ InSigned(p, "Established")
          /\ SetSt(p, St("SettledReceived", chan[p].uidx, FALSE, FALSE,
                         NoContract), chan[p].st)
          /\ net' = net \ {m}
          /\ UNCHANGED <<contract, monitor, hist>>
       \/ ~InSigned(p, "SettledOffered") /\ ~InSigned(p, "Established") /\ Drop(m)
    /\ UNCHANGED <<reactorVars, envVars, procVars>>

\* on_settle_offer: an offer received while SettledOffered is answered with
\* Reject and nothing changes; otherwise channel_updater::on_settle_offer
\* takes Established to SettledReceived (any other state is an error).
OnSettleOffer(p, m) ==
    /\ Recv(p, m, "SettleOffer")
    /\ \/ /\ InSigned(p, "SettledOffered")
          /\ Reply(m, Msg("Reject", p))
          /\ UNCHANGED <<chan, contract, monitor, hist>>
       \/ /\ InSigned(p, "Established")
          /\ SetSt(p, St("SettledReceived", chan[p].uidx - 1, FALSE, FALSE,
                         NoContract), chan[p].st)
          /\ net' = net \ {m}
          /\ UNCHANGED <<contract, monitor, hist>>
       \/ ~InSigned(p, "SettledOffered") /\ ~InSigned(p, "Established") /\ Drop(m)
    /\ UNCHANGED <<reactorVars, envVars, procVars>>

\* accept_settle_offer: settle_channel_accept_internal (SettledReceived
\* only) signs the settle tx, registers it as SettleTx2{is_offer: false}
\* and moves to SettledAccepted.
AcceptSettleOffer(p) ==
    /\ Alive(p) /\ InSigned(p, "SettledReceived")
    /\ SetSt(p, [chan[p].st EXCEPT !.type = "SettledAccepted"], chan[p].rb)
    /\ Watch(p, SettleTx(chan[p].st.idx), SettleTx2Info(CID, FALSE))
    /\ net' = net \cup {Msg("SettleAccept", p)}
    /\ UNCHANGED <<contract, hist, reactorVars, envVars, procVars>>

\* reject_settle_offer: reject_settle_offer restores the rollback state.
RejectSettleOffer(p) ==
    /\ Alive(p) /\ InSigned(p, "SettledReceived")
    /\ SetSt(p, chan[p].rb, NULL)
    /\ net' = net \cup {Msg("Reject", p)}
    /\ UNCHANGED <<contract, monitor, hist, reactorVars, envVars, procVars>>

\* on_settle_accept: settle_channel_confirm_internal (SettledOffered only)
\* registers the settle tx, now signed by both, as SettleTx2{is_offer:
\* true} and moves to SettledConfirmed; the reply SettleConfirm reveals the
\* secret of the Established state left behind.
OnSettleAccept(p, m) ==
    /\ Recv(p, m, "SettleAccept")
    /\ \/ /\ InSigned(p, "SettledOffered")
          /\ SetSt(p, [chan[p].st EXCEPT !.type = "SettledConfirmed"], chan[p].rb)
          /\ Watch(p, SettleTx(chan[p].st.idx), SettleTx2Info(CID, TRUE))
          /\ Commit(SettleTx(chan[p].st.idx))
          /\ Reply(m, MsgCS("SettleConfirm", p, NoContract, chan[p].rb.idx))
          /\ UNCHANGED contract
       \/ ~InSigned(p, "SettledOffered") /\ Drop(m)
    /\ UNCHANGED <<reactorVars, envVars, procVars>>

\* The Revoked entry the settle handlers write for the buffer tx of the
\* Established rollback state e: update_idx + 1 (the index before the
\* update) and the is_offer of e.
SettleRevokedInfo(e) == RevokedInfo(CID, e.idx, e.isOffer, "Buffer")

\* get_collaboratively_closed_contract fails unless the contract is Confirmed.
Closable(p, c) == Contract(p, c) = "Confirmed"

\* Mutation: update_idx one below the new state's index.
SettledIdxSkew(p, m, isOffer) ==
    LET new == St("Settled", chan[p].st.idx, isOffer, FALSE, NoContract)
    IN /\ chan' = [chan EXCEPT ![p].st = new, ![p].rb = NULL,
                               ![p].uidx = new.idx - 1,
                               ![p].secrets = @ \cup {m.s}]
       /\ RecordState(p, new)

\* The Settled state a settle ends in, and the secrets that come with it.
Settled(p, m, isOffer) ==
    LET new == St("Settled", chan[p].st.idx, isOffer, FALSE, NoContract)
    IN /\ chan' = [chan EXCEPT ![p].st = new, ![p].rb = NULL,
                               ![p].uidx = new.idx,
                               ![p].secrets = @ \cup {m.s}]
       /\ RecordState(p, new)

\* Mutation: the previous buffer tx is not registered as Revoked.
SettleFinishNoRevoked(p, m, from, isOffer, reply) ==
    \/ /\ InSigned(p, from) /\ chan[p].rb # NULL
       /\ chan[p].rb.type = "Established"
       /\ UNCHANGED monitor
       /\ \/ /\ Closable(p, chan[p].rb.contract)
             /\ Settled(p, m, isOffer)
             /\ SetContract(p, chan[p].rb.contract, "Closed")
             /\ Persist(p, net \ {m}, IF reply = NULL THEN net \ {m}
                                    ELSE (net \ {m}) \cup {reply})
          \/ /\ ~Closable(p, chan[p].rb.contract)
             /\ net' = net \ {m}
             /\ UNCHANGED <<chan, contract, hist, procVars>>
    \/ /\ ~(InSigned(p, from) /\ chan[p].rb # NULL
            /\ chan[p].rb.type = "Established")
       /\ Drop(m) /\ UNCHANGED procVars

\* The last two settle steps: in sub-state from with an Established rollback,
\* channel_updater moves the in-memory channel to Settled; the previous
\* buffer tx is registered as Revoked in the shared monitor; then the
\* rollback's contract is closed, which fails unless it is Confirmed.  On
\* that failure the handler returns an error after the monitor was changed,
\* while the store keeps the channel (and the secrets) as they were.
SettleFinish(p, m, from, isOffer, reply) ==
    \/ /\ InSigned(p, from) /\ chan[p].rb # NULL
       /\ chan[p].rb.type = "Established"
       /\ Watch(p, BufferTx(chan[p].rb.idx), SettleRevokedInfo(chan[p].rb))
       /\ \/ /\ Closable(p, chan[p].rb.contract)
             /\ Settled(p, m, isOffer)
             /\ SetContract(p, chan[p].rb.contract, "Closed")
             /\ Persist(p, net \ {m}, IF reply = NULL THEN net \ {m}
                                    ELSE (net \ {m}) \cup {reply})
          \/ /\ ~Closable(p, chan[p].rb.contract)
             /\ net' = net \ {m}
             /\ UNCHANGED <<chan, contract, hist, procVars>>
    \/ /\ ~(InSigned(p, from) /\ chan[p].rb # NULL
            /\ chan[p].rb.type = "Established")
       /\ Drop(m) /\ UNCHANGED procVars

\* on_settle_confirm: at the accepter, from SettledAccepted; the reply
\* SettleFinalize reveals the accepter's secret of the state it leaves.
OnSettleConfirm(p, m) ==
    /\ Recv(p, m, "SettleConfirm")
    /\ SettleFinish(p, m, "SettledAccepted", FALSE,
           IF chan[p].rb = NULL THEN NULL
           ELSE MsgCS("SettleFinalize", p, NoContract, chan[p].rb.idx))
    /\ UNCHANGED <<reactorVars, envVars>>

\* on_settle_finalize: at the offerer, from SettledConfirmed; no reply.
OnSettleFinalize(p, m) ==
    /\ Recv(p, m, "SettleFinalize")
    /\ SettleFinish(p, m, "SettledConfirmed", TRUE, NULL)
    /\ UNCHANGED <<reactorVars, envVars>>

----------------------------------------------------------------------------
(* Renew: RenewOffer -> RenewAccept -> RenewConfirm -> RenewFinalize ->    *)
(* RenewRevoke.  RenewFinalize reveals the accepter's per-update secret of *)
(* the state it leaves, RenewRevoke the offerer's.                        *)

\* renew_offer: channel_updater::renew_offer takes a stable state to
\* RenewOffered{is_offer: true} with a fresh offered contract.
RenewOffer(p) ==
    /\ Alive(p) /\ chan[p].status = "Signed" /\ chan[p].st.type \in StableStates
    /\ chan[p].uidx - 1 >= UpdateBound /\ nextContract <= MaxContract
    /\ SetSt(p, St("RenewOffered", chan[p].uidx - 1, TRUE, FALSE, nextContract),
             chan[p].st)
    /\ SetContract(p, nextContract, "Offered")
    /\ nextContract' = nextContract + 1
    /\ net' = net \cup {MsgCS("RenewOffer", p, nextContract, 0)}
    /\ UNCHANGED <<monitor, hist, reactorVars, chain, attested, procVars>>

\* Mutation: the receiver of a renew offer keeps the current update index.
OnRenewOfferSameIdx(p, m) ==
    /\ Recv(p, m, "RenewOffer")
    /\ \/ /\ InSigned(p, "RenewOffered") /\ chan[p].st.isOffer
          /\ Reply(m, Msg("Reject", p))
          /\ UNCHANGED <<chan, contract, monitor, hist>>
       \/ /\ chan[p].status = "Signed" /\ chan[p].st.type \in StableStates
          /\ SetSt(p, St("RenewOffered", chan[p].uidx, FALSE, FALSE, m.c),
                   chan[p].st)
          /\ SetContract(p, m.c, "Offered")
          /\ net' = net \ {m}
          /\ UNCHANGED <<monitor, hist>>
       \/ /\ ~(InSigned(p, "RenewOffered") /\ chan[p].st.isOffer)
          /\ ~(chan[p].status = "Signed" /\ chan[p].st.type \in StableStates)
          /\ Drop(m)
    /\ UNCHANGED <<reactorVars, envVars, procVars>>

\* on_renew_offer: Reject if we already offered a renewal; otherwise
\* channel_updater::on_renew_offer (stable states only) moves to
\* RenewOffered{is_offer: false} and the offered contract is created.
OnRenewOffer(p, m) ==
    /\ Recv(p, m, "RenewOffer")
    /\ \/ /\ InSigned(p, "RenewOffered") /\ chan[p].st.isOffer
          /\ Reply(m, Msg("Reject", p))
          /\ UNCHANGED <<chan, contract, monitor, hist>>
       \/ /\ chan[p].status = "Signed" /\ chan[p].st.type \in StableStates
          /\ SetSt(p, St("RenewOffered", chan[p].uidx - 1, FALSE, FALSE, m.c),
                   chan[p].st)
          /\ SetContract(p, m.c, "Offered")
          /\ net' = net \ {m}
          /\ UNCHANGED <<monitor, hist>>
       \/ /\ ~(InSigned(p, "RenewOffered") /\ chan[p].st.isOffer)
          /\ ~(chan[p].status = "Signed" /\ chan[p].st.type \in StableStates)
          /\ Drop(m)
    /\ UNCHANGED <<reactorVars, envVars, procVars>>

RenewReceived(p) ==
    /\ Alive(p) /\ InSigned(p, "RenewOffered") /\ ~chan[p].st.isOffer
    /\ Contract(p, chan[p].st.contract) = "Offered"

\* accept_renew_offer: the offered contract (get_contract_id) must be
\* Offered; accept_channel_renewal_internal moves to RenewAccepted.
AcceptRenewOffer(p) ==
    /\ RenewReceived(p)
    /\ SetSt(p, [chan[p].st EXCEPT !.type = "RenewAccepted"], chan[p].rb)
    /\ SetContract(p, chan[p].st.contract, "Accepted")
    /\ net' = net \cup {Msg("RenewAccept", p)}
    /\ UNCHANGED <<monitor, hist, reactorVars, envVars, procVars>>

\* reject_renew_offer: rollback restored, offered contract Rejected.
RejectRenewOffer(p) ==
    /\ RenewReceived(p)
    /\ SetSt(p, chan[p].rb, NULL)
    /\ SetContract(p, chan[p].st.contract, "Rejected")
    /\ net' = net \cup {Msg("Reject", p)}
    /\ UNCHANGED <<monitor, hist, reactorVars, envVars, procVars>>

\* Mutation: RenewConfirmed is entered without keeping the rollback state.
OnRenewAcceptNoRollback(p, m) ==
    /\ Recv(p, m, "RenewAccept")
    /\ \/ /\ InSigned(p, "RenewOffered") /\ chan[p].st.isOffer
          /\ Contract(p, chan[p].st.contract) = "Offered"
          /\ SetSt(p, [chan[p].st EXCEPT !.type = "RenewConfirmed"], NULL)
          /\ SetContract(p, chan[p].st.contract, "Confirmed")
          /\ Reply(m, Msg("RenewConfirm", p))
          /\ UNCHANGED <<monitor, hist>>
       \/ /\ ~(InSigned(p, "RenewOffered") /\ chan[p].st.isOffer
               /\ Contract(p, chan[p].st.contract) = "Offered")
          /\ Drop(m)
    /\ UNCHANGED <<reactorVars, envVars, procVars>>

\* on_renew_accept: the offered contract must be Offered;
\* verify_renew_accept_and_confirm_internal (RenewOffered{is_offer: true})
\* moves to RenewConfirmed without touching the monitor; the contract is
\* stored Confirmed directly.
OnRenewAccept(p, m) ==
    /\ Recv(p, m, "RenewAccept")
    /\ \/ /\ InSigned(p, "RenewOffered") /\ chan[p].st.isOffer
          /\ Contract(p, chan[p].st.contract) = "Offered"
          /\ SetSt(p, [chan[p].st EXCEPT !.type = "RenewConfirmed"], chan[p].rb)
          /\ SetContract(p, chan[p].st.contract, "Confirmed")
          /\ Reply(m, Msg("RenewConfirm", p))
          /\ UNCHANGED <<monitor, hist>>
       \/ /\ ~(InSigned(p, "RenewOffered") /\ chan[p].st.isOffer
               /\ Contract(p, chan[p].st.contract) = "Offered")
          /\ Drop(m)
    /\ UNCHANGED <<reactorVars, envVars, procVars>>

\* The Revoked entry on_renew_confirm / on_renew_finalize write for the
\* rollback state r: update_idx read before channel_updater moves it, and
\* is_offer: false whatever r was.
RenewRevokedInfo(p, r) ==
    RevokedInfo(CID, chan[p].uidx, FALSE,
                IF r.type = "Established" THEN "Buffer" ELSE "Settle")

\* The rollback state is Established (whose contract must then be closable)
\* or Settled; any other state is an error.
RenewPrevOk(p) ==
    /\ chan[p].rb # NULL /\ chan[p].rb.type \in StableStates
    /\ chan[p].rb.type = "Established" => Closable(p, chan[p].rb.contract)

\* Mutation: the contract of the current state is closed instead.
CloseCurrentContract(p, cs) ==
    IF RbEstablished(p) THEN [cs EXCEPT ![chan[p].st.contract] = "Closed"]
    ELSE cs

\* p's contracts cs with the rollback's contract closed when it was
\* Established.
ClosePrevContract(p, cs) ==
    IF RbEstablished(p) THEN [cs EXCEPT ![chan[p].rb.contract] = "Closed"]
    ELSE cs

\* The end of on_renew_confirm and on_renew_finalize: the channel (and a
\* contract) is stored as stored, the monitor persisted, and only then the
\* previous contract closed with store.update_contract; a crash between the
\* writes leaves the previous contract open and sends nothing.
RenewCommit(p, m, stored, reply) ==
    \/ /\ contract' = [contract EXCEPT ![p] = ClosePrevContract(p, stored)]
       /\ Persist(p, net \ {m}, (net \ {m}) \cup {reply})
    \/ /\ contract' = [contract EXCEPT ![p] = stored]
       /\ CrashBeforePersist(p, net \ {m})

\* on_renew_confirm: at the accepter, RenewAccepted with an accepted
\* contract.  channel_updater moves to RenewFinalized (update_idx - 1) and
\* registers the new buffer tx; the previous commitment tx is registered as
\* Revoked; the channel and the Confirmed contract are stored, then the
\* previous contract is closed.  RenewFinalize is the reply.
OnRenewConfirm(p, m) ==
    /\ Recv(p, m, "RenewConfirm")
    /\ \/ /\ InSigned(p, "RenewAccepted") /\ RenewPrevOk(p)
          /\ Contract(p, chan[p].st.contract) = "Accepted"
          /\ chan' = [chan EXCEPT ![p].st = [@ EXCEPT !.type = "RenewFinalized"],
                                  ![p].rb = NULL, ![p].uidx = chan[p].st.idx]
          /\ monitor' = [monitor EXCEPT ![p] =
                 AddTx(AddTx(@, BufferTx(chan[p].st.idx), Info(CID, "BufferTx")),
                       CommitTx(chan[p].rb), RenewRevokedInfo(p, chan[p].rb))]
          /\ Commit(BufferTx(chan[p].st.idx))
          /\ RenewCommit(p, m, [contract[p] EXCEPT ![chan[p].st.contract] =
                                                     "Confirmed"],
                         MsgCS("RenewFinalize", p, NoContract, chan[p].rb.idx))
       \/ /\ ~(InSigned(p, "RenewAccepted") /\ RenewPrevOk(p)
               /\ Contract(p, chan[p].st.contract) = "Accepted")
          \* without a roll_back_state the code panics on expect("to have a
          \* rollback state"); RenewHasRollback shows no such state is reached
          /\ ~(InSigned(p, "RenewAccepted") /\ chan[p].rb = NULL)
          /\ Drop(m) /\ UNCHANGED procVars
    /\ UNCHANGED <<reactorVars, envVars>>

\* Mutation: the new Established state keeps the previous state's contract.
RenewedStateOldContract(p) ==
    St("Established", chan[p].st.idx, TRUE, FALSE, chan[p].rb.contract)

\* The Established state renew_channel_on_finalize moves the offer party to.
RenewedState(p) ==
    St("Established", chan[p].st.idx, TRUE, FALSE, chan[p].st.contract)

\* Mutation: RenewRevoke carries the secret of the new state.
RevokeSecretNew(p) == chan[p].st.idx

\* The update index whose secret RenewRevoke reveals: the state left.
RevokeSecret(p) == chan[p].rb.idx

\* on_renew_finalize: at the offerer, RenewConfirmed.  renew_channel_on_finalize
\* moves to the new Established state; the previous commitment tx is
\* registered as Revoked and the new buffer tx as BufferTx; the channel is
\* stored, then the previous contract closed.  RenewRevoke is the reply.
OnRenewFinalize(p, m) ==
    /\ Recv(p, m, "RenewFinalize")
    /\ LET new == RenewedState(p)
       IN \/ /\ InSigned(p, "RenewConfirmed") /\ RenewPrevOk(p)
             /\ chan' = [chan EXCEPT ![p].st = new, ![p].rb = NULL,
                                     ![p].uidx = new.idx,
                                     ![p].secrets = @ \cup {m.s}]
             /\ monitor' = [monitor EXCEPT ![p] =
                    AddTx(AddTx(@, CommitTx(chan[p].rb),
                                RenewRevokedInfo(p, chan[p].rb)),
                          BufferTx(new.idx), Info(CID, "BufferTx"))]
             /\ RecordState(p, new)
             /\ RenewCommit(p, m, contract[p],
                            MsgCS("RenewRevoke", p, NoContract, RevokeSecret(p)))
          \/ /\ ~(InSigned(p, "RenewConfirmed") /\ RenewPrevOk(p))
             /\ ~(InSigned(p, "RenewConfirmed") /\ chan[p].rb = NULL)
             /\ Drop(m) /\ UNCHANGED procVars
    /\ UNCHANGED <<reactorVars, envVars>>

\* on_renew_revoke: renew_channel_on_revoke moves RenewFinalized to the
\* new Established state.
OnRenewRevoke(p, m) ==
    /\ Recv(p, m, "RenewRevoke")
    /\ LET new == St("Established", chan[p].st.idx, FALSE, FALSE,
                     chan[p].st.contract)
       IN \/ /\ InSigned(p, "RenewFinalized")
             /\ chan' = [chan EXCEPT ![p].st = new, ![p].secrets = @ \cup {m.s}]
             /\ RecordState(p, new)
             /\ net' = net \ {m}
             /\ UNCHANGED <<contract, monitor>>
          \/ ~InSigned(p, "RenewFinalized") /\ Drop(m)
    /\ UNCHANGED <<reactorVars, envVars, procVars>>

----------------------------------------------------------------------------
(* Collaborative close and Reject.                                         *)

\* offer_collaborative_close: channel_updater::offer_collaborative_close
\* (stable states only) moves to CollaborativeCloseOffered, then the close
\* tx is registered as CollaborativeClose.
OfferCollaborativeClose(p) ==
    /\ Alive(p) /\ chan[p].status = "Signed" /\ chan[p].st.type \in StableStates
    /\ SetSt(p, St("CollaborativeCloseOffered", chan[p].st.idx, TRUE, FALSE,
                   NoContract), chan[p].st)
    /\ Watch(p, CloseTx(chan[p].st.idx), Info(CID, "CollaborativeClose"))
    /\ Persist(p, net, net \cup {Msg("CollaborativeCloseOffer", p)})
    /\ UNCHANGED <<contract, hist, reactorVars, envVars>>

\* on_collaborative_close_offer: channel_updater::on_collaborative_close_offer
\* (stable states only) moves to CollaborativeCloseOffered{is_offer: false}.
OnCollaborativeCloseOffer(p, m) ==
    /\ Recv(p, m, "CollaborativeCloseOffer")
    /\ \/ /\ chan[p].status = "Signed" /\ chan[p].st.type \in StableStates
          /\ SetSt(p, St("CollaborativeCloseOffered", chan[p].st.idx, FALSE,
                         FALSE, NoContract), chan[p].st)
          /\ net' = net \ {m}
          /\ UNCHANGED <<contract, monitor, hist>>
       \/ ~(chan[p].status = "Signed" /\ chan[p].st.type \in StableStates)
          /\ Drop(m)
    /\ UNCHANGED <<reactorVars, envVars, procVars>>

\* accept_collaborative_close: with an Established rollback its contract
\* must be closable; the close tx is broadcast and the channel stored as
\* CollaborativelyClosed at once, then the contract is stored Closed.
AcceptCollaborativeClose(p) ==
    LET rb == chan[p].rb
        close == CloseTx(chan[p].st.idx)
    IN /\ Alive(p) /\ InSigned(p, "CollaborativeCloseOffered")
       /\ ~chan[p].st.isOffer
       /\ RbEstablished(p) => Closable(p, rb.contract)
       /\ CanSend(close)
       /\ chain' = Sent(close, p)
       /\ chan' = [chan EXCEPT ![p].status = "CollaborativelyClosed",
                               ![p].closingTx = close]
       /\ contract' = [contract EXCEPT ![p] = ClosePrevContract(p, @)]
       /\ UNCHANGED <<monitor, net, hist, reactorVars, nextContract,
                      attested, procVars>>

\* on_reject: an Offered channel (with an Offered contract) is Cancelled;
\* a Signed channel goes back to its roll_back_state (an error if there is
\* none), a RenewOffered one also marking its Offered contract Rejected.
\* Any other channel is an error; no channel at all is ignored.
RejectOk(p) ==
    \/ chan[p].status = "Offered" /\ Contract(p, EstablishContract) = "Offered"
    \/ /\ chan[p].status = "Signed" /\ chan[p].rb # NULL
       /\ chan[p].st.type = "RenewOffered" =>
              Contract(p, chan[p].st.contract) = "Offered"

\* Mutation: a Reject restores the rollback state of any channel with one,
\* whatever its variant.
OnRejectAnyStatus(p, m) ==
    /\ Recv(p, m, "Reject")
    /\ \/ /\ chan[p].status = "Offered" /\ RejectOk(p)
          /\ chan' = [chan EXCEPT ![p].status = "Cancelled"]
          /\ SetContract(p, EstablishContract, "Rejected")
          /\ net' = net \ {m}
          /\ UNCHANGED <<monitor, hist>>
       \/ /\ chan[p].status # "Offered" /\ chan[p].rb # NULL
          /\ SetSt(p, chan[p].rb, NULL)
          /\ UNCHANGED contract
          /\ net' = net \ {m}
          /\ UNCHANGED <<monitor, hist>>
       \/ ~RejectOk(p) /\ chan[p].rb = NULL /\ Drop(m)
    /\ UNCHANGED <<reactorVars, envVars, procVars>>

OnReject(p, m) ==
    /\ Recv(p, m, "Reject")
    /\ \/ /\ chan[p].status = "Offered" /\ RejectOk(p)
          /\ chan' = [chan EXCEPT ![p].status = "Cancelled"]
          /\ SetContract(p, EstablishContract, "Rejected")
          /\ net' = net \ {m}
          /\ UNCHANGED <<monitor, hist>>
       \/ /\ chan[p].status = "Signed" /\ RejectOk(p)
          /\ SetSt(p, chan[p].rb, NULL)
          /\ contract' = IF chan[p].st.type = "RenewOffered"
                         THEN [contract EXCEPT ![p][chan[p].st.contract] =
                                                   "Rejected"]
                         ELSE contract
          /\ net' = net \ {m}
          /\ UNCHANGED <<monitor, hist>>
       \/ ~RejectOk(p) /\ Drop(m)
    /\ UNCHANGED <<reactorVars, envVars, procVars>>

----------------------------------------------------------------------------
(* Unilateral close.                                                       *)

\* initiate_unilateral_close_established_channel: channel_updater moves to
\* Closing{is_initiator: true}; the buffer tx is broadcast unless already
\* confirmed (a failed broadcast is an error and nothing is stored); its
\* BufferTx entry is removed from the monitor.
CloseEstablished(p, s) ==
    LET b == BufferTx(s.idx)
    IN /\ Level(b) < 1 => CanSend(b)
       /\ chain' = IF Level(b) < 1 THEN Sent(b, p) ELSE chain
       /\ SetSt(p, St("Closing", s.idx, FALSE, TRUE, s.contract), NULL)
       /\ monitor' = [monitor EXCEPT ![p] = RemoveTx(@, b)]

\* initiate_unilateral_close_settled_channel: an error unless the monitor
\* knows who offered the last settlement (did_we_offer_last_channel_settlement
\* picks one of the Revoked Buffer entries in HashMap order); SettledClosing
\* with that is_offer; the settle tx is broadcast unless already confirmed;
\* then every monitor entry of the channel is dropped (cleanup_channel).
CloseSettled(p, s) ==
    LET t == SettleTx(s.idx)
        offers == DidWeOfferLastChannelSettlement(monitor[p], CID)
    IN /\ offers # {}
       /\ Level(t) < 1 => CanSend(t)
       /\ chain' = IF Level(t) < 1 THEN Sent(t, p) ELSE chain
       /\ \E o \in offers :
              SetSt(p, St("SettledClosing", s.idx, o, TRUE, NoContract), NULL)
       /\ monitor' = [monitor EXCEPT ![p] = CleanupChannel(@, CID)]

\* force_close_channel: force_close_channel_internal replaces an in-progress
\* state by roll_back_state (expect: a missing one kills the process) and
\* closes Established, RenewFinalized or Settled; Closing and SettledClosing
\* are an error.
ForceCloseChannel(p) ==
    LET s == IF chan[p].st.type \in RollbackStates THEN chan[p].rb
             ELSE chan[p].st
    IN /\ Alive(p) /\ chan[p].status = "Signed"
       /\ \/ /\ s = NULL
             /\ panicked' = [panicked EXCEPT ![p] = "rollback"]
             /\ UNCHANGED <<chain, chan, monitor, net, saved, crashes>>
          \/ /\ s # NULL /\ s.type \in {"Established", "RenewFinalized"}
             /\ CloseEstablished(p, s) /\ Persist(p, net, net)
          \/ s # NULL /\ s.type = "Settled" /\ CloseSettled(p, s)
             /\ UNCHANGED <<net, procVars>>
       /\ UNCHANGED <<contract, hist, reactorVars, nextContract, attested>>

----------------------------------------------------------------------------
(* periodic_check, one action per step.  pc[p] is the step p's reactor is *)
(* at; a step reads the store as the handlers left it, so handlers and    *)
(* chain events interleave between steps.  check_confirmed_contracts and  *)
(* check_refund concern contracts outside channels and are not kept.      *)

Stage(p, from, to) == /\ Alive(p) /\ pc[p] = from
                      /\ pc' = [pc EXCEPT ![p] = to]

\* The confirmed transaction that spends the buffer output o, if any.
SpenderOf(o) == CHOOSE u \in DOMAIN chain : chain[u].lvl >= 1 /\ Parent(u) = o[1]
IsSpent(o) == \E u \in DOMAIN chain : chain[u].lvl >= 1 /\ Parent(u) = o[1]

\* check_transaction_confirmations: confirm_tx for every watched txid with
\* a confirmation, then confirm_txo for every watched output whose spending
\* transaction has one.
CheckTransactionConfirmations(p) ==
    LET m == monitor[p]
        m1 == FoldSet(LAMBDA t, acc : ConfirmTx(acc, t), m,
                      {t \in DOMAIN m.tx : Level(t) >= 1})
        m2 == FoldSet(LAMBDA o, acc : ConfirmTxo(acc, o, SpenderOf(o)), m1,
                      {o \in DOMAIN m.txo : IsSpent(o)})
    IN /\ Stage(p, "confirm", "contracts")
       /\ monitor' = [monitor EXCEPT ![p] = m2]
       /\ UNCHANGED <<chain, chan, contract, net, pending, nextContract,
                      attested, procVars, hist>>

\* check_signed_contracts and check_preclosed_contracts: with
\* NB_CONFIRMATIONS = 0 every Signed contract becomes Confirmed and every
\* PreClosed one Closed, whatever the fund tx or CET's confirmations.
CheckContracts(p) ==
    /\ Stage(p, "contracts", "closing")
    /\ contract' = [contract EXCEPT ![p] =
           [c \in ContractIds |-> CASE @[c] = "Signed"    -> "Confirmed"
                                    [] @[c] = "PreClosed" -> "Closed"
                                    [] OTHER              -> @[c]]]
    /\ UNCHANGED <<chain, chan, monitor, net, pending, nextContract, attested,
                   procVars, hist>>

\* Mutation: the CET is only signed one confirmation after CET_NSEQUENCE.
FinalizeClosingLate(p) ==
    /\ InSigned(p, "Closing") /\ Level(BufferTx(chan[p].st.idx)) > 2
    /\ Closable(p, chan[p].st.contract) /\ attested
    /\ Level(CetTx(chan[p].st.idx)) < 1 => CanSend(CetTx(chan[p].st.idx))

\* try_finalize_closing_established_channel: once the buffer tx has
\* CET_NSEQUENCE confirmations, the contract is Confirmed and the oracle
\* has attested, the CET is signed; close_contract broadcasts it unless it
\* is confirmed (PreClosed, else Closed); the monitor drops the channel and
\* the channel is stored Closed or CounterClosed by is_initiator.  Errors
\* (and a failed broadcast) are logged and leave everything as it was.
FinalizeClosingOk(p) ==
    /\ InSigned(p, "Closing") /\ Level(BufferTx(chan[p].st.idx)) = 2
    /\ Closable(p, chan[p].st.contract) /\ attested
    /\ Level(CetTx(chan[p].st.idx)) < 1 => CanSend(CetTx(chan[p].st.idx))

TryFinalizeClosingEstablishedChannel(p) ==
    LET s == chan[p].st
        cet == CetTx(s.idx)
    IN /\ Stage(p, "closing", "settledClosing")
       /\ \/ /\ FinalizeClosingOk(p)
             /\ chain' = IF Level(cet) < 1 THEN Sent(cet, p) ELSE chain
             /\ SetContract(p, s.contract,
                            IF Level(cet) < 1 THEN "PreClosed" ELSE "Closed")
             /\ monitor' = [monitor EXCEPT ![p] = CleanupChannel(@, CID)]
             /\ chan' = [chan EXCEPT ![p].status = IF s.isInit THEN "Closed"
                                                   ELSE "CounterClosed",
                                     ![p].closingTx = cet]
          \/ ~FinalizeClosingOk(p) /\ UNCHANGED <<chain, chan, contract, monitor>>
       /\ UNCHANGED <<net, pending, nextContract, attested, procVars, hist>>

\* try_finalize_settled_closing_channel: once the settle tx has
\* CET_NSEQUENCE confirmations, the claim tx is built, broadcast unless
\* confirmed, and the channel stored as a SettledClosing channel.
FinalizeSettledOk(p) ==
    /\ InSigned(p, "SettledClosing") /\ Level(SettleTx(chan[p].st.idx)) = 2
    /\ Level(ClaimTx(chan[p].st.idx, p)) < 1 =>
           CanSend(ClaimTx(chan[p].st.idx, p))

TryFinalizeSettledClosingChannel(p) ==
    LET claim == ClaimTx(chan[p].st.idx, p)
    IN /\ Stage(p, "settledClosing", "claim")
       /\ \/ /\ FinalizeSettledOk(p)
             /\ chain' = IF Level(claim) < 1 THEN Sent(claim, p) ELSE chain
             /\ chan' = [chan EXCEPT ![p].status = "SettledClosing",
                                     ![p].closingTx = claim,
                                     ![p].isCloser = chan[p].st.isInit]
          \/ ~FinalizeSettledOk(p) /\ UNCHANGED <<chain, chan>>
       /\ UNCHANGED <<contract, monitor, net, pending, nextContract, attested,
                      procVars, hist>>

\* try_confirm_claim_tx: a claim tx without confirmation is broadcast again
\* (an error is logged if that fails); a confirmed one closes the channel:
\* the monitor drops it, and it is stored Closed or CounterClosed by
\* is_closer.
TryConfirmClaimTx(p) ==
    LET claim == chan[p].closingTx
    IN /\ Stage(p, "claim", "watched")
       /\ \/ /\ chan[p].status = "SettledClosing" /\ Level(claim) >= 1
             /\ monitor' = [monitor EXCEPT ![p] = CleanupChannel(@, CID)]
             /\ chan' = [chan EXCEPT ![p].status =
                             IF chan[p].isCloser THEN "Closed" ELSE "CounterClosed"]
             /\ UNCHANGED chain
          \/ /\ chan[p].status = "SettledClosing" /\ Level(claim) < 1
             /\ chain' = IF CanSend(claim) THEN Sent(claim, p) ELSE chain
             /\ UNCHANGED <<chan, monitor>>
          \/ chan[p].status # "SettledClosing" /\ UNCHANGED <<chain, chan, monitor>>
       /\ UNCHANGED <<contract, net, pending, nextContract, attested, procVars,
                      hist>>

\* check_for_watched_tx: the snapshot confirmed_txs() is taken once and
\* process_watched_txs works through it entry by entry.
CheckForWatchedTx(p) ==
    /\ Stage(p, "watched", "process")
    /\ pending' = [pending EXCEPT ![p] = ConfirmedTxs(monitor[p])]
    /\ UNCHANGED <<chain, chan, contract, monitor, net, nextContract, attested,
                   procVars, hist>>

----------------------------------------------------------------------------
(* process_watched_txs: one action per snapshot entry.  Every watched_tx  *)
(* entry comes before every watched_txo entry; within a part the order is *)
(* the HashMap's.  An Err (the ? operator) abandons the rest of the        *)
(* snapshot; the next periodic_check takes a new one.                     *)

NextEntries(p) == IF pending[p].tx # {} THEN pending[p].tx ELSE pending[p].txo

\* The entry is done with; the loop goes on.
Done(p, e) == /\ pending' = [pending EXCEPT ![p] = [tx  |-> @.tx \ {e},
                                                   txo |-> @.txo \ {e}]]
              /\ UNCHANGED pc
\* process_watched_txs returns Err: check_for_watched_tx stops there.
Abort(p) == /\ pending' = [pending EXCEPT ![p] = [tx |-> {}, txo |-> {}]]
            /\ pc' = [pc EXCEPT ![p] = "confirm"]
            /\ UNCHANGED <<chain, chan, contract, monitor, procVars>>
\* An expect() fails: the node's process dies.
Panic(p, why) == /\ panicked' = [panicked EXCEPT ![p] = why]
                 /\ UNCHANGED <<chain, chan, contract, monitor, pc, pending,
                                saved, crashes>>

\* BufferTx: the channel moves to Closing{is_initiator: false} with the
\* contract id of its current state (expect: none kills the process), the
\* current state becoming roll_back_state.  The entry stays watched.
OnBufferTx(p, e) ==
    LET c == GetContractId(chan[p].st)
    IN \/ c = NoContract /\ Panic(p, "contract_id")
       \/ /\ c # NoContract
          /\ SetSt(p, St("Closing", e.tx.idx, FALSE, FALSE, c), chan[p].st)
          /\ Done(p, e)
          /\ UNCHANGED <<chain, contract, monitor, procVars>>

\* The key material of a Revoked entry is right when its is_offer is the
\* is_offer of the state p held with that commitment transaction; otherwise
\* the punish tx is built with the parties' parameters swapped and is
\* rejected by the network.
TagMatches(p, e) ==
    \E s \in hist.held[p] : CommitTx(s) = e.tx /\ s.isOffer = e.info.isOffer

\* The punish tx p builds for a revoked buffer or settle tx.
PunishTx(p, e) ==
    Tx(IF e.info.revoked = "Buffer" THEN "punishbuffer" ELSE "punishsettle",
       e.tx.idx, p)

\* Mutation: the punish tx is built without checking who published.
PunishOkAnyPublisher(p, e) ==
    TagMatches(p, e) /\ CanSend(PunishTx(p, e))

\* Revoked: the counterparty's per-update secret of update_idx is looked up
\* (expect: a missing one kills the process); the counterparty's publish key
\* is recovered from its signature in the revoked tx, which fails if the
\* counterparty did not publish it; the punish tx is broadcast, the monitor
\* drops the channel and the channel is stored ClosedPunished.
PunishOk(p, e) ==
    /\ chain[e.tx].by = Other(p) /\ TagMatches(p, e)
    /\ CanSend(PunishTx(p, e))

OnRevoked(p, e) ==
    \/ e.info.updateIdx \notin chan[p].secrets /\ Panic(p, "secret")
    \/ /\ e.info.updateIdx \in chan[p].secrets /\ PunishOk(p, e)
       /\ chain' = Sent(PunishTx(p, e), p)
       /\ chan' = [chan EXCEPT ![p].status = "ClosedPunished",
                               ![p].closingTx = PunishTx(p, e)]
       /\ monitor' = [monitor EXCEPT ![p] = CleanupChannel(@, CID)]
       /\ Done(p, e) /\ Persist(p, net, net)
       /\ UNCHANGED contract
    \/ e.info.updateIdx \in chan[p].secrets /\ ~PunishOk(p, e) /\ Abort(p)

\* CollaborativeClose: an error unless the channel is CollaborativeCloseOffered
\* and, with an Established rollback, its contract is closable; then the
\* contract is stored Closed, the monitor drops the channel and the channel
\* is stored CollaborativelyClosed.
CollabCloseOk(p) ==
    /\ InSigned(p, "CollaborativeCloseOffered")
    /\ RbEstablished(p) => Closable(p, chan[p].rb.contract)

OnCollaborativeClose(p, e) ==
    \/ /\ CollabCloseOk(p)
       /\ contract' = [contract EXCEPT ![p] = ClosePrevContract(p, @)]
       /\ chan' = [chan EXCEPT ![p].status = "CollaborativelyClosed",
                               ![p].closingTx = e.tx]
       /\ monitor' = [monitor EXCEPT ![p] = CleanupChannel(@, CID)]
       /\ Done(p, e) /\ Persist(p, net, net)
       /\ UNCHANGED chain
    \/ ~CollabCloseOk(p) /\ Abort(p)

\* SettleTx2{is_offer}: the channel moves to SettledClosing{is_initiator:
\* false}, the current state becoming roll_back_state.  The entry stays.
OnSettleTx2(p, e) ==
    /\ SetSt(p, St("SettledClosing", e.tx.idx, e.info.isOffer, FALSE, NoContract),
             chan[p].st)
    /\ Done(p, e)
    /\ UNCHANGED <<chain, contract, monitor, procVars>>

\* Cet: the channel is stored Closed or CounterClosed (by is_initiator when
\* Closing, Closed otherwise), the monitor drops the channel, and a
\* Confirmed contract of the current state becomes PreClosed.
OnCet(p, e) ==
    LET s == chan[p].st
        c == GetContractId(s)
    IN /\ chan' = [chan EXCEPT ![p].status =
                       IF s.type = "Closing" /\ ~s.isInit THEN "CounterClosed"
                       ELSE "Closed",
                               ![p].closingTx = e.tx]
       /\ monitor' = [monitor EXCEPT ![p] = CleanupChannel(@, CID)]
       /\ contract' = IF c # NoContract /\ Contract(p, c) = "Confirmed"
                      THEN [contract EXCEPT ![p][c] = "PreClosed"]
                      ELSE contract
       /\ Done(p, e) /\ Persist(p, net, net)
       /\ UNCHANGED chain

\* One snapshot entry; a channel no longer Signed is skipped.  An empty
\* snapshot ends the tick: the monitor is persisted and periodic_check
\* starts again.
ProcessWatchedTx(p) ==
    /\ Alive(p) /\ pc[p] = "process"
    /\ \/ /\ pending[p].tx = {} /\ pending[p].txo = {}
          /\ pc' = [pc EXCEPT ![p] = "confirm"]
          /\ UNCHANGED <<chain, chan, contract, monitor, pending>>
          /\ Persist(p, net, net)
       \/ \E e \in NextEntries(p) :
             \/ chan[p].status # "Signed" /\ Done(p, e)
                /\ UNCHANGED <<chain, chan, contract, monitor, procVars>>
             \/ /\ chan[p].status = "Signed"
                /\ CASE e.info.type = "BufferTx"           -> OnBufferTx(p, e)
                     [] e.info.type = "Revoked"            -> OnRevoked(p, e)
                     [] e.info.type = "CollaborativeClose" -> OnCollaborativeClose(p, e)
                     [] e.info.type = "SettleTx2"          -> OnSettleTx2(p, e)
                     [] e.info.type = "Cet"                -> OnCet(p, e)
    /\ UNCHANGED <<net, nextContract, attested, hist>>

----------------------------------------------------------------------------
(* The environment: the blockchain, the oracle and cheating wallets.       *)

\* A broadcast transaction is mined once its parent is, unless a confirmed
\* transaction already spends the same output.
Mine(t) ==
    /\ chain[t].lvl = 0
    /\ Parent(t) = NULL \/ Level(Parent(t)) >= 1
    /\ \A u \in DOMAIN chain : chain[u].lvl >= 1 => ~Conflicts(t, u)
    /\ chain' = [chain EXCEPT ![t].lvl = 1]
    /\ UNCHANGED <<chan, contract, monitor, net, pc, pending, nextContract,
                   attested, procVars, hist>>

\* A buffer or settle tx reaches CET_NSEQUENCE confirmations.
Deepen(t) ==
    /\ chain[t].lvl = 1 /\ t.kind \in {"buffer", "settle"}
    /\ chain' = [chain EXCEPT ![t].lvl = 2]
    /\ UNCHANGED <<chan, contract, monitor, net, pc, pending, nextContract,
                   attested, procVars, hist>>

\* The oracle publishes its attestation (get_closable_contract_info succeeds).
Attest ==
    /\ ~attested /\ attested' = TRUE
    /\ UNCHANGED <<chain, chan, contract, monitor, net, pc, pending,
                   nextContract, procVars, hist>>

\* What a cheating party's wallet can broadcast without its node: any
\* commitment tx ever signed (revoked ones included), and the CETs and its
\* own claim txs once their parents allow.
CheatTxs(p) ==
    hist.commits \cup {CetTx(i) : i \in UpdateIdxs}
                 \cup {ClaimTx(i, p) : i \in UpdateIdxs}

Cheat(p, t) ==
    /\ Level(t) = -1 /\ CanSend(t)
    /\ chain' = Sent(t, p)
    /\ hist' = [hist EXCEPT !.cheated = @ \cup {t}]
    /\ UNCHANGED <<chan, contract, monitor, net, pc, pending, nextContract,
                   attested, procVars>>

----------------------------------------------------------------------------
(* Faults: the process stops and is started again, and the transport loses *)
(* a message.                                                              *)

\* The process of p is killed between two steps.
Crash(p) ==
    /\ CanCrash /\ Alive(p)
    /\ panicked' = [panicked EXCEPT ![p] = "down"]
    /\ crashes' = crashes + 1
    /\ UNCHANGED <<chain, chan, contract, monitor, net, reactorVars,
                   nextContract, attested, saved, hist>>

\* Manager::new: the chain monitor is the one the store last persisted;
\* channels and contracts are read from the store as they are.  periodic_check
\* starts afresh, and what was sent to p over the dropped connection is lost.
Restart(p) ==
    /\ panicked[p] = "down"
    /\ panicked' = [panicked EXCEPT ![p] = "no"]
    /\ monitor' = [monitor EXCEPT ![p] = saved[p]]
    /\ pc' = [pc EXCEPT ![p] = "confirm"]
    /\ pending' = [pending EXCEPT ![p] = [tx |-> {}, txo |-> {}]]
    /\ net' = {m \in net : m.to # p}
    /\ UNCHANGED <<chain, chan, contract, nextContract, attested, saved,
                   crashes, hist>>

\* The transport loses a message.
Lose(m) ==
    /\ "loss" \in Faults
    /\ net' = net \ {m}
    /\ UNCHANGED <<chain, chan, contract, monitor, reactorVars, nextContract,
                   attested, procVars, hist>>

----------------------------------------------------------------------------

\* The operations a user of Manager calls on node p.
\* Ops bounds which kinds of update the users start; once started, an
\* update is answered by every means the code offers.
UserOp(p) ==
    \/ OfferChannel(p) \/ AcceptChannel(p) \/ RejectChannel(p)
    \/ "settle" \in Ops /\ SettleOffer(p)
    \/ AcceptSettleOffer(p) \/ RejectSettleOffer(p)
    \/ "renew" \in Ops /\ RenewOffer(p)
    \/ AcceptRenewOffer(p) \/ RejectRenewOffer(p)
    \/ "close" \in Ops /\ OfferCollaborativeClose(p)
    \/ AcceptCollaborativeClose(p)
    \/ "force" \in Ops /\ ForceCloseChannel(p)

\* on_dlc_message dispatches a message to its handler.
Handle(p, m) ==
    \/ OnOfferChannel(p, m) \/ OnAcceptChannel(p, m) \/ OnSignChannel(p, m)
    \/ OnSettleOffer(p, m) \/ OnSettleConfirm(p, m) \/ OnSettleFinalize(p, m)
    \/ OnSettleAccept(p, m)
    \/ OnRenewOffer(p, m) \/ OnRenewAccept(p, m) \/ OnRenewConfirm(p, m)
    \/ OnRenewFinalize(p, m) \/ OnRenewRevoke(p, m)
    \/ OnCollaborativeCloseOffer(p, m) \/ OnReject(p, m)

\* The steps of periodic_check.
Reactor(p) ==
    \/ CheckTransactionConfirmations(p) \/ CheckContracts(p)
    \/ TryFinalizeClosingEstablishedChannel(p)
    \/ TryFinalizeSettledClosingChannel(p) \/ TryConfirmClaimTx(p)
    \/ CheckForWatchedTx(p) \/ ProcessWatchedTx(p)

Next ==
    \/ \E p \in Parties : UserOp(p) \/ Reactor(p) \/ \E m \in net : Handle(p, m)
    \/ \E t \in DOMAIN chain : Mine(t) \/ Deepen(t)
    \/ Attest
    \/ \E p \in Cheaters : \E t \in CheatTxs(p) : Cheat(p, t)
    \/ \E p \in Parties : Crash(p) \/ Restart(p)
    \/ \E m \in net : Lose(m)

Spec == Init /\ [][Next]_vars

----------------------------------------------------------------------------
(* Properties.                                                             *)

Statuses == {"None", "Offered", "Accepted", "Signed", "Closed",
             "CounterClosed", "ClosedPunished", "CollaborativelyClosed",
             "SettledClosing", "Cancelled", "FailedAccept", "FailedSign"}
ContractStates == {"None", "Offered", "Accepted", "Signed", "Confirmed",
                   "PreClosed", "Closed", "Rejected"}
Stages == {"confirm", "contracts", "closing", "settledClosing", "claim",
           "watched", "process"}

\* The Channel variants no handler leaves.
Terminal == {"Closed", "CounterClosed", "ClosedPunished", "CollaborativelyClosed",
             "Cancelled", "FailedAccept", "FailedSign"}

\* Every variable holds a value of its type.
TypeOK ==
    /\ \A p \in Parties :
          /\ chan[p].status \in Statuses
          /\ chan[p].uidx \in UpdateIdxs
          /\ chan[p].secrets \subseteq UpdateIdxs
          /\ chan[p].status = "Signed" => chan[p].st.idx \in UpdateIdxs
          /\ contract[p] \in [ContractIds -> ContractStates]
          /\ pc[p] \in Stages
          /\ panicked[p] \in {"no", "down", "contract_id", "secret", "rollback"}
    /\ \A t \in DOMAIN chain : chain[t].lvl \in 0..2 /\ chain[t].by \in Parties
    /\ nextContract \in 1..MaxContract + 1
    /\ crashes \in 0..MaxCrashes

----------------------------------------------------------------------------
(* Safety.                                                                 *)

\* When neither node is in the middle of an update and no message is in
\* flight, both nodes hold the same channel state: the settle and renew
\* handlers of the two sides move update_idx and the sub-state in step.
StableStatesAgree ==
    (/\ \A p \in Parties : chan[p].status = "Signed"
                           /\ chan[p].st.type \in StableStates
     /\ net = {})
    => /\ chan[Offerer].st.idx = chan[Other(Offerer)].st.idx
       /\ chan[Offerer].st.type = chan[Other(Offerer)].st.type

\* Revocation is sound: no node sits in an Established or Settled state
\* whose per-update secret it has already handed to the other node (the
\* secrets SettleConfirm, SettleFinalize, RenewFinalize and RenewRevoke carry
\* are those of the state being left, never of the state entered).
NoRevokedStateHeld ==
    \A p \in Parties :
        chan[p].status = "Signed" /\ chan[p].st.type \in StableStates
            => chan[p].st.idx \notin chan[Other(p)].secrets

\* Revocation is enforced: in an Established or Settled state a node's chain
\* monitor has a Revoked entry for every update whose counterparty secret
\* it holds, so process_watched_txs can punish that state's publication.
RevokedWatched ==
    \A p \in Parties :
        chan[p].status = "Signed" /\ chan[p].st.type \in StableStates
            => \A i \in chan[p].secrets :
                   \E k \in DOMAIN monitor[p].tx :
                       /\ monitor[p].tx[k].info.type = "Revoked"
                       /\ monitor[p].tx[k].info.updateIdx = i

\* The contract of the current Established state is never closed, rejected
\* or pre-closed in the store: the renew and settle handlers close only the
\* contract of the roll-back state they leave.
CurrentContractOpen ==
    \A p \in Parties :
        InSigned(p, "Established")
            => Contract(p, chan[p].st.contract) \in {"Signed", "Confirmed"}

\* Spec invariant 6 (tombstones): a channel in a terminal variant and a
\* contract that is Closed or Rejected is never changed again by any
\* handler, reactor step or API call.
Tombstone ==
    [][\A p \in Parties :
          /\ chan[p].status \in Terminal => chan'[p] = chan[p]
          /\ \A c \in ContractIds :
                 contract[p][c] \in {"Closed", "Rejected"}
                     => contract'[p][c] = contract[p][c]]_vars

\* An honest node is never punished: every punish tx on chain answers a
\* revoked transaction broadcast by a cheating wallet, not one a node's own
\* force_close_channel broadcast.
IsPunish(t) == t.kind \in {"punishbuffer", "punishsettle"}
HonestNeverPunished ==
    \A t \in DOMAIN chain : IsPunish(t) => Other(t.by) \in Cheaters

\* The stored channel and the chain monitor agree: a Revoked entry names an
\* update index the stored channel has already moved past (the handlers
\* register the previous state as Revoked together with storing the new
\* one).
RevokesOnlyPastStates ==
    \A p \in Parties : chan[p].status = "Signed" =>
        \A k \in DOMAIN monitor[p].tx :
            monitor[p].tx[k].info.type = "Revoked"
                => monitor[p].tx[k].info.updateIdx > chan[p].uidx

\* A Revoked entry's is_offer is that of the revoked state, so that the
\* punish tx process_watched_txs builds uses the right offer/accept key
\* order.
RevokedTagMatchesState ==
    \A p \in Parties : \A k \in DOMAIN monitor[p].tx :
        monitor[p].tx[k].info.type = "Revoked" =>
            \E s \in hist.held[p] : /\ CommitTx(s) = k
                                    /\ s.isOffer = monitor[p].tx[k].info.isOffer

\* The BufferTx handler's expect("to have a contract id") holds: a
\* confirmed buffer tx is only met in a state that has a contract id (spec
\* scenario S6 expects Closing even during a collaborative close offer).
BufferTxNeverPanics == \A p \in Parties : panicked[p] # "contract_id"

\* The Revoked handler's expect("to be able to retrieve the per update
\* secret") holds: a watched revoked tx is only seen confirmed once the
\* counterparty's secret for it is known.
RevokedNeverPanics == \A p \in Parties : panicked[p] # "secret"

\* The expect("to have a rollback state") of force_close_channel_internal
\* holds: a node forced to close from an in-progress update always has the
\* state to roll back to.
RollbackNeverPanics == \A p \in Parties : panicked[p] # "rollback"

\* The expect("to have a rollback state") of on_renew_confirm and
\* on_renew_finalize holds: a node waiting for RenewConfirm or RenewFinalize
\* still has its previous stable state, whatever rejects, force closes and
\* counterparty buffer txs happened in between.
RenewHasRollback ==
    \A p \in Parties :
        (InSigned(p, "RenewAccepted") \/ InSigned(p, "RenewConfirmed"))
            => chan[p].rb # NULL

----------------------------------------------------------------------------
(* Refinement.  The stable states a node enters at the end of a channel   *)
(* establishment, settle or renew (RecordState) are the states it commits *)
(* to in ChannelLog: hist.log keeps the first state entered at each update *)
(* index and hist.last each node's latest; a channel in a terminal variant *)
(* has ended.                                                               *)

LogEntries == [type : StableStates, contract : ContractIds \cup {NoContract}]
AtOf == [p \in Parties |->
            IF hist.last[p] = NULL THEN NULL
            ELSE [idx |-> hist.last[p].idx, e |-> Entry(hist.last[p])]]
EndedOf == [p \in Parties |-> chan[p].status \in Terminal]

Log == INSTANCE ChannelLog WITH
    Entries <- LogEntries, log <- hist.log, at <- AtOf, ended <- EndedOf

\* The settle and renew handlers of the two nodes implement ChannelLog:
\* every state a node commits to is the next update index after its last
\* one, is the same (sub-state and contract) as the state the other node
\* committed to at that index, is only new if the other node is not behind,
\* and no state is committed to after the channel reached a terminal variant.
LogRefinement == Log!Spec

----------------------------------------------------------------------------
(* Liveness.  periodic_check is called periodically by the host, so every *)
(* reactor step is weakly fair; a message in flight is eventually handled *)
(* (peers stay connected); valid transactions are eventually mined and   *)
(* buried; the oracle eventually attests; a stopped process is started  *)
(* again.  User calls are not fair.                                       *)

Fairness ==
    /\ \A p \in Parties : WF_vars(Reactor(p)) /\ WF_vars(\E m \in net : Handle(p, m))
    /\ WF_vars(\E t \in DOMAIN chain : Mine(t) \/ Deepen(t))
    /\ WF_vars(Attest)
    /\ \A p \in Parties : WF_vars(Restart(p))

FairSpec == Spec /\ Fairness

\* A unilateral close completes: a node whose channel is Closing (it
\* force-closed, or saw the other's buffer tx) ends in a terminal variant,
\* unless its process died on a failed expect().
ClosingTerminates ==
    \A p \in Parties :
        (Alive(p) /\ InSigned(p, "Closing"))
            ~> (chan[p].status \in Terminal \/ Dead(p))

\* An update that was started is resolved: a node in a settle, renew or
\* collaborative close sub-state eventually leaves it.
UpdateResolves ==
    \A p \in Parties :
        (Alive(p) /\ chan[p].status = "Signed" /\ chan[p].st.type \in RollbackStates)
            ~> (chan[p].status # "Signed" \/ chan[p].st.type \notin RollbackStates
                \/ Dead(p))
====
