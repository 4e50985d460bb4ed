---------------------------- MODULE ChainMonitor ----------------------------
(***************************************************************************)
(* The chain monitor of dlc-manager (src/dlc-manager/src/chain_monitor.rs) *)
(* as pure operators over a monitor value.  A monitor is a record of two   *)
(* maps, watched_tx (txid -> WatchState) and watched_txo (outpoint ->      *)
(* WatchState).  A WatchState is Registered or Confirmed; a Confirmed one  *)
(* also holds the transaction that confirmed it (for an outpoint, the      *)
(* transaction that spends it).  Every operator returns the new monitor,   *)
(* so that the manager model can apply several of them in one handler.    *)
(*                                                                         *)
(* A ChannelInfo is the record [cid, type, updateIdx, isOffer, revoked]:   *)
(* cid is the channel id, type the TxType variant, and the other three     *)
(* fields carry the payload of Revoked{..} and SettleTx2{is_offer}; they   *)
(* are 0 / FALSE / "none" for the variants that have no payload.  The      *)
(* adaptor signature of Revoked is not kept: it is determined by the       *)
(* revoked state, which updateIdx identifies.                              *)
(***************************************************************************)
LOCAL INSTANCE Functions
LOCAL INSTANCE TLC

\* The TxType and RevokedTxType variants of chain_monitor.rs.
TxTypes == {"Revoked", "BufferTx", "CollaborativeClose", "SplitTx",
            "SettleTx", "Cet", "SettleTx2"}
RevokedTxTypes == {"Buffer", "Settle", "Split", "none"}

\* A ChannelInfo without a variant payload.
Info(cid, type) ==
    [cid |-> cid, type |-> type, updateIdx |-> 0, isOffer |-> FALSE,
     revoked |-> "none"]

\* TxType::Revoked { update_idx, is_offer, revoked_tx_type, .. }.
RevokedInfo(cid, idx, isOffer, rtype) ==
    [cid |-> cid, type |-> "Revoked", updateIdx |-> idx, isOffer |-> isOffer,
     revoked |-> rtype]

\* TxType::SettleTx2 { is_offer }.
SettleTx2Info(cid, isOffer) == [Info(cid, "SettleTx2") EXCEPT !.isOffer = isOffer]

\* WatchState::new: a Registered entry.
Registered(info) == [info |-> info, state |-> "Registered", tx |-> <<>>]

\* ChainMonitor::new: nothing is watched.
EmptyMonitor == [tx |-> <<>>, txo |-> <<>>]

\* The outpoint (txid, 0) of the single output of a buffer transaction.
BufferOutpoint(txid) == <<txid, 0>>

\* add_txo: insert, replacing any entry of the outpoint.
AddTxo(m, o, info) == [m EXCEPT !.txo = (o :> Registered(info)) @@ @]

\* add_tx: insert, replacing any entry of the txid; a BufferTx also has its
\* output watched as a Cet, so that a CET spending it is detected.
AddTx(m, txid, info) ==
    LET m1 == [m EXCEPT !.tx = (txid :> Registered(info)) @@ @]
    IN  IF info.type = "BufferTx"
        THEN AddTxo(m1, BufferOutpoint(txid), Info(info.cid, "Cet"))
        ELSE m1

\* cleanup_channel: drop every entry, of either map, of the channel.
CleanupChannel(m, cid) ==
    [tx  |-> RestrictDomain(m.tx,  LAMBDA k : m.tx[k].info.cid # cid),
     txo |-> RestrictDomain(m.txo, LAMBDA k : m.txo[k].info.cid # cid)]

\* remove_tx: drop the txid from watched_tx only; its outpoint stays watched.
RemoveTx(m, txid) == [m EXCEPT !.tx = Restrict(@, DOMAIN @ \ {txid})]

\* WatchState::confirm: Registered -> Confirmed with the transaction (the
\* one-element sequence tx; empty while Registered); an
\* entry already Confirmed is left as it is (the code logs an error).
Confirm(w, tx) ==
    IF w.state = "Registered"
    THEN [w EXCEPT !.state = "Confirmed", !.tx = <<tx>>]
    ELSE w

\* confirm_tx: confirm the entry of the transaction's txid, if watched.
ConfirmTx(m, txid) ==
    IF txid \in DOMAIN m.tx
    THEN [m EXCEPT !.tx[txid] = Confirm(@, txid)]
    ELSE m

\* confirm_txo: confirm the entry of the outpoint with its spending tx.
ConfirmTxo(m, o, spender) ==
    IF o \in DOMAIN m.txo
    THEN [m EXCEPT !.txo[o] = Confirm(@, spender)]
    ELSE m

\* did_we_offer_last_channel_settlement: find_map over the HashMap
\* watched_tx for a Revoked{Buffer} entry of the channel, returning its
\* is_offer.  HashMap iteration order is unspecified, so the result is any
\* element of this set; the empty set stands for None.
DidWeOfferLastChannelSettlement(m, cid) ==
    { m.tx[k].info.isOffer :
        k \in { k \in DOMAIN m.tx : /\ m.tx[k].info.cid = cid
                                    /\ m.tx[k].info.type = "Revoked"
                                    /\ m.tx[k].info.revoked = "Buffer" } }

\* confirmed_txs: the (transaction, info) pairs of the Confirmed entries.
\* watched_tx is chained before watched_txo, so the two parts are kept
\* apart: every tx entry is processed before every txo entry, and within a
\* part the order is the unspecified HashMap order.
ConfirmedTxs(m) ==
    [tx  |-> { [tx |-> m.tx[k].tx[1], info |-> m.tx[k].info] :
                 k \in { k \in DOMAIN m.tx : m.tx[k].state = "Confirmed" } },
     txo |-> { [tx |-> m.txo[k].tx[1], info |-> m.txo[k].info] :
                 k \in { k \in DOMAIN m.txo : m.txo[k].state = "Confirmed" } }]
=============================================================================
