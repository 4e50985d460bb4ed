------------------------------ MODULE SubChannel ------------------------------
(***************************************************************************)
(* The sub-channel manager of dlc-manager (sub_channel_manager.rs): a DLC  *)
(* channel embedded in a Lightning channel between two nodes.  A split     *)
(* transaction spends the LN funding output into an LN-side output, which  *)
(* a glue transaction hands back to the LN commitments, and a DLC-side     *)
(* output funding the nested DLC channel.  The module models the open      *)
(* handshake (Offer/Accept/Confirm/Finalize), the off-chain close          *)
(* handshake (CloseOffer/CloseAccept/CloseConfirm/CloseFinalize), the      *)
(* unilateral close (initiate_force_close_sub_channel,                     *)
(* finalize_force_close_sub_channels) and check_for_watched_tx, with the   *)
(* per-split revocation secrets and the split txs the chain monitor        *)
(* watches.  A split tx is identified by its update_idx.                   *)
(***************************************************************************)
EXTENDS Integers, Sequences, FiniteSets

CONSTANTS
    Parties,              \* the two nodes of the LN channel
    Offerers,             \* nodes whose user calls offer_sub_channel
    CloseOfferers,        \* nodes whose user calls offer_subchannel_close
    Cheaters,             \* nodes whose wallet broadcasts a split they revoked
    INITIAL_SPLIT_NUMBER, \* 2^48 - 1 in the code; any 2^k - 1 keeps its low bits
    MinSplitIdx,          \* bound: re-offers stop at this update_idx
    CET_NSEQUENCE,        \* relative locktime of the glue tx, in blocks
    NB_CONFIRMATIONS,     \* confirmations check_signed_contract waits for
    Faults                \* subset of {"badsig"}

ASSUME Cardinality(Parties) = 2
ASSUME MinSplitIdx \in 1..INITIAL_SPLIT_NUMBER

Other(p) == CHOOSE q \in Parties : q # p
Idx == (MinSplitIdx - 1)..INITIAL_SPLIT_NUMBER

VARIABLES
    sub,        \* the SubChannel each node's store holds
    closer,     \* TRUE at the node whose user offered the current close
    dlc,        \* the nested DLC channel and its contract in each node's store
    ln,         \* the output each node's latest LN commitment spends
    secrets,    \* counter_party_secrets: the counterparty's split secrets
    monitor,    \* the chain monitor's entry for each split tx
    net,        \* net[p][q]: messages from p to q, in order (one LN peer link)
    chain,      \* the split, glue and punish txs: -1 absent, 0 mempool, k confs
    processed,  \* the node's watcher has passed the block holding the split
    halted,     \* nodes whose process panicked
    hist        \* history: who broadcast the split, split secrets each revealed

vars == <<sub, closer, dlc, ln, secrets, monitor, net, chain, processed,
          halted, hist>>

SubStates == {"None", "Offered", "Accepted", "Signed", "Closing",
              "OnChainClosed", "CounterOnChainClosed", "CloseOffered",
              "CloseAccepted", "CloseConfirmed", "OffChainClosed",
              "ClosedPunished"}
MsgTypes == {"Offer", "Accept", "Confirm", "Finalize", "CloseOffer",
             "CloseAccept", "CloseConfirm", "CloseFinalize"}
\* ok: the signatures a message carries verify, or its split secret is the
\* sender's real per-split secret for the update index.
Msgs == [type : MsgTypes, ok : BOOLEAN]
Msg(t, ok) == [type |-> t, ok |-> ok]
SigChoices == IF "badsig" \in Faults THEN BOOLEAN ELSE {TRUE}

NoSub == [state |-> "None", idx |-> INITIAL_SPLIT_NUMBER, isOffer |-> FALSE]

-----------------------------------------------------------------------------
(* LDK's CounterpartyCommitmentSecrets, which stores the split secrets: a  *)
(* secret for index i sits in the slot of its trailing zero count and can  *)
(* derive every index that agrees with i above those bits.  provide_secret *)
(* checks the new secret against the slots below its own.                  *)

RECURSIVE Pos(_)
Pos(i) == IF i % 2 = 1 \/ i = 0 THEN 0 ELSE 1 + Pos(i \div 2)

Derives(s, i) == i - (i % (2 ^ Pos(s.idx))) = s.idx

ProvideSecretOk(S, i, ok) == \A s \in S : Pos(s.idx) < Pos(i) => ok /\ s.ok

StoreSecret(S, i, ok) ==
    {s \in S : Pos(s.idx) # Pos(i)} \cup {[idx |-> i, ok |-> ok]}

\* get_secret(idx): the empty set is None, otherwise whether the derived
\* secret is the counterparty's real one.
GetSecret(S, i) == {s.ok : s \in {s \in S : Derives(s, i)}}

-----------------------------------------------------------------------------
(* The chain.  All split txs spend the LN funding output, so one at most   *)
(* gets into the mempool; the glue and the punish tx both spend its        *)
(* outputs and exclude each other.                                         *)

NoSplit == \A i \in Idx : chain.split[i] = -1
SplitOnChain == \E i \in Idx : chain.split[i] >= 1
Confs(i) == IF chain.split[i] < 0 THEN 0 ELSE chain.split[i]
SpendFree == chain.glue = -1 /\ chain.punish = -1

Send(p, m) == net' = [net EXCEPT ![p][Other(p)] = Append(@, m)]
Consume(p) == net' = [net EXCEPT ![Other(p)][p] = Tail(@)]
Reply(p, m) ==
    net' = [net EXCEPT ![Other(p)][p] = Tail(@),
                       ![p][Other(p)] = Append(@, m)]
SetSub(p, f) == sub' = [sub EXCEPT ![p] = f]
SetDlc(p, ch, ct) == dlc' = [dlc EXCEPT ![p] = [ch |-> ch, ct |-> ct]]
Watch(p, i, t) == monitor' = [monitor EXCEPT ![p][i] = t]
Up(p) == p \notin halted

-----------------------------------------------------------------------------
(* Opening a sub-channel.                                                  *)

\* offer_sub_channel: only with no sub-channel or an OffChainClosed one,
\* which is re-offered with is_offer = true and update_idx - 1; stores the
\* Offered DLC channel and contract, then the Offered sub-channel.
OfferSubChannel(p) ==
    /\ Up(p) /\ p \in Offerers /\ ln[p] # "closed"
    /\ sub[p].state \in {"None", "OffChainClosed"}
    /\ LET i == IF sub[p].state = "None" THEN INITIAL_SPLIT_NUMBER
                ELSE sub[p].idx - 1
       IN /\ i >= MinSplitIdx
          /\ SetSub(p, [state |-> "Offered", idx |-> i, isOffer |-> TRUE])
    /\ SetDlc(p, "Offered", "Offered")
    /\ Send(p, Msg("Offer", TRUE))
    /\ UNCHANGED <<closer, ln, secrets, monitor, chain, processed, halted, hist>>

\* Mutants of on_subchannel_offer: the received offer keeps the old
\* update_idx, or also decrements it for a fresh sub-channel.
OnSubchannelOfferNoDecrement(p) ==
    /\ sub[p].state \in {"None", "OffChainClosed"}
    /\ SetSub(p, [state |-> "Offered", isOffer |-> FALSE,
                  idx |-> IF sub[p].state = "None" THEN INITIAL_SPLIT_NUMBER
                          ELSE sub[p].idx])
    /\ SetDlc(p, "Offered", "Offered")
    /\ Consume(p)
    /\ UNCHANGED <<closer, ln, secrets, monitor, chain, processed, halted, hist>>
OnSubchannelOfferAlwaysDecrement(p) ==
    /\ sub[p].state \in {"None", "OffChainClosed"}
    /\ SetSub(p, [state |-> "Offered", isOffer |-> FALSE, idx |-> sub[p].idx - 1])
    /\ SetDlc(p, "Offered", "Offered")
    /\ Consume(p)
    /\ UNCHANGED <<closer, ln, secrets, monitor, chain, processed, halted, hist>>

\* on_subchannel_offer: the same checks with is_offer = false.
OnSubchannelOffer(p) ==
    /\ sub[p].state \in {"None", "OffChainClosed"}
    /\ SetSub(p, [state |-> "Offered", isOffer |-> FALSE,
                  idx |-> IF sub[p].state = "None" THEN INITIAL_SPLIT_NUMBER
                          ELSE sub[p].idx - 1])
    /\ SetDlc(p, "Offered", "Offered")
    /\ Consume(p)
    /\ UNCHANGED <<closer, ln, secrets, monitor, chain, processed, halted, hist>>

\* accept_sub_channel: the Offered sub-channel; ~isOffer is the caller's
\* part (the code checks only the state: a user accepts an offer it
\* received); signs the counterparty's LN commitment on the glue output,
\* watches the split as SplitTx, stores the Accepted channel, contract and
\* sub-channel and persists the monitor.
AcceptSubChannel(p) ==
    /\ Up(p) /\ ln[p] # "closed"
    /\ sub[p].state = "Offered" /\ ~sub[p].isOffer
    /\ Watch(p, sub[p].idx, "split")
    /\ SetSub(p, [sub[p] EXCEPT !.state = "Accepted"])
    /\ SetDlc(p, "Accepted", "Accepted")
    /\ \E ok \in SigChoices : Send(p, Msg("Accept", ok))
    /\ UNCHANGED <<closer, ln, secrets, chain, processed, halted, hist>>

\* get_updated_funding_outpoint_commitment_signed and
\* on_commitment_signed_get_raa move the node's own LN commitment to the
\* glue output and revoke the old one.
GlueCommitment(p) == ln' = [ln EXCEPT ![p] = "glue"]

\* A handler that fails a signature check returns before the LN change when
\* the bad signature is the split adaptor signature it verifies first, and
\* after it when a signature checked later is bad.
FailedSignatureCheck(p) == UNCHANGED ln \/ GlueCommitment(p)

\* on_subchannel_accept: verifies the split adaptor signature, then moves
\* the LN commitment to the glue output BEFORE
\* verify_and_sign_accepted_channel_internal and the glue signature check;
\* when those fail the handler returns the error with the LN change done.
OnSubchannelAccept(p, m) ==
    /\ \/ /\ m.ok
          /\ GlueCommitment(p)
          /\ Watch(p, sub[p].idx, "split")
          /\ SetSub(p, [sub[p] EXCEPT !.state = "Signed"])
          /\ SetDlc(p, "Signed", "Signed")
          /\ \E ok \in SigChoices : Reply(p, Msg("Confirm", ok))
       \/ /\ ~m.ok
          /\ FailedSignatureCheck(p)
          /\ Consume(p)
          /\ UNCHANGED <<sub, dlc, monitor>>
    /\ UNCHANGED <<closer, secrets, chain, processed, halted, hist>>

\* on_subchannel_confirm: verifies the split adaptor signature, then
\* revoke_and_ack and on_commitment_signed_get_raa move the LN commitment
\* to the glue output, then verify_signed_channel_internal; stores the
\* Signed channel, the Confirmed contract and the Signed sub-channel and
\* answers Finalize.
OnSubchannelConfirm(p, m) ==
    /\ \/ /\ m.ok
          /\ GlueCommitment(p)
          /\ SetSub(p, [sub[p] EXCEPT !.state = "Signed"])
          /\ SetDlc(p, "Signed", "Confirmed")
          /\ Reply(p, Msg("Finalize", TRUE))
       \/ /\ ~m.ok
          /\ FailedSignatureCheck(p)
          /\ Consume(p)
          /\ UNCHANGED <<sub, dlc>>
    /\ UNCHANGED <<closer, secrets, monitor, chain, processed, halted, hist>>

\* on_sub_channel_finalize: needs the Signed DLC channel and Signed
\* contract; revoke_and_ack, then stores the contract as Confirmed.
OnSubChannelFinalize(p, m) ==
    /\ \/ /\ dlc[p] = [ch |-> "Signed", ct |-> "Signed"]
          /\ SetDlc(p, "Signed", "Confirmed")
       \/ /\ dlc[p] # [ch |-> "Signed", ct |-> "Signed"]
          /\ UNCHANGED dlc
    /\ Consume(p)
    /\ UNCHANGED <<sub, closer, ln, secrets, monitor, chain, processed,
                   halted, hist>>

\* check_signed_contract of Manager::periodic_check on the nested contract:
\* Signed becomes Confirmed once its funding tx, the split tx, has
\* NB_CONFIRMATIONS confirmations (an unknown tx counts 0).
CheckSignedContract(p) ==
    /\ Up(p)
    /\ dlc[p].ct = "Signed"
    /\ Confs(sub[p].idx) >= NB_CONFIRMATIONS
    /\ dlc' = [dlc EXCEPT ![p].ct = "Confirmed"]
    /\ UNCHANGED <<sub, closer, ln, secrets, monitor, net, chain, processed,
                   halted, hist>>

-----------------------------------------------------------------------------
(* Off-chain close.                                                        *)

\* offer_subchannel_close: a Signed sub-channel over a Signed DLC channel.
OfferSubchannelClose(p) ==
    /\ Up(p) /\ p \in CloseOfferers
    /\ sub[p].state = "Signed" /\ dlc[p].ch = "Signed"
    /\ SetSub(p, [sub[p] EXCEPT !.state = "CloseOffered"])
    /\ closer' = [closer EXCEPT ![p] = TRUE]
    /\ Send(p, Msg("CloseOffer", TRUE))
    /\ UNCHANGED <<dlc, ln, secrets, monitor, chain, processed, halted, hist>>

\* on_sub_channel_close_offer: Signed becomes CloseOffered, the state name
\* the offering node holds too.
OnSubChannelCloseOffer(p, m) ==
    /\ SetSub(p, [sub[p] EXCEPT !.state = "CloseOffered"])
    /\ closer' = [closer EXCEPT ![p] = FALSE]
    /\ Consume(p)
    /\ UNCHANGED <<dlc, ln, secrets, monitor, chain, processed, halted, hist>>

\* accept_subchannel_close_offer: a CloseOffered sub-channel over a Signed
\* DLC channel; ~closer is the caller's part (the code checks only the
\* state: a user accepts a close it did not offer); signs the counterparty's LN commitment on the funding output.
AcceptSubchannelCloseOffer(p) ==
    /\ Up(p)
    /\ sub[p].state = "CloseOffered" /\ ~closer[p] /\ dlc[p].ch = "Signed"
    /\ SetSub(p, [sub[p] EXCEPT !.state = "CloseAccepted"])
    /\ Send(p, Msg("CloseAccept", TRUE))
    /\ UNCHANGED <<closer, dlc, ln, secrets, monitor, chain, processed,
                   halted, hist>>

\* on_sub_channel_close_accept: on_commitment_signed_get_raa moves the LN
\* commitment back to the funding output; answers CloseConfirm with the
\* node's split secret build_commitment_secret(seed, update_idx); watches
\* the split as Revoked, stores CloseConfirmed and persists the monitor.
OnSubChannelCloseAccept(p, m) ==
    /\ ln' = [ln EXCEPT ![p] = "fund"]
    /\ Reply(p, Msg("CloseConfirm", TRUE))
    /\ Watch(p, sub[p].idx, "revoked")
    /\ SetSub(p, [sub[p] EXCEPT !.state = "CloseConfirmed"])
    /\ hist' = [hist EXCEPT !.revealed[p] = @ \cup {sub[p].idx}]
    /\ UNCHANGED <<closer, dlc, secrets, chain, processed, halted>>

\* get_closed_sub_dlc_channel: the DLC channel must be Signed and its
\* contract Confirmed (get_collaboratively_closed_contract).
DlcClosable(p) == dlc[p] = [ch |-> "Signed", ct |-> "Confirmed"]

\* The split secret on_sub_channel_close_confirm sends is
\* derive_private_key(own_per_split_point, per_split_seed), which is not
\* the per-split secret build_commitment_secret(seed, update_idx).
CloseFinalizeSecretOk == FALSE

\* Mutant of on_sub_channel_close_confirm: the counterparty's split is
\* registered with TxType::SplitTx instead of TxType::Revoked.
OnSubChannelCloseConfirmWatchSplit(p, m) ==
    \/ /\ DlcClosable(p)
       /\ ProvideSecretOk(secrets[p], sub[p].idx, m.ok)
       /\ secrets' = [secrets EXCEPT ![p] = StoreSecret(@, sub[p].idx, m.ok)]
       /\ ln' = [ln EXCEPT ![p] = "fund"]
       /\ Reply(p, Msg("CloseFinalize", CloseFinalizeSecretOk))
       /\ Watch(p, sub[p].idx, "split")
       /\ SetSub(p, [sub[p] EXCEPT !.state = "OffChainClosed"])
       /\ SetDlc(p, "Closed", "Closed")
       /\ hist' = [hist EXCEPT !.revealed[p] = @ \cup {sub[p].idx}]
       /\ UNCHANGED <<closer, chain, processed, halted>>
    \/ /\ ~(DlcClosable(p) /\ ProvideSecretOk(secrets[p], sub[p].idx, m.ok))
       /\ Consume(p)
       /\ UNCHANGED <<sub, closer, dlc, ln, secrets, monitor, chain, processed,
                      halted, hist>>

\* on_sub_channel_close_confirm: get_closed_sub_dlc_channel, provide_secret,
\* revoke_and_ack, on_commitment_signed_get_raa (back to the funding
\* output); answers CloseFinalize with its split secret, watches the split
\* as Revoked and stores the closed DLC channel and the OffChainClosed
\* sub-channel (it does not persist the chain monitor).
OnSubChannelCloseConfirm(p, m) ==
    \/ /\ DlcClosable(p)
       /\ ProvideSecretOk(secrets[p], sub[p].idx, m.ok)
       /\ secrets' = [secrets EXCEPT ![p] = StoreSecret(@, sub[p].idx, m.ok)]
       /\ ln' = [ln EXCEPT ![p] = "fund"]
       /\ Reply(p, Msg("CloseFinalize", CloseFinalizeSecretOk))
       /\ Watch(p, sub[p].idx, "revoked")
       /\ SetSub(p, [sub[p] EXCEPT !.state = "OffChainClosed"])
       /\ SetDlc(p, "Closed", "Closed")
       /\ hist' = [hist EXCEPT !.revealed[p] = @ \cup {sub[p].idx}]
       /\ UNCHANGED <<closer, chain, processed, halted>>
    \/ /\ ~(DlcClosable(p) /\ ProvideSecretOk(secrets[p], sub[p].idx, m.ok))
       /\ Consume(p)
       /\ UNCHANGED <<sub, closer, dlc, ln, secrets, monitor, chain, processed,
                      halted, hist>>

\* on_sub_channel_close_finalize: provide_secret, get_closed_sub_dlc_channel,
\* revoke_and_ack; stores the closed DLC channel and OffChainClosed.
OnSubChannelCloseFinalize(p, m) ==
    \/ /\ ProvideSecretOk(secrets[p], sub[p].idx, m.ok) /\ DlcClosable(p)
       /\ secrets' = [secrets EXCEPT ![p] = StoreSecret(@, sub[p].idx, m.ok)]
       /\ SetSub(p, [sub[p] EXCEPT !.state = "OffChainClosed"])
       /\ SetDlc(p, "Closed", "Closed")
       /\ Consume(p)
       /\ UNCHANGED <<closer, ln, monitor, chain, processed, halted, hist>>
    \/ /\ ~(ProvideSecretOk(secrets[p], sub[p].idx, m.ok) /\ DlcClosable(p))
       /\ Consume(p)
       /\ UNCHANGED <<sub, closer, dlc, ln, secrets, monitor, chain, processed,
                      halted, hist>>

-----------------------------------------------------------------------------
(* Message dispatch: on_sub_channel_message.  get_sub_channel_in_state!    *)
(* rejects a message the sub-channel is not in the state for; the error   *)
(* goes back to the caller and the message is dropped.                    *)

ExpectedState == [Offer |-> {"None", "OffChainClosed"}, Accept |-> {"Offered"},
                  Confirm |-> {"Accepted"}, Finalize |-> {"Signed"},
                  CloseOffer |-> {"Signed"}, CloseAccept |-> {"CloseOffered"},
                  CloseConfirm |-> {"CloseAccepted"},
                  CloseFinalize |-> {"CloseConfirmed"}]

InState(p, m) == sub[p].state \in ExpectedState[m.type]

OnSubChannelMessage(p) ==
    /\ Up(p)
    /\ net[Other(p)][p] # <<>>
    /\ LET m == Head(net[Other(p)][p]) IN
       \/ /\ ~InState(p, m)
          /\ Consume(p)
          /\ UNCHANGED <<sub, closer, dlc, ln, secrets, monitor, chain,
                         processed, halted, hist>>
       \/ InState(p, m) /\ m.type = "Offer"         /\ OnSubchannelOffer(p)
       \/ InState(p, m) /\ m.type = "Accept"        /\ OnSubchannelAccept(p, m)
       \/ InState(p, m) /\ m.type = "Confirm"       /\ OnSubchannelConfirm(p, m)
       \/ InState(p, m) /\ m.type = "Finalize"      /\ OnSubChannelFinalize(p, m)
       \/ InState(p, m) /\ m.type = "CloseOffer"    /\ OnSubChannelCloseOffer(p, m)
       \/ InState(p, m) /\ m.type = "CloseAccept"   /\ OnSubChannelCloseAccept(p, m)
       \/ InState(p, m) /\ m.type = "CloseConfirm"  /\ OnSubChannelCloseConfirm(p, m)
       \/ InState(p, m) /\ m.type = "CloseFinalize" /\ OnSubChannelCloseFinalize(p, m)

-----------------------------------------------------------------------------
(* Unilateral close.                                                       *)

\* Mutant: the force close also takes the split of an OffChainClosed
\* sub-channel.
InitiateForceCloseAnyState(p) ==
    /\ Up(p)
    /\ sub[p].state \in {"Signed", "OffChainClosed"} /\ NoSplit
    /\ chain' = [chain EXCEPT !.split[sub[p].idx] = 0]
    /\ hist' = [hist EXCEPT !.splitBy = p]
    /\ SetSub(p, [sub[p] EXCEPT !.state = "Closing"])
    /\ UNCHANGED <<closer, dlc, ln, secrets, monitor, net, processed, halted>>

\* initiate_force_close_sub_channel: a Signed sub-channel; send_transaction
\* of the split (refused when another split holds the funding output),
\* then Closing.
InitiateForceCloseSubChannel(p) ==
    /\ Up(p)
    /\ sub[p].state = "Signed" /\ NoSplit
    /\ chain' = [chain EXCEPT !.split[sub[p].idx] = 0]
    /\ hist' = [hist EXCEPT !.splitBy = p]
    /\ SetSub(p, [sub[p] EXCEPT !.state = "Closing"])
    /\ UNCHANGED <<closer, dlc, ln, secrets, monitor, net, processed, halted>>

\* finalize_force_close_sub_channels: Closing and CET_NSEQUENCE
\* confirmations of the split; sends the glue tx, force-closes the DLC
\* channel (force_close_sub_channel) and the LN channel, stores
\* OnChainClosed after cleanup_channel and persist_chain_monitor.
FinalizeForceCloseSubChannels(p) ==
    /\ Up(p)
    /\ sub[p].state = "Closing" /\ Confs(sub[p].idx) >= CET_NSEQUENCE
    /\ SpendFree
    /\ chain' = [chain EXCEPT !.glue = 0]
    /\ dlc' = [dlc EXCEPT ![p].ch = "Closing"]
    /\ ln' = [ln EXCEPT ![p] = "closed"]
    /\ SetSub(p, [sub[p] EXCEPT !.state = "OnChainClosed"])
    /\ monitor' = [monitor EXCEPT ![p] = [i \in Idx |-> "none"]]
    /\ UNCHANGED <<closer, secrets, net, processed, halted, hist>>

\* check_for_watched_tx, for the block holding the split tx i, which the
\* chain monitor reports when it watches i.
\*  SplitTx: Signed -> Closing; Closing -> CounterOnChainClosed with
\*  cleanup_channel; any other state is logged and skipped.
\*  Revoked split: get_secret(update_idx).expect(...) panics on None; the
\*  punish tx built from a wrong secret is invalid and send_transaction
\*  fails, so the call returns before increment_height and retries the block
\*  the next time; otherwise the punish tx is sent and ClosedPunished.
\* The monitor is persisted at the end.
OnWatchedSplit(p, i) ==
    LET s == sub[p].state IN
    \/ /\ monitor[p][i] = "none"
       /\ UNCHANGED <<sub, monitor, chain, halted>>
    \/ /\ monitor[p][i] = "split" /\ s = "Signed"
       /\ SetSub(p, [sub[p] EXCEPT !.state = "Closing"])
       /\ UNCHANGED <<monitor, chain, halted>>
    \/ /\ monitor[p][i] = "split" /\ s = "Closing"
       /\ SetSub(p, [sub[p] EXCEPT !.state = "CounterOnChainClosed"])
       /\ monitor' = [monitor EXCEPT ![p] = [j \in Idx |-> "none"]]
       /\ UNCHANGED <<chain, halted>>
    \/ /\ monitor[p][i] = "split" /\ s \notin {"Signed", "Closing"}
       /\ UNCHANGED <<sub, monitor, chain, halted>>
    \/ /\ monitor[p][i] = "revoked"
       /\ GetSecret(secrets[p], i) = {TRUE}
       /\ SpendFree
       /\ chain' = [chain EXCEPT !.punish = 0]
       /\ SetSub(p, [sub[p] EXCEPT !.state = "ClosedPunished"])
       /\ UNCHANGED <<monitor, halted>>

CheckForWatchedTx(p) ==
    /\ Up(p)
    /\ ~processed[p]
    /\ \E i \in Idx :
        /\ chain.split[i] >= 1
        /\ \/ /\ OnWatchedSplit(p, i)
              /\ processed' = [processed EXCEPT ![p] = TRUE]
           \/ /\ monitor[p][i] = "revoked" /\ GetSecret(secrets[p], i) = {}
              /\ halted' = halted \cup {p}
              /\ UNCHANGED <<sub, monitor, chain, processed>>
    /\ UNCHANGED <<closer, dlc, ln, secrets, net, hist>>

-----------------------------------------------------------------------------
(* Environment.                                                            *)

\* A cheating wallet broadcasts a split whose secret its node revealed.
CheatSplit(p) ==
    /\ p \in Cheaters /\ NoSplit
    /\ \E i \in hist.revealed[p] :
        /\ chain' = [chain EXCEPT !.split[i] = 0]
        /\ hist' = [hist EXCEPT !.splitBy = p]
    /\ UNCHANGED <<sub, closer, dlc, ln, secrets, monitor, net, processed,
                   halted>>

\* A block confirms the mempool and deepens the split up to CET_NSEQUENCE.
Deepen(c, cap) == IF c >= 0 /\ c < cap THEN c + 1 ELSE c
Mine ==
    /\ \/ \E i \in Idx : chain.split[i] \in 0..(CET_NSEQUENCE - 1)
       \/ chain.glue = 0 \/ chain.punish = 0
    /\ chain' = [split |-> [i \in Idx |-> Deepen(chain.split[i],
                                                 CET_NSEQUENCE)],
                 glue |-> Deepen(chain.glue, 1),
                 punish |-> Deepen(chain.punish, 1)]
    /\ UNCHANGED <<sub, closer, dlc, ln, secrets, monitor, net, processed,
                   halted, hist>>

-----------------------------------------------------------------------------

Init ==
    /\ sub = [p \in Parties |-> NoSub]
    /\ closer = [p \in Parties |-> FALSE]
    /\ dlc = [p \in Parties |-> [ch |-> "None", ct |-> "None"]]
    /\ ln = [p \in Parties |-> "fund"]
    /\ secrets = [p \in Parties |-> {}]
    /\ monitor = [p \in Parties |-> [i \in Idx |-> "none"]]
    /\ net = [p \in Parties |-> [q \in Parties |-> <<>>]]
    /\ chain = [split |-> [i \in Idx |-> -1], glue |-> -1, punish |-> -1]
    /\ processed = [p \in Parties |-> FALSE]
    /\ halted = {}
    /\ hist = [splitBy |-> "none", revealed |-> [p \in Parties |-> {}]]

Next ==
    \/ \E p \in Parties :
        \/ OfferSubChannel(p)
        \/ AcceptSubChannel(p)
        \/ OnSubChannelMessage(p)
        \/ CheckSignedContract(p)
        \/ OfferSubchannelClose(p)
        \/ AcceptSubchannelCloseOffer(p)
        \/ InitiateForceCloseSubChannel(p)
        \/ FinalizeForceCloseSubChannels(p)
        \/ CheckForWatchedTx(p)
        \/ CheatSplit(p)
    \/ Mine

Spec == Init /\ [][Next]_vars

\* The reactor calls check_for_watched_tx and
\* finalize_force_close_sub_channels periodically, messages on the LN peer
\* link are delivered and blocks keep coming.
FairSpec ==
    /\ Spec
    /\ \A p \in Parties :
        /\ WF_vars(OnSubChannelMessage(p))
        /\ WF_vars(CheckForWatchedTx(p))
        /\ WF_vars(FinalizeForceCloseSubChannels(p))
    /\ WF_vars(Mine)

-----------------------------------------------------------------------------
(* Properties.                                                             *)

TypeOK ==
    /\ sub \in [Parties -> [state : SubStates, idx : MinSplitIdx..INITIAL_SPLIT_NUMBER,
                             isOffer : BOOLEAN]]
    /\ closer \in [Parties -> BOOLEAN]
    /\ dlc \in [Parties -> [ch : {"None", "Offered", "Accepted", "Signed",
                                  "Closing", "Closed"},
                            ct : {"None", "Offered", "Accepted", "Signed",
                                  "Confirmed", "Closed"}]]
    /\ ln \in [Parties -> {"fund", "glue", "closed"}]
    /\ \A p \in Parties : secrets[p] \subseteq [idx : Idx, ok : BOOLEAN]
    /\ monitor \in [Parties -> [Idx -> {"none", "split", "revoked"}]]
    /\ net \in [Parties -> [Parties -> Seq(Msgs)]]
    /\ chain \in [split : [Idx -> -1..CET_NSEQUENCE], glue : -1..1,
                  punish : -1..1]
    /\ processed \in [Parties -> BOOLEAN]
    /\ halted \subseteq Parties

Quiet == \A p, q \in Parties : net[p][q] = <<>>

\* Once the LN link is quiet, two nodes whose sub-channels are Signed or
\* OffChainClosed hold the same state and the same update_idx, one as the
\* offer party: offer_sub_channel and on_subchannel_offer decrement
\* update_idx in step, and every handshake ends on both sides.
StatesAgree ==
    (Quiet /\ \A p \in Parties : sub[p].state \in {"Signed", "OffChainClosed"})
    => \A q \in Parties :
        /\ sub[q].state = sub[Other(q)].state
        /\ sub[q].idx = sub[Other(q)].idx
        /\ sub[q].isOffer # sub[Other(q)].isOffer

\* A node whose latest LN commitment spends the glue output holds the split
\* and glue txs with the counterparty's signatures (a sub-channel state that
\* stores them), so it can always reach that output: the handlers move the
\* LN commitment (on_commitment_signed_get_raa) and the sub-channel state
\* in one step.
SplitHeld == {"Signed", "Closing", "CloseOffered", "CloseAccepted",
              "CounterOnChainClosed", "ClosedPunished"}
LnCommitmentBacked == \A p \in Parties : ln[p] = "glue" => sub[p].state \in SplitHeld

\* check_for_watched_tx punishes only splits a cheater broadcast after
\* revealing their secret: an honest node is never punished, including
\* after re-offers at a lower update_idx.
HonestNeverPunished ==
    \A p \in Parties \ Cheaters :
        ~(sub[Other(p)].state = "ClosedPunished" /\ hist.splitBy = p)

\* check_for_watched_tx never panics at an honest node: its
\* get_secret(update_idx).expect(...) for a Revoked split finds the
\* counterparty's secret.
HonestNeverPanics == halted \subseteq Cheaters

\* Every split secret a node stores as the counterparty's is the one that
\* lets it punish a revoked split of that index (the secret sent in
\* CloseConfirm and CloseFinalize is build_commitment_secret(seed, idx)).
CounterSecretsValid == \A p \in Parties : \A s \in secrets[p] : s.ok

\* Once a split tx confirms, the glue or the punish tx eventually spends
\* it: check_for_watched_tx and finalize_force_close_sub_channels of the
\* two nodes bring the LN-side output back to the LN commitments.
ForceCloseResolves == SplitOnChain ~> (chain.glue >= 1 \/ chain.punish >= 1)

\* The honest node holds a cheater's split secret for index i.
HonestCanPunish(i) == \E q \in Parties \ Cheaters : GetSecret(secrets[q], i) = {TRUE}

\* A revoked split that a cheater broadcasts while the honest node already
\* holds its secret is eventually punished: on_sub_channel_close_accept and
\* on_sub_channel_close_confirm watch the split as Revoked together with
\* storing or revealing the secret, and the honest node's
\* check_for_watched_tx sends the punish tx when the split confirms.
RevokedSplitPunished ==
    \A i \in Idx :
        (chain.split[i] = 0 /\ hist.splitBy \in Cheaters /\ HonestCanPunish(i))
            ~> chain.punish >= 1

\* A revoked split that a cheater broadcasts is eventually punished, also
\* when the honest node learns its secret (the CloseConfirm message) only
\* after the block holding the split.
CheatPunished ==
    \A i \in Idx :
        (chain.split[i] >= 1 /\ hist.splitBy \in Cheaters /\ HonestCanPunish(i))
            ~> chain.punish >= 1

====
