# TLA+ models of rust-dlc (dlc-manager)

This directory holds TLA+ models of the DLC channel protocol and of the
on-chain contract lifecycle in `src/dlc-manager/src/manager.rs`, of its
chain monitor (`src/dlc-manager/src/chain_monitor.rs`), and of DLC channels
embedded in Lightning channels (`src/dlc-manager/src/sub_channel_manager.rs`). It also holds the TLC
configurations that check those models. `PROJECT.json` records several
things:

- which definition models which source lines (`map`);
- every run and the properties it checks;
- the mutants that show each property can fail;
- the findings;
- the hazards the code is exposed to.

## The system

The source has four parts:

| Part | Source | What it does |
|---|---|---|
| Manager | `manager.rs` | The entry point of a node. It has a public API (`offer_channel`, `accept_channel`, `settle_offer`, `renew_offer`, `offer_collaborative_close`, `force_close_channel`, ...). It has message handlers (`on_dlc_message` dispatching to `on_offer_channel` ... `on_reject`). It has a reactor, `periodic_check`, that the host calls periodically. The reactor has two parts. The contract checks confirm signed contracts, close confirmed ones with a CET or refund them, and close pre-closed ones. `channel_checks` finalizes closing channels, then looks at confirmed watched transactions (`process_watched_txs`). |
| ChainMonitor | `chain_monitor.rs` | The transactions and outpoints a node watches on chain, each tagged with a `TxType` (BufferTx, Revoked, CollaborativeClose, SettleTx2, Cet, ...). Manager handlers add entries. `check_transaction_confirmations` marks them Confirmed. `process_watched_txs` acts on the confirmed ones. |
| SubChannelManager | `sub_channel_manager.rs` | DLC channels embedded in Lightning channels. A split tx spends the LN funding output into an LN output, which a glue tx returns to the LN commitments, and a DLC output that funds a nested DLC channel. It has a public API (`offer_sub_channel`, `accept_sub_channel`, `offer_subchannel_close`, `accept_subchannel_close_offer`, `initiate_force_close_sub_channel`, `finalize_force_close_sub_channels`), handlers dispatched by `on_sub_channel_message`, and a watcher, `check_for_watched_tx`. It calls the Manager for the nested channel and the LDK channel manager for the LN commitments. |
| Serialization macros | `dlc-messages/src/ser_macros.rs` | Byte encoders for messages and stored state. |

An on-chain contract (one not inside a channel) moves by three messages:
Offer (`send_offer`, `on_offer_message`), Accept (`accept_contract_offer`,
`on_accept_message`) and Sign (`on_sign_message`, which broadcasts the fund
tx). From then on only `periodic_check` moves it:

- Signed → Confirmed;
- Confirmed → PreClosed (CET broadcast) or Refunded (after the refund locktime);
- PreClosed → Closed.

A channel moves between two nodes by messages:

- Settle: SettleOffer → SettleAccept → SettleConfirm → SettleFinalize.
- Renew: RenewOffer → RenewAccept → RenewConfirm → RenewFinalize → RenewRevoke.
- Collaborative close offers and Reject.

Each node keeps a `SignedChannel`, made of:

- a sub-state (Established, Settled, the in-progress states, Closing, ...);
- a `roll_back_state`;
- an `update_idx`;
- the counterparty's per-update secrets.

An update reveals the secret of the state being left. From then on the
previous commitment (buffer or settle tx) is watched as `Revoked`: if the
counterparty publishes it, the node punishes them. The state transitions
themselves are in `channel_updater.rs`, which is not under `src/`. Its effect
on the channel is modelled from the specification. Those definitions are
marked `spec_modelled` in the map.

A sub-channel moves by messages on the LN peer link, which is ordered:

- Open: Offer → Accept → Confirm → Finalize. Accept and Confirm each sign a
  new LN commitment (on the glue output) and revoke the funding one.
- Off-chain close: CloseOffer → CloseAccept → CloseConfirm → CloseFinalize.
  CloseAccept and CloseFinalize reveal the per-split secret of the split
  being left, and each node then watches that split as `Revoked`.
- Unilateral close: the split tx, and after `CET_NSEQUENCE` blocks the glue
  tx and the force close of the nested DLC channel.

## Modules

### `ChainMonitor.tla`

Pure operators over a monitor record `[tx, txo]`. Each field maps a tx (or
the buffer outpoint) to `[tx, info, state]`:

- `AddTx` (a BufferTx also adds its Cet txo), `AddTxo`;
- `CleanupChannel`, `RemoveTx`;
- `ConfirmTx`, `ConfirmTxo`, `Confirm`;
- `DidWeOfferLastChannelSettlement`;
- `ConfirmedTxs`.

A model has one channel, so `channel_id` is the constant `CID`.

### `DlcChannel.tla`

Two Manager instances (`Parties`, with the channel offer party `Offerer`)
share one channel.

**State:**

| Variable | What it holds |
|---|---|
| `chan[p]` | The stored channel: Channel variant, `st` (the SignedChannelState as a record), `rb` (roll_back_state), `uidx` (update_idx), `secrets` (counterparty secrets held), `isOfferParty`, `closingTx`, `isCloser`. |
| `contract[p]` | The store's contract states by contract id. |
| `monitor[p]` | The chain monitor. |
| `net` | Messages in flight, each delivered at most once, in any order. |
| `chain` | Transactions in the mempool (level 0), confirmed (1), or confirmed CET_NSEQUENCE deep (2). |
| `pc[p]` | Which stage of `periodic_check` the node's reactor is in. |
| `pending[p]` | The confirmed entries `process_watched_txs` still has to handle this tick. |
| `panicked[p]` | Whether the node's process runs ("no"), is stopped and will be restarted ("down"), or was killed by an `expect` (which one). |
| `attested` | Whether the oracle attestation is available. |
| `saved[p]` | The chain monitor as last persisted by `persist_chain_monitor`. |
| `crashes` | How many crashes have happened. |
| `hist` | History the properties and the refinement mapping need: the commitment txs created, the txs cheaters sent, the stable states each node held, each node's last stable state, and the log of stable states by update index. No action reads it. |

**Actions:**

- One action per API call and one per message handler. Each action is the
  whole function:
  - its guards come from `get_channel_in_state!`, `get_contract_in_state!` and `get_signed_channel_rollback_state!`;
  - error returns are an action that only consumes the message;
  - it includes every `add_tx`, `upsert_channel` and `update_contract` the function makes, in their order.
  - A failure after a monitor change leaves the monitor changed, as in `on_settle_confirm`.
- The reactor steps through the stages of `periodic_check` in order, one
  action per stage. `ProcessWatchedTx` handles one confirmed entry per step:
  - a `?` error aborts the rest of the tick (`Abort`);
  - an `expect` sets `panicked` (`Panic`).
- The environment:
  - `Mine` and `Deepen` advance transactions on chain.
  - `Attest` publishes the oracle attestation.
  - `Cheat` lets a wallet in `Cheaters` broadcast old commitments or their CETs.
- `Ops` bounds which kinds of update the users start (settle, renew, close,
  force). Once an update has started, the replies to it are always possible.

**Model choices:**

- `NB_CONFIRMATIONS` is 0 in the source. So a Signed contract becomes
  Confirmed, and a PreClosed one Closed, at the next contract check.
- The CET and claim txs are checked against `CET_NSEQUENCE` as level 2.

**Faults** (`Faults`, a subset of {"badsig", "loss", "crash"}; `MaxCrashes`):

- `badsig`: the counterparty's signatures may fail verification. Only then
  are the `FailedAccept`/`FailedSign` branches possible.
- `loss`: `Lose(m)` removes a message in flight. The transport is the
  host's; nothing in the code retransmits.
- `crash`: the process of a node may stop, at most `MaxCrashes` times:
  - between any two steps (`Crash`);
  - inside every handler that ends with `store.upsert_channel` followed by
    `persist_chain_monitor` (`Persist` = `PersistOk` or
    `CrashBeforePersist`). The store keeps the channel and contract; the
    persisted monitor (`saved[p]`) stays as it was, and the reply is not
    sent. The renew handlers close the previous contract with
    `update_contract` only after the persist (`RenewCommit`).
- `Restart` is `Manager::new`: the monitor is the persisted one, channels
  and contracts are the stored ones, `periodic_check` starts again, and
  the messages sent to the node over the dropped connection are lost.

The handlers without a persist (for example `accept_settle_offer`, which adds
the SettleTx2 watch, and the reactor's confirmations) change only the
in-memory monitor. A crash loses those changes until the next persist.

### `ChannelLog.tla`

The abstract specification of what the two ends of a channel promise each
other: the stable states (Established or Settled) that they commit to form one
log, indexed by update index and counting down from the first state. Each node
walks the log one index at a time. The first node to reach an index fixes
the entry there, and the other must commit to the same entry when it gets
there. A node never gets more than one index ahead, and a node whose channel
ended commits to nothing more.

`DlcChannel` implements it (`LogRefinement == Log!Spec`). The refinement
mapping is:

- `log` is `hist.log`, the first stable state recorded at each update index;
- `at[p]` is the last stable state `p` stored, as `[idx, e]`;
- `ended[p]` holds when the channel is a terminal variant.

An entry is the state's type and contract. `is_offer` is per side, so it is
left out.

### `DlcContract.tla`

The on-chain contract lifecycle between two nodes, over a set of contract
ids, each offered by one node (`OfferParty`). The state has five parts:

- `contract[p][c]`: the state name in node `p`'s store (`"None"` before
  the offer arrives);
- `net`: the Offer, Accept and Sign messages in flight;
- `chain[c]`: the fund tx, CET and refund tx of contract `c`, each absent
  (-1), in the mempool (0) or confirmed (1);
- `attested[c]` and `refundable[c]`: the oracle has attested, and the refund
  locktime has passed.

The actions are `SendOffer`, `OnOfferMessage`, `AcceptContractOffer`,
`OnAcceptMessage` and `OnSignMessage`. A failed verification goes through
`AcceptFailOnError`/`SignFailOnError` (fault `badsig`). `PeriodicCheck(p)`
is one call of `periodic_check`: every contract of `p` goes through
`CheckContract`, which is `CheckSignedContract`, then
`CheckConfirmedContract` (with `CloseContract` or `CheckRefund`), then
`CheckPreclosedContract`, in the order the code runs them. The other actions
are the environment: `Mine`, `Attest`, `RefundLocktimePasses`, and `Lose`
(fault `loss`).

`SendTx` is the Blockchain's `send_transaction`:

- it accepts a transaction whose input exists and is unspent (the CET and
  the refund spend the same fund output);
- it refuses a conflicting one;
- for a transaction already in the mempool, it accepts or refuses,
  depending on the backend.

`Confs` is `get_transaction_confirmations`, which gives 0 for an unknown
transaction. `NB_CONFIRMATIONS` is a constant, 0 as in the code.
`Closable(c)` stands for `get_closable_contract_info`, with one oracle and
one event. `LateAttestation` says whether the oracle may attest after the
refund locktime.

### `MCDlcContract.tla`

Instantiates `DlcContract` with nodes `A` and `B`. Contract `C1` is offered
by `A` and `C2` by `B`.

### `SubChannel.tla`

Two `SubChannelManager` instances over one Lightning channel.

| Variable | What it holds |
|---|---|
| `sub[p]` | The stored `SubChannel`: its `SubChannelState` name, `update_idx` and `is_offer`. |
| `closer[p]` | Whether `p`'s user offered the current close. |
| `dlc[p]` | The nested DLC channel's state and its contract's state in `p`'s store. |
| `ln[p]` | The output `p`'s latest LN commitment spends: the funding output, the glue output, or closed. |
| `secrets[p]` | `counter_party_secrets`: the counterparty's split secrets, each `[idx, ok]`, `ok` meaning it is the real secret. |
| `monitor[p]` | The chain monitor's entry per split index: none, `SplitTx`, or `Revoked`. |
| `net[p][q]` | Messages from `p` to `q`, in order. |
| `chain` | Each split tx, the glue tx and the punish tx: absent, in the mempool, or confirmed k deep. |
| `processed[p]` | The watcher has passed the block that holds the split. |
| `halted` | Nodes whose process panicked. |
| `hist` | Who broadcast the split, and the split indices whose secret each node revealed. No action reads it. |

Each public method and each handler is one action, whose guards and error
paths come from the code. `InState` is `get_sub_channel_in_state!`. A
message's `ok` says whether its signatures verify, or whether its secret is
the sender's real one; the fault `badsig` lets them fail. `ln` abstracts
`on_commitment_signed_get_raa` and the LDK commitment dance to which output
the node's current commitment spends (`GlueCommitment`). A failed signature
check in `on_subchannel_accept` or `on_subchannel_confirm`
(`FailedSignatureCheck`) leaves `ln` unchanged when the bad signature is the
split adaptor signature, which is verified first (lines 1160 and 1391), and
leaves it on the glue output when a signature checked after the LN change is
bad.

Two guards come from the caller, not the code: `AcceptSubChannel` requires
`~is_offer` and `AcceptSubchannelCloseOffer` requires that `p`'s user did
not offer the close. `accept_sub_channel` and
`accept_subchannel_close_offer` only check the state, so a user who
"accepts" its own offer is outside the model; the model's users accept only
offers they received. `DlcClosable` is
`get_closed_sub_dlc_channel`. `CheckSignedContract` is the Manager's
confirmation of the nested contract.

LDK's `CounterpartyCommitmentSecrets` is modelled by what it does: a secret
for index `i` sits in the slot of the number of trailing zeros of `i`
(`Pos`), derives every index that agrees with `i` above those bits
(`Derives`), and `provide_secret` checks it against the lower slots
(`ProvideSecretOk`). `INITIAL_SPLIT_NUMBER` is `2^48 - 1` in the code; a
`2^k - 1` keeps the same low-bit pattern.

`CheckForWatchedTx` handles the block that holds a confirmed split
(`OnWatchedSplit`), or panics on `get_secret(...).expect` when a Revoked
split's secret is missing. `sub_channel_manager.rs` calls
`ChainMonitor::process_block` and `increment_height`, which
`chain_monitor.rs` no longer has. The model gives them their evident
meaning: report the watched txs of the next block, and move past it only
when the call succeeds.

`CheatSplit` is a cheater's wallet broadcasting a split whose secret its node
revealed. `Mine` confirms and deepens transactions.

### `MCSubChannel.tla`

Instantiates `SubChannel` with two model values `A` and `B`.

### `MCDlcChannel.tla`

Instantiates `DlcChannel` with two model values `A` and `B`. `A` is the
channel offerer. `CheatBound` is the state constraint of the `cheater` run:
a cheater's wallet broadcasts at most `MaxCheats` (1) transactions.

## Runs

All channel runs use `MCDlcChannel` with `InitialUpdateIdx = 3`. The
`contract` run uses `MCDlcContract`.

`UpdateBound` is the lowest update index, so `UpdateBound = 2` allows one
settle or renew and `UpdateBound = 1` allows two. `MaxContract` bounds the
contracts renewals create.

### Passing runs

| Run | Ops and faults | Checks | What it shows |
|---|---|---|---|
| `one_update` | settle, renew, force; badsig | TypeOK, StableStatesAgree, RevokedWatched, NoRevokedStateHeld, CurrentContractOpen, RenewHasRollback, Tombstone | One settle or renew, interleaved with crossing offers, rejects, failed verification and force closes from every sub-state. The two nodes' stable states stay equal. Every secret a node holds is backed by a Revoked watch. No node sits in a revoked state, and the current contract stays open. `on_renew_confirm`/`on_renew_finalize` always find a rollback state, so their `expect("to have a rollback state")` never fires. Terminal channels and Closed/Rejected contracts never change. |
| `updates` | settle, renew, close; UpdateBound 1; MaxContract 3 | StableStatesAgree, RevokedWatched, LogRefinement | Two successive updates of different kinds, crossing offers, and collaborative close. The nodes implement `ChannelLog`. |
| `faults` | settle, renew; loss, one crash | StableStatesAgree, LogRefinement | Lost messages and a crash anywhere, also between the store write and the monitor persist, followed by a restart: the nodes never agree on different stable states and still implement `ChannelLog`. |
| `cheater` | renew, force; Cheaters {B}; badsig; at most one cheating broadcast (`CheatBound`) | HonestNeverPunished | The honest offerer A may force close its current state at any point of a renew, while B's wallet broadcasts a revoked buffer, CET or claim tx. The two buffers race for the fund output, and each node's watcher handles whichever is mined. Only the cheater is ever punished. |
| `contract` | two contracts; badsig, loss; NB_CONFIRMATIONS 0; no late attestation; FairSpec; no deadlock check | TypeOK, OutcomeOnChain, FundedContractTerminates | No node records PreClosed, Closed or Refunded unless the CET or refund is on chain, even though `NB_CONFIRMATIONS = 0` lets one `periodic_check` go from Signed to Closed. The two nodes race to broadcast the same CET or refund, and a duplicate may be refused. Still, once a contract's fund tx is broadcast, both nodes end it terminal. The system may stop (every contract terminal, or waiting for a user or a lost message), so deadlock is not checked. |
| `sub_channel` | MCSubChannel; Offerers and CloseOfferers {A, B}; Cheaters {A}; badsig; split indices 3..1; FairSpec; no deadlock check | TypeOK, StatesAgree, HonestNeverPunished, RevokedSplitPunished | Open and off-chain close from both nodes, with crossing offers, failed signature checks, force close and its finalize, re-offer of an OffChainClosed sub-channel, and a wallet that broadcasts a revoked split. When no message is in flight and both nodes are Signed or OffChainClosed, they agree on state and split index, with opposite `is_offer`. Only the cheater is ever punished. A revoked split that the cheater broadcasts while the honest node already holds its secret always ends with the punish tx confirmed. Because of the wrong CloseFinalize secret (`v_bad_secret`), every off-chain close after the first stalls at the close offerer's `provide_secret`: in this run index 1 is never Signed, so secret derivation is exercised for indices 3 and 2 only. The system may stop: everything closed on chain, or waiting for a user. |
| `force_live` | force; one crash; FairSpec | ClosingTerminates | A force-closed channel always reaches a closed variant, also when a process crashes once anywhere. That includes the window between storing Closing (or a closed variant) and persisting the monitor, in the force close and in the `process_watched_txs` entries. |

### Violation runs

Each violation run checks one property that the spec, a comment or an
`expect` states. TLC finds it violated by what the code does. The findings in
PROJECT.json explain each one.

| Run | Property | Counterexample |
|---|---|---|
| `v_settle_punished` | HonestNeverPunished | `force_close_channel` in SettledConfirmed rolls back to the Established state whose secret SettleConfirm already revealed. The honest node's buffer tx is then punished. |
| `v_bad_secret` | CounterSecretsValid | A offers a sub-channel and B accepts. Then A offers a close, B accepts, and A confirms. B's CloseFinalize carries `derive_private_key(own_per_split_point, per_split_seed)` (line 1802), not the split secret. `on_sub_channel_close_finalize` at A stores it with `provide_secret`. So A can never punish B's revoked split. |
| `v_force_stuck` | ForceCloseResolves | Both nodes are Signed. B force-closes and the split is mined. B's own watcher takes the split for the counterparty's: Closing → CounterOnChainClosed (line 1958), with cleanup of its monitor, so `finalize_force_close_sub_channels` never runs. A had offered a close (CloseOffered), so its watcher logs "Unexpected channel state" (line 1971). Nobody broadcasts the glue tx. |
| `v_late_secret` | CheatPunished | In 16 states. A offers a sub-channel and B accepts. A offers a close, B accepts, and A's `on_sub_channel_close_accept` sends its split secret in CloseConfirm. Cheater A at once broadcasts that split, and it is mined. B's watcher handles the block while B is still CloseAccepted: the split is B's SplitTx entry, so it only logs (line 1971). Then B handles CloseConfirm, stores A's secret and watches the split as Revoked (line 1820), but that block is already behind `last_height` (line 2142), so no punish tx is ever sent. |
| `v_renew_close_stuck` | ClosingTerminates | The renew accepter, in RenewFinalized, force-closes with the new buffer tx. The offer party, in RenewConfirmed, force-closes with the rolled-back old one. Both buffers spend the fund output; in the trace the new one is mined first, and the offer party's monitor does not watch it (it is added in `on_renew_finalize`), so the offer party stays in Closing. |

More counterexamples were found with configurations that are not kept
as runs (the project keeps at most twelve runs). The first four were runs
of earlier versions of this project; their properties are still defined in
`DlcChannel.tla`:

- RevokedWatched (`MCDlcChannel`, Ops {settle}, Faults {crash}, formerly
  the run `v_crash_revoked`), in 14 steps: after a settle, the accepter
  crashes in `on_settle_confirm` between `upsert_channel` (line 1742) and
  `persist_chain_monitor` (line 1744). It restarts Settled, holding the
  counterparty's secret, with a monitor that has no Revoked entry for the
  state it revoked.

- BufferTxNeverPanics (`MCDlcChannel`, Ops {settle, force}): a
  counterparty force close during a settle reaches
  `expect("to have a contract id")` (line 2306). Spec scenario S6 expects
  Closing.
- RevokedTagMatchesState (Ops {renew}): `on_renew_confirm` and
  `on_renew_finalize` write `is_offer: false` for the previous state of
  either side (line 1920).
- RevokedNeverPanics (Ops {renew, force}): the renew accepter watches the
  previous buffer as Revoked before it holds the secret. A legitimate force
  close by the renew offer party then kills its process (line 2330).
- LnCommitmentBacked (`MCSubChannel`, Offerers {A}, MinSplitIdx 3, badsig):
  `on_subchannel_accept` calls `on_commitment_signed_get_raa` (line 1226),
  which revokes the funding commitment, before it verifies the DLC and glue
  signatures. With a bad signature the handler returns an error: A is left
  on the glue commitment with the sub-channel Offered and no split it can
  publish. `on_subchannel_confirm` (line 1407) has the same order.
- HonestNeverPanics (`MCSubChannel`, the `sub_channel` configuration), in
  15 states. B offers a close and A accepts. B's
  `on_sub_channel_close_accept` watches A's split as Revoked (line 1708) and
  sends CloseConfirm. A handles it and is OffChainClosed. Before B receives
  CloseFinalize, which carries A's secret, cheater A's wallet broadcasts the
  split it has just revoked. B's
  `check_for_watched_tx` calls `get_secret(update_idx).expect(...)` (line
  1993) with no secret stored and panics, though B is honest.

- RevokesOnlyPastStates, Ops {settle, force} under the `one_update` bounds:
  `on_settle_confirm` adds a Revoked watch on the current buffer tx, then
  fails because the contract is still Signed.
- RollbackNeverPanics, Ops {renew, force}: a Reject arriving after the
  BufferTx handler set Closing restores RenewOffered without a rollback
  state, and `force_close_channel` then panics.
- ClosingTerminates under `FairSpec` with Ops {renew} and Cheaters {B}: B's
  wallet publishes the current buffer during a renew. The BufferTx handler of
  each node stores Closing with `get_contract_id()` of its in-progress
  RenewOffered/RenewAccepted state, which is the renew's offered contract.
  That contract is never Confirmed, so no CET is signed and both stay in
  Closing.
- ClosingTerminates with Ops {close, force} (formerly the run
  `v_collab_force_stuck`). A node that offered a collaborative close and
  then force-closed keeps the CollaborativeClose watch. When the
  counterparty accepts and the close tx confirms, the handler's
  `get_signed_channel_state!(CollaborativeCloseOffered)` errors, and the `?`
  at line 2479 aborts `process_watched_txs` on every tick. The channel stays
  in Closing.
- FundedContractTerminates in `MCDlcContract` with `LateAttestation = TRUE`
  and no faults, in 14 states. The refund locktime of `C2` passes, and A's
  `periodic_check` finds no attestation: it broadcasts the refund and stores
  Refunded. Then the oracle attests. From then on every `periodic_check` of
  B takes the close path (`check_confirmed_contract`, line 664). The CET
  broadcast is refused because the refund spent the fund output, and the
  error return (line 682) skips `check_refund`. So B's contract stays
  Confirmed forever. spec.md says a failed CET broadcast still moves the
  contract to PreClosed. With `NB_CONFIRMATIONS = 0`, that would record
  Closed against a confirmed refund (the mutant `CloseContractIgnoreSendError`
  breaks `OutcomeOnChain` this way).

Two close offers that cross leave both nodes CloseOffered:
`on_sub_channel_close_offer` needs Signed, and CloseReject, which would undo
an offer, is `todo!()` (line 182). The `sub_channel` run reaches this state.
No progress property can hold there, so none is checked.

UpdateResolves (every update started is resolved) fails with crossing settle
and renew offers. Both are refused, nothing is retransmitted, and
`check_for_timed_out_channels` only logs while force closing on timeout is
disabled. This is by design for now, so it is not a run.

### Mutants

Every property of a passing run has a mutant in PROJECT.json. A mutant is an
operator defined just before the definition it replaces, with a plausible
bug:

- an off-by-one update index;
- a missing Revoked watch;
- the wrong secret or contract;
- a dropped rollback or status check;
- a missed publisher check;
- a CET signed one confirmation late;
- a renewed state that keeps the old contract, which breaks the refinement;
- in `SubChannel`, an `update_idx` that is decremented on every offer or
  on none, a force close from an OffChainClosed sub-channel whose split
  is revoked, and a close confirm that registers the counterparty's split
  as SplitTx instead of Revoked;
- in `DlcContract`, an Accept sent to the wrong node, a CET broadcast error
  ignored (the behaviour spec.md describes), and a confirmed contract that
  never falls back to the refund.

TLC finds each one under the run's own configuration.

## Bounds

Two nodes and one channel are enough for every interaction the channel
protocol has. Each property above needs at most two updates to fail:

- one settle or renew and its revocation;
- a second update that reuses or closes the first one's contract.

The violation runs find their counterexamples within those bounds.

In the `cheater` run one cheating broadcast is enough: a revoked buffer
racing the honest node's force close is the case the punish guard must
tell apart. A second one (a CET of the revoked buffer after it) doubles the
state space (4.5 million states) and takes the run near five minutes.

For contracts, two contracts offered in opposite directions make
`periodic_check` handle several contracts in one call. Each contract's
three transactions cover every send outcome: accepted, conflicting, and a
duplicate accepted or refused.

For sub-channels, split indices 3, 2 and 1 allow an open, a close and a
re-offer, which is two revoked splits. They are also enough for the
`CounterpartyCommitmentSecrets` slots to differ: 3 is odd (slot 0), 2 is
slot 1. `CET_NSEQUENCE = 1` makes finalize wait for a confirmation.

Larger update bounds multiply the interleavings without adding new kinds of
step. Each run keeps the Ops it needs, so it finishes within minutes.

## Fairness

`FairSpec` assumes weak fairness of several kinds of step:

- each node's reactor step, because `periodic_check` is called periodically by the host;
- the delivery of a message in flight to a live node;
- mining and deepening of broadcast transactions;
- the oracle's attestation;
- `Restart` of a stopped process: the host starts the node again.

User API calls and cheating are not fair: nobody has to offer, accept or
force close.

The `contract` run's `FairSpec` is weakly fair for three kinds of step:

- each node's `PeriodicCheck`;
- `Mine`, because miners include valid transactions;
- `RefundLocktimePasses`, because time passes.

`SubChannel`'s `FairSpec` (runs `sub_channel`, `v_late_secret` and
`v_force_stuck`) is weakly fair for
`OnSubChannelMessage` (the LN peer link delivers its messages),
`CheckForWatchedTx` and `FinalizeForceCloseSubChannels` (the host calls them
periodically), and `Mine`. User calls and cheating are not fair.

The oracle's `Attest` is not fair, since an oracle may never attest. The
run assumes it attests before the refund locktime or never; the late case
is the counterexample above.

## Not modelled (yet)

- In `DlcContract`, four things are left out:
  - multi-oracle thresholds and announcement checks (`Closable` is one
    boolean);
  - the duplicate-id branch of `on_offer_message`;
  - mempool eviction;
  - broadcast failures other than conflicts and duplicates. A failed fund
    broadcast in `on_sign_message` is never retried: see the hazards.
- In `SubChannel`:
  - amounts, fees and `validate_and_get_ln_values_per_party`. They only
    return errors the model's states already allow, but their u64
    arithmetic on the counterparty's offer can underflow or wrap (see the
    hazards);
  - CloseReject and the CollaborativeClose watch, both `todo!()`;
  - crashes. `on_sub_channel_close_confirm` never persists the chain
    monitor, so with crashes `RevokedSplitPunished` fails, and the pass run
    cannot include them. A crash run of its own would need a twelfth-run
    slot. The hazards record the crash windows, including the one in
    `check_for_watched_tx` that the code's own TODO at line 1922 names;
  - DLC channel updates (settle, renew) inside a signed sub-channel, and
    composition with `DlcChannel`.
- Message duplication. The transport delivers each message at most once, and
  a replayed message meets a state its handler rejects.
- `check_for_timed_out_channels`. It only logs while force closing on timeout
  is disabled, so it changes no state.
- Legacy `SettleTx` and `SplitTx` entries.
- Serialization.

`manager.rs` reads `is_initiator` of `SignedChannelState::Closing` (line
2570), while the `ClosingSubChannel` that `sub_channel_manager.rs` builds
(lines 668 and 1975) carries no such flag. No property depends on the
difference, so neither model records it.

## Plan for later sittings

1. Compose `DlcContract` with `DlcChannel`: channel contracts are skipped
   by `check_confirmed_contracts` and share the store with on-chain ones.
2. Add crashes and the persisted chain monitor to `SubChannel` in a run of
   its own, and compose it with `DlcChannel` for updates of the nested
   channel.
3. State that every contract a renew leaves is eventually closed. The crash
   between `persist_chain_monitor` and `update_contract` in the renew
   handlers would break it.
