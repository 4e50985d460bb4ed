----------------------------- MODULE ChannelLog -----------------------------
(***************************************************************************)
(* What the two ends of a DLC channel promise each other, with no messages *)
(* or transactions: the stable states (Established or Settled) the nodes   *)
(* commit to form one log indexed by update_idx, counting down from the    *)
(* index of the first signed state.  Each node walks the log one index at  *)
(* a time; the first node to reach an index fixes the state there, and the *)
(* other commits to the same state when it gets there.  A node never gets *)
(* more than one index ahead of the other, and a node whose channel has    *)
(* ended commits to nothing more.                                          *)
(***************************************************************************)
EXTENDS Naturals, TLC

CONSTANTS
    Parties,           \* the two nodes
    InitialUpdateIdx,  \* the index of the first state
    Entries,           \* what a state is, as both nodes must agree on it
    NULL

VARIABLES
    log,    \* update index -> the state committed to at that index
    at,     \* party -> [idx, e]: the last state it committed to, or NULL
    ended   \* party -> its channel has ended

vars == <<log, at, ended>>

Peer(p) == CHOOSE q \in Parties : q # p

\* The index below which p commits next.
Pos(p) == IF at[p] = NULL THEN InitialUpdateIdx + 1 ELSE at[p].idx

Init ==
    /\ log = [i \in {} |-> NULL]
    /\ at = [p \in Parties |-> NULL]
    /\ ended = [p \in Parties |-> FALSE]

\* p commits to the state at the next index: the one already in the log, or,
\* if its peer is not behind, a new one.
CommitNext(p) ==
    LET i == Pos(p) - 1
    IN /\ ~ended[p]
       /\ \/ /\ i \in DOMAIN log
             /\ at' = [at EXCEPT ![p] = [idx |-> i, e |-> log[i]]]
             /\ UNCHANGED log
          \/ /\ i \notin DOMAIN log /\ Pos(Peer(p)) = Pos(p)
             /\ \E e \in Entries :
                   /\ log' = log @@ (i :> e)
                   /\ at' = [at EXCEPT ![p] = [idx |-> i, e |-> e]]
       /\ UNCHANGED ended

End(p) ==
    /\ ~ended[p]
    /\ ended' = [ended EXCEPT ![p] = TRUE]
    /\ UNCHANGED <<log, at>>

Next == \E p \in Parties : CommitNext(p) \/ End(p)

Spec == Init /\ [][Next]_vars

=============================================================================
