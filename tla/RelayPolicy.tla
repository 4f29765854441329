---------------------------- MODULE RelayPolicy ----------------------------
(***************************************************************************)
(* The stale / out-of-order filter the service applies to MSG_PLAYER_STATE *)
(* (player_state_relay_policy.c).  A state is abstracted to the two        *)
(* stamps the filter reads: seq (state_sequence) and tick (observed_tick); *)
(* in both, 0 means "the sender did not stamp it".  The accept and reject  *)
(* counters are reporting only and are left out.                           *)
(***************************************************************************)
EXTENDS Naturals

\* PlayerStateRelayStats: the last stamps accepted; 0 is "none yet".
Stamps == [seq : Nat, tick : Nat]

\* psr_init, and the memset of the whole slot in ws_alloc_player.
NoStats == [seq |-> 0, tick |-> 0]

\* The sequence part: a smaller sequence is refused, and so is the same
\* sequence unless its tick moved on.  Unsequenced messages skip it.
SequenceAccepts(s, m) ==
    m.seq # 0 =>
        /\ ~(s.seq # 0 /\ m.seq < s.seq)
        /\ ~(m.seq = s.seq /\ m.tick # 0 /\ s.tick # 0 /\ m.tick <= s.tick)

\* The tick part applies to sequenced and unsequenced messages alike.
TickAccepts(s, m) ==
    ~(m.tick # 0 /\ s.tick # 0 /\ m.tick < s.tick)

\* psr_evaluate = PSR_ACCEPT.
psr_evaluate(s, m) == SequenceAccepts(s, m) /\ TickAccepts(s, m)

\* What an accepted message leaves in the stats.
psr_absorb(s, m) ==
    [seq  |-> IF m.seq  # 0 THEN m.seq  ELSE s.seq,
     tick |-> IF m.tick # 0 THEN m.tick ELSE s.tick]

=============================================================================
