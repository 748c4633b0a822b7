--------------------------- MODULE MCRecordShape ---------------------------
(***************************************************************************)
(* The lengths of records, the padding of the first v4 record and the salt *)
(* block of the first v6 record. The three do not share state, so a        *)
(* behaviour runs one of them, and the state spaces add up.                *)
(***************************************************************************)
EXTENDS RecordShape, V4Padding, SaltBlock

VARIABLE machine  \* "shape", "padding" or "salt"

mcVars == <<vars, paddingVars, saltVars, machine>>

\* A profile at one end of every range (f = 0 gives the least, a large f the
\* greatest values), with the given policies and mixing.
Raw(f, policy, mix) ==
  LET up(n) == f * n
      bucket(n) == [i \in 0..7 |-> up(n) + 97 * i]
  IN  [prefix_min_handshake |-> up(80), prefix_max_handshake |-> up(144), record_prefix_handshake |-> up(32),
       pad_min |-> up(136), pad_max |-> up(800), pad_count |-> up(6), pad_interval |-> up(9),
       small_limit |-> up(672), prefix_min |-> up(72), prefix_max |-> up(144),
       mix_mode |-> mix, mix_rounds |-> 1 + f, mix_stride |-> up(11), mix_offset_base |-> up(15),
       mix_block |-> 0, chunk_policy |-> policy, chunk_initial |-> up(948), chunk_first_cap |-> up(512),
       chunk_max |-> up(8191), chunk_step |-> 3072, chunk_jitter |-> up(176),
       chunk_bucket |-> bucket(0), idle_reset |-> up(78), write_policy |-> policy,
       write_first |-> up(4), write_jitter |-> up(88), write_percent |-> up(40),
       write_bucket |-> bucket(0), write_seq |-> bucket(f)]

MCRawProfiles == {Raw(0, 1, 2), Raw(1, 2, 1), Raw(1, 0, 2)}
MCPaddings == {256, 511}
MCHints == {0, 1, 16383, 65535}

Draw(n) ==
  [chunk |-> n, prefix |-> n, pad |-> n, bucket |-> n, jitter |-> n, sign |-> n, next |-> n,
   offset |-> [r \in 0..2 |-> n * (r + 1)]]

\* 364 is near the greatest value of several ranges, and odd draws take the other sign.
MCDraws == {Draw(0), Draw(1), Draw(364)}

MCBodies == {[padding |-> 2, cipher |-> 4, ones |-> 16], [padding |-> 4, cipher |-> 4, ones |-> 17],
             [padding |-> 1, cipher |-> 4, ones |-> 20], [padding |-> 1, cipher |-> 4, ones |-> 32],
             [padding |-> 0, cipher |-> 4, ones |-> 3], [padding |-> 2, cipher |-> 6, ones |-> 4],
             [padding |-> 1, cipher |-> 4, ones |-> 16]}

Any(S) == CHOOSE x \in S : TRUE

MCInit ==
  /\ Init /\ PaddingInit /\ SaltInit
  /\ machine \in {"shape", "padding", "salt"}
  /\ machine # "shape" => profile = None /\ initial = Any(Paddings)
  /\ machine # "padding" => body = Any(Bodies)
  /\ machine # "salt" => len = Any(BlockLens) /\ rounds = 1

MCNext ==
  /\ \/ machine = "shape" /\ Next /\ UNCHANGED <<paddingVars, saltVars>>
     \/ machine = "padding" /\ PaddingNext /\ UNCHANGED <<vars, saltVars>>
     \/ machine = "salt" /\ SaltNext /\ UNCHANGED <<vars, paddingVars>>
  /\ UNCHANGED machine

MCSpec == MCInit /\ [][MCNext]_mcVars /\ Fairness
=============================================================================
