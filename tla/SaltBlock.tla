----------------------------- MODULE SaltBlock -----------------------------
(***************************************************************************)
(* The salt block in front of the first v6 shaped record                   *)
(* (crates/snell-protocol/src/codec/v6/salt.rs, and write_salt_block and   *)
(* extract_salt of v6/profile/mod.rs). Both hosts shuffle the positions of *)
(* the block with draws keyed by the PSK; the sender puts the masked salt  *)
(* bytes at the first positions, over generated filler, and the receiver   *)
(* reads them back from there before it has a session key.                 *)
(*                                                                         *)
(* A byte is a symbol: a salt byte, filler, or a byte under the mask of an *)
(* index, which that mask removes and no other. A draw is any number below *)
(* the span it is reduced to; both hosts compute the same draws.           *)
(***************************************************************************)
EXTENDS Integers

CONSTANTS SaltLen,    \* SALT_LEN
          BlockLens,  \* lengths of a salt block
          MaxRounds,  \* bound on mix_rounds_handshake
          NoDraw      \* a draw not made yet

ASSUME SaltAssumption ==
  /\ SaltLen \in Nat /\ MaxRounds \in Nat
  /\ BlockLens \subseteq Nat /\ \A n \in BlockLens : n >= SaltLen
  /\ NoDraw \notin Nat

VARIABLES len,     \* salt_block_len of the profile
          rounds,  \* mix_rounds_handshake of the profile
          host,    \* who is at work: "sender", "receiver" or "done"
          perm,    \* the permutation under construction
          round,   \* the round of the shuffle
          at,      \* the position the next swap starts from
          draws,   \* salt_shuffle_prf by round and position, as far as drawn
          block,   \* the salt block
          salt     \* what the receiver extracted

saltVars == <<len, rounds, host, perm, round, at, draws, block, salt>>

Positions == 0..(len - 1)
Identity == [i \in Positions |-> i]

\* rounds.max(1)
Rounds == IF rounds = 0 THEN 1 ELSE rounds

\* A byte under mask(i), and mask(i) applied to a byte.
Filler == <<"filler", 0>>
SaltByte(i) == <<"salt", i>>
Masked(i, b) == <<"masked", i, b>>
Unmasked(i, b) == IF b[1] = "masked" /\ b[2] = i THEN b[3] ELSE Filler

SaltInit ==
  /\ len \in BlockLens /\ rounds \in 0..MaxRounds
  /\ host = "sender" /\ perm = Identity /\ round = 0 /\ at = 0
  /\ draws = [r \in 0..(Rounds - 1) |-> [i \in Positions |-> NoDraw]]
  /\ block = [i \in Positions |-> Filler]
  /\ salt = [i \in 0..(SaltLen - 1) |-> Filler]
-----------------------------------------------------------------------------
\* Mutant: the slot is overwritten and its own position lost.
SwappedOver(p, i, k) == [p EXCEPT ![i] = p[k]]

Swapped(p, i, k) == [p EXCEPT ![i] = p[k], ![k] = p[i]]

\* One swap of shuffle_perm, by the draw for this round and position.
Swap(d) ==
  /\ host # "done" /\ round < Rounds /\ at < len
  /\ d \in 0..(len - at - 1)
  /\ draws[round][at] \in {NoDraw, d}
  /\ perm' = Swapped(perm, at, at + d)
  /\ draws' = [draws EXCEPT ![round][at] = d]
  /\ at' = at + 1
  /\ UNCHANGED <<len, rounds, host, round, block, salt>>

NextRound ==
  /\ host # "done" /\ round < Rounds /\ at = len
  /\ round' = round + 1 /\ at' = 0
  /\ UNCHANGED <<len, rounds, host, perm, draws, block, salt>>

Shuffled == round = Rounds

\* write: the salt goes to the first positions of the permutation.
Written ==
  [i \in Positions |->
     IF \E k \in 0..(SaltLen - 1) : perm[k] = i
     THEN LET k == CHOOSE k \in 0..(SaltLen - 1) : perm[k] = i IN Masked(k, SaltByte(k))
     ELSE block[i]]

\* write_salt_block. The receiver starts its own shuffle.
WriteSalt ==
  /\ host = "sender" /\ Shuffled
  /\ block' = Written
  /\ host' = "receiver" /\ perm' = Identity /\ round' = 0 /\ at' = 0
  /\ UNCHANGED <<len, rounds, draws, salt>>

\* extract_salt.
ExtractSalt ==
  /\ host = "receiver" /\ Shuffled
  /\ salt' = [i \in 0..(SaltLen - 1) |-> Unmasked(i, block[perm[i]])]
  /\ host' = "done"
  /\ UNCHANGED <<len, rounds, perm, round, at, draws, block>>

SaltNext == (\E d \in Positions : Swap(d)) \/ NextRound \/ WriteSalt \/ ExtractSalt

SaltSpec == SaltInit /\ [][SaltNext]_saltVars
-----------------------------------------------------------------------------
\* The receiver extracts the sender's salt, each byte in its place: the
\* shuffle never gives two salt bytes one position, for any draws, and the
\* receiver's shuffle ends where the sender's did. The salt keys the session,
\* so a byte lost here fails the first record for this PSK on every attempt.
SaltSurvives == host = "done" => salt = [i \in 0..(SaltLen - 1) |-> SaltByte(i)]
=============================================================================
