-------------------------------- MODULE XxHash --------------------------------
(***************************************************************************)
(* utils/xxHash.h: the hash of a whole input and the hash of an input that comes in    *)
(* pieces (hash_state_t, hash3_state_t).  The byte at offset i of the input is i; an    *)
(* accumulator is the sequence of what was mixed into it, so that two hashes are equal  *)
(* here if they are equal whatever the rounds compute.                              *)
(***************************************************************************)
EXTENDS Integers, SequencesExt

CONSTANTS
  stripe_len,                \* bytes of a stripe (64), a power of two
  internal_buffer_stripes,   \* stripes of the buffer of hash3_state_t (4)
  nbStripesPerBlock,         \* stripes between two scrambles (16, at least 9)
  midsize_max                \* longest input that is hashed without stripes (240)

ASSUME XxHashAssumption ==
  /\ stripe_len <= midsize_max /\ midsize_max < stripe_len * internal_buffer_stripes
  /\ internal_buffer_stripes <= nbStripesPerBlock

internal_buffer_size == stripe_len * internal_buffer_stripes

\* The bytes a .. b - 1 of the input.
Input(a, b) == [i \in 1 .. b - a |-> a + i - 1]

Skip(s, n) == SubSeq(s, n + 1, Len(s))

Upto(s, n) == SubSeq(s, 1, n)

\* s in pieces of n, without what is left over.
Pieces(s, n) == [i \in 1 .. Len(s) \div n |-> SubSeq(s, (i - 1) * n + 1, i * n)]

------------------------------------------------------------------------------
(* xxhash<32> and xxhash<64>: four lanes of words of N bits *)

\* One block: each lane takes its word.
round(lanes, N, block) == [i \in 1 .. 4 |-> Append(lanes[i], Pieces(block, N \div 8)[i])]

Rounds(lanes, N, p) == FoldLeft(LAMBDA v, block : round(v, N, block), lanes, Pieces(p, N \div 2))

NoLanes == [i \in 1 .. 4 |-> << >>]

\* What is left goes in by words, for 64 bits then half a word, then by bytes.
endian_align_sub_ending(N, p) ==
  LET words == Pieces(p, N \div 8)
      rest == Skip(p, Len(words) * (N \div 8))
      half == IF N = 64 /\ Len(rest) >= 4 THEN << Upto(rest, 4) >> ELSE << >>
  IN  words \o half \o Pieces(Skip(rest, 4 * Len(half)), 1)

\* The lanes, or the seed alone, then the length and the rest.
Converge(N, lanes, len, rest) ==
  [lanes |-> IF len >= N \div 2 THEN lanes ELSE << >>, len |-> len,
   ending |-> endian_align_sub_ending(N, rest)]

endian_align(N, p) ==
  Converge(N, Rounds(NoLanes, N, p), Len(p), Skip(p, (Len(p) \div (N \div 2)) * (N \div 2)))

hash_state_t(N) == [N |-> N, lanes |-> NoLanes, mem |-> << >>, total_len |-> 0]

update_impl(st, p) ==
  LET block == st.N \div 2
      fill == IF st.mem = << >> THEN 0 ELSE block - Len(st.mem)
      lanes == IF fill = 0 THEN st.lanes ELSE round(st.lanes, st.N, st.mem \o Upto(p, fill))
      rest == Skip(p, fill)
  IN  IF Len(st.mem) + Len(p) < block THEN [st EXCEPT !.total_len = @ + Len(p), !.mem = @ \o p]
      ELSE [st EXCEPT !.total_len = @ + Len(p), !.lanes = Rounds(lanes, st.N, rest),
                      !.mem = Skip(rest, (Len(rest) \div block) * block)]

digest_impl(st) == Converge(st.N, st.lanes, st.total_len, st.mem)

------------------------------------------------------------------------------
(* xxhash3: stripes, each with the place of the secret it is mixed with, and scrambles *)

Lastacc == -1

Scramble == << >>

\* Stripes from the n-th of a block on.
accumulate(acc, input, n, nbStripes) ==
  acc \o [i \in 1 .. nbStripes |-> << Pieces(input, stripe_len)[i], n + i - 1 >>]

hash_long_internal_loop(p) ==
  LET block_len == stripe_len * nbStripesPerBlock
      blocks == FoldLeft(LAMBDA acc, b : Append(accumulate(acc, b, 0, nbStripesPerBlock), Scramble), << >>,
                         Pieces(p, block_len))
      partial == Skip(p, (Len(p) \div block_len) * block_len)
      acc2 == accumulate(blocks, partial, 0, Len(partial) \div stripe_len)
  IN  IF Len(p) % stripe_len # 0 THEN Append(acc2, << Skip(p, Len(p) - stripe_len), Lastacc >>) ELSE acc2

\* Short inputs are hashed by functions of all their bytes.
ShortHash(p) == [short |-> p, acc |-> << >>, len |-> Len(p)]

LongHash(acc, len) == [short |-> << >>, acc |-> acc, len |-> len]

xxhash3_impl(p) ==
  IF Len(p) <= midsize_max THEN ShortHash(p) ELSE LongHash(hash_long_internal_loop(p), Len(p))

\* reset: everything is zeroed.
hash3_state_t ==
  [acc |-> << >>, buffer |-> [i \in 1 .. internal_buffer_size |-> -1], bufferedSize |-> 0,
   nbStripesSoFar |-> 0, totalLen |-> 0]

\* Mutant: a block is scrambled when a stripe of the next one comes.
EndsBlock_past(nb, totalStripes) == nb < totalStripes

EndsBlock(nb, totalStripes) == nb <= totalStripes

\* Stripes that come to the end of a block have it scrambled there.
consume_stripes(st, totalStripes, input) ==
  LET nb == nbStripesPerBlock - st.nbStripesSoFar
  IN  IF EndsBlock(nb, totalStripes)
      THEN [st EXCEPT !.acc = accumulate(Append(accumulate(@, input, st.nbStripesSoFar, nb), Scramble),
                                         Skip(input, nb * stripe_len), 0, totalStripes - nb),
                      !.nbStripesSoFar = totalStripes - nb]
      ELSE [st EXCEPT !.acc = accumulate(@, input, st.nbStripesSoFar, totalStripes),
                      !.nbStripesSoFar = @ + totalStripes]

memcpy(st, at, p) ==
  [st EXCEPT !.buffer = Upto(@, at) \o p \o Skip(@, at + Len(p)), !.bufferedSize = at + Len(p)]

update3_impl(s, p) ==
  LET st == [s EXCEPT !.totalLen = @ + Len(p)]
      load == IF st.bufferedSize > 0 THEN internal_buffer_size - st.bufferedSize ELSE 0
      full == memcpy(st, st.bufferedSize, Upto(p, load))
      emptied == IF st.bufferedSize = 0 THEN st
                 ELSE [consume_stripes(full, internal_buffer_stripes, full.buffer) EXCEPT !.bufferedSize = 0]
      rest == Skip(p, load)
      direct == FoldLeft(LAMBDA t, b : consume_stripes(t, internal_buffer_stripes, b), emptied,
                         Pieces(rest, internal_buffer_size))
      left == Skip(rest, (Len(rest) \div internal_buffer_size) * internal_buffer_size)
  IN  IF st.bufferedSize + Len(p) <= internal_buffer_size THEN memcpy(st, st.bufferedSize, p)
      ELSE IF left # << >> THEN memcpy(direct, 0, left) ELSE direct

\* A last stripe that begins before the buffered bytes begins at the end of the buffer.
digest_long(st) ==
  LET n == st.bufferedSize
      whole == consume_stripes(st, n \div stripe_len, st.buffer).acc
      last == IF n >= stripe_len THEN SubSeq(st.buffer, n - stripe_len + 1, n)
              ELSE Skip(st.buffer, internal_buffer_size - (stripe_len - n)) \o Upto(st.buffer, n)
      acc == IF n >= stripe_len THEN whole ELSE st.acc
  IN  IF n % stripe_len # 0 THEN Append(acc, << last, Lastacc >>) ELSE acc

digest(st) ==
  IF st.totalLen > midsize_max THEN LongHash(digest_long(st), st.totalLen)
  ELSE xxhash3_impl(Upto(st.buffer, st.totalLen))

==============================================================================
