------------------------------- MODULE XorFilter -------------------------------
(***************************************************************************)
(* utils/xorfilter.h: construction of the xor filters of 8 and of 16 bits, with and   *)
(* without buffers.  A 64-bit hash is the set of the keys whose hashes were xored,     *)
(* a fingerprint a set of pairs of such a key and a bit, so that what holds here holds  *)
(* whatever the hash function returns.  Memory is always granted.                     *)
(***************************************************************************)
EXTENDS Integers, FiniteSetsExt, SequencesExt

CONSTANTS
  blockLength,           \* a third of the fingerprints
  slotsize,              \* entries of a slot of a buffer, and counters it is for (2^18)
  XOR_MAX_ITERATIONS     \* seeds that are tried (100)

Blocks == 0 .. 2

Slots == 0 .. (blockLength + slotsize - 1) \div slotsize - 1

Entry(index, hash) == [index |-> index, hash |-> hash]

\* Bits of the fingerprint of a key, of which one is left in a uint8_t, two in a uint16_t.
xor_fingerprint(hash) == hash \X {0, 8, 16}

Narrow(bits, val) == {b \in val : b[2] < bits}

NoBuffer == [w \in Blocks |-> [s \in Slots |-> << >>]]

\* xor8_allocate, xor16_allocate: the fingerprints are what malloc leaves.
Allocate(bits) ==
  [bits |-> bits, phase |-> "idle", ok |-> FALSE, buffered |-> FALSE, keys |-> << >>, pos |-> << >>,
   seed |-> 0, sets |-> << >>, buf |-> NoBuffer, Q |-> [w \in Blocks |-> << >>], stack |-> << >>,
   drain |-> 0, fingerprints |-> [i \in 0 .. 3 * blockLength - 1 |-> {-i} \X {0}]]

\* xor8_get_h0, xor8_get_h1, xor8_get_h2.  What several keys hash to together is anything.
get_h(f, hash, w) == IF Cardinality(hash) = 1 THEN f.pos[CHOOSE k \in hash : TRUE][w + 1] ELSE 0

------------------------------------------------------------------------------
(* The counters, and the buffers in front of them *)

Increment(f, w, entries) ==
  [f EXCEPT !.sets[w] =
     FoldLeft(LAMBDA s, e : [s EXCEPT ![e.index] = [xormask |-> SymDiff(@.xormask, e.hash), count |-> @.count + 1]],
              @, entries)]

\* A counter that comes down to one joins the queue with the hash that is left in it.
Decrement(f, w, entries) ==
  FoldLeft(LAMBDA g, e :
             LET mask == SymDiff(g.sets[w][e.index].xormask, e.hash)
                 left == g.sets[w][e.index].count - 1
             IN  [g EXCEPT !.sets[w][e.index] = [xormask |-> mask, count |-> left],
                           !.Q[w] = IF left = 1 THEN Append(@, Entry(e.index, mask)) ELSE @],
           f, entries)

xor_buffered_increment_counter(f, w, e) ==
  LET slot == e.index \div slotsize
      b == Append(f.buf[w][slot], e)
  IN  IF Len(b) = slotsize THEN [Increment(f, w, b) EXCEPT !.buf[w][slot] = << >>]
      ELSE [f EXCEPT !.buf[w][slot] = b]

xor_flush_increment_buffer(f, w) ==
  [FoldLeft(LAMBDA g, s : Increment(g, w, g.buf[w][s]), f, SetToSortSeq(Slots, <))
     EXCEPT !.buf[w] = [s \in Slots |-> << >>]]

FlushSlot(f, w, slot) == [Decrement(f, w, f.buf[w][slot]) EXCEPT !.buf[w][slot] = << >>]

\* Mutant: what is waiting for the counter stays in the buffer.
xor_make_buffer_current_none(f, w, index) == f

xor_make_buffer_current(f, w, index) == FlushSlot(f, w, index \div slotsize)

xor_buffered_decrement_counter(f, w, e) ==
  LET slot == e.index \div slotsize
      g == [f EXCEPT !.buf[w][slot] = Append(@, e)]
  IN  IF Len(g.buf[w][slot]) = slotsize THEN FlushSlot(g, w, slot) ELSE g

xor_flush_decrement_buffer(f, w) == FoldLeft(LAMBDA g, s : FlushSlot(g, w, s), f, SetToSortSeq(Slots, <))

\* The fullest slot, the first among equals.
xor_flushone_decrement_buffer(f, w) ==
  LET n(s) == Len(f.buf[w][s])
  IN  FlushSlot(f, w, CHOOSE s \in Slots : \A t \in Slots : n(s) > n(t) \/ (n(s) = n(t) /\ s <= t))

------------------------------------------------------------------------------
(* Construction *)

\* The scan for counters of one, in each of the three parts.
Scan(f) ==
  [f EXCEPT !.Q = [w \in Blocks |->
     LET ones == SetToSortSeq({i \in DOMAIN f.sets[w] : f.sets[w][i].count = 1}, <)
     IN  [n \in DOMAIN ones |-> Entry(ones[n], f.sets[w][ones[n]].xormask)]]]

\* Every key is counted at its three places.
Count(f) ==
  LET zero == [f EXCEPT !.sets = [w \in Blocks |-> [i \in 0 .. blockLength - 1 |-> [xormask |-> {}, count |-> 0]]],
                        !.stack = << >>, !.drain = 0]
      At(k, w) == Entry(get_h(f, {k}, w), {k})
      Three(g, k, Add(_, _, _)) == FoldLeft(LAMBDA h, w : Add(h, w, At(k, w)), g, << 0, 1, 2 >>)
  IN  IF f.buffered
      THEN FoldLeft(xor_flush_increment_buffer,
                    FoldLeft(LAMBDA g, k : Three(g, k, xor_buffered_increment_counter), zero, f.keys), << 0, 1, 2 >>)
      ELSE FoldLeft(LAMBDA g, k : Three(g, k, LAMBDA h, w, e : Increment(h, w, << e >>)), zero, f.keys)

Drained(f) == \A w \in Blocks : f.Q[w] = << >>

\* The peeling has come to an end: done with the keys, or another seed.
LeaveRound(f) ==
  IF ~Drained(f) THEN [f EXCEPT !.phase = "peel", !.drain = 0]
  ELSE IF Len(f.stack) = Len(f.keys) THEN [f EXCEPT !.phase = "assign"]
  ELSE [f EXCEPT !.phase = "round", !.seed = @ + 1]

Free(f) == [f EXCEPT !.phase = "done", !.sets = << >>, !.stack = << >>, !.buf = NoBuffer]

\* A pass of while (true), to the first test of the queues.
StartRound(f, pos) ==
  IF f.seed > XOR_MAX_ITERATIONS THEN [Free(f) EXCEPT !.ok = FALSE]
  ELSE LeaveRound(Scan(Count([f EXCEPT !.pos = pos])))

\* A pass of while (Q0size > 0), or of Q1size or Q2size: the last key of the queue goes
\* on the stack and is taken off its two other counters.
DrainOne(f) ==
  LET w == f.drain
      ki == Last(f.Q[w])
      popped == [f EXCEPT !.Q[w] = Front(@)]
      g == IF f.buffered THEN xor_make_buffer_current(popped, w, ki.index) ELSE popped
      Off(h, v) == LET e == Entry(get_h(f, ki.hash, v), ki.hash)
                   IN  IF f.buffered THEN xor_buffered_decrement_counter(h, v, e) ELSE Decrement(h, v, << e >>)
  IN  IF g.sets[w][ki.index].count = 0 THEN g
      ELSE FoldLeft(Off, [g EXCEPT !.stack = Append(@, Entry(ki.index + w * blockLength, ki.hash))],
                    SetToSortSeq(Blocks \ {w}, <))

\* Behind that loop: the buffer of the next queue, and at the end of a pass all of them.
NextQueue(f) ==
  LET next == (f.drain + 1) % 3
      g == IF f.buffered /\ f.Q[next] = << >> THEN xor_flushone_decrement_buffer(f, next) ELSE f
      h == IF f.buffered /\ next = 0 /\ Drained(g) /\ Len(g.stack) < Len(g.keys)
           THEN FoldLeft(xor_flush_decrement_buffer, g, << 0, 1, 2 >>) ELSE g
  IN  IF next = 0 THEN LeaveRound(h) ELSE [h EXCEPT !.drain = next]

\* The keys in the opposite order: a fingerprint makes up for the two others of its key.
Assign(f) ==
  LET Value(fp, ki) ==
        FoldLeft(LAMBDA val, w : SymDiff(val, fp[get_h(f, ki.hash, w) + w * blockLength]), xor_fingerprint(ki.hash),
                 SetToSortSeq(Blocks \ {ki.index \div blockLength}, <))
  IN  [Free(f) EXCEPT !.ok = TRUE,
                      !.fingerprints = FoldLeft(LAMBDA fp, ki : [fp EXCEPT ![ki.index] = Narrow(f.bits, Value(fp, ki))],
                                                @, Reverse(f.stack))]

Start(f, keys, buffered) ==
  [f EXCEPT !.keys = keys, !.buffered = buffered, !.seed = 1, !.buf = NoBuffer, !.phase = "round"]

\* The next step of one of the four functions that populate a filter.
Populate(f, pos) ==
  CASE f.phase = "round" -> StartRound(f, pos)
    [] f.phase = "peel" -> IF f.Q[f.drain] # << >> THEN DrainOne(f) ELSE NextQueue(f)
    [] f.phase = "assign" -> Assign(f)

Contain(f, key, bits) ==
  Narrow(bits, xor_fingerprint({key})) =
    FoldLeft(LAMBDA val, w : SymDiff(val, f.fingerprints[get_h(f, {key}, w) + w * blockLength]), {}, << 0, 1, 2 >>)

xor8_contain(f, key) == Contain(f, key, 8)

xor16_contain(f, key) == Contain(f, key, 16)

==============================================================================
