-------------------------------- MODULE Cib --------------------------------
(***************************************************************************)
(* The circular integer buffer (core/lib/include/cib.h): two unsigned      *)
(* counters that are never reset and wrap around, and a mask.  Its user    *)
(* keeps an array beside it and stores its entries at the indices the      *)
(* buffer hands out.  c is a cib_t; an operation that changes it is an     *)
(* operator on c, and the index it returns is one of its own.              *)
(***************************************************************************)
EXTENDS Integers

CONSTANT Width      \* bits of an unsigned int

ASSUME CibAssumption == Width \in Nat \ {0}

\* What a proof has to know of the powers of 2.
ASSUME PowersOfTwo ==
    \A k \in 0 .. Width - 1 : 2 ^ k \in Nat \ {0} /\ 2 ^ (k + 1) = 2 * 2 ^ k

UINT == 2 ^ Width

cib_t == [read_count : 0 .. UINT - 1, write_count : 0 .. UINT - 1,
          mask : 0 .. UINT - 1]

\* cib_init(), for a size that is 0 or a power of 2.
cib_init(size) == [read_count |-> 0, write_count |-> 0, mask |-> (size - 1) % UINT]

\* The conversion of an unsigned int to int.
int(x) == IF x < 2 ^ (Width - 1) THEN x ELSE x - UINT

\* Mutant of masked: one entry of the array is never used.
masked_short(c, x) == x % c.mask

\* x & mask, for a mask of the form 2^k - 1.
masked(c, x) == x % (c.mask + 1)

cib_avail(c) == (c.write_count - c.read_count) % UINT

cib_full(c) == int(cib_avail(c)) > int(c.mask)

PutIndex(c) == masked(c, c.write_count)
cib_put_unsafe(c) == [c EXCEPT !.write_count = (@ + 1) % UINT]

GetIndex(c) == masked(c, c.read_count)
cib_get_unsafe(c) == [c EXCEPT !.read_count = (@ + 1) % UINT]

cib_peek_at_unsafe(c, offset) == masked(c, (c.read_count + offset) % UINT)

\* The entries of array that are in the buffer, oldest first.
Content(c, array) ==
    [i \in 1 .. cib_avail(c) |-> array[cib_peek_at_unsafe(c, i - 1)]]
=============================================================================
