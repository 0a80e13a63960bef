---------------------------- MODULE MkringLayout -----------------------------
(***************************************************************************)
(* Where mkring puts its queues in shared memory (mkring/mkring.c):        *)
(* mkring_calc_layout, mkring_qindex and the size computation of           *)
(* mkring_prepare_shared.  Offsets are u32, so sums and products are taken *)
(* modulo Word where the code does not test for overflow.                  *)
(***************************************************************************)
EXTENDS Integers

CONSTANT Word  \* number of values of a u32 (2^32 in the code)

ASSUME WordAssumption == Word \in Nat /\ Word >= 1048576 /\ Word % 4096 = 0

PAGE_SIZE    == 4096
MKRING_ALIGN == 64
hdr_len      == 64      \* ALIGN(sizeof(struct mkring_shm_hdr), MKRING_ALIGN)

ALIGN(x, a) == ((x + (a - 1)) \div a) * a

\* The areas of one queue: descriptors of 16 bytes; the avail ring, a header
\* of 4 bytes, 2 for each entry and 2 for the event; the used ring with 8 for
\* each entry; the payloads.
desc_bytes(n)  == 16 * n
avail_bytes(n) == 2 * n + 6
used_bytes(n)  == 8 * n + 6

avail_off(n) == ALIGN(desc_bytes(n), 2)
used_off(n)  == ALIGN(avail_off(n) + avail_bytes(n), 4)
data_off(n)  == ALIGN(used_off(n) + used_bytes(n), MKRING_ALIGN)

\* The end of the payloads, before queue_size rounds it up.
data_end(n, p) == data_off(n) + n * p

\* mkring_calc_layout succeeds: the products and the last sum fit a u32.
LayoutOk(n, p) == n > 0 /\ p > 0 /\ n * p < Word /\ data_end(n, p) < Word

queue_size(n, p) == ALIGN(data_end(n, p), PAGE_SIZE) % Word

MutQindex(k, src, dst) == src + dst  \* forgets the row

\* The queue src -> dst among k kernels, and its offset in shared memory.
qindex(k, src, dst) == src * k + dst
queue_off(k, n, p, src, dst) == hdr_len + qindex(k, src, dst) * queue_size(n, p)

\* The bytes all queues need.
required(k, n, p) == hdr_len + (k * k) * queue_size(n, p)
==============================================================================
