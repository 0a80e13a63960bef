---------------------------- MODULE MCMkringBoot -----------------------------
(***************************************************************************)
(* TLC instance of MkringBoot: a host and two guests, one descriptor of 64  *)
(* bytes for each queue.                                                   *)
(***************************************************************************)
EXTENDS MkringBoot

GoodLine(k) ==
  [kernels |-> {3}, desc_num |-> {1}, msg_size |-> {64}, force_init |-> {},
   shm_size |-> {65536}, kernel_id |-> {k}, ipi_dests |-> {3}]

\* Good lines, and lines with one parameter missing, too large for the area or
\* for a u32, different from the host's, or set on the wrong kernel.
MCLines ==
  [k \in Kernel |->
     CASE k = 0 -> {GoodLine(0), [GoodLine(0) EXCEPT !.force_init = {TRUE}]}
       [] k = 1 -> {[GoodLine(1) EXCEPT !.force_init = {TRUE}],
                    [GoodLine(1) EXCEPT !.desc_num = {2}]}
       [] k = 2 -> {[GoodLine(2) EXCEPT !.ipi_dests = {1}],
                    [GoodLine(2) EXCEPT !.kernel_id = {}],
                    [GoodLine(2) EXCEPT !.shm_size = {4096}],
                    [GoodLine(2) EXCEPT !.msg_size = {1048576}]}]

StaleHeader == [kernels |-> 3, desc_num |-> 1, msg_size |-> 64,
                queue_size |-> 4096]

\* Cleared memory, an area of an earlier boot, an initialisation cut short,
\* an older layout, and memory that was never an area.
MCStale ==
  {[init_state |-> "UNINIT", header |-> NoHeader, ready_bitmap |-> {}, idx |-> 0],
   [init_state |-> "READY", header |-> StaleHeader, ready_bitmap |-> {0, 2}, idx |-> 2],
   [init_state |-> "INITING", header |-> NoHeader, ready_bitmap |-> {}, idx |-> 0],
   [init_state |-> "READY", header |-> [StaleHeader EXCEPT !.desc_num = 2],
    ready_bitmap |-> {1}, idx |-> 1],
   [init_state |-> "other", header |-> NoHeader, ready_bitmap |-> {1}, idx |-> 1]}
==============================================================================
