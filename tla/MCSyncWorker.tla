---------------------------- MODULE MCSyncWorker ----------------------------
(***************************************************************************)
(* Ranges with and without stored blocks, with a quota, empty, and up to   *)
(* the greatest height, where every counter and the bytes wrap around.     *)
(***************************************************************************)
EXTENDS SyncWorker

MCRequest(from, to, maxBytes) ==
    [From |-> from, To |-> to, MaxBytes |-> maxBytes]

MCSyncRequests ==
    { MCRequest(1, 2, 0),       \* may overlap the stored blocks
      MCRequest(0, 2, 1),       \* meets its quota, not a multiple of a block
      MCRequest(0, 2, 2),       \* meets its quota, a multiple of a block
      MCRequest(2, 1, 0),       \* empty
      MCRequest(2, 3, 0),       \* up to the greatest height: never ends
      MCRequest(2, 3, 5),       \* nor by itself: the greatest quota that ends it
      MCRequest(2, 3, 6) }      \* the least quota that does not
=============================================================================
