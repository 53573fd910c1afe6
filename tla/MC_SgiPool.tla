----------------------------- MODULE MC_SgiPool -----------------------------
(***************************************************************************)
(* The pool allocator with a small class table that keeps the relations   *)
(* the code tests: classes 1..8 stand for 8 bytes .. 4096*32, the first    *)
(* only receiving chunk leftovers as the 8-byte class does; 4 stands for   *)
(* SMALL_OBJ_SIZE and for the 4096 of _S_chunk_alloc, 8 for _MAX_BYTES.    *)
(* A header of 1, a chunk of 12 and 3 objects per refill make chunks run   *)
(* out, partial refills, leftovers, the half-chunk retry and scavenging    *)
(* all happen below a HeapLimit of 27.                                     *)
(***************************************************************************)
EXTENDS SgiPool

MCObjSize == <<1, 2, 3, 4, 6, 8>>

(* Request sizes that stay clear of the top class (header-included 7, 8). *)
MCAllocSizes == {0, 3, 4, 9}
MCReallocSizes == {1, 9}

(* Requests that make a top-class buffer and then grow it past _MAX_BYTES. *)
MCGrowAllocSizes == {0, 2, 7}
MCGrowReallocSizes == {1, 9}
====
