------------------------------- MODULE SgiPool -------------------------------
(***************************************************************************)
(* The SGI-style pool allocator (src/src/pro/pro_shared/sgi_pool/         *)
(* stl_alloc.h, __default_alloc_template) and the buffer functions of      *)
(* pro_shared.cpp built on it (ProAllocateSgiPoolBuffer,                   *)
(* ProReallocateSgiPoolBuffer, ProDeallocateSgiPoolBuffer).                *)
(*                                                                         *)
(* Each pool index has two allocator instances: "a" for blocks of at most  *)
(* SMALL_OBJ_SIZE bytes (header included) and "b" for larger ones, each    *)
(* behind its own mutex, so every call below is one atomic step.  One pool *)
(* index is modelled; the ten are copies.  An instance keeps a free list   *)
(* per size class (_S_obj_size), the unused rest of its current chunk      *)
(* [_S_start_free, _S_end_free) and _S_heap_size.  Memory is a line of     *)
(* addresses; malloc hands out fresh addresses up to HeapLimit (and fails  *)
(* past it), free forgets a malloc'd block, and address 0 is NULL.  A      *)
(* buffer starts with a header holding its size (two PRO_UINT32).          *)
(***************************************************************************)
EXTENDS Integers, Sequences, FiniteSetsExt

CONSTANTS
  ObjSize,       \* _S_obj_size, ascending; its last entry is _MAX_BYTES
  PageBytes,     \* the 4096 of _S_chunk_alloc
  NObjs,         \* objects _S_refill asks for (20)
  ChunkSize,     \* _CHUNK_SIZE
  SmallObjSize,  \* SMALL_OBJ_SIZE: "a" or "b"
  Header,        \* sizeof(PRO_UINT32) + sizeof(PRO_UINT32)
  HeapLimit,     \* bound: addresses malloc can hand out
  Handles,       \* buffers the application holds (1..n)
  AllocSizes,    \* sizes it asks ProAllocateSgiPoolBuffer for
  ReallocSizes   \* sizes it asks ProReallocateSgiPoolBuffer for

N == Len(ObjSize)
MaxBytes == ObjSize[N]
Insts == {"a", "b"}

VARIABLES
  mem,   \* [fl, st, en, heap] per instance, and malloc's [brk, mall]
  live   \* the buffer each handle holds: its block, header value and capacity

vars == <<mem, live>>

NoBuf == [p |-> 0, n |-> 0, cap |-> 0]

-----------------------------------------------------------------------------
(* Mutant: the upper bound moves one class too far down. *)
RECURSIVE SearchShrink(_, _, _)
SearchShrink(b, l, r) ==
  IF l >= r THEN l
  ELSE LET m == (l + r) \div 2
       IN IF b = ObjSize[m] THEN m
          ELSE IF b > ObjSize[m] THEN SearchShrink(b, m + 1, r) ELSE SearchShrink(b, l, m - 1)

(* _S_freelist_index: a binary search for the first class that fits;      *)
(* classes are numbered from 1.                                            *)
RECURSIVE Search(_, _, _)
Search(b, l, r) ==
  IF l >= r THEN l
  ELSE LET m == (l + r) \div 2
       IN IF b = ObjSize[m] THEN m
          ELSE IF b > ObjSize[m] THEN Search(b, m + 1, r) ELSE Search(b, l, m)

FreelistIndex(b) ==
  IF b <= ObjSize[1] THEN 1 ELSE IF b >= ObjSize[N] THEN N ELSE Search(b, 1, N)

RoundUp(b) == ObjSize[FreelistIndex(b)]

(* malloc of addresses 1..HeapLimit and free; a failed malloc returns 0. *)
Malloc(w, n) ==
  IF w.brk + n <= HeapLimit + 1
  THEN [w |-> [w EXCEPT !.brk = @ + n, !.mall = @ \cup {[a |-> w.brk, n |-> n]}],
        p |-> w.brk]
  ELSE [w |-> w, p |-> 0]

Free(w, p) == [w EXCEPT !.mall = {m \in @ : m.a # p}]

Push(w, i, k, p) == [w EXCEPT !.fl[i][k] = <<p>> \o @]

(* The leftover loop of _S_chunk_alloc: from the class of the bytes left   *)
(* down to the smallest, each class takes as many objects as fit.          *)
RECURSIVE Distribute(_, _, _)
Distribute(w, i, k) ==
  LET left == w.en[i] - w.st[i] IN
  IF k = 0 \/ left = 0 THEN w
  ELSE IF left >= ObjSize[k]
       THEN Distribute([Push(w, i, k, w.st[i]) EXCEPT !.st[i] = @ + ObjSize[k]], i, k)
       ELSE Distribute(w, i, k - 1)

(* The last resort of _S_chunk_alloc: the first non-empty free list of a   *)
(* class at least as large becomes the chunk.                              *)
RECURSIVE Scavenge(_, _, _)
Scavenge(w, i, j) ==
  IF j > N THEN [w |-> w, found |-> FALSE]
  ELSE IF w.fl[i][j] # <<>>
  THEN [w |-> [w EXCEPT !.fl[i][j] = Tail(@), !.st[i] = Head(w.fl[i][j]),
                        !.en[i] = Head(w.fl[i][j]) + ObjSize[j]],
        found |-> TRUE]
  ELSE Scavenge(w, i, j + 1)

(* Mutant: the chunk's end is set from _CHUNK_SIZE even after the        *)
(* half-chunk retry.                                                       *)
RECURSIVE ChunkAllocFullEnd(_, _, _, _)
ChunkAllocFullEnd(w, i, size, nobjs) ==
  LET k == IF size >= PageBytes THEN 1
           ELSE IF size * nobjs >= PageBytes THEN PageBytes \div size ELSE nobjs
      left == w.en[i] - w.st[i]
  IN IF left >= size * k
     THEN [w |-> [w EXCEPT !.st[i] = @ + size * k], p |-> w.st[i], nobjs |-> k]
     ELSE IF left >= size
     THEN [w |-> [w EXCEPT !.st[i] = @ + size * (left \div size)],
           p |-> w.st[i], nobjs |-> left \div size]
     ELSE LET w1 == Distribute(w, i, IF left = 0 THEN 0 ELSE FreelistIndex(left))
              m1 == Malloc(w1, ChunkSize)
              m2 == IF m1.p # 0 THEN m1 ELSE Malloc(w1, ChunkSize \div 2)
              got == IF m1.p # 0 THEN ChunkSize ELSE ChunkSize \div 2
          IN IF m2.p # 0
             THEN ChunkAllocFullEnd([m2.w EXCEPT !.st[i] = m2.p, !.en[i] = m2.p + ChunkSize,
                                          !.heap[i] = @ + got], i, size, k)
             ELSE LET s == Scavenge([w1 EXCEPT !.st[i] = 0, !.en[i] = 0], i,
                                    FreelistIndex(size))
                  IN IF s.found THEN ChunkAllocFullEnd(s.w, i, size, k)
                     ELSE [w |-> s.w, p |-> 0, nobjs |-> k]

(* _S_chunk_alloc: nobjs objects of size bytes from the chunk, fewer if    *)
(* only fewer fit, or a new chunk (half a chunk if that fails), or a       *)
(* scavenged block; the result is the address (0: none) and the count.     *)
RECURSIVE ChunkAlloc(_, _, _, _)
ChunkAlloc(w, i, size, nobjs) ==
  LET k == IF size >= PageBytes THEN 1
           ELSE IF size * nobjs >= PageBytes THEN PageBytes \div size ELSE nobjs
      left == w.en[i] - w.st[i]
  IN IF left >= size * k
     THEN [w |-> [w EXCEPT !.st[i] = @ + size * k], p |-> w.st[i], nobjs |-> k]
     ELSE IF left >= size
     THEN [w |-> [w EXCEPT !.st[i] = @ + size * (left \div size)],
           p |-> w.st[i], nobjs |-> left \div size]
     ELSE LET w1 == Distribute(w, i, IF left = 0 THEN 0 ELSE FreelistIndex(left))
              m1 == Malloc(w1, ChunkSize)
              m2 == IF m1.p # 0 THEN m1 ELSE Malloc(w1, ChunkSize \div 2)
              got == IF m1.p # 0 THEN ChunkSize ELSE ChunkSize \div 2
          IN IF m2.p # 0
             THEN ChunkAlloc([m2.w EXCEPT !.st[i] = m2.p, !.en[i] = m2.p + got,
                                          !.heap[i] = @ + got], i, size, k)
             ELSE LET s == Scavenge([w1 EXCEPT !.st[i] = 0, !.en[i] = 0], i,
                                    FreelistIndex(size))
                  IN IF s.found THEN ChunkAlloc(s.w, i, size, k)
                     ELSE [w |-> s.w, p |-> 0, nobjs |-> k]

(* Mutant: the free list starts at the object handed out. *)
RefillOverlap(w, i, n) ==
  LET c == ChunkAlloc(w, i, n, NObjs) IN
  IF c.p = 0 \/ c.nobjs = 1 THEN [w |-> c.w, p |-> c.p]
  ELSE [w |-> [c.w EXCEPT !.fl[i][FreelistIndex(n)] =
                            [j \in 1..(c.nobjs - 1) |-> c.p + (j - 1) * n]],
        p |-> c.p]

(* _S_refill: the first object is returned, the rest become the class's   *)
(* free list, in address order.                                            *)
Refill(w, i, n) ==
  LET c == ChunkAlloc(w, i, n, NObjs) IN
  IF c.p = 0 \/ c.nobjs = 1 THEN [w |-> c.w, p |-> c.p]
  ELSE [w |-> [c.w EXCEPT !.fl[i][FreelistIndex(n)] =
                            [j \in 1..(c.nobjs - 1) |-> c.p + j * n]],
        p |-> c.p]

(* allocate: malloc above _MAX_BYTES, else the class's free list, else a  *)
(* refill.                                                                 *)
Allocate(w, i, n) ==
  IF n > MaxBytes THEN Malloc(w, n)
  ELSE LET k == FreelistIndex(n) IN
       IF w.fl[i][k] # <<>>
       THEN [w |-> [w EXCEPT !.fl[i][k] = Tail(@)], p |-> Head(w.fl[i][k])]
       ELSE Refill(w, i, RoundUp(n))

(* Mutant: large blocks are never freed. *)
DeallocateNoFree(w, i, p, n) ==
  IF n > MaxBytes THEN w ELSE Push(w, i, FreelistIndex(n), p)

(* deallocate: free above _MAX_BYTES, else onto the class's free list. *)
Deallocate(w, i, p, n) ==
  IF n > MaxBytes THEN Free(w, p) ELSE Push(w, i, FreelistIndex(n), p)

(* reallocate: realloc when both sizes are above _MAX_BYTES; the same      *)
(* block when both round up to one class; else allocate, copy, deallocate. *)
Reallocate(w, i, p, old, new) ==
  IF old > MaxBytes /\ new > MaxBytes
  THEN LET m == Malloc(w, new)
       IN IF m.p = 0 THEN m ELSE [w |-> Free(m.w, p), p |-> m.p]
  ELSE IF RoundUp(old) = RoundUp(new) THEN [w |-> w, p |-> p]
  ELSE LET r == Allocate(w, i, new)
       IN IF r.p = 0 THEN r ELSE [w |-> Deallocate(r.w, i, p, old), p |-> r.p]

-----------------------------------------------------------------------------
(* pro_shared.cpp: the header holds the size; a request of 0 bytes is one *)
(* byte; SMALL_OBJ_SIZE picks the instance.                                *)
ReqSize(size) == Header + (IF size = 0 THEN 1 ELSE size)

Inst(n) == IF n <= SmallObjSize THEN "a" ELSE "b"

(* Bytes a block of header value n really has when it was handed out for n *)
CapOf(n) == IF n > MaxBytes THEN n ELSE RoundUp(n)

Init ==
  /\ mem = [fl   |-> [i \in Insts |-> [k \in 1..N |-> <<>>]],
            st   |-> [i \in Insts |-> 0],
            en   |-> [i \in Insts |-> 0],
            heap |-> [i \in Insts |-> 0],
            brk  |-> 1,
            mall |-> {}]
  /\ live = [h \in Handles |-> NoBuf]

(* ProAllocateSgiPoolBuffer into a handle that holds nothing. *)
ProAllocateSgiPoolBuffer(h, size) ==
  LET n == ReqSize(size)
      r == Allocate(mem, Inst(n), n)
  IN /\ live[h].p = 0
     /\ mem' = r.w
     /\ live' = [live EXCEPT ![h] =
                   IF r.p = 0 THEN NoBuf ELSE [p |-> r.p, n |-> n, cap |-> CapOf(n)]]

(* ProDeallocateSgiPoolBuffer: the header picks instance and size. *)
ProDeallocateSgiPoolBuffer(h) ==
  /\ live[h].p # 0
  /\ mem' = Deallocate(mem, Inst(live[h].n), live[h].p, live[h].n)
  /\ live' = [live EXCEPT ![h] = NoBuf]

(* ProReallocateSgiPoolBuffer of a held buffer to size > 0 (NULL and 0 are *)
(* the two calls above): the old header picks the instance; on failure the *)
(* old buffer stays; on success the new block gets the new header.         *)
ProReallocateSgiPoolBuffer(h, size) ==
  LET b == live[h]
      new == Header + size
      r == Reallocate(mem, Inst(b.n), b.p, b.n, new)
  IN /\ b.p # 0
     /\ size > 0
     /\ mem' = r.w
     /\ live' = [live EXCEPT ![h] =
                   IF r.p = 0 THEN b
                   ELSE [p |-> r.p, n |-> new,
                         cap |-> IF r.p = b.p THEN b.cap ELSE CapOf(new)]]

Next ==
  \E h \in Handles :
     \/ \E size \in AllocSizes : ProAllocateSgiPoolBuffer(h, size)
     \/ \E size \in ReallocSizes : ProReallocateSgiPoolBuffer(h, size)
     \/ ProDeallocateSgiPoolBuffer(h)

Spec == Init /\ [][Next]_vars

-----------------------------------------------------------------------------
(* Every stretch of memory the pool or the application owns: the free     *)
(* lists' objects, the rest of each chunk, and the live buffers.  Each is  *)
(* tagged by where it sits so that one block listed twice counts twice.    *)
Regions ==
  UNION {{[a |-> mem.fl[i][k][j], n |-> ObjSize[k], o |-> <<i, k, j>>] :
           j \in 1..Len(mem.fl[i][k])} : i \in Insts, k \in 1..N}
  \cup {[a |-> mem.st[i], n |-> mem.en[i] - mem.st[i], o |-> <<i, 0, 0>>] :
         i \in {x \in Insts : mem.en[x] > mem.st[x]}}
  \cup {[a |-> live[h].p, n |-> live[h].cap, o |-> <<"h", h, 0>>] :
         h \in {x \in Handles : live[x].p # 0}}

(* Types, with every address the pool holds (chunk rests, free-list        *)
(* objects, live buffers) below malloc's break: _S_chunk_alloc's chunk     *)
(* ends where the block malloc returned ends, after the half-chunk retry   *)
(* as after a full chunk.                                                  *)
TypeOK ==
  /\ mem.brk \in 1..HeapLimit + 1
  /\ \A i \in Insts : /\ mem.st[i] <= mem.en[i] /\ mem.en[i] <= mem.brk
                      /\ \A k \in 1..N : mem.fl[i][k] \in Seq(1..mem.brk - 1)
  /\ \A h \in Handles : live[h] = NoBuf \/ live[h].p \in 1..mem.brk - 1

(* No two blocks the allocator hands out, keeps on a free list or keeps as *)
(* the rest of a chunk overlap, and each lies inside memory malloc gave    *)
(* it: _S_refill, _S_chunk_alloc and deallocate never give a byte twice.   *)
BlocksDisjoint ==
  /\ \A r, s \in Regions :
       r # s => r.a + r.n <= s.a \/ s.a + s.n <= r.a
  /\ \A r \in Regions : \E m \in mem.mall : m.a <= r.a /\ r.a + r.n <= m.a + m.n

(* Nothing is lost: every byte malloc gave the pool or the application is *)
(* in a free list, a chunk or a live buffer (the leftover loop of          *)
(* _S_chunk_alloc, free of large blocks).                                  *)
NoLeak ==
  MapThenSumSet(LAMBDA r : r.n, Regions) = MapThenSumSet(LAMBDA m : m.n, mem.mall)

(* Every live buffer has at least as many bytes as its header says: the   *)
(* block reallocate returns can hold the new size.                        *)
CapacityOK == \A h \in Handles : live[h].n <= live[h].cap
====
