-------------------------- MODULE CuMemoryAllocator -------------------------
(***************************************************************************)
(* CuMemoryAllocator: GPU memory is not given back to CUDA when it is      *)
(* freed, but kept in one MruCache per power of two of its size.  The      *)
(* device is external: cudaMalloc() and cudaMallocPitch() return an        *)
(* address that is not in use, or fail.  They fail when the bytes are not  *)
(* there, and may fail when they are: rows are padded to a pitch, memory   *)
(* is fragmented, and other processes have some of it.                     *)
(*                                                                         *)
(* A node of list_ and the entry of map_ that holds an iterator to it are  *)
(* both identified by the time t of the entry, which is unique.  The maps  *)
(* of all caches are one function, since a request determines its cache.   *)
(* Factors are in percent.  The pitch, which follows the pointer, timing   *)
(* and printing are left out.                                              *)
(*                                                                         *)
(* pc: "idle" between two calls, "freeing" in FreeSomeCachedMemory(),      *)
(* "allocate" at a call of cudaMalloc() or cudaMallocPitch().              *)
(***************************************************************************)
EXTENDS Integers, Sequences, FiniteSets, SequencesExt, FiniteSetsExt, Functions

CONSTANTS RowBytes,      \* the row_bytes that are asked for, and
          NumRows,       \* the num_rows
          MemoryFactor,  \* opts_.memory_factor at first
          DeleteFactor,  \* opts_.delete_factor
          DeviceBytes,   \* the memory of the GPU
          MaxTime        \* bounds the number of calls

ASSUME AllocatorAssumption ==
    /\ RowBytes \subseteq Nat \ {0} /\ NumRows \subseteq Nat \ {0}
    /\ IsFiniteSet(RowBytes) /\ IsFiniteSet(NumRows)    \* machine integers
    /\ MemoryFactor \in Nat /\ DeleteFactor \in Nat \ {0}
    /\ DeleteFactor < MemoryFactor - 100      \* CuAllocatorOptions::Check()
    /\ DeviceBytes \in Nat /\ MaxTime \in Nat

VARIABLES
    list,      \* [Caches -> list_: the nodes, least recently used first]
    map,       \* [Requests -> the queue of map_, oldest first]
    used_map,  \* used_map_
    memory_factor, cur_bytes_allocated, cur_bytes_used, max_bytes_used, t,
    pc,
    call,      \* MallocPitch(): its request, how often cudaMalloc* failed, and
               \* as a history variable memory_cached of the first failure
    loop,      \* FreeSomeCachedMemory(): bytes_to_free, bytes_freed, cache_index
    device     \* what CUDA has allocated: the bytes of each pointer

cached == <<list, map>>
books == <<cur_bytes_allocated, cur_bytes_used, max_bytes_used>>
vars == <<cached, used_map, memory_factor, books, t, pc, call, loop, device>>

\* MemoryRequest
Requests == RowBytes \X NumRows
Bytes(r) == r[1] * r[2]
Sum(f) == FoldFunction(+, 0, f)

\* How often i can be halved: floor(log_2(i))
IntegerLog2(i) == Max({n \in 0..i : 2^n <= i})
GetCacheForSize(bytes) == IntegerLog2(bytes)
CacheOf(r) == GetCacheForSize(Bytes(r))
Caches == {CacheOf(r) : r \in Requests}

MemoryCached == cur_bytes_allocated - cur_bytes_used
Allocatable == (memory_factor * max_bytes_used) \div 100

Init ==
    /\ list = [c \in Caches |-> <<>>]
    /\ map = [r \in Requests |-> <<>>]
    /\ used_map = <<>>
    /\ memory_factor = MemoryFactor
    /\ cur_bytes_allocated = 0 /\ cur_bytes_used = 0 /\ max_bytes_used = 0
    /\ t = 1
    /\ pc = "idle"
    /\ call = [request |-> CHOOSE r \in Requests : TRUE, failed |-> 0, cached |-> 0]
    /\ loop = [to_free |-> 0, freed |-> 0, cache |-> -1]
    /\ device = <<>>

-----------------------------------------------------------------------------
(***************************************************************************)
(* MruCache                                                                *)
(***************************************************************************)

\* Zero if the cache is empty.
LeastRecentTime(c) ==
    IF list[c] = <<>> THEN 0 ELSE map[Head(list[c]).request][1].t

Insert(r, pointer, time) ==
    /\ list' = [list EXCEPT ![CacheOf(r)] = Append(@, [request |-> r, t |-> time])]
    /\ map' = [map EXCEPT ![r] = Append(@, [pointer |-> pointer, t |-> time])]

\* The node that the iterator in the newest entry of map_ points to
NewestNode(r) ==
    CHOOSE i \in DOMAIN list[CacheOf(r)] : list[CacheOf(r)][i].t = Last(map[r]).t

\* Slip: the entry stays in the map.
Lookup_Keeps(r) ==
    /\ map[r] # <<>>
    /\ list' = [list EXCEPT ![CacheOf(r)] = RemoveAt(@, NewestNode(r))]
    /\ UNCHANGED map

\* Slip: the oldest entry of the map goes with the newest node of the list.
Lookup_Front(r) ==
    /\ map[r] # <<>>
    /\ list' = [list EXCEPT ![CacheOf(r)] = RemoveAt(@, NewestNode(r))]
    /\ map' = [map EXCEPT ![r] = Tail(@)]

\* The most recently used element of this request, if there is one, goes out.
Lookup(r) ==
    /\ map[r] # <<>>
    /\ list' = [list EXCEPT ![CacheOf(r)] = RemoveAt(@, NewestNode(r))]
    /\ map' = [map EXCEPT ![r] = Front(@)]

\* CUDA takes the pointer back.
RemoveLeastRecentlyUsed(c) ==
    LET r == Head(list[c]).request
    IN  /\ list' = [list EXCEPT ![c] = Tail(@)]
        /\ map' = [map EXCEPT ![r] = Tail(@)]
        /\ device' = Restrict(device, DOMAIN device \ {map[r][1].pointer})

-----------------------------------------------------------------------------
(***************************************************************************)
(* FreeSomeCachedMemory()                                                  *)
(***************************************************************************)
StartFreeing(bytes) ==
    LET min_to_free == (max_bytes_used' * DeleteFactor) \div 100
    IN  loop' = [to_free |-> Min({MemoryCached, Max({bytes, min_to_free})}),
                 freed |-> 0, cache |-> -1]

\* What keeping the oldest element of a cache costs: its size, roughly, by time
Cost(c) == 2^c * (t - LeastRecentTime(c))
NonEmpty == {c \in Caches : LeastRecentTime(c) > 0}

\* The next cache in the order of the queue; the current one goes on as long as
\* its cost is not below the next one's.
WorstCache ==
    LET worst == {c \in NonEmpty : \A d \in NonEmpty : Cost(c) >= Cost(d)}
    IN  IF loop.cache \in worst THEN loop.cache ELSE Max(worst)

FreeOne ==
    /\ pc = "freeing"
    /\ loop.freed < loop.to_free
    /\ LET c == WorstCache
       IN  /\ RemoveLeastRecentlyUsed(c)
           /\ loop' = [loop EXCEPT !.freed = @ + Bytes(Head(list[c]).request),
                                   !.cache = c]
    /\ UNCHANGED <<used_map, memory_factor, books, t, pc, call>>

FreedEnough ==
    /\ pc = "freeing"
    /\ loop.freed >= loop.to_free
    /\ cur_bytes_allocated' = cur_bytes_allocated - loop.freed
    /\ pc' = "allocate"
    /\ UNCHANGED <<cached, used_map, memory_factor, cur_bytes_used, max_bytes_used,
                   t, call, loop, device>>

-----------------------------------------------------------------------------
(***************************************************************************)
(* MallocPitch() and Free()                                                *)
(***************************************************************************)
Enter(r) ==
    /\ pc = "idle"
    /\ t < MaxTime
    /\ t' = t + 1
    /\ max_bytes_used' = Max({max_bytes_used, cur_bytes_used + Bytes(r)})

GiveToUser(r, pointer) ==
    /\ used_map' = [p \in DOMAIN used_map \cup {pointer} |->
                       IF p = pointer THEN r ELSE used_map[p]]
    /\ cur_bytes_used' = cur_bytes_used + Bytes(r)

MallocCached(r) ==
    /\ Enter(r)
    /\ Lookup(r)
    /\ GiveToUser(r, Last(map[r]).pointer)
    /\ UNCHANGED <<memory_factor, cur_bytes_allocated, pc, call, loop, device>>

Overflow(r) == cur_bytes_allocated + Bytes(r) - Allocatable'

\* Slip: the limit is not looked at.
MallocNew_NoLimit(r) ==
    /\ Enter(r)
    /\ map[r] = <<>>
    /\ call' = [request |-> r, failed |-> 0, cached |-> 0]
    /\ pc' = "allocate"
    /\ UNCHANGED <<cached, used_map, memory_factor, cur_bytes_allocated, cur_bytes_used,
                   loop, device>>

\* Nothing suitable is cached; what exceeds the limit is freed first.
MallocNew(r) ==
    /\ Enter(r)
    /\ map[r] = <<>>
    /\ call' = [request |-> r, failed |-> 0, cached |-> 0]
    /\ UNCHANGED memory_factor
    /\ IF Overflow(r) > 0
       THEN pc' = "freeing" /\ StartFreeing(Overflow(r))
       ELSE pc' = "allocate" /\ UNCHANGED loop
    /\ UNCHANGED <<cached, used_map, cur_bytes_allocated, cur_bytes_used, device>>

\* Each block takes at least the bytes that were asked for.
DeviceHas(bytes) == Sum(device) + bytes <= DeviceBytes
NewPointer == Min((1..(Cardinality(DOMAIN device) + 1)) \ DOMAIN device)

SystemAllocates ==
    /\ pc = "allocate"
    /\ LET r == call.request
       IN  /\ DeviceHas(Bytes(r))
           /\ device' = [p \in DOMAIN device \cup {NewPointer} |->
                            IF p = NewPointer THEN Bytes(r) ELSE device[p]]
           /\ cur_bytes_allocated' = cur_bytes_allocated + Bytes(r)
           /\ GiveToUser(r, NewPointer)
    /\ pc' = "idle"
    /\ UNCHANGED <<cached, memory_factor, max_bytes_used, t, call, loop>>

Failed == call' = [call EXCEPT
    !.failed = @ + 1, !.cached = IF call.failed = 0 THEN MemoryCached ELSE @]

\* Slip: only half of the cache is freed, however much was asked for.
SystemFails_Half ==
    /\ pc = "allocate"
    /\ call.failed < 2
    /\ Failed
    /\ memory_factor' = Min({memory_factor, 110})
    /\ UNCHANGED max_bytes_used
    /\ StartFreeing(MemoryCached \div 2)
    /\ pc' = "freeing"
    /\ UNCHANGED <<cached, used_map, cur_bytes_allocated, cur_bytes_used, t, device>>

\* The first two times, memory is freed and cudaMalloc*() is called again.
SystemFails ==
    /\ pc = "allocate"
    /\ call.failed < 2
    /\ Failed
    /\ memory_factor' = Min({memory_factor, 110})
    /\ UNCHANGED max_bytes_used
    /\ StartFreeing(Max({MemoryCached \div 2,
                         Min({MemoryCached, Bytes(call.request)})}))
    /\ pc' = "freeing"
    /\ UNCHANGED <<cached, used_map, cur_bytes_allocated, cur_bytes_used, t, device>>

\* KALDI_ERR: the exception leaves MallocPitch().
MallocThrows ==
    /\ pc = "allocate"
    /\ call.failed = 2
    /\ pc' = "idle"
    /\ UNCHANGED <<cached, used_map, memory_factor, books, t, call, loop, device>>

Free(p) ==
    /\ pc = "idle"
    /\ t < MaxTime
    /\ t' = t + 1
    /\ cur_bytes_used' = cur_bytes_used - Bytes(used_map[p])
    /\ Insert(used_map[p], p, t')
    /\ used_map' = Restrict(used_map, DOMAIN used_map \ {p})
    /\ UNCHANGED <<memory_factor, cur_bytes_allocated, max_bytes_used, pc, call,
                   loop, device>>

\* KALDI_ERR after t_ was increased: the pointer was not allocated.
FreeUnknown ==
    /\ pc = "idle"
    /\ t < MaxTime
    /\ t' = t + 1
    /\ UNCHANGED <<cached, used_map, memory_factor, books, pc, call, loop, device>>

\* No more calls: the bound.
Finished == pc = "idle" /\ t = MaxTime /\ UNCHANGED vars

Next ==
    \/ \E r \in Requests : MallocCached(r) \/ MallocNew(r)
    \/ \E p \in DOMAIN used_map : Free(p)
    \/ FreeUnknown
    \/ FreeOne \/ FreedEnough
    \/ SystemAllocates \/ SystemFails \/ MallocThrows
    \/ Finished

Spec == Init /\ [][Next]_vars

-----------------------------------------------------------------------------
(***************************************************************************)
(* Properties.                                                             *)
(***************************************************************************)
\* Every block that CUDA has allocated is in one place: with the user, or once
\* in the cache of its request.  None is leaked, none is given away twice, and
\* each has the size it was asked for.
EveryBlockOnce ==
    LET Entries(p) == UNION {{<<r, i>> : i \in {j \in DOMAIN map[r] : map[r][j].pointer = p}} :
                             r \in Requests}
    IN  /\ DOMAIN used_map \cup UNION {{e.pointer : e \in ToSet(map[r])} : r \in Requests}
               = DOMAIN device
        /\ \A p \in DOMAIN device :
              IF p \in DOMAIN used_map
              THEN Entries(p) = {} /\ device[p] = Bytes(used_map[p])
              ELSE \E e \in Entries(p) : Entries(p) = {e} /\ device[p] = Bytes(e[1])

\* The list and the map of a cache describe the same elements in the same order,
\* the least recently used one first, and nothing in them is from the future:
\* what the assertions of MruCache and of FreeSomeCachedMemory() rely on.
CachesAgree ==
    /\ \A c \in Caches : \A i, j \in DOMAIN list[c] : i < j => list[c][i].t < list[c][j].t
    /\ \A r \in Requests : \A i, j \in DOMAIN map[r] : i < j => map[r][i].t < map[r][j].t
    /\ \A r \in Requests :
          {n.t : n \in {m \in ToSet(list[CacheOf(r)]) : m.request = r}}
             = {e.t : e \in ToSet(map[r])}
    /\ \A c \in Caches : list[c] # <<>> => LeastRecentTime(c) = Head(list[c]).t
    /\ pc = "freeing" => \A c \in NonEmpty : t > LeastRecentTime(c)
    /\ pc = "freeing" /\ loop.freed < loop.to_free => NonEmpty # {}

\* The byte counts are those of the blocks, between two steps of
\* FreeSomeCachedMemory() too, and the limits that MallocPitch() asserts hold:
\* what is allocated never exceeds memory_factor times the most that the user
\* ever had or asked for.
BooksBalance ==
    LET ToCome == IF pc = "freeing" THEN loop.freed ELSE 0
    IN  /\ cur_bytes_used = Sum([p \in DOMAIN used_map |-> Bytes(used_map[p])])
        /\ cur_bytes_allocated = Sum(device) + ToCome
        /\ cur_bytes_used <= max_bytes_used
        /\ pc = "freeing" /\ call.failed = 0 =>
              cur_bytes_allocated + Bytes(call.request) - Allocatable <= MemoryCached
        /\ pc = "allocate" /\ call.failed = 0 =>
              cur_bytes_allocated + Bytes(call.request) <= Allocatable
        /\ 100 * cur_bytes_allocated <= MemoryFactor * max_bytes_used

\* When CUDA is asked for the last time, after two failures, either all of the
\* cache was given back to it, or twice the bytes of the request; and no more than
\* a quarter of the cache is left, however little was asked for.
CacheGivenBack ==
    pc = "allocate" /\ call.failed = 2 =>
        LET left == Sum(device) - cur_bytes_used
        IN  /\ left = 0 \/ left + 2 * Bytes(call.request) <= call.cached
            /\ 4 * left <= call.cached + 3
=============================================================================
