----------------------------- MODULE StaticPool -----------------------------
(***************************************************************************)
(* src/src/mem_alloc/static_pool.c, used through the function table of     *)
(* i_pool_allocator.c: a pool of equal objects cut from one buffer, with   *)
(* the free ones on a pointer stack.  A pointer is its offset in the       *)
(* buffer, NULL, or Foreign for one that the pool did not hand out.        *)
(***************************************************************************)
EXTENDS PtrStack, FiniteSets

CONSTANTS
  SizeMod,         \* number of values of size_t
  BufferSize,      \* bytes of the client's buffer
  MaxObjects,      \* the largest object_count configured
  MaxObjectSize,   \* the largest object_size configured
  Handle,          \* the client's pointer variables
  NULL, Foreign

VARIABLES
  client,        \* "careful": frees each object it holds once, into the pool
                 \* it came from; "careless": copies and forges pointers,
                 \* keeps them over init and deinit, configures anything
  object_count, object_size,   \* pool->config
  free_stack,    \* pool->free_stack
  handle,        \* the client's pointers
  ret

(* What the constants must satisfy; assumed where they get their values. *)
PoolConstants ==
  /\ SizeMod \in Nat \ {0}
  /\ {BufferSize, MaxObjects, MaxObjectSize} \subseteq 0 .. SizeMod - 1
  /\ IsFiniteSet(Handle)
  /\ {NULL, Foreign} \cap (0 .. SizeMod - 1) = {}
  /\ NULL # Foreign

vars == <<client, object_count, object_size, free_stack, handle, ret>>

Pointer == (0 .. SizeMod - 1) \cup {NULL, Foreign}

TypeOK ==
  /\ client \in {"careful", "careless"}
  /\ object_count \in 0 .. MaxObjects
  /\ object_size \in 0 .. MaxObjectSize
  /\ free_stack \in [stack : Seq(Pointer \ {NULL}), max_item_count : 0 .. MaxObjects]
  /\ handle \in [Handle -> Pointer]
  /\ ret \in ErrorCode

NoHandles == [h \in Handle |-> NULL]

(* A pool in zeroed memory. *)
Init ==
  /\ client \in {"careful", "careless"}
  /\ object_count = 0
  /\ object_size = 0
  /\ free_stack = ptr_stack_deinit
  /\ handle = NoHandles
  /\ ret = ERR_NONE

-----------------------------------------------------------------------------
(* static_pool_validate_config; the product is a size_t. *)
ValidConfig(count, size) == (count * size) % SizeMod <= BufferSize

(* &buffer[idx * object_size] for the first n objects, in push order. *)
Objects(n, size) == [i \in 1 .. n |-> ((i - 1) * size) % SizeMod]

(* The init loop: one push per object, on the stack ptr_stack_init left;   *)
(* when there are any, that stack is empty and has an entry for each, so   *)
(* no push is refused.                                                     *)
Filled(count, size) ==
  LET s == ptr_stack_init(free_stack, count)
  IN  [s EXCEPT !.stack = @ \o Objects(count, size)]

(* What a careful client passes to init, and what it does with the         *)
(* pointers it has when the pool is set up again.                          *)
Sensible(count, size) == count # 0 /\ size # 0 /\ count * size < SizeMod
Forget == handle' = IF client = "careful" THEN NoHandles ELSE handle

static_pool_init(count, size) ==
  /\ client = "careful" => Sensible(count, size)
  /\ IF ValidConfig(count, size)
       THEN /\ object_count' = count
            /\ object_size' = size
            /\ free_stack' = Filled(count, size)
            /\ ret' = ERR_NONE
            /\ Forget
       ELSE /\ ret' = ERR_INVALID_ARG
            /\ UNCHANGED <<object_count, object_size, free_stack, handle>>

static_pool_deinit ==
  /\ free_stack' = ptr_stack_deinit
  /\ Forget
  /\ UNCHANGED <<object_count, object_size, ret>>

static_pool_allocate(h) ==
  IF PopRefused(free_stack)
    THEN ret' = ERR_NO_MEM /\ UNCHANGED <<free_stack, handle>>
    ELSE /\ handle' = [handle EXCEPT ![h] = Popped(free_stack)]
         /\ free_stack' = AfterPop(free_stack)
         /\ ret' = ERR_NONE

(* Faulty variant: the client's pointer is left set. *)
DeallocateKeepsPointer(h) ==
  IF handle[h] = NULL
    THEN ret' = ERR_OUT_OF_BOUNDS /\ UNCHANGED <<free_stack, handle>>
    ELSE /\ free_stack' = ptr_stack_push(free_stack, handle[h])
         /\ ret' = ERR_NONE
         /\ UNCHANGED handle

(* Any pointer but NULL is taken; a push onto a full stack is dropped. *)
static_pool_deallocate(h) ==
  IF handle[h] = NULL
    THEN ret' = ERR_OUT_OF_BOUNDS /\ UNCHANGED <<free_stack, handle>>
    ELSE /\ free_stack' = ptr_stack_push(free_stack, handle[h])
         /\ handle' = [handle EXCEPT ![h] = NULL]
         /\ ret' = ERR_NONE

(* Faulty variant: the free entries of the stack are taken for the used. *)
AvailableInverted == ptr_stack_get_remaining_count(free_stack)

static_pool_get_available_count ==
  (object_count + (SizeMod - ptr_stack_get_remaining_count(free_stack))) % SizeMod

(* The table static_pool_as_i_pool_allocator fills, and calls through it. *)
Interface(function, h) ==
  /\ CASE function = "allocate"   -> static_pool_allocate(h)
       [] function = "deallocate" -> static_pool_deallocate(h)
  /\ UNCHANGED <<object_count, object_size>>

i_pool_allocator_allocate(h)   == Interface("allocate", h)
i_pool_allocator_deallocate(h) == Interface("deallocate", h)
i_pool_allocator_get_available_count == static_pool_get_available_count

(* A careless client's pointers. *)
CopyPointer(g, h) ==
  /\ client = "careless"
  /\ handle' = [handle EXCEPT ![h] = handle[g]]
  /\ UNCHANGED <<object_count, object_size, free_stack, ret>>

ForgePointer(h) ==
  /\ client = "careless"
  /\ handle' = [handle EXCEPT ![h] = Foreign]
  /\ UNCHANGED <<object_count, object_size, free_stack, ret>>

Next ==
  /\ \/ \E n \in 0 .. MaxObjects, s \in 0 .. MaxObjectSize : static_pool_init(n, s)
     \/ static_pool_deinit
     \/ \E h \in Handle :
          \/ (client = "careful" => handle[h] = NULL) /\ i_pool_allocator_allocate(h)
          \/ i_pool_allocator_deallocate(h)
          \/ ForgePointer(h)
          \/ \E g \in Handle \ {h} : CopyPointer(g, h)
  /\ UNCHANGED client

Spec == Init /\ [][Next]_vars

-----------------------------------------------------------------------------
Initialised == free_stack.max_item_count # 0
Free        == {free_stack.stack[i] : i \in 1 .. Len(free_stack.stack)}
Held        == {h \in Handle : handle[h] # NULL}

(***************************************************************************)
(* For a careful client an object has one owner: no two of its pointers    *)
(* overlap, none overlaps an object that is still free, and every object   *)
(* held or free lies inside the buffer given to init.                      *)
(***************************************************************************)
OneOwner ==
  client = "careful" =>
    /\ \A g, h \in Held : g # h => handle[g] # handle[h]
    /\ \A h \in Held : handle[h] \notin Free
    /\ Cardinality(Free) = Len(free_stack.stack)
    /\ \A p \in Free \cup {handle[h] : h \in Held} :
         p % object_size = 0 /\ p + object_size <= BufferSize

(***************************************************************************)
(* get_available_count is the number of objects a careful client does not  *)
(* hold, after any sequence of calls on a pool in use.  (After deinit it   *)
(* is the configured count, although nothing can be allocated.)            *)
(***************************************************************************)
AvailableIsHonest ==
  client = "careful" /\ Initialised =>
    i_pool_allocator_get_available_count = object_count - Cardinality(Held)

(***************************************************************************)
(* Whatever a client frees, however often, and however it configures the   *)
(* pool, the stack of free objects stays inside the array of the last      *)
(* configuration that has one: a silent push onto a full stack is dropped. *)
(***************************************************************************)
StackInBounds == Len(free_stack.stack) <= free_stack.max_item_count
=============================================================================
