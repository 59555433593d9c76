---------------------------- MODULE LockedAlloc -----------------------------
(***************************************************************************)
(* slaballoc/src/lib.rs: the allocator shared by several threads behind a  *)
(* spinlock.  A step of a thread is the compare-exchange on the lock, its  *)
(* release, or inside the critical section one store of allocator.rs with  *)
(* the loads right before it, so that nothing but the lock keeps two calls *)
(* apart.  The store to bump and the zero fill are one step.               *)
(*                                                                         *)
(* The state of the allocator and the arithmetic on it are those of        *)
(* SlabAllocator; the program counter of a thread names what its next step *)
(* does.  A block enters and leaves live at the store that takes it from   *)
(* the free memory or puts it back; held is what callers know of it.       *)
(***************************************************************************)
EXTENDS SlabAllocator

CONSTANT Threads

VARIABLES held,      \* allocations in the hands of callers, [ptr, layout]
          locked,    \* SpinLock.locked
          pc,        \* what each thread does next
          call,      \* the call it is in: its kind and its argument
          reg        \* its local variable: node, chunk, offset or result

lockedvars == <<vars, held, locked, pc, call, reg>>

NoCall == [kind |-> "none", arg |-> NULL]

LockedInit ==
    /\ Init
    /\ held = {} /\ locked = FALSE
    /\ pc = [t \in Threads |-> "idle"]
    /\ call = [t \in Threads |-> NoCall]
    /\ reg = [t \in Threads |-> NULL]

(* The layout of a thread's call, and the class it falls in.               *)
Layout(t) == IF call[t].kind = "alloc" THEN call[t].arg ELSE call[t].arg.layout
Class(t)  == class_index_for(Layout(t))
Small(t)  == HasClass(Layout(t))
Block(t)  == SIZE_CLASSES[Class(t)]

Goto(t, l) == pc' = [pc EXCEPT ![t] = l]
-----------------------------------------------------------------------------
(* Threads call into the allocator.  From the moment of the call to        *)
(* dealloc the caller no longer holds the memory.  init is called once.    *)
Enter(t, k, a) ==
    /\ pc[t] = "idle"
    /\ call' = [call EXCEPT ![t] = [kind |-> k, arg |-> a]]
    /\ Goto(t, "lock")
    /\ UNCHANGED <<vars, locked, reg>>

CallInit(t, h) ==
    /\ ~ initialized /\ \A u \in Threads : call[u].kind # "init"
    /\ Enter(t, "init", h) /\ UNCHANGED held
CallAlloc(t, l)   == Enter(t, "alloc", l) /\ UNCHANGED held
CallDealloc(t, r) == Enter(t, "dealloc", r) /\ held' = held \ {r}

(* SpinLock::lock: the compare-exchange that succeeds.  A failed one       *)
(* changes nothing and is retried.                                         *)
LockNoTest(t) ==
    /\ pc[t] = "lock"
    /\ locked' = TRUE
    /\ Goto(t, call[t].kind)
    /\ UNCHANGED <<vars, held, call, reg>>
lock(t) ==
    /\ pc[t] = "lock" /\ ~ locked
    /\ locked' = TRUE
    /\ Goto(t, call[t].kind)
    /\ UNCHANGED <<vars, held, call, reg>>

(* SpinLockGuard::drop, and the return to the caller, with the pointer in  *)
(* reg if the call was alloc.                                              *)
Return(t) ==
    /\ held' = IF call[t].kind = "alloc" /\ reg[t] # NULL
               THEN held \cup {[ptr |-> reg[t], layout |-> Layout(t)]}
               ELSE held
    /\ call' = [call EXCEPT ![t] = NoCall]
    /\ reg' = [reg EXCEPT ![t] = NULL]
    /\ Goto(t, "idle")
    /\ UNCHANGED vars
DropKeepsCall(t) ==
    /\ pc[t] = "drop" /\ locked' = FALSE /\ Goto(t, "idle")
    /\ UNCHANGED <<vars, held, call, reg>>
DropKeepsLock(t) == pc[t] = "drop" /\ Return(t) /\ UNCHANGED locked
drop(t) == pc[t] = "drop" /\ locked' = FALSE /\ Return(t)
-----------------------------------------------------------------------------
(* SlabAllocator::init under the lock.                                     *)
SetRegion(t) ==
    /\ pc[t] = "init"
    /\ heap_start' = call[t].arg.start
    /\ heap_end' = call[t].arg.start + call[t].arg.size
    /\ bump' = call[t].arg.start /\ initialized' = TRUE
    /\ Goto(t, "drop")
    /\ UNCHANGED <<head, mem, live, carved, held, locked, call, reg>>

(* alloc: the tests at the start choose the path.                          *)
ChoosePath(t) ==
    /\ pc[t] = "alloc"
    /\ Goto(t, CASE ~ initialized                       -> "drop"
                 [] initialized /\ ~ Small(t)           -> "large"
                 [] initialized /\ Small(t)
                       /\ head[Class(t)] = NULL         -> "refill"
                 [] OTHER                               -> "head")
    /\ UNCHANGED <<vars, held, locked, call, reg>>

(* alloc_from_bump, reading the bump pointer: the start of the new memory, *)
(* or the end of the call when it does not fit.                            *)
ReadBump(t, size, align, then) ==
    /\ IF BumpFits(size, align)
       THEN /\ reg' = [reg EXCEPT ![t] = BumpStart(align)]
            /\ Goto(t, then)
       ELSE UNCHANGED reg /\ Goto(t, "drop")
    /\ UNCHANGED <<vars, held, locked, call>>
(* ... and moving it past the new memory, which is filled with zeros.      *)
MoveBump(t, size, then) ==
    /\ bump' = reg[t] + size
    /\ mem' = ZeroFill(mem, reg[t], size)
    /\ Goto(t, then)
    /\ UNCHANGED <<heapvars, head, carved, held, locked, call, reg>>

LargeStart(t) ==
    pc[t] = "large" /\ ReadBump(t, Layout(t).size, Layout(t).align, "large2")
LargeEnd(t) ==
    pc[t] = "large2" /\ MoveBump(t, Layout(t).size, "drop") /\ Hold(reg[t], Layout(t))

(* refill_cache: a chunk, then one block after another pushed on the list. *)
RefillStart(t) == pc[t] = "refill" /\ ReadBump(t, CHUNK_SIZE, CHUNK_SIZE, "refill2")
RefillEnd(t) ==
    pc[t] = "refill2" /\ MoveBump(t, CHUNK_SIZE, "link") /\ UNCHANGED live

(* node.next = head, the first half of a push: of the block at the current *)
(* offset in a refill, of the freed block in dealloc.                      *)
Node(t) == IF call[t].kind = "alloc" THEN reg[t] ELSE call[t].arg.ptr
LinkNodeNot(t) ==
    /\ pc[t] = "link"
    /\ Goto(t, "push")
    /\ UNCHANGED <<vars, held, locked, call, reg>>
LinkNode(t) ==
    /\ pc[t] = "link"
    /\ mem' = [mem EXCEPT ![Node(t)] = head[Class(t)]]
    /\ Goto(t, "push")
    /\ UNCHANGED <<heapvars, bump, head, live, carved, held, locked, call, reg>>

(* caches[idx].head = node, the second half.  A refill moves on to the     *)
(* next offset while a whole block is left before chunk_end.               *)
ChunkEnd(b) == b - (b % CHUNK_SIZE) + CHUNK_SIZE
PushNodeStays(t) ==
    /\ pc[t] = "push"
    /\ head' = [head EXCEPT ![Class(t)] = Node(t)]
    /\ Goto(t, IF call[t].kind = "dealloc" THEN "drop" ELSE "link")
    /\ UNCHANGED <<heapvars, bump, mem, live, carved, held, locked, call, reg>>
PushNode(t) ==
    LET i == Class(t)
        off == reg[t] + Block(t)
    IN
    /\ pc[t] = "push"
    /\ head' = [head EXCEPT ![i] = Node(t)]
    /\ IF call[t].kind = "dealloc"
       THEN live' = live \ {call[t].arg} /\ UNCHANGED <<carved, reg>> /\ Goto(t, "drop")
       ELSE /\ carved' = [carved EXCEPT ![i] = @ \cup {reg[t]}]
            /\ reg' = [reg EXCEPT ![t] = off]
            /\ Goto(t, IF off + Block(t) <= ChunkEnd(reg[t]) THEN "link" ELSE "head")
            /\ UNCHANGED live
    /\ UNCHANGED <<heapvars, bump, mem, held, locked, call>>

(* let head = caches[idx].head; then caches[idx].head = head.next.         *)
ReadHead(t) ==
    /\ pc[t] = "head"
    /\ reg' = [reg EXCEPT ![t] = head[Class(t)]]
    /\ Goto(t, IF head[Class(t)] = NULL THEN "drop" ELSE "pop")
    /\ UNCHANGED <<vars, held, locked, call>>
PopHead(t) ==
    /\ pc[t] = "pop"
    /\ head' = [head EXCEPT ![Class(t)] = mem[reg[t]]]
    /\ Hold(reg[t], Layout(t))
    /\ Goto(t, "drop")
    /\ UNCHANGED <<heapvars, bump, mem, carved, held, locked, call, reg>>

(* dealloc: nothing for large allocations.                                 *)
ChooseDealloc(t) ==
    /\ pc[t] = "dealloc"
    /\ IF initialized /\ Small(t)
       THEN Goto(t, "link") /\ UNCHANGED live
       ELSE Goto(t, "drop") /\ live' = live \ {call[t].arg}
    /\ UNCHANGED <<heapvars, bump, head, mem, carved, held, locked, call, reg>>

(* The steps a thread takes on its own once it has made a call.            *)
Step(t) == \/ SetRegion(t) \/ ChoosePath(t) \/ ChooseDealloc(t)
           \/ LargeStart(t) \/ LargeEnd(t) \/ RefillStart(t) \/ RefillEnd(t)
           \/ LinkNode(t) \/ PushNode(t) \/ ReadHead(t) \/ PopHead(t)
           \/ drop(t)

(* A caller writes in memory it holds, while others are in the allocator.  *)
CallerStore(r, a, v) == Store(r, a, v) /\ UNCHANGED <<held, locked, pc, call, reg>>

LockedNext ==
    \/ \E t \in Threads : lock(t) \/ Step(t)
    \/ \E t \in Threads, h \in Heaps : CallInit(t, h)
    \/ \E t \in Threads, l \in Layouts : CallAlloc(t, l)
    \/ \E t \in Threads, r \in held : CallDealloc(t, r)
    \/ \E r \in held, a \in Addr, v \in Junk : CallerStore(r, a, v)

(* Threads are scheduled: one inside a call keeps running, and one that    *)
(* spins keeps trying.  The lock is not fair, so nothing more is assumed.  *)
Fairness == \A t \in Threads : WF_lockedvars(Step(t)) /\ WF_lockedvars(lock(t))

LockedSpec == LockedInit /\ [][LockedNext]_lockedvars
FairSpec   == LockedSpec /\ Fairness
-----------------------------------------------------------------------------
(* Properties.  NoOverlap and NoLostBlock of SlabAllocator hold here at    *)
(* every single store, in the middle of calls too.                         *)

PCs == {"idle", "lock", "init", "alloc", "dealloc", "large", "large2",
        "refill", "refill2", "link", "push", "head", "pop", "drop"}
Inside(t) == pc[t] \notin {"idle", "lock"}

ThreadsTypeOK ==
    /\ TypeOK
    /\ locked \in BOOLEAN
    /\ pc \in [Threads -> PCs]
    /\ \A t \in Threads : /\ call[t].kind \in {"none", "init", "alloc", "dealloc"}
                          /\ call[t].kind = "none" <=> pc[t] = "idle"
    /\ reg \in [Threads -> Nat]

(* SpinLock: the lock word is set exactly while one thread is inside the   *)
(* critical section, and there is never a second one.                      *)
MutualExclusion ==
    /\ \A t, u \in Threads : Inside(t) /\ Inside(u) => t = u
    /\ locked <=> \E t \in Threads : Inside(t)

(* The locked allocator implements the abstract one in the eyes of its     *)
(* callers: a grant is the return of alloc, a release the call of dealloc. *)
Callers == INSTANCE GlobalAlloc WITH live <- held
CallersSeeGlobalAlloc == Callers!Spec

(* A thread in the critical section leaves it: every loop inside ends.     *)
HolderLeaves == \A t \in Threads : Inside(t) ~> ~ Inside(t)

(* A thread spinning on the lock gets its answer once the others stop      *)
(* calling: no release is ever missed.                                     *)
WaiterServed ==
    \A t \in Threads :
        <>[](\A u \in Threads \ {t} : pc[u] = "idle") => []<>(pc[t] = "idle")
-----------------------------------------------------------------------------
(* The inductive invariant.  Next to the one of SlabAllocator it says what *)
(* a thread knows at each program counter.                                 *)

(* Where a thread can be in a call, and with which arguments.              *)
AllocPCs == {"lock", "alloc", "large", "large2", "refill", "refill2", "link",
             "push", "head", "pop", "drop"}
DeallocPCs == {"lock", "dealloc", "link", "push", "drop"}
InCall(t) ==
    \/ pc[t] = "idle" /\ call[t] = NoCall
    \/ /\ pc[t] \in {"lock", "init", "drop"}
       /\ call[t].kind = "init" /\ call[t].arg \in Heaps
    \/ /\ pc[t] \in AllocPCs
       /\ call[t].kind = "alloc" /\ call[t].arg \in Layouts
    \/ /\ pc[t] \in DeallocPCs
       /\ call[t].kind = "dealloc" /\ call[t].arg \in [ptr : Nat, layout : Layouts]
CallInv ==
    /\ call = [t \in Threads |-> call[t]]
    /\ \A t \in Threads : InCall(t)
    /\ \A t, u \in Threads : call[t].kind = "init" /\ call[u].kind = "init" => t = u
    /\ \A t \in Threads : call[t].kind = "init" /\ pc[t] # "drop" => ~ initialized

(* What is out of the allocator's hands is held by a caller, on its way    *)
(* back in one call of dealloc, or on its way out in one call of alloc.    *)
Releasing(t) == call[t].kind = "dealloc" /\ pc[t] # "drop"
Granting(t)  == call[t].kind = "alloc" /\ pc[t] = "drop" /\ reg[t] # NULL
Granted(t)   == [ptr |-> reg[t], layout |-> call[t].arg]
HandsInv ==
    /\ held \subseteq live
    /\ \A t \in Threads : Releasing(t) => call[t].arg \in live \ held
    /\ \A t \in Threads : Granting(t) => Granted(t) \in live \ held
    /\ \A t, u \in Threads :
          /\ Releasing(t) /\ Releasing(u) /\ t # u => call[t].arg # call[u].arg
          /\ Releasing(t) /\ Granting(u) => call[t].arg # Granted(u)

(* The rest of a chunk that is being cut, from b on: whole blocks, below   *)
(* the bump pointer, and apart from everything else.                       *)
Uncut(b, i) ==
    /\ heap_start <= b /\ b % SIZE_CLASSES[i] = 0
    /\ b + SIZE_CLASSES[i] <= ChunkEnd(b) /\ ChunkEnd(b) <= bump
    /\ \A j \in Classes : \A a \in carved[j] :
          Apart(b, ChunkEnd(b) - b, a, SIZE_CLASSES[j])
    /\ \A r \in live : ~ HasClass(r.layout) =>
          Apart(b, ChunkEnd(b) - b, r.ptr, r.layout.size)

(* What a thread in the critical section has read is still so.             *)
Knows(t) ==
    /\ pc[t] \in {"idle", "lock", "init", "alloc", "dealloc", "large", "refill"}
          => reg[t] = NULL
    /\ pc[t] \in {"large", "large2"} => initialized /\ ~ Small(t)
    /\ pc[t] \in {"refill", "refill2", "link", "push", "head", "pop"}
          => initialized /\ Small(t)
    /\ pc[t] = "large2" => /\ BumpFits(Layout(t).size, Layout(t).align)
                           /\ reg[t] = BumpStart(Layout(t).align)
    /\ pc[t] = "refill2" => /\ BumpFits(CHUNK_SIZE, CHUNK_SIZE)
                            /\ reg[t] = BumpStart(CHUNK_SIZE)
    /\ pc[t] \in {"link", "push"} /\ call[t].kind = "alloc" => Uncut(reg[t], Class(t))
    /\ pc[t] = "push" => mem[Node(t)] = head[Class(t)]
    /\ pc[t] \in {"head", "pop"} => head[Class(t)] # NULL
    /\ pc[t] = "pop" => reg[t] = head[Class(t)]
ReadInv == \A t \in Threads : Knows(t)

LockedInv == /\ IInv /\ ThreadsTypeOK /\ MutualExclusion
             /\ CallInv /\ HandsInv /\ ReadInv
=============================================================================
