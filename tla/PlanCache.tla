------------------------------ MODULE PlanCache ------------------------------
(***************************************************************************)
(* The plan cache of KernelRegistry (quant-engine/src/planner.rs).  Clones  *)
(* of a registry share one cache and have kernels of their own; register    *)
(* adds a kernel to one clone and clears the cache of all.  compile_plan    *)
(* looks the key up, unlocks, compiles, and inserts under the lock again.   *)
(* The question is when a plan found in the cache is the plan the caller's  *)
(* own registry would have compiled.                                        *)
(*                                                                          *)
(* A request is what its key covers: market, model, products, measure,      *)
(* context and batch size.  A plan is the kernel of each product family;    *)
(* its batches are in PortfolioPricing.  The hit and miss counters are left *)
(* out.                                                                     *)
(*                                                                          *)
(* A kernel is its id.  register does not refuse a second kernel of an id   *)
(* that is there, and execute takes the first one of the id, whichever the  *)
(* plan was compiled for: the model assumes that no two kernels have one    *)
(* id.                                                                      *)
(***************************************************************************)
EXTENDS Naturals, FiniteSets

CONSTANTS Threads,
          Registries,  \* names for the clones
          First,       \* the one the program starts with
          Kernels,
          Rank,        \* descriptor_order; register keeps kernels sorted by it
          Supported,   \* the families each kernel supports
          Requests,
          Families     \* the product families of each request

ASSUME PlanCacheAssumption ==
  /\ First \in Registries
  /\ Requests # {}
  /\ Rank \in [Kernels -> Nat]
  /\ \A k, o \in Kernels : Rank[k] = Rank[o] => k = o
  /\ Supported \in [Kernels -> SUBSET UNION {Families[q] : q \in Requests}]

VARIABLES alive,    \* the clones that exist
          kernels,  \* of each clone
          cache,    \* shared by all
          pc,       \* of each thread: "idle", "compiling" or "holding" a plan
          user,     \* the clone the thread calls, or got its plan from
          request,
          plan,
          diverged, \* history: a clone was extended while others existed, and
                    \* the cache has not been cleared by a sole registry since
          trusted   \* history: threads whose plan was compiled for them, or
                    \* taken from the cache while not diverged

vars == <<alive, kernels, cache, pc, user, request, plan, diverged, trusted>>

Positions == {"idle", "compiling", "holding"}

(* find() over the sorted kernels: the first that supports the family. *)
Best(K, family) ==
  CHOOSE k \in K : /\ family \in Supported[k]
                   /\ \A o \in K : family \in Supported[o] => Rank[k] <= Rank[o]

Compilable(K, q) == \A family \in Families[q] : \E k \in K : family \in Supported[k]

Compile(K, q) == [family \in Families[q] |-> Best(K, family)]

(* execute() finds every kernel the plan names, by its id, in the clone's   *)
(* own list.                                                                *)
Executable(K, p) == \A family \in DOMAIN p : p[family] \in K

NoPlan == [family \in {} |-> family]

Init == /\ alive = {First}
        /\ kernels = [r \in Registries |-> {}]
        /\ cache = NoPlan
        /\ pc = [t \in Threads |-> "idle"]
        /\ user = [t \in Threads |-> First]
        /\ request = [t \in Threads |-> CHOOSE q \in Requests : TRUE]
        /\ plan = [t \in Threads |-> NoPlan]
        /\ diverged = FALSE
        /\ trusted = {}

(* #[derive(Clone)]: the kernels are copied, the cache is shared. *)
Clone(r, c) ==
  /\ r \in alive /\ c \notin alive
  /\ alive' = alive \cup {c}
  /\ kernels' = [kernels EXCEPT ![c] = kernels[r]]
  /\ UNCHANGED <<cache, pc, user, request, plan, diverged, trusted>>

(* A clone nobody calls or holds a plan of goes away. *)
DropClone(r) ==
  /\ r \in alive /\ alive # {r}
  /\ \A t \in Threads : pc[t] # "idle" => user[t] # r
  /\ alive' = alive \ {r}
  /\ UNCHANGED <<kernels, cache, pc, user, request, plan, diverged, trusted>>

\* Mutant: the cache is not cleared.
Register_KeepsCache(r, k) ==
  /\ r \in alive /\ k \notin kernels[r]
  /\ \A t \in Threads : pc[t] = "compiling" => user[t] # r
  /\ kernels' = [kernels EXCEPT ![r] = @ \cup {k}]
  /\ diverged' = (alive # {r})
  /\ UNCHANGED <<alive, cache, pc, user, request, plan, trusted>>

(* &mut self: no call on this clone is in flight.  Calls on others may be.  *)
Register(r, k) ==
  /\ r \in alive /\ k \notin kernels[r]
  /\ \A t \in Threads : pc[t] = "compiling" => user[t] # r
  /\ kernels' = [kernels EXCEPT ![r] = @ \cup {k}]
  /\ cache' = NoPlan
  /\ diverged' = (alive # {r})
  /\ UNCHANGED <<alive, pc, user, request, plan, trusted>>

ClearCache ==
  /\ cache' = NoPlan
  /\ UNCHANGED <<alive, kernels, pc, user, request, plan, diverged, trusted>>

(* compile_plan_bounded up to the first unlock, on a hit and on a miss. *)
Hit(t, r, q) ==
  /\ pc[t] = "idle" /\ r \in alive /\ q \in DOMAIN cache
  /\ pc' = [pc EXCEPT ![t] = "holding"]
  /\ user' = [user EXCEPT ![t] = r]
  /\ request' = [request EXCEPT ![t] = q]
  /\ plan' = [plan EXCEPT ![t] = cache[q]]
  /\ trusted' = IF diverged THEN trusted \ {t} ELSE trusted \cup {t}
  /\ UNCHANGED <<alive, kernels, cache, diverged>>

Miss(t, r, q) ==
  /\ pc[t] = "idle" /\ r \in alive /\ q \notin DOMAIN cache
  /\ pc' = [pc EXCEPT ![t] = "compiling"]
  /\ user' = [user EXCEPT ![t] = r]
  /\ request' = [request EXCEPT ![t] = q]
  /\ UNCHANGED <<alive, kernels, cache, plan, diverged, trusted>>

(* The rest of compile_plan_bounded.  What it reads cannot change while the *)
(* clone is borrowed, so compiling and inserting are one step.              *)
Insert(t) ==
  LET q == request[t]
      compiled == Compile(kernels[user[t]], q) IN
  /\ pc[t] = "compiling"
  /\ Compilable(kernels[user[t]], q)
  /\ cache' = [c \in DOMAIN cache \cup {q} |-> IF c = q THEN compiled ELSE cache[c]]
  /\ plan' = [plan EXCEPT ![t] = compiled]
  /\ pc' = [pc EXCEPT ![t] = "holding"]
  /\ trusted' = trusted \cup {t}
  /\ UNCHANGED <<alive, kernels, user, request, diverged>>

(* No kernel for a family, or a kernel refuses the batch: an error, and     *)
(* nothing is cached.                                                       *)
Reject(t) ==
  /\ pc[t] = "compiling"
  /\ pc' = [pc EXCEPT ![t] = "idle"]
  /\ UNCHANGED <<alive, kernels, cache, user, request, plan, diverged, trusted>>

(* execute(), or the caller drops the plan; nothing shared changes. *)
Execute(t) ==
  /\ pc[t] = "holding"
  /\ pc' = [pc EXCEPT ![t] = "idle"]
  /\ plan' = [plan EXCEPT ![t] = NoPlan]
  /\ UNCHANGED <<alive, kernels, cache, user, request, diverged, trusted>>

Next == \/ \E r, c \in Registries : Clone(r, c)
        \/ \E r \in Registries : DropClone(r)
        \/ \E r \in Registries, k \in Kernels : Register(r, k)
        \/ ClearCache
        \/ \E t \in Threads, r \in Registries, q \in Requests :
             Hit(t, r, q) \/ Miss(t, r, q)
        \/ \E t \in Threads : Insert(t) \/ Reject(t) \/ Execute(t)

Spec == Init /\ [][Next]_vars

-----------------------------------------------------------------------------

TypeOK ==
  /\ alive \subseteq Registries /\ alive # {}
  /\ kernels \in [Registries -> SUBSET Kernels]
  /\ DOMAIN cache \subseteq Requests
  /\ \A q \in DOMAIN cache : cache[q] \in [Families[q] -> Kernels]
  /\ pc \in [Threads -> Positions]
  /\ user \in [Threads -> Registries]
  /\ request \in [Threads -> Requests]
  /\ plan = [t \in Threads |-> plan[t]]
  /\ \A t \in Threads : pc[t] = "holding" =>
       plan[t] \in [Families[request[t]] -> Kernels]
  /\ diverged \in BOOLEAN
  /\ trusted \subseteq Threads

BorrowedIsAlive == \A t \in Threads : pc[t] # "idle" => user[t] \in alive

(* Clones differ only after one was extended beside another. *)
ClonesAgree == ~diverged => \A r, c \in alive : kernels[r] = kernels[c]

(* The cache only accelerates as long as no clone was extended beside       *)
(* another: a hit is what compiling now would return, for every clone,      *)
(* whoever compiles, clears, clones and registers at the same time.         *)
CacheTransparent ==
  ~diverged => \A q \in DOMAIN cache, r \in alive :
                 /\ Compilable(kernels[r], q)
                 /\ cache[q] = Compile(kernels[r], q)

(* A plan compiled by its registry, or found while the clones agreed, can   *)
(* be executed there for as long as it is held, whatever is registered,     *)
(* cleared or cloned in the meantime.                                       *)
TrustedPlansExecutable ==
  \A t \in trusted : pc[t] = "holding" => Executable(kernels[user[t]], plan[t])

(* The inductive invariant. *)
IInv == /\ TypeOK
        /\ BorrowedIsAlive
        /\ ClonesAgree
        /\ CacheTransparent
        /\ TrustedPlansExecutable

=============================================================================
