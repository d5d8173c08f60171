--------------------------- MODULE PlanCacheProofs ---------------------------
(***************************************************************************)
(* Proofs about PlanCache for any threads, clones, kernels and requests.    *)
(* A sole registry that registers has no call in flight, so nobody inserts  *)
(* an old plan after the clear; clones of it agree with it until one is     *)
(* extended.  Kernels are never removed, so a plan stays executable.        *)
(***************************************************************************)
EXTENDS PlanCache, WellFoundedInduction, TLAPS

(* A family some kernel supports has a best kernel. *)
LEMMA BestSupports ==
  ASSUME NEW K \in SUBSET Kernels, NEW family,
         \E k \in K : family \in Supported[k]
  PROVE  Best(K, family) \in K
<1> DEFINE Able == {k \in K : family \in Supported[k]}
           Ranks == {Rank[k] : k \in Able}
           Less == OpToRel(<, Nat)
<1>1. Ranks \subseteq Nat /\ Ranks # {}
  BY PlanCacheAssumption
<1>2. IsWellFoundedOn(Less, Nat)
  BY NatLessThanWellFounded
<1>3. \A m, n \in Nat : m < n => <<m, n>> \in Less
  <2>1. Less = {ss \in Nat \X Nat : ss[1] < ss[2]}
    BY Zenon DEF OpToRel
  <2> HIDE DEF Less
  <2>2. QED
    BY <2>1
<1> HIDE DEF Less, Ranks
<1>4. PICK n \in Ranks : \A m \in Ranks : ~(<<m, n>> \in Less)
  <2>1. \A S, T : IsWellFoundedOn(Less, S) /\ T \subseteq S /\ T # {} =>
                 \E n \in T : \A m \in T : ~(<<m, n>> \in Less)
    BY WFMin, Zenon
  <2>2. QED
    BY <1>1, <1>2, <2>1, Zenon
<1>5. ASSUME NEW m \in Ranks
      PROVE  n <= m
  <2>1. m \in Nat /\ n \in Nat
    BY <1>1, <1>4
  <2>2. ~(m < n)
    BY <1>3, <1>4, <2>1, Zenon
  <2>3. QED
    BY <2>1, <2>2
<1>6. PICK k \in Able : Rank[k] = n
  BY <1>4 DEF Ranks
<1>7. \A o \in Able : Rank[k] <= Rank[o]
  BY <1>5, <1>6 DEF Ranks
<1>8. QED
  BY <1>6, <1>7 DEF Best

LEMMA CompiledIsExecutable ==
  ASSUME NEW K \in SUBSET Kernels, NEW q \in Requests, Compilable(K, q)
  PROVE  /\ Compile(K, q) \in [Families[q] -> Kernels]
         /\ Executable(K, Compile(K, q))
<1>1. \A family \in Families[q] : Best(K, family) \in K
  BY BestSupports DEF Compilable
<1>2. QED
  BY <1>1 DEF Compile, Executable

(* More kernels never hurt a plan. *)
LEMMA MoreKernels ==
  ASSUME NEW K, NEW L, K \subseteq L, NEW p, Executable(K, p)
  PROVE  Executable(L, p)
BY DEF Executable

(* Compilable and Compile read no variable but the kernels they are given. *)
LEMMA CacheTransparentNext ==
  CacheTransparent' <=>
    (~diverged' => \A q \in DOMAIN cache', r \in alive' :
                     /\ Compilable(kernels'[r], q)
                     /\ cache'[q] = Compile(kernels'[r], q))
BY DEF CacheTransparent, Compilable, Compile, Best

LEMMA InitStep == Init => IInv
BY PlanCacheAssumption
DEF Init, IInv, TypeOK, BorrowedIsAlive, ClonesAgree, CacheTransparent,
    TrustedPlansExecutable, Positions, NoPlan

LEMMA CloneStep ==
  ASSUME IInv, NEW r \in Registries, NEW c \in Registries, Clone(r, c)
  PROVE  IInv'
<1>1. TypeOK'
  BY DEF IInv, TypeOK, Clone
<1>2. BorrowedIsAlive'
  BY DEF IInv, BorrowedIsAlive, Clone
<1>3. \A d \in alive : d # c /\ kernels'[d] = kernels[d]
  BY DEF IInv, TypeOK, Clone
<1>4. kernels'[c] = kernels[r]
  BY DEF IInv, TypeOK, Clone
<1>5. ClonesAgree'
  BY <1>3, <1>4 DEF IInv, ClonesAgree, Clone
<1>6. CacheTransparent'
  <2>1. SUFFICES ASSUME ~diverged', NEW q \in DOMAIN cache', NEW d \in alive'
                 PROVE  /\ Compilable(kernels'[d], q)
                        /\ cache'[q] = Compile(kernels'[d], q)
    BY CacheTransparentNext
  <2>2. PICK e \in alive : kernels'[d] = kernels[e]
    BY <1>3, <1>4 DEF Clone
  <2>3. QED
    BY <2>1, <2>2 DEF IInv, CacheTransparent, Clone
<1>7. TrustedPlansExecutable'
  BY <1>3 DEF IInv, BorrowedIsAlive, TrustedPlansExecutable, Executable, TypeOK, Clone
<1>8. QED
  BY <1>1, <1>2, <1>5, <1>6, <1>7 DEF IInv

LEMMA DropStep ==
  ASSUME IInv, NEW r \in Registries, DropClone(r)
  PROVE  IInv'
<1>1. TypeOK'
  BY DEF IInv, TypeOK, DropClone
<1>2. BorrowedIsAlive'
  BY DEF IInv, BorrowedIsAlive, DropClone
<1>3. ClonesAgree'
  BY DEF IInv, ClonesAgree, DropClone
<1>4. CacheTransparent'
  BY CacheTransparentNext DEF IInv, CacheTransparent, DropClone
<1>5. TrustedPlansExecutable'
  BY DEF IInv, TrustedPlansExecutable, DropClone, Executable
<1>6. QED
  BY <1>1, <1>2, <1>3, <1>4, <1>5 DEF IInv

LEMMA RegisterStep ==
  ASSUME IInv, NEW r \in Registries, NEW k \in Kernels, Register(r, k)
  PROVE  IInv'
<1>1. TypeOK'
  BY DEF IInv, TypeOK, Register, NoPlan
<1>2. BorrowedIsAlive'
  BY DEF IInv, BorrowedIsAlive, Register
<1>3. ClonesAgree'
  <2>1. ~diverged' => alive' = {r}
    BY DEF Register
  <2>2. QED
    BY <2>1 DEF ClonesAgree
<1>4. CacheTransparent'
  BY DEF Register, NoPlan, CacheTransparent
<1>5. TrustedPlansExecutable'
  <2>1. \A d \in Registries : kernels[d] \subseteq kernels'[d]
    BY DEF IInv, TypeOK, Register
  <2>2. SUFFICES ASSUME NEW t \in trusted', pc'[t] = "holding"
                 PROVE  Executable(kernels'[user'[t]], plan'[t])
    BY DEF TrustedPlansExecutable, Executable
  <2>3. t \in trusted /\ pc[t] = "holding" /\ user'[t] = user[t] /\ plan'[t] = plan[t]
    BY <2>2 DEF Register
  <2>4. user[t] \in Registries /\ Executable(kernels[user[t]], plan[t])
    BY <2>3 DEF IInv, TypeOK, TrustedPlansExecutable
  <2>5. QED
    BY <2>1, <2>3, <2>4, MoreKernels
<1>6. QED
  BY <1>1, <1>2, <1>3, <1>4, <1>5 DEF IInv

LEMMA ClearStep ==
  ASSUME IInv, ClearCache
  PROVE  IInv'
<1>1. TypeOK'
  BY DEF IInv, TypeOK, ClearCache, NoPlan
<1>2. BorrowedIsAlive' /\ ClonesAgree'
  BY DEF IInv, BorrowedIsAlive, ClonesAgree, ClearCache
<1>3. CacheTransparent'
  BY CacheTransparentNext DEF ClearCache, NoPlan
<1>4. TrustedPlansExecutable'
  BY DEF IInv, TrustedPlansExecutable, Executable, ClearCache
<1>5. QED
  BY <1>1, <1>2, <1>3, <1>4 DEF IInv

LEMMA HitStep ==
  ASSUME IInv, NEW t \in Threads, NEW r \in Registries, NEW q \in Requests,
         Hit(t, r, q)
  PROVE  IInv'
<1>1. TypeOK'
  BY DEF IInv, TypeOK, Hit, Positions
<1>2. BorrowedIsAlive'
  BY DEF IInv, TypeOK, BorrowedIsAlive, Hit
<1>3. ClonesAgree'
  BY DEF IInv, ClonesAgree, Hit
<1>4. CacheTransparent'
  BY CacheTransparentNext DEF IInv, CacheTransparent, Hit
<1>5. TrustedPlansExecutable'
  <2>1. SUFFICES ASSUME NEW s \in trusted', pc'[s] = "holding"
                 PROVE  Executable(kernels'[user'[s]], plan'[s])
    BY DEF TrustedPlansExecutable, Executable
  <2>2. CASE s = t
    <3>1. ~diverged
      BY <2>1, <2>2 DEF Hit
    <3>2. /\ Compilable(kernels[r], q)
          /\ cache[q] = Compile(kernels[r], q)
          /\ kernels[r] \in SUBSET Kernels
      BY <3>1 DEF IInv, TypeOK, CacheTransparent, Hit
    <3>3. Executable(kernels[r], cache[q])
      BY <3>2, CompiledIsExecutable
    <3>4. user'[s] = r /\ plan'[s] = cache[q] /\ kernels' = kernels
      BY <2>2 DEF IInv, TypeOK, Hit
    <3>5. QED
      BY <3>3, <3>4
  <2>3. CASE s # t
    <3>1. /\ s \in trusted /\ s \in Threads
          /\ pc[s] = "holding" /\ user'[s] = user[s] /\ plan'[s] = plan[s]
          /\ kernels' = kernels
      BY <2>1, <2>3 DEF IInv, TypeOK, Hit
    <3>2. QED
      BY <3>1 DEF IInv, TrustedPlansExecutable
  <2>4. QED
    BY <2>2, <2>3
<1>6. QED
  BY <1>1, <1>2, <1>3, <1>4, <1>5 DEF IInv

LEMMA MissStep ==
  ASSUME IInv, NEW t \in Threads, NEW r \in Registries, NEW q \in Requests,
         Miss(t, r, q)
  PROVE  IInv'
<1>1. TypeOK'
  BY DEF IInv, TypeOK, Miss, Positions
<1>2. BorrowedIsAlive'
  BY DEF IInv, TypeOK, BorrowedIsAlive, Miss
<1>3. ClonesAgree'
  BY DEF IInv, ClonesAgree, Miss
<1>4. CacheTransparent'
  BY CacheTransparentNext DEF IInv, CacheTransparent, Miss
<1>5. TrustedPlansExecutable'
  BY DEF IInv, TypeOK, TrustedPlansExecutable, Miss, Executable
<1>6. QED
  BY <1>1, <1>2, <1>3, <1>4, <1>5 DEF IInv

LEMMA InsertStep ==
  ASSUME IInv, NEW t \in Threads, Insert(t)
  PROVE  IInv'
<1> DEFINE q == request[t]
           K == kernels[user[t]]
           compiled == Compile(K, q)
<1>1. /\ q \in Requests /\ K \in SUBSET Kernels /\ Compilable(K, q)
      /\ user[t] \in alive
      /\ DOMAIN cache' = DOMAIN cache \cup {q}
      /\ cache'[q] = compiled
      /\ \A c \in DOMAIN cache \ {q} : cache'[c] = cache[c]
  BY DEF IInv, TypeOK, BorrowedIsAlive, Insert
<1>2. compiled \in [Families[q] -> Kernels] /\ Executable(K, compiled)
  BY <1>1, CompiledIsExecutable
<1>3. TypeOK'
  BY <1>1, <1>2 DEF IInv, TypeOK, Insert, Positions
<1>4. BorrowedIsAlive'
  BY DEF IInv, TypeOK, BorrowedIsAlive, Insert
<1>5. ClonesAgree'
  BY DEF IInv, ClonesAgree, Insert
<1>6. CacheTransparent'
  <2>1. SUFFICES ASSUME ~diverged, NEW c \in DOMAIN cache', NEW r \in alive
                 PROVE  /\ Compilable(kernels[r], c)
                        /\ cache'[c] = Compile(kernels[r], c)
    BY CacheTransparentNext DEF Insert
  <2>2. CASE c = q
    <3>1. kernels[r] = K
      BY <1>1, <2>1 DEF IInv, ClonesAgree
    <3>2. QED
      BY <1>1, <2>2, <3>1
  <2>3. CASE c # q
    BY <1>1, <2>1, <2>3 DEF IInv, CacheTransparent
  <2>4. QED
    BY <2>2, <2>3
<1>7. TrustedPlansExecutable'
  <2>1. SUFFICES ASSUME NEW s \in trusted', pc'[s] = "holding"
                 PROVE  Executable(kernels[user[s]], plan'[s])
    BY DEF Insert, TrustedPlansExecutable, Executable
  <2>2. CASE s = t
    <3>1. plan'[s] = compiled
      BY <2>2 DEF IInv, TypeOK, Insert
    <3>2. QED
      BY <1>2, <2>2, <3>1
  <2>3. CASE s # t
    <3>1. s \in trusted /\ s \in Threads /\ pc[s] = "holding" /\ plan'[s] = plan[s]
      BY <2>1, <2>3 DEF IInv, TypeOK, Insert
    <3>2. QED
      BY <3>1 DEF IInv, TrustedPlansExecutable
  <2>4. QED
    BY <2>2, <2>3
<1>8. QED
  BY <1>3, <1>4, <1>5, <1>6, <1>7 DEF IInv

LEMMA ReturnStep ==
  ASSUME IInv, NEW t \in Threads, Reject(t) \/ Execute(t)
  PROVE  IInv'
<1>1. /\ UNCHANGED <<alive, kernels, cache, user, request, diverged, trusted>>
      /\ pc' = [pc EXCEPT ![t] = "idle"]
      /\ plan' = plan \/ plan' = [plan EXCEPT ![t] = NoPlan]
  BY DEF Reject, Execute
<1>2. \A s \in Threads : pc'[s] # "idle" =>
        pc[s] = pc'[s] /\ plan'[s] = plan[s]
  BY <1>1 DEF IInv, TypeOK
<1>3. TypeOK'
  <2>1. pc' \in [Threads -> Positions] /\ plan' = [s \in Threads |-> plan'[s]]
    BY <1>1 DEF IInv, TypeOK, Positions
  <2>2. QED
    BY <1>1, <1>2, <2>1 DEF IInv, TypeOK
<1>4. BorrowedIsAlive'
  BY <1>1, <1>2 DEF IInv, BorrowedIsAlive
<1>5. ClonesAgree'
  BY <1>1 DEF IInv, ClonesAgree
<1>6. CacheTransparent'
  BY <1>1, CacheTransparentNext DEF IInv, CacheTransparent
<1>7. TrustedPlansExecutable'
  BY <1>1, <1>2 DEF IInv, TypeOK, TrustedPlansExecutable, Executable
<1>8. QED
  BY <1>3, <1>4, <1>5, <1>6, <1>7 DEF IInv

LEMMA NextStep == IInv /\ [Next]_vars => IInv'
<1> SUFFICES ASSUME IInv, [Next]_vars PROVE IInv'
  OBVIOUS
<1>1. CASE UNCHANGED vars
  <2>1. TypeOK'
    BY <1>1 DEF vars, IInv, TypeOK
  <2>2. BorrowedIsAlive' /\ ClonesAgree'
    BY <1>1 DEF vars, IInv, BorrowedIsAlive, ClonesAgree
  <2>3. CacheTransparent'
    BY <1>1, CacheTransparentNext DEF vars, IInv, CacheTransparent
  <2>4. TrustedPlansExecutable'
    BY <1>1 DEF vars, IInv, TrustedPlansExecutable, Executable
  <2>5. QED
    BY <2>1, <2>2, <2>3, <2>4 DEF IInv
<1>2. CASE Next
  <2>1. CASE \E r, c \in Registries : Clone(r, c)
    BY <2>1, CloneStep
  <2>2. CASE \E r \in Registries : DropClone(r)
    BY <2>2, DropStep
  <2>3. CASE \E r \in Registries, k \in Kernels : Register(r, k)
    BY <2>3, RegisterStep
  <2>4. CASE ClearCache
    BY <2>4, ClearStep
  <2>5. CASE \E t \in Threads, r \in Registries, q \in Requests :
               Hit(t, r, q) \/ Miss(t, r, q)
    BY <2>5, HitStep, MissStep
  <2>6. CASE \E t \in Threads : Insert(t) \/ Reject(t) \/ Execute(t)
    BY <2>6, InsertStep, ReturnStep
  <2>7. QED
    BY <1>2, <2>1, <2>2, <2>3, <2>4, <2>5, <2>6 DEF Next
<1>3. QED
  BY <1>1, <1>2

(* The invariant of the shared cache (planner.rs KernelRegistry). *)
THEOREM Invariance == Spec => []IInv
BY InitStep, NextStep, PTL DEF Spec

(* While the clones agree, a cached plan is the one compiling now would     *)
(* return, for every clone (planner.rs compile_plan_bounded, register).     *)
THEOREM Transparency == Spec => []CacheTransparent
<1>1. IInv => CacheTransparent
  BY DEF IInv
<1>2. QED
  BY Invariance, <1>1, PTL

(* A plan compiled for its holder, or found while the clones agreed, names  *)
(* kernels its registry still has (planner.rs execute).                     *)
THEOREM HeldPlansExecutable == Spec => []TrustedPlansExecutable
<1>1. IInv => TrustedPlansExecutable
  BY DEF IInv
<1>2. QED
  BY Invariance, <1>1, PTL

=============================================================================
