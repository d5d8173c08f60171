--------------------------- MODULE QuantSessionProofs ---------------------------
(***************************************************************************)
(* What holds of the document of QuantSession, for all lists of commands:   *)
(* its ancestry is unbroken, a list is applied as its commands would be one *)
(* by one, and its readers agree on a swap.  And what holds of a result of  *)
(* calculate_risk, for all portfolios, measures and factors: every cell is  *)
(* what its trades add up to by themselves, and the work is done once.      *)
(*                                                                          *)
(* Each fold over trades, cells or keys becomes a chain a[0], a[1], ..,     *)
(* one link per element; what a pass keeps is then shown link by link:      *)
(* Kept for the trades of a cell, FillPass for the cells of the matrix.     *)
(***************************************************************************)
EXTENDS QuantSession, FiniteSetTheorems, SequenceTheorems, WellFoundedInduction, TLAPS

-----------------------------------------------------------------------------
(* The lineage. *)

LEMMA Hashed ==
  ASSUME NEW document, document = [field \in DocumentFields |-> document[field]]
  PROVE  /\ WithHash(document) = [field \in DocumentFields |-> WithHash(document)[field]]
         /\ WithHash(document).context_hash = ComputedHash(document)
         /\ \A field \in DocumentFields \ {"context_hash"} :
              WithHash(document)[field] = document[field]
         /\ \A field \in DocumentFields \ {"context_hash"} :
              Digest(ComputedHash(document))[field] = document[field]
BY DEF WithHash, ComputedHash, Digest, Hash, DocumentFields

(* A document that was just hashed has its own hash. *)
LEMMA OwnHash ==
  ASSUME NEW d, d = [field \in DocumentFields |-> d[field]], context' = WithHash(d)
  PROVE  HashOfAncestry'
<1>1. /\ context'.context_hash = ComputedHash(d)
      /\ context'.revision = d.revision /\ context'.branch_id = d.branch_id
      /\ context'.lineage = d.lineage /\ context'.resources = d.resources
  BY Hashed DEF DocumentFields
<1>2. PICK own : own = Digest(ComputedHash(d))
  OBVIOUS
<1>3. /\ own.revision = d.revision /\ own.branch_id = d.branch_id
      /\ own.lineage = d.lineage /\ own.resources = d.resources
  BY <1>2, Hashed DEF DocumentFields
<1>4. Digest(context'.context_hash) = own
  BY <1>1, <1>2
<1>5. QED
  BY <1>1, <1>3, <1>4 DEF HashOfAncestry, Digest

LEMMA NewDocument ==
  ASSUME Init
  PROVE  DocumentIInv
<1>1. MaxRevision \in Nat
  BY ContextAssumption DEF ContextAssumption
<1>2. PICK d : /\ context = WithHash(d)
               /\ d = [field \in DocumentFields |-> d[field]]
               /\ d.schema = CONTEXT_SCHEMA /\ d.revision = 0
               /\ d.lineage = <<>> /\ d.parent_hash = Absent
  BY DEF Init, New, DocumentFields
<1>3. /\ context = [field \in DocumentFields |-> context[field]]
      /\ context.schema = CONTEXT_SCHEMA /\ context.revision = 0
      /\ context.lineage = <<>> /\ context.parent_hash = Absent
      /\ context.branch_id = d.branch_id /\ context.resources = d.resources
      /\ context.context_hash = ComputedHash(d)
  BY <1>2, Hashed DEF DocumentFields
<1>4. <<>> \in Seq(ToSet(<<>>)) /\ DOMAIN <<>> = {}
  BY EmptySeq
<1>5. IsDocument(context)
  <2>1. context.lineage \in Seq(ToSet(context.lineage))
    BY <1>3, <1>4
  <2>2. QED
    BY <1>1, <1>3, <2>1 DEF IsDocument
<1>6. LineageUnbroken
  BY <1>3, <1>4 DEF LineageUnbroken, Chained
<1>7. HashOfAncestry
  <2>1. /\ Digest(ComputedHash(d)).revision = d.revision
        /\ Digest(ComputedHash(d)).branch_id = d.branch_id
        /\ Digest(ComputedHash(d)).lineage = d.lineage
        /\ Digest(ComputedHash(d)).resources = d.resources
    BY <1>2, Hashed DEF DocumentFields
  <2>2. QED
    BY <1>2, <1>3, <2>1 DEF HashOfAncestry
<1>8. QED
  BY <1>5, <1>6, <1>7 DEF DocumentIInv

LEMMA FunctionIsSeq ==
  ASSUME NEW T, NEW n \in Nat, NEW f \in [1 .. n -> T]
  PROVE  f \in Seq(T)
OBVIOUS

(* t is the chain s with one link more. *)
Longer(s, h, t, n) ==
  /\ t \in Seq(ToSet(t)) /\ t # <<>> /\ Last(t) = h
  /\ DOMAIN s = 1 .. n /\ DOMAIN t = 1 .. n + 1
  /\ \A i \in 1 .. n : t[i] = s[i] /\ SubSeq(t, 1, i - 1) = SubSeq(s, 1, i - 1)
  /\ t[n + 1] = h
  /\ SubSeq(t, 1, n) = s

LEMMA Linked ==
  ASSUME NEW s, s \in Seq(ToSet(s)), NEW h
  PROVE  \E n \in Nat : Longer(s, h, Append(s, h), n)
<1>1. PICK S : S = ToSet(s) \cup {h}
  OBVIOUS
<1>2. PICK n \in Nat : n = Len(s) /\ DOMAIN s = 1 .. n
  BY LenProperties
<1>3. s \in Seq(S)
  <2>1. \A i \in 1 .. n : s[i] \in S
    BY <1>1, <1>2 DEF ToSet
  <2>2. s = [i \in 1 .. n |-> s[i]]
    BY <1>2, LenProperties
  <2>3. s \in [1 .. n -> S]
    BY <2>1, <2>2
  <2>4. QED
    BY <2>3, FunctionIsSeq
<1>4. PICK t : t = Append(s, h)
  OBVIOUS
<1>5. /\ t \in Seq(S) /\ Len(t) = n + 1
      /\ \A i \in 1 .. n : t[i] = s[i]
      /\ t[n + 1] = h
  BY <1>1, <1>2, <1>3, <1>4, AppendProperties
<1>6. DOMAIN t = 1 .. n + 1
  BY <1>5, LenProperties
<1>7. t \in Seq(ToSet(t)) /\ t # <<>> /\ Last(t) = h
  <2>1. \A i \in 1 .. n + 1 : t[i] \in ToSet(t)
    BY <1>6 DEF ToSet
  <2>2. t \in [1 .. n + 1 -> ToSet(t)]
    <3>1. t = [i \in 1 .. n + 1 |-> t[i]]
      BY <1>5, <1>6, LenProperties
    <3>2. QED
      BY <2>1, <3>1
  <2>3. t # <<>>
    BY <1>5, EmptySeq
  <2>4. QED
    BY <1>5, <2>2, <2>3, FunctionIsSeq DEF Last
<1>8. ASSUME NEW k \in 0 .. n
      PROVE  SubSeq(t, 1, k) = SubSeq(s, 1, k)
  <2>1. SubSeq(t, 1, k) = [i \in 1 .. k |-> t[i]]
    BY <1>5
  <2>2. SubSeq(s, 1, k) = [i \in 1 .. k |-> s[i]]
    BY <1>2
  <2>3. \A i \in 1 .. k : t[i] = s[i]
    BY <1>5
  <2>4. QED
    BY <2>1, <2>2, <2>3
<1>9. SubSeq(s, 1, n) = s
  BY <1>2, <1>3, SubSeqFull
<1>10. \A i \in 1 .. n : i - 1 \in 0 .. n
  OBVIOUS
<1>11. Longer(s, h, t, n)
  <2>1. \A i \in 1 .. n : SubSeq(t, 1, i - 1) = SubSeq(s, 1, i - 1)
    BY <1>8, <1>10
  <2>2. SubSeq(t, 1, n) = s
    BY <1>8, <1>9
  <2>3. QED
    BY <1>2, <1>5, <1>6, <1>7, <2>1, <2>2 DEF Longer
<1>12. QED
  BY <1>4, <1>11

(* The next revision of an accepted document is one link further. *)
LEMMA DerivedKeeps ==
  ASSUME DocumentIInv, NEW changed, HashAccepted(context),
         context.revision # MaxRevision, context' = DerivedFrom(context, changed),
         edited' = FALSE
  PROVE  DocumentIInv'
<1>1. PICK d : d = [context EXCEPT !.resources = changed.resources,
                           !.runs = changed.runs,
                           !.parent_hash = context.context_hash,
                           !.lineage = IF context.context_hash = Absent THEN @
                                       ELSE Append(@, context.context_hash),
                           !.revision = context.revision + 1,
                           !.context_hash = Absent]
  OBVIOUS
<1>2. /\ context = [field \in DocumentFields |-> context[field]]
      /\ context.schema = CONTEXT_SCHEMA
      /\ context.revision \in 0 .. MaxRevision
      /\ context.lineage \in Seq(ToSet(context.lineage))
  BY DEF DocumentIInv, IsDocument
<1>3. /\ d = [field \in DocumentFields |-> d[field]]
      /\ d.schema = CONTEXT_SCHEMA
      /\ d.revision = context.revision + 1
      /\ d.branch_id = context.branch_id
      /\ d.parent_hash = context.context_hash
      /\ d.lineage = IF context.context_hash = Absent THEN context.lineage
                     ELSE Append(context.lineage, context.context_hash)
  BY <1>1, <1>2 DEF DocumentFields
<1>4. context' = WithHash(d)
  BY <1>1 DEF DerivedFrom
<1>5. /\ context' = [field \in DocumentFields |-> context'[field]]
      /\ context'.schema = CONTEXT_SCHEMA
      /\ context'.revision = context.revision + 1
      /\ context'.branch_id = context.branch_id
      /\ context'.parent_hash = context.context_hash
      /\ context'.lineage = IF context.context_hash = Absent THEN context.lineage
                            ELSE Append(context.lineage, context.context_hash)
  <2>1. /\ WithHash(d) = [field \in DocumentFields |-> WithHash(d)[field]]
        /\ \A field \in DocumentFields \ {"context_hash"} :
             WithHash(d)[field] = d[field]
    BY <1>3, Hashed
  <2>2. QED
    BY <1>3, <1>4, <2>1 DEF DocumentFields
<1>6. context'.revision \in 0 .. MaxRevision
  BY <1>2, <1>5, ContextAssumption DEF ContextAssumption
<1>7. HashOfAncestry'
  BY <1>3, <1>4, OwnHash
<1>8. CASE context.context_hash = Absent
  <2>1. context'.lineage = context.lineage /\ context'.parent_hash = Absent
    BY <1>5, <1>8
  <2>2. IsDocument(context')
    BY <1>2, <1>5, <1>6, <2>1 DEF IsDocument
  <2>3. LineageUnbroken'
    BY <2>1 DEF DocumentIInv, LineageUnbroken, Chained
  <2>4. QED
    BY <1>7, <2>2, <2>3 DEF DocumentIInv
<1>9. CASE context.context_hash # Absent
  <2>1. PICK h : h = context.context_hash
    OBVIOUS
  <2>2. h = ComputedHash(context)
    BY <1>9, <2>1 DEF HashAccepted, VerifyHash
  <2>3. /\ Digest(h).lineage = context.lineage
        /\ Digest(h).revision = context.revision
        /\ Digest(h).branch_id = context.branch_id
    BY <1>2, <2>2, Hashed DEF DocumentFields
  <2>a. PICK t : t = Append(context.lineage, h)
    OBVIOUS
  <2>b. PICK n \in Nat : Longer(context.lineage, h, t, n)
    BY <1>2, <2>a, Linked
  <2>4. /\ t \in Seq(ToSet(t)) /\ t # <<>> /\ Last(t) = h
        /\ DOMAIN context.lineage = 1 .. n /\ DOMAIN t = 1 .. n + 1
        /\ \A i \in 1 .. n : /\ t[i] = context.lineage[i]
                             /\ SubSeq(t, 1, i - 1) = SubSeq(context.lineage, 1, i - 1)
        /\ t[n + 1] = h
        /\ SubSeq(t, 1, n) = context.lineage
    BY <2>b DEF Longer
  <2>5. context'.lineage = t
    BY <1>5, <1>9, <2>1, <2>a
  <2>6. IsDocument(context')
    BY <1>5, <1>6, <2>4, <2>5 DEF IsDocument
  <2>7. ASSUME NEW i \in DOMAIN t
        PROVE  Digest(t[i]).lineage = SubSeq(t, 1, i - 1)
    <3>1. CASE i \in 1 .. n
      <4>1. Digest(context.lineage[i]).lineage = SubSeq(context.lineage, 1, i - 1)
        BY <2>4, <3>1 DEF DocumentIInv, LineageUnbroken, Chained
      <4>2. QED
        BY <2>4, <3>1, <4>1
    <3>2. CASE i = n + 1
      <4>1. i - 1 = n
        BY <3>2
      <4>2. QED
        BY <2>3, <2>4, <3>2, <4>1
    <3>3. QED
      BY <2>4, <3>1, <3>2
  <2>8. context'.revision - 1 = context.revision
    BY <1>2, <1>5
  <2>9. Chained'
    <3>1. \A i \in DOMAIN context'.lineage :
            Digest(context'.lineage[i]).lineage = SubSeq(context'.lineage, 1, i - 1)
      BY <2>5, <2>7
    <3>2. QED
      BY <3>1 DEF Chained, Digest
  <2>10. FollowsParent'
    <3>1. PICK parent : parent = Digest(h)
      OBVIOUS
    <3>2. /\ parent.revision = context'.revision - 1
          /\ parent.branch_id = context'.branch_id
          /\ context'.lineage = Append(parent.lineage, h)
      BY <1>5, <2>3, <2>5, <2>8, <2>a, <3>1
    <3>3. context'.parent_hash = h /\ Digest(context'.parent_hash) = parent
      BY <1>5, <2>1, <3>1
    <3>4. QED
      BY <3>2, <3>3 DEF FollowsParent, Digest
  <2>11. QED
    BY <1>7, <2>6, <2>9, <2>10 DEF DocumentIInv, LineageUnbroken
<1>10. QED
  BY <1>8, <1>9

(* After a fork the parent is the document that was forked, which need not  *)
(* be a link of the chain; the revision says so.                            *)
LEMMA ForkKeeps ==
  ASSUME DocumentIInv, NEW branch_id, context' = Fork(context, branch_id)
  PROVE  DocumentIInv'
<1>1. PICK d : d = [context EXCEPT !.branch_id = branch_id,
                                   !.parent_hash = context.context_hash,
                                   !.revision = 0,
                                   !.context_hash = Absent]
  OBVIOUS
<1>2. /\ d = [field \in DocumentFields |-> d[field]]
      /\ d.schema = CONTEXT_SCHEMA /\ d.revision = 0 /\ d.lineage = context.lineage
  BY <1>1 DEF DocumentIInv, IsDocument, DocumentFields
<1>3. /\ context' = [field \in DocumentFields |-> context'[field]]
      /\ context'.schema = CONTEXT_SCHEMA /\ context'.revision = 0
      /\ context'.lineage = context.lineage
  <2>1. /\ WithHash(d) = [field \in DocumentFields |-> WithHash(d)[field]]
        /\ \A field \in DocumentFields \ {"context_hash"} :
             WithHash(d)[field] = d[field]
    BY <1>2, Hashed
  <2>2. context' = WithHash(d)
    BY <1>1 DEF Fork
  <2>3. QED
    BY <1>2, <2>1, <2>2 DEF DocumentFields
<1>4. IsDocument(context')
  BY <1>3, ContextAssumption DEF DocumentIInv, IsDocument, ContextAssumption
<1>5. LineageUnbroken'
  BY <1>3 DEF DocumentIInv, LineageUnbroken, Chained
<1>6. HashOfAncestry'
  BY <1>1, <1>2, OwnHash DEF Fork
<1>7. QED
  BY <1>4, <1>5, <1>6 DEF DocumentIInv

(* with_run: the parent is the document itself, by its hash, stale or not.  *)
LEMMA WithRunKeeps ==
  ASSUME DocumentIInv, WithRun
  PROVE  DocumentIInv'
<1>1. PICK d : d = [context EXCEPT !.runs = Append(@, LocalRun),
                                   !.parent_hash = context.context_hash,
                                   !.context_hash = Absent,
                                   !.revision = @ + 1]
  OBVIOUS
<1>2. /\ context = [field \in DocumentFields |-> context[field]]
      /\ context.schema = CONTEXT_SCHEMA
      /\ context.revision \in 0 .. MaxRevision
      /\ context.lineage \in Seq(ToSet(context.lineage))
  BY DEF DocumentIInv, IsDocument
<1>3. /\ d = [field \in DocumentFields |-> d[field]]
      /\ d.schema = CONTEXT_SCHEMA
      /\ d.revision = context.revision + 1
      /\ d.branch_id = context.branch_id
      /\ d.parent_hash = context.context_hash
      /\ d.lineage = context.lineage
      /\ d.resources = context.resources
  BY <1>1, <1>2 DEF DocumentFields
<1>4. context' = WithHash(d) /\ edited' = edited /\ context.revision < MaxRevision
  BY <1>1 DEF WithRun
<1>5. /\ context' = [field \in DocumentFields |-> context'[field]]
      /\ context'.schema = CONTEXT_SCHEMA
      /\ context'.revision = context.revision + 1
      /\ context'.branch_id = context.branch_id
      /\ context'.parent_hash = context.context_hash
      /\ context'.lineage = context.lineage
      /\ context'.resources = context.resources
  BY <1>3, <1>4, Hashed DEF DocumentFields
<1>6. IsDocument(context')
  <2>1. context'.revision \in 0 .. MaxRevision
    BY <1>2, <1>4, <1>5, ContextAssumption DEF ContextAssumption
  <2>2. QED
    BY <1>2, <1>5, <2>1 DEF IsDocument
<1>7. Chained'
  BY <1>5 DEF DocumentIInv, LineageUnbroken, Chained
<1>8. ASSUME context'.parent_hash # Absent
      PROVE  FollowsParent'
  <2>1. PICK parent : parent = Digest(context.context_hash)
    OBVIOUS
  <2>2. /\ parent.revision = context.revision
        /\ parent.branch_id = context.branch_id
        /\ parent.lineage = context.lineage
        /\ parent.resources = context.resources \/ edited
    BY <1>5, <1>8, <2>1 DEF DocumentIInv, HashOfAncestry
  <2>3. context'.revision - 1 = context.revision
    BY <1>2, <1>5
  <2>4. Digest(context'.parent_hash) = parent
    BY <1>5, <2>1
  <2>5. QED
    BY <1>4, <1>5, <2>2, <2>3, <2>4 DEF FollowsParent, Digest
<1>9. HashOfAncestry'
  BY <1>3, <1>4, OwnHash
<1>10. QED
  BY <1>6, <1>7, <1>8, <1>9 DEF DocumentIInv, LineageUnbroken

(* A document that differs in its hash, or in its resources when they were  *)
(* edited by hand, keeps its ancestors.                                     *)
LEMMA AncestryKept ==
  ASSUME DocumentIInv, context' = [field \in DocumentFields |-> context'[field]],
         \A field \in DocumentFields \ {"context_hash", "resources"} :
           context'[field] = context[field],
         \/ edited'
         \/ edited' = edited /\ context'.resources = context.resources
  PROVE  IsDocument(context') /\ LineageUnbroken'
<1>1. /\ context'.schema = context.schema /\ context'.revision = context.revision
      /\ context'.lineage = context.lineage
      /\ context'.parent_hash = context.parent_hash
      /\ context'.branch_id = context.branch_id
  BY DEF DocumentFields
<1>2. IsDocument(context')
  BY <1>1 DEF DocumentIInv, IsDocument
<1>3. Chained'
  BY <1>1 DEF DocumentIInv, LineageUnbroken, Chained
<1>4. ASSUME context'.parent_hash # Absent, context'.revision > 0
      PROVE  FollowsParent'
  <2>1. FollowsParent
    BY <1>1, <1>4 DEF DocumentIInv, LineageUnbroken
  <2>2. QED
    BY <1>1, <2>1 DEF FollowsParent, Digest
<1>5. QED
  BY <1>2, <1>3, <1>4 DEF LineageUnbroken

LEMMA DropHashKeeps ==
  ASSUME DocumentIInv, DropHash
  PROVE  DocumentIInv'
<1>1. /\ context' = [field \in DocumentFields |-> context'[field]]
      /\ \A field \in DocumentFields \ {"context_hash"} : context'[field] = context[field]
      /\ context'.context_hash = Absent /\ edited' = edited
  BY DEF DropHash, DocumentIInv, IsDocument, DocumentFields
<1>2. context'.resources = context.resources
  BY <1>1 DEF DocumentFields
<1>3. IsDocument(context') /\ LineageUnbroken'
  BY <1>1, <1>2, AncestryKept
<1>4. HashOfAncestry'
  BY <1>1 DEF HashOfAncestry
<1>5. QED
  BY <1>3, <1>4 DEF DocumentIInv

LEMMA RehashKeeps ==
  ASSUME DocumentIInv, Rehash
  PROVE  DocumentIInv'
<1>1. context = [field \in DocumentFields |-> context[field]]
  BY DEF DocumentIInv, IsDocument
<1>2. context' = WithHash(context) /\ edited' = edited
  BY DEF Rehash
<1>3. /\ context' = [field \in DocumentFields |-> context'[field]]
      /\ \A field \in DocumentFields \ {"context_hash"} : context'[field] = context[field]
  BY <1>1, <1>2, Hashed
<1>4. context'.resources = context.resources
  BY <1>3 DEF DocumentFields
<1>5. IsDocument(context') /\ LineageUnbroken'
  BY <1>2, <1>3, <1>4, AncestryKept
<1>6. HashOfAncestry'
  BY <1>1, <1>2, OwnHash
<1>7. QED
  BY <1>5, <1>6 DEF DocumentIInv

LEMMA EditKeeps ==
  ASSUME DocumentIInv, NEW kind, EditByHand(kind)
  PROVE  DocumentIInv'
<1>1. /\ context' = [field \in DocumentFields |-> context'[field]]
      /\ \A field \in DocumentFields \ {"resources"} : context'[field] = context[field]
      /\ edited'
  BY DEF EditByHand, DocumentIInv, IsDocument, DocumentFields
<1>2. IsDocument(context') /\ LineageUnbroken'
  BY <1>1, AncestryKept
<1>3. HashOfAncestry'
  <2>1. /\ context'.context_hash = context.context_hash
        /\ context'.revision = context.revision /\ context'.lineage = context.lineage
        /\ context'.branch_id = context.branch_id
    BY <1>1 DEF DocumentFields
  <2>2. QED
    BY <1>1, <2>1 DEF DocumentIInv, HashOfAncestry, Digest
<1>4. QED
  BY <1>2, <1>3 DEF DocumentIInv

LEMMA SameDocument ==
  ASSUME DocumentIInv, UNCHANGED <<context, edited>>
  PROVE  DocumentIInv'
BY DEF DocumentIInv, IsDocument, LineageUnbroken, Chained, FollowsParent, HashOfAncestry

(* Whatever is applied, the answer is an error or the next revision. *)
LEMMA AppliedKeeps ==
  ASSUME DocumentIInv, NEW commands, Keep(Apply(context, commands))
  PROVE  DocumentIInv'
<1>1. PICK response : response = Apply(context, commands)
  OBVIOUS
<1>2. CASE response.error # Absent
  BY <1>1, <1>2, SameDocument DEF Keep
<1>3. CASE response.error = Absent
  <2>1. context' = response.context /\ edited' = FALSE
    BY <1>1, <1>3 DEF Keep
  <2>2. /\ HashAccepted(context) /\ context.revision # MaxRevision
        /\ response.context = DerivedFrom(context, AfterCommands(context, commands))
    BY <1>1, <1>3, ContextAssumption DEF Apply, Refused, ContextAssumption, Errors
  <2>3. QED
    BY <2>1, <2>2, DerivedKeeps
<1>4. QED
  BY <1>2, <1>3

LEMMA SessionStepKeeps ==
  ASSUME DocumentIInv, [Next]_vars
  PROVE  DocumentIInv'
<1>1. ASSUME NEW batch, ApplyContext(batch)
      PROVE  DocumentIInv'
  BY <1>1, AppliedKeeps DEF ApplyContext
<1>2. ASSUME NEW mutations, ApplyMutations(mutations)
      PROVE  DocumentIInv'
  <2>1. CASE {i \in DOMAIN mutations : mutations[i].op = "fork"} = {}
    BY <1>2, <2>1, AppliedKeeps DEF ApplyMutations, ApplyTyped
  <2>2. CASE {i \in DOMAIN mutations : mutations[i].op = "fork"} # {}
    <3>1. PICK b : b = mutations[Min({i \in DOMAIN mutations :
                                        mutations[i].op = "fork"})].branch_id
      OBVIOUS
    <3>2. Keep([error |-> Absent, ref |-> Absent, context |-> Fork(context, b)])
      BY <1>2, <2>2, <3>1 DEF ApplyMutations, ApplyTyped
    <3>3. context' = Fork(context, b)
      BY <3>2 DEF Keep
    <3>4. QED
      BY <3>3, ForkKeeps
  <2>3. QED
    BY <2>1, <2>2
<1>3. ASSUME NEW ask, NEW references, RiskByName(ask) \/ RiskByReference(ask, references)
      PROVE  DocumentIInv'
  BY <1>3, SameDocument DEF RiskByName, RiskByReference, Responds
<1>4. ASSUME NEW operation_id, Price(operation_id)
      PROVE  DocumentIInv'
  BY <1>4, SameDocument DEF Price
<1>5. CASE ReadAnswer \/ UNCHANGED vars
  BY <1>5, SameDocument DEF ReadAnswer, vars
<1>6. QED
  BY <1>1, <1>2, <1>3, <1>4, <1>5, WithRunKeeps, DropHashKeeps, RehashKeeps, EditKeeps
     DEF Next, Request

(* However a client applies, forks and records runs, edits its resources,   *)
(* drops the hash or makes it anew.                                         *)
THEOREM DocumentInvariance == Spec => []DocumentIInv
<1>1. Init => DocumentIInv
  BY NewDocument
<1>2. DocumentIInv /\ [Next]_vars => DocumentIInv'
  BY SessionStepKeeps
<1>3. QED
  BY <1>1, <1>2, PTL DEF Spec

(* Each hash of the lineage is that of a document whose lineage is what     *)
(* comes before it; a revision follows its parent, and if the resources     *)
(* changed other than by hand, the parent is the last link.                 *)
THEOREM UnbrokenLineage == Spec => []LineageUnbroken
<1>1. DocumentIInv => LineageUnbroken
  BY DEF DocumentIInv
<1>2. QED
  BY <1>1, DocumentInvariance, PTL

-----------------------------------------------------------------------------
(* A list of commands. *)

(* Induction, for a set of numbers instead of an operator.                  *)
LEMMA SetInduction ==
  ASSUME NEW T, 0 \in T, \A k \in Nat : k \in T => k + 1 \in T
  PROVE  Nat \subseteq T
<1> DEFINE Less == OpToRel(<, Nat)
           Rest == Nat \ T
<1>1. IsWellFoundedOn(Less, Nat)
  BY NatLessThanWellFounded
<1>2. \A m, n \in Nat : m < n => <<m, n>> \in Less
  <2>1. Less = {ss \in Nat \X Nat : ss[1] < ss[2]}
    BY Zenon DEF OpToRel
  <2> HIDE DEF Less
  <2>2. QED
    BY <2>1
<1>3. Rest \subseteq Nat
  OBVIOUS
<1> HIDE DEF Less
<1>4. SUFFICES ASSUME Rest # {}
               PROVE  FALSE
  OBVIOUS
<1> HIDE DEF Rest
<1>5. PICK n \in Rest : \A m \in Rest : ~(<<m, n>> \in Less)
  <2>1. \A S, R : IsWellFoundedOn(Less, S) /\ R \subseteq S /\ R # {} =>
                 \E n \in R : \A m \in R : ~(<<m, n>> \in Less)
    BY WFMin, Zenon
  <2>2. QED
    BY <1>1, <1>3, <1>4, <2>1, Zenon
<1>6. n \in Nat /\ n \notin T
  BY <1>5 DEF Rest
<1>7. n - 1 \in Nat /\ n - 1 < n
  BY <1>6
<1>8. n - 1 \in T
  BY <1>2, <1>5, <1>6, <1>7 DEF Rest
<1>9. (n - 1) + 1 = n
  BY <1>6
<1>10. QED
  BY <1>6, <1>7, <1>8, <1>9

(* The folds: over a list of commands, performed on one copy or sent one by *)
(* one; and those of calculate_risk, each with its parameters.              *)
Advance(way, p, q, r, done, x) ==
  IF way = "alone" THEN SendAlone(done, x)
  ELSE IF way = "index" THEN Indexed(done, x)
  ELSE IF way = "base" THEN BaseValue(done, x)
  ELSE IF way = "held" THEN done + p[x.product] * x.quantity
  ELSE IF way = "value" THEN done + ValueTerm(x)
  ELSE IF way = "trade" THEN AddTrade(done, x, p, q, r)
  ELSE IF way = "term" THEN done + Term(x, p, q, r)
  ELSE IF way = "cell" THEN FillCell(done, x, p, q, r)
  ELSE Perform(done, x)

IsFold(way, p, q, r, start, commands, n, iter) ==
  iter = [s \in SUBSET (1 .. n) |->
            IF s = {} THEN start
            ELSE Advance(way, p, q, r, iter[s \ {Max(s)}], commands[Max(s)])]

LEMMA MaxFacts ==
  ASSUME NEW n \in Nat, NEW s \in SUBSET (1 .. n + 1), n + 1 \in s
  PROVE  Max(s) = n + 1
<1>1. n + 1 \in s /\ \A y \in s : n + 1 >= y
  OBVIOUS
<1>2. \A x \in s : (\A y \in s : x >= y) => x = n + 1
  OBVIOUS
<1>3. QED
  BY <1>1, <1>2 DEF Max


LEMMA FoldExists ==
  ASSUME NEW way, NEW p, NEW q, NEW r, NEW start, NEW commands, NEW n \in Nat
  PROVE  \E f : IsFold(way, p, q, r, start, commands, n, f)
<1> DEFINE T == {k \in Nat : \E f : IsFold(way, p, q, r, start, commands, k, f)}
<1>1. 0 \in T
  <2>1. IsFold(way, p, q, r, start, commands, 0, [s \in {{}} |-> start])
    <3>1. SUBSET (1 .. 0) = {{}}
      OBVIOUS
    <3>2. QED
      BY <3>1, Zenon DEF IsFold
  <2>2. QED
    BY <2>1
<1>2. ASSUME NEW k \in Nat, k \in T
      PROVE  k + 1 \in T
  <2>1. PICK f : IsFold(way, p, q, r, start, commands, k, f)
    BY <1>2
  <2>2. PICK g : g = [s \in SUBSET (1 .. k + 1) |->
                        IF k + 1 \in s
                        THEN Advance(way, p, q, r, f[s \ {k + 1}], commands[k + 1]) ELSE f[s]]
    OBVIOUS
  <2>3. ASSUME NEW s \in SUBSET (1 .. k + 1)
        PROVE  g[s] = IF s = {} THEN start
                      ELSE Advance(way, p, q, r, g[s \ {Max(s)}], commands[Max(s)])
    <3>1. CASE k + 1 \in s
      <4>1. Max(s) = k + 1
        BY <3>1, MaxFacts
      <4>2. s \ {k + 1} \in SUBSET (1 .. k + 1) /\ k + 1 \notin s \ {k + 1}
        OBVIOUS
      <4>3. g[s \ {k + 1}] = f[s \ {k + 1}]
        BY <2>2, <4>2, Zenon
      <4>4. QED
        BY <2>2, <3>1, <4>1, <4>3, Zenon
    <3>2. CASE k + 1 \notin s
      <4>1. s \in SUBSET (1 .. k)
        BY <3>2
      <4>2. g[s] = f[s]
        BY <2>2, <3>2, Zenon
      <4>3. s = {} => g[s] = start
        BY <2>1, <4>1, <4>2, Zenon DEF IsFold
      <4>4. ASSUME s # {}
            PROVE  g[s] = Advance(way, p, q, r, g[s \ {Max(s)}], commands[Max(s)])
        <5>1. f[s] = Advance(way, p, q, r, f[s \ {Max(s)}], commands[Max(s)])
          BY <2>1, <4>1, <4>4, Zenon DEF IsFold
        <5>2. s \ {Max(s)} \in SUBSET (1 .. k + 1) /\ k + 1 \notin s \ {Max(s)}
          BY <3>2
        <5>3. g[s \ {Max(s)}] = f[s \ {Max(s)}]
          BY <2>2, <5>2, Zenon
        <5>4. QED
          BY <4>2, <5>1, <5>3, Zenon
      <4>5. QED
        BY <4>3, <4>4, Zenon
    <3>3. QED
      BY <3>1, <3>2
  <2>4. g = [s \in SUBSET (1 .. k + 1) |-> g[s]]
    BY <2>2, Zenon
  <2>5. IsFold(way, p, q, r, start, commands, k + 1, g)
    BY <2>3, <2>4, Zenon DEF IsFold
  <2>6. QED
    BY <2>5
<1>3. Nat \subseteq T
  <2> HIDE DEF T
  <2>1. QED
    BY <1>1, <1>2, SetInduction
<1>4. QED
  BY <1>3

(* A fold is the last of a chain, one link for each command. *)
IsChain(way, p, q, r, start, commands, n, a) ==
  /\ a[0] = start
  /\ \A k \in Nat : k < n => a[k + 1] = Advance(way, p, q, r, a[k], commands[k + 1])

LEMMA FoldIsChain ==
  ASSUME NEW way, NEW p, NEW q, NEW r, NEW start, NEW commands, NEW n \in Nat, NEW f,
         IsFold(way, p, q, r, start, commands, n, f)
  PROVE  \E a : IsChain(way, p, q, r, start, commands, n, a) /\ a[n] = f[1 .. n]
<1>1. PICK a : a = [k \in 0 .. n |-> f[1 .. k]]
  OBVIOUS
<1>2. a[n] = f[1 .. n] /\ 0 \in 0 .. n
  BY <1>1
<1>3. a[0] = start
  <2>1. 1 .. 0 = {} /\ 1 .. 0 \in SUBSET (1 .. n)
    OBVIOUS
  <2>2. f[{}] = start
    BY <2>1, Zenon DEF IsFold
  <2>3. QED
    BY <1>1, <1>2, <2>1, <2>2
<1>4. ASSUME NEW k \in Nat, k < n
      PROVE  a[k + 1] = Advance(way, p, q, r, a[k], commands[k + 1])
  <2>1. k \in 0 .. n /\ k + 1 \in 0 .. n /\ 1 .. k + 1 \in SUBSET (1 .. n)
    BY <1>4
  <2>2. Max(1 .. k + 1) = k + 1
    BY MaxFacts
  <2>3. (1 .. k + 1) \ {k + 1} = 1 .. k /\ 1 .. k + 1 # {}
    OBVIOUS
  <2>4. f[1 .. k + 1] = Advance(way, p, q, r, f[(1 .. k + 1) \ {k + 1}], commands[k + 1])
    BY <2>1, <2>2, <2>3, Zenon DEF IsFold
  <2>5. a[k + 1] = f[1 .. k + 1] /\ a[k] = f[1 .. k]
    BY <1>1, <2>1
  <2>6. QED
    BY <2>3, <2>4, <2>5
<1>5. QED
  BY <1>2, <1>3, <1>4, Zenon DEF IsChain

LEMMA Performing ==
  ASSUME NEW document, NEW commands, NEW n \in Nat, DOMAIN commands = 1 .. n
  PROVE  \E a : /\ IsChain("listed", 0, 0, 0, Contents(document), commands, n, a)
                /\ AfterCommands(document, commands) = a[n]
<1> DEFINE iter == CHOOSE f : IsFold("listed", 0, 0, 0, Contents(document), commands, n, f)
<1>1. IsFold("listed", 0, 0, 0, Contents(document), commands, n, iter)
  BY FoldExists
<1>2. AfterCommands(document, commands) = iter[1 .. n]
  BY DEF AfterCommands, FoldLeft, MapThenFoldSet, IsFold, Advance
<1> HIDE DEF iter
<1>3. QED
  BY <1>1, <1>2, FoldIsChain

LEMMA OneCommand ==
  ASSUME NEW document, NEW commands, DOMAIN commands = 1 .. 1
  PROVE  AfterCommands(document, commands) = Perform(Contents(document), commands[1])
<1>1. \E a : /\ IsChain("listed", 0, 0, 0, Contents(document), commands, 1, a)
             /\ AfterCommands(document, commands) = a[1]
  <2>1. 1 \in Nat
    OBVIOUS
  <2>2. QED
    BY <2>1, Performing, Zenon
<1>2. PICK a : /\ IsChain("listed", 0, 0, 0, Contents(document), commands, 1, a)
               /\ AfterCommands(document, commands) = a[1]
  BY <1>1, Zenon
<1>3. a[0 + 1] = Advance("listed", 0, 0, 0, a[0], commands[0 + 1]) /\ a[0] = Contents(document)
  BY <1>2 DEF IsChain
<1>4. a[1] = Advance("listed", 0, 0, 0, Contents(document), commands[1])
  BY <1>3
<1>5. QED
  BY <1>2, <1>4 DEF Advance

LEMMA Sending ==
  ASSUME NEW commands, NEW n \in Nat, DOMAIN commands = 1 .. n
  PROVE  \E a : /\ IsChain("alone", 0, 0, 0, [error |-> Absent, context |-> context], commands, n, a)
                /\ OneByOne(commands) = a[n]
<1> DEFINE start == [error |-> Absent, context |-> context]
           iter == CHOOSE f : IsFold("alone", 0, 0, 0, start, commands, n, f)
<1>1. IsFold("alone", 0, 0, 0, start, commands, n, iter)
  BY FoldExists
<1>2. OneByOne(commands) = iter[1 .. n]
  BY DEF OneByOne, FoldLeft, MapThenFoldSet, IsFold, Advance
<1> HIDE DEF iter
<1>3. QED
  BY <1>1, <1>2, FoldIsChain

(* The contents of a copy, with the mark that a command was rejected. *)
IsContents(contents) ==
  contents = [resources |-> contents.resources, runs |-> contents.runs,
              rejected |-> contents.rejected]

LEMMA NewContents ==
  ASSUME NEW next, IsContents(next), NEW r, NEW u
  PROVE  /\ [next EXCEPT !.resources = r] =
              [resources |-> r, runs |-> next.runs, rejected |-> next.rejected]
         /\ [next EXCEPT !.runs = u] =
              [resources |-> next.resources, runs |-> u, rejected |-> next.rejected]
         /\ [next EXCEPT !.rejected = u] =
              [resources |-> next.resources, runs |-> next.runs, rejected |-> u]
BY DEF IsContents

LEMMA PerformFacts ==
  ASSUME NEW next, IsContents(next), ~next.rejected, next.rejected \in BOOLEAN,
         NEW command, command.op \in Operations
  PROVE  LET done == Perform(next, command)
         IN  /\ IsContents(done)
             /\ done.rejected = Rejected(next, command)
             /\ done.rejected \in BOOLEAN
<1>1. Rejected(next, command) \in BOOLEAN
  BY DEF Rejected
<1>2. CASE Rejected(next, command)
  <2>1. Perform(next, command) = [next EXCEPT !.rejected = TRUE]
    BY <1>2 DEF Perform
  <2>2. Perform(next, command) = [resources |-> next.resources, runs |-> next.runs,
                                  rejected |-> TRUE]
    BY <2>1, NewContents
  <2>3. QED
    BY <1>2, <2>2 DEF IsContents
<1>3. CASE ~Rejected(next, command)
  <2>1. Perform(next, command) = Execute(next, command)
    BY <1>3 DEF Perform
  <2>2. \E r, u : Execute(next, command) =
                    [resources |-> r, runs |-> u, rejected |-> next.rejected]
    <3>1. CASE command.op = "add"
      <4>1. PICK r : r = [next.resources EXCEPT ![command.kind] =
                            Insert(@, command.id, command.value)]
        OBVIOUS
      <4>2. Execute(next, command) = [next EXCEPT !.resources = r]
        BY <3>1, <4>1 DEF Execute
      <4>3. QED
        BY <4>2, NewContents, ZenonT(30)
    <3>2. CASE command.op = "remove"
      <4>1. PICK r : r = [next.resources EXCEPT ![command.kind] =
                            Without(@, command.id)]
        OBVIOUS
      <4>2. Execute(next, command) = [next EXCEPT !.resources = r]
        BY <3>2, <4>1 DEF Execute
      <4>3. QED
        BY <4>2, NewContents, ZenonT(30)
    <3>3. CASE command.op = "record_run"
      <4>1. PICK u : u = Append(next.runs, [operation_id |-> command.operation_id,
                                            record |-> command.record])
        OBVIOUS
      <4>2. Execute(next, command) = [next EXCEPT !.runs = u]
        BY <3>3, <4>1 DEF Execute
      <4>3. QED
        BY <4>2, NewContents, ZenonT(30)
    <3>4. QED
      BY <3>1, <3>2, <3>3 DEF Operations
  <2>3. PICK done : done = Perform(next, command)
    OBVIOUS
  <2>4. IsContents(done) /\ done.rejected = next.rejected
    BY <2>1, <2>2, <2>3 DEF IsContents
  <2>5. next.rejected = FALSE /\ Rejected(next, command) = FALSE
    BY <1>1, <1>3, Zenon
  <2>6. QED
    BY <2>3, <2>4, <2>5, Zenon
<1>4. QED
  BY <1>2, <1>3

LEMMA DerivedContents ==
  ASSUME NEW d, d = [field \in DocumentFields |-> d[field]], NEW next
  PROVE  LET new == DerivedFrom(d, next)
         IN  /\ new = [field \in DocumentFields |-> new[field]]
             /\ new.schema = d.schema
             /\ new.resources = next.resources
             /\ new.runs = next.runs
<1>1. PICK e : e = [d EXCEPT !.resources = next.resources,
                             !.runs = next.runs,
                             !.parent_hash = d.context_hash,
                             !.lineage = IF d.context_hash = Absent THEN @
                                         ELSE Append(@, d.context_hash),
                             !.revision = d.revision + 1,
                             !.context_hash = Absent]
  OBVIOUS
<1>2. /\ e = [field \in DocumentFields |-> e[field]]
      /\ e.schema = d.schema
      /\ e.resources = next.resources /\ e.runs = next.runs
  BY <1>1 DEF DocumentFields
<1>3. DerivedFrom(d, next) = WithHash(e)
  BY <1>1 DEF DerivedFrom
<1>4. QED
  BY <1>2, <1>3, Hashed DEF DocumentFields

(* What a list has done so far, and what its commands did one by one. *)
Agree(alone, listed) ==
  /\ IsContents(listed) /\ listed.rejected \in BOOLEAN
  /\ alone.error = Absent <=> ~listed.rejected
  /\ ~listed.rejected =>
       /\ alone.context = [field \in DocumentFields |-> alone.context[field]]
       /\ alone.context.schema = CONTEXT_SCHEMA
       /\ Contents(alone.context) = listed

(* One command sent alone does what it would do in a list. *)
LEMMA AloneFacts ==
  ASSUME MaxRevision > 0,
         NEW document, document = [field \in DocumentFields |-> document[field]],
         document.schema = CONTEXT_SCHEMA,
         NEW done, done.error = Absent, done.context = document,
         NEW command, command.op \in Operations,
         NEW next, next = Perform(Contents(document), command),
         NEW after, after = SendAlone(done, command)
  PROVE  Agree(after, next)
<1>1. PICK d : d = [document EXCEPT !.revision = 0, !.context_hash = Absent]
  OBVIOUS
<1>2. /\ d = [field \in DocumentFields |-> d[field]]
      /\ d.schema = CONTEXT_SCHEMA /\ d.revision = 0 /\ d.context_hash = Absent
      /\ d.resources = document.resources /\ d.runs = document.runs
  BY <1>1 DEF DocumentFields
<1>3. Contents(d) = Contents(document)
  BY <1>2 DEF Contents
<1>4. PICK commands : commands = <<command>>
  OBVIOUS
<1>5. DOMAIN commands = 1 .. 1 /\ commands[1] = command
  BY <1>4
<1>6. AfterCommands(d, commands) = Perform(Contents(document), command)
  BY <1>3, <1>5, OneCommand
<1>7. IsContents(next) /\ next.rejected \in BOOLEAN
  <2>1. /\ IsContents(Contents(document)) /\ ~Contents(document).rejected
        /\ Contents(document).rejected \in BOOLEAN
    BY DEF Contents, IsContents
  <2>2. QED
    BY <2>1, PerformFacts
<1>8. after = Apply(d, commands)
  BY <1>1, <1>4 DEF SendAlone
<1>9. CASE next.rejected
  <2>1. after = Refused("InvalidCommand")
    BY <1>2, <1>6, <1>8, <1>9 DEF Apply, HashAccepted
  <2>2. after.error # Absent
    BY <2>1, ContextAssumption DEF Refused, ContextAssumption, Errors
  <2>3. QED
    BY <1>7, <1>9, <2>2 DEF Agree
<1>10. CASE ~next.rejected
  <2>1. d.revision # MaxRevision
    BY <1>2
  <2>2. after.error = Absent /\ after.context = DerivedFrom(d, next)
    BY <1>2, <1>6, <1>8, <1>10, <2>1 DEF Apply, HashAccepted
  <2>3. PICK new : new = DerivedFrom(d, next)
    OBVIOUS
  <2>4. /\ new = [field \in DocumentFields |-> new[field]]
        /\ new.schema = CONTEXT_SCHEMA
        /\ new.resources = next.resources /\ new.runs = next.runs
    BY <1>2, <2>3, DerivedContents
  <2>5. Contents(new) = next
    BY <1>7, <1>10, <2>4 DEF Contents, IsContents
  <2>6. QED
    BY <1>7, <1>10, <2>2, <2>3, <2>4, <2>5 DEF Agree
<1>11. QED
  BY <1>9, <1>10

LEMMA AgreeStep ==
  ASSUME MaxRevision > 0, NEW alone, NEW listed, Agree(alone, listed),
         NEW command, command.op \in Operations
  PROVE  Agree(SendAlone(alone, command), Perform(listed, command))
<1>1. CASE listed.rejected
  <2>1. Perform(listed, command) = listed
    BY <1>1 DEF Perform
  <2>2. alone.error # Absent
    BY <1>1 DEF Agree
  <2>3. SendAlone(alone, command) = alone
    BY <2>2 DEF SendAlone
  <2>4. QED
    BY <2>1, <2>3
<1>2. CASE ~listed.rejected
  <2>1. PICK next : next = Perform(listed, command)
    OBVIOUS
  <2>2. IsContents(next) /\ next.rejected \in BOOLEAN
    BY <1>2, <2>1, PerformFacts DEF Agree
  <2>3. PICK document : document = alone.context
    OBVIOUS
  <2>4. /\ document = [field \in DocumentFields |-> document[field]]
        /\ document.schema = CONTEXT_SCHEMA
        /\ Contents(document) = listed
        /\ alone.error = Absent
    BY <1>2, <2>3 DEF Agree
  <2>5. next = Perform(Contents(document), command)
    BY <2>1, <2>4
  <2>6. QED
    BY <2>1, <2>3, <2>4, <2>5, AloneFacts
<1>3. QED
  BY <1>1, <1>2

LEMMA ListIsOneByOne ==
  ASSUME IsDocument(context), MaxRevision > 0,
         NEW commands, NEW n \in Nat, DOMAIN commands = 1 .. n,
         \A i \in 1 .. n : commands[i].op \in Operations
  PROVE  Agree(OneByOne(commands), AfterCommands(context, commands))
<1>1. PICK a : /\ IsChain("listed", 0, 0, 0, Contents(context), commands, n, a)
               /\ AfterCommands(context, commands) = a[n]
  BY Performing, Zenon
<1>2. PICK b : /\ IsChain("alone", 0, 0, 0, [error |-> Absent, context |-> context],
                          commands, n, b)
               /\ OneByOne(commands) = b[n]
  BY Sending, Zenon
<1> DEFINE T == {k \in Nat : k <= n => Agree(b[k], a[k])}
<1>3. 0 \in T
  <2>1. a[0] = Contents(context) /\ b[0] = [error |-> Absent, context |-> context]
    BY <1>1, <1>2, Zenon DEF IsChain
  <2>2. b[0].error = Absent /\ b[0].context = context
    BY <2>1
  <2>3. /\ IsContents(Contents(context))
        /\ Contents(context).rejected = FALSE
    BY DEF Contents, IsContents
  <2>4. Agree(b[0], a[0])
    BY <2>1, <2>2, <2>3 DEF Agree, IsDocument
  <2>5. QED
    BY <2>4
<1>4. ASSUME NEW k \in Nat, k \in T
      PROVE  k + 1 \in T
  <2>1. SUFFICES ASSUME k + 1 <= n
                 PROVE  Agree(b[k + 1], a[k + 1])
    OBVIOUS
  <2>2. k < n /\ k <= n /\ k + 1 \in 1 .. n
    BY <2>1
  <2>3. Agree(b[k], a[k]) /\ commands[k + 1].op \in Operations
    BY <1>4, <2>2
  <2>4. /\ a[k + 1] = Advance("listed", 0, 0, 0, a[k], commands[k + 1])
        /\ b[k + 1] = Advance("alone", 0, 0, 0, b[k], commands[k + 1])
    BY <1>1, <1>2, <2>2, Zenon DEF IsChain
  <2>5. /\ a[k + 1] = Perform(a[k], commands[k + 1])
        /\ b[k + 1] = SendAlone(b[k], commands[k + 1])
    BY <2>4 DEF Advance
  <2>6. QED
    BY <2>3, <2>5, AgreeStep
<1>5. n \in T
  <2> HIDE DEF T
  <2>1. QED
    BY <1>3, <1>4, SetInduction
<1>6. QED
  BY <1>1, <1>2, <1>5

LEMMA ListsAreTransactions ==
  ASSUME IsDocument(context)
  PROVE  Transactional
<1>1. SUFFICES ASSUME context.revision < MaxRevision, HashAccepted(context),
                      NEW batch \in Batches
               PROVE  LET together == Apply(context, batch)
                          apart == OneByOne(batch)
                      IN  /\ together.error = Absent <=> apart.error = Absent
                          /\ together.error = Absent =>
                               /\ together.context.resources = apart.context.resources
                               /\ together.context.runs = apart.context.runs
  BY DEF Transactional
<1>2. /\ MaxRevision > 0 /\ context.revision # MaxRevision
      /\ context.schema = CONTEXT_SCHEMA
      /\ context = [field \in DocumentFields |-> context[field]]
  BY <1>1, ContextAssumption DEF IsDocument, ContextAssumption
<1>3. PICK n \in Nat : DOMAIN batch = 1 .. n
  BY SessionAssumption, LenProperties DEF SessionAssumption
<1>4. \A i \in 1 .. n : batch[i].op \in Operations
  BY <1>3, SessionAssumption DEF SessionAssumption
<1>5. PICK apart : apart = OneByOne(batch)
  OBVIOUS
<1>6. PICK next : next = AfterCommands(context, batch)
  OBVIOUS
<1>7. Agree(apart, next)
  BY <1>2, <1>3, <1>4, <1>5, <1>6, ListIsOneByOne
<1>8. PICK together : together = Apply(context, batch)
  OBVIOUS
<1>9. CASE next.rejected
  <2>1. together.error = "InvalidCommand"
    BY <1>1, <1>2, <1>6, <1>8, <1>9 DEF Apply, Refused
  <2>2. together.error # Absent /\ apart.error # Absent
    BY <1>7, <1>9, <2>1, ContextAssumption DEF ContextAssumption, Errors, Agree
  <2>3. QED
    BY <1>5, <1>8, <2>2
<1>10. CASE ~next.rejected
  <2>1. /\ together.error = Absent
        /\ together.context = DerivedFrom(context, next)
    BY <1>1, <1>2, <1>6, <1>8, <1>10 DEF Apply
  <2>2. /\ together.context.resources = next.resources
        /\ together.context.runs = next.runs
    BY <1>2, <2>1, DerivedContents
  <2>3. /\ apart.error = Absent
        /\ apart.context.resources = next.resources
        /\ apart.context.runs = next.runs
    BY <1>7, <1>10 DEF Agree, Contents
  <2>4. QED
    BY <1>5, <1>8, <2>1, <2>2, <2>3
<1>11. QED
  BY <1>5, <1>8, <1>9, <1>10

(* With no command rejected, or one: a list that is applied leaves what its *)
(* commands would have left one by one, and one that is not leaves nothing. *)
THEOREM ListsAreTransactional == Spec => []Transactional
<1>1. DocumentIInv => Transactional
  BY ListsAreTransactions DEF DocumentIInv
<1>2. QED
  BY <1>1, DocumentInvariance, PTL

-----------------------------------------------------------------------------
(* The readings of a swap. *)

LEMMA WithoutTag ==
  ASSUME NEW object, NEW but, NEW key, key \notin but
  PROVE  /\ Lenient(Fields(object, but), key) = Lenient(object, key)
         /\ key \in DOMAIN Fields(object, but) <=> key \in DOMAIN object
         /\ key \in DOMAIN object => Fields(object, but)[key] = object[key]
BY DEF Lenient, Get, Fields

LEMMA FlatModel ==
  ASSUME NEW object, ModelSpecOf(object).variant = "hull_white_1f"
  PROVE  ModelSpecOf(object).params = Fields(object, {"kind", "model"})
BY DEF ModelSpecOf, SpecOf

LEMMA FlatProduct ==
  ASSUME NEW object, ProductSpecOf(object).variant = "ir_swap"
  PROVE  ProductSpecOf(object).params = Fields(object, {"kind", "product"})
BY DEF ProductSpecOf, SpecOf

(* The rate of the market, which a model may have instead. *)
LEMMA RateOfTheMarket ==
  ASSUME NEW market, NEW model, "r0" \in DOMAIN market \/ "r0" \notin DOMAIN model
  PROVE  Lenient(Insert(market, "r0", Get(market, "r0", Lenient(model, "r0"))), "r0")
           = Lenient(market, "r0")
BY DEF Lenient, Insert, Get, Default

LEMMA ReadingsOfASwap ==
  ReadingsAgree
<1>1. PICK market : market = Lookup(context, "market", "m")
  OBVIOUS
<1>2. PICK model : model = Lookup(context, "model", "hw")
  OBVIOUS
<1>3. PICK product : product = LookupResource(context.resources.product, Absent)
  OBVIOUS
<1>4. PICK priced : priced = PriceOwned(context, Unhashed("market"), Unhashed("model"), <<>>)
  OBVIOUS
<1>5. PICK batched : batched = NumericInput(MarketSpecOf(market), ModelSpecOf(model),
                                            ProductSpecOf(product))
  OBVIOUS
<1>6. PICK risked : risked = RiskInput(MarketSpecOf(market), ModelSpecOf(model),
                                       ProductSpecOf(product))
  OBVIOUS
<1>7. ASSUME Absent \notin {market, model, product},
             \A value \in {market, model, product} : Flat(value),
             "r0" \in DOMAIN market \/ "r0" \notin DOMAIN model,
             batched # Absent
      PROVE  /\ priced # Absent => priced = batched
             /\ risked # Absent => risked = batched
  <2>1. PICK m, k, p : /\ m = ModelSpecOf(model) /\ k = MarketSpecOf(market)
                       /\ p = ProductSpecOf(product)
    OBVIOUS
  <2>2. /\ m.variant = "hull_white_1f" /\ p.variant = "ir_swap"
        /\ HasSchedule(p.params)
        /\ batched = Parameters(m.params, k.params, p.params, Lenient,
                                p.params.payment_times, p.params.accruals)
    BY <1>5, <1>7, <2>1 DEF NumericInput
  <2>3. risked # Absent => risked = batched
    BY <1>6, <2>1, <2>2 DEF RiskInput
  <2>4. /\ m.params = Fields(model, {"kind", "model"})
        /\ k.params = Fields(market, {"kind"})
        /\ p.params = Fields(product, {"kind", "product"})
    BY <2>1, <2>2, FlatModel, FlatProduct DEF MarketSpecOf
  <2>5. ASSUME priced # Absent
        PROVE  priced = batched
    <3>1. /\ LookupResource(context.resources.market, Unhashed("market")) = market
          /\ LookupResource(context.resources.model, Unhashed("model")) = model
      BY <1>1, <1>2, SessionAssumption
         DEF SessionAssumption, LookupResource, Lookup, Unhashed, ResourceIds
    <3>2. UnwrapParams(market) = market /\ UnwrapParams(model) = model
            /\ UnwrapParams(product) = product
      BY <1>7 DEF UnwrapParams, Flat, Get
    <3>3. PICK rates : rates = Insert(market, "r0",
                                      Get(market, "r0", Lenient(model, "r0")))
      OBVIOUS
    <3>4. /\ HasSchedule(product)
          /\ priced = Parameters(model, rates, product, Lenient, product.payment_times,
                                 product.accruals)
      BY <1>3, <1>4, <2>5, <3>1, <3>2, <3>3 DEF PriceOwned
    <3>5. /\ p.params.payment_times = product.payment_times
          /\ p.params.accruals = product.accruals
      BY <2>4, <3>4, WithoutTag DEF HasSchedule
    <3>6. Lenient(rates, "r0") = Lenient(k.params, "r0")
      BY <1>7, <2>4, <3>3, RateOfTheMarket, WithoutTag
    <3>7. \A key \in {"a", "b", "sigma"} : Lenient(m.params, key) = Lenient(model, key)
      BY <2>4, WithoutTag
    <3>8. \A key \in {"notional", "fixed_rate", "use_par_rate", "start"} :
            Lenient(p.params, key) = Lenient(product, key)
      BY <2>4, WithoutTag
    <3>9. QED
      BY <2>2, <3>4, <3>5, <3>6, <3>7, <3>8 DEF Parameters
  <2>6. QED
    BY <2>3, <2>5
<1>8. QED
  BY <1>1, <1>2, <1>3, <1>4, <1>5, <1>6, <1>7 DEF ReadingsAgree

(* Whatever a document holds: price, portfolio and risk value the same swap *)
(* where the specs are flat and one of market and model has the rate.       *)
THEOREM ReadersAgree == Spec => []ReadingsAgree
BY ReadingsOfASwap, PTL

-----------------------------------------------------------------------------
(* The folds of calculate_risk as chains. *)

LEMMA Totalled ==
  ASSUME NEW f, NEW h, NEW scheme, NEW trades, NEW n \in Nat, DOMAIN trades = 1 .. n
  PROVE  \E a : /\ IsChain("term", f, h, scheme, 0, trades, n, a)
                /\ Total(trades, f, h, scheme) = a[n]
<1> DEFINE iter == CHOOSE g : IsFold("term", f, h, scheme, 0, trades, n, g)
<1>1. IsFold("term", f, h, scheme, 0, trades, n, iter)
  BY FoldExists
<1>2. Total(trades, f, h, scheme) = iter[1 .. n]
  BY DEF Total, FoldLeft, MapThenFoldSet, IsFold, Advance
<1> HIDE DEF iter
<1>3. \E a : IsChain("term", f, h, scheme, 0, trades, n, a) /\ a[n] = iter[1 .. n]
  BY <1>1, FoldIsChain
<1>4. QED
  BY <1>2, <1>3, Zenon

LEMMA Valued ==
  ASSUME NEW trades, NEW n \in Nat, DOMAIN trades = 1 .. n
  PROVE  \E a : /\ IsChain("value", 0, 0, 0, 0, trades, n, a)
                /\ TotalValue(trades) = a[n]
<1> DEFINE iter == CHOOSE g : IsFold("value", 0, 0, 0, 0, trades, n, g)
<1>1. IsFold("value", 0, 0, 0, 0, trades, n, iter)
  BY FoldExists
<1>2. TotalValue(trades) = iter[1 .. n]
  BY DEF TotalValue, FoldLeft, MapThenFoldSet, IsFold, Advance
<1> HIDE DEF iter
<1>3. \E a : IsChain("value", 0, 0, 0, 0, trades, n, a) /\ a[n] = iter[1 .. n]
  BY <1>1, FoldIsChain
<1>4. QED
  BY <1>2, <1>3, Zenon

HeldValue(base, trades) ==
  FoldLeft(LAMBDA sum, t : sum + base[t.product] * t.quantity, 0, trades)

LEMMA Held ==
  ASSUME NEW base, NEW trades, NEW n \in Nat, DOMAIN trades = 1 .. n
  PROVE  \E a : /\ IsChain("held", base, 0, 0, 0, trades, n, a)
                /\ HeldValue(base, trades) = a[n]
<1> DEFINE iter == CHOOSE g : IsFold("held", base, 0, 0, 0, trades, n, g)
<1>1. IsFold("held", base, 0, 0, 0, trades, n, iter)
  BY FoldExists
<1>2. HeldValue(base, trades) = iter[1 .. n]
  BY DEF HeldValue, FoldLeft, MapThenFoldSet, IsFold, Advance
<1> HIDE DEF iter
<1>3. \E a : IsChain("held", base, 0, 0, 0, trades, n, a) /\ a[n] = iter[1 .. n]
  BY <1>1, FoldIsChain
<1>4. QED
  BY <1>2, <1>3, Zenon

LEMMA Based ==
  ASSUME NEW trades, NEW n \in Nat, DOMAIN trades = 1 .. n
  PROVE  \E a : /\ IsChain("base", 0, 0, 0, EmptyGraph, trades, n, a)
                /\ FoldLeft(BaseValue, EmptyGraph, trades) = a[n]
<1> DEFINE iter == CHOOSE g : IsFold("base", 0, 0, 0, EmptyGraph, trades, n, g)
<1>1. IsFold("base", 0, 0, 0, EmptyGraph, trades, n, iter)
  BY FoldExists
<1>2. FoldLeft(BaseValue, EmptyGraph, trades) = iter[1 .. n]
  BY DEF FoldLeft, MapThenFoldSet, IsFold, Advance
<1> HIDE DEF iter
<1>3. \E a : IsChain("base", 0, 0, 0, EmptyGraph, trades, n, a) /\ a[n] = iter[1 .. n]
  BY <1>1, FoldIsChain
<1>4. QED
  BY <1>2, <1>3, Zenon

CellStart(graph) == [graph |-> graph, bumped |-> FALSE, total |-> 0]

TradedCell(graph, f, h, scheme, trades) ==
  FoldLeft(LAMBDA cell, trade : AddTrade(cell, trade, f, h, scheme), CellStart(graph), trades)

LEMMA Traded ==
  ASSUME NEW graph, NEW f, NEW h, NEW scheme, NEW trades, NEW n \in Nat, DOMAIN trades = 1 .. n
  PROVE  \E a : /\ IsChain("trade", f, h, scheme, CellStart(graph), trades, n, a)
                /\ TradedCell(graph, f, h, scheme, trades) = a[n]
<1> DEFINE iter == CHOOSE g : IsFold("trade", f, h, scheme, CellStart(graph), trades, n, g)
<1>1. IsFold("trade", f, h, scheme, CellStart(graph), trades, n, iter)
  BY FoldExists
<1>2. TradedCell(graph, f, h, scheme, trades) = iter[1 .. n]
  BY DEF TradedCell, FoldLeft, MapThenFoldSet, IsFold, Advance
<1> HIDE DEF iter
<1>3. \E a : IsChain("trade", f, h, scheme, CellStart(graph), trades, n, a) /\ a[n] = iter[1 .. n]
  BY <1>1, FoldIsChain
<1>4. QED
  BY <1>2, <1>3, Zenon

FilledGraph(start, ask, trades, total, cells) ==
  FoldLeft(LAMBDA graph, at : FillCell(graph, at, ask, trades, total), start, cells)

LEMMA Filled ==
  ASSUME NEW start, NEW ask, NEW trades, NEW total, NEW cells, NEW z \in Nat, DOMAIN cells = 1 .. z
  PROVE  \E a : /\ IsChain("cell", ask, trades, total, start, cells, z, a)
                /\ FilledGraph(start, ask, trades, total, cells) = a[z]
<1> DEFINE iter == CHOOSE g : IsFold("cell", ask, trades, total, start, cells, z, g)
<1>1. IsFold("cell", ask, trades, total, start, cells, z, iter)
  BY FoldExists
<1>2. FilledGraph(start, ask, trades, total, cells) = iter[1 .. z]
  BY DEF FilledGraph, FoldLeft, MapThenFoldSet, IsFold, Advance
<1> HIDE DEF iter
<1>3. \E a : IsChain("cell", ask, trades, total, start, cells, z, a) /\ a[z] = iter[1 .. z]
  BY <1>1, FoldIsChain
<1>4. QED
  BY <1>2, <1>3, Zenon

LEMMA IndexedOnce ==
  ASSUME NEW keys, NEW z \in Nat, DOMAIN keys = 1 .. z
  PROVE  \E a : /\ IsChain("index", 0, 0, 0, <<>>, keys, z, a)
                /\ FoldLeft(Indexed, <<>>, keys) = a[z]
<1> DEFINE iter == CHOOSE g : IsFold("index", 0, 0, 0, <<>>, keys, z, g)
<1>1. IsFold("index", 0, 0, 0, <<>>, keys, z, iter)
  BY FoldExists
<1>2. FoldLeft(Indexed, <<>>, keys) = iter[1 .. z]
  BY DEF FoldLeft, MapThenFoldSet, IsFold, Advance
<1> HIDE DEF iter
<1>3. \E a : IsChain("index", 0, 0, 0, <<>>, keys, z, a) /\ a[z] = iter[1 .. z]
  BY <1>1, FoldIsChain
<1>4. QED
  BY <1>2, <1>3, Zenon

-----------------------------------------------------------------------------
(* What is kept for a request. *)

LEMMA SameKey ==
  ASSUME NEW f, NEW g, f # Absent, g # Absent, Key(f) = Key(g)
  PROVE  /\ Target(f) = Target(g)
         /\ OfCurve(f) <=> OfCurve(g)
         /\ OfCurve(f) => f.bucket = g.bucket
<1>1. \A a, b, c, d, e, x : <<a, b, c, d>> # <<e, x>>
  OBVIOUS
<1>2. OfCurve(f) <=> OfCurve(g)
  BY <1>1 DEF Key
<1>3. CASE OfCurve(f)
  <2>1. f.bucket = g.bucket
    BY <1>2, <1>3 DEF Key
  <2>2. QED
    BY <1>2, <1>3, <2>1 DEF OfCurve, Target
<1>4. CASE ~OfCurve(f)
  <2>1. f.kind = g.kind /\ f.name = g.name
    BY <1>2, <1>4 DEF Key
  <2>2. QED
    BY <1>2, <1>4, <2>1 DEF Target
<1>5. QED
  BY <1>3, <1>4

Graph(base, tapes, bumps, calls, passes, values, methods, error) ==
  [base |-> base, tapes |-> tapes, bumps |-> bumps, valuation_calls |-> calls,
   aad_passes |-> passes, values |-> values, methods |-> methods, error |-> error]

IsGraph(g) == g = Graph(g.base, g.tapes, g.bumps, g.valuation_calls, g.aad_passes, g.values,
                        g.methods, g.error)

LEMMA GraphFields ==
  ASSUME NEW b, NEW t, NEW u, NEW v, NEW p, NEW x, NEW m, NEW e
  PROVE  LET g == Graph(b, t, u, v, p, x, m, e)
         IN  /\ g.base = b /\ g.tapes = t /\ g.bumps = u /\ g.valuation_calls = v
             /\ g.aad_passes = p /\ g.values = x /\ g.methods = m /\ g.error = e
             /\ IsGraph(g)
BY DEF Graph, IsGraph

(* A graph with some fields replaced. *)

LEMMA ErrorChange ==
  ASSUME NEW g, IsGraph(g), NEW e
  PROVE  [g EXCEPT !.error = e]
           = Graph(g.base, g.tapes, g.bumps, g.valuation_calls, g.aad_passes, g.values, g.methods, e)
<1>1. PICK gb, gt, gu, gv, gp, gx, gm, ge : g = Graph(gb, gt, gu, gv, gp, gx, gm, ge)
  BY Zenon DEF IsGraph
<1>2. /\ g.base = gb /\ g.tapes = gt /\ g.bumps = gu /\ g.valuation_calls = gv
      /\ g.aad_passes = gp /\ g.values = gx /\ g.methods = gm /\ g.error = ge
  BY <1>1, GraphFields
<1>3. [Graph(gb, gt, gu, gv, gp, gx, gm, ge) EXCEPT !.error = e]
        = Graph(gb, gt, gu, gv, gp, gx, gm, e)
  BY DEF Graph
<1>4. QED
  BY <1>1, <1>2, <1>3, Zenon

LEMMA BaseChange ==
  ASSUME NEW g, IsGraph(g), NEW v, NEW b
  PROVE  [g EXCEPT !.valuation_calls = v, !.base = b]
           = Graph(b, g.tapes, g.bumps, v, g.aad_passes, g.values, g.methods, g.error)
<1>1. PICK gb, gt, gu, gv, gp, gx, gm, ge : g = Graph(gb, gt, gu, gv, gp, gx, gm, ge)
  BY Zenon DEF IsGraph
<1>2. /\ g.base = gb /\ g.tapes = gt /\ g.bumps = gu /\ g.valuation_calls = gv
      /\ g.aad_passes = gp /\ g.values = gx /\ g.methods = gm /\ g.error = ge
  BY <1>1, GraphFields
<1>3. [Graph(gb, gt, gu, gv, gp, gx, gm, ge) EXCEPT !.valuation_calls = v, !.base = b]
        = Graph(b, gt, gu, v, gp, gx, gm, ge)
  <2>1. [Graph(gb, gt, gu, gv, gp, gx, gm, ge) EXCEPT !.valuation_calls = v]
          = Graph(gb, gt, gu, v, gp, gx, gm, ge)
    BY DEF Graph
  <2>2. [Graph(gb, gt, gu, v, gp, gx, gm, ge) EXCEPT !.base = b]
          = Graph(b, gt, gu, v, gp, gx, gm, ge)
    BY DEF Graph
  <2>3. \A f : [f EXCEPT !.valuation_calls = v, !.base = b] = [[f EXCEPT !.valuation_calls = v] EXCEPT !.base = b]
    OBVIOUS
  <2>4. QED
    BY <2>1, <2>2, <2>3
<1>4. QED
  BY <1>1, <1>2, <1>3, Zenon

LEMMA TapeChange ==
  ASSUME NEW g, IsGraph(g), NEW t, NEW p
  PROVE  [g EXCEPT !.tapes = t, !.aad_passes = p]
           = Graph(g.base, t, g.bumps, g.valuation_calls, p, g.values, g.methods, g.error)
<1>1. PICK gb, gt, gu, gv, gp, gx, gm, ge : g = Graph(gb, gt, gu, gv, gp, gx, gm, ge)
  BY Zenon DEF IsGraph
<1>2. /\ g.base = gb /\ g.tapes = gt /\ g.bumps = gu /\ g.valuation_calls = gv
      /\ g.aad_passes = gp /\ g.values = gx /\ g.methods = gm /\ g.error = ge
  BY <1>1, GraphFields
<1>3. [Graph(gb, gt, gu, gv, gp, gx, gm, ge) EXCEPT !.tapes = t, !.aad_passes = p]
        = Graph(gb, t, gu, gv, p, gx, gm, ge)
  <2>1. [Graph(gb, gt, gu, gv, gp, gx, gm, ge) EXCEPT !.tapes = t]
          = Graph(gb, t, gu, gv, gp, gx, gm, ge)
    BY DEF Graph
  <2>2. [Graph(gb, t, gu, gv, gp, gx, gm, ge) EXCEPT !.aad_passes = p]
          = Graph(gb, t, gu, gv, p, gx, gm, ge)
    BY DEF Graph
  <2>3. \A f : [f EXCEPT !.tapes = t, !.aad_passes = p] = [[f EXCEPT !.tapes = t] EXCEPT !.aad_passes = p]
    OBVIOUS
  <2>4. QED
    BY <2>1, <2>2, <2>3
<1>4. QED
  BY <1>1, <1>2, <1>3, Zenon

LEMMA BumpChange ==
  ASSUME NEW g, IsGraph(g), NEW v, NEW u
  PROVE  [g EXCEPT !.valuation_calls = v, !.bumps = u]
           = Graph(g.base, g.tapes, u, v, g.aad_passes, g.values, g.methods, g.error)
<1>1. PICK gb, gt, gu, gv, gp, gx, gm, ge : g = Graph(gb, gt, gu, gv, gp, gx, gm, ge)
  BY Zenon DEF IsGraph
<1>2. /\ g.base = gb /\ g.tapes = gt /\ g.bumps = gu /\ g.valuation_calls = gv
      /\ g.aad_passes = gp /\ g.values = gx /\ g.methods = gm /\ g.error = ge
  BY <1>1, GraphFields
<1>3. [Graph(gb, gt, gu, gv, gp, gx, gm, ge) EXCEPT !.valuation_calls = v, !.bumps = u]
        = Graph(gb, gt, u, v, gp, gx, gm, ge)
  <2>1. [Graph(gb, gt, gu, gv, gp, gx, gm, ge) EXCEPT !.valuation_calls = v]
          = Graph(gb, gt, gu, v, gp, gx, gm, ge)
    BY DEF Graph
  <2>2. [Graph(gb, gt, gu, v, gp, gx, gm, ge) EXCEPT !.bumps = u]
          = Graph(gb, gt, u, v, gp, gx, gm, ge)
    BY DEF Graph
  <2>3. \A f : [f EXCEPT !.valuation_calls = v, !.bumps = u] = [[f EXCEPT !.valuation_calls = v] EXCEPT !.bumps = u]
    OBVIOUS
  <2>4. QED
    BY <2>1, <2>2, <2>3
<1>4. QED
  BY <1>1, <1>2, <1>3, Zenon

LEMMA CellChange ==
  ASSUME NEW g, IsGraph(g), NEW x, NEW m
  PROVE  [g EXCEPT !.values = x, !.methods = m]
           = Graph(g.base, g.tapes, g.bumps, g.valuation_calls, g.aad_passes, x, m, g.error)
<1>1. PICK gb, gt, gu, gv, gp, gx, gm, ge : g = Graph(gb, gt, gu, gv, gp, gx, gm, ge)
  BY Zenon DEF IsGraph
<1>2. /\ g.base = gb /\ g.tapes = gt /\ g.bumps = gu /\ g.valuation_calls = gv
      /\ g.aad_passes = gp /\ g.values = gx /\ g.methods = gm /\ g.error = ge
  BY <1>1, GraphFields
<1>3. [Graph(gb, gt, gu, gv, gp, gx, gm, ge) EXCEPT !.values = x, !.methods = m]
        = Graph(gb, gt, gu, gv, gp, x, m, ge)
  <2>1. [Graph(gb, gt, gu, gv, gp, gx, gm, ge) EXCEPT !.values = x]
          = Graph(gb, gt, gu, gv, gp, x, gm, ge)
    BY DEF Graph
  <2>2. [Graph(gb, gt, gu, gv, gp, x, gm, ge) EXCEPT !.methods = m]
          = Graph(gb, gt, gu, gv, gp, x, m, ge)
    BY DEF Graph
  <2>3. \A f : [f EXCEPT !.values = x, !.methods = m] = [[f EXCEPT !.values = x] EXCEPT !.methods = m]
    OBVIOUS
  <2>4. QED
    BY <2>1, <2>2, <2>3
<1>4. QED
  BY <1>1, <1>2, <1>3, Zenon

Readable(trade) == trade.input # Absent /\ FixedCoupon(trade.input) # Absent
PointOf(trade) == At(trade.input, FixedCoupon(trade.input))

LEMMA BaseFacts ==
  ASSUME NEW g, IsGraph(g), g.error = Absent, NEW t
  PROVE  LET r == BaseValue(g, t)
         IN  /\ IsGraph(r)
             /\ r.error = Absent => Readable(t)
             /\ Readable(t) /\ t.product \in DOMAIN g.base => r = g
             /\ Readable(t) /\ t.product \notin DOMAIN g.base =>
                  r = Graph(Insert(g.base, t.product, Npv(PointOf(t))), g.tapes, g.bumps,
                            g.valuation_calls + 1, g.aad_passes, g.values, g.methods, g.error)
<1> DEFINE r == BaseValue(g, t)
<1>1. CASE ~Readable(t)
  <2>1. r = [g EXCEPT !.error = "InvalidRequest"]
    BY <1>1 DEF BaseValue, WithError, Readable
  <2>2. r = Graph(g.base, g.tapes, g.bumps, g.valuation_calls, g.aad_passes, g.values, g.methods,
                  "InvalidRequest")
    BY <2>1, ErrorChange
  <2>3. IsGraph(r) /\ r.error = "InvalidRequest"
    BY <2>2, GraphFields
  <2>4. QED
    BY <1>1, <2>3, RiskAssumption DEF RiskAssumption, RiskErrors
<1>2. CASE Readable(t) /\ t.product \in DOMAIN g.base
  BY <1>2 DEF BaseValue, Readable
<1>3. CASE Readable(t) /\ t.product \notin DOMAIN g.base
  <2>1. r = [g EXCEPT !.valuation_calls = @ + 1,
                      !.base = Insert(@, t.product, Npv(PointOf(t)))]
    BY <1>3, Zenon DEF BaseValue, Readable, PointOf
  <2>2. r = [g EXCEPT !.valuation_calls = g.valuation_calls + 1,
                      !.base = Insert(g.base, t.product, Npv(PointOf(t)))]
    BY <2>1
  <2>3. r = Graph(Insert(g.base, t.product, Npv(PointOf(t))), g.tapes, g.bumps,
                  g.valuation_calls + 1, g.aad_passes, g.values, g.methods, g.error)
    BY <2>2, BaseChange
  <2>4. IsGraph(r)
    BY <2>3, GraphFields
  <2>5. QED
    BY <1>3, <2>3, <2>4
<1>4. QED
  BY <1>1, <1>2, <1>3

(* Trades of a portfolio: the same product is read the same way. *)
Book(trades, n) ==
  /\ DOMAIN trades = 1 .. n
  /\ \A j, k \in 1 .. n : trades[j].product = trades[k].product => trades[j].input = trades[k].input

Products(trades, k) == {trades[j].product : j \in 1 .. k}

Priced(g, trades, k) ==
  /\ DOMAIN g.base = Products(trades, k) /\ IsFiniteSet(DOMAIN g.base)
  /\ \A j \in 1 .. k : /\ Readable(trades[j])
                       /\ g.base[trades[j].product] = Npv(PointOf(trades[j]))

BasePass(g, trades, k) ==
  /\ IsGraph(g)
  /\ g.error = Absent =>
       /\ Priced(g, trades, k)
       /\ g.tapes = {} /\ g.bumps = NoEntries /\ g.values = <<>> /\ g.methods = NoEntries
       /\ g.valuation_calls = Cardinality(DOMAIN g.base) /\ g.aad_passes = 0

LEMMA BasePassStarts ==
  ASSUME NEW trades
  PROVE  BasePass(EmptyGraph, trades, 0)
<1>1. EmptyGraph = Graph(NoEntries, {}, NoEntries, 0, 0, <<>>, NoEntries, Absent)
  BY DEF EmptyGraph, Graph
<1>2. /\ IsGraph(EmptyGraph) /\ EmptyGraph.base = NoEntries /\ EmptyGraph.tapes = {}
      /\ EmptyGraph.bumps = NoEntries /\ EmptyGraph.values = <<>> /\ EmptyGraph.methods = NoEntries
      /\ EmptyGraph.valuation_calls = 0 /\ EmptyGraph.aad_passes = 0
  BY <1>1, GraphFields
<1>3. DOMAIN NoEntries = {} /\ 1 .. 0 = {} /\ Products(trades, 0) = {}
  BY DEF NoEntries, Products
<1>4. IsFiniteSet({}) /\ Cardinality({}) = 0
  BY FS_EmptySet
<1>5. Priced(EmptyGraph, trades, 0)
  BY <1>2, <1>3, <1>4 DEF Priced
<1>6. QED
  BY <1>2, <1>3, <1>4, <1>5 DEF BasePass

LEMMA MoreProducts ==
  ASSUME NEW trades, NEW k \in Nat
  PROVE  Products(trades, k + 1) = Products(trades, k) \cup {trades[k + 1].product}
<1>1. 1 .. k + 1 = (1 .. k) \cup {k + 1}
  OBVIOUS
<1>2. QED
  BY <1>1, Zenon DEF Products

LEMMA BasePassStep ==
  ASSUME NEW trades, NEW n \in Nat, Book(trades, n), NEW k \in Nat, k < n, NEW g, BasePass(g, trades, k)
  PROVE  BasePass(BaseValue(g, trades[k + 1]), trades, k + 1)
<1> DEFINE t == trades[k + 1]
           r == BaseValue(g, t)
<1>1. CASE g.error # Absent
  <2>1. r = g
    BY <1>1, Zenon DEF BaseValue
  <2>2. QED
    BY <1>1, <2>1, Zenon DEF BasePass
<1>2. CASE g.error = Absent /\ r.error # Absent
  <2>1. IsGraph(r)
    BY <1>2, BaseFacts, Zenon DEF BasePass
  <2>2. QED
    BY <1>2, <2>1, Zenon DEF BasePass
<1>3. CASE g.error = Absent /\ r.error = Absent
  <2>1. /\ IsGraph(g) /\ Priced(g, trades, k)
        /\ g.tapes = {} /\ g.bumps = NoEntries /\ g.values = <<>> /\ g.methods = NoEntries
        /\ g.valuation_calls = Cardinality(DOMAIN g.base) /\ g.aad_passes = 0
    BY <1>3, Zenon DEF BasePass
  <2>2. Readable(t)
    BY <1>3, <2>1, BaseFacts, Zenon
  <2>3. k + 1 \in 1 .. n /\ \A j \in 1 .. k : j \in 1 .. n
    OBVIOUS
  <2>4. Products(trades, k + 1) = Products(trades, k) \cup {t.product}
    BY MoreProducts
  <2>5. \A j \in 1 .. k + 1 : j \in 1 .. k \/ j = k + 1
    OBVIOUS
  <2>6. CASE t.product \in DOMAIN g.base
    <3>1. r = g
      BY <1>3, <2>1, <2>2, <2>6, BaseFacts, Zenon
    <3>2. PICK i \in 1 .. k : trades[i].product = t.product
      BY <2>1, <2>6 DEF Priced, Products
    <3>3. trades[i].input = t.input
      BY <2>3, <3>2 DEF Book
    <3>4. g.base[t.product] = Npv(PointOf(t))
      BY <2>1, <3>2, <3>3 DEF Priced, PointOf
    <3>5. Priced(r, trades, k + 1)
      <4>1. DOMAIN g.base = Products(trades, k + 1)
        BY <2>1, <2>4, <2>6 DEF Priced
      <4>2. QED
        BY <2>1, <2>2, <2>5, <3>1, <3>4, <4>1, Zenon DEF Priced
    <3>6. QED
      BY <1>3, <2>1, <3>1, <3>5, Zenon DEF BasePass
  <2>7. CASE t.product \notin DOMAIN g.base
    <3> DEFINE b == Insert(g.base, t.product, Npv(PointOf(t)))
    <3>1. r = Graph(b, g.tapes, g.bumps, g.valuation_calls + 1, g.aad_passes, g.values, g.methods, g.error)
      BY <1>3, <2>1, <2>2, <2>7, BaseFacts, Zenon
    <3>2. /\ r.base = b /\ r.tapes = g.tapes /\ r.bumps = g.bumps
          /\ r.valuation_calls = g.valuation_calls + 1
          /\ r.aad_passes = g.aad_passes /\ r.values = g.values /\ r.methods = g.methods
          /\ IsGraph(r)
      BY <3>1, GraphFields
    <3>3. /\ DOMAIN b = DOMAIN g.base \cup {t.product}
          /\ b[t.product] = Npv(PointOf(t))
          /\ \A x \in DOMAIN g.base : b[x] = g.base[x]
      BY <2>7 DEF Insert
    <3>4. /\ IsFiniteSet(DOMAIN b)
          /\ Cardinality(DOMAIN b) = Cardinality(DOMAIN g.base) + 1
      <4>1. IsFiniteSet(DOMAIN g.base)
        BY <2>1, Zenon DEF Priced
      <4>2. /\ IsFiniteSet(DOMAIN g.base \cup {t.product})
            /\ Cardinality(DOMAIN g.base \cup {t.product}) = Cardinality(DOMAIN g.base) + 1
        BY <2>7, <4>1, FS_AddElement, Zenon
      <4>3. QED
        BY <3>3, <4>2, Zenon
    <3> HIDE DEF b, r, t
    <3>5. Priced(r, trades, k + 1)
      <4>1. DOMAIN b = Products(trades, k + 1)
        BY <2>1, <2>4, <3>3 DEF Priced
      <4>2. ASSUME NEW j \in 1 .. k
            PROVE  Readable(trades[j]) /\ b[trades[j].product] = Npv(PointOf(trades[j]))
        <5>1. trades[j].product \in DOMAIN g.base
          BY <2>1 DEF Priced, Products
        <5>2. QED
          BY <2>1, <3>3, <5>1, Zenon DEF Priced
      <4>3. QED
        BY <2>2, <2>5, <3>2, <3>3, <3>4, <4>1, <4>2, Zenon DEF Priced, t
    <3>6. QED
      BY <1>3, <2>1, <3>2, <3>4, <3>5 DEF BasePass, r, t
  <2>8. QED
    BY <2>6, <2>7
<1>4. QED
  BY <1>1, <1>2, <1>3

LEMMA BasePassEnds ==
  ASSUME NEW trades, NEW n \in Nat, Book(trades, n)
  PROVE  BasePass(FoldLeft(BaseValue, EmptyGraph, trades), trades, n)
<1>1. DOMAIN trades = 1 .. n
  BY DEF Book
<1>2. PICK a : /\ IsChain("base", 0, 0, 0, EmptyGraph, trades, n, a)
               /\ FoldLeft(BaseValue, EmptyGraph, trades) = a[n]
  BY <1>1, Based, Zenon
<1> DEFINE T == {k \in Nat : k <= n => BasePass(a[k], trades, k)}
<1>3. 0 \in T
  BY <1>2, BasePassStarts DEF IsChain
<1>4. ASSUME NEW k \in Nat, k \in T
      PROVE  k + 1 \in T
  <2>1. SUFFICES ASSUME k + 1 <= n
                 PROVE  BasePass(a[k + 1], trades, k + 1)
    OBVIOUS
  <2>2. k < n /\ k <= n
    BY <2>1
  <2>3. a[k + 1] = BaseValue(a[k], trades[k + 1])
    BY <1>2, <2>2 DEF IsChain, Advance
  <2>4. QED
    BY <1>4, <2>2, <2>3, BasePassStep
<1>5. n \in T
  <2> HIDE DEF T
  <2>1. QED
    BY <1>3, <1>4, SetInduction
<1>6. QED
  BY <1>2, <1>5

-----------------------------------------------------------------------------
(* One trade in one cell. *)

Each(scheme) == IF scheme = "central" THEN 2 ELSE 1

Shifted(trade, f, h, scheme) ==
  BumpValue(Npv(PointOf(trade)), PointOf(trade), Target(f), h, scheme)

(* Between two trades: what is kept is what each would compute by itself,   *)
(* and the work is that of what is kept.                                    *)
Kept(g, trades, n, h, scheme) ==
  /\ IsGraph(g) /\ g.error = Absent
  /\ Priced(g, trades, n)
  /\ IsFiniteSet(DOMAIN g.bumps) /\ IsFiniteSet(g.tapes)
  /\ g.valuation_calls = Cardinality(DOMAIN g.base) + Each(scheme) * Cardinality(DOMAIN g.bumps)
  /\ g.aad_passes = Cardinality(g.tapes)
  /\ \A j \in 1 .. n : \A f :
       f # Absent /\ BumpKey(trades[j].product, f) \in DOMAIN g.bumps =>
         /\ Target(f) # "unsupported"
         /\ g.bumps[BumpKey(trades[j].product, f)] = Shifted(trades[j], f, h, scheme)

LEMMA TapeKeeps ==
  ASSUME NEW g, NEW trades, NEW n, NEW h, NEW scheme, Kept(g, trades, n, h, scheme), NEW product
  PROVE  LET r == Tape(g, product)
         IN  /\ Kept(r, trades, n, h, scheme)
             /\ r.tapes = g.tapes \cup {product}
             /\ r.bumps = g.bumps /\ r.values = g.values /\ r.methods = g.methods
<1> DEFINE r == Tape(g, product)
<1>1. CASE product \in g.tapes
  <2>1. r = g
    BY <1>1 DEF Tape
  <2>2. QED
    BY <1>1, <2>1
<1>2. CASE product \notin g.tapes
  <2>1. IsGraph(g)
    BY Zenon DEF Kept
  <2>2. r = [g EXCEPT !.tapes = g.tapes \cup {product}, !.aad_passes = g.aad_passes + 1]
    BY <1>2 DEF Tape
  <2>3. r = Graph(g.base, g.tapes \cup {product}, g.bumps, g.valuation_calls, g.aad_passes + 1,
                  g.values, g.methods, g.error)
    BY <2>1, <2>2, TapeChange
  <2>4. /\ r.base = g.base /\ r.tapes = g.tapes \cup {product} /\ r.bumps = g.bumps
        /\ r.valuation_calls = g.valuation_calls /\ r.aad_passes = g.aad_passes + 1
        /\ r.values = g.values /\ r.methods = g.methods /\ r.error = g.error /\ IsGraph(r)
    BY <2>3, GraphFields
  <2>5. IsFiniteSet(g.tapes)
    BY Zenon DEF Kept
  <2>6. /\ IsFiniteSet(g.tapes \cup {product})
        /\ Cardinality(g.tapes \cup {product}) = Cardinality(g.tapes) + 1
    BY <1>2, <2>5, FS_AddElement, Zenon
  <2> HIDE DEF r
  <2>7. Kept(r, trades, n, h, scheme)
    BY <2>4, <2>6, Zenon DEF Kept, Priced
  <2>8. QED
    BY <2>4, <2>7 DEF r
<1>3. QED
  BY <1>1, <1>2

(* A product and the key of a factor find what they are for. *)
LEMMA SameBump ==
  ASSUME NEW trades, NEW n, Book(trades, n), NEW i \in 1 .. n, NEW j \in 1 .. n,
         NEW f, NEW g, f # Absent, g # Absent,
         BumpKey(trades[i].product, f) = BumpKey(trades[j].product, g), NEW h, NEW scheme
  PROVE  /\ Target(f) = Target(g)
         /\ Shifted(trades[i], f, h, scheme) = Shifted(trades[j], g, h, scheme)
<1>1. trades[i].product = trades[j].product /\ Key(f) = Key(g)
  BY DEF BumpKey
<1>2. trades[i].input = trades[j].input
  BY <1>1 DEF Book
<1>3. Target(f) = Target(g)
  BY <1>1, SameKey
<1>4. QED
  BY <1>2, <1>3 DEF Shifted, PointOf

BumpDone(r, g, trades, n, h, scheme, i, f) ==
  \/ r.error # Absent /\ IsGraph(r)
  \/ /\ Kept(r, trades, n, h, scheme)
     /\ DOMAIN r.bumps = DOMAIN g.bumps \cup {BumpKey(trades[i].product, f)}
     /\ r.bumps[BumpKey(trades[i].product, f)] = Shifted(trades[i], f, h, scheme)
     /\ r.tapes = g.tapes /\ r.values = g.values /\ r.methods = g.methods

LEMMA BumpKeeps ==
  ASSUME NEW g, NEW trades, NEW n \in Nat, Book(trades, n), NEW h, NEW scheme,
         Kept(g, trades, n, h, scheme),
         NEW i \in 1 .. n, NEW f, f # Absent
  PROVE  BumpDone(Bump(g, trades[i], f, h, scheme), g, trades, n, h, scheme, i, f)
<1> DEFINE t == trades[i]
           r == Bump(g, t, f, h, scheme)
           key == BumpKey(t.product, f)
           shifted == Shifted(t, f, h, scheme)
<1>1. /\ IsGraph(g) /\ Priced(g, trades, n)
      /\ g.base[t.product] = Npv(PointOf(t))
  BY Zenon DEF Kept, Priced
<1>2. CASE key \in DOMAIN g.bumps
  <2>1. r = g
    BY <1>2 DEF Bump
  <2>2. g.bumps[key] = shifted
    BY <1>2, Zenon DEF Kept
  <2>3. QED
    BY <1>2, <2>1, <2>2 DEF BumpDone
<1>3. CASE key \notin DOMAIN g.bumps /\ Target(f) = "unsupported"
  <2>1. r = [g EXCEPT !.error = "UnsupportedMeasure"]
    BY <1>3 DEF Bump, WithError
  <2>2. r = Graph(g.base, g.tapes, g.bumps, g.valuation_calls, g.aad_passes, g.values, g.methods,
                  "UnsupportedMeasure")
    BY <1>1, <2>1, ErrorChange
  <2>3. r.error = "UnsupportedMeasure" /\ IsGraph(r)
    BY <2>2, GraphFields
  <2>4. QED
    BY <2>3, RiskAssumption DEF RiskAssumption, RiskErrors, BumpDone
<1>4. CASE key \notin DOMAIN g.bumps /\ Target(f) # "unsupported"
  <2> DEFINE u == Insert(g.bumps, key, shifted)
             v == g.valuation_calls + Each(scheme)
  <2>1. r = [g EXCEPT !.valuation_calls = v, !.bumps = u]
    <3>1. r = [g EXCEPT !.valuation_calls = @ + Each(scheme),
                        !.bumps = Insert(@, key, BumpValue(g.base[t.product], PointOf(t),
                                                           Target(f), h, scheme))]
      BY <1>4, Zenon DEF Bump, PointOf, Each
    <3>2. BumpValue(g.base[t.product], PointOf(t), Target(f), h, scheme) = shifted
      BY <1>1, Zenon DEF Shifted
    <3> HIDE DEF key, shifted
    <3>3. QED
      BY <3>1, <3>2
  <2>2. r = Graph(g.base, g.tapes, u, v, g.aad_passes, g.values, g.methods, g.error)
    BY <1>1, <2>1, BumpChange
  <2>3. /\ r.base = g.base /\ r.tapes = g.tapes /\ r.bumps = u
        /\ r.valuation_calls = v /\ r.aad_passes = g.aad_passes
        /\ r.values = g.values /\ r.methods = g.methods /\ r.error = g.error /\ IsGraph(r)
    BY <2>2, GraphFields
  <2>4. /\ DOMAIN u = DOMAIN g.bumps \cup {key}
        /\ u[key] = shifted
        /\ \A x \in DOMAIN g.bumps : u[x] = g.bumps[x]
    BY <1>4 DEF Insert
  <2>5. /\ IsFiniteSet(DOMAIN u) /\ Cardinality(DOMAIN u) = Cardinality(DOMAIN g.bumps) + 1
    <3>1. IsFiniteSet(DOMAIN g.bumps)
      BY Zenon DEF Kept
    <3>2. /\ IsFiniteSet(DOMAIN g.bumps \cup {key})
          /\ Cardinality(DOMAIN g.bumps \cup {key}) = Cardinality(DOMAIN g.bumps) + 1
      BY <1>4, <3>1, FS_AddElement, Zenon
    <3>3. QED
      BY <2>4, <3>2, Zenon
  <2>6. v = Cardinality(DOMAIN g.base) + Each(scheme) * Cardinality(DOMAIN u)
    <3>1. IsFiniteSet(DOMAIN g.base) /\ IsFiniteSet(DOMAIN g.bumps)
          /\ g.valuation_calls = Cardinality(DOMAIN g.base) + Each(scheme) * Cardinality(DOMAIN g.bumps)
      BY Zenon DEF Kept, Priced
    <3>2. Cardinality(DOMAIN g.base) \in Nat /\ Cardinality(DOMAIN g.bumps) \in Nat
      BY <3>1, FS_CardinalityType
    <3>3. \A a, b \in Nat : (a + 1 * b) + 1 = a + 1 * (b + 1) /\ (a + 2 * b) + 2 = a + 2 * (b + 1)
      OBVIOUS
    <3>4. Each(scheme) = 1 \/ Each(scheme) = 2
      BY DEF Each
    <3>5. v = g.valuation_calls + Each(scheme)
      OBVIOUS
    <3> HIDE DEF v, u
    <3>6. QED
      BY <2>5, <3>1, <3>2, <3>3, <3>4, <3>5
  <2> HIDE DEF u, v, r, key, shifted
  <2>7. ASSUME NEW j \in 1 .. n, NEW g2, g2 # Absent, BumpKey(trades[j].product, g2) \in DOMAIN u
        PROVE  /\ Target(g2) # "unsupported"
               /\ u[BumpKey(trades[j].product, g2)] = Shifted(trades[j], g2, h, scheme)
    <3>1. CASE BumpKey(trades[j].product, g2) = key
      <4>1. BumpKey(trades[i].product, f) = BumpKey(trades[j].product, g2)
        BY <3>1 DEF key
      <4>2. Target(f) = Target(g2) /\ Shifted(trades[i], f, h, scheme) = Shifted(trades[j], g2, h, scheme)
        BY <2>7, <4>1, SameBump
      <4>3. QED
        BY <1>4, <2>4, <3>1, <4>2 DEF shifted
    <3>2. CASE BumpKey(trades[j].product, g2) # key
      BY <2>4, <2>7, <3>2, Zenon DEF Kept
    <3>3. QED
      BY <3>1, <3>2
  <2>8. Kept(r, trades, n, h, scheme)
    <3>1. Priced(r, trades, n) /\ r.error = Absent
      BY <1>1, <2>3, Zenon DEF Priced, Kept
    <3>2. IsFiniteSet(r.tapes) /\ r.aad_passes = Cardinality(r.tapes)
      BY <2>3, Zenon DEF Kept
    <3>3. QED
      BY <2>3, <2>5, <2>6, <2>7, <3>1, <3>2, Zenon DEF Kept
  <2>9. QED
    BY <2>3, <2>4, <2>8, Zenon DEF r, key, shifted, BumpDone
<1>5. QED
  BY <1>2, <1>3, <1>4

KeysOf(trades, k, f) == {BumpKey(trades[j].product, f) : j \in 1 .. k}

(* A cell after k trades, from a graph g. *)
CellAfter(c, g, trades, n, f, h, scheme, k, sum) ==
  /\ c = [graph |-> c.graph, bumped |-> c.bumped, total |-> c.total]
  /\ IsGraph(c.graph)
  /\ c.graph.error = Absent =>
       /\ Kept(c.graph, trades, n, h, scheme)
       /\ c.graph.values = g.values /\ c.graph.methods = g.methods
       /\ c.total = sum
       /\ c.bumped <=> k > 0 /\ ~HasTape(f, scheme)
       /\ DOMAIN c.graph.bumps
            = DOMAIN g.bumps \cup (IF HasTape(f, scheme) THEN {} ELSE KeysOf(trades, k, f))
       /\ c.graph.tapes = g.tapes \cup (IF HasTape(f, scheme) THEN Products(trades, k) ELSE {})

LEMMA MoreKeys ==
  ASSUME NEW trades, NEW f, NEW k \in Nat
  PROVE  KeysOf(trades, k + 1, f) = KeysOf(trades, k, f) \cup {BumpKey(trades[k + 1].product, f)}
<1>1. 1 .. k + 1 = (1 .. k) \cup {k + 1}
  OBVIOUS
<1>2. QED
  BY <1>1, Zenon DEF KeysOf

LEMMA CellStarts ==
  ASSUME NEW g, NEW trades, NEW n, NEW f, NEW h, NEW scheme, Kept(g, trades, n, h, scheme)
  PROVE  CellAfter(CellStart(g), g, trades, n, f, h, scheme, 0, 0)
<1>1. /\ CellStart(g).graph = g /\ CellStart(g).bumped = FALSE /\ CellStart(g).total = 0
      /\ CellStart(g) = [graph |-> CellStart(g).graph, bumped |-> CellStart(g).bumped,
                         total |-> CellStart(g).total]
  BY DEF CellStart
<1>2. KeysOf(trades, 0, f) = {} /\ Products(trades, 0) = {}
  BY DEF KeysOf, Products
<1>3. IsGraph(g)
  BY Zenon DEF Kept
<1> DEFINE c == CellStart(g)
<1> HIDE DEF c
<1>4. CellAfter(c, g, trades, n, f, h, scheme, 0, 0)
  BY <1>1, <1>2, <1>3 DEF CellAfter, c
<1>5. QED
  BY <1>4 DEF c

LEMMA CellStep ==
  ASSUME NEW g, NEW trades, NEW n \in Nat, Book(trades, n), NEW f, f # Absent, NEW h, NEW scheme,
         NEW k \in Nat, k < n, NEW sum, NEW c,
         CellAfter(c, g, trades, n, f, h, scheme, k, sum)
  PROVE  CellAfter(AddTrade(c, trades[k + 1], f, h, scheme), g, trades, n, f, h, scheme, k + 1,
                   sum + Term(trades[k + 1], f, h, scheme))
<1> DEFINE t == trades[k + 1]
           tape == HasTape(f, scheme)
           r == IF tape THEN Tape(c.graph, t.product) ELSE Bump(c.graph, t, f, h, scheme)
           derivative == IF tape THEN Greek(PointOf(t), Target(f))
                         ELSE r.bumps[BumpKey(t.product, f)]
           next == AddTrade(c, t, f, h, scheme)
<1>1. next = IF c.graph.error # Absent THEN c
             ELSE IF r.error # Absent THEN [c EXCEPT !.graph = r]
             ELSE [graph |-> r, bumped |-> c.bumped \/ ~tape,
                   total |-> c.total + derivative * t.quantity * BucketWeight(t.input, f)]
  BY Zenon DEF AddTrade, PointOf
<1>2. k + 1 \in 1 .. n
  OBVIOUS
<1>3. CASE c.graph.error # Absent
  <2>1. next = c
    BY <1>1, <1>3
  <2>2. QED
    BY <1>3, <2>1, Zenon DEF CellAfter
<1>4. ASSUME c.graph.error = Absent
      PROVE  \/ r.error # Absent /\ IsGraph(r)
             \/ /\ Kept(r, trades, n, h, scheme)
                /\ r.values = c.graph.values /\ r.methods = c.graph.methods
                /\ derivative = Derivative(t, f, h, scheme)
                /\ DOMAIN r.bumps = DOMAIN c.graph.bumps
                     \cup (IF tape THEN {} ELSE {BumpKey(t.product, f)})
                /\ r.tapes = c.graph.tapes \cup (IF tape THEN {t.product} ELSE {})
  <2>1. Kept(c.graph, trades, n, h, scheme)
    BY <1>4, Zenon DEF CellAfter
  <2>2. CASE tape
    <3>1. r = Tape(c.graph, t.product) /\ derivative = Greek(PointOf(t), Target(f))
      BY <2>2
    <3>2. derivative = Derivative(t, f, h, scheme)
      BY <2>2, <3>1, Zenon DEF Derivative, PointOf
    <3> HIDE DEF derivative, r
    <3>3. /\ Kept(r, trades, n, h, scheme) /\ r.tapes = c.graph.tapes \cup {t.product}
          /\ r.bumps = c.graph.bumps /\ r.values = c.graph.values /\ r.methods = c.graph.methods
      BY <2>1, <3>1, TapeKeeps
    <3>4. QED
      BY <2>2, <3>2, <3>3
  <2>3. CASE ~tape
    <3>1. r = Bump(c.graph, t, f, h, scheme) /\ derivative = r.bumps[BumpKey(t.product, f)]
      BY <2>3
    <3>2. Shifted(t, f, h, scheme) = Derivative(t, f, h, scheme)
      BY <2>3, Zenon DEF Derivative, PointOf, Shifted
    <3> HIDE DEF derivative, r
    <3>3. \/ r.error # Absent /\ IsGraph(r)
          \/ /\ Kept(r, trades, n, h, scheme)
             /\ DOMAIN r.bumps = DOMAIN c.graph.bumps \cup {BumpKey(t.product, f)}
             /\ r.bumps[BumpKey(t.product, f)] = Shifted(t, f, h, scheme)
             /\ r.tapes = c.graph.tapes /\ r.values = c.graph.values /\ r.methods = c.graph.methods
      <4>1. BumpDone(r, c.graph, trades, n, h, scheme, k + 1, f)
        BY <1>2, <2>1, <3>1, BumpKeeps, Zenon
      <4>2. QED
        BY <4>1 DEF BumpDone
    <3>4. QED
      BY <2>3, <3>1, <3>2, <3>3
  <2>4. QED
    BY <2>2, <2>3
<1> HIDE DEF next, r, derivative
<1>5. CASE c.graph.error = Absent /\ r.error # Absent
  <2>1. next = [c EXCEPT !.graph = r]
    BY <1>1, <1>5
  <2>2. IsGraph(r)
    BY <1>4, <1>5, Zenon DEF Kept
  <2>3. c = [graph |-> c.graph, bumped |-> c.bumped, total |-> c.total]
    BY Zenon DEF CellAfter
  <2>4. next.graph = r /\ next = [graph |-> next.graph, bumped |-> next.bumped, total |-> next.total]
    BY <2>1, <2>3
  <2>5. QED
    BY <1>5, <2>2, <2>4, Zenon DEF CellAfter, next
<1>6. CASE c.graph.error = Absent /\ r.error = Absent
  <2>1. next = [graph |-> r, bumped |-> c.bumped \/ ~tape,
                total |-> c.total + derivative * t.quantity * BucketWeight(t.input, f)]
    BY <1>1, <1>6
  <2>2. /\ next.graph = r /\ next.bumped = (c.bumped \/ ~tape)
        /\ next.total = c.total + derivative * t.quantity * BucketWeight(t.input, f)
        /\ next = [graph |-> next.graph, bumped |-> next.bumped, total |-> next.total]
    BY <2>1
  <2>3. /\ Kept(r, trades, n, h, scheme)
        /\ r.values = c.graph.values /\ r.methods = c.graph.methods
        /\ derivative = Derivative(t, f, h, scheme)
        /\ DOMAIN r.bumps = DOMAIN c.graph.bumps \cup (IF tape THEN {} ELSE {BumpKey(t.product, f)})
        /\ r.tapes = c.graph.tapes \cup (IF tape THEN {t.product} ELSE {})
    BY <1>4, <1>6
  <2>4. /\ c.graph.values = g.values /\ c.graph.methods = g.methods
        /\ c.total = sum
        /\ c.bumped <=> k > 0 /\ ~tape
        /\ DOMAIN c.graph.bumps = DOMAIN g.bumps \cup (IF tape THEN {} ELSE KeysOf(trades, k, f))
        /\ c.graph.tapes = g.tapes \cup (IF tape THEN Products(trades, k) ELSE {})
    BY <1>6, Zenon DEF CellAfter
  <2>5. /\ next.total = sum + Term(t, f, h, scheme)
    BY <2>2, <2>3, <2>4, Zenon DEF Term
  <2>6. next.bumped <=> k + 1 > 0 /\ ~tape
    <3>1. k + 1 > 0
      OBVIOUS
    <3>2. QED
      BY <2>2, <2>4, <3>1, Zenon
  <2>7. /\ DOMAIN r.bumps = DOMAIN g.bumps \cup (IF tape THEN {} ELSE KeysOf(trades, k + 1, f))
        /\ r.tapes = g.tapes \cup (IF tape THEN Products(trades, k + 1) ELSE {})
    <3>1. /\ KeysOf(trades, k + 1, f) = KeysOf(trades, k, f) \cup {BumpKey(t.product, f)}
          /\ Products(trades, k + 1) = Products(trades, k) \cup {t.product}
      BY MoreKeys, MoreProducts
    <3>2. QED
      BY <2>3, <2>4, <3>1
  <2>8. IsGraph(r)
    BY <2>3, Zenon DEF Kept
  <2>9. QED
    BY <2>2, <2>3, <2>4, <2>5, <2>6, <2>7, <2>8, Zenon DEF CellAfter, next
<1>7. QED
  BY <1>3, <1>5, <1>6

LEMMA CellEnds ==
  ASSUME NEW g, NEW trades, NEW n \in Nat, Book(trades, n), NEW f, f # Absent, NEW h, NEW scheme,
         Kept(g, trades, n, h, scheme)
  PROVE  CellAfter(TradedCell(g, f, h, scheme, trades), g, trades, n, f, h, scheme, n, Total(trades, f, h, scheme))
<1>1. DOMAIN trades = 1 .. n
  BY DEF Book
<1>2. PICK a : /\ IsChain("trade", f, h, scheme, CellStart(g), trades, n, a)
               /\ TradedCell(g, f, h, scheme, trades) = a[n]
  BY <1>1, Traded
<1>3. PICK b : IsChain("term", f, h, scheme, 0, trades, n, b) /\ Total(trades, f, h, scheme) = b[n]
  BY <1>1, Totalled
<1> DEFINE T == {k \in Nat : k <= n => CellAfter(a[k], g, trades, n, f, h, scheme, k, b[k])}
<1>4. 0 \in T
  <2>1. a[0] = CellStart(g) /\ b[0] = 0
    BY <1>2, <1>3, Zenon DEF IsChain
  <2>2. QED
    BY <2>1, CellStarts
<1>5. ASSUME NEW k \in Nat, k \in T
      PROVE  k + 1 \in T
  <2>1. SUFFICES ASSUME k + 1 <= n
                 PROVE  CellAfter(a[k + 1], g, trades, n, f, h, scheme, k + 1, b[k + 1])
    OBVIOUS
  <2>2. k < n /\ k <= n
    BY <2>1
  <2>3. a[k + 1] = AddTrade(a[k], trades[k + 1], f, h, scheme)
    BY <1>2, <2>2 DEF IsChain, Advance
  <2>4. b[k + 1] = b[k] + Term(trades[k + 1], f, h, scheme)
    BY <1>3, <2>2 DEF IsChain, Advance
  <2>5. CellAfter(a[k], g, trades, n, f, h, scheme, k, b[k])
    BY <1>5, <2>2
  <2>6. QED
    BY <2>2, <2>3, <2>4, <2>5, CellStep
<1>6. n \in T
  <2> HIDE DEF T
  <2>1. QED
    BY <1>4, <1>5, SetInduction
<1>7. CellAfter(a[n], g, trades, n, f, h, scheme, n, b[n])
  BY <1>6
<1>8. QED
  BY <1>2, <1>3, <1>7, Zenon

IsFlatten(f, ss, n) == f = [i \in 1 .. n |-> IF i = 1 THEN ss[i] ELSE f[i - 1] \o ss[i]]

LEMMA FlattenExists ==
  ASSUME NEW ss, NEW n \in Nat
  PROVE  \E f : IsFlatten(f, ss, n)
<1> DEFINE T == {k \in Nat : \E f : IsFlatten(f, ss, k)}
<1>1. 0 \in T
  <2>1. IsFlatten([i \in 1 .. 0 |-> 0], ss, 0)
    BY DEF IsFlatten
  <2>2. QED
    BY <2>1
<1>2. ASSUME NEW k \in Nat, k \in T
      PROVE  k + 1 \in T
  <2>1. PICK f : IsFlatten(f, ss, k)
    BY <1>2
  <2>2. PICK g : g = [i \in 1 .. k + 1 |-> IF i = k + 1
                                             THEN IF k = 0 THEN ss[1] ELSE f[k] \o ss[k + 1]
                                             ELSE f[i]]
    OBVIOUS
  <2>3. ASSUME NEW i \in 1 .. k + 1
        PROVE  g[i] = IF i = 1 THEN ss[i] ELSE g[i - 1] \o ss[i]
    <3>1. CASE i = k + 1
      <4>1. CASE k = 0
        BY <2>2, <3>1, <4>1
      <4>2. CASE k # 0
        <5>0. i # 1 /\ i - 1 = k /\ k \in 1 .. k + 1 /\ k # k + 1
          BY <3>1, <4>2
        <5>1. g[i] = f[k] \o ss[k + 1]
          BY <2>2, <3>1, <4>2, Zenon
        <5>2. g[k] = f[k]
          BY <2>2, <5>0, Zenon
        <5>3. QED
          BY <3>1, <5>0, <5>1, <5>2, Zenon
      <4>3. QED
        BY <4>1, <4>2
    <3>2. CASE i # k + 1
      <4>1. i \in 1 .. k /\ g[i] = f[i]
        BY <2>2, <3>2
      <4>2. f[i] = IF i = 1 THEN ss[i] ELSE f[i - 1] \o ss[i]
        BY <2>1, <4>1, Zenon DEF IsFlatten
      <4>3. i # 1 => i - 1 \in 1 .. k + 1 /\ i - 1 # k + 1
        BY <4>1
      <4>4. i # 1 => g[i - 1] = f[i - 1]
        BY <2>2, <4>3
      <4>5. QED
        BY <4>1, <4>2, <4>4
    <3>3. QED
      BY <3>1, <3>2
  <2>4. g = [i \in 1 .. k + 1 |-> g[i]]
    BY <2>2, Zenon
  <2>5. IsFlatten(g, ss, k + 1)
    BY <2>3, <2>4, Zenon DEF IsFlatten
  <2>6. QED
    BY <2>5
<1>3. Nat \subseteq T
  <2> HIDE DEF T
  <2>1. QED
    BY <1>1, <1>2, SetInduction
<1>4. QED
  BY <1>3

LEMMA FlattenChain ==
  ASSUME NEW ss, NEW n \in Nat, n > 0, Len(ss) = n
  PROVE  \E f : IsFlatten(f, ss, n) /\ FlattenSeq(ss) = f[n]
<1> DEFINE flatten == CHOOSE f : IsFlatten(f, ss, n)
<1>1. IsFlatten(flatten, ss, n)
  BY FlattenExists
<1>2. FlattenSeq(ss) = flatten[n]
  BY DEF FlattenSeq, IsFlatten
<1> HIDE DEF flatten
<1>3. QED
  BY <1>1, <1>2
LEMMA Joined ==
  ASSUME NEW S, NEW s \in Seq(S), NEW t \in Seq(S)
  PROVE  s \o t \in Seq(S) /\ ToSet(s \o t) = ToSet(s) \cup ToSet(t)
<1> DEFINE j == s \o t
           a == Len(s)
           b == Len(t)
<1>1. /\ j \in Seq(S) /\ Len(j) = a + b
      /\ \A i \in 1 .. a : j[i] = s[i]
      /\ \A i \in 1 .. b : j[a + i] = t[i]
  BY ConcatProperties
<1>2. a \in Nat /\ b \in Nat /\ DOMAIN s = 1 .. a /\ DOMAIN t = 1 .. b /\ DOMAIN j = 1 .. a + b
  BY <1>1, LenProperties
<1> HIDE DEF j, a, b
<1>3. ASSUME NEW x \in ToSet(s) \cup ToSet(t)
      PROVE  x \in ToSet(j)
  <2>1. CASE x \in ToSet(s)
    <3>1. PICK i \in 1 .. a : x = s[i]
      BY <1>2, <2>1 DEF ToSet
    <3>2. i \in DOMAIN j /\ j[i] = x
      BY <1>1, <1>2, <3>1
    <3>3. QED
      BY <3>2 DEF ToSet
  <2>2. CASE x \in ToSet(t)
    <3>1. PICK i \in 1 .. b : x = t[i]
      BY <1>2, <2>2 DEF ToSet
    <3>2. a + i \in DOMAIN j /\ j[a + i] = x
      BY <1>1, <1>2, <3>1
    <3>3. QED
      BY <3>2 DEF ToSet
  <2>3. QED
    BY <1>3, <2>1, <2>2
<1>4. ASSUME NEW x \in ToSet(j)
      PROVE  x \in ToSet(s) \cup ToSet(t)
  <2>1. PICK i \in 1 .. a + b : x = j[i]
    BY <1>2, <1>4 DEF ToSet
  <2>2. CASE i <= a
    <3>1. i \in DOMAIN s /\ x = s[i]
      BY <1>1, <1>2, <2>1, <2>2
    <3>2. QED
      BY <3>1 DEF ToSet
  <2>3. CASE i > a
    <3>1. PICK k : k = i - a
      OBVIOUS
    <3>2. k \in 1 .. b /\ a + k = i
      BY <1>2, <2>3, <3>1
    <3>3. k \in DOMAIN t /\ x = t[k]
      BY <1>1, <1>2, <2>1, <3>2
    <3>4. QED
      BY <3>3 DEF ToSet
  <2>4. QED
    BY <1>2, <2>2, <2>3
<1>5. ToSet(j) = ToSet(s) \cup ToSet(t)
  BY <1>3, <1>4
<1>6. QED
  BY <1>1, <1>5 DEF j

SeqsOf(ss, n, S) == ss = [i \in 1 .. n |-> ss[i]] /\ \A i \in 1 .. n : ss[i] \in Seq(S)

LEMMA Flattened ==
  ASSUME NEW S, NEW n \in Nat, NEW ss, SeqsOf(ss, n, S)
  PROVE  /\ FlattenSeq(ss) \in Seq(S)
         /\ ToSet(FlattenSeq(ss)) = UNION {ToSet(ss[i]) : i \in 1 .. n}
<1>1. ss \in Seq(Seq(S)) /\ Len(ss) = n
  <2>1. ss \in [1 .. n -> Seq(S)]
    BY Zenon DEF SeqsOf
  <2>2. QED
    BY <2>1, FunctionIsSeq, LenProperties
<1>2. CASE n = 0
  <2>1. ss = <<>>
    BY <1>1, <1>2, EmptySeq
  <2>2. FlattenSeq(ss) = <<>>
    BY <1>1, <1>2, <2>1 DEF FlattenSeq
  <2>3. ToSet(<<>>) = {} /\ {ToSet(ss[i]) : i \in 1 .. n} = {} /\ <<>> \in Seq(S)
    BY <1>2 DEF ToSet
  <2>4. QED
    BY <2>2, <2>3
<1>3. CASE n > 0
  <2>1. PICK f : IsFlatten(f, ss, n) /\ FlattenSeq(ss) = f[n]
    BY <1>1, <1>3, FlattenChain
  <2> DEFINE Upto(k) == UNION {ToSet(ss[i]) : i \in 1 .. k}
             T == {k \in Nat : 1 <= k /\ k <= n => f[k] \in Seq(S) /\ ToSet(f[k]) = Upto(k)}
  <2>2. 0 \in T
    OBVIOUS
  <2>3. ASSUME NEW k \in Nat, k \in T
        PROVE  k + 1 \in T
    <3>1. SUFFICES ASSUME k + 1 <= n
                   PROVE  f[k + 1] \in Seq(S) /\ ToSet(f[k + 1]) = Upto(k + 1)
      OBVIOUS
    <3> HIDE DEF Upto, T
    <3>2. k + 1 \in 1 .. n /\ (k + 1) - 1 = k
      BY <3>1
    <3>3. f[k + 1] = IF k + 1 = 1 THEN ss[k + 1] ELSE f[(k + 1) - 1] \o ss[k + 1]
      BY <2>1, <3>2, Zenon DEF IsFlatten
    <3> USE DEF Upto
    <3>4. Upto(k + 1) = Upto(k) \cup ToSet(ss[k + 1])
      <4>1. 1 .. k + 1 = (1 .. k) \cup {k + 1}
        OBVIOUS
      <4>2. QED
        BY <4>1, Zenon
    <3>5. CASE k = 0
      <4>1. f[k + 1] = ss[k + 1]
        BY <3>3, <3>5
      <4>2. Upto(k) = {}
        BY <3>5
      <4>3. ss[k + 1] \in Seq(S)
        BY <3>2, Zenon DEF SeqsOf
      <4> HIDE DEF Upto
      <4>4. QED
        BY <3>4, <4>1, <4>2, <4>3
    <3>6. CASE k > 0
      <4>1. f[k] \in Seq(S) /\ ToSet(f[k]) = Upto(k)
        BY <2>3, <3>1, <3>6 DEF T
      <4> HIDE DEF Upto
      <4>2. f[k + 1] = f[k] \o ss[k + 1]
        <5>1. k + 1 # 1
          BY <3>6
        <5>2. QED
          BY <3>2, <3>3, <5>1, Zenon
      <4>5. ss[k + 1] \in Seq(S)
        BY <3>2, Zenon DEF SeqsOf
      <4>3. f[k] \o ss[k + 1] \in Seq(S) /\ ToSet(f[k] \o ss[k + 1]) = ToSet(f[k]) \cup ToSet(ss[k + 1])
        <5>1. PICK s, t : s = f[k] /\ t = ss[k + 1]
          OBVIOUS
        <5>2. s \in Seq(S) /\ t \in Seq(S)
          BY <4>1, <4>5, <5>1
        <5>3. s \o t \in Seq(S) /\ ToSet(s \o t) = ToSet(s) \cup ToSet(t)
          BY <5>2, Joined
        <5>4. QED
          BY <5>1, <5>3
      <4>4. QED
        BY <3>4, <4>1, <4>2, <4>3
    <3>7. QED
      BY <3>5, <3>6
  <2>4. n \in T
    <3> HIDE DEF T
    <3>1. QED
      BY <2>2, <2>3, SetInduction
  <2>5. f[n] \in Seq(S) /\ ToSet(f[n]) = Upto(n)
    <3>1. 1 <= n /\ n <= n
      BY <1>3
    <3> HIDE DEF Upto
    <3>2. QED
      BY <2>4, <3>1
  <2>6. QED
    BY <2>1, <2>5, Zenon
<1>4. QED
  BY <1>2, <1>3

-----------------------------------------------------------------------------
(* The cells of a request. *)

OnceEach(s, S) == s \in Seq(S) /\ \A i, j \in DOMAIN s : s[i] = s[j] => i = j

LEMMA IndexedKeeps ==
  ASSUME NEW S, NEW s, OnceEach(s, S), NEW key \in S
  PROVE  OnceEach(Indexed(s, key), S) /\ ToSet(Indexed(s, key)) = ToSet(s) \cup {key}
<1> DEFINE t == Indexed(s, key)
<1>1. CASE key \in ToSet(s)
  <2>1. t = s
    BY <1>1 DEF Indexed
  <2>2. QED
    BY <1>1, <2>1
<1>2. CASE key \notin ToSet(s)
  <2>1. t = Append(s, key) /\ s \in Seq(S)
    BY <1>2, Zenon DEF Indexed, OnceEach
  <2>2. PICK n \in Nat : n = Len(s) /\ DOMAIN s = 1 .. n
    BY <2>1, LenProperties
  <2>3. /\ t \in Seq(S) /\ Len(t) = n + 1 /\ t[n + 1] = key
        /\ \A i \in 1 .. n : t[i] = s[i]
    BY <2>1, <2>2, AppendProperties
  <2>4. DOMAIN t = 1 .. n + 1
    BY <2>3, LenProperties
  <2> HIDE DEF t
  <2>5. \A i \in 1 .. n : s[i] # key
    BY <1>2, <2>2, Zenon DEF ToSet
  <2>6. \A i \in 1 .. n + 1 : i \in 1 .. n \/ i = n + 1
    <3>1. \A b \in Nat : \A i \in 1 .. b + 1 : i \in 1 .. b \/ i = b + 1
      OBVIOUS
    <3>2. QED
      BY <3>1, Zenon
  <2>7. \A i, j \in DOMAIN t : t[i] = t[j] => i = j
    BY <2>2, <2>3, <2>4, <2>5, <2>6, Zenon DEF OnceEach
  <2>8. ToSet(t) = ToSet(s) \cup {key}
    <3>1. 1 .. n + 1 = (1 .. n) \cup {n + 1}
      BY <2>2
    <3>2. ToSet(t) = {t[i] : i \in 1 .. n + 1} /\ ToSet(s) = {s[i] : i \in 1 .. n}
      BY <2>2, <2>4, Zenon DEF ToSet
    <3>3. QED
      BY <2>3, <3>1, <3>2
  <2>9. QED
    BY <2>3, <2>7, <2>8 DEF OnceEach, t
<1>3. QED
  BY <1>1, <1>2

LEMMA IndexOfKeys ==
  ASSUME NEW S, NEW keys \in Seq(S)
  PROVE  OnceEach(FoldLeft(Indexed, <<>>, keys), S) /\ ToSet(FoldLeft(Indexed, <<>>, keys)) = ToSet(keys)
<1>1. PICK n \in Nat : n = Len(keys) /\ DOMAIN keys = 1 .. n
  BY LenProperties
<1>2. PICK a : IsChain("index", 0, 0, 0, <<>>, keys, n, a) /\ FoldLeft(Indexed, <<>>, keys) = a[n]
  BY <1>1, IndexedOnce, Zenon
<1> DEFINE Upto(k) == {keys[i] : i \in 1 .. k}
           T == {k \in Nat : k <= n => OnceEach(a[k], S) /\ ToSet(a[k]) = Upto(k)}
<1>3. 0 \in T
  <2>1. a[0] = <<>> /\ Upto(0) = {}
    BY <1>2 DEF IsChain
  <2>2. <<>> \in Seq(S) /\ DOMAIN <<>> = {}
    OBVIOUS
  <2>3. OnceEach(<<>>, S) /\ ToSet(<<>>) = {}
    BY <2>2, Zenon DEF OnceEach, ToSet
  <2>4. QED
    BY <2>1, <2>3
<1>4. ASSUME NEW k \in Nat, k \in T
      PROVE  k + 1 \in T
  <2>1. SUFFICES ASSUME k + 1 <= n
                 PROVE  OnceEach(a[k + 1], S) /\ ToSet(a[k + 1]) = Upto(k + 1)
    OBVIOUS
  <2>2. k < n /\ k <= n /\ k + 1 \in 1 .. n
    BY <2>1
  <2>3. a[k + 1] = Indexed(a[k], keys[k + 1])
    BY <1>2, <2>2 DEF IsChain, Advance
  <2>4. OnceEach(a[k], S) /\ ToSet(a[k]) = Upto(k)
    BY <1>4, <2>2
  <2>5. keys[k + 1] \in S
    BY <1>1, <2>2
  <2>6. OnceEach(a[k + 1], S) /\ ToSet(a[k + 1]) = ToSet(a[k]) \cup {keys[k + 1]}
    BY <2>3, <2>4, <2>5, IndexedKeeps
  <2>7. Upto(k + 1) = Upto(k) \cup {keys[k + 1]}
    <3>1. 1 .. k + 1 = (1 .. k) \cup {k + 1}
      OBVIOUS
    <3>2. QED
      BY <3>1, Zenon
  <2>8. QED
    BY <2>4, <2>6, <2>7
<1>5. n \in T
  <2> HIDE DEF T
  <2>1. QED
    BY <1>3, <1>4, SetInduction
<1>6. OnceEach(a[n], S) /\ ToSet(a[n]) = Upto(n)
  BY <1>5
<1>7. Upto(n) = ToSet(keys)
  BY <1>1, Zenon DEF ToSet
<1> HIDE DEF Upto
<1>8. QED
  BY <1>2, <1>6, <1>7, Zenon

(* What the measures and factors of a request are. *)
Listed(ask) ==
  /\ ask.measures \in Seq(ToSet(ask.measures))
  /\ ask.factors \in Seq(ToSet(ask.factors))
  /\ Absent \notin ToSet(ask.factors)

LEMMA Literals ==
  ASSUME NEW S, NEW a \in S, NEW b \in S, NEW c \in S, NEW d \in S
  PROVE  <<a>> \in Seq(S) /\ <<a, b, c, d>> \in Seq(S) /\ ToSet(<<a>>) = {a} /\ <<a>>[1] = a /\ DOMAIN <<a>> = 1 .. 1
<1>1. <<a>> \in Seq(S) /\ <<a, b, c, d>> \in Seq(S) /\ DOMAIN <<a>> = {1} /\ <<a>>[1] = a /\ 1 .. 1 = {1}
  OBVIOUS
<1>2. QED
  BY <1>1 DEF ToSet

LEMMA MeasuresListed ==
  ASSUME NEW ask, Listed(ask)
  PROVE  \E S : ExpandMeasures(ask.measures) \in Seq(S)
<1> DEFINE source == IF ask.measures = <<>> THEN <<"all_greeks">> ELSE ask.measures
           S == {"pv01", "delta", "rho", "vega", "all_greeks"} \cup ToSet(ask.measures)
           ss == [i \in DOMAIN source |->
                    IF source[i] = "all_greeks" THEN <<"pv01", "delta", "rho", "vega">> ELSE <<source[i]>>]
<1>1. ExpandMeasures(ask.measures) = FlattenSeq(ss)
  BY Zenon DEF ExpandMeasures
<1>2. \E n \in Nat : DOMAIN source = 1 .. n /\ \A i \in 1 .. n : source[i] \in S
  <2>1. CASE ask.measures = <<>>
    <3>1. source = <<"all_greeks">>
      BY <2>1
    <3>2. DOMAIN source = 1 .. 1 /\ source[1] = "all_greeks"
      BY <3>1
    <3>3. "all_greeks" \in S /\ 1 \in Nat /\ \A i \in 1 .. 1 : i = 1
      OBVIOUS
    <3> HIDE DEF source, S
    <3>4. \A i \in 1 .. 1 : source[i] \in S
      BY <3>2, <3>3
    <3>5. QED
      BY <3>2, <3>3, <3>4, Zenon
  <2>2. CASE ask.measures # <<>>
    <3>1. source = ask.measures
      BY <2>2
    <3>2. PICK n \in Nat : n = Len(ask.measures) /\ DOMAIN ask.measures = 1 .. n
      BY LenProperties DEF Listed
    <3>3. \A i \in 1 .. n : ask.measures[i] \in S
      BY <3>2 DEF ToSet
    <3> HIDE DEF source, S
    <3>4. QED
      BY <3>1, <3>2, <3>3
  <2>3. QED
    BY <2>1, <2>2
<1>3. PICK n \in Nat : DOMAIN source = 1 .. n /\ \A i \in 1 .. n : source[i] \in S
  BY <1>2, Zenon
<1>4. /\ "pv01" \in S /\ "delta" \in S /\ "rho" \in S /\ "vega" \in S
  OBVIOUS
<1> HIDE DEF source, S
<1>5. SeqsOf(ss, n, S)
  <2>1. \A i \in 1 .. n : ss[i] \in Seq(S)
    <3>1. <<"pv01", "delta", "rho", "vega">> \in Seq(S)
      BY <1>4, Literals
    <3>2. \A i \in 1 .. n : <<source[i]>> \in Seq(S)
      BY <1>3, Literals, Zenon
    <3>3. TAKE i \in 1 .. n
    <3>4. ss[i] = IF source[i] = "all_greeks" THEN <<"pv01", "delta", "rho", "vega">>
                  ELSE <<source[i]>>
      BY <1>3, Zenon
    <3> HIDE DEF ss
    <3>5. ss[i] = <<"pv01", "delta", "rho", "vega">> \/ ss[i] = <<source[i]>>
      BY <3>4, Zenon
    <3>6. QED
      BY <3>1, <3>2, <3>5, Zenon
  <2>2. ss = [i \in 1 .. n |-> ss[i]]
    BY <1>3, Zenon
  <2>3. QED
    BY <2>1, <2>2, Zenon DEF SeqsOf
<1> HIDE DEF ss
<1>6. FlattenSeq(ss) \in Seq(S)
  BY <1>5, Flattened
<1>7. QED
  BY <1>1, <1>6

(* The factors of a row, but for that of the value itself. *)
LEMMA FactorsListed ==
  ASSUME NEW ask, Listed(ask), NEW measure
  PROVE  LET row == FactorsFor(measure, ask.factors)
         IN  /\ row \in Seq(ToSet(row))
             /\ measure = "pv" => row = <<Absent>> /\ ToSet(row) = {Absent}
             /\ measure # "pv" /\ Absent # Parameter("sigma") /\ Absent # Parameter("r0")
                  => Absent \notin ToSet(row)
<1> DEFINE row == FactorsFor(measure, ask.factors)
<1>1. \A x : <<x>> \in Seq({x}) /\ ToSet(<<x>>) = {x}
  BY Literals, Zenon
<1>2. CASE measure = "pv"
  <2>1. row = <<Absent>>
    BY <1>2 DEF FactorsFor
  <2>2. QED
    BY <1>1, <1>2, <2>1
<1>3. CASE measure # "pv" /\ ask.factors # <<>>
  <2>1. row = ask.factors
    BY <1>3 DEF FactorsFor
  <2>2. QED
    BY <1>3, <2>1 DEF Listed
<1>4. CASE measure # "pv" /\ ask.factors = <<>>
  <2>1. PICK x : row = <<x>> /\ x \in {Parameter("sigma"), Parameter("r0")}
    BY <1>4 DEF FactorsFor
  <2>2. QED
    BY <1>1, <1>4, <2>1
<1>5. QED
  BY <1>2, <1>3, <1>4

(* A cell that is asked for: a row, and one of the factors of its measure. *)
InCells(at, ask) ==
  LET measures == ExpandMeasures(ask.measures)
  IN  /\ at = [row |-> at.row, factor |-> at.factor]
      /\ at.row \in DOMAIN measures
      /\ at.factor \in ToSet(FactorsFor(measures[at.row], ask.factors))

(* The rows of a request, as lists. *)
LEMMA RowsListed ==
  ASSUME NEW ask, Listed(ask)
  PROVE  \E m \in Nat :
           /\ DOMAIN ExpandMeasures(ask.measures) = 1 .. m
           /\ DOMAIN Rows(ask) = 1 .. m
           /\ \A i \in 1 .. m :
                /\ Rows(ask)[i] = FactorsFor(ExpandMeasures(ask.measures)[i], ask.factors)
                /\ \E n \in Nat : DOMAIN Rows(ask)[i] = 1 .. n
<1>1. PICK S : ExpandMeasures(ask.measures) \in Seq(S)
  BY MeasuresListed
<1>2. PICK m \in Nat : DOMAIN ExpandMeasures(ask.measures) = 1 .. m
  BY <1>1, LenProperties
<1>3. Rows(ask) = [i \in 1 .. m |-> FactorsFor(ExpandMeasures(ask.measures)[i], ask.factors)]
  BY <1>2, Zenon DEF Rows
<1>4. ASSUME NEW i \in 1 .. m
      PROVE  /\ Rows(ask)[i] = FactorsFor(ExpandMeasures(ask.measures)[i], ask.factors)
             /\ \E n \in Nat : DOMAIN Rows(ask)[i] = 1 .. n
  <2>1. Rows(ask)[i] = FactorsFor(ExpandMeasures(ask.measures)[i], ask.factors)
    BY <1>3, Zenon
  <2>2. PICK row : row = Rows(ask)[i]
    OBVIOUS
  <2>3. row \in Seq(ToSet(row))
    BY <2>1, <2>2, FactorsListed, Zenon
  <2>4. QED
    BY <2>1, <2>2, <2>3, LenProperties
<1>5. DOMAIN Rows(ask) = 1 .. m
  BY <1>3, Zenon
<1>6. QED
  BY <1>2, <1>4, <1>5, Zenon

LEMMA CellsListed ==
  ASSUME NEW ask, Listed(ask)
  PROVE  /\ \E z \in Nat : DOMAIN Cells(Rows(ask)) = 1 .. z
         /\ \A at : at \in ToSet(Cells(Rows(ask))) <=> InCells(at, ask)
<1>1. PICK m \in Nat :
           /\ DOMAIN ExpandMeasures(ask.measures) = 1 .. m
           /\ DOMAIN Rows(ask) = 1 .. m
           /\ \A i \in 1 .. m :
                /\ Rows(ask)[i] = FactorsFor(ExpandMeasures(ask.measures)[i], ask.factors)
                /\ \E n \in Nat : DOMAIN Rows(ask)[i] = 1 .. n
  BY RowsListed, Zenon
<1>2. PICK rows : rows = Rows(ask)
  OBVIOUS
<1> DEFINE ss == [i \in DOMAIN rows |-> [k \in DOMAIN rows[i] |-> [row |-> i, factor |-> rows[i][k]]]]
           S == UNION {ToSet(ss[i]) : i \in 1 .. m}
<1>3. Cells(rows) = FlattenSeq(ss)
  BY Zenon DEF Cells
<1>4. ss = [i \in 1 .. m |-> ss[i]]
  BY <1>1, <1>2, Zenon
<1>5. ASSUME NEW i \in 1 .. m
      PROVE  /\ ss[i] = [k \in DOMAIN rows[i] |-> [row |-> i, factor |-> rows[i][k]]]
             /\ ToSet(ss[i]) = {[row |-> i, factor |-> f] : f \in ToSet(rows[i])}
             /\ ss[i] \in Seq(S)
  <2>1. ss[i] = [k \in DOMAIN rows[i] |-> [row |-> i, factor |-> rows[i][k]]]
    BY <1>1, <1>2, Zenon
  <2>2. PICK s : s = ss[i]
    OBVIOUS
  <2>3. PICK n \in Nat : DOMAIN rows[i] = 1 .. n
    BY <1>1, <1>2
  <2>4. s = [k \in 1 .. n |-> [row |-> i, factor |-> rows[i][k]]]
    BY <2>1, <2>2, <2>3, Zenon
  <2>5. ToSet(s) = {[row |-> i, factor |-> f] : f \in ToSet(rows[i])}
    <3>1. ToSet(s) = {s[k] : k \in 1 .. n} /\ ToSet(rows[i]) = {rows[i][k] : k \in 1 .. n}
      BY <2>3, <2>4, Zenon DEF ToSet
    <3> DEFINE R(f) == [row |-> i, factor |-> f]
    <3>2. \A k \in 1 .. n : s[k] = R(rows[i][k])
      BY <2>4, Zenon
    <3> HIDE DEF ss, R
    <3>3. ToSet(s) = {R(f) : f \in ToSet(rows[i])}
      BY <3>1, <3>2
    <3>4. QED
      BY <3>3, Zenon DEF R
  <2>6. s \in Seq(S)
    <3>1. ToSet(s) \subseteq S
      BY <2>2
    <3>2. \A k \in 1 .. n : s[k] \in ToSet(s)
      BY <2>4, Zenon DEF ToSet
    <3>3. s = [k \in 1 .. n |-> s[k]]
      BY <2>4, Zenon
    <3> HIDE DEF S, ss
    <3>4. s \in [1 .. n -> S]
      BY <3>1, <3>2, <3>3
    <3>5. QED
      BY <3>4, FunctionIsSeq, Zenon
  <2>7. QED
    BY <2>1, <2>2, <2>5, <2>6, Zenon
<1>6. SeqsOf(ss, m, S)
  BY <1>4, <1>5, Zenon DEF SeqsOf
<1>7. FlattenSeq(ss) \in Seq(S) /\ ToSet(FlattenSeq(ss)) = S
  <2>1. PICK xs : xs = ss
    OBVIOUS
  <2>2. SeqsOf(xs, m, S)
    BY <1>6, <2>1, Zenon
  <2>3. FlattenSeq(xs) \in Seq(S) /\ ToSet(FlattenSeq(xs)) = UNION {ToSet(xs[i]) : i \in 1 .. m}
    BY <2>2, Flattened
  <2>4. QED
    BY <2>1, <2>3, Zenon
<1>8. \E z \in Nat : DOMAIN Cells(Rows(ask)) = 1 .. z
  <2> HIDE DEF ss, S
  <2>1. PICK cells : cells = Cells(Rows(ask)) /\ cells \in Seq(S)
    BY <1>2, <1>3, <1>7
  <2>2. QED
    BY <2>1, LenProperties
<1>9. ASSUME NEW at
      PROVE  at \in S <=> InCells(at, ask)
  <2>1. at \in S <=> \E i \in 1 .. m : \E f \in ToSet(rows[i]) : at = [row |-> i, factor |-> f]
    <3>1. \A i \in 1 .. m : ToSet(ss[i]) = {[row |-> i, factor |-> f] : f \in ToSet(rows[i])}
      BY <1>5
    <3>2. at \in S <=> \E i \in 1 .. m : at \in ToSet(ss[i])
      OBVIOUS
    <3> HIDE DEF S, ss
    <3>3. QED
      BY <3>1, <3>2
  <2>2. ASSUME NEW i \in 1 .. m, NEW f \in ToSet(rows[i]), at = [row |-> i, factor |-> f]
        PROVE  InCells(at, ask)
    <3>1. at.row = i /\ at.factor = f
      BY <2>2
    <3>2. ToSet(rows[i]) = ToSet(FactorsFor(ExpandMeasures(ask.measures)[i], ask.factors))
      BY <1>1, <1>2
    <3>3. QED
      BY <1>1, <2>2, <3>1, <3>2, Zenon DEF InCells
  <2>3. ASSUME InCells(at, ask)
        PROVE  \E i \in 1 .. m : \E f \in ToSet(rows[i]) : at = [row |-> i, factor |-> f]
    <3>1. /\ at = [row |-> at.row, factor |-> at.factor] /\ at.row \in 1 .. m
          /\ at.factor \in ToSet(FactorsFor(ExpandMeasures(ask.measures)[at.row], ask.factors))
      BY <1>1, <2>3, Zenon DEF InCells
    <3>2. at.factor \in ToSet(rows[at.row])
      BY <1>1, <1>2, <3>1, Zenon
    <3>3. QED
      BY <3>1, <3>2, Zenon
  <2> HIDE DEF S, ss
  <2>4. QED
    BY <2>1, <2>2, <2>3, Zenon
<1> HIDE DEF ss, S
<1>10. QED
  BY <1>2, <1>3, <1>7, <1>8, <1>9, Zenon

LEMMA IndexListed ==
  ASSUME NEW ask, Listed(ask)
  PROVE  /\ \E S : OnceEach(FactorIndex(Rows(ask)), S)
         /\ \A key : key \in ToSet(FactorIndex(Rows(ask)))
                       <=> \E at : InCells(at, ask) /\ key = Key(at.factor)
<1>1. PICK m \in Nat :
           /\ DOMAIN ExpandMeasures(ask.measures) = 1 .. m
           /\ DOMAIN Rows(ask) = 1 .. m
           /\ \A i \in 1 .. m :
                /\ Rows(ask)[i] = FactorsFor(ExpandMeasures(ask.measures)[i], ask.factors)
                /\ \E n \in Nat : DOMAIN Rows(ask)[i] = 1 .. n
  BY RowsListed, Zenon
<1>2. PICK rows : rows = Rows(ask)
  OBVIOUS
<1> DEFINE ss == [i \in DOMAIN rows |-> [k \in DOMAIN rows[i] |-> Key(rows[i][k])]]
           S == UNION {ToSet(ss[i]) : i \in 1 .. m}
<1>3. FactorIndex(rows) = FoldLeft(Indexed, <<>>, FlattenSeq(ss))
  BY Zenon DEF FactorIndex
<1>4. ss = [i \in 1 .. m |-> ss[i]]
  BY <1>1, <1>2, Zenon
<1>5. ASSUME NEW i \in 1 .. m
      PROVE  /\ ToSet(ss[i]) = {Key(f) : f \in ToSet(rows[i])}
             /\ ss[i] \in Seq(S)
  <2>1. ss[i] = [k \in DOMAIN rows[i] |-> Key(rows[i][k])]
    BY <1>1, <1>2, Zenon
  <2>2. PICK s : s = ss[i]
    OBVIOUS
  <2>3. PICK n \in Nat : DOMAIN rows[i] = 1 .. n
    BY <1>1, <1>2
  <2>4. s = [k \in 1 .. n |-> Key(rows[i][k])]
    BY <2>1, <2>2, <2>3, Zenon
  <2>5. ToSet(s) = {Key(f) : f \in ToSet(rows[i])}
    <3>1. ToSet(s) = {s[k] : k \in 1 .. n} /\ ToSet(rows[i]) = {rows[i][k] : k \in 1 .. n}
      BY <2>3, <2>4, Zenon DEF ToSet
    <3>2. \A k \in 1 .. n : s[k] = Key(rows[i][k])
      BY <2>4, Zenon
    <3> HIDE DEF ss
    <3>3. QED
      BY <3>1, <3>2
  <2>6. s \in Seq(S)
    <3>1. ToSet(s) \subseteq S
      BY <2>2
    <3>2. \A k \in 1 .. n : s[k] \in ToSet(s)
      BY <2>4, Zenon DEF ToSet
    <3>3. s = [k \in 1 .. n |-> s[k]]
      BY <2>4, Zenon
    <3> HIDE DEF S, ss
    <3>4. s \in [1 .. n -> S]
      BY <3>1, <3>2, <3>3
    <3>5. QED
      BY <3>4, FunctionIsSeq, Zenon
  <2>7. QED
    BY <2>2, <2>5, <2>6, Zenon
<1>6. SeqsOf(ss, m, S)
  BY <1>4, <1>5, Zenon DEF SeqsOf
<1>7. FlattenSeq(ss) \in Seq(S) /\ ToSet(FlattenSeq(ss)) = S
  <2>1. PICK xs : xs = ss
    OBVIOUS
  <2>2. SeqsOf(xs, m, S)
    BY <1>6, <2>1, Zenon
  <2>3. FlattenSeq(xs) \in Seq(S) /\ ToSet(FlattenSeq(xs)) = UNION {ToSet(xs[i]) : i \in 1 .. m}
    BY <2>2, Flattened
  <2>4. QED
    BY <2>1, <2>3, Zenon
<1>8. OnceEach(FactorIndex(rows), S) /\ ToSet(FactorIndex(rows)) = S
  <2> HIDE DEF ss, S
  <2>1. PICK keys : keys = FlattenSeq(ss)
    OBVIOUS
  <2>2. keys \in Seq(S) /\ ToSet(keys) = S
    BY <1>7, <2>1
  <2>3. OnceEach(FoldLeft(Indexed, <<>>, keys), S) /\ ToSet(FoldLeft(Indexed, <<>>, keys)) = ToSet(keys)
    BY <2>2, IndexOfKeys
  <2>4. QED
    BY <1>3, <2>1, <2>2, <2>3, Zenon
<1>9. ASSUME NEW key
      PROVE  key \in S <=> \E at : InCells(at, ask) /\ key = Key(at.factor)
  <2>1. key \in S <=> \E i \in 1 .. m : \E f \in ToSet(rows[i]) : key = Key(f)
    <3>1. \A i \in 1 .. m : ToSet(ss[i]) = {Key(f) : f \in ToSet(rows[i])}
      BY <1>5
    <3>2. key \in S <=> \E i \in 1 .. m : key \in ToSet(ss[i])
      OBVIOUS
    <3> HIDE DEF S, ss
    <3>3. QED
      BY <3>1, <3>2
  <2>2. ASSUME NEW i \in 1 .. m, NEW f \in ToSet(rows[i]), key = Key(f)
        PROVE  \E at : InCells(at, ask) /\ key = Key(at.factor)
    <3>1. PICK at : at = [row |-> i, factor |-> f]
      OBVIOUS
    <3>2. at.row = i /\ at.factor = f /\ at = [row |-> at.row, factor |-> at.factor]
      BY <3>1
    <3>3. ToSet(rows[i]) = ToSet(FactorsFor(ExpandMeasures(ask.measures)[i], ask.factors))
      BY <1>1, <1>2
    <3>4. InCells(at, ask)
      BY <1>1, <2>2, <3>2, <3>3, Zenon DEF InCells
    <3>5. QED
      BY <2>2, <3>2, <3>4
  <2>3. ASSUME NEW at, InCells(at, ask), key = Key(at.factor)
        PROVE  \E i \in 1 .. m : \E f \in ToSet(rows[i]) : key = Key(f)
    <3>1. /\ at.row \in 1 .. m
          /\ at.factor \in ToSet(FactorsFor(ExpandMeasures(ask.measures)[at.row], ask.factors))
      BY <1>1, <2>3, Zenon DEF InCells
    <3>2. at.factor \in ToSet(rows[at.row])
      BY <1>1, <1>2, <3>1, Zenon
    <3>3. QED
      BY <2>3, <3>1, <3>2, Zenon
  <2> HIDE DEF S, ss
  <2>4. QED
    BY <2>1, <2>2, <2>3, Zenon
<1> HIDE DEF ss, S
<1>10. QED
  BY <1>2, <1>8, <1>9, Zenon

-----------------------------------------------------------------------------
(* The cells are filled. *)

(* Two folds that advance alike. *)
LEMMA SameChain ==
  ASSUME NEW n \in Nat, NEW start,
         NEW v, NEW p, NEW q, NEW r, NEW xs, NEW a, IsChain(v, p, q, r, start, xs, n, a),
         NEW w, NEW s, NEW t, NEW u, NEW b, IsChain(w, s, t, u, start, xs, n, b),
         \A k \in Nat : k < n => \A d : Advance(v, p, q, r, d, xs[k + 1]) = Advance(w, s, t, u, d, xs[k + 1])
  PROVE  a[n] = b[n]
<1> DEFINE T == {k \in Nat : k <= n => a[k] = b[k]}
<1>1. 0 \in T
  BY Zenon DEF IsChain
<1>2. ASSUME NEW k \in Nat, k \in T
      PROVE  k + 1 \in T
  <2>1. SUFFICES ASSUME k + 1 <= n
                 PROVE  a[k + 1] = b[k + 1]
    OBVIOUS
  <2>2. k < n /\ k <= n
    BY <2>1
  <2>3. a[k + 1] = Advance(v, p, q, r, a[k], xs[k + 1])
    BY <2>2, Zenon DEF IsChain
  <2>4. b[k + 1] = Advance(w, s, t, u, b[k], xs[k + 1])
    BY <2>2, Zenon DEF IsChain
  <2>5. a[k] = b[k]
    BY <1>2, <2>2
  <2>6. QED
    BY <2>2, <2>3, <2>4, <2>5, Zenon
<1>3. n \in T
  <2> HIDE DEF T
  <2>1. QED
    BY <1>1, <1>2, SetInduction
<1>4. n <= n
  OBVIOUS
<1>5. QED
  BY <1>3, <1>4

(* Factors with the same key move the same. *)
LEMMA SameTotal ==
  ASSUME NEW trades, NEW n \in Nat, DOMAIN trades = 1 .. n,
         NEW f, NEW g, f # Absent, g # Absent, Key(f) = Key(g), NEW h, NEW scheme
  PROVE  Total(trades, f, h, scheme) = Total(trades, g, h, scheme)
<1>1. PICK a : IsChain("term", f, h, scheme, 0, trades, n, a) /\ Total(trades, f, h, scheme) = a[n]
  BY Totalled
<1>2. PICK b : IsChain("term", g, h, scheme, 0, trades, n, b) /\ Total(trades, g, h, scheme) = b[n]
  BY Totalled
<1>3. /\ Target(f) = Target(g)
      /\ OfCurve(f) <=> OfCurve(g)
      /\ OfCurve(f) => f.bucket = g.bucket
  BY SameKey
<1>4. ASSUME NEW t
      PROVE  Term(t, f, h, scheme) = Term(t, g, h, scheme)
  <2>1. HasTape(f, scheme) <=> HasTape(g, scheme)
    BY <1>3, Zenon DEF HasTape
  <2>2. Derivative(t, f, h, scheme) = Derivative(t, g, h, scheme)
    BY <1>3, <2>1, Zenon DEF Derivative
  <2>3. BucketWeight(t.input, f) = BucketWeight(t.input, g)
    <3>1. CASE OfCurve(f)
      <4>1. OfCurve(g) /\ f.bucket = g.bucket
        BY <1>3, <3>1
      <4>2. QED
        BY <3>1, <4>1, Zenon DEF BucketWeight
    <3>2. CASE ~OfCurve(f)
      <4>1. ~OfCurve(g)
        BY <1>3, <3>2
      <4>2. QED
        BY <3>2, <4>1, Zenon DEF BucketWeight
    <3>3. QED
      BY <3>1, <3>2
  <2>4. QED
    BY <2>2, <2>3, Zenon DEF Term
<1>5. \A d, t : Advance("term", f, h, scheme, d, t) = Advance("term", g, h, scheme, d, t)
  <2>1. TAKE d, t
  <2>2. Advance("term", f, h, scheme, d, t) = d + Term(t, f, h, scheme)
    BY DEF Advance
  <2>3. Advance("term", g, h, scheme, d, t) = d + Term(t, g, h, scheme)
    BY DEF Advance
  <2>4. QED
    BY <1>4, <2>2, <2>3, Zenon
<1>6. \A k \in Nat : k < n =>
        \A d : Advance("term", f, h, scheme, d, trades[k + 1]) = Advance("term", g, h, scheme, d, trades[k + 1])
  BY <1>5, Zenon
<1>7. a[n] = b[n]
  BY <1>1, <1>2, <1>6, SameChain
<1>8. QED
  BY <1>1, <1>2, <1>7

(* What is held is the value of each trade. *)
LEMMA HeldIsValue ==
  ASSUME NEW g, NEW trades, NEW n \in Nat, DOMAIN trades = 1 .. n, Priced(g, trades, n)
  PROVE  HeldValue(g.base, trades) = TotalValue(trades)
<1>1. PICK base : base = g.base
  OBVIOUS
<1>2. PICK a : IsChain("held", base, 0, 0, 0, trades, n, a) /\ HeldValue(base, trades) = a[n]
  BY Held
<1>3. PICK b : IsChain("value", 0, 0, 0, 0, trades, n, b) /\ TotalValue(trades) = b[n]
  BY Valued
<1>4. ASSUME NEW k \in Nat, k < n, NEW d
      PROVE  Advance("held", base, 0, 0, d, trades[k + 1]) = Advance("value", 0, 0, 0, d, trades[k + 1])
  <2>1. PICK t : t = trades[k + 1]
    OBVIOUS
  <2>2. k + 1 \in 1 .. n
    BY <1>4
  <2>3. base[t.product] = Npv(PointOf(t))
    BY <1>1, <2>1, <2>2, Zenon DEF Priced
  <2>4. Advance("held", base, 0, 0, d, t) = d + base[t.product] * t.quantity
    BY DEF Advance
  <2>5. Advance("value", 0, 0, 0, d, t) = d + ValueTerm(t)
    BY DEF Advance
  <2>6. ValueTerm(t) = base[t.product] * t.quantity
    BY <2>3, Zenon DEF ValueTerm, PointOf
  <2>7. QED
    BY <2>1, <2>4, <2>5, <2>6, Zenon
<1>5. \A k \in Nat : k < n => \A d : Advance("held", base, 0, 0, d, trades[k + 1])
                                       = Advance("value", 0, 0, 0, d, trades[k + 1])
  BY <1>4, Zenon
<1>6. a[n] = b[n]
  BY <1>2, <1>3, <1>5, SameChain
<1>7. QED
  BY <1>1, <1>2, <1>3, <1>6

(* The column of a key. *)
Column(index, key) == CHOOSE k \in DOMAIN index : index[k] = key

LEMMA Columns ==
  ASSUME NEW index, NEW S, OnceEach(index, S)
  PROVE  /\ \A key \in ToSet(index) : Column(index, key) \in DOMAIN index /\ index[Column(index, key)] = key
         /\ \A k \in DOMAIN index : index[k] \in ToSet(index) /\ Column(index, index[k]) = k
<1>1. ASSUME NEW key \in ToSet(index)
      PROVE  Column(index, key) \in DOMAIN index /\ index[Column(index, key)] = key
  <2>1. \E k \in DOMAIN index : index[k] = key
    BY <1>1, Zenon DEF ToSet
  <2>2. QED
    BY <2>1, Zenon DEF Column
<1>2. ASSUME NEW k \in DOMAIN index
      PROVE  index[k] \in ToSet(index)
  BY Zenon DEF ToSet
<1>3. QED
  BY <1>1, <1>2, Zenon DEF OnceEach

Written(r, g, x, m) == r = [g EXCEPT !.values = x, !.methods = m]

(* The graph of a cell, with the cell and the method of its measure. *)
CellWritten(r, c, row, measure, f, index) ==
  IF c.graph.error # Absent THEN r = c.graph
  ELSE Written(r, c.graph,
               Insert(c.graph.values, Cell(row, Column(index, Key(f))),
                      IF measure = "pv01" THEN c.total * PV01_SCALE ELSE c.total),
               Insert(c.graph.methods, measure,
                      Method(Get(c.graph.methods, measure, Absent), c.bumped)))

LEMMA AddCellTrades ==
  ASSUME NEW g, g.error = Absent, NEW row, NEW measure, NEW f, NEW index, NEW trades, NEW h, NEW scheme,
         NEW c, c = TradedCell(g, f, h, scheme, trades)
  PROVE  CellWritten(AddCell(g, row, measure, f, index, trades, h, scheme), c, row, measure, f, index)
<1>1. PICK r : r = AddCell(g, row, measure, f, index, trades, h, scheme)
  OBVIOUS
<1>2. r = IF c.graph.error # Absent THEN c.graph
          ELSE [c.graph EXCEPT
                   !.values = Insert(@, Cell(row, Column(index, Key(f))),
                                     IF measure = "pv01" THEN c.total * PV01_SCALE ELSE c.total),
                   !.methods = Insert(@, measure, Method(Get(@, measure, Absent), c.bumped))]
  BY <1>1 DEF AddCell, TradedCell, CellStart, Column, FoldLeft, MapThenFoldSet
<1>3. CASE c.graph.error # Absent
  BY <1>1, <1>2, <1>3 DEF CellWritten
<1>4. CASE c.graph.error = Absent
  <2>1. PICK b, p, v, bu : /\ b = c.graph /\ p = Cell(row, Column(index, Key(f))) /\ bu = c.bumped
                           /\ v = IF measure = "pv01" THEN c.total * PV01_SCALE ELSE c.total
    OBVIOUS
  <2>2. r = [b EXCEPT !.values = Insert(@, p, v),
                      !.methods = Insert(@, measure, Method(Get(@, measure, Absent), bu))]
    BY <1>2, <1>4, <2>1, Zenon
  <2>3. r = [b EXCEPT !.values = Insert(b.values, p, v),
                      !.methods = Insert(b.methods, measure, Method(Get(b.methods, measure, Absent), bu))]
    BY <2>2
  <2>4. QED
    BY <1>1, <1>4, <2>1, <2>3, Zenon DEF CellWritten, Written
<1>5. QED
  BY <1>3, <1>4

(* The value of a cell, taken by itself, and its place in the matrix. *)
CellValue(ask, trades, at) ==
  IF at.factor = Absent THEN TotalValue(trades) * Unit
  ELSE LET total == Total(trades, at.factor, BumpSize(ask), ask.bump_scheme)
       IN  IF ExpandMeasures(ask.measures)[at.row] = "pv01" THEN total * PV01_SCALE ELSE total

Place(at, ask) == Cell(at.row, Column(FactorIndex(Rows(ask)), Key(at.factor)))

LEMMA SamePlace ==
  ASSUME NEW ask, Listed(ask), NEW trades, NEW n \in Nat, DOMAIN trades = 1 .. n,
         NEW at, InCells(at, ask), NEW other, InCells(other, ask), Place(at, ask) = Place(other, ask)
  PROVE  CellValue(ask, trades, at) = CellValue(ask, trades, other)
<1> DEFINE index == FactorIndex(Rows(ask))
<1>1. at.row = other.row /\ Column(index, Key(at.factor)) = Column(index, Key(other.factor))
  BY DEF Place, Cell
<1>2. Key(at.factor) \in ToSet(index) /\ Key(other.factor) \in ToSet(index)
  BY IndexListed, Zenon
<1>3. PICK S : OnceEach(index, S)
  BY IndexListed, Zenon
<1>4. Key(at.factor) = Key(other.factor)
  <2>1. \A key \in ToSet(index) : index[Column(index, key)] = key
    BY <1>3, Columns, Zenon
  <2> HIDE DEF index
  <2>2. QED
    BY <1>1, <1>2, <2>1, Zenon
<1>5. at.factor = Absent <=> other.factor = Absent
  <2>1. \A a, b, c, d, e : <<a, b, c, d>> # <<e>> /\ <<a, b>> # <<e>>
    OBVIOUS
  <2>2. \A f : f # Absent => Key(f) # <<"none">>
    BY <2>1, Zenon DEF Key
  <2>3. Key(Absent) = <<"none">>
    BY DEF Key
  <2>4. QED
    BY <1>4, <2>2, <2>3, Zenon
<1>6. CASE at.factor = Absent
  BY <1>5, <1>6, Zenon DEF CellValue
<1>7. CASE at.factor # Absent
  <2>1. Total(trades, at.factor, BumpSize(ask), ask.bump_scheme)
          = Total(trades, other.factor, BumpSize(ask), ask.bump_scheme)
    <3>1. PICK f, g : f = at.factor /\ g = other.factor
      OBVIOUS
    <3>2. f # Absent /\ g # Absent /\ Key(f) = Key(g)
      BY <1>4, <1>5, <1>7, <3>1
    <3>3. Total(trades, f, BumpSize(ask), ask.bump_scheme)
            = Total(trades, g, BumpSize(ask), ask.bump_scheme)
      BY <3>2, SameTotal
    <3>4. QED
      BY <3>1, <3>3
  <2>2. QED
    BY <1>1, <1>5, <1>7, <2>1, Zenon DEF CellValue
<1>8. QED
  BY <1>6, <1>7

(* After the cells of a set: what is in the matrix, ... *)
ValuesDone(g, ask, trades, cells) ==
  /\ DOMAIN g.values = {Place(at, ask) : at \in cells}
  /\ \A at \in cells : g.values[Place(at, ask)] = CellValue(ask, trades, at)

LEMMA ValuesStep ==
  ASSUME NEW ask, Listed(ask), NEW trades, NEW n \in Nat, DOMAIN trades = 1 .. n,
         NEW cells, \A at \in cells : InCells(at, ask), NEW at, InCells(at, ask),
         NEW g, ValuesDone(g, ask, trades, cells), NEW r,
         r.values = Insert(g.values, Place(at, ask), CellValue(ask, trades, at))
  PROVE  ValuesDone(r, ask, trades, cells \cup {at})
<1>1. PICK place, value : place = Place(at, ask) /\ value = CellValue(ask, trades, at)
  OBVIOUS
<1>2. /\ DOMAIN r.values = DOMAIN g.values \cup {place}
      /\ \A x \in DOMAIN g.values \cup {place} : r.values[x] = IF x = place THEN value ELSE g.values[x]
  BY <1>1, Zenon DEF Insert
<1>3. DOMAIN r.values = {Place(other, ask) : other \in cells \cup {at}}
  BY <1>1, <1>2 DEF ValuesDone
<1>4. ASSUME NEW other \in cells
      PROVE  r.values[Place(other, ask)] = CellValue(ask, trades, other)
  <2>1. Place(other, ask) \in DOMAIN g.values
    BY Zenon DEF ValuesDone
  <2>2. CASE Place(other, ask) = place
    <3>1. CellValue(ask, trades, other) = value
      BY <1>1, <2>2, SamePlace, Zenon
    <3>2. QED
      BY <1>2, <2>1, <2>2, <3>1, Zenon
  <2>3. CASE Place(other, ask) # place
    BY <1>2, <2>1, <2>3, Zenon DEF ValuesDone
  <2>4. QED
    BY <2>2, <2>3
<1>5. r.values[Place(at, ask)] = CellValue(ask, trades, at)
  BY <1>1, <1>2, Zenon
<1>6. QED
  BY <1>3, <1>4, <1>5, Zenon DEF ValuesDone

(* ... what was done for it, ... *)
Bumping(at, ask) == at.factor # Absent /\ ~HasTape(at.factor, ask.bump_scheme)
Taping(at, ask) == at.factor # Absent /\ HasTape(at.factor, ask.bump_scheme)

WorkDone(g, ask, trades, n, cells) ==
  /\ DOMAIN g.bumps = UNION {KeysOf(trades, n, at.factor) : at \in {c \in cells : Bumping(c, ask)}}
  /\ g.tapes = UNION {Products(trades, n) : at \in {c \in cells : Taping(c, ask)}}

LEMMA WorkStep ==
  ASSUME NEW ask, NEW trades, NEW n, NEW cells, NEW at,
         NEW g, WorkDone(g, ask, trades, n, cells), NEW r,
         DOMAIN r.bumps = DOMAIN g.bumps \cup (IF Bumping(at, ask) THEN KeysOf(trades, n, at.factor) ELSE {}),
         r.tapes = g.tapes \cup (IF Taping(at, ask) THEN Products(trades, n) ELSE {})
  PROVE  WorkDone(r, ask, trades, n, cells \cup {at})
<1> DEFINE B(c) == KeysOf(trades, n, c.factor)
           P == Products(trades, n)
<1>1. DOMAIN g.bumps = UNION {B(c) : c \in {c \in cells : Bumping(c, ask)}}
  BY Zenon DEF WorkDone
<1>2. g.tapes = UNION {P : c \in {c \in cells : Taping(c, ask)}}
  BY Zenon DEF WorkDone
<1>3. DOMAIN r.bumps = UNION {B(c) : c \in {c \in cells \cup {at} : Bumping(c, ask)}}
  <2>1. PICK Y : Y = B(at)
    OBVIOUS
  <2>2. DOMAIN r.bumps = DOMAIN g.bumps \cup (IF Bumping(at, ask) THEN Y ELSE {})
    BY <2>1
  <2> HIDE DEF B
  <2>3. ASSUME NEW x
        PROVE  x \in DOMAIN r.bumps <=> \E c \in cells \cup {at} : Bumping(c, ask) /\ x \in B(c)
    <3>1. x \in DOMAIN g.bumps <=> \E c \in cells : Bumping(c, ask) /\ x \in B(c)
      BY <1>1
    <3>2. x \in DOMAIN r.bumps <=> x \in DOMAIN g.bumps \/ (Bumping(at, ask) /\ x \in Y)
      BY <2>2
    <3>3. QED
      BY <2>1, <3>1, <3>2
  <2>4. QED
    BY <2>3
<1>4. r.tapes = UNION {P : c \in {c \in cells \cup {at} : Taping(c, ask)}}
  <2> HIDE DEF P
  <2>1. r.tapes = g.tapes \cup (IF Taping(at, ask) THEN P ELSE {})
    BY DEF P
  <2>2. ASSUME NEW x
        PROVE  x \in r.tapes <=> \E c \in cells \cup {at} : Taping(c, ask) /\ x \in P
    <3>1. x \in g.tapes <=> \E c \in cells : Taping(c, ask) /\ x \in P
      BY <1>2
    <3>2. x \in r.tapes <=> x \in g.tapes \/ (Taping(at, ask) /\ x \in P)
      BY <2>1
    <3>3. QED
      BY <3>1, <3>2
  <2>3. QED
    BY <2>2
<1>5. QED
  BY <1>3, <1>4, Zenon DEF WorkDone

(* ... and how each measure says that it was computed. *)
MethodsDone(g, ask, n, cells) ==
  LET measures == ExpandMeasures(ask.measures)
  IN  /\ \A m \in DOMAIN g.methods : /\ g.methods[m] # Absent
                                     /\ m = "pv" \/ \E at \in cells : m = measures[at.row]
      /\ \A at \in cells : Bumping(at, ask) /\ n > 0 =>
           measures[at.row] \in DOMAIN g.methods /\ g.methods[measures[at.row]] # "aad"

LEMMA MethodsStep ==
  ASSUME NEW ask, NEW n \in Nat, NEW cells, NEW at,
         NEW g, MethodsDone(g, ask, n, cells), NEW r, NEW bumped,
         Bumping(at, ask) /\ n > 0 => bumped,
         r.methods = LET m == ExpandMeasures(ask.measures)[at.row]
                     IN  Insert(g.methods, m, Method(Get(g.methods, m, Absent), bumped))
  PROVE  MethodsDone(r, ask, n, cells \cup {at})
<1>1. PICK measures : measures = ExpandMeasures(ask.measures)
  OBVIOUS
<1>2. PICK m, known, label : /\ m = measures[at.row] /\ known = Get(g.methods, m, Absent)
                             /\ label = Method(known, bumped)
  OBVIOUS
<1>3. /\ DOMAIN r.methods = DOMAIN g.methods \cup {m}
      /\ \A x \in DOMAIN g.methods \cup {m} : r.methods[x] = IF x = m THEN label ELSE g.methods[x]
  BY <1>1, <1>2, Zenon DEF Insert
<1>4. /\ "aad" # Absent /\ "bump_and_revalue" # Absent /\ "mixed" # Absent
  BY RiskAssumption DEF RiskAssumption, Methods
<1>5. label # Absent
  BY <1>2, <1>4, Zenon DEF Method
<1>6. bumped => label # "aad"
  <2>1. "bump_and_revalue" # "aad" /\ "mixed" # "aad"
    OBVIOUS
  <2>2. QED
    BY <1>2, <2>1, Zenon DEF Method
<1>7. m \in DOMAIN g.methods /\ g.methods[m] # "aad" => label # "aad"
  <2>1. SUFFICES ASSUME m \in DOMAIN g.methods, g.methods[m] # "aad"
                 PROVE  label # "aad"
    OBVIOUS
  <2>2. known = g.methods[m]
    BY <1>2, <2>1, Zenon DEF Get
  <2>3. known # Absent
    BY <2>1, <2>2, Zenon DEF MethodsDone
  <2>4. label = known
    BY <1>2, <2>1, <2>2, <2>3, Zenon DEF Method
  <2>5. QED
    BY <2>1, <2>2, <2>4
<1>8. ASSUME NEW x \in DOMAIN r.methods
      PROVE  r.methods[x] # Absent /\ (x = "pv" \/ \E c \in cells \cup {at} : x = measures[c.row])
  <2>1. CASE x = m
    BY <1>2, <1>3, <1>5, <2>1, Zenon
  <2>2. CASE x # m
    <3>1. x \in DOMAIN g.methods /\ r.methods[x] = g.methods[x]
      BY <1>3, <1>8, <2>2, Zenon
    <3>2. QED
      BY <1>1, <3>1, Zenon DEF MethodsDone
  <2>3. QED
    BY <2>1, <2>2
<1>9. ASSUME NEW c \in cells \cup {at}, Bumping(c, ask), n > 0
      PROVE  measures[c.row] \in DOMAIN r.methods /\ r.methods[measures[c.row]] # "aad"
  <2>1. CASE c = at
    BY <1>2, <1>3, <1>6, <1>9, <2>1, Zenon
  <2>2. CASE c \in cells
    <3>1. measures[c.row] \in DOMAIN g.methods /\ g.methods[measures[c.row]] # "aad"
      BY <1>1, <1>9, <2>2, Zenon DEF MethodsDone
    <3>2. QED
      BY <1>3, <1>7, <3>1, Zenon
  <2>3. QED
    BY <1>9, <2>1, <2>2
<1>10. QED
  BY <1>1, <1>8, <1>9, Zenon DEF MethodsDone

LEMMA MethodsOfValue ==
  ASSUME NEW ask, NEW n \in Nat, NEW cells, NEW at, at.factor = Absent,
         NEW g, MethodsDone(g, ask, n, cells), NEW r,
         r.methods = Insert(g.methods, "pv", "base_valuation")
  PROVE  MethodsDone(r, ask, n, cells \cup {at})
<1>1. PICK measures : measures = ExpandMeasures(ask.measures)
  OBVIOUS
<1>2. /\ DOMAIN r.methods = DOMAIN g.methods \cup {"pv"}
      /\ \A x \in DOMAIN g.methods \cup {"pv"} : r.methods[x] = IF x = "pv" THEN "base_valuation" ELSE g.methods[x]
  BY Zenon DEF Insert
<1>3. "base_valuation" # Absent /\ "base_valuation" # "aad"
  BY RiskAssumption DEF RiskAssumption, Methods
<1>4. ASSUME NEW x \in DOMAIN r.methods
      PROVE  r.methods[x] # Absent /\ (x = "pv" \/ \E c \in cells \cup {at} : x = measures[c.row])
  <2>1. CASE x = "pv"
    BY <1>2, <1>3, <2>1, Zenon
  <2>2. CASE x # "pv"
    <3>1. x \in DOMAIN g.methods /\ r.methods[x] = g.methods[x]
      BY <1>2, <1>4, <2>2, Zenon
    <3>2. QED
      BY <1>1, <3>1, Zenon DEF MethodsDone
  <2>3. QED
    BY <2>1, <2>2
<1>5. ASSUME NEW c \in cells \cup {at}, Bumping(c, ask), n > 0
      PROVE  measures[c.row] \in DOMAIN r.methods /\ r.methods[measures[c.row]] # "aad"
  <2>1. c \in cells
    BY <1>5 DEF Bumping
  <2>2. measures[c.row] \in DOMAIN g.methods /\ g.methods[measures[c.row]] # "aad"
    BY <1>1, <1>5, <2>1, Zenon DEF MethodsDone
  <2>3. QED
    BY <1>2, <1>3, <2>2, Zenon
<1>6. QED
  BY <1>1, <1>4, <1>5, Zenon DEF MethodsDone

(* What is written into the matrix is not read back. *)
LEMMA WrittenKeeps ==
  ASSUME NEW g, NEW trades, NEW n, NEW h, NEW scheme, Kept(g, trades, n, h, scheme), NEW x, NEW m,
         NEW r, Written(r, g, x, m)
  PROVE  /\ Kept(r, trades, n, h, scheme) /\ r.error = Absent
         /\ r.values = x /\ r.methods = m /\ r.bumps = g.bumps /\ r.tapes = g.tapes
<1>1. IsGraph(g) /\ g.error = Absent
  BY Zenon DEF Kept
<1>2. r = Graph(g.base, g.tapes, g.bumps, g.valuation_calls, g.aad_passes, x, m, g.error)
  BY <1>1, CellChange, Zenon DEF Written
<1>3. /\ r.base = g.base /\ r.tapes = g.tapes /\ r.bumps = g.bumps
      /\ r.valuation_calls = g.valuation_calls /\ r.aad_passes = g.aad_passes
      /\ r.values = x /\ r.methods = m /\ r.error = g.error /\ IsGraph(r)
  BY <1>2, GraphFields
<1>4. Kept(r, trades, n, h, scheme)
  BY <1>3, Zenon DEF Kept, Priced
<1>5. QED
  BY <1>1, <1>3, <1>4, Zenon

FillPass(g, ask, trades, n, cells) ==
  /\ IsGraph(g)
  /\ g.error = Absent =>
       /\ Kept(g, trades, n, BumpSize(ask), ask.bump_scheme)
       /\ ValuesDone(g, ask, trades, cells)
       /\ WorkDone(g, ask, trades, n, cells)
       /\ MethodsDone(g, ask, n, cells)

LEMMA ValueFilled ==
  ASSUME NEW ask, Listed(ask), NEW trades, NEW n \in Nat, Book(trades, n),
         NEW cells, \A at \in cells : InCells(at, ask), NEW at, InCells(at, ask), at.factor = Absent,
         NEW g, FillPass(g, ask, trades, n, cells), g.error = Absent
  PROVE  FillPass(FillCell(g, at, ask, trades, TotalValue(trades)), ask, trades, n, cells \cup {at})
<1> DEFINE index == FactorIndex(Rows(ask))
<1>1. /\ Kept(g, trades, n, BumpSize(ask), ask.bump_scheme)
      /\ ValuesDone(g, ask, trades, cells)
      /\ WorkDone(g, ask, trades, n, cells)
      /\ MethodsDone(g, ask, n, cells)
  BY Zenon DEF FillPass
<1>2. PICK r : r = FillCell(g, at, ask, trades, TotalValue(trades))
  OBVIOUS
<1>3. Place(at, ask) = Cell(at.row, Column(index, <<"none">>))
  BY Zenon DEF Place, Key
<1>4. r = [g EXCEPT !.values = Insert(@, Place(at, ask), TotalValue(trades) * Unit),
                    !.methods = Insert(@, "pv", "base_valuation")]
  BY <1>2, <1>3, Zenon DEF FillCell, AddValue, Column
<1>5. PICK x, m : x = Insert(g.values, Place(at, ask), CellValue(ask, trades, at))
                  /\ m = Insert(g.methods, "pv", "base_valuation")
  OBVIOUS
<1>6. CellValue(ask, trades, at) = TotalValue(trades) * Unit
  BY Zenon DEF CellValue
<1>7. Written(r, g, x, m)
  <2>1. PICK p, v : p = Place(at, ask) /\ v = TotalValue(trades) * Unit
    OBVIOUS
  <2>2. r = [g EXCEPT !.values = Insert(@, p, v), !.methods = Insert(@, "pv", "base_valuation")]
    BY <1>4, <2>1, Zenon
  <2>3. x = Insert(g.values, p, v)
    BY <1>5, <1>6, <2>1, Zenon
  <2>4. r = [g EXCEPT !.values = Insert(g.values, p, v), !.methods = Insert(g.methods, "pv", "base_valuation")]
    BY <2>2
  <2>5. QED
    BY <1>5, <2>3, <2>4, Zenon DEF Written
<1>8. /\ Kept(r, trades, n, BumpSize(ask), ask.bump_scheme)
      /\ r.values = x /\ r.methods = m /\ r.bumps = g.bumps /\ r.tapes = g.tapes
  BY <1>1, <1>7, WrittenKeeps
<1>9. ValuesDone(r, ask, trades, cells \cup {at})
  <2>1. DOMAIN trades = 1 .. n
    BY DEF Book
  <2>2. r.values = Insert(g.values, Place(at, ask), CellValue(ask, trades, at))
    BY <1>5, <1>8, Zenon
  <2>3. QED
    BY <1>1, <2>1, <2>2, ValuesStep
<1>10. WorkDone(r, ask, trades, n, cells \cup {at})
  <2>1. ~Bumping(at, ask) /\ ~Taping(at, ask)
    BY DEF Bumping, Taping
  <2>2. /\ DOMAIN r.bumps = DOMAIN g.bumps \cup (IF Bumping(at, ask) THEN KeysOf(trades, n, at.factor) ELSE {})
        /\ r.tapes = g.tapes \cup (IF Taping(at, ask) THEN Products(trades, n) ELSE {})
    BY <1>8, <2>1
  <2>3. QED
    BY <1>1, <2>2, WorkStep
<1>11. MethodsDone(r, ask, n, cells \cup {at})
  <2>1. r.methods = Insert(g.methods, "pv", "base_valuation")
    BY <1>5, <1>8, Zenon
  <2>2. QED
    BY <1>1, <2>1, MethodsOfValue
<1>12. IsGraph(r)
  BY <1>8, Zenon DEF Kept
<1>13. QED
  BY <1>2, <1>8, <1>9, <1>10, <1>11, <1>12, Zenon DEF FillPass

LEMMA CellFilled ==
  ASSUME NEW ask, Listed(ask), NEW trades, NEW n \in Nat, Book(trades, n), NEW total,
         NEW cells, \A at \in cells : InCells(at, ask), NEW at, InCells(at, ask), at.factor # Absent,
         NEW g, FillPass(g, ask, trades, n, cells), g.error = Absent
  PROVE  FillPass(FillCell(g, at, ask, trades, total), ask, trades, n, cells \cup {at})
<1> DEFINE index == FactorIndex(Rows(ask))
           measure == ExpandMeasures(ask.measures)[at.row]
<1>1. /\ Kept(g, trades, n, BumpSize(ask), ask.bump_scheme)
      /\ ValuesDone(g, ask, trades, cells)
      /\ WorkDone(g, ask, trades, n, cells)
      /\ MethodsDone(g, ask, n, cells)
  BY Zenon DEF FillPass
<1>2. PICK r : r = FillCell(g, at, ask, trades, total)
  OBVIOUS
<1>3. PICK h, scheme, f : h = BumpSize(ask) /\ scheme = ask.bump_scheme /\ f = at.factor
  OBVIOUS
<1>4. PICK c : c = TradedCell(g, f, h, scheme, trades)
  OBVIOUS
<1>5. r = AddCell(g, at.row, measure, f, index, trades, h, scheme)
  BY <1>2, <1>3, Zenon DEF FillCell
<1>6. CellAfter(c, g, trades, n, f, h, scheme, n, Total(trades, f, h, scheme))
  BY <1>1, <1>3, <1>4, CellEnds
<1> DEFINE value == IF measure = "pv01" THEN c.total * PV01_SCALE ELSE c.total
           label == Method(Get(c.graph.methods, measure, Absent), c.bumped)
<1>7. CellWritten(r, c, at.row, measure, f, index)
  <2>1. PICK row, me, ix : row = at.row /\ me = measure /\ ix = index
    OBVIOUS
  <2>2. CellWritten(AddCell(g, row, me, f, ix, trades, h, scheme), c, row, me, f, ix)
    BY <1>4, AddCellTrades
  <2>3. QED
    BY <1>5, <2>1, <2>2, Zenon
<1>8. CASE c.graph.error # Absent
  <2>1. r = c.graph
    BY <1>7, <1>8, Zenon DEF CellWritten
  <2>2. IsGraph(r) /\ r.error # Absent
    BY <1>6, <1>8, <2>1, Zenon DEF CellAfter
  <2>3. QED
    BY <1>2, <2>2, Zenon DEF FillPass
<1>9. CASE c.graph.error = Absent
  <2>1. PICK b : b = c.graph
    OBVIOUS
  <2>2. /\ Kept(b, trades, n, h, scheme)
        /\ b.values = g.values /\ b.methods = g.methods
        /\ c.total = Total(trades, f, h, scheme)
        /\ c.bumped <=> n > 0 /\ ~HasTape(f, scheme)
        /\ DOMAIN b.bumps
             = DOMAIN g.bumps \cup (IF HasTape(f, scheme) THEN {} ELSE KeysOf(trades, n, f))
        /\ b.tapes = g.tapes \cup (IF HasTape(f, scheme) THEN Products(trades, n) ELSE {})
    BY <1>6, <1>9, <2>1, Zenon DEF CellAfter
  <2>3. PICK x, m : x = Insert(g.values, Place(at, ask), value) /\ m = Insert(g.methods, measure, label)
    OBVIOUS
  <2>4. Written(r, b, x, m)
    <3>1. Place(at, ask) = Cell(at.row, Column(index, Key(f)))
      BY <1>3, Zenon DEF Place
    <3>2. x = Insert(b.values, Cell(at.row, Column(index, Key(f))), value)
      BY <2>2, <2>3, <3>1, Zenon
    <3>3. m = Insert(b.methods, measure, Method(Get(b.methods, measure, Absent), c.bumped))
      BY <2>1, <2>2, <2>3, Zenon
    <3>4. QED
      BY <1>7, <1>9, <2>1, <3>2, <3>3, Zenon DEF CellWritten
  <2>5. /\ Kept(r, trades, n, h, scheme)
        /\ r.values = x /\ r.methods = m /\ r.bumps = b.bumps /\ r.tapes = b.tapes
    BY <2>2, <2>4, WrittenKeeps
  <2>6. ValuesDone(r, ask, trades, cells \cup {at})
    <3>1. DOMAIN trades = 1 .. n
      BY DEF Book
    <3>2. value = CellValue(ask, trades, at)
      BY <1>3, <2>2, Zenon DEF CellValue
    <3>3. r.values = Insert(g.values, Place(at, ask), CellValue(ask, trades, at))
      BY <2>3, <2>5, <3>2, Zenon
    <3> HIDE DEF value, label, measure, index
    <3>4. QED
      BY <1>1, <3>1, <3>3, ValuesStep
  <2>7. WorkDone(r, ask, trades, n, cells \cup {at})
    <3>1. (Bumping(at, ask) <=> ~HasTape(f, scheme)) /\ (Taping(at, ask) <=> HasTape(f, scheme))
      BY <1>3, Zenon DEF Bumping, Taping
    <3>2. /\ DOMAIN r.bumps = DOMAIN g.bumps \cup (IF Bumping(at, ask) THEN KeysOf(trades, n, at.factor) ELSE {})
          /\ r.tapes = g.tapes \cup (IF Taping(at, ask) THEN Products(trades, n) ELSE {})
      <4> HIDE DEF value, label, measure, index
      <4>1. QED
        BY <1>3, <2>2, <2>5, <3>1
    <3> HIDE DEF value, label, measure, index
    <3>3. QED
      BY <1>1, <3>2, WorkStep
  <2>8. MethodsDone(r, ask, n, cells \cup {at})
    <3>1. Bumping(at, ask) /\ n > 0 => c.bumped
      <4>1. Bumping(at, ask) => ~HasTape(f, scheme)
        BY <1>3, Zenon DEF Bumping
      <4>2. QED
        BY <2>2, <4>1, Zenon
    <3>2. PICK bumped : bumped = c.bumped
      OBVIOUS
    <3>3. r.methods = LET mm == ExpandMeasures(ask.measures)[at.row]
                      IN  Insert(g.methods, mm, Method(Get(g.methods, mm, Absent), bumped))
      BY <2>1, <2>2, <2>3, <2>5, <3>2, Zenon
    <3> HIDE DEF value, label, measure, index
    <3>4. QED
      BY <1>1, <3>1, <3>2, <3>3, MethodsStep
  <2>9. IsGraph(r)
    BY <2>5, Zenon DEF Kept
  <2>10. QED
    BY <1>2, <1>3, <2>5, <2>6, <2>7, <2>8, <2>9, Zenon DEF FillPass
<1>10. QED
  BY <1>8, <1>9

LEMMA FillStarts ==
  ASSUME NEW g, NEW ask, NEW trades, NEW n \in Nat, BasePass(g, trades, n)
  PROVE  FillPass(g, ask, trades, n, {})
<1>1. IsGraph(g)
  BY Zenon DEF BasePass
<1>2. CASE g.error # Absent
  BY <1>1, <1>2, Zenon DEF FillPass
<1>3. CASE g.error = Absent
  <2>1. /\ Priced(g, trades, n)
        /\ g.tapes = {} /\ g.bumps = NoEntries /\ g.values = <<>> /\ g.methods = NoEntries
        /\ g.valuation_calls = Cardinality(DOMAIN g.base) /\ g.aad_passes = 0
    BY <1>3, Zenon DEF BasePass
  <2>2. DOMAIN g.bumps = {} /\ DOMAIN g.values = {} /\ DOMAIN g.methods = {}
    BY <2>1 DEF NoEntries
  <2>3. IsFiniteSet({}) /\ Cardinality({}) = 0
    BY FS_EmptySet
  <2>4. g.valuation_calls = Cardinality(DOMAIN g.base) + Each(ask.bump_scheme) * Cardinality(DOMAIN g.bumps)
    <3>1. Cardinality(DOMAIN g.base) \in Nat
      BY <2>1, FS_CardinalityType, Zenon DEF Priced
    <3>2. Each(ask.bump_scheme) = 1 \/ Each(ask.bump_scheme) = 2
      BY DEF Each
    <3>3. PICK z : z = Cardinality(DOMAIN g.base)
      OBVIOUS
    <3>4. z + 1 * 0 = z /\ z + 2 * 0 = z
      BY <3>1, <3>3
    <3>5. QED
      BY <2>1, <2>2, <2>3, <3>2, <3>3, <3>4, Zenon
  <2>5. Kept(g, trades, n, BumpSize(ask), ask.bump_scheme)
    BY <1>1, <1>3, <2>1, <2>2, <2>3, <2>4, Zenon DEF Kept
  <2>6. ValuesDone(g, ask, trades, {})
    BY <2>2 DEF ValuesDone
  <2>7. WorkDone(g, ask, trades, n, {})
    BY <2>1, <2>2 DEF WorkDone
  <2>8. MethodsDone(g, ask, n, {})
    BY <2>2, Zenon DEF MethodsDone
  <2>9. QED
    BY <1>1, <2>5, <2>6, <2>7, <2>8, Zenon DEF FillPass
<1>4. QED
  BY <1>2, <1>3

LEMMA FillEnds ==
  ASSUME NEW ask, Listed(ask), NEW trades, NEW n \in Nat, Book(trades, n),
         NEW start, BasePass(start, trades, n),
         NEW total, start.error = Absent => total = TotalValue(trades),
         NEW cells, \A at : at \in ToSet(cells) <=> InCells(at, ask),
         NEW z \in Nat, DOMAIN cells = 1 .. z
  PROVE  FillPass(FilledGraph(start, ask, trades, total, cells), ask, trades, n, ToSet(cells))
<1>1. PICK a : /\ IsChain("cell", ask, trades, total, start, cells, z, a)
               /\ FilledGraph(start, ask, trades, total, cells) = a[z]
  BY Filled
<1> DEFINE Done(k) == {cells[j] : j \in 1 .. k}
           Passed(k) == /\ FillPass(a[k], ask, trades, n, Done(k))
                        /\ start.error # Absent => a[k].error # Absent
           T == {k \in Nat : k <= z => Passed(k)}
<1>2. 0 \in T
  <2>1. a[0] = start
    BY <1>1, Zenon DEF IsChain
  <2>2. Done(0) = {}
    <3>1. 1 .. 0 = {}
      OBVIOUS
    <3>2. QED
      BY <3>1
  <2>3. FillPass(start, ask, trades, n, {})
    BY FillStarts, Zenon
  <2> HIDE DEF Done
  <2>4. Passed(0)
    BY <2>1, <2>2, <2>3, Zenon
  <2> HIDE DEF Passed
  <2>5. QED
    BY <2>4
<1>3. ASSUME NEW k \in Nat, k \in T
      PROVE  k + 1 \in T
  <2>1. SUFFICES ASSUME k + 1 <= z
                 PROVE  Passed(k + 1)
    <3> HIDE DEF Passed
    <3>1. QED
      OBVIOUS
  <2>2. k < z /\ k <= z /\ k + 1 \in 1 .. z /\ 1 .. k + 1 = (1 .. k) \cup {k + 1}
        /\ \A j \in 1 .. k : j \in 1 .. z
    BY <2>1
  <2>3. PICK g, at, cs : g = a[k] /\ at = cells[k + 1] /\ cs = Done(k)
    OBVIOUS
  <2>4. a[k + 1] = FillCell(g, at, ask, trades, total)
    BY <1>1, <2>2, <2>3 DEF IsChain, Advance
  <2>5. Done(k + 1) = cs \cup {at}
    BY <2>2, <2>3, Zenon
  <2>6. InCells(at, ask) /\ \A c \in cs : InCells(c, ask)
    <3>1. at \in ToSet(cells) /\ cs \subseteq ToSet(cells)
      BY <2>2, <2>3, Zenon DEF ToSet
    <3>2. QED
      BY <3>1, Zenon
  <2>7. FillPass(g, ask, trades, n, cs) /\ (start.error # Absent => g.error # Absent)
    BY <1>3, <2>2, <2>3
  <2> HIDE DEF T, Done
  <2>8. CASE g.error # Absent
    <3>1. FillCell(g, at, ask, trades, total) = g
      BY <2>8, Zenon DEF FillCell, AddValue, AddCell
    <3>2. FillPass(g, ask, trades, n, cs \cup {at})
      BY <2>7, <2>8, Zenon DEF FillPass
    <3>3. QED
      BY <2>4, <2>5, <2>8, <3>1, <3>2, Zenon
  <2>9. CASE g.error = Absent
    <3>1. total = TotalValue(trades) /\ start.error = Absent
      BY <2>7, <2>9
    <3>2. FillPass(FillCell(g, at, ask, trades, total), ask, trades, n, cs \cup {at})
      <4>1. CASE at.factor = Absent
        BY <2>6, <2>7, <2>9, <3>1, <4>1, ValueFilled
      <4>2. CASE at.factor # Absent
        BY <2>6, <2>7, <2>9, <4>2, CellFilled
      <4>3. QED
        BY <4>1, <4>2
    <3>3. QED
      BY <2>4, <2>5, <3>1, <3>2, Zenon
  <2>10. QED
    BY <2>8, <2>9
<1>4. z \in T
  <2> HIDE DEF T
  <2>1. QED
    BY <1>2, <1>3, SetInduction
<1>5. FillPass(a[z], ask, trades, n, Done(z))
  <2>1. z <= z
    OBVIOUS
  <2> HIDE DEF Done
  <2>2. QED
    BY <1>4, <2>1
<1>6. Done(z) = ToSet(cells)
  BY Zenon DEF ToSet
<1> HIDE DEF Done, T
<1>7. QED
  BY <1>1, <1>5, <1>6, Zenon

-----------------------------------------------------------------------------
(* A result, and the graph it was read from. *)

BasedGraph(trades) == FoldLeft(BaseValue, EmptyGraph, trades)
DoneGraph(ask, trades) ==
  FilledGraph(BasedGraph(trades), ask, trades, HeldValue(BasedGraph(trades).base, trades), Cells(Rows(ask)))

ReadFrom(result, g, ask) ==
  LET measures == ExpandMeasures(ask.measures)
      index == FactorIndex(Rows(ask))
  IN  result = [error |-> Absent, measures |-> measures, index |-> index,
                values |-> [i \in DOMAIN measures |-> [k \in DOMAIN index |-> Get(g.values, Cell(i, k), 0)]],
                methods |-> g.methods,
                valuation_calls |-> g.valuation_calls,
                aad_passes |-> g.aad_passes]

LEMMA SensitivitiesRead ==
  ASSUME NEW ask, NEW trades
  PROVE  IF DoneGraph(ask, trades).error # Absent
         THEN Sensitivities(ask, trades) = [error |-> DoneGraph(ask, trades).error]
         ELSE ReadFrom(Sensitivities(ask, trades), DoneGraph(ask, trades), ask)
BY Zenon DEF Sensitivities, DoneGraph, BasedGraph, HeldValue, FilledGraph, ReadFrom

LEMMA ResultFacts ==
  ASSUME NEW ask, Listed(ask), NEW trades, NEW n \in Nat, Book(trades, n),
         NEW result, result = Sensitivities(ask, trades), result.error = Absent
  PROVE  \E g : /\ ReadFrom(result, g, ask)
                /\ g.error = Absent /\ FillPass(g, ask, trades, n, ToSet(Cells(Rows(ask))))
<1>1. PICK start, g : start = BasedGraph(trades) /\ g = DoneGraph(ask, trades)
  OBVIOUS
<1>2. BasePass(start, trades, n)
  BY <1>1, BasePassEnds, Zenon DEF BasedGraph
<1>3. PICK total, cells : total = HeldValue(start.base, trades) /\ cells = Cells(Rows(ask))
  OBVIOUS
<1>4. start.error = Absent => total = TotalValue(trades)
  <2>1. SUFFICES ASSUME start.error = Absent
                 PROVE  total = TotalValue(trades)
    OBVIOUS
  <2>2. Priced(start, trades, n) /\ DOMAIN trades = 1 .. n
    BY <1>2, <2>1, Zenon DEF BasePass, Book
  <2>3. QED
    BY <1>3, <2>2, HeldIsValue
<1>5. (\A at : at \in ToSet(cells) <=> InCells(at, ask)) /\ \E z \in Nat : DOMAIN cells = 1 .. z
  BY <1>3, CellsListed, Zenon
<1>6. PICK z \in Nat : DOMAIN cells = 1 .. z
  BY <1>5
<1>7. FillPass(FilledGraph(start, ask, trades, total, cells), ask, trades, n, ToSet(cells))
  BY <1>2, <1>4, <1>5, <1>6, FillEnds
<1>8. g = FilledGraph(start, ask, trades, total, cells)
  BY <1>1, <1>3, Zenon DEF DoneGraph
<1>9. g.error = Absent /\ ReadFrom(result, g, ask)
  <2>1. CASE g.error # Absent
    <3>1. result = [error |-> g.error]
      BY <1>1, <2>1, SensitivitiesRead, Zenon
    <3>2. QED
      BY <2>1, <3>1
  <2>2. CASE g.error = Absent
    BY <1>1, <2>2, SensitivitiesRead, Zenon
  <2>3. QED
    BY <2>1, <2>2
<1>10. QED
  BY <1>3, <1>7, <1>8, <1>9, Zenon

LEMMA ReadFields ==
  ASSUME NEW result, NEW g, NEW ask, ReadFrom(result, g, ask)
  PROVE  /\ result.measures = ExpandMeasures(ask.measures)
         /\ result.index = FactorIndex(Rows(ask))
         /\ result.methods = g.methods
         /\ result.valuation_calls = g.valuation_calls
         /\ result.aad_passes = g.aad_passes
         /\ \A i \in DOMAIN result.measures : \A k \in DOMAIN result.index :
              result.values[i][k] = Get(g.values, Cell(i, k), 0)
<1>1. PICK measures, index : measures = ExpandMeasures(ask.measures) /\ index = FactorIndex(Rows(ask))
  OBVIOUS
<1>2. PICK values : values = [i \in DOMAIN measures |-> [k \in DOMAIN index |-> Get(g.values, Cell(i, k), 0)]]
  OBVIOUS
<1>3. result = [error |-> Absent, measures |-> measures, index |-> index, values |-> values,
                methods |-> g.methods, valuation_calls |-> g.valuation_calls, aad_passes |-> g.aad_passes]
  BY <1>1, <1>2, Zenon DEF ReadFrom
<1>4. /\ result.measures = measures /\ result.index = index /\ result.values = values
      /\ result.methods = g.methods /\ result.valuation_calls = g.valuation_calls
      /\ result.aad_passes = g.aad_passes
  BY <1>3
<1>5. \A i \in DOMAIN measures : \A k \in DOMAIN index : values[i][k] = Get(g.values, Cell(i, k), 0)
  BY <1>2, Zenon
<1>6. QED
  BY <1>1, <1>4, <1>5, Zenon

LEMMA MatrixOfAResult ==
  ASSUME NEW ask, Listed(ask), NEW trades, NEW n \in Nat, Book(trades, n),
         NEW result, result = Sensitivities(ask, trades), result.error = Absent
  PROVE  \A i \in DOMAIN result.measures : \A k \in DOMAIN result.index :
           result.values[i][k] = Exposure(trades, result.measures[i], ask, result.index[k])
<1>1. PICK g : /\ ReadFrom(result, g, ask)
               /\ g.error = Absent /\ FillPass(g, ask, trades, n, ToSet(Cells(Rows(ask))))
  BY ResultFacts
<1>2. PICK measures, index, cells : /\ measures = ExpandMeasures(ask.measures)
                                    /\ index = FactorIndex(Rows(ask))
                                    /\ cells = ToSet(Cells(Rows(ask)))
  OBVIOUS
<1>3. ValuesDone(g, ask, trades, cells)
  BY <1>1, <1>2, Zenon DEF FillPass
<1>4. \A at : at \in cells <=> InCells(at, ask)
  BY <1>2, CellsListed, Zenon
<1>5. result.measures = measures /\ result.index = index
  BY <1>1, <1>2, ReadFields, Zenon
<1>6. SUFFICES ASSUME NEW i \in DOMAIN measures, NEW k \in DOMAIN index
               PROVE  result.values[i][k] = Exposure(trades, measures[i], ask, index[k])
  BY <1>5
<1>7. result.values[i][k] = Get(g.values, Cell(i, k), 0)
  <2>1. \A x \in DOMAIN result.measures : \A y \in DOMAIN result.index :
          result.values[x][y] = Get(g.values, Cell(x, y), 0)
    BY <1>1, ReadFields
  <2>2. QED
    BY <1>5, <2>1, Zenon
<1>8. PICK S : OnceEach(index, S)
  BY <1>2, IndexListed, Zenon
<1>9. ASSUME NEW f \in Asked(measures[i], ask, index[k])
      PROVE  /\ [row |-> i, factor |-> f] \in cells
             /\ Place([row |-> i, factor |-> f], ask) = Cell(i, k)
             /\ measures[i] = "pv" <=> f = Absent
  <2>1. PICK at : at = [row |-> i, factor |-> f]
    OBVIOUS
  <2>2. at.row = i /\ at.factor = f
    BY <2>1
  <2>3. f \in ToSet(FactorsFor(measures[i], ask.factors)) /\ Key(f) = index[k]
    BY Zenon DEF Asked
  <2>4. InCells(at, ask)
    BY <1>2, <2>1, <2>2, <2>3, Zenon DEF InCells
  <2>5. Column(index, index[k]) = k
    BY <1>8, Columns, Zenon
  <2>6. Place(at, ask) = Cell(i, k)
    BY <1>2, <2>2, <2>3, <2>5, Zenon DEF Place
  <2>7. measures[i] = "pv" => f = Absent
    <3>1. measures[i] = "pv" => ToSet(FactorsFor(measures[i], ask.factors)) = {Absent}
      BY FactorsListed, Zenon
    <3>2. QED
      BY <2>3, <3>1
  <2>8. measures[i] # "pv" => f # Absent
    <3>1. Absent # Parameter("sigma") /\ Absent # Parameter("r0")
      BY AskAssumption DEF AskAssumption
    <3>2. measures[i] # "pv" => Absent \notin ToSet(FactorsFor(measures[i], ask.factors))
      BY <3>1, FactorsListed, Zenon
    <3>3. QED
      BY <2>3, <3>2
  <2>9. QED
    BY <1>4, <2>1, <2>4, <2>6, <2>7, <2>8, Zenon
<1>10. CASE Asked(measures[i], ask, index[k]) = {}
  <2>1. Cell(i, k) \notin DOMAIN g.values
    <3>1. SUFFICES ASSUME Cell(i, k) \in DOMAIN g.values
                   PROVE  FALSE
      OBVIOUS
    <3>2. PICK at \in cells : Cell(i, k) = Place(at, ask)
      BY <1>3, <3>1, Zenon DEF ValuesDone
    <3>3. InCells(at, ask)
      BY <1>4
    <3>4. i = at.row /\ k = Column(index, Key(at.factor))
      BY <1>2, <3>2 DEF Place, Cell
    <3>5. Key(at.factor) \in ToSet(index)
      BY <1>2, <3>3, IndexListed, Zenon
    <3>6. index[k] = Key(at.factor)
      BY <1>8, <3>4, <3>5, Columns, Zenon
    <3>7. at.factor \in ToSet(FactorsFor(measures[i], ask.factors))
      BY <1>2, <3>3, <3>4, Zenon DEF InCells
    <3>8. at.factor \in Asked(measures[i], ask, index[k])
      BY <3>6, <3>7, Zenon DEF Asked
    <3>9. QED
      BY <1>10, <3>8
  <2>2. result.values[i][k] = 0
    BY <1>7, <2>1, Zenon DEF Get
  <2>3. QED
    BY <1>10, <2>2, Zenon DEF Exposure
<1>11. CASE Asked(measures[i], ask, index[k]) # {}
  <2>1. PICK f : f = (CHOOSE x \in Asked(measures[i], ask, index[k]) : TRUE)
    OBVIOUS
  <2>2. f \in Asked(measures[i], ask, index[k])
    BY <1>11, <2>1, Zenon
  <2>3. PICK at : at = [row |-> i, factor |-> f]
    OBVIOUS
  <2>4. at.row = i /\ at.factor = f
    BY <2>3
  <2>5. at \in cells /\ Place(at, ask) = Cell(i, k) /\ (measures[i] = "pv" <=> f = Absent)
    BY <1>9, <2>2, <2>3, Zenon
  <2>6. result.values[i][k] = CellValue(ask, trades, at)
    <3>1. Place(at, ask) \in DOMAIN g.values /\ g.values[Place(at, ask)] = CellValue(ask, trades, at)
      BY <1>3, <2>5, Zenon DEF ValuesDone
    <3>2. QED
      BY <1>7, <2>5, <3>1, Zenon DEF Get
  <2>7. CASE measures[i] = "pv"
    <3>1. Exposure(trades, measures[i], ask, index[k]) = TotalValue(trades) * Unit
      BY <1>11, <2>7, Zenon DEF Exposure
    <3>2. CellValue(ask, trades, at) = TotalValue(trades) * Unit
      BY <2>4, <2>5, <2>7, Zenon DEF CellValue
    <3>3. QED
      BY <2>6, <3>1, <3>2
  <2>8. CASE measures[i] # "pv"
    <3>1. Exposure(trades, measures[i], ask, index[k]) =
            LET total == Total(trades, f, BumpSize(ask), ask.bump_scheme)
            IN  IF measures[i] = "pv01" THEN total * PV01_SCALE ELSE total
      <4>1. Exposure(trades, measures[i], ask, index[k]) =
              LET total == Total(trades, CHOOSE x \in Asked(measures[i], ask, index[k]) : TRUE,
                                 BumpSize(ask), ask.bump_scheme)
              IN  IF measures[i] = "pv01" THEN total * PV01_SCALE ELSE total
        BY <1>11, <2>8, Zenon DEF Exposure
      <4>2. QED
        BY <2>1, <4>1, Zenon
    <3>2. CellValue(ask, trades, at) =
            LET total == Total(trades, f, BumpSize(ask), ask.bump_scheme)
            IN  IF measures[i] = "pv01" THEN total * PV01_SCALE ELSE total
      BY <1>2, <2>4, <2>5, <2>8, Zenon DEF CellValue
    <3>3. QED
      BY <2>6, <3>1, <3>2, Zenon
  <2>9. QED
    BY <2>7, <2>8
<1>12. QED
  BY <1>10, <1>11

LEMMA FiniteRange ==
  ASSUME NEW s, NEW S, s \in Seq(S)
  PROVE  IsFiniteSet(ToSet(s))
<1>1. PICK n \in Nat : DOMAIN s = 1 .. n
  BY LenProperties
<1> DEFINE Upto(k) == {s[i] : i \in 1 .. k}
           T == {k \in Nat : IsFiniteSet(Upto(k))}
<1>2. 0 \in T
  <2>1. 1 .. 0 = {}
    OBVIOUS
  <2>2. Upto(0) = {}
    BY <2>1
  <2>3. QED
    BY <2>2, FS_EmptySet
<1>3. ASSUME NEW k \in Nat, k \in T
      PROVE  k + 1 \in T
  <2>1. 1 .. k + 1 = (1 .. k) \cup {k + 1}
    OBVIOUS
  <2>2. Upto(k + 1) = Upto(k) \cup {s[k + 1]}
    BY <2>1, Zenon
  <2>3. IsFiniteSet(Upto(k))
    BY <1>3
  <2> HIDE DEF Upto
  <2>4. IsFiniteSet(Upto(k) \cup {s[k + 1]})
    BY <2>3, FS_AddElement, Zenon
  <2>5. IsFiniteSet(Upto(k + 1))
    BY <2>2, <2>4, Zenon
  <2>6. QED
    BY <2>5
<1>4. n \in T
  <2> HIDE DEF T
  <2>1. QED
    BY <1>2, <1>3, SetInduction
<1>5. Upto(n) = ToSet(s)
  BY <1>1, Zenon DEF ToSet
<1>6. IsFiniteSet(Upto(n))
  BY <1>4
<1> HIDE DEF Upto
<1>7. QED
  BY <1>5, <1>6

(* The factors that a result moves, and those that it bumps. *)
FactorsOf(measure, ask) == ToSet(FactorsFor(measure, ask.factors)) \ {Absent}
AllFactors(measures, ask) == UNION {FactorsOf(measures[i], ask) : i \in DOMAIN measures}
Bumped(measures, ask) ==
  {f \in AllFactors(measures, ask) :
     ~(ask.bump_scheme = "central" /\ f.kind \in {"model", "parallel"})}

LEMMA FactorsMoved ==
  ASSUME NEW ask, NEW f
  PROVE  f \in AllFactors(ExpandMeasures(ask.measures), ask)
           <=> f # Absent /\ \E at : InCells(at, ask) /\ at.factor = f
<1>1. PICK measures : measures = ExpandMeasures(ask.measures)
  OBVIOUS
<1>2. ASSUME f \in AllFactors(measures, ask)
      PROVE  f # Absent /\ \E at : InCells(at, ask) /\ at.factor = f
  <2>1. PICK i \in DOMAIN measures : f \in ToSet(FactorsFor(measures[i], ask.factors)) /\ f # Absent
    BY <1>2, Zenon DEF AllFactors, FactorsOf
  <2>2. PICK at : at = [row |-> i, factor |-> f]
    OBVIOUS
  <2>3. at.row = i /\ at.factor = f
    BY <2>2
  <2>4. InCells(at, ask)
    BY <1>1, <2>1, <2>2, <2>3, Zenon DEF InCells
  <2>5. QED
    BY <2>1, <2>3, <2>4
<1>3. ASSUME f # Absent, NEW at, InCells(at, ask), at.factor = f
      PROVE  f \in AllFactors(measures, ask)
  <2>1. PICK i : i = at.row
    OBVIOUS
  <2>2. i \in DOMAIN measures /\ f \in ToSet(FactorsFor(measures[i], ask.factors))
    BY <1>1, <1>3, <2>1, Zenon DEF InCells
  <2>3. f \in FactorsOf(measures[i], ask)
    BY <1>3, <2>2, Zenon DEF FactorsOf
  <2>4. QED
    BY <2>2, <2>3, Zenon DEF AllFactors
<1>4. QED
  BY <1>1, <1>2, <1>3, Zenon

(* Where a factor is supported, it is bumped if it has no tape. *)
LEMMA TapedOrBumped ==
  ASSUME NEW f, NEW scheme
  PROVE  /\ HasTape(f, scheme) => scheme = "central" /\ f.kind \in {"model", "parallel"}
         /\ Target(f) # "unsupported" /\ scheme = "central" /\ f.kind \in {"model", "parallel"}
              => HasTape(f, scheme)
BY DEF HasTape, Target, OfCurve

(* The bumps of a result are a product: each of them once. *)
LEMMA BumpsOfAResult ==
  ASSUME NEW ask, Listed(ask), NEW trades, NEW n \in Nat, Book(trades, n), n > 0,
         NEW g, g.error = Absent, NEW cells, \A at : at \in cells <=> InCells(at, ask),
         FillPass(g, ask, trades, n, cells)
  PROVE  LET measures == ExpandMeasures(ask.measures)
             bumped == Bumped(measures, ask)
         IN  /\ \A at \in cells : Bumping(at, ask) <=> at.factor \in bumped
             /\ DOMAIN g.bumps = Products(trades, n) \X {Key(f) : f \in bumped}
<1>1. PICK measures, bumped, all : /\ measures = ExpandMeasures(ask.measures)
                                   /\ bumped = Bumped(measures, ask)
                                   /\ all = AllFactors(measures, ask)
  OBVIOUS
<1>2. /\ Kept(g, trades, n, BumpSize(ask), ask.bump_scheme)
      /\ WorkDone(g, ask, trades, n, cells)
  BY Zenon DEF FillPass
<1>3. \A f : f \in all <=> f # Absent /\ \E at \in cells : at.factor = f
  BY <1>1, FactorsMoved, Zenon
<1>4. ASSUME NEW at \in cells, Bumping(at, ask), NEW j \in 1 .. n
      PROVE  BumpKey(trades[j].product, at.factor) \in DOMAIN g.bumps
  <2>1. BumpKey(trades[j].product, at.factor) \in KeysOf(trades, n, at.factor)
    BY Zenon DEF KeysOf
  <2>2. QED
    BY <1>2, <1>4, <2>1, Zenon DEF WorkDone
<1>5. ASSUME NEW at \in cells
      PROVE  Bumping(at, ask) <=> at.factor \in bumped
  <2>1. CASE at.factor = Absent
    <3>1. at.factor \notin all
      BY <1>3, <2>1
    <3>2. QED
      BY <1>1, <2>1, <3>1, Zenon DEF Bumped, Bumping
  <2>2. CASE at.factor # Absent
    <3>1. at.factor \in all
      BY <1>3, <2>2
    <3>2. HasTape(at.factor, ask.bump_scheme) => at.factor \notin bumped
      BY <1>1, TapedOrBumped, Zenon DEF Bumped
    <3>3. ASSUME ~HasTape(at.factor, ask.bump_scheme)
          PROVE  at.factor \in bumped
      <4>1. 1 \in 1 .. n
        OBVIOUS
      <4>2. BumpKey(trades[1].product, at.factor) \in DOMAIN g.bumps
        BY <1>4, <2>2, <3>3, <4>1, Zenon DEF Bumping
      <4>3. Target(at.factor) # "unsupported"
        BY <1>2, <2>2, <4>1, <4>2, Zenon DEF Kept
      <4>4. ~(ask.bump_scheme = "central" /\ at.factor.kind \in {"model", "parallel"})
        BY <3>3, <4>3, TapedOrBumped, Zenon
      <4>5. QED
        BY <1>1, <3>1, <4>4, Zenon DEF Bumped
    <3>4. QED
      BY <2>2, <3>2, <3>3, Zenon DEF Bumping
  <2>3. QED
    BY <2>1, <2>2
<1>6. ASSUME NEW x
      PROVE  x \in DOMAIN g.bumps <=> \E f \in bumped : \E j \in 1 .. n : x = <<trades[j].product, Key(f)>>
  <2>1. x \in DOMAIN g.bumps <=> \E at \in cells : Bumping(at, ask) /\ x \in KeysOf(trades, n, at.factor)
    <3>1. DOMAIN g.bumps = UNION {KeysOf(trades, n, at.factor) : at \in {c \in cells : Bumping(c, ask)}}
      BY <1>2, Zenon DEF WorkDone
    <3>2. QED
      BY <3>1
  <2>2. \A f : x \in KeysOf(trades, n, f) <=> \E j \in 1 .. n : x = <<trades[j].product, Key(f)>>
    BY Zenon DEF KeysOf, BumpKey
  <2>3. \A f \in bumped : \E at \in cells : at.factor = f
    BY <1>1, <1>3, Zenon DEF Bumped
  <2>4. QED
    BY <1>5, <2>1, <2>2, <2>3, Zenon
<1>7. DOMAIN g.bumps = Products(trades, n) \X {Key(f) : f \in bumped}
  <2>1. PICK P, K : P = Products(trades, n) /\ K = {Key(f) : f \in bumped}
    OBVIOUS
  <2>2. \A p : p \in P <=> \E j \in 1 .. n : p = trades[j].product
    BY <2>1, Zenon DEF Products
  <2>3. \A k : k \in K <=> \E f \in bumped : k = Key(f)
    BY <2>1, Zenon
  <2>4. ASSUME NEW x
        PROVE  x \in P \X K <=> \E p \in P, k \in K : x = <<p, k>>
    OBVIOUS
  <2>5. ASSUME NEW x
        PROVE  x \in DOMAIN g.bumps <=> x \in P \X K
    <3>1. ASSUME x \in DOMAIN g.bumps
          PROVE  x \in P \X K
      <4>1. PICK f \in bumped, j \in 1 .. n : x = <<trades[j].product, Key(f)>>
        BY <1>6, <3>1
      <4>2. trades[j].product \in P /\ Key(f) \in K
        BY <2>2, <2>3
      <4>3. QED
        BY <2>4, <4>1, <4>2, Zenon
    <3>2. ASSUME x \in P \X K
          PROVE  x \in DOMAIN g.bumps
      <4>1. PICK p \in P, k \in K : x = <<p, k>>
        BY <2>4, <3>2
      <4>2. PICK j \in 1 .. n, f \in bumped : p = trades[j].product /\ k = Key(f)
        BY <2>2, <2>3
      <4>3. QED
        BY <1>6, <4>1, <4>2, Zenon
    <3>3. QED
      BY <3>1, <3>2
  <2>6. QED
    BY <2>1, <2>5, Zenon
<1>8. QED
  BY <1>1, <1>5, <1>7, Zenon

WorkOf(result, products, all, bumped, ask) ==
  /\ result.valuation_calls =
       Cardinality(products)
         + Each(ask.bump_scheme) * Cardinality(products) * Cardinality({Key(f) : f \in bumped})
  /\ result.aad_passes = IF all \subseteq bumped THEN 0 ELSE Cardinality(products)
  /\ \A m \in DOMAIN result.methods :
       result.methods[m] = "aad" /\ products # {} => FactorsOf(m, ask) \cap bumped = {}

LEMMA WorkOfAResult ==
  ASSUME NEW ask, Listed(ask), NEW trades, NEW n \in Nat, Book(trades, n),
         NEW result, result = Sensitivities(ask, trades), result.error = Absent
  PROVE  WorkOf(result, Products(trades, n), AllFactors(result.measures, ask),
                Bumped(result.measures, ask), ask)
<1>1. PICK g : /\ ReadFrom(result, g, ask)
               /\ g.error = Absent /\ FillPass(g, ask, trades, n, ToSet(Cells(Rows(ask))))
  BY ResultFacts
<1>2. PICK measures, cells, products : /\ measures = ExpandMeasures(ask.measures)
                                       /\ cells = ToSet(Cells(Rows(ask)))
                                       /\ products = Products(trades, n)
  OBVIOUS
<1>3. /\ result.measures = measures /\ result.methods = g.methods
      /\ result.valuation_calls = g.valuation_calls /\ result.aad_passes = g.aad_passes
  BY <1>1, <1>2, ReadFields, Zenon
<1>4. /\ Kept(g, trades, n, BumpSize(ask), ask.bump_scheme)
      /\ WorkDone(g, ask, trades, n, cells)
      /\ MethodsDone(g, ask, n, cells)
  BY <1>1, <1>2, Zenon DEF FillPass
<1>5. \A at : at \in cells <=> InCells(at, ask)
  BY <1>2, CellsListed, Zenon
<1>6. PICK all, bumped, each : /\ all = AllFactors(measures, ask)
                               /\ bumped = Bumped(measures, ask)
                               /\ each = Each(ask.bump_scheme)
  OBVIOUS
<1>7. \A f : f \in all <=> f # Absent /\ \E at \in cells : at.factor = f
  BY <1>2, <1>5, <1>6, FactorsMoved, Zenon
<1>8. /\ DOMAIN g.base = products /\ IsFiniteSet(products)
      /\ g.valuation_calls = Cardinality(products) + each * Cardinality(DOMAIN g.bumps)
      /\ g.aad_passes = Cardinality(g.tapes)
  BY <1>2, <1>4, <1>6, Zenon DEF Kept, Priced
<1>9. PICK keys : keys = {Key(f) : f \in bumped}
  OBVIOUS
<1>10. IsFiniteSet(keys)
  <2>1. keys \subseteq ToSet(FactorIndex(Rows(ask)))
    <3>1. ASSUME NEW f \in bumped
          PROVE  Key(f) \in ToSet(FactorIndex(Rows(ask)))
      <4>1. f \in all
        BY <1>6, Zenon DEF Bumped
      <4>2. QED
        BY <1>5, <1>7, <4>1, IndexListed, Zenon
    <3>2. QED
      BY <1>9, <3>1
  <2>2. PICK S : OnceEach(FactorIndex(Rows(ask)), S)
    BY IndexListed, Zenon
  <2>3. IsFiniteSet(ToSet(FactorIndex(Rows(ask))))
    <3>1. PICK index : index = FactorIndex(Rows(ask)) /\ index \in Seq(S)
      BY <2>2, Zenon DEF OnceEach
    <3>2. QED
      BY <3>1, FiniteRange
  <2>4. QED
    BY <2>1, <2>3, FS_Subset, Zenon
<1>11. PICK a, b : a = Cardinality(products) /\ b = Cardinality(keys) /\ a \in Nat /\ b \in Nat
  BY <1>8, <1>10, FS_CardinalityType, Zenon
<1>12. each = 1 \/ each = 2
  BY <1>6 DEF Each
<1>13. CASE n = 0
  <2>1. 1 .. n = {}
    BY <1>13
  <2>2. products = {} /\ \A f : KeysOf(trades, n, f) = {}
    BY <1>2, <2>1 DEF Products, KeysOf
  <2>3. DOMAIN g.bumps = {} /\ g.tapes = {}
    BY <1>2, <1>4, <2>2 DEF WorkDone
  <2>4. Cardinality({}) = 0
    BY FS_EmptySet
  <2>5. \A x \in Nat : 0 + 1 * 0 * x = 0 + 1 * 0 /\ 0 + 2 * 0 * x = 0 + 2 * 0
    OBVIOUS
  <2>6. result.valuation_calls = Cardinality(products) + each * Cardinality(products) * Cardinality(keys)
    BY <1>3, <1>8, <1>11, <1>12, <2>2, <2>3, <2>4, <2>5, Zenon
  <2>7. QED
    BY <1>3, <1>6, <1>2, <1>8, <1>9, <2>2, <2>3, <2>4, <2>6, Zenon DEF WorkOf
<1>14. CASE n > 0
  <2>1. /\ \A at \in cells : Bumping(at, ask) <=> at.factor \in bumped
        /\ DOMAIN g.bumps = products \X keys
    <3>1. FillPass(g, ask, trades, n, cells)
      BY <1>1, <1>2
    <3>2. LET ms == ExpandMeasures(ask.measures)
              bs == Bumped(ms, ask)
          IN  /\ \A at \in cells : Bumping(at, ask) <=> at.factor \in bs
              /\ DOMAIN g.bumps = Products(trades, n) \X {Key(f) : f \in bs}
      BY <1>1, <1>5, <1>14, <3>1, BumpsOfAResult
    <3>3. QED
      BY <1>2, <1>6, <1>9, <3>2, Zenon
  <2>2. Cardinality(DOMAIN g.bumps) = a * b
    BY <1>8, <1>10, <1>11, <2>1, FS_Product, Zenon
  <2>3. \A x, y \in Nat : 1 * (x * y) = 1 * x * y /\ 2 * (x * y) = 2 * x * y
    OBVIOUS
  <2>4. result.valuation_calls = a + each * a * b
    <3>1. result.valuation_calls = a + each * (a * b)
      BY <1>3, <1>8, <1>11, <2>2, Zenon
    <3>2. each * (a * b) = each * a * b
      <4>1. 1 * (a * b) = 1 * a * b /\ 2 * (a * b) = 2 * a * b
        BY <1>11, <2>3
      <4>2. QED
        BY <1>12, <4>1, Zenon
    <3>3. QED
      BY <3>1, <3>2, Zenon
  <2>5. result.aad_passes = IF all \subseteq bumped THEN 0 ELSE Cardinality(products)
    <3>1. CASE all \subseteq bumped
      <4>1. \A at \in cells : ~Taping(at, ask)
        BY <1>7, <2>1, <3>1, Zenon DEF Taping, Bumping
      <4>2. {c \in cells : Taping(c, ask)} = {}
        BY <4>1
      <4>3. g.tapes = {}
        BY <1>4, <4>2 DEF WorkDone
      <4>4. Cardinality({}) = 0
        BY FS_EmptySet
      <4>5. QED
        BY <1>3, <1>8, <3>1, <4>3, <4>4
    <3>2. CASE ~(all \subseteq bumped)
      <4>1. PICK f : f \in all /\ f \notin bumped
        BY <3>2
      <4>2. PICK at \in cells : at.factor = f /\ f # Absent
        BY <1>7, <4>1
      <4>3. Taping(at, ask)
        BY <2>1, <4>1, <4>2, Zenon DEF Taping, Bumping
      <4>4. g.tapes = products
        <5>1. g.tapes = UNION {products : c \in {c \in cells : Taping(c, ask)}}
          BY <1>2, <1>4, Zenon DEF WorkDone
        <5>2. QED
          BY <4>3, <5>1
      <4>5. QED
        BY <1>3, <1>8, <3>2, <4>4
    <3>3. QED
      BY <3>1, <3>2
  <2>6. ASSUME NEW m \in DOMAIN g.methods, g.methods[m] = "aad"
        PROVE  FactorsOf(m, ask) \cap bumped = {}
    <3>1. SUFFICES ASSUME NEW f, f \in FactorsOf(m, ask), f \in bumped
                   PROVE  FALSE
      OBVIOUS
    <3>2. f \in ToSet(FactorsFor(m, ask.factors)) /\ f # Absent
      BY <3>1, Zenon DEF FactorsOf
    <3>3. m # "pv"
      <4>1. m = "pv" => ToSet(FactorsFor(m, ask.factors)) = {Absent}
        BY FactorsListed, Zenon
      <4>2. QED
        BY <3>2, <4>1
    <3>4. PICK c \in cells : m = measures[c.row]
      BY <1>2, <1>4, <2>6, <3>3, Zenon DEF MethodsDone
    <3>5. PICK at : at = [row |-> c.row, factor |-> f]
      OBVIOUS
    <3>6. at.row = c.row /\ at.factor = f
      BY <3>5
    <3>7. c.row \in DOMAIN measures
      BY <1>2, <1>5, <3>4, Zenon DEF InCells
    <3>8. InCells(at, ask)
      BY <1>2, <3>2, <3>4, <3>5, <3>6, <3>7, Zenon DEF InCells
    <3>9. at \in cells /\ Bumping(at, ask)
      BY <1>5, <2>1, <3>1, <3>6, <3>8, Zenon
    <3>10. g.methods[measures[at.row]] # "aad"
      BY <1>2, <1>4, <1>14, <3>9, Zenon DEF MethodsDone
    <3>11. QED
      BY <2>6, <3>4, <3>6, <3>10
  <2>7. QED
    BY <1>2, <1>3, <1>6, <1>9, <1>11, <2>4, <2>5, <2>6, Zenon DEF WorkOf
<1>15. QED
  BY <1>13, <1>14

-----------------------------------------------------------------------------
(* A request over a stored portfolio. *)

LEMMA PortfolioIsListed ==
  ASSUME ListedPortfolios(context.resources), NEW id, Portfolio(context, id) # Absent
  PROVE  \E n \in Nat : DOMAIN Portfolio(context, id) = 1 .. n
<1>1. PICK value : value = Lookup(context, "portfolio", id)
  OBVIOUS
<1>2. value # Absent /\ value # Null
  BY <1>1 DEF Portfolio
<1>3. DOMAIN Portfolio(context, id) = DOMAIN value
  BY <1>1, <1>2 DEF Portfolio
<1>4. id \in DOMAIN context.resources["portfolio"] /\ value = context.resources["portfolio"][id]
  BY <1>1, <1>2, Zenon DEF Lookup, Get
<1>5. value \in Seq(ToSet(value))
  BY <1>2, <1>4, Zenon DEF ListedPortfolios, ListOf
<1>6. QED
  BY <1>3, <1>5, LenProperties

LEMMA PortfolioIsABook ==
  ASSUME NEW portfolio, NEW n \in Nat, DOMAIN portfolio = 1 .. n, NEW model, NEW market
  PROVE  Book(TradesOf(portfolio, model, market), n)
<1>1. PICK trades : trades = TradesOf(portfolio, model, market)
  OBVIOUS
<1>2. DOMAIN trades = 1 .. n
  BY <1>1 DEF TradesOf
<1>3. ASSUME NEW j \in 1 .. n
      PROVE  /\ trades[j].product = portfolio[j].product
             /\ trades[j].input = IF portfolio[j].product = Absent THEN Absent
                                  ELSE RiskInput(market.spec, model.spec, portfolio[j].product)
  <2>1. trades[j] = [product  |-> portfolio[j].product,
                     quantity |-> portfolio[j].quantity,
                     input    |-> IF portfolio[j].product = Absent THEN Absent
                                  ELSE RiskInput(market.spec, model.spec, portfolio[j].product)]
    BY <1>1, Zenon DEF TradesOf
  <2>2. QED
    BY <2>1
<1>4. \A j, k \in 1 .. n : trades[j].product = trades[k].product => trades[j].input = trades[k].input
  BY <1>3
<1>5. QED
  BY <1>1, <1>2, <1>4, Zenon DEF Book

(* What a result that is no error was computed from. *)
FromBook(ask, request, n) ==
  /\ answer.ask = ask
  /\ Listed(request) /\ Book(AnsweredTrades, n)
  /\ answer.result = Sensitivities(request, AnsweredTrades)
  /\ request.measures = ask.measures /\ request.factors = ask.factors
  /\ request.bump_size = ask.bump_size /\ request.bump_scheme = ask.bump_scheme

LEMMA ComputedFrom ==
  ASSUME RiskIInv, Computed
  PROVE  \E ask, request : \E n \in Nat : FromBook(ask, request, n)
<1>1. /\ answer.ask \in RiskAsks
      /\ answer.result = CalculateRisk(RiskRequest(answer.ask, ByName))
      /\ answer.result.error = Absent
      /\ ListedPortfolios(context.resources)
  BY Zenon DEF RiskIInv, Computed
<1>2. PICK ask, r : ask = answer.ask /\ r = RiskRequest(ask, ByName)
  OBVIOUS
<1>3. AskTyped(ask)
  BY <1>1, <1>2, AskAssumption, Zenon DEF AskAssumption
<1>4. r = [ask EXCEPT !.context = context, !.market = Unhashed("market"), !.model = Unhashed("model")]
  <2>1. ByName["market"] = Unhashed("market") /\ ByName["model"] = Unhashed("model")
    BY DEF ByName
  <2>2. QED
    BY <1>2, <2>1, Zenon DEF RiskRequest
<1>5. /\ r.context = context /\ r.market = Unhashed("market") /\ r.model = Unhashed("model")
      /\ r.portfolio_id = ask.portfolio_id
      /\ r.measures = ask.measures /\ r.factors = ask.factors
      /\ r.bump_size = ask.bump_size /\ r.bump_scheme = ask.bump_scheme
  <2>1. /\ AskFields \subseteq DOMAIN ask
        /\ ask = [field \in DOMAIN ask |-> ask[field]]
    BY <1>3, Zenon DEF AskTyped
  <2>2. QED
    BY <1>4, <2>1 DEF AskFields
<1>6. r.market.id = "m" /\ r.model.id = "hw"
  BY <1>5 DEF Unhashed, ResourceIds
<1>7. PICK portfolio, market, model : /\ portfolio = Portfolio(context, ask.portfolio_id)
                                      /\ market = MarketHandle(context, "m")
                                      /\ model = ModelHandle(context, "hw")
  OBVIOUS
<1>8. /\ answer.result = Sensitivities(r, TradesOf(portfolio, model, market))
      /\ portfolio # Absent
  <2>1. PICK x : x = answer.result
    OBVIOUS
  <2>2. x = IF r.operation_id = "" \/ ~HashAccepted(r.context)
            THEN [error |-> "InvalidRequest"]
            ELSE IF Absent \in {portfolio, market, model} THEN [error |-> "Domain"]
            ELSE IF ~Compatible(r.market, market) \/ ~Compatible(r.model, model)
            THEN [error |-> "Incompatible"]
            ELSE Sensitivities(r, TradesOf(portfolio, model, market))
    BY <1>1, <1>2, <1>5, <1>6, <1>7, <2>1, Zenon DEF CalculateRisk
  <2>3. \A e \in RiskErrors : e # Absent
    BY RiskAssumption DEF RiskAssumption
  <2>4. /\ [error |-> "InvalidRequest"].error = "InvalidRequest"
        /\ [error |-> "Domain"].error = "Domain"
        /\ [error |-> "Incompatible"].error = "Incompatible"
    OBVIOUS
  <2>5. /\ x # [error |-> "InvalidRequest"] /\ x # [error |-> "Domain"]
        /\ x # [error |-> "Incompatible"]
    BY <1>1, <2>1, <2>3, <2>4 DEF RiskErrors
  <2>6. QED
    BY <2>1, <2>2, <2>5, Zenon
<1>9. AnsweredTrades = TradesOf(portfolio, model, market)
  BY <1>2, <1>7, Zenon DEF AnsweredTrades
<1>10. PICK n \in Nat : DOMAIN portfolio = 1 .. n
  BY <1>1, <1>7, <1>8, PortfolioIsListed, Zenon
<1>11. Book(AnsweredTrades, n)
  BY <1>9, <1>10, PortfolioIsABook, Zenon
<1>12. Listed(r)
  BY <1>3, <1>5, Zenon DEF AskTyped, Listed
<1>13. QED
  <2>1. answer.result = Sensitivities(r, AnsweredTrades)
    BY <1>8, <1>9
  <2>2. FromBook(ask, r, n)
    BY <1>2, <1>5, <1>11, <1>12, <2>1, Zenon DEF FromBook
  <2>3. QED
    BY <2>2

ExposureOf(trades, measure, asked, h, scheme) ==
  IF asked = {} THEN 0
  ELSE IF measure = "pv" THEN TotalValue(trades) * Unit
  ELSE LET total == Total(trades, CHOOSE f \in asked : TRUE, h, scheme)
       IN  IF measure = "pv01" THEN total * PV01_SCALE ELSE total

(* Whatever is shared, each cell is what its trades add up to by themselves. *)
LEMMA ComputedMatrix ==
  ASSUME RiskIInv
  PROVE  MatrixFaithful
<1>1. SUFFICES ASSUME Computed
               PROVE  \A i \in DOMAIN answer.result.measures : \A k \in DOMAIN answer.result.index :
                        answer.result.values[i][k] = Exposure(AnsweredTrades, answer.result.measures[i],
                                                              answer.ask, answer.result.index[k])
  BY Zenon DEF MatrixFaithful
<1>2. PICK ask, request, n : n \in Nat /\ FromBook(ask, request, n)
  BY <1>1, ComputedFrom
<1>3. PICK trades, result : trades = AnsweredTrades /\ result = answer.result
  OBVIOUS
<1>4. /\ answer.ask = ask /\ result.error = Absent
      /\ Listed(request) /\ Book(trades, n) /\ result = Sensitivities(request, trades)
      /\ request.measures = ask.measures /\ request.factors = ask.factors
      /\ request.bump_size = ask.bump_size /\ request.bump_scheme = ask.bump_scheme
  BY <1>1, <1>2, <1>3, Zenon DEF FromBook, Computed
<1>5. \A i \in DOMAIN result.measures : \A k \in DOMAIN result.index :
        result.values[i][k] = Exposure(trades, result.measures[i], request, result.index[k])
  BY <1>2, <1>4, MatrixOfAResult
<1>6. ASSUME NEW m, NEW key
      PROVE  Exposure(trades, m, request, key) = Exposure(trades, m, ask, key)
  <2>1. Asked(m, request, key) = Asked(m, ask, key) /\ BumpSize(request) = BumpSize(ask)
    BY <1>4, Zenon DEF Asked, BumpSize
  <2>2. PICK asked, h, s : /\ asked = Asked(m, ask, key) /\ h = BumpSize(ask)
                           /\ s = ask.bump_scheme
    OBVIOUS
  <2>3. request.bump_scheme = s
    BY <1>4, <2>2
  <2>4. Exposure(trades, m, request, key) =
          ExposureOf(trades, m, asked, h, s)
    BY <2>1, <2>2, <2>3 DEF Exposure, ExposureOf
  <2>5. Exposure(trades, m, ask, key) = ExposureOf(trades, m, asked, h, s)
    BY <2>2 DEF Exposure, ExposureOf
  <2>6. QED
    BY <2>4, <2>5
<1>7. \A i \in DOMAIN result.measures : \A k \in DOMAIN result.index :
        result.values[i][k] = Exposure(trades, result.measures[i], ask, result.index[k])
  BY <1>5, <1>6, Zenon
<1>8. QED
  BY <1>3, <1>4, <1>7

SharedOf(result, products, all, bumped, ask) ==
  /\ result.valuation_calls =
       Cardinality(products)
         + (IF ask.bump_scheme = "central" THEN 2 ELSE 1)
           * Cardinality(products) * Cardinality({Key(f) : f \in bumped})
  /\ result.aad_passes = IF all \subseteq bumped THEN 0 ELSE Cardinality(products)
  /\ \A m \in DOMAIN result.methods :
       result.methods[m] = "aad" /\ products # {} =>
         (ToSet(FactorsFor(m, ask.factors)) \ {Absent}) \cap bumped = {}
SharedBy(result, products, all, ask) ==
  SharedOf(result, products, all,
           {f \in all : ~(ask.bump_scheme = "central" /\ f.kind \in {"model", "parallel"})}, ask)

LEMMA SharedWhen ==
  ASSUME SharedBy(answer.result, {t.product : t \in ToSet(AnsweredTrades)},
                  UNION {ToSet(FactorsFor(answer.result.measures[i], answer.ask.factors)) \ {Absent}
                         : i \in DOMAIN answer.result.measures}, answer.ask)
  PROVE  WorkShared
<1>1. QED
  BY Zenon DEF WorkShared, SharedBy, SharedOf

LEMMA ComputedWork ==
  ASSUME RiskIInv
  PROVE  WorkShared
<1>1. SUFFICES ASSUME Computed
               PROVE  WorkShared
  BY Zenon DEF WorkShared
<1>2. PICK ask, request, n : n \in Nat /\ FromBook(ask, request, n)
  BY <1>1, ComputedFrom
<1>3. PICK trades, result : trades = AnsweredTrades /\ result = answer.result
  OBVIOUS
<1>4. /\ answer.ask = ask /\ result.error = Absent
      /\ Listed(request) /\ Book(trades, n) /\ result = Sensitivities(request, trades)
      /\ request.measures = ask.measures /\ request.factors = ask.factors
      /\ request.bump_size = ask.bump_size /\ request.bump_scheme = ask.bump_scheme
  BY <1>1, <1>2, <1>3, Zenon DEF FromBook, Computed
<1>5. WorkOf(result, Products(trades, n), AllFactors(result.measures, request),
             Bumped(result.measures, request), request)
  BY <1>2, <1>4, WorkOfAResult
<1>6. Products(trades, n) = {t.product : t \in ToSet(trades)}
  <2>1. DOMAIN trades = 1 .. n
    BY <1>4 DEF Book
  <2>2. QED
    BY <2>1, Zenon DEF Products, ToSet
<1>7. \A m : FactorsOf(m, request) = ToSet(FactorsFor(m, answer.ask.factors)) \ {Absent}
  BY <1>4, Zenon DEF FactorsOf
<1>8. AllFactors(result.measures, request)
        = UNION {ToSet(FactorsFor(result.measures[i], answer.ask.factors)) \ {Absent}
                 : i \in DOMAIN result.measures}
  BY <1>7, Zenon DEF AllFactors
<1>9. Bumped(result.measures, request)
        = {f \in AllFactors(result.measures, request) :
             ~(answer.ask.bump_scheme = "central" /\ f.kind \in {"model", "parallel"})}
  BY <1>4, Zenon DEF Bumped
<1>10. Each(request.bump_scheme) = IF answer.ask.bump_scheme = "central" THEN 2 ELSE 1
  BY <1>4, Zenon DEF Each
<1>11. SUFFICES ASSUME NEW products, products = Products(trades, n),
                      NEW all, all = AllFactors(result.measures, request),
                      NEW bumped, bumped = Bumped(result.measures, request),
                      WorkOf(result, products, all, bumped, request)
               PROVE  WorkShared
  BY <1>5
<1>12. bumped = {f \in all : ~(answer.ask.bump_scheme = "central" /\ f.kind \in {"model", "parallel"})}
  BY <1>9, <1>11
<1>13. all = UNION {ToSet(FactorsFor(result.measures[i], answer.ask.factors)) \ {Absent}
                    : i \in DOMAIN result.measures}
  BY <1>8, <1>11
<1>14. products = {t.product : t \in ToSet(AnsweredTrades)}
  BY <1>3, <1>6, <1>11
<1>15. result.valuation_calls =
         Cardinality(products)
           + (IF answer.ask.bump_scheme = "central" THEN 2 ELSE 1)
             * Cardinality(products) * Cardinality({Key(f) : f \in bumped})
  BY <1>10, <1>11, Zenon DEF WorkOf
<1>16. result.aad_passes = IF all \subseteq bumped THEN 0 ELSE Cardinality(products)
  BY <1>11, Zenon DEF WorkOf
<1>17. \A m \in DOMAIN result.methods :
         result.methods[m] = "aad" /\ products # {}
           => (ToSet(FactorsFor(m, answer.ask.factors)) \ {Absent}) \cap bumped = {}
  BY <1>7, <1>11, Zenon DEF WorkOf
<1>18. SharedBy(result, products, all, answer.ask)
  BY <1>12, <1>15, <1>16, <1>17, Zenon DEF SharedBy, SharedOf
<1>19. QED
  BY <1>3, <1>13, <1>14, <1>18, SharedWhen, Zenon

-----------------------------------------------------------------------------
(* What is stored stays a list, and an answer is that of the document.      *)

LEMMA PerformLists ==
  ASSUME NEW next, IsContents(next), ListedPortfolios(next.resources),
         ~next.rejected, next.rejected \in BOOLEAN,
         NEW command, command.op \in Operations, ListsPortfolios(command)
  PROVE  ListedPortfolios(Perform(next, command).resources)
<1>1. CASE Rejected(next, command)
  <2>1. Perform(next, command) = [next EXCEPT !.rejected = TRUE]
    BY <1>1 DEF Perform
  <2>2. Perform(next, command) = [resources |-> next.resources, runs |-> next.runs,
                                  rejected |-> TRUE]
    BY <2>1, NewContents
  <2>3. Perform(next, command).resources = next.resources
    BY <2>2
  <2>4. QED
    BY <2>3
<1>2. CASE ~Rejected(next, command)
  <2>1. Perform(next, command) = Execute(next, command)
    BY <1>2 DEF Perform
  <2>2. CASE command.op = "add"
    <3>1. PICK r : r = [next.resources EXCEPT ![command.kind] = Insert(@, command.id, command.value)]
      OBVIOUS
    <3>2. Execute(next, command) = [next EXCEPT !.resources = r]
      BY <2>2, <3>1 DEF Execute
    <3>3. Execute(next, command) = [resources |-> r, runs |-> next.runs, rejected |-> next.rejected]
      BY <3>2, NewContents
    <3>4. Execute(next, command).resources = r
      BY <3>3
    <3>5. CASE command.kind # "portfolio"
      <4>1. "portfolio" \in DOMAIN r /\ r["portfolio"] = next.resources["portfolio"]
        BY <3>1, <3>5 DEF ListedPortfolios
      <4>2. QED
        BY <2>1, <3>4, <4>1, Zenon DEF ListedPortfolios
    <3>6. CASE command.kind = "portfolio"
      <4>1. /\ "portfolio" \in DOMAIN r
            /\ r["portfolio"] = Insert(next.resources["portfolio"], command.id, command.value)
        BY <3>1, <3>6 DEF ListedPortfolios
      <4>2. ListOf(command.value)
        BY <2>2, <3>6, Zenon DEF ListsPortfolios
      <4>3. \A id \in DOMAIN r["portfolio"] : ListOf(r["portfolio"][id])
        BY <4>1, <4>2, Zenon DEF Insert, ListedPortfolios
      <4>4. QED
        BY <2>1, <3>4, <4>1, <4>3, Zenon DEF ListedPortfolios
    <3>7. QED
      BY <3>5, <3>6
  <2>3. CASE command.op = "remove"
    <3>1. PICK r : r = [next.resources EXCEPT ![command.kind] = Without(@, command.id)]
      OBVIOUS
    <3>2. Execute(next, command) = [next EXCEPT !.resources = r]
      BY <2>3, <3>1 DEF Execute
    <3>3. Execute(next, command) = [resources |-> r, runs |-> next.runs, rejected |-> next.rejected]
      BY <3>2, NewContents
    <3>4. Execute(next, command).resources = r
      BY <3>3
    <3>5. CASE command.kind # "portfolio"
      <4>1. "portfolio" \in DOMAIN r /\ r["portfolio"] = next.resources["portfolio"]
        BY <3>1, <3>5 DEF ListedPortfolios
      <4>2. QED
        BY <2>1, <3>4, <4>1, Zenon DEF ListedPortfolios
    <3>6. CASE command.kind = "portfolio"
      <4>1. /\ "portfolio" \in DOMAIN r
            /\ r["portfolio"] = Without(next.resources["portfolio"], command.id)
        BY <3>1, <3>6 DEF ListedPortfolios
      <4>2. \A id \in DOMAIN r["portfolio"] : ListOf(r["portfolio"][id])
        BY <4>1, Zenon DEF Without, ListedPortfolios
      <4>3. QED
        BY <2>1, <3>4, <4>1, <4>2, Zenon DEF ListedPortfolios
    <3>7. QED
      BY <3>5, <3>6
  <2>4. CASE command.op = "record_run"
    <3>1. PICK u : u = Append(next.runs, [operation_id |-> command.operation_id,
                                          record |-> command.record])
      OBVIOUS
    <3>2. Execute(next, command) = [next EXCEPT !.runs = u]
      BY <2>4, <3>1 DEF Execute
    <3>3. Execute(next, command) = [resources |-> next.resources, runs |-> u, rejected |-> next.rejected]
      BY <3>2, NewContents
    <3>4. Execute(next, command).resources = next.resources
      BY <3>3
    <3>5. QED
      BY <2>1, <3>4
  <2>5. QED
    BY <2>2, <2>3, <2>4 DEF Operations
<1>3. QED
  BY <1>1, <1>2

LEMMA CommandsList ==
  ASSUME NEW document, ListedPortfolios(document.resources),
         NEW commands, NEW n \in Nat, DOMAIN commands = 1 .. n,
         \A i \in 1 .. n : commands[i].op \in Operations /\ ListsPortfolios(commands[i])
  PROVE  ListedPortfolios(AfterCommands(document, commands).resources)
<1>1. PICK a : /\ IsChain("listed", 0, 0, 0, Contents(document), commands, n, a)
               /\ AfterCommands(document, commands) = a[n]
  BY Performing, Zenon
<1> DEFINE Holds(next) == /\ IsContents(next) /\ next.rejected \in BOOLEAN
                          /\ ListedPortfolios(next.resources)
           T == {k \in Nat : k <= n => Holds(a[k])}
<1>2. 0 \in T
  <2>1. a[0] = Contents(document)
    BY <1>1, Zenon DEF IsChain
  <2>2. /\ IsContents(Contents(document)) /\ Contents(document).rejected = FALSE
        /\ Contents(document).resources = document.resources
    BY DEF Contents, IsContents
  <2>3. Holds(a[0])
    BY <2>1, <2>2
  <2> HIDE DEF Holds
  <2>4. QED
    BY <2>3
<1>3. ASSUME NEW k \in Nat, k \in T
      PROVE  k + 1 \in T
  <2>1. SUFFICES ASSUME k + 1 <= n
                 PROVE  Holds(a[k + 1])
    <3> HIDE DEF Holds
    <3>1. QED
      OBVIOUS
  <2>2. k < n /\ k <= n /\ k + 1 \in 1 .. n
    BY <2>1
  <2>3. PICK next, command : next = a[k] /\ command = commands[k + 1]
    OBVIOUS
  <2>4. a[k + 1] = Perform(next, command)
    BY <1>1, <2>2, <2>3 DEF IsChain, Advance
  <2>5. Holds(next) /\ command.op \in Operations /\ ListsPortfolios(command)
    <3> HIDE DEF Holds
    <3>1. QED
      BY <1>3, <2>2, <2>3
  <2>6. CASE next.rejected
    <3>1. Perform(next, command) = next
      BY <2>6 DEF Perform
    <3> HIDE DEF Holds
    <3>2. QED
      BY <2>4, <2>5, <3>1, Zenon
  <2>7. CASE ~next.rejected
    <3>1. IsContents(Perform(next, command)) /\ Perform(next, command).rejected \in BOOLEAN
      BY <2>5, <2>7, PerformFacts
    <3>2. ListedPortfolios(Perform(next, command).resources)
      BY <2>5, <2>7, PerformLists
    <3>3. QED
      BY <2>4, <3>1, <3>2, Zenon
  <2>8. QED
    BY <2>6, <2>7
<1>4. n \in T
  <2> HIDE DEF T
  <2>1. QED
    BY <1>2, <1>3, SetInduction
<1>5. Holds(a[n])
  <2>1. n <= n
    OBVIOUS
  <2> HIDE DEF Holds
  <2>2. QED
    BY <1>4, <2>1
<1>6. QED
  BY <1>1, <1>5, Zenon

-----------------------------------------------------------------------------
(* The document and the answer, step by step. *)

NoResult == answer = Absent \/ "result" \notin DOMAIN answer

LEMMA Unanswered ==
  ASSUME ListedPortfolios(context'.resources), NoResult'
  PROVE  RiskIInv'
BY DEF RiskIInv, NoResult

LEMMA NewIsListed ==
  ASSUME Init
  PROVE  RiskIInv
<1>1. context.resources = [kind \in Kinds |-> NoEntries]
  BY DEF Init, New, WithHash, ComputedHash
<1>2. ListedPortfolios(context.resources)
  <2>1. "portfolio" \in DOMAIN context.resources
    BY <1>1 DEF Kinds
  <2>2. context.resources["portfolio"] = NoEntries
    BY <1>1 DEF Kinds
  <2>3. DOMAIN context.resources["portfolio"] = {}
    BY <2>2 DEF NoEntries
  <2>4. QED
    BY <2>1, <2>3, Zenon DEF ListedPortfolios
<1>3. answer = Absent
  BY DEF Init
<1>4. QED
  BY <1>2, <1>3, Zenon DEF RiskIInv

LEMMA AppliedLists ==
  ASSUME DocumentIInv, RiskIInv, NEW commands, NEW n \in Nat, DOMAIN commands = 1 .. n,
         \A i \in 1 .. n : commands[i].op \in Operations /\ ListsPortfolios(commands[i]),
         Keep(Apply(context, commands))
  PROVE  RiskIInv'
<1>1. ListedPortfolios(context.resources)
  BY Zenon DEF RiskIInv
<1>2. PICK response : response = Apply(context, commands)
  OBVIOUS
<1>3. CASE response.error # Absent
  <2>1. answer' = [error |-> response.error] /\ context' = context
    BY <1>2, <1>3 DEF Keep
  <2>2. NoResult'
    BY <2>1 DEF NoResult
  <2>3. ListedPortfolios(context'.resources)
    BY <1>1, <2>1
  <2>4. QED
    BY <2>2, <2>3, Unanswered
<1>4. CASE response.error = Absent
  <2>1. context' = response.context /\ answer' = Absent
    BY <1>2, <1>4 DEF Keep
  <2>2. response.context = DerivedFrom(context, AfterCommands(context, commands))
    BY <1>2, <1>4, ContextAssumption DEF Apply, Refused, ContextAssumption, Errors
  <2>3. ListedPortfolios(AfterCommands(context, commands).resources)
    BY <1>1, CommandsList, Zenon
  <2>4. context = [field \in DocumentFields |-> context[field]]
    BY DEF DocumentIInv, IsDocument
  <2>5. PICK next : next = AfterCommands(context, commands)
    OBVIOUS
  <2>6. DerivedFrom(context, next).resources = next.resources
    BY <2>4, DerivedContents
  <2>7. ListedPortfolios(context'.resources)
    BY <2>1, <2>2, <2>3, <2>5, <2>6
  <2>8. NoResult'
    BY <2>1 DEF NoResult
  <2>9. QED
    BY <2>7, <2>8, Unanswered
<1>5. QED
  BY <1>3, <1>4

LEMMA SameResources ==
  ASSUME RiskIInv, context'.resources = context.resources, answer' = Absent
  PROVE  RiskIInv'
<1>1. ListedPortfolios(context'.resources)
  BY Zenon DEF RiskIInv
<1>2. NoResult'
  BY DEF NoResult
<1>3. QED
  BY <1>1, <1>2, Unanswered

LEMMA Forked ==
  ASSUME DocumentIInv, RiskIInv, NEW branch_id,
         Keep([error |-> Absent, ref |-> Absent, context |-> Fork(context, branch_id)])
  PROVE  RiskIInv'
<1>1. context' = Fork(context, branch_id) /\ answer' = Absent
  BY DEF Keep
<1>2. PICK d : d = [context EXCEPT !.branch_id = branch_id,
                                   !.parent_hash = context.context_hash,
                                   !.revision = 0,
                                   !.context_hash = Absent]
  OBVIOUS
<1>3. d = [field \in DocumentFields |-> d[field]] /\ d.resources = context.resources
  BY <1>2 DEF DocumentIInv, IsDocument, DocumentFields
<1>4. context' = WithHash(d)
  BY <1>1, <1>2 DEF Fork
<1>5. context'.resources = d.resources
  BY <1>3, <1>4, Hashed DEF DocumentFields
<1>6. QED
  BY <1>1, <1>3, <1>5, SameResources

LEMMA ListsOfCommands ==
  ASSUME NEW commands, commands \in Batches \cup Mutations
  PROVE  \E n \in Nat : /\ DOMAIN commands = 1 .. n
                        /\ \A i \in 1 .. n : /\ commands[i].op \in Operations \cup {"fork"}
                                             /\ ListsPortfolios(commands[i])
                                             /\ commands \in Batches => commands[i].op \in Operations
<1>1. \E S : commands \in Seq(S)
  BY SessionAssumption, AskAssumption DEF SessionAssumption, AskAssumption
<1>2. PICK n : n \in Nat /\ DOMAIN commands = 1 .. n
  BY <1>1
<1>3. \A i \in 1 .. n : /\ commands[i].op \in Operations \cup {"fork"}
                        /\ commands \in Batches => commands[i].op \in Operations
  BY <1>2, SessionAssumption, AskAssumption, Zenon DEF SessionAssumption, AskAssumption
<1>4. \A i \in 1 .. n : ListsPortfolios(commands[i])
  BY <1>2, AskAssumption, Zenon DEF AskAssumption
<1>5. QED
  BY <1>2, <1>3, <1>4, Zenon

LEMMA MutationsList ==
  ASSUME DocumentIInv, RiskIInv, NEW mutations \in Mutations, ApplyMutations(mutations)
  PROVE  RiskIInv'
<1>1. PICK n \in Nat : /\ DOMAIN mutations = 1 .. n
                       /\ \A i \in 1 .. n : /\ mutations[i].op \in Operations \cup {"fork"}
                                            /\ ListsPortfolios(mutations[i])
  BY ListsOfCommands, Zenon
<1>2. PICK forks : forks = {i \in DOMAIN mutations : mutations[i].op = "fork"}
  OBVIOUS
<1>3. CASE forks = {}
  <2>1. Keep(Apply(context, mutations))
    BY <1>2, <1>3 DEF ApplyMutations, ApplyTyped
  <2>2. \A i \in 1 .. n : mutations[i].op \in Operations /\ ListsPortfolios(mutations[i])
    BY <1>1, <1>2, <1>3
  <2>3. QED
    BY <1>1, <2>1, <2>2, AppliedLists, Zenon
<1>4. CASE forks # {}
  <2>1. PICK b : b = mutations[Min(forks)].branch_id
    OBVIOUS
  <2>2. Keep([error |-> Absent, ref |-> Absent, context |-> Fork(context, b)])
    BY <1>2, <1>4, <2>1 DEF ApplyMutations, ApplyTyped
  <2>3. QED
    BY <2>2, Forked
<1>5. QED
  BY <1>3, <1>4

LEMMA Answered ==
  ASSUME RiskIInv, NEW ask \in RiskAsks, RiskByName(ask)
  PROVE  RiskIInv'
<1>1. context' = context /\ answer' = [ask |-> ask, result |-> CalculateRisk(RiskRequest(ask, ByName))]
  BY Zenon DEF RiskByName, Responds, ByName
<1>2. answer'.ask = ask /\ answer'.result = CalculateRisk(RiskRequest(ask, ByName))
  BY <1>1
<1>3. RiskRequest(ask, ByName)' = RiskRequest(ask, ByName)
  BY <1>1 DEF RiskRequest, ByName
<1>4. ListedPortfolios(context'.resources)
  BY <1>1, Zenon DEF RiskIInv
<1>5. QED
  BY <1>2, <1>3, <1>4 DEF RiskIInv

LEMMA NothingComputed ==
  ASSUME RiskIInv, context' = context, NoResult'
  PROVE  RiskIInv'
<1>1. ListedPortfolios(context'.resources)
  BY Zenon DEF RiskIInv
<1>2. QED
  BY <1>1, Unanswered

LEMMA DocumentStepLists ==
  ASSUME DocumentIInv, RiskIInv, WithRun \/ DropHash \/ Rehash
  PROVE  RiskIInv'
<1>1. context = [field \in DocumentFields |-> context[field]] /\ answer' = Absent
  BY DEF DocumentIInv, IsDocument, WithRun, DropHash, Rehash
<1>2. CASE WithRun
  <2>1. PICK d : d = [context EXCEPT !.runs = Append(@, LocalRun),
                                     !.parent_hash = context.context_hash,
                                     !.context_hash = Absent,
                                     !.revision = @ + 1]
    OBVIOUS
  <2>2. d = [field \in DocumentFields |-> d[field]] /\ d.resources = context.resources
    BY <1>1, <2>1 DEF DocumentFields
  <2>3. context' = WithHash(d)
    BY <1>2, <2>1 DEF WithRun
  <2>4. context'.resources = d.resources
    BY <2>2, <2>3, Hashed DEF DocumentFields
  <2>5. QED
    BY <1>1, <2>2, <2>4, SameResources
<1>3. CASE DropHash
  <2>1. context'.resources = context.resources
    BY <1>1, <1>3 DEF DropHash, DocumentFields
  <2>2. QED
    BY <1>1, <2>1, SameResources
<1>4. CASE Rehash
  <2>1. context'.resources = context.resources
    BY <1>1, <1>4, Hashed DEF Rehash, DocumentFields
  <2>2. QED
    BY <1>1, <2>1, SameResources
<1>5. QED
  BY <1>2, <1>3, <1>4

(* No entries are lists, too. *)
LEMMA EditLists ==
  ASSUME DocumentIInv, RiskIInv, NEW kind, EditByHand(kind)
  PROVE  RiskIInv'
<1>1. /\ context'.resources = [context.resources EXCEPT ![kind] = NoEntries]
      /\ answer' = Absent
  BY DEF EditByHand, DocumentIInv, IsDocument, DocumentFields
<1>2. PICK old, new : old = context.resources /\ new = context'.resources
  OBVIOUS
<1>3. /\ "portfolio" \in DOMAIN old
      /\ \A id \in DOMAIN old["portfolio"] : ListOf(old["portfolio"][id])
  BY <1>2, Zenon DEF RiskIInv, ListedPortfolios
<1>4. "portfolio" \in DOMAIN new
  BY <1>1, <1>2, <1>3
<1>5. CASE kind = "portfolio"
  <2>1. new["portfolio"] = NoEntries
    BY <1>1, <1>2, <1>3, <1>5
  <2>2. DOMAIN new["portfolio"] = {}
    BY <2>1 DEF NoEntries
  <2>3. ListedPortfolios(new)
    BY <1>4, <2>2, Zenon DEF ListedPortfolios
  <2>4. QED
    BY <1>1, <1>2, <2>3, Unanswered DEF NoResult
<1>6. CASE kind # "portfolio"
  <2>1. new["portfolio"] = old["portfolio"]
    BY <1>1, <1>2, <1>3, <1>6
  <2>2. ListedPortfolios(new)
    BY <1>3, <1>4, <2>1, Zenon DEF ListedPortfolios
  <2>3. QED
    BY <1>1, <1>2, <2>2, Unanswered DEF NoResult
<1>7. QED
  BY <1>5, <1>6

LEMMA RiskStepKeeps ==
  ASSUME DocumentIInv, RiskIInv, [Next]_vars
  PROVE  RiskIInv'
<1>1. ASSUME NEW batch \in Batches, ApplyContext(batch)
      PROVE  RiskIInv'
  <2>1. PICK n \in Nat : /\ DOMAIN batch = 1 .. n
                         /\ \A i \in 1 .. n : /\ batch[i].op \in Operations
                                              /\ ListsPortfolios(batch[i])
    BY ListsOfCommands, Zenon
  <2>2. Keep(Apply(context, batch))
    BY <1>1 DEF ApplyContext
  <2>3. QED
    BY <2>1, <2>2, AppliedLists, Zenon
<1>2. ASSUME NEW mutations \in Mutations, ApplyMutations(mutations)
      PROVE  RiskIInv'
  BY <1>2, MutationsList
<1>3. ASSUME WithRun \/ DropHash \/ Rehash
      PROVE  RiskIInv'
  BY <1>3, DocumentStepLists
<1>a. ASSUME NEW kind \in HandEdits, EditByHand(kind)
      PROVE  RiskIInv'
  BY <1>a, EditLists
<1>4. ASSUME NEW ask \in RiskAsks, RiskByName(ask)
      PROVE  RiskIInv'
  BY <1>4, Answered
<1>5. ASSUME NEW ask \in RiskAsks, NEW references, RiskByReference(ask, references)
      PROVE  RiskIInv'
  <2>1. context' = context /\ NoResult'
    BY <1>5 DEF RiskByReference, NoResult
  <2>2. QED
    BY <2>1, NothingComputed
<1>6. ASSUME NEW operation_id, Price(operation_id)
      PROVE  RiskIInv'
  <2>1. context' = context /\ NoResult'
    BY <1>6 DEF Price, NoResult
  <2>2. QED
    BY <2>1, NothingComputed
<1>7. CASE ReadAnswer
  <2>1. context' = context /\ NoResult'
    BY <1>7 DEF ReadAnswer, NoResult
  <2>2. QED
    BY <2>1, NothingComputed
<1>8. CASE UNCHANGED vars
  BY <1>8 DEF vars, RiskIInv, RiskRequest
<1>9. QED
  <2>1. ASSUME Request
        PROVE  RiskIInv'
    BY <1>1, <1>2, <1>3, <1>a, <1>4, <1>5, <1>6, <2>1, Zenon DEF Request
  <2>2. QED
    BY <1>7, <1>8, <2>1, Zenon DEF Next

(* A result is that of the document it is read with, and every portfolio    *)
(* stored in that document is a list.                                       *)
THEOREM SessionInvariance == Spec => []SessionIInv
<1>1. Init => SessionIInv
  BY NewDocument, NewIsListed, Zenon DEF SessionIInv
<1>2. SessionIInv /\ [Next]_vars => SessionIInv'
  BY SessionStepKeeps, RiskStepKeeps, Zenon DEF SessionIInv
<1>3. QED
  BY <1>1, <1>2, PTL DEF Spec

(* Whatever a request shares between trades, measures and factors, each     *)
(* cell of the matrix of calculate_risk is the sum over the trades of that  *)
(* cell's own derivatives; a cell that was not asked for is zero.           *)
THEOREM MatrixIsFaithful == Spec => []MatrixFaithful
<1>1. SessionIInv => MatrixFaithful
  BY ComputedMatrix, Zenon DEF SessionIInv
<1>2. QED
  BY <1>1, SessionInvariance, PTL

(* The work that calculate_risk reports is that of the distinct products    *)
(* and bumped factors, and no bumped cell is labelled as differentiated.    *)
THEOREM WorkIsShared == Spec => []WorkShared
<1>1. SessionIInv => WorkShared
  BY ComputedWork, Zenon DEF SessionIInv
<1>2. QED
  BY <1>1, SessionInvariance, PTL

=============================================================================
