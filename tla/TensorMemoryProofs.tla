------------------------- MODULE TensorMemoryProofs -------------------------
(***************************************************************************)
(* Proofs about TensorMemory, for every finite set of handles and any sets *)
(* of blocks and blobs.                                                    *)
(***************************************************************************)
EXTENDS TensorMemory, FiniteSetTheorems, TLAPS

-----------------------------------------------------------------------------
(* The inductive invariant.                                                *)

Shares(t, a) == t # NoTensor /\ t.buffer = [ptr |-> a, frees |-> TRUE]

Claim(t, a) == IF Shares(t, a) THEN 1 ELSE 0

(* The handles whose tensor has a claim on a, when f is what they hold.    *)
Sharing(f, a) == {h \in Handle : Shares(f[h], a)}

Sharers(a) == Sharing(tensors, a)

(* A use count is the number of the tensors whose deleter frees the block. *)
(* Nothing frees a blob, so its count stays zero.                          *)
CountsExact == \A a \in Addr : uses[a] = Cardinality(Sharers(a))

(* A block is held for its sharers or for a Create, not for both.          *)
HeldForUse ==
  \A a \in Block : /\ a \in held <=> (uses[a] > 0 \/ making = a)
                   /\ making = a => uses[a] = 0 /\ content[a] = "unwritten"

(* The deleter and the flag of a tensor go by what it points to, and it    *)
(* points to something when it has bytes.                                  *)
Consistent(t) ==
  /\ t.buffer.frees <=> t.buffer.ptr \in Block
  /\ t.buffer.ptr # Null => (t.owns <=> t.buffer.ptr \in Block)
  /\ t.nbytes > 0 /\ ~t.moved => t.buffer.ptr # Null

AllConsistent == \A h \in Handle : Present(h) => Consistent(tensors[h])

(* The sharers of a block agree on its type, which is the type it was      *)
(* written as, if it was.                                                  *)
OneType ==
  \A a \in Block : \A g \in Sharers(a) :
    /\ content[a] \in {"unwritten", tensors[g].dtype}
    /\ \A h \in Sharers(a) : tensors[g].dtype = tensors[h].dtype

IInv ==
  /\ TypeOK
  /\ CountsExact
  /\ HeldForUse
  /\ BlobsNeverFreed
  /\ AllConsistent
  /\ OneType
-----------------------------------------------------------------------------
(* Tensors and counts.                                                     *)

LEMMA TensorFacts ==
  ASSUME NEW t \in Tensor
  PROVE  /\ t # NoTensor /\ t.buffer \in Buffer /\ t.buffer.ptr \in Addr \cup {Null}
         /\ t.buffer.frees \in BOOLEAN /\ t.dtype \in DataType /\ t.nbytes \in {0, 1}
         /\ t.owns \in BOOLEAN /\ t.moved \in BOOLEAN
         /\ \A a : Shares(t, a) <=> t.buffer.ptr = a /\ t.buffer.frees
<1>1. t # NoTensor
  BY DEF Tensor, NoTensor
<1>2. t.buffer \in Buffer /\ t.dtype \in DataType /\ t.nbytes \in {0, 1}
      /\ t.owns \in BOOLEAN /\ t.moved \in BOOLEAN
  BY DEF Tensor
<1>3. t.buffer.ptr \in Addr \cup {Null} /\ t.buffer.frees \in BOOLEAN
  BY <1>2 DEF Buffer
<1>4. ASSUME NEW a PROVE Shares(t, a) <=> t.buffer.ptr = a /\ t.buffer.frees
  <2>1. t.buffer = [ptr |-> t.buffer.ptr, frees |-> t.buffer.frees]
    BY <1>2 DEF Buffer
  <2>2. (t.buffer.frees = TRUE) <=> t.buffer.frees
    BY <1>3, Zenon
  <2>3. t.buffer = [ptr |-> a, frees |-> TRUE] => t.buffer.ptr = a /\ t.buffer.frees = TRUE
    OBVIOUS
  <2>4. t.buffer.ptr = a /\ t.buffer.frees = TRUE => t.buffer = [ptr |-> a, frees |-> TRUE]
    BY <2>1, Zenon
  <2> QED BY <2>2, <2>3, <2>4, <1>1, Zenon DEF Shares
<1> QED BY <1>1, <1>2, <1>3, <1>4

LEMMA FiniteSharing ==
  ASSUME NEW f, NEW a
  PROVE  /\ IsFiniteSet(Sharing(f, a)) /\ Cardinality(Sharing(f, a)) \in Nat
         /\ Cardinality(Sharing(f, a)) = 0 <=> Sharing(f, a) = {}
<1>1. Sharing(f, a) \in SUBSET Handle
  BY DEF Sharing
<1>2. IsFiniteSet(Sharing(f, a))
  BY <1>1, HandleAssumption, FS_Subset
<1> QED BY <1>2, FS_EmptySet, FS_CardinalityType

SameBut(h, f, f2) == \A g \in Handle : g # h => f2[g] = f[g]

(* What storing t in h does to the number of claims on a.                  *)
LEMMA StoreCount ==
  ASSUME NEW f, NEW f2, NEW h \in Handle, NEW a,
         SameBut(h, f, f2)
  PROVE  /\ Cardinality(Sharing(f, a)) \in Nat /\ Cardinality(Sharing(f2, a)) \in Nat
         /\ Cardinality(Sharing(f2, a)) + Claim(f[h], a)
              = Cardinality(Sharing(f, a)) + Claim(f2[h], a)
<1> DEFINE S == Sharing(f, a)
           T == Sharing(f2, a)
<1>1. IsFiniteSet(S) /\ Cardinality(S) \in Nat /\ IsFiniteSet(T) /\ Cardinality(T) \in Nat
  BY FiniteSharing
<1>2. /\ h \in S <=> Shares(f[h], a)
      /\ h \in T <=> Shares(f2[h], a)
      /\ S \ {h} = T \ {h}
  BY DEF Sharing, SameBut
<1>c. /\ Claim(f[h], a) = IF h \in S THEN 1 ELSE 0
      /\ Claim(f2[h], a) = IF h \in T THEN 1 ELSE 0
  BY <1>2 DEF Claim
<1> HIDE DEF S, T
<1>3. CASE h \in S <=> h \in T
  <2>1. S = T
    BY <1>2, <1>3
  <2> QED BY <2>1, <1>1, <1>c, <1>3 DEF S, T
<1>4. CASE h \notin S /\ h \in T
  <2>1. T = S \cup {h}
    BY <1>2, <1>4
  <2>2. Cardinality(T) = Cardinality(S) + 1
    BY <2>1, <1>1, <1>4, FS_AddElement
  <2> QED BY <2>2, <1>1, <1>c, <1>4 DEF S, T
<1>5. CASE h \in S /\ h \notin T
  <2>1. S = T \cup {h}
    BY <1>2, <1>5
  <2>2. Cardinality(S) = Cardinality(T) + 1
    BY <2>1, <1>1, <1>5, FS_AddElement
  <2> QED BY <2>2, <1>1, <1>c, <1>5 DEF S, T
<1> QED BY <1>3, <1>4, <1>5

(* A claim that is there is counted.                                       *)
LEMMA Claimed ==
  ASSUME IInv, NEW h \in Handle, NEW a \in Addr
  PROVE  /\ uses[a] \in Nat
         /\ uses[a] = 0 <=> Sharers(a) = {}
         /\ Shares(tensors[h], a) => uses[a] > 0
         /\ (BufferIn(h) = [ptr |-> a, frees |-> TRUE]) <=> Shares(tensors[h], a)
         /\ Shares(tensors[h], a) => a \in Block
<1>1. uses[a] \in Nat /\ tensors[h] \in Tensor \cup {NoTensor}
  BY DEF IInv, TypeOK
<1>2. uses[a] = 0 <=> Sharers(a) = {}
  BY FiniteSharing DEF IInv, CountsExact, Sharers
<1>3. Shares(tensors[h], a) => h \in Sharers(a)
  BY DEF Sharers, Sharing
<1>4. (BufferIn(h) = [ptr |-> a, frees |-> TRUE]) <=> Shares(tensors[h], a)
  BY AddressAssumption DEF BufferIn, EmptyBuffer, Shares, Present
<1>5. ASSUME Shares(tensors[h], a) PROVE a \in Block
  <2>1. Present(h) /\ tensors[h] \in Tensor
    BY <1>1, <1>5 DEF Shares, Present
  <2> QED BY <2>1, <1>5, TensorFacts DEF IInv, AllConsistent, Consistent
<1> QED BY <1>1, <1>2, <1>3, <1>4, <1>5

LEMMA BlobUnused == IInv => \A a \in Blob : uses[a] = 0
<1> SUFFICES ASSUME IInv, NEW a \in Blob PROVE uses[a] = 0
  OBVIOUS
<1>1. a \in Addr /\ a \notin Block
  BY AddressAssumption DEF Addr
<1>2. \A h \in Handle : ~Shares(tensors[h], a)
  BY <1>1, Claimed
<1>3. Sharing(tensors, a) = {}
  BY <1>2 DEF Sharing
<1> QED BY <1>1, <1>3, FiniteSharing DEF IInv, CountsExact, Sharers

-----------------------------------------------------------------------------
(* The three parts of a store: the counts, the blocks, the tensors.        *)

(* A store that passes ownership on leaves the counts exact.               *)
LEMMA Stored ==
  ASSUME IInv, NEW h \in Handle, NEW t \in Tensor \cup {NoTensor}, NEW gained,
         \A a \in Addr : gained = [ptr |-> a, frees |-> TRUE] <=> Shares(t, a),
         Share(gained, BufferIn(h)), tensors'[h] = t, SameBut(h, tensors, tensors')
  PROVE  /\ uses' \in [Addr -> Nat] /\ CountsExact'
         /\ held' = held \ {a \in Addr : uses[a] > 0 /\ uses'[a] = 0}
         /\ \A a \in Addr : ~Shares(t, a) => uses'[a] <= uses[a]
         /\ \A a \in Addr : Shares(t, a) /\ ~Shares(tensors[h], a) => uses'[a] > uses[a]
<1>1. tensors \in [Handle -> Tensor \cup {NoTensor}] /\ uses \in [Addr -> Nat]
  BY DEF IInv, TypeOK
<1>2. ASSUME NEW a \in Addr
      PROVE  /\ Bump(a, gained, BufferIn(h)) =
                  uses[a] + (IF Shares(t, a) THEN 1 ELSE 0)
                          - (IF Shares(tensors[h], a) THEN 1 ELSE 0)
             /\ Bump(a, gained, BufferIn(h)) = Cardinality(Sharing(tensors', a))
  <2>1. Bump(a, gained, BufferIn(h)) = uses[a] + (IF Shares(t, a) THEN 1 ELSE 0)
                                               - (IF Shares(tensors[h], a) THEN 1 ELSE 0)
    BY Claimed DEF Bump
  <2>2. uses[a] = Cardinality(Sharing(tensors, a))
    BY DEF IInv, CountsExact, Sharers
  <2>4. Cardinality(Sharing(tensors', a)) + Claim(tensors[h], a)
          = Cardinality(Sharing(tensors, a)) + Claim(tensors'[h], a)
    BY StoreCount
  <2>5. uses[a] \in Nat /\ Cardinality(Sharing(tensors', a)) \in Nat
    BY <2>2, FiniteSharing
  <2> QED BY <2>1, <2>2, <2>4, <2>5 DEF Claim
<1>3. uses' = [a \in Addr |-> Bump(a, gained, BufferIn(h))]
  BY DEF Share
<1>4. \A a \in Addr : uses'[a] = Cardinality(Sharing(tensors', a)) /\ uses'[a] \in Nat
  BY <1>2, <1>3, FiniteSharing
<1>5. uses' \in [Addr -> Nat]
  BY <1>3, <1>4
<1>6. CountsExact'
  BY <1>4 DEF CountsExact, Sharers, Sharing, Shares
<1>7. held' = held \ {a \in Addr : uses[a] > 0 /\ uses'[a] = 0}
  BY <1>3 DEF Share
<1>8. ASSUME NEW a \in Addr
      PROVE  /\ ~Shares(t, a) => uses'[a] <= uses[a]
             /\ Shares(t, a) /\ ~Shares(tensors[h], a) => uses'[a] > uses[a]
  BY <1>1, <1>2, <1>3
<1> QED BY <1>5, <1>6, <1>7, <1>8

(* The last sharer gives the block back, and nobody else does.             *)
LEMMA HeldKept ==
  ASSUME IInv, making' = Null, content' = content, uses' \in [Addr -> Nat],
         held' = held \ {a \in Addr : uses[a] > 0 /\ uses'[a] = 0},
         \A a \in Block : making = a => uses'[a] > 0,
         \A a \in Block : making # a /\ uses[a] = 0 => uses'[a] = 0
  PROVE  held' \in SUBSET Addr /\ BlobsNeverFreed' /\ HeldForUse'
<1>1. held \in SUBSET Addr /\ uses \in [Addr -> Nat] /\ Block \subseteq Addr
  BY DEF IInv, TypeOK, Addr
<1>2. BlobsNeverFreed'
  BY BlobUnused DEF IInv, BlobsNeverFreed
<1>3. ASSUME NEW a \in Block
      PROVE  (a \in held' <=> uses'[a] > 0) /\ making' # a
  <2>1. a \in Addr /\ uses[a] \in Nat /\ uses'[a] \in Nat
    BY <1>1
  <2>2. a \in held <=> (uses[a] > 0 \/ making = a)
    BY DEF IInv, HeldForUse
  <2>3. making = a => uses[a] = 0
    BY DEF IInv, HeldForUse
  <2>4. a \in held' <=> a \in held /\ ~(uses[a] > 0 /\ uses'[a] = 0)
    BY <2>1
  <2>5. a # Null
    BY <2>1, AddressAssumption
  <2> QED BY <2>1, <2>2, <2>3, <2>4, <2>5
<1> QED BY <1>1, <1>2, <1>3 DEF HeldForUse

(* A consistent tensor of the type of its block joins the others.          *)
LEMMA StoredKind ==
  ASSUME IInv, content' = content, NEW h \in Handle, NEW t \in Tensor \cup {NoTensor},
         tensors' = [tensors EXCEPT ![h] = t], t # NoTensor => Consistent(t),
         \A a \in Block : Shares(t, a) =>
           /\ content[a] \in {"unwritten", t.dtype}
           /\ \A g \in Sharers(a) : tensors[g].dtype = t.dtype
  PROVE  AllConsistent' /\ OneType'
<1>1. tensors \in [Handle -> Tensor \cup {NoTensor}]
  BY DEF IInv, TypeOK
<1>2. AllConsistent'
  BY <1>1 DEF IInv, AllConsistent, Consistent, Present
<1>3. ASSUME NEW a \in Block, NEW g \in Sharers(a)'
      PROVE  /\ g \in Handle /\ g # h => g \in Sharers(a) /\ tensors'[g] = tensors[g]
             /\ g = h => Shares(t, a) /\ tensors'[g] = t
  BY <1>1, <1>3 DEF Sharers, Sharing, Shares
<1>4. ASSUME NEW a \in Block, NEW g \in Sharers(a)'
      PROVE  /\ content'[a] \in {"unwritten", tensors'[g].dtype}
             /\ \A f \in Sharers(a)' : tensors'[g].dtype = tensors'[f].dtype
  <2>1. g \in Handle /\ \A f \in Sharers(a)' : f \in Handle
    BY DEF Sharers, Sharing
  <2> QED BY <2>1, <1>3, <1>4 DEF IInv, OneType
<1> QED BY <1>2, <1>4 DEF OneType

(* A tensor without a claim, in a variable that held none.                 *)
LEMMA UnclaimedStore ==
  ASSUME IInv, NEW h \in Handle, ~Present(h), SameBut(h, tensors, tensors'),
         uses' = uses, \A a \in Addr : ~Shares(tensors'[h], a)
  PROVE  CountsExact'
<1>1. ASSUME NEW a \in Addr
      PROVE  Cardinality(Sharing(tensors', a)) = Cardinality(Sharing(tensors, a))
  <2>1. Cardinality(Sharing(tensors', a)) + Claim(tensors[h], a)
          = Cardinality(Sharing(tensors, a)) + Claim(tensors'[h], a)
    BY StoreCount
  <2>2. ~Shares(tensors[h], a) /\ ~Shares(tensors'[h], a)
    BY DEF Shares, Present
  <2>3. /\ Cardinality(Sharing(tensors', a)) \in Nat
        /\ Cardinality(Sharing(tensors, a)) \in Nat
    BY FiniteSharing
  <2> QED BY <2>1, <2>2, <2>3 DEF Claim
<1>2. \A a \in Addr : uses[a] = Cardinality(Sharing(tensors, a))
  BY DEF IInv, CountsExact, Sharers
<1> QED BY <1>1, <1>2 DEF CountsExact, Sharers, Sharing, Shares

(* A move is a copy after which the source gives its claim up.             *)
LEMMA Moved ==
  ASSUME IInv, NEW g \in Handle, NEW h \in Handle, g # h, NEW mid,
         SameBut(h, tensors, mid), mid[h] = tensors[g], mid[g] = tensors[g],
         SameBut(g, mid, tensors'), \A a \in Addr : ~Shares(tensors'[g], a),
         Share(EmptyBuffer, BufferIn(h))
  PROVE  /\ uses' \in [Addr -> Nat] /\ CountsExact'
         /\ held' = held \ {a \in Addr : uses[a] > 0 /\ uses'[a] = 0}
         /\ \A a \in Addr : uses'[a] <= uses[a]
<1>1. uses \in [Addr -> Nat]
  BY DEF IInv, TypeOK
<1>2. ASSUME NEW a \in Addr
      PROVE  /\ Bump(a, EmptyBuffer, BufferIn(h)) = Cardinality(Sharing(tensors', a))
             /\ Bump(a, EmptyBuffer, BufferIn(h)) <= uses[a]
  <2>1. Bump(a, EmptyBuffer, BufferIn(h)) = uses[a] - Claim(tensors[h], a)
    <3>1. EmptyBuffer # [ptr |-> a, frees |-> TRUE]
      BY AddressAssumption DEF EmptyBuffer
    <3> QED BY <3>1, <1>1, Claimed DEF Bump, Claim
  <2>2. uses[a] = Cardinality(Sharing(tensors, a))
    BY DEF IInv, CountsExact, Sharers
  <2>3. Cardinality(Sharing(mid, a)) + Claim(tensors[h], a)
          = Cardinality(Sharing(tensors, a)) + Claim(mid[h], a)
    BY StoreCount
  <2>4. Cardinality(Sharing(tensors', a)) + Claim(mid[g], a)
          = Cardinality(Sharing(mid, a)) + Claim(tensors'[g], a)
    BY StoreCount
  <2>5. Claim(tensors'[g], a) = 0 /\ Claim(tensors[h], a) \in {0, 1} /\ Claim(tensors[g], a) \in {0, 1}
    BY DEF Claim
  <2>6. /\ Cardinality(Sharing(tensors', a)) \in Nat
        /\ Cardinality(Sharing(mid, a)) \in Nat
        /\ Cardinality(Sharing(tensors, a)) \in Nat
    BY FiniteSharing
  <2> QED BY <2>1, <2>2, <2>3, <2>4, <2>5, <2>6
<1>3. uses' = [a \in Addr |-> Bump(a, EmptyBuffer, BufferIn(h))]
  BY DEF Share
<1>4. \A a \in Addr : uses'[a] = Cardinality(Sharing(tensors', a)) /\ uses'[a] \in Nat
  BY <1>2, <1>3, FiniteSharing
<1>5. uses' \in [Addr -> Nat]
  BY <1>3, <1>4
<1>6. CountsExact'
  BY <1>4 DEF CountsExact, Sharers, Sharing, Shares
<1>7. held' = held \ {a \in Addr : uses[a] > 0 /\ uses'[a] = 0}
  BY <1>3 DEF Share
<1>8. \A a \in Addr : uses'[a] <= uses[a]
  BY <1>2, <1>3
<1> QED BY <1>5, <1>6, <1>7, <1>8

-----------------------------------------------------------------------------
(* The initial state and the steps.                                        *)

LEMMA InitInv == Init => IInv
<1> SUFFICES ASSUME Init PROVE IInv
  OBVIOUS
<1>1. TypeOK
  BY DEF Init, TypeOK, Addr
<1>2. \A h \in Handle : ~Present(h)
  BY DEF Init, Present
<1>3. \A a : Sharers(a) = {}
  BY DEF Init, Sharers, Sharing, Shares
<1>4. CountsExact
  BY <1>3, FS_EmptySet DEF Init, CountsExact
<1>5. HeldForUse
  BY AddressAssumption DEF Init, HeldForUse, Addr
<1>6. BlobsNeverFreed
  BY DEF Init, BlobsNeverFreed
<1>7. AllConsistent
  BY <1>2 DEF AllConsistent
<1>8. OneType
  BY <1>3 DEF OneType
<1> QED BY <1>1, <1>4, <1>5, <1>6, <1>7, <1>8 DEF IInv

(* Calls that fail before anything is allocated.                           *)
LEMMA FailingInv ==
  ASSUME IInv, UNCHANGED <<tensors, held, uses, content>>,
         outcome' \in {outcome, "none", "ok", "invalid", "kRuntime", "blob_bad_alloc"},
         making' = making \/ (making = Null /\ making' = Aborted)
  PROVE  IInv'
<1>1. TypeOK'
  BY DEF IInv, TypeOK
<1>2. CountsExact' /\ AllConsistent' /\ OneType' /\ BlobsNeverFreed'
  BY DEF IInv, CountsExact, AllConsistent, OneType, BlobsNeverFreed, Sharers, Sharing, Shares,
         Present, Consistent
<1>3. HeldForUse'
  BY AddressAssumption DEF IInv, HeldForUse, Addr
<1> QED BY <1>1, <1>2, <1>3 DEF IInv

LEMMA CreateEmptyInv == \A h \in Handle : IInv /\ CreateEmpty(h) => IInv'
<1> SUFFICES ASSUME NEW h \in Handle, IInv, CreateEmpty(h) PROVE IInv'
  OBVIOUS
<1>1. PICK dt \in DataType :
        tensors' = [tensors EXCEPT ![h] = MakeTensor(dt, EmptyBuffer, 0, TRUE)]
  BY DEF CreateEmpty
<1> DEFINE t == MakeTensor(dt, EmptyBuffer, 0, TRUE)
<1>2. /\ ~Present(h) /\ outcome' = "ok"
      /\ held' = held /\ uses' = uses /\ making' = making /\ content' = content
  BY DEF CreateEmpty
<1>3. t \in Tensor /\ Consistent(t)
  BY AddressAssumption DEF MakeTensor, EmptyBuffer, Tensor, Buffer, Consistent, Addr
<1>4. \A a \in Addr : ~Shares(t, a)
  BY AddressAssumption DEF MakeTensor, EmptyBuffer, Shares
<1> HIDE DEF t
<1>5. /\ tensors' \in [Handle -> Tensor \cup {NoTensor}]
      /\ tensors'[h] = t /\ SameBut(h, tensors, tensors')
  BY <1>1, <1>3 DEF IInv, TypeOK, SameBut, t
<1>6. TypeOK'
  BY <1>2, <1>5 DEF IInv, TypeOK
<1>7. CountsExact'
  BY <1>2, <1>4, <1>5, UnclaimedStore
<1>8. AllConsistent' /\ OneType'
  BY <1>1, <1>2, <1>3, <1>4, StoredKind DEF t, Addr
<1>9. HeldForUse' /\ BlobsNeverFreed'
  BY <1>2 DEF IInv, HeldForUse, BlobsNeverFreed
<1> QED BY <1>6, <1>7, <1>8, <1>9 DEF IInv

LEMMA FromHostBlobInv ==
  \A h \in Handle, data \in Blob \cup {Null}, size, bytes \in {0, 1} :
    IInv /\ FromHostBlob(h, data, size, bytes) => IInv'
<1> SUFFICES ASSUME NEW h \in Handle, NEW data \in Blob \cup {Null},
                    NEW size \in {0, 1}, NEW bytes \in {0, 1},
                    IInv, FromHostBlob(h, data, size, bytes)
             PROVE  IInv'
  OBVIOUS
<1>1. PICK dt \in DataType :
        tensors' = [tensors EXCEPT ![h] =
                      MakeTensor(dt, [ptr |-> data, frees |-> FALSE], size, FALSE)]
  BY DEF FromHostBlob
<1> DEFINE t == MakeTensor(dt, [ptr |-> data, frees |-> FALSE], size, FALSE)
<1>2. /\ ~Present(h) /\ outcome' = "ok" /\ (size > 0 => data # Null)
      /\ held' = held /\ uses' = uses /\ making' = making /\ content' = content
  BY DEF FromHostBlob
<1>3. t \in Tensor /\ Consistent(t)
  BY <1>2, AddressAssumption DEF MakeTensor, Tensor, Buffer, Consistent, Addr
<1>4. \A a \in Addr : ~Shares(t, a)
  BY DEF MakeTensor, Shares
<1> HIDE DEF t
<1>5. /\ tensors' \in [Handle -> Tensor \cup {NoTensor}]
      /\ tensors'[h] = t /\ SameBut(h, tensors, tensors')
  BY <1>1, <1>3 DEF IInv, TypeOK, SameBut, t
<1>6. TypeOK'
  BY <1>2, <1>5 DEF IInv, TypeOK
<1>7. CountsExact'
  BY <1>2, <1>4, <1>5, UnclaimedStore
<1>8. AllConsistent' /\ OneType'
  BY <1>1, <1>2, <1>3, <1>4, StoredKind DEF t, Addr
<1>9. HeldForUse' /\ BlobsNeverFreed'
  BY <1>2 DEF IInv, HeldForUse, BlobsNeverFreed
<1> QED BY <1>6, <1>7, <1>8, <1>9 DEF IInv

(* An address the allocator hands out is in nobody's tensor.               *)
LEMMA AllocateInv == \A a \in Block : IInv /\ Allocate(a) => IInv'
<1> SUFFICES ASSUME NEW a \in Block, IInv, Allocate(a) PROVE IInv'
  OBVIOUS
<1>1. /\ making = Null /\ a \notin held /\ making' = a /\ held' = held \cup {a}
      /\ content' = [content EXCEPT ![a] = "unwritten"]
      /\ tensors' = tensors /\ uses' = uses /\ outcome' = outcome
  BY DEF Allocate
<1>2. a \in Addr /\ Block \subseteq Addr /\ Null \notin Block
  BY AddressAssumption DEF Addr
<1>3. TypeOK'
  BY <1>1, <1>2 DEF IInv, TypeOK
<1>4. \A b \in Block : uses[b] \in Nat /\ (b \in held <=> uses[b] > 0)
  BY <1>1, <1>2 DEF IInv, TypeOK, HeldForUse
<1>5. uses[a] = 0 /\ Sharers(a) = {}
  <2>1. uses[a] = 0
    BY <1>1, <1>4
  <2>2. uses[a] = Cardinality(Sharing(tensors, a))
    BY <1>2 DEF IInv, CountsExact, Sharers
  <2> QED BY <2>1, <2>2, FiniteSharing DEF Sharers
<1>6. /\ \A b \in Block : content'[b] = IF b = a THEN "unwritten" ELSE content[b]
      /\ \A b : Sharers(b)' = Sharers(b)
  BY <1>1 DEF IInv, TypeOK, Sharers, Sharing, Shares
<1>7. CountsExact' /\ AllConsistent' /\ BlobsNeverFreed'
  BY <1>1, <1>6 DEF IInv, CountsExact, AllConsistent, BlobsNeverFreed, Present
<1>8. HeldForUse'
  BY <1>1, <1>2, <1>4, <1>5, <1>6 DEF HeldForUse
<1>9. OneType'
  BY <1>1, <1>5, <1>6 DEF IInv, OneType
<1> QED BY <1>3, <1>7, <1>8, <1>9 DEF IInv

LEMMA WrapBlockInv == \A h \in Handle : IInv /\ WrapBlock(h) => IInv'
<1> SUFFICES ASSUME NEW h \in Handle, IInv, WrapBlock(h) PROVE IInv'
  OBVIOUS
<1> DEFINE buf == [ptr |-> making, frees |-> TRUE]
<1>1. PICK dt \in DataType : tensors' = [tensors EXCEPT ![h] = MakeTensor(dt, buf, 1, TRUE)]
  BY DEF WrapBlock
<1> DEFINE t == MakeTensor(dt, buf, 1, TRUE)
<1>2. /\ making \in Block /\ ~Present(h) /\ making' = Null /\ outcome' = "ok"
      /\ content' = content /\ Share(buf, EmptyBuffer)
  BY DEF WrapBlock
<1>3. t \in Tensor /\ Consistent(t) /\ t # NoTensor
  <2>1. t \in Tensor
    BY <1>2 DEF MakeTensor, Tensor, Buffer, Addr
  <2>2. Consistent(t)
    BY <1>2, AddressAssumption DEF MakeTensor, Consistent, Addr
  <2> QED BY <2>1, <2>2, TensorFacts
<1>4. \A a \in Addr : Shares(t, a) <=> a = making
  BY <1>3 DEF MakeTensor, Shares
<1>5. \A a \in Addr : buf = [ptr |-> a, frees |-> TRUE] <=> Shares(t, a)
  BY <1>4
<1>6. making \in Addr /\ uses[making] = 0 /\ content[making] = "unwritten" /\ Sharers(making) = {}
  BY <1>2, Claimed DEF IInv, HeldForUse, Addr
<1>7. BufferIn(h) = EmptyBuffer /\ \A a \in Addr : ~Shares(tensors[h], a)
  BY <1>2 DEF BufferIn, Shares, Present
<1> HIDE DEF t, buf
<1>8. /\ tensors' \in [Handle -> Tensor \cup {NoTensor}]
      /\ tensors'[h] = t /\ SameBut(h, tensors, tensors')
  BY <1>1, <1>3 DEF IInv, TypeOK, SameBut, t
<1>9. /\ uses' \in [Addr -> Nat] /\ CountsExact'
      /\ held' = held \ {a \in Addr : uses[a] > 0 /\ uses'[a] = 0}
      /\ \A a \in Addr : ~Shares(t, a) => uses'[a] <= uses[a]
      /\ \A a \in Addr : Shares(t, a) /\ ~Shares(tensors[h], a) => uses'[a] > uses[a]
  BY <1>2, <1>3, <1>5, <1>7, <1>8, Stored
<1>10. held' \in SUBSET Addr /\ BlobsNeverFreed' /\ HeldForUse'
  <2>1. \A a \in Block : making = a => uses'[a] > 0
    BY <1>4, <1>6, <1>7, <1>9
  <2>2. \A a \in Block : making # a /\ uses[a] = 0 => uses'[a] = 0
    <3> SUFFICES ASSUME NEW a \in Block, making # a, uses[a] = 0 PROVE uses'[a] = 0
      OBVIOUS
    <3>1. a \in Addr /\ ~Shares(t, a)
      BY <1>4 DEF Addr
    <3> QED BY <3>1, <1>9
  <2> QED BY <2>1, <2>2, <1>2, <1>9, HeldKept
<1>11. AllConsistent' /\ OneType'
  BY <1>1, <1>2, <1>3, <1>4, <1>6, StoredKind DEF t, Addr
<1>12. TypeOK'
  BY <1>2, <1>8, <1>9, <1>10 DEF IInv, TypeOK
<1> QED BY <1>9, <1>10, <1>11, <1>12 DEF IInv

LEMMA WrapThrowsInv == IInv /\ WrapThrows => IInv'
<1> SUFFICES ASSUME IInv, WrapThrows PROVE IInv'
  OBVIOUS
<1>1. /\ making \in Block /\ held' = held \ {making} /\ making' = Null /\ outcome' = "bad_alloc"
      /\ tensors' = tensors /\ uses' = uses /\ content' = content
  BY DEF WrapThrows
<1>2. TypeOK'
  BY <1>1 DEF IInv, TypeOK
<1>3. CountsExact' /\ AllConsistent' /\ OneType'
  BY <1>1 DEF IInv, CountsExact, AllConsistent, OneType, Sharers, Sharing, Shares, Present
<1>4. BlobsNeverFreed'
  BY <1>1, AddressAssumption DEF IInv, BlobsNeverFreed
<1>5. HeldForUse'
  <2>1. Null \notin Block /\ \A a \in Block : uses[a] \in Nat
    BY AddressAssumption DEF IInv, TypeOK, Addr
  <2> QED BY <2>1, <1>1 DEF IInv, HeldForUse
<1> QED BY <1>2, <1>3, <1>4, <1>5 DEF IInv

-----------------------------------------------------------------------------
(* Copies, moves, the end of a tensor, and writes.                         *)

LEMMA CopyTensorInv == \A g, h \in Handle : IInv /\ CopyTensor(g, h) => IInv'
<1> SUFFICES ASSUME NEW g \in Handle, NEW h \in Handle, IInv, CopyTensor(g, h) PROVE IInv'
  OBVIOUS
<1> DEFINE t == tensors[g]
<1>1. /\ making = Null /\ Present(g) /\ Share(BufferIn(g), BufferIn(h))
      /\ tensors' = [tensors EXCEPT ![h] = t]
      /\ outcome' = "ok" /\ making' = making /\ content' = content
  BY DEF CopyTensor
<1>2. t \in Tensor /\ Consistent(t) /\ t # NoTensor
  BY <1>1 DEF IInv, TypeOK, AllConsistent, Present
<1>3. \A a \in Addr : BufferIn(g) = [ptr |-> a, frees |-> TRUE] <=> Shares(t, a)
  BY Claimed
<1>4. /\ tensors' \in [Handle -> Tensor \cup {NoTensor}]
      /\ tensors'[h] = t /\ SameBut(h, tensors, tensors')
  BY <1>1, <1>2 DEF IInv, TypeOK, SameBut
<1>5. \A a \in Block : Shares(t, a) => g \in Sharers(a) /\ uses[a] > 0
  BY Claimed DEF Addr, Sharers, Sharing
<1>6. AllConsistent' /\ OneType'
  <2>1. \A a \in Block : Shares(t, a) =>
          /\ content[a] \in {"unwritten", t.dtype}
          /\ \A f \in Sharers(a) : tensors[f].dtype = t.dtype
    BY <1>5 DEF IInv, OneType
  <2> HIDE DEF t
  <2> QED BY <2>1, <1>1, <1>2, StoredKind
<1> HIDE DEF t
<1>7. /\ uses' \in [Addr -> Nat] /\ CountsExact'
      /\ held' = held \ {a \in Addr : uses[a] > 0 /\ uses'[a] = 0}
      /\ \A a \in Addr : ~Shares(t, a) => uses'[a] <= uses[a]
  <2>1. t \in Tensor \cup {NoTensor} /\ tensors'[h] = t /\ SameBut(h, tensors, tensors')
        /\ Share(BufferIn(g), BufferIn(h))
    BY <1>1, <1>2, <1>4
  <2> QED BY <2>1, <1>3, Stored
<1>8. held' \in SUBSET Addr /\ BlobsNeverFreed' /\ HeldForUse'
  <2>1. \A a \in Block : making # a
    BY <1>1, AddressAssumption DEF Addr
  <2>2. \A a \in Block : uses[a] = 0 => uses'[a] = 0
    <3> SUFFICES ASSUME NEW a \in Block, uses[a] = 0 PROVE uses'[a] = 0
      OBVIOUS
    <3>1. a \in Addr /\ ~Shares(t, a)
      BY <1>5 DEF Addr
    <3> QED BY <3>1, <1>7
  <2> QED BY <2>1, <2>2, <1>1, <1>7, HeldKept
<1>9. TypeOK'
  BY <1>1, <1>4, <1>7, <1>8 DEF IInv, TypeOK
<1> QED BY <1>6, <1>7, <1>8, <1>9 DEF IInv

LEMMA DestroyInv == \A h \in Handle : IInv /\ Destroy(h) => IInv'
<1> SUFFICES ASSUME NEW h \in Handle, IInv, Destroy(h) PROVE IInv'
  OBVIOUS
<1>1. /\ making = Null /\ Share(EmptyBuffer, BufferIn(h))
      /\ tensors' = [tensors EXCEPT ![h] = NoTensor]
      /\ making' = making /\ content' = content /\ outcome' = outcome
  BY DEF Destroy
<1>2. \A a \in Addr : /\ ~Shares(NoTensor, a)
                      /\ EmptyBuffer # [ptr |-> a, frees |-> TRUE]
  BY AddressAssumption DEF Shares, EmptyBuffer
<1>3. /\ tensors' \in [Handle -> Tensor \cup {NoTensor}]
      /\ tensors'[h] = NoTensor /\ SameBut(h, tensors, tensors')
  BY <1>1 DEF IInv, TypeOK, SameBut
<1>4. AllConsistent' /\ OneType'
  BY <1>1, <1>2, StoredKind DEF Addr
<1>5. /\ uses' \in [Addr -> Nat] /\ CountsExact'
      /\ held' = held \ {a \in Addr : uses[a] > 0 /\ uses'[a] = 0}
      /\ \A a \in Addr : uses'[a] <= uses[a]
  <2>1. Share(EmptyBuffer, BufferIn(h))
    BY <1>1
  <2> QED BY <2>1, <1>2, <1>3, Stored
<1>6. held' \in SUBSET Addr /\ BlobsNeverFreed' /\ HeldForUse'
  <2>1. \A a \in Block : making # a
    BY <1>1, AddressAssumption DEF Addr
  <2>2. \A a \in Block : uses[a] = 0 => uses'[a] = 0
    BY <1>5 DEF Addr
  <2> QED BY <2>1, <2>2, <1>1, <1>5, HeldKept
<1>7. TypeOK'
  BY <1>1, <1>3, <1>5, <1>6 DEF IInv, TypeOK
<1> QED BY <1>4, <1>5, <1>6, <1>7 DEF IInv

(* After a move the new owner stands where the old one stood.              *)
LEMMA MoveTensorInv == \A g, h \in Handle : IInv /\ MoveTensor(g, h) => IInv'
<1> SUFFICES ASSUME NEW g \in Handle, NEW h \in Handle, IInv, MoveTensor(g, h) PROVE IInv'
  OBVIOUS
<1> DEFINE mid == [tensors EXCEPT ![h] = tensors[g]]
           rest == [tensors[g] EXCEPT !.buffer = EmptyBuffer, !.moved = TRUE]
<1>1. /\ making = Null /\ g # h /\ Present(g) /\ Share(EmptyBuffer, BufferIn(h))
      /\ tensors' = [tensors EXCEPT ![h] = tensors[g],
                                    ![g].buffer = EmptyBuffer, ![g].moved = TRUE]
      /\ outcome' = "ok" /\ making' = making /\ content' = content
  BY DEF MoveTensor
<1>2. tensors \in [Handle -> Tensor \cup {NoTensor}] /\ tensors[g] \in Tensor
      /\ Consistent(tensors[g])
  BY <1>1 DEF IInv, TypeOK, AllConsistent, Present
<1>3. rest \in Tensor /\ rest.buffer = EmptyBuffer /\ rest.moved = TRUE
  BY <1>2 DEF Tensor, Buffer, EmptyBuffer
<1>4. Consistent(rest) /\ \A a \in Addr : ~Shares(rest, a)
  BY <1>3, AddressAssumption DEF Consistent, EmptyBuffer, Shares, Addr
<1>5. /\ tensors'[h] = tensors[g] /\ tensors'[g] = rest
      /\ \A k \in Handle : k # g /\ k # h => tensors'[k] = tensors[k]
      /\ tensors' \in [Handle -> Tensor \cup {NoTensor}]
  BY <1>1, <1>2, <1>3
<1>6. /\ SameBut(h, tensors, mid) /\ mid[h] = tensors[g] /\ mid[g] = tensors[g]
      /\ SameBut(g, mid, tensors')
  BY <1>1, <1>2, <1>5 DEF SameBut
<1> HIDE DEF mid, rest
<1>7. /\ uses' \in [Addr -> Nat] /\ CountsExact'
      /\ held' = held \ {a \in Addr : uses[a] > 0 /\ uses'[a] = 0}
      /\ \A a \in Addr : uses'[a] <= uses[a]
  <2>1. \A a \in Addr : ~Shares(tensors'[g], a)
    BY <1>4, <1>5
  <2>2. g # h /\ Share(EmptyBuffer, BufferIn(h))
    BY <1>1
  <2> QED BY <2>1, <2>2, <1>6, Moved
<1>8. held' \in SUBSET Addr /\ BlobsNeverFreed' /\ HeldForUse'
  <2>1. \A a \in Block : making # a
    BY <1>1, AddressAssumption DEF Addr
  <2>2. \A a \in Block : uses[a] = 0 => uses'[a] = 0
    BY <1>7 DEF Addr
  <2> QED BY <2>1, <2>2, <1>1, <1>7, HeldKept
<1>9. AllConsistent'
  BY <1>2, <1>4, <1>5 DEF IInv, AllConsistent, Present, Consistent
<1>10. OneType'
  <2>1. ASSUME NEW a \in Block, NEW k \in Sharers(a)'
        PROVE  \E j \in Sharers(a) : tensors'[k] = tensors[j]
    <3>1. k \in Handle /\ Shares(tensors'[k], a) /\ k # g
      BY <1>4, <1>5 DEF Sharers, Sharing, Shares, Addr
    <3>2. CASE k = h
      BY <3>1, <3>2, <1>5 DEF Sharers, Sharing
    <3>3. CASE k # h
      BY <3>1, <3>3, <1>5 DEF Sharers, Sharing
    <3> QED BY <3>2, <3>3
  <2>2. \A a \in Block : \A i, j \in Sharers(a) :
          /\ content[a] \in {"unwritten", tensors[i].dtype}
          /\ tensors[i].dtype = tensors[j].dtype
    BY DEF IInv, OneType
  <2>3. content' = content
    BY <1>1
  <2>4. ASSUME NEW a \in Block, NEW k \in Sharers(a)'
        PROVE  /\ content'[a] \in {"unwritten", tensors'[k].dtype}
               /\ \A f \in Sharers(a)' : tensors'[k].dtype = tensors'[f].dtype
    <3>1. PICK i \in Sharers(a) : tensors'[k] = tensors[i]
      BY <2>1
    <3>2. ASSUME NEW f \in Sharers(a)' PROVE tensors'[k].dtype = tensors'[f].dtype
      <4>1. PICK j \in Sharers(a) : tensors'[f] = tensors[j]
        BY <2>1
      <4> QED BY <2>2, <3>1, <4>1
    <3> QED BY <2>2, <2>3, <3>1, <3>2
  <2> QED BY <2>4 DEF OneType
<1>11. TypeOK'
  BY <1>1, <1>5, <1>7, <1>8 DEF IInv, TypeOK
<1> QED BY <1>7, <1>8, <1>9, <1>10, <1>11 DEF IInv

(* CheckDtype lets only writes of the type through that all sharers have.  *)
LEMMA WriteInv == \A h \in Handle, dt \in DataType : IInv /\ Write(h, dt) => IInv'
<1> SUFFICES ASSUME NEW h \in Handle, NEW dt \in DataType, IInv, Write(h, dt) PROVE IInv'
  OBVIOUS
<1> DEFINE b == tensors[h].buffer.ptr
<1>1. /\ making = Null /\ Present(h) /\ b \in Block /\ tensors[h].dtype = dt
      /\ content' = [content EXCEPT ![b] = dt]
      /\ tensors' = tensors /\ held' = held /\ uses' = uses /\ making' = making
      /\ outcome' = outcome
  BY DEF Write, CheckDtype
<1>2. tensors[h] \in Tensor /\ Consistent(tensors[h])
  BY <1>1 DEF IInv, TypeOK, AllConsistent, Present
<1>3. h \in Sharers(b)
  BY <1>1, <1>2, TensorFacts DEF Consistent, Sharers, Sharing
<1> HIDE DEF b
<1>4. /\ \A a \in Block : content'[a] = IF a = b THEN dt ELSE content[a]
      /\ \A a : Sharers(a)' = Sharers(a)
      /\ \A a \in Block : making' # a
  BY <1>1, AddressAssumption DEF IInv, TypeOK, Sharers, Sharing, Shares, Addr
<1>5. TypeOK'
  BY <1>1 DEF IInv, TypeOK
<1>6. CountsExact' /\ AllConsistent' /\ BlobsNeverFreed' /\ HeldForUse'
  BY <1>1, <1>4 DEF IInv, CountsExact, AllConsistent, BlobsNeverFreed, HeldForUse, Present
<1>7. OneType'
  BY <1>1, <1>3, <1>4 DEF IInv, OneType
<1> QED BY <1>5, <1>6, <1>7 DEF IInv

LEMMA NextInv == IInv /\ [Next]_vars => IInv'
<1> SUFFICES ASSUME IInv, [Next]_vars PROVE IInv'
  OBVIOUS
<1>1. CASE CreateInvalid \/ AllocateFails \/ FromHostBlobThrows \/ Gone \/ UNCHANGED vars
  BY <1>1, FailingInv
     DEF CreateInvalid, AllocateFails, FromHostBlobThrows, Gone, vars
<1>2. CASE \E data \in Blob \cup {Null}, size, bytes \in {0, 1} :
             FromHostBlobInvalid(data, size, bytes)
  BY <1>2, FailingInv DEF FromHostBlobInvalid
<1>3. CASE \E h \in Handle, dt \in DataType : AccessorAborts(h, dt)
  BY <1>3, FailingInv DEF AccessorAborts
<1>4. CASE WrapThrows
  BY <1>4, WrapThrowsInv
<1>5. CASE \E a \in Block : Allocate(a)
  BY <1>5, AllocateInv
<1>6. CASE \E h \in Handle : CreateEmpty(h) \/ WrapBlock(h) \/ Destroy(h)
  BY <1>6, CreateEmptyInv, WrapBlockInv, DestroyInv
<1>7. CASE \E h \in Handle, data \in Blob \cup {Null}, size, bytes \in {0, 1} :
             FromHostBlob(h, data, size, bytes)
  BY <1>7, FromHostBlobInv
<1>8. CASE \E g, h \in Handle : CopyTensor(g, h) \/ MoveTensor(g, h)
  BY <1>8, CopyTensorInv, MoveTensorInv
<1>9. CASE \E h \in Handle, dt \in DataType : Write(h, dt)
  BY <1>9, WriteInv
<1> QED BY <1>1, <1>2, <1>3, <1>4, <1>5, <1>6, <1>7, <1>8, <1>9 DEF Next

LEMMA Inductive == Spec => []IInv
<1> QED BY InitInv, NextInv, PTL DEF Spec

-----------------------------------------------------------------------------
(* The results, for every client, every set of addresses and blobs.        *)

(* The variables keep their types; no use count drops below zero.          *)
THEOREM TypeCorrect == Spec => []TypeOK
<1>1. IInv => TypeOK
  BY DEF IInv
<1> QED BY <1>1, Inductive, PTL

(* A block is allocated exactly while a tensor shares it or a Create wraps *)
(* it, and its use count is the number of those tensors: no leak, no       *)
(* double free and no tensor on freed memory.                              *)
THEOREM NoLeakNoDanglingTensor == Spec => []BlocksLiveWhileShared
<1>1. IInv => BlocksLiveWhileShared
  <2> SUFFICES ASSUME IInv, NEW a \in Block
               PROVE  /\ uses[a] = Cardinality({h \in Handle : Counted(a, h)})
                      /\ a \in held <=> (uses[a] > 0 \/ making = a)
    BY DEF BlocksLiveWhileShared
  <2>1. {h \in Handle : Counted(a, h)} = Sharers(a)
    BY DEF Counted, Present, Sharers, Sharing, Shares
  <2> QED BY <2>1 DEF IInv, CountsExact, HeldForUse, Addr
<1> QED BY <1>1, Inductive, PTL

(* "The caller still owns the memory; Tensor must not free it".            *)
THEOREM CallersKeepTheirBlobs == Spec => []BlobsNeverFreed
<1>1. IInv => BlobsNeverFreed
  BY DEF IInv
<1> QED BY <1>1, Inductive, PTL

(* A tensor with bytes that was not moved from can read them, and its flag *)
(* tells a block from a blob.                                              *)
THEOREM BytesAreReadable == Spec => []BytesHaveABuffer
<1>1. IInv => BytesHaveABuffer
  <2> SUFFICES ASSUME IInv, NEW h \in Handle, Present(h)
               PROVE  /\ tensors[h].nbytes > 0 /\ ~tensors[h].moved => tensors[h].buffer.ptr \in held
                      /\ tensors[h].buffer.ptr # Null
                           => (tensors[h].owns <=> tensors[h].buffer.ptr \in Block)
    BY DEF BytesHaveABuffer
  <2>1. tensors[h] \in Tensor /\ Consistent(tensors[h])
    BY DEF IInv, TypeOK, AllConsistent, Present
  <2>2. tensors[h].buffer.ptr \in Addr => tensors[h].buffer.ptr \in held
    <3>1. tensors[h].buffer.ptr \in Blob => tensors[h].buffer.ptr \in held
      BY DEF IInv, BlobsNeverFreed
    <3>2. ASSUME tensors[h].buffer.ptr \in Block PROVE tensors[h].buffer.ptr \in held
      <4>1. Shares(tensors[h], tensors[h].buffer.ptr)
        BY <2>1, <3>2, TensorFacts DEF Consistent
      <4> QED BY <4>1, <3>2, Claimed DEF IInv, HeldForUse, Addr
    <3> QED BY <3>1, <3>2 DEF Addr
  <2> QED BY <2>1, <2>2, TensorFacts DEF Consistent
<1> QED BY <1>1, Inductive, PTL

(* An accessor shows the elements of a block as the type they were written *)
(* as.                                                                     *)
THEOREM AccessorsAgree == Spec => []ReadAsWritten
<1>1. IInv => ReadAsWritten
  <2> SUFFICES ASSUME IInv, NEW h \in Handle, NEW dt \in DataType, Present(h),
                      tensors[h].buffer.ptr \in Block, tensors[h].dtype = dt
               PROVE  content[tensors[h].buffer.ptr] \in {"unwritten", dt}
    BY DEF ReadAsWritten, CheckDtype
  <2>1. tensors[h] \in Tensor /\ Consistent(tensors[h])
    BY DEF IInv, TypeOK, AllConsistent, Present
  <2>2. h \in Sharers(tensors[h].buffer.ptr)
    BY <2>1, TensorFacts DEF Consistent, Sharers, Sharing
  <2> QED BY <2>2 DEF IInv, OneType
<1> QED BY <1>1, Inductive, PTL
=============================================================================
